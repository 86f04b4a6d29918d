----------------------------- MODULE MassDnsProofs -----------------------------
(***************************************************************************)
(* Reading the output of MassDNS in pieces gives what the whole output     *)
(* says, for any candidates, query types and records and any number of     *)
(* lines.                                                                  *)
(***************************************************************************)
EXTENDS MassDns, FiniteSetTheorems, TLAPS

(* The inductive invariant.                                                *)

\* No hostname is counted as resolved in the end without having been reported.
PositivesEmitted ==
  \A d \in Domains : Observation(questions[d]) = "resolved" => d \in emitted

RepliesFinite == \A d \in Domains, t \in Types : IsFiniteSet(Replies(d, t))

\* The process lives while resolve waits for it; before that there is no output.
ProcessInv ==
  /\ process = "running" => stage \in {"waiting", "ticking", "killing"}
  /\ stage = "checking" => process = "unborn" /\ unread = <<>> /\ ~fragment /\ seen = {}

IInv ==
  /\ AnswersMatchOutput
  /\ CountsMatchAnswers
  /\ OutcomeMatchesOutput
  /\ PositivesEmitted
  /\ RepliesFinite
  /\ ProcessInv

-------------------------------------------------------------------------------
(* Verdicts.                                                               *)

VerdictOf(replies) ==
  IF replies = {} THEN None
  ELSE IF Cardinality(replies) = 1 THEN CHOOSE a \in replies : TRUE
  ELSE [status |-> "unknown", records |-> UNION {a.records : a \in replies}]

\* The verdict depends on whether there are none, one or several replies.
LEMMA VerdictCases ==
  ASSUME NEW R, IsFiniteSet(R)
  PROVE  /\ R = {} => VerdictOf(R) = None
         /\ \A a : R = {a} => VerdictOf(R) = a
         /\ \A a, b \in R : a # b =>
              VerdictOf(R) = [status |-> "unknown", records |-> UNION {x.records : x \in R}]
  <1>1. ASSUME NEW a, R = {a} PROVE VerdictOf(R) = a
    <2>1. Cardinality(R) = 1 /\ R # {}
      BY <1>1, FS_Singleton
    <2>2. (CHOOSE x \in R : TRUE) = a
      BY <1>1
    <2>3. QED
      BY <2>1, <2>2 DEF VerdictOf
  <1>2. ASSUME NEW a \in R, NEW b \in R, a # b
        PROVE  VerdictOf(R) = [status |-> "unknown", records |-> UNION {x.records : x \in R}]
    <2>1. Cardinality(R) # 1 /\ R # {}
      BY <1>2, FS_Singleton
    <2>2. QED
      BY <2>1 DEF VerdictOf
  <1>3. QED
    BY <1>1, <1>2 DEF VerdictOf

\* No answer that is parsed is the absent answer.
LEMMA ParsedIsNotNone ==
  ASSUME NEW a \in Parsed
  PROVE  a # None /\ a \in Answer /\ a.records \in SUBSET Records
  BY DEF Parsed, Answer, Statuses, None

\* One more reply moves the merged answer from verdict to verdict, in any order
\* and with repetitions.
LEMMA MergedVerdict ==
  ASSUME NEW R \in SUBSET Parsed, IsFiniteSet(R), NEW a \in Parsed
  PROVE  Merged(VerdictOf(R), a) = VerdictOf(R \cup {a})
  <1> DEFINE all == R \cup {a}
  <1>1. IsFiniteSet(all)
    BY FS_AddElement
  <1>2. CASE R = {}
    <2>1. VerdictOf(R) = None /\ VerdictOf(all) = a
      BY <1>1, <1>2, VerdictCases
    <2>2. QED
      BY <2>1 DEF Merged
  <1>3. ASSUME NEW b \in R, R = {b} PROVE Merged(VerdictOf(R), a) = VerdictOf(all)
    <2>1. VerdictOf(R) = b /\ b # None
      BY <1>3, VerdictCases, ParsedIsNotNone
    <2>2. CASE a = b
      BY <1>3, <2>1, <2>2 DEF Merged
    <2>3. CASE a # b
      <3>1. VerdictOf(all) = [status |-> "unknown", records |-> UNION {x.records : x \in all}]
        BY <1>1, <2>3, VerdictCases
      <3>2. UNION {x.records : x \in all} = b.records \cup a.records
        BY <1>3
      <3>3. QED
        BY <2>1, <2>3, <3>1, <3>2 DEF Merged
    <2>4. QED
      BY <2>2, <2>3
  <1>4. ASSUME NEW b \in R, NEW c \in R, b # c PROVE Merged(VerdictOf(R), a) = VerdictOf(all)
    <2>1. PICK U : U = UNION {x.records : x \in R}
      OBVIOUS
    <2>2. VerdictOf(R) = [status |-> "unknown", records |-> U]
      BY <1>4, <2>1, VerdictCases
    <2>3. UNION {x.records : x \in all} = U \cup a.records
      BY <2>1
    <2>4. VerdictOf(all) = [status |-> "unknown", records |-> U \cup a.records]
      BY <1>1, <1>4, <2>3, VerdictCases
    <2>5. VerdictOf(R).records = U /\ VerdictOf(R) # None
      BY <2>2 DEF None
    <2>6. CASE VerdictOf(R) = a
      <3>1. U \cup a.records = U
        BY <2>5, <2>6
      <3>2. VerdictOf(all) = VerdictOf(R)
        BY <2>2, <2>4, <3>1
      <3>3. QED
        BY <2>6, <3>2 DEF Merged
    <2>7. CASE VerdictOf(R) # a
      BY <2>4, <2>5, <2>7 DEF Merged
    <2>8. QED
      BY <2>6, <2>7
  <1>5. QED
    BY <1>2, <1>3, <1>4

\* Merging answers gives an answer.
LEMMA MergedType ==
  ASSUME NEW previous \in Answer \cup {None}, NEW a \in Parsed
  PROVE  Merged(previous, a) \in Answer /\ Merged(previous, a) # None
  <1>1. a \in Answer /\ a # None /\ a.records \in SUBSET Records /\ previous.records \in SUBSET Records
    BY ParsedIsNotNone DEF Answer, None
  <1>2. CASE previous \in {None, a}
    BY <1>1, <1>2 DEF Merged
  <1>3. CASE previous \notin {None, a}
    BY <1>1, <1>3 DEF Merged, Answer, Statuses, None
  <1>4. QED
    BY <1>2, <1>3

\* A hostname has at most one category, and a resolved one an answer to every question.
LEMMA CategoryType ==
  ASSUME NEW answers
  PROVE  /\ Observation(answers) \in Categories
         /\ Category(answers) = IF Complete(answers) THEN {Observation(answers)} ELSE {}
         /\ Observation(answers) = "resolved" => Category(answers) = {"resolved"}
  <1>1. Observation(answers) \in Categories
    BY DEF Observation, Categories
  <1>2. ASSUME Observation(answers) = "resolved" PROVE Complete(answers)
    <2>1. "none" \notin {answers[t].status : t \in Types}
      BY <1>2 DEF Observation
    <2>2. QED
      BY <2>1 DEF Complete, None
  <1>3. QED
    BY <1>1, <1>2 DEF Category

-------------------------------------------------------------------------------
(* Reading a reply.                                                        *)

\* The answers of one reply, and those of all others.
LEMMA RepliesGrow ==
  ASSUME seen \in SUBSET Reply, NEW line \in Reply, seen' = seen \cup {line},
         NEW d \in Domains, NEW t \in Types
  PROVE  Replies(d, t)' = IF d = line.domain /\ t = line.type
                          THEN Replies(d, t) \cup {line.answer} ELSE Replies(d, t)
  BY DEF Replies

LEMMA RepliesType ==
  ASSUME seen \in SUBSET Reply, NEW d, NEW t
  PROVE  Replies(d, t) \in SUBSET Parsed
  BY DEF Replies, Reply

LEMMA ReadReplyKeeps ==
  ASSUME IInv, ReadReply
  PROVE  IInv'
  <1> DEFINE line == Head(unread)
             old  == questions[line.domain]
             new  == [old EXCEPT ![line.type] = Merged(@, line.answer)]
  <1>1. TypeOK /\ AnswersMatchOutput /\ RepliesFinite
    BY DEF IInv, AnswersMatchOutput
  <1>2. unread \in Seq(Line) /\ unread # <<>>
    BY <1>1 DEF TypeOK, ReadReply
  <1>3. line \in Line /\ unread' \in Seq(Line)
    BY <1>2 DEF ReadReply
  <1>4. line \in Reply
    BY <1>3 DEF ReadReply, Line
  <1>5. PICK d \in Domains, t \in Types, a \in Parsed :
          d = line.domain /\ t = line.type /\ a = line.answer
    BY <1>4 DEF Reply
  <1>6. seen' = seen \cup {line} /\ seen \in SUBSET Reply /\ seen' \in SUBSET Reply
    BY <1>1, <1>4 DEF ReadReply, TypeOK
  <1>7. questions \in [Domains -> [Types -> Answer \cup {None}]]
    BY <1>1 DEF TypeOK
  <1>8. old \in [Types -> Answer \cup {None}] /\ old = questions[d]
    BY <1>5, <1>7
  <1>9. Merged(old[t], a) \in Answer /\ Merged(old[t], a) # None
    BY <1>8, MergedType
  <1>10. /\ new \in [Types -> Answer \cup {None}] /\ new[t] = Merged(old[t], a)
         /\ \A u \in Types : u # t => new[u] = old[u]
    BY <1>5, <1>8, <1>9
  <1>11. /\ questions' \in [Domains -> [Types -> Answer \cup {None}]]
         /\ questions'[d] = new /\ \A e \in Domains : e # d => questions'[e] = questions[e]
    BY <1>5, <1>7, <1>10 DEF ReadReply
  <1>12. \A e \in Domains, u \in Types :
           Replies(e, u)' = IF e = d /\ u = t THEN Replies(e, u) \cup {a} ELSE Replies(e, u)
    BY <1>4, <1>5, <1>6, RepliesGrow
  <1>13. RepliesFinite'
    <2>1. ASSUME NEW e \in Domains, NEW u \in Types PROVE IsFiniteSet(Replies(e, u)')
      <3>1. IsFiniteSet(Replies(e, u))
        BY <1>1 DEF RepliesFinite
      <3>2. IsFiniteSet(Replies(e, u) \cup {a})
        BY <3>1, FS_AddElement
      <3>3. QED
        BY <1>12, <3>1, <3>2
    <2>2. QED
      BY <2>1 DEF RepliesFinite
  <1>14. \A e \in Domains, u \in Types : questions'[e][u] = Verdict(e, u)'
    <2>1. SUFFICES ASSUME NEW e \in Domains, NEW u \in Types
                   PROVE  questions'[e][u] = VerdictOf(Replies(e, u)')
      BY DEF Verdict, VerdictOf
    <2>2. questions[e][u] = VerdictOf(Replies(e, u))
      BY <1>1 DEF AnswersMatchOutput, Verdict, VerdictOf
    <2>3. CASE e = d /\ u = t
      <3>1. Replies(e, u) \in SUBSET Parsed /\ IsFiniteSet(Replies(e, u))
        BY <1>1, <1>6, RepliesType DEF RepliesFinite
      <3>2. Merged(VerdictOf(Replies(e, u)), a) = VerdictOf(Replies(e, u) \cup {a})
        BY <3>1, MergedVerdict
      <3>3. QED
        BY <1>8, <1>10, <1>11, <1>12, <2>2, <2>3, <3>2
    <2>4. CASE ~(e = d /\ u = t)
      <3>1. questions'[e][u] = questions[e][u]
        BY <1>8, <1>10, <1>11, <2>4
      <3>2. Replies(e, u)' = Replies(e, u)
        BY <1>12, <2>4
      <3>3. QED
        BY <2>2, <3>1, <3>2
    <2>5. QED
      BY <2>3, <2>4
  <1>15. emitted' = Emits(d, new) /\ emitted \in SUBSET Domains
    BY <1>1, <1>5 DEF ReadReply, TypeOK
  <1>16. \A e \in emitted' : \A u \in Types : Replies(e, u)' # {}
    <2>1. ASSUME NEW e \in emitted, NEW u \in Types PROVE Replies(e, u)' # {}
      BY <1>1, <1>12, <1>15, <2>1 DEF AnswersMatchOutput
    <2>2. ASSUME "resolved" \in Category(new), NEW u \in Types PROVE Replies(d, u)' # {}
      <3>1. new[u] # None
        BY <2>2 DEF Category, Complete
      <3>2. Verdict(d, u)' # None
        BY <1>11, <1>14, <3>1
      <3>3. QED
        BY <3>2 DEF Verdict
    <2>3. QED
      BY <1>15, <2>1, <2>2 DEF Emits
  <1>17. PositivesEmitted'
    <2>1. ASSUME NEW e \in Domains, Observation(questions'[e]) = "resolved" PROVE e \in emitted'
      <3>1. CASE e = d
        <4>1. "resolved" \in Category(new)
          BY <1>11, <2>1, <3>1, CategoryType
        <4>2. QED
          BY <1>15, <3>1, <4>1 DEF Emits
      <3>2. CASE e # d
        <4>1. e \in emitted
          BY <1>11, <2>1, <3>2 DEF IInv, PositivesEmitted
        <4>2. QED
          BY <1>15, <4>1 DEF Emits
      <3>3. QED
        BY <3>1, <3>2
    <2>2. QED
      BY <2>1 DEF PositivesEmitted, Observation
  <1>18. /\ counts' = Counted(Category(old), Category(new))
         /\ completed' =
              [questions |-> completed.questions + (IF old[t] = None THEN 1 ELSE 0),
               domains |-> completed.domains
                             + (IF Category(old) = {} /\ Category(new) # {} THEN 1 ELSE 0)]
    BY <1>5 DEF ReadReply
  <1>19. /\ \A c \in Categories :
              counts'[c] = Cardinality({e \in Domains : Category(questions'[e]) = {c}})
         /\ \A c \in Categories : counts'[c] \in Nat
    <2>1. SUFFICES ASSUME NEW c \in Categories
                   PROVE  /\ counts'[c] = Cardinality({e \in Domains : Category(questions'[e]) = {c}})
                          /\ counts'[c] \in Nat
      OBVIOUS
    <2> DEFINE before == {e \in Domains : Category(questions[e]) = {c}}
               after  == {e \in Domains : Category(questions'[e]) = {c}}
    <2>2. IsFiniteSet(Domains) /\ before \in SUBSET Domains /\ after \in SUBSET Domains
      BY BatchAssumption
    <2>3. /\ IsFiniteSet(before) /\ Cardinality(before) \in Nat
          /\ IsFiniteSet(after) /\ Cardinality(after) \in Nat
      BY <2>2, FS_Subset, FS_CardinalityType
    <2>4. counts[c] = Cardinality(before)
      BY DEF IInv, CountsMatchAnswers
    <2>5. \A e \in Domains : e # d => (e \in before <=> e \in after)
      BY <1>11
    <2>6. (d \in before <=> c \in Category(old)) /\ (d \in after <=> c \in Category(new))
      BY <1>8, <1>11 DEF Category
    <2>7. counts'[c] = CASE c \in Category(new) \ Category(old) -> counts[c] + 1
                         [] c \in Category(old) \ Category(new) -> counts[c] - 1
                         [] OTHER -> counts[c]
      BY <1>18 DEF Counted
    <2>8. CASE d \in after /\ d \notin before
      <3>1. after = before \cup {d}
        BY <2>5, <2>8
      <3>2. Cardinality(after) = Cardinality(before) + 1
        BY <2>3, <2>8, <3>1, FS_AddElement
      <3>3. counts'[c] = counts[c] + 1
        BY <2>6, <2>7, <2>8
      <3>4. QED
        BY <2>3, <2>4, <3>2, <3>3
    <2>9. CASE d \notin after /\ d \in before
      <3>1. after = before \ {d}
        BY <2>5, <2>9
      <3>2. Cardinality(after) = Cardinality(before) - 1
        BY <2>3, <2>9, <3>1, FS_RemoveElement
      <3>3. counts'[c] = counts[c] - 1
        BY <2>6, <2>7, <2>9
      <3>4. QED
        BY <2>3, <2>4, <3>2, <3>3
    <2>10. CASE d \in after <=> d \in before
      <3>1. after = before
        BY <2>5, <2>10
      <3>2. counts'[c] = counts[c]
        BY <2>6, <2>7, <2>10
      <3>3. QED
        BY <2>3, <2>4, <3>1, <3>2
    <2>11. QED
      BY <2>8, <2>9, <2>10
  <1>20. counts' \in [Categories -> Nat]
    BY <1>18, <1>19 DEF Counted
  <1>21. /\ completed'.domains = Cardinality({e \in Domains : Complete(questions'[e])})
         /\ completed'.domains \in Nat
    <2> DEFINE before == {e \in Domains : Complete(questions[e])}
               after  == {e \in Domains : Complete(questions'[e])}
    <2>1. IsFiniteSet(Domains) /\ before \in SUBSET Domains
      BY BatchAssumption
    <2>2. IsFiniteSet(before) /\ Cardinality(before) \in Nat
      BY <2>1, FS_Subset, FS_CardinalityType
    <2>3. completed.domains = Cardinality(before)
      BY DEF IInv, CountsMatchAnswers
    <2>4. \A e \in Domains : e # d => (e \in before <=> e \in after)
      BY <1>11
    <2>5. (d \in before <=> Category(old) # {}) /\ (d \in after <=> Category(new) # {})
      BY <1>8, <1>11 DEF Category
    <2>6. d \in before => d \in after
      BY <1>8, <1>9, <1>10, <1>11 DEF Complete
    <2>7. completed'.domains = completed.domains
                                 + (IF Category(old) = {} /\ Category(new) # {} THEN 1 ELSE 0)
      BY <1>18
    <2>8. CASE d \in after /\ d \notin before
      <3>1. after = before \cup {d}
        BY <2>4, <2>8
      <3>2. Cardinality(after) = Cardinality(before) + 1
        BY <2>2, <2>8, <3>1, FS_AddElement
      <3>3. QED
        BY <2>2, <2>3, <2>5, <2>7, <2>8, <3>2
    <2>9. CASE d \in after <=> d \in before
      <3>1. after = before
        BY <2>4, <2>9
      <3>2. completed'.domains = completed.domains
        BY <2>2, <2>3, <2>5, <2>7, <2>9
      <3>3. QED
        BY <2>2, <2>3, <3>1, <3>2
    <2>10. QED
      BY <2>6, <2>8, <2>9
  <1>22. /\ completed'.questions = Cardinality({x \in Domains \X Types : questions'[x[1]][x[2]] # None})
         /\ completed'.questions \in Nat
    <2> DEFINE before == {x \in Domains \X Types : questions[x[1]][x[2]] # None}
               after  == {x \in Domains \X Types : questions'[x[1]][x[2]] # None}
    <2>1. IsFiniteSet(Domains \X Types) /\ before \in SUBSET (Domains \X Types)
      BY BatchAssumption, FS_Product
    <2>2. IsFiniteSet(before) /\ Cardinality(before) \in Nat
      BY <2>1, FS_Subset, FS_CardinalityType
    <2>3. completed.questions = Cardinality(before)
      BY DEF IInv, CountsMatchAnswers
    <2>4. after = before \cup {<<d, t>>}
      <3>1. <<d, t>> \in after
        BY <1>9, <1>10, <1>11
      <3>2. ASSUME NEW x \in Domains \X Types, x # <<d, t>> PROVE x \in after <=> x \in before
        <4>1. questions'[x[1]][x[2]] = questions[x[1]][x[2]]
          BY <1>8, <1>10, <1>11, <3>2
        <4>2. QED
          BY <4>1
      <3>3. QED
        BY <3>1, <3>2
    <2>5. <<d, t>> \in before <=> old[t] # None
      BY <1>8
    <2>6. Cardinality(after) = IF old[t] # None THEN Cardinality(before) ELSE Cardinality(before) + 1
      BY <2>2, <2>4, <2>5, FS_AddElement
    <2>7. completed'.questions = completed.questions + (IF old[t] = None THEN 1 ELSE 0)
      BY <1>18
    <2>8. QED
      BY <2>2, <2>3, <2>6, <2>7
  <1>23. completed' \in [questions : Nat, domains : Nat]
    BY <1>18, <1>21, <1>22
  <1>24. CountsMatchAnswers'
    BY <1>19, <1>21, <1>22 DEF CountsMatchAnswers, Category, Observation, Complete
  <1>25. emitted' \in SUBSET Domains
    BY <1>15 DEF Emits
  <1>26. TypeOK'
    BY <1>1, <1>3, <1>6, <1>11, <1>20, <1>23, <1>25 DEF TypeOK, ReadReply
  <1>27. AnswersMatchOutput'
    BY <1>14, <1>16, <1>26 DEF AnswersMatchOutput
  <1>28. stage \in {"ticking", "last tick", "final"} /\ stage' = stage /\ process' = process
    BY DEF ReadReply, Reading
  <1>29. OutcomeMatchesOutput' /\ ProcessInv'
    BY <1>28 DEF OutcomeMatchesOutput, ProcessInv, IInv
  <1>30. QED
    BY <1>13, <1>17, <1>24, <1>27, <1>29 DEF IInv

-------------------------------------------------------------------------------
(* All other steps.                                                        *)

\* What the answers and the counters rest on.
Answers == <<seen, questions, counts, completed, emitted>>

\* A step that reads no reply keeps all that is said of the answers.
LEMMA AnswersKept ==
  ASSUME IInv, TypeOK', UNCHANGED Answers
  PROVE  /\ \A d \in Domains, t \in Types : Verdict(d, t)' = Verdict(d, t)
         /\ AnswersMatchOutput' /\ CountsMatchAnswers' /\ PositivesEmitted' /\ RepliesFinite'
  <1>1. /\ seen' = seen /\ questions' = questions /\ counts' = counts
        /\ completed' = completed /\ emitted' = emitted
    BY DEF Answers
  <1>2. \A d \in Domains, t \in Types : Replies(d, t)' = Replies(d, t)
    BY <1>1 DEF Replies
  <1>3. \A d \in Domains, t \in Types : Verdict(d, t)' = Verdict(d, t)
    <2>1. \A d \in Domains, t \in Types : Verdict(d, t) = VerdictOf(Replies(d, t))
      BY DEF Verdict, VerdictOf
    <2>2. \A d \in Domains, t \in Types : Verdict(d, t)' = VerdictOf(Replies(d, t)')
      BY DEF Verdict, VerdictOf
    <2>3. QED
      BY <1>2, <2>1, <2>2
  <1>4. AnswersMatchOutput' /\ RepliesFinite'
    <2>1. emitted \subseteq Domains
      BY DEF IInv, AnswersMatchOutput, TypeOK
    <2>2. AnswersMatchOutput'
      BY <1>1, <1>2, <1>3, <2>1 DEF IInv, AnswersMatchOutput
    <2>3. RepliesFinite'
      BY <1>2 DEF IInv, RepliesFinite
    <2>4. QED
      BY <2>2, <2>3
  <1>5. /\ \A c \in Categories :
             {e \in Domains : Category(questions'[e]) = {c}} = {e \in Domains : Category(questions[e]) = {c}}
        /\ {e \in Domains : Complete(questions'[e])} = {e \in Domains : Complete(questions[e])}
        /\ {x \in Domains \X Types : questions'[x[1]][x[2]] # None}
             = {x \in Domains \X Types : questions[x[1]][x[2]] # None}
    BY <1>1
  <1>6. /\ \A c \in Categories : counts'[c] = Cardinality({e \in Domains : Category(questions'[e]) = {c}})
        /\ completed'.domains = Cardinality({e \in Domains : Complete(questions'[e])})
        /\ completed'.questions = Cardinality({x \in Domains \X Types : questions'[x[1]][x[2]] # None})
    BY <1>1, <1>5 DEF IInv, CountsMatchAnswers
  <1>7. CountsMatchAnswers'
    BY <1>6 DEF CountsMatchAnswers, Category, Observation, Complete
  <1>8. PositivesEmitted'
    BY <1>1 DEF IInv, PositivesEmitted, Observation
  <1>9. QED
    BY <1>3, <1>4, <1>7, <1>8

\* A step that reads no reply and returns nothing keeps the invariant.
LEMMA QuietStep ==
  ASSUME IInv, TypeOK', ProcessInv', UNCHANGED Answers, stage' # "returned"
  PROVE  IInv'
  <1>1. OutcomeMatchesOutput'
    BY DEF OutcomeMatchesOutput
  <1>2. QED
    BY <1>1, AnswersKept DEF IInv

\* The output, as the verdicts say, of one hostname.
LEMMA VerdictsKept ==
  ASSUME NEW d \in Domains, \A t \in Types : Verdict(d, t)' = Verdict(d, t)
  PROVE  Observation([t \in Types |-> Verdict(d, t)])' = Observation([t \in Types |-> Verdict(d, t)])
  <1> DEFINE now == [t \in Types |-> Verdict(d, t)]
  <1>1. \A t \in Types : now[t]' = now[t]
    OBVIOUS
  <1>2. DOMAIN now' = Types /\ DOMAIN now = Types
    OBVIOUS
  <1>3. now' = now
    OBVIOUS
  <1> HIDE DEF now
  <1>4. Observation(now)' = Observation(now)
    BY <1>1, <1>3 DEF Observation
  <1>5. QED
    BY <1>4 DEF now

\* Cancelling changes nothing that was returned.
LEMMA ReturnedStep ==
  ASSUME IInv, TypeOK', ProcessInv', UNCHANGED <<Answers, stage, outcome, fatal, unread, fragment>>
  PROVE  IInv'
  <1>1. UNCHANGED Answers
    OBVIOUS
  <1>2. \A d \in Domains : Observation([t \in Types |-> Verdict(d, t)])' = Observation([t \in Types |-> Verdict(d, t)])
    BY <1>1, AnswersKept, VerdictsKept
  <1>3. emitted' = emitted
    BY DEF Answers
  <1>4. OutcomeMatchesOutput'
    BY <1>2, <1>3 DEF IInv, OutcomeMatchesOutput
  <1>5. QED
    BY <1>1, <1>4, AnswersKept DEF IInv

\* What the reader knows of a hostname is what the output says of it.
LEMMA QuestionsAreVerdicts ==
  ASSUME AnswersMatchOutput, NEW d \in Domains
  PROVE  questions[d] = [t \in Types |-> Verdict(d, t)]
  <1>1. questions[d] \in [Types -> Answer \cup {None}] /\ \A t \in Types : questions[d][t] = Verdict(d, t)
    BY DEF AnswersMatchOutput, TypeOK
  <1>2. QED
    BY <1>1

\* Giving up before the process starts leaves nothing to contradict.
LEMMA UnavailableKeeps ==
  ASSUME IInv, Unavailable
  PROVE  IInv'
  <1>1. /\ stage = "checking" /\ stage' = "returned" /\ UNCHANGED <<process, failed, unread, fragment, written>>
        /\ UNCHANGED <<seen, questions, counts, completed, emitted, fatal, unsupported, cancelled>>
        /\ outcome' = [d \in Domains |-> "uncertain"]
    BY DEF Unavailable, OnlyThread, reader
  <1>2. process = "unborn" /\ unread = <<>> /\ ~fragment /\ seen = {}
    BY <1>1 DEF IInv, ProcessInv
  <1>3. TypeOK'
    BY <1>1 DEF IInv, AnswersMatchOutput, TypeOK, Categories
  <1>4. \A d \in Domains, t \in Types : Verdict(d, t) = None
    BY <1>2 DEF Verdict, Replies
  <1>5. UNCHANGED Answers
    BY <1>1 DEF Answers
  <1>6. /\ \A d \in Domains, t \in Types : Verdict(d, t)' = Verdict(d, t)
        /\ AnswersMatchOutput' /\ CountsMatchAnswers' /\ PositivesEmitted' /\ RepliesFinite'
    BY <1>3, <1>5, AnswersKept
  <1>7. OutcomeMatchesOutput'
    <2>1. ASSUME NEW d \in Domains
          PROVE  Observation([t \in Types |-> Verdict(d, t)])' = "uncertain"
      <3>1. \A t \in Types : Verdict(d, t)' = None
        BY <1>4, <1>6
      <3>2. [t \in Types |-> Verdict(d, t)'] = [t \in Types |-> None]
        BY <3>1
      <3>3. PICK t \in Types : TRUE
        BY BatchAssumption
      <3>4. "none" \in {[u \in Types |-> None][v].status : v \in Types}
        BY <3>3 DEF None
      <3>5. Observation([u \in Types |-> None]) = "uncertain"
        BY <3>4 DEF Observation
      <3>6. QED
        BY <3>2, <3>5 DEF Observation
    <2>2. QED
      BY <1>1, <1>2, <2>1 DEF OutcomeMatchesOutput
  <1>8. ProcessInv'
    BY <1>1, <1>2 DEF ProcessInv
  <1>9. QED
    BY <1>6, <1>7, <1>8 DEF IInv

\* What resolve returns is the verdict of the output, or nothing is trusted.
LEMMA ReturnsKeeps ==
  ASSUME IInv, Returns
  PROVE  IInv'
  <1>1. /\ stage = "final" /\ stage' = "returned" /\ fatal' = (fatal \/ fragment)
        /\ UNCHANGED <<process, unread, fragment, written, unsupported, cancelled, failed>>
        /\ UNCHANGED <<seen, questions, counts, completed, emitted>>
        /\ outcome' = [d \in Domains |-> IF fatal \/ fragment THEN "uncertain" ELSE Observation(questions[d])]
        /\ fatal \/ unread = <<>>
    BY DEF Returns, file
  <1>2. TypeOK'
    <2>1. outcome' \in [Domains -> Categories \cup {"none"}]
      BY <1>1, CategoryType DEF Categories
    <2>2. QED
      BY <1>1, <2>1 DEF IInv, AnswersMatchOutput, TypeOK
  <1>3. UNCHANGED Answers
    BY <1>1 DEF Answers
  <1>4. AnswersMatchOutput' /\ CountsMatchAnswers' /\ PositivesEmitted' /\ RepliesFinite'
    BY <1>2, <1>3, AnswersKept
  <1>5. OutcomeMatchesOutput'
    <2>1. CASE fatal \/ fragment
      BY <1>1, <2>1 DEF OutcomeMatchesOutput
    <2>2. CASE ~(fatal \/ fragment)
      <3>1. \A d \in Domains : outcome'[d] = Observation(questions[d])
        BY <1>1, <2>2
      <3>2. \A d \in Domains : questions[d] = [t \in Types |-> Verdict(d, t)]
        BY QuestionsAreVerdicts DEF IInv
      <3>3. \A d \in Domains : outcome'[d] = Observation([t \in Types |-> Verdict(d, t)])
        BY <3>1, <3>2
      <3>4. \A d \in Domains : outcome'[d] = Observation([t \in Types |-> Verdict(d, t)])'
        BY <1>2, <1>3, <3>3, AnswersKept, VerdictsKept
      <3>5. \A d \in Domains : outcome'[d] = "resolved" => d \in emitted'
        BY <1>1, <3>1 DEF IInv, PositivesEmitted
      <3>6. QED
        BY <1>1, <2>2, <3>4, <3>5 DEF OutcomeMatchesOutput
    <2>3. QED
      BY <2>1, <2>2
  <1>6. ProcessInv'
    BY <1>1 DEF IInv, ProcessInv
  <1>7. QED
    BY <1>4, <1>5, <1>6 DEF IInv

\* Every step keeps the inductive invariant.
LEMMA Step ==
  ASSUME IInv, [Next]_vars
  PROVE  IInv'
  <1> USE DEF file, reader, Answers
  <1>1. TypeOK /\ ProcessInv
    BY DEF IInv, AnswersMatchOutput
  <1>2. unread \in Seq(Line)
    BY <1>1 DEF TypeOK
  <1>3. unread # <<>> => Tail(unread) \in Seq(Line)
    BY <1>2
  <1>4. \A line \in Line : Append(unread, line) \in Seq(Line)
    BY <1>2
  <1>5. CASE WritesFragment
    <2>1. TypeOK' /\ ProcessInv'
      <3>1. /\ process = "running" /\ written \in Nat /\ fragment' = TRUE /\ written' = written + 1
            /\ UNCHANGED <<process, unread, seen, questions, counts, completed, emitted, fatal,
                           unsupported, cancelled, stage, failed, outcome>>
        BY <1>1, <1>5 DEF WritesFragment, OnlyProcess, TypeOK
      <3>2. written' \in Nat /\ fragment' \in BOOLEAN
        BY <3>1
      <3>3. TypeOK'
        BY <1>1, <3>1, <3>2 DEF TypeOK
      <3>4. QED
        BY <1>1, <3>1, <3>3 DEF ProcessInv
    <2>2. QED
      BY <1>1, <1>5, <2>1, QuietStep DEF WritesFragment, OnlyProcess, ProcessInv
  <1>6. ASSUME NEW line \in Line, WritesLine(line) PROVE IInv'
    <2>1. TypeOK' /\ ProcessInv'
      BY <1>1, <1>4, <1>6 DEF WritesLine, OnlyProcess, TypeOK, ProcessInv
    <2>2. QED
      BY <1>1, <1>6, <2>1, QuietStep DEF WritesLine, OnlyProcess, ProcessInv
  <1>7. CASE ProcessEnds
    <2>1. TypeOK' /\ ProcessInv'
      BY <1>1, <1>7 DEF ProcessEnds, OnlyProcess, TypeOK, ProcessInv
    <2>2. QED
      BY <1>1, <1>7, <2>1, QuietStep DEF ProcessEnds, OnlyProcess, ProcessInv
  <1>8. CASE ReadReject
    <2>1. TypeOK' /\ ProcessInv'
      BY <1>1, <1>3, <1>8 DEF ReadReject, Reading, TypeOK, ProcessInv
    <2>2. QED
      BY <1>1, <1>8, <2>1, QuietStep DEF ReadReject, Reading
  <1>9. CASE Rejects
    <2>1. TypeOK' /\ ProcessInv'
      BY <1>1, <1>9 DEF Rejects, Reading, TypeOK, ProcessInv
    <2>2. QED
      BY <1>1, <1>9, <2>1, QuietStep DEF Rejects, Reading
  <1>10. CASE Starts
    <2>1. TypeOK' /\ ProcessInv'
      BY <1>1, <1>10 DEF Starts, OnlyThread, TypeOK, ProcessInv
    <2>2. QED
      BY <1>10, <2>1, QuietStep DEF Starts, OnlyThread
  <1>11. CASE Tick \/ TickEnds
    <2>1. TypeOK' /\ ProcessInv'
      BY <1>1, <1>11 DEF Tick, TickEnds, OnlyThread, TypeOK, ProcessInv
    <2>2. QED
      BY <1>11, <2>1, QuietStep DEF Tick, TickEnds, OnlyThread
  <1>12. CASE CommandReturns \/ CommandStops \/ CommandKills
    <2>1. TypeOK' /\ ProcessInv'
      BY <1>1, <1>12 DEF CommandReturns, CommandStops, CommandKills, OnlyThread, TypeOK, ProcessInv, Stopped
    <2>2. QED
      BY <1>12, <2>1, QuietStep DEF CommandReturns, CommandStops, CommandKills, OnlyThread
  <1>13. CASE Raises \/ FinalPoll
    <2>1. TypeOK' /\ ProcessInv'
      BY <1>1, <1>13 DEF Raises, FinalPoll, OnlyThread, TypeOK, ProcessInv
    <2>2. QED
      BY <1>13, <2>1, QuietStep DEF Raises, FinalPoll, OnlyThread
  <1>14. CASE Cancel
    <2>1. TypeOK' /\ ProcessInv'
      BY <1>1, <1>14 DEF Cancel, TypeOK, ProcessInv
    <2>2. QED
      BY <1>14, <2>1, ReturnedStep DEF Cancel
  <1>15. CASE UNCHANGED vars
    <2>1. TypeOK' /\ ProcessInv'
      BY <1>1, <1>15 DEF vars, TypeOK, ProcessInv
    <2>2. QED
      BY <1>15, <2>1, ReturnedStep DEF vars
  <1>16. QED
    BY <1>5, <1>6, <1>7, <1>8, <1>9, <1>10, <1>11, <1>12, <1>13, <1>14, <1>15,
       ReadReplyKeeps, UnavailableKeeps, ReturnsKeeps
    DEF Next, Process, Thread

LEMMA Start == Init => IInv
  <1> SUFFICES ASSUME Init PROVE IInv
    OBVIOUS
  <1>1. \A d \in Domains, t \in Types : questions[d][t] = None /\ Replies(d, t) = {}
    BY DEF Init, Replies
  <1>2. TypeOK
    <2>1. unread \in Seq(Line)
      BY DEF Init
    <2>2. QED
      BY <2>1 DEF Init, TypeOK
  <1>3. AnswersMatchOutput
    BY <1>1, <1>2 DEF Init, AnswersMatchOutput, Verdict
  <1>4. RepliesFinite
    BY <1>1, FS_EmptySet DEF RepliesFinite
  <1>5. \A d \in Domains : ~Complete(questions[d])
    BY <1>1, BatchAssumption DEF Complete
  <1>6. CountsMatchAnswers
    <2>1. {d \in Domains : Complete(questions[d])} = {}
      BY <1>5
    <2>2. \A c \in Categories : {d \in Domains : Category(questions[d]) = {c}} = {}
      BY <1>5 DEF Category
    <2>3. {x \in Domains \X Types : questions[x[1]][x[2]] # None} = {}
      BY <1>1
    <2>4. QED
      BY <2>1, <2>2, <2>3, FS_EmptySet DEF CountsMatchAnswers, Init
  <1>7. PositivesEmitted
    BY <1>5, CategoryType DEF PositivesEmitted
  <1>8. QED
    BY <1>3, <1>4, <1>6, <1>7 DEF Init, IInv, OutcomeMatchesOutput, ProcessInv

-------------------------------------------------------------------------------
(* The theorems.                                                           *)

\* The inductive invariant holds in every reachable state.
LEMMA Invariant == Spec => []IInv
  BY Start, Step, PTL DEF Spec

\* Reading the output line by line, in pieces and with duplicates, gives the
\* verdict of the whole output so far (poll).
THEOREM ReadingIsWhole == Spec => []AnswersMatchOutput
  <1>1. IInv => AnswersMatchOutput
    BY DEF IInv
  <1>2. QED
    BY <1>1, Invariant, PTL

\* The counters are what the answers say, also after contradictions moved a
\* hostname to another category.
THEOREM CountersAreTrue == Spec => []CountsMatchAnswers
  <1>1. IInv => CountsMatchAnswers
    BY DEF IInv
  <1>2. QED
    BY <1>1, Invariant, PTL

\* A returned batch is trusted exactly as far as its output: everything was read
\* and whole, or nothing is trusted, and every positive was reported before.
THEOREM OutcomeIsTrusted == Spec => []OutcomeMatchesOutput
  <1>1. IInv => OutcomeMatchesOutput
    BY DEF IInv
  <1>2. QED
    BY <1>1, Invariant, PTL
===============================================================================
