--------------------------- MODULE DnsHistoryProofs ---------------------------
(***************************************************************************)
(* What DnsHistory promises for every set of hostnames, record sets and    *)
(* routes, every threshold and every number of scans.                      *)
(***************************************************************************)
EXTENDS DnsHistory, TLAPS

\* An observed answer turns a stored row into a stored row.
LEMMA ObservedType ==
  ASSUME NEW prev \in DomainState, NEW answer \in Observations, NEW interrupted \in BOOLEAN
  PROVE  Observed(prev, answer, interrupted) \in DomainState
  <1> DEFINE negatives == IF interrupted THEN 1 ELSE prev.count + 1
  <1>1. negatives \in Nat /\ prev.records \in Records \cup {NoRecords} /\ prev.seen \in BOOLEAN
    BY DEF DomainState
  <1>2. CASE answer \in Records
    BY <1>2, HistoryAssumption DEF Observed, DomainState
  <1>3. CASE answer \notin Records
    <2>1. PICK n \in Nat, s \in {"unknown", "pending_missing", "missing"} :
            Observed(prev, answer, interrupted) =
              [status |-> s, records |-> prev.records, count |-> n, seen |-> prev.seen]
      BY <1>1, <1>3 DEF Observed, DomainState
    <2>2. QED
      BY <1>1, <2>1 DEF DomainState
  <1>4. QED
    BY <1>2, <1>3

\* The row an observation is compared with is a stored row.
LEMMA PreviousRowType ==
  ASSUME TypeOK, NEW d \in Domains
  PROVE  PreviousRow(d) \in DomainState
  BY DEF TypeOK, PreviousRow, Previous, DomainState, RouteChanged

\* A finished scan stores a well-formed row for every hostname.
LEMMA NextRowType ==
  ASSUME TypeOK, NEW d \in Domains, NEW answer \in Observations
  PROVE  NextRow(d, answer) \in DomainState
  <1>1. InterruptedSequence \in BOOLEAN
    BY DEF InterruptedSequence
  <1>2. QED
    BY <1>1, PreviousRowType, ObservedType DEF NextRow

\* Replacing one element of the runs table keeps it a runs table.
LEMMA RunReplaced ==
  ASSUME NEW s \in Seq(Run), NEW i \in DOMAIN s, NEW r \in Run
  PROVE  /\ [s EXCEPT ![i] = r] \in Seq(Run)
         /\ Len([s EXCEPT ![i] = r]) = Len(s)
         /\ DOMAIN [s EXCEPT ![i] = r] = DOMAIN s
  OBVIOUS

\* The type invariant holds in every reachable state.
THEOREM TypeCorrect == Spec => []TypeOK
  <1>1. Init => TypeOK
    BY HistoryAssumption DEF Init, TypeOK, DomainState, NoRun, NoRecords
  <1>2. TypeOK /\ [Next]_vars => TypeOK'
    <2> SUFFICES ASSUME TypeOK, [Next]_vars PROVE TypeOK'
      OBVIOUS
    <2>1. ASSUME NEW route \in Routes, StartRun(route) PROVE TypeOK'
      <3>1. runs' \in Seq(Run)
        BY <2>1 DEF TypeOK, StartRun, Run, Observations, Uncertain
      <3>2. QED
        BY <2>1, <3>1 DEF TypeOK, StartRun
    <2>2. ASSUME NEW names \in SUBSET Domains, NEW answers \in [Domains -> Observations],
                 FinishRun(names, answers)
          PROVE  TypeOK'
      <3> DEFINE last == Len(runs)
                 r    == [runs[last] EXCEPT
                            !.status   = "accepted",
                            !.baseline = IsBaseline /\ Informative(answers),
                            !.observed = answers,
                            !.events   = IF IsBaseline THEN {} ELSE Changes(answers)]
      <3>1. last \in DOMAIN runs /\ runs[last] \in Run
        BY <2>2 DEF TypeOK, FinishRun, Busy
      <3>2. Changes(answers) \subseteq Event
        BY DEF Changes
      <3>3. r \in Run
        BY <3>1, <3>2 DEF Run
      <3>4. runs' = [runs EXCEPT ![last] = r]
        BY <2>2 DEF FinishRun
      <3>5. runs' \in Seq(Run)
        BY <3>1, <3>3, <3>4, RunReplaced DEF TypeOK
      <3>6. state' \in [Domains -> DomainState]
        <4>1. ASSUME NEW d \in Domains PROVE NextRow(d, answers[d]) \in DomainState
          BY NextRowType
        <4>2. QED
          BY <2>2, <4>1 DEF FinishRun, TypeOK
      <3>7. project' \in [baseline : Nat, route : Routes]
        BY <2>2, <3>1 DEF FinishRun, TypeOK, Run
      <3>8. QED
        BY <2>2, <3>5, <3>6, <3>7 DEF FinishRun, TypeOK
    <2>3. ASSUME NEW status \in Interrupted, EndUnpublished(status) PROVE TypeOK'
      <3> DEFINE r == [runs[Len(runs)] EXCEPT !.status = status]
      <3>1. Len(runs) \in DOMAIN runs /\ runs[Len(runs)] \in Run
        BY <2>3 DEF TypeOK, EndUnpublished, Busy
      <3>2. r \in Run
        BY <2>3, <3>1 DEF Run
      <3>3. runs' \in Seq(Run)
        BY <2>3, <3>1, <3>2, RunReplaced DEF TypeOK, EndUnpublished
      <3>4. QED
        BY <2>3, <3>3 DEF TypeOK, EndUnpublished
    <2>4. ASSUME NEW i \in DOMAIN runs, DeleteReport(i) PROVE TypeOK'
      <3> DEFINE r == [runs[i] EXCEPT !.deleted = TRUE, !.events = {}]
      <3>1. runs[i] \in Run
        BY DEF TypeOK
      <3>2. r \in Run
        BY <3>1 DEF Run
      <3>3. runs' \in Seq(Run)
        BY <2>4, <3>2, RunReplaced DEF TypeOK, DeleteReport
      <3>4. QED
        BY <2>4, <3>3 DEF TypeOK, DeleteReport
    <2>5. CASE UNCHANGED vars
      BY <2>5 DEF vars, TypeOK
    <2>6. QED
      BY <2>1, <2>2, <2>3, <2>4, <2>5
      DEF Next, FailRun, CancelRun, RecoverInterruptedRuns, Interrupted
  <1>3. QED
    BY <1>1, <1>2, PTL DEF Spec

-------------------------------------------------------------------------------
\* Attempt j keeps what it observed, its route and whether it was accepted.
SameOutcome(j) ==
  /\ runs'[j].observed = runs[j].observed
  /\ runs'[j].route = runs[j].route
  /\ runs'[j].status = "accepted" <=> runs[j].status = "accepted"

\* A confirmed absence stays confirmed while its attempts keep their outcome.
LEMMA ConfirmedIsStable ==
  ASSUME NEW d, NEW i \in Nat, \A j \in 1 .. i : SameOutcome(j)
  PROVE  \A route : Confirmed(d, i, route) => Confirmed(d, i, route)'
  <1>1. ASSUME i >= Threshold
        PROVE  \A j \in (i - Threshold + 1) .. i : SameOutcome(j)
    BY <1>1, HistoryAssumption
  <1>2. QED
    BY <1>1 DEF Confirmed, Negative, Accepted, SameOutcome

\* The newest run is running exactly when some run is.
LEMMA BusyOrIdle ==
  ASSUME TypeOK, OnlyNewestRuns
  PROVE  /\ Idle <=> ~Busy
         /\ Finished \in Nat
         /\ Finished <= Len(runs)
         /\ Finished > 0 => runs[Finished].status # "running"
  <1>1. Len(runs) \in Nat /\ DOMAIN runs = 1 .. Len(runs) /\ (runs = <<>> <=> Len(runs) = 0)
    BY DEF TypeOK
  <1>2. QED
    BY <1>1 DEF Idle, Busy, OnlyNewestRuns, Finished

\* Starting, failing, cancelling, recovering and deleting a report publish
\* nothing: the columns keep their meaning whatever ran in between.
LEMMA QuietStep ==
  ASSUME HistoryInv, TypeOK', OnlyNewestRuns',
         UNCHANGED <<candidates, state, project>>,
         Len(runs) <= Len(runs'),
         \A j \in 1 .. Len(runs) : SameOutcome(j) /\ runs'[j].events \subseteq runs[j].events,
         \A j \in Len(runs) + 1 .. Len(runs') : runs'[j].status # "accepted" /\ runs'[j].events = {},
         \/ Finished' = Finished
         \/ Finished' > Finished /\ runs'[Finished'].status # "accepted"
  PROVE  HistoryInv'
  <1> USE DEF HistoryInv
  <1>1. /\ Len(runs) \in Nat /\ DOMAIN runs = 1 .. Len(runs)
        /\ Len(runs') \in Nat /\ DOMAIN runs' = 1 .. Len(runs')
    BY DEF TypeOK
  <1>2. \A j \in 1 .. Len(runs) : SameOutcome(j) /\ runs'[j].events \subseteq runs[j].events
    OBVIOUS
  <1>3. \A j \in Len(runs) + 1 .. Len(runs') : runs'[j].status # "accepted" /\ runs'[j].events = {}
    OBVIOUS
  <1>4. Finished \in Nat /\ Finished <= Len(runs)
    BY BusyOrIdle
  <1>5. Finished' \in Nat /\ Finished' <= Len(runs')
    <2>1. runs' # <<>> => Len(runs') > 0
      BY <1>1 DEF TypeOK
    <2>2. QED
      BY <1>1, <2>1 DEF Finished, Busy
  <1>6. CountIsAStreak'
    <2> SUFFICES ASSUME NEW d \in Domains
                 PROVE  /\ state[d].count <= Finished'
                        /\ Finished' > 0 /\ Accepted(Finished)' =>
                             \A j \in Finished' - state[d].count + 1 .. Finished' :
                               Negative(d, j)' /\ runs'[j].route = project.route
      BY DEF CountIsAStreak
    <2>1. state[d].count \in Nat /\ state[d].count <= Finished
      BY DEF CountIsAStreak, TypeOK, DomainState
    <2>2. CASE Finished' = Finished
      <3>1. SUFFICES ASSUME Finished > 0, Accepted(Finished)',
                            NEW j \in Finished - state[d].count + 1 .. Finished
                     PROVE  Negative(d, j)' /\ runs'[j].route = project.route
        BY <2>1, <2>2
      <3>2. j \in 1 .. Len(runs) /\ Finished \in 1 .. Len(runs)
        BY <1>4, <2>1, <3>1
      <3>3. Accepted(Finished)
        BY <1>2, <2>2, <3>1, <3>2 DEF Accepted, SameOutcome
      <3>4. Negative(d, j) /\ runs[j].route = project.route
        BY <3>1, <3>3 DEF CountIsAStreak
      <3>5. QED
        BY <1>2, <3>2, <3>4 DEF Negative, Accepted, SameOutcome
    <2>3. CASE Finished' > Finished /\ runs'[Finished'].status # "accepted"
      BY <1>4, <1>5, <2>1, <2>3 DEF Accepted
    <2>4. QED
      BY <2>2, <2>3
  <1>7. SeenMeansResolved'
    <2> SUFFICES ASSUME NEW d \in Domains, state[d].seen
                 PROVE  \E j \in DOMAIN runs' : Resolved(d, j)'
      BY DEF SeenMeansResolved
    <2>1. PICK j \in DOMAIN runs : Resolved(d, j)
      BY DEF SeenMeansResolved
    <2>2. Resolved(d, j)'
      BY <1>1, <1>2, <2>1 DEF Resolved, Accepted, SameOutcome
    <2>3. QED
      BY <1>1, <2>2
  <1>8. OutsidersAreBlank'
    BY DEF OutsidersAreBlank
  <1>9. AbsenceEventIsEarned'
    <2> SUFFICES ASSUME NEW i \in DOMAIN runs', NEW e \in runs'[i].events, e.kind = "missing_confirmed"
                 PROVE  /\ Confirmed(e.domain, i, runs[i].route)'
                        /\ \E j \in 1 .. i : Resolved(e.domain, j)'
      BY DEF AbsenceEventIsEarned
    <2>1. i \in 1 .. Len(runs) /\ e \in runs[i].events
      BY <1>1, <1>2, <1>3
    <2>2. /\ Confirmed(e.domain, i, runs[i].route)
          /\ \E j \in 1 .. i : Resolved(e.domain, j)
      BY <1>1, <2>1 DEF AbsenceEventIsEarned
    <2>3. \A j \in 1 .. i : SameOutcome(j)
      BY <1>1, <1>2, <2>1
    <2>4. Confirmed(e.domain, i, runs[i].route)'
      <3>1. runs'[i].route = runs[i].route
        BY <2>1, <2>3 DEF SameOutcome
      <3>2. \A route : Confirmed(e.domain, i, route) => Confirmed(e.domain, i, route)'
        BY <2>1, <2>3, ConfirmedIsStable
      <3>3. PICK route : route = runs[i].route
        OBVIOUS
      <3>4. Confirmed(e.domain, i, route)'
        BY <2>2, <3>2, <3>3
      <3>5. QED
        BY <3>1, <3>3, <3>4 DEF Confirmed
    <2>5. \E j \in 1 .. i : Resolved(e.domain, j)'
      BY <2>2, <2>3 DEF Resolved, Accepted, SameOutcome
    <2>6. QED
      BY <2>4, <2>5
  <1>10. MissingStatusIsEarned'
    <2> SUFFICES ASSUME NEW d \in Domains, state[d].status = "missing"
                 PROVE  \E i \in DOMAIN runs' :
                          /\ Confirmed(d, i, project.route)'
                          /\ \A j \in i .. Len(runs') :
                               Accepted(j)' => ~Resolved(d, j)' /\ runs'[j].route = project.route
      BY DEF MissingStatusIsEarned
    <2>1. PICK i \in DOMAIN runs :
            /\ Confirmed(d, i, project.route)
            /\ \A j \in i .. Len(runs) :
                 Accepted(j) => ~Resolved(d, j) /\ runs[j].route = project.route
      BY DEF MissingStatusIsEarned
    <2>2. Confirmed(d, i, project.route)'
      <3>1. \A j \in 1 .. i : SameOutcome(j)
        BY <1>1, <1>2
      <3>2. \A route : Confirmed(d, i, route) => Confirmed(d, i, route)'
        BY <1>1, <3>1, ConfirmedIsStable
      <3>3. PICK route : route = project.route
        OBVIOUS
      <3>4. Confirmed(d, i, route)'
        BY <2>1, <3>2, <3>3
      <3>5. project'.route = project.route
        OBVIOUS
      <3>6. QED
        BY <3>3, <3>4, <3>5 DEF Confirmed
    <2>3. ASSUME NEW j \in i .. Len(runs'), Accepted(j)'
          PROVE  ~Resolved(d, j)' /\ runs'[j].route = project.route
      <3>1. j \in 1 .. Len(runs)
        BY <1>1, <1>3, <2>3 DEF Accepted
      <3>2. QED
        BY <1>1, <1>2, <2>1, <2>3, <3>1 DEF Accepted, Resolved, SameOutcome
    <2>4. QED
      BY <1>1, <2>2, <2>3
  <1>11. QED
    BY <1>6, <1>7, <1>8, <1>9, <1>10

\* What the stored row of the previous accepted scan contributes.
LEMMA PreviousRowFields ==
  ASSUME TypeOK, NEW d \in Domains
  PROVE  /\ PreviousRow(d).seen = state[d].seen
         /\ RouteChanged => PreviousRow(d).count = 0 /\ PreviousRow(d).status = "unknown"
         /\ ~RouteChanged => PreviousRow(d) = state[d]
  BY DEF PreviousRow, Previous, TypeOK, DomainState

\* What a finished scan stores for each kind of answer.
LEMMA NextRowFields ==
  ASSUME TypeOK, NEW d \in Domains, NEW answer \in Observations
  PROVE  /\ answer \in Records =>
              NextRow(d, answer).status = "resolved" /\ NextRow(d, answer).count = 0
         /\ answer = "negative" =>
              /\ NextRow(d, answer).count =
                   IF InterruptedSequence THEN 1 ELSE PreviousRow(d).count + 1
              /\ NextRow(d, answer).seen = PreviousRow(d).seen
              /\ NextRow(d, answer).status = "missing" =>
                   \/ PreviousRow(d).status = "missing"
                   \/ NextRow(d, answer).count >= Threshold
         /\ answer \in Uncertain =>
              /\ NextRow(d, answer).count = 0
              /\ NextRow(d, answer).seen = PreviousRow(d).seen
              /\ NextRow(d, answer).status = "missing" => PreviousRow(d).status = "missing"
  <1> DEFINE prev == PreviousRow(d)
  <1>1. prev \in DomainState
    BY PreviousRowType
  <1>2. CASE answer \in Records
    <2>1. answer # "negative" /\ answer \notin Uncertain
      BY <1>2, HistoryAssumption DEF Uncertain
    <2>2. NextRow(d, answer) = [status |-> "resolved", records |-> answer, count |-> 0, seen |-> TRUE]
      BY <1>2, <2>1 DEF NextRow, Observed
    <2>3. NextRow(d, answer).status = "resolved" /\ NextRow(d, answer).count = 0
      BY <2>2
    <2>4. QED
      BY <2>1, <2>3
  <1>3. CASE answer = "negative"
    <2>1. answer \notin Records /\ answer \notin Uncertain
      BY <1>3, HistoryAssumption DEF Uncertain
    <2>2. NextRow(d, answer) =
            [status  |-> IF prev.status = "missing"
                            \/ (IF InterruptedSequence THEN 1 ELSE prev.count + 1) >= Threshold
                         THEN "missing" ELSE "pending_missing",
             records |-> prev.records,
             count   |-> IF InterruptedSequence THEN 1 ELSE prev.count + 1,
             seen    |-> prev.seen]
      BY <1>1, <1>3, <2>1 DEF NextRow, Observed, DomainState
    <2>3. QED
      BY <1>3, <2>1, <2>2
  <1>4. CASE answer \in Uncertain
    <2>1. answer \notin Records /\ answer # "negative"
      BY <1>4, HistoryAssumption DEF Uncertain
    <2>2. NextRow(d, answer) =
            [status  |-> IF prev.status = "missing" THEN "missing" ELSE "unknown",
             records |-> prev.records, count |-> 0, seen |-> prev.seen]
      BY <1>1, <2>1 DEF NextRow, Observed, DomainState
    <2>3. QED
      BY <1>4, <2>1, <2>2
  <1>5. QED
    BY <1>2, <1>3, <1>4 DEF Observations

\* finish_run gives every column its meaning again.
LEMMA FinishStep ==
  ASSUME HistoryInv, TypeOK', NEW names \in SUBSET Domains,
         NEW answers \in [Domains -> Observations], FinishRun(names, answers)
  PROVE  HistoryInv'
  <1> USE DEF HistoryInv
  <1> DEFINE known == candidates \cup names
  <1>0. PICK last \in Nat : last = Len(runs)
    BY DEF TypeOK
  <1>1. /\ last = Len(runs) /\ last > 0 /\ DOMAIN runs = 1 .. last
        /\ runs[last] \in Run /\ runs[last].status = "running"
    BY <1>0 DEF FinishRun, Busy, TypeOK
  <1>2. /\ Len(runs') = last /\ DOMAIN runs' = 1 .. last
        /\ \A j \in 1 .. last - 1 : runs'[j] = runs[j]
        /\ runs'[last].status = "accepted"
        /\ runs'[last].observed = answers
        /\ runs'[last].route = runs[last].route
        /\ runs'[last].events = IF IsBaseline THEN {} ELSE Changes(answers)
    BY <1>1 DEF FinishRun, TypeOK, Run
  <1>3. Finished = last - 1 /\ Finished' = last
    BY <1>1, <1>2 DEF Finished, Busy, FinishRun
  <1>4. \A j \in 1 .. last - 1 : SameOutcome(j)
    BY <1>2 DEF SameOutcome
  <1>5. ~Accepted(last) /\ Accepted(last)'
    BY <1>1, <1>2 DEF Accepted
  <1>6. \A d \in Domains : state'[d] = IF d \in known THEN NextRow(d, answers[d]) ELSE state[d]
    BY DEF FinishRun
  <1>7. ASSUME NEW d \in Domains, answers[d] # "unchecked" PROVE d \in known
    BY <1>7 DEF FinishRun
  <1>8. ~RouteChanged => project'.route = project.route /\ runs[last].route = project.route
    BY <1>1 DEF FinishRun, RouteChanged, TypeOK
  <1>9. ASSUME NEW d \in Domains, answers[d] = "negative"
        PROVE  project'.route = runs[last].route
    <2>1. Informative(answers)
      BY <1>9 DEF Informative, Uncertain
    <2>2. CASE RouteChanged
      BY <1>1, <2>1, <2>2 DEF FinishRun, IsBaseline, TypeOK
    <2>3. QED
      BY <1>8, <2>2
  <1>10. OnlyNewestRuns'
    BY <1>1, <1>2 DEF OnlyNewestRuns
  <1>11. CountIsAStreak'
    <2> SUFFICES ASSUME NEW d \in Domains
                 PROVE  /\ state'[d].count <= last
                        /\ \A j \in last - state'[d].count + 1 .. last :
                             Negative(d, j)' /\ runs'[j].route = project'.route
      BY <1>3 DEF CountIsAStreak
    <2>1. CASE state'[d].count = 0
      BY <1>1, <2>1
    <2>2. CASE d \notin known
      BY <1>1, <1>6, <2>1, <2>2 DEF OutsidersAreBlank
    <2>3. CASE d \in known /\ answers[d] # "negative"
      BY <1>6, <2>1, <2>3, NextRowFields DEF Observations
    <2>4. CASE d \in known /\ answers[d] = "negative"
      <3>1. Negative(d, last)' /\ runs'[last].route = project'.route
        BY <1>2, <1>5, <1>9, <2>4 DEF Negative
      <3>2. state'[d].count = IF InterruptedSequence THEN 1 ELSE PreviousRow(d).count + 1
        BY <1>6, <2>4, NextRowFields DEF Observations
      <3>3. CASE InterruptedSequence \/ RouteChanged
        <4>1. state'[d].count = 1
          BY <3>2, <3>3, PreviousRowFields
        <4>2. QED
          BY <1>1, <3>1, <4>1
      <3>4. CASE ~InterruptedSequence /\ ~RouteChanged
        <4>1. state[d].count \in Nat /\ state[d].count <= last - 1
          BY <1>3 DEF CountIsAStreak, TypeOK, DomainState
        <4>2. state'[d].count = state[d].count + 1
          BY <3>2, <3>4, PreviousRowFields
        <4>3. last > 1 => Accepted(last - 1)
          <5>1. last > 1 => runs[last - 1] \in Run /\ runs[last - 1].status # "running"
            BY <1>1 DEF TypeOK, OnlyNewestRuns
          <5>2. QED
            BY <1>1, <3>4, <5>1 DEF InterruptedSequence, Accepted, Run
        <4>4. ASSUME NEW j \in last - state'[d].count + 1 .. last, j # last
              PROVE  Negative(d, j)' /\ runs'[j].route = project'.route
          <5>1. j \in (last - 1) - state[d].count + 1 .. last - 1 /\ j \in 1 .. last - 1 /\ last - 1 > 0
            BY <1>1, <4>1, <4>2, <4>4
          <5>2. Negative(d, j) /\ runs[j].route = project.route
            BY <1>3, <4>3, <5>1 DEF CountIsAStreak
          <5>3. QED
            BY <1>2, <1>8, <3>4, <5>1, <5>2 DEF Negative, Accepted
        <4>5. QED
          BY <1>1, <3>1, <4>1, <4>2, <4>4
      <3>5. QED
        BY <3>3, <3>4
    <2>5. QED
      BY <2>2, <2>3, <2>4
  <1>12. ASSUME NEW d \in Domains, state'[d].count >= Threshold
         PROVE  Confirmed(d, last, project.route)'
    <2>1. state'[d].count \in Nat /\ state'[d].count <= last
      BY <1>3, <1>11 DEF CountIsAStreak, TypeOK, DomainState
    <2>2. \A j \in last - state'[d].count + 1 .. last :
            Negative(d, j)' /\ runs'[j].route = project'.route
      BY <1>1, <1>3, <1>5, <1>11 DEF CountIsAStreak
    <2>3. \A j \in last - Threshold + 1 .. last : j \in last - state'[d].count + 1 .. last
      BY <1>1, <1>12, <2>1, HistoryAssumption
    <2>4. QED
      BY <1>1, <1>12, <2>1, <2>2, <2>3, HistoryAssumption DEF Confirmed
  <1>13. SeenMeansResolved'
    <2> SUFFICES ASSUME NEW d \in Domains, state'[d].seen
                 PROVE  \E j \in 1 .. last : Resolved(d, j)'
      BY <1>2 DEF SeenMeansResolved
    <2>1. CASE d \in known /\ answers[d] \in Records
      BY <1>1, <1>2, <1>5, <2>1 DEF Resolved
    <2>2. CASE ~(d \in known /\ answers[d] \in Records)
      <3>1. state[d].seen
        BY <1>6, <2>2, NextRowFields, PreviousRowFields DEF Observations
      <3>2. PICK j \in 1 .. last : Resolved(d, j)
        BY <1>1, <3>1 DEF SeenMeansResolved
      <3>3. j \in 1 .. last - 1
        BY <1>1, <1>5, <3>2 DEF Resolved
      <3>4. QED
        BY <1>1, <1>2, <3>2, <3>3 DEF Resolved, Accepted
    <2>3. QED
      BY <2>1, <2>2
  <1>14. OutsidersAreBlank'
    BY <1>6 DEF OutsidersAreBlank, FinishRun
  <1>15. AbsenceEventIsEarned'
    <2> SUFFICES ASSUME NEW i \in 1 .. last, NEW e \in runs'[i].events, e.kind = "missing_confirmed"
                 PROVE  /\ Confirmed(e.domain, i, runs[i].route)'
                        /\ \E j \in 1 .. i : Resolved(e.domain, j)'
      BY <1>2 DEF AbsenceEventIsEarned
    <2>1. CASE i < last
      <3>1. i \in 1 .. last - 1 /\ runs'[i] = runs[i] /\ e \in runs[i].events
        BY <1>1, <1>2, <2>1
      <3>2. Confirmed(e.domain, i, runs[i].route) /\ \E j \in 1 .. i : Resolved(e.domain, j)
        BY <1>1, <3>1 DEF AbsenceEventIsEarned
      <3>3. \A j \in 1 .. i : runs'[j] = runs[j] /\ SameOutcome(j)
        BY <1>1, <1>2, <1>4, <3>1
      <3>4. PICK route : route = runs[i].route
        OBVIOUS
      <3>5. Confirmed(e.domain, i, route)'
        BY <3>2, <3>3, <3>4, ConfirmedIsStable
      <3>6. Confirmed(e.domain, i, runs[i].route)'
        BY <3>1, <3>4, <3>5 DEF Confirmed
      <3>7. QED
        BY <3>2, <3>3, <3>6 DEF Resolved, Accepted
    <2>2. CASE i = last
      <3> DEFINE d == e.domain
      <3>1. ~IsBaseline /\ e \in Changes(answers)
        BY <1>2, <2>2
      <3>2. /\ d \in Domains /\ answers[d] = "negative"
            /\ PreviousRow(d).seen /\ PreviousRow(d).status # "missing"
            /\ NextRow(d, answers[d]).status = "missing"
        BY <3>1 DEF Changes, Change, Event
      <3>3. ~RouteChanged
        BY <3>1 DEF IsBaseline
      <3>4. d \in known /\ state'[d] = NextRow(d, answers[d])
        BY <1>6, <1>7, <3>2
      <3>5. state'[d].count >= Threshold
        BY <3>2, <3>4, NextRowFields DEF Observations
      <3>6. Confirmed(d, last, project.route)'
        BY <1>12, <3>2, <3>5
      <3>7. runs'[last].route = project'.route
        BY <1>2, <1>8, <3>3
      <3>8. Confirmed(d, i, runs[i].route)'
        BY <2>2, <3>6, <3>7 DEF Confirmed
      <3>9. PICK j \in 1 .. last : Resolved(d, j)
        BY <1>1, <3>2, PreviousRowFields DEF SeenMeansResolved
      <3>10. j \in 1 .. last - 1
        BY <1>1, <1>5, <3>9 DEF Resolved
      <3>11. Resolved(d, j)'
        BY <1>2, <3>9, <3>10 DEF Resolved, Accepted
      <3>12. QED
        BY <2>2, <3>8, <3>9, <3>11
    <2>3. QED
      BY <1>1, <2>1, <2>2
  <1>16. MissingStatusIsEarned'
    <2> SUFFICES ASSUME NEW d \in Domains, state'[d].status = "missing"
                 PROVE  \E i \in 1 .. last :
                          /\ Confirmed(d, i, project.route)'
                          /\ \A j \in i .. last :
                               Accepted(j)' => ~Resolved(d, j)' /\ runs'[j].route = project'.route
      BY <1>2 DEF MissingStatusIsEarned
    <2>1. d \in known /\ state'[d] = NextRow(d, answers[d])
      BY <1>6 DEF OutsidersAreBlank
    <2>2. answers[d] \notin Records
      BY <2>1, NextRowFields DEF Observations
    <2>3. ~Resolved(d, last)'
      BY <1>2, <2>2 DEF Resolved
    <2>4. CASE PreviousRow(d).status = "missing"
      <3>1. ~RouteChanged /\ state[d].status = "missing"
        BY <2>4, PreviousRowFields
      <3>2. PICK i \in 1 .. last :
              /\ Confirmed(d, i, project.route)
              /\ \A j \in i .. last : Accepted(j) => ~Resolved(d, j) /\ runs[j].route = project.route
        BY <1>1, <3>1 DEF MissingStatusIsEarned
      <3>3. Accepted(i)
        <4>1. i \in (i - Threshold + 1) .. i
          BY HistoryAssumption
        <4>2. QED
          BY <3>2, <4>1 DEF Confirmed, Negative
      <3>4. i \in 1 .. last - 1
        BY <1>1, <1>5, <3>3
      <3>5. \A j \in 1 .. i : SameOutcome(j)
        BY <1>1, <1>4, <3>4
      <3>6. \A route : Confirmed(d, i, route) => Confirmed(d, i, route)'
        BY <3>4, <3>5, ConfirmedIsStable
      <3>7. Confirmed(d, i, project.route)'
        BY <1>8, <3>1, <3>2, <3>6 DEF Confirmed, Negative, Accepted
      <3>8. ASSUME NEW j \in i .. last, Accepted(j)'
            PROVE  ~Resolved(d, j)' /\ runs'[j].route = project'.route
        <4>1. CASE j = last
          BY <1>2, <1>8, <2>3, <3>1, <4>1
        <4>2. CASE j < last
          <5>1. j \in 1 .. last - 1 /\ runs'[j] = runs[j]
            BY <1>1, <1>2, <3>4, <4>2
          <5>2. QED
            BY <1>8, <3>1, <3>2, <3>8, <5>1 DEF Accepted, Resolved
        <4>3. QED
          BY <1>1, <3>4, <4>1, <4>2
      <3>9. QED
        BY <3>7, <3>8
    <2>5. CASE PreviousRow(d).status # "missing"
      <3>1. answers[d] = "negative" /\ state'[d].count >= Threshold
        BY <2>1, <2>2, <2>5, NextRowFields DEF Observations
      <3>2. Confirmed(d, last, project.route)'
        BY <1>12, <3>1
      <3>3. runs'[last].route = project'.route
        BY <1>2, <1>9, <3>1
      <3>4. QED
        BY <1>1, <2>3, <3>2, <3>3
    <2>6. QED
      BY <2>4, <2>5
  <1>17. QED
    BY <1>10, <1>11, <1>13, <1>14, <1>15, <1>16

\* Every step keeps the inductive invariant.
LEMMA HistoryStep ==
  ASSUME HistoryInv, TypeOK', [Next]_vars
  PROVE  HistoryInv'
  <1>1. Len(runs) \in Nat /\ DOMAIN runs = 1 .. Len(runs)
    BY DEF HistoryInv, TypeOK
  <1>2. ASSUME NEW route \in Routes, StartRun(route) PROVE HistoryInv'
    <2>1. /\ Len(runs') = Len(runs) + 1 /\ DOMAIN runs' = 1 .. Len(runs) + 1
          /\ \A j \in 1 .. Len(runs) : runs'[j] = runs[j] /\ runs[j].status # "running"
          /\ runs'[Len(runs) + 1].status = "running" /\ runs'[Len(runs) + 1].events = {}
      BY <1>1, <1>2 DEF StartRun, Idle, HistoryInv, TypeOK
    <2>2. Finished = Len(runs) /\ Finished' = Len(runs)
      <3>1. ~Busy
        BY <1>2, BusyOrIdle DEF StartRun, HistoryInv
      <3>2. Busy'
        <4>1. runs' # <<>>
          BY <1>1, <2>1
        <4>2. QED
          BY <2>1, <4>1 DEF Busy
      <3>3. QED
        BY <1>1, <2>1, <3>1, <3>2 DEF Finished
    <2>3. OnlyNewestRuns'
      BY <1>1, <2>1 DEF OnlyNewestRuns
    <2>4. UNCHANGED <<candidates, state, project>>
      BY <1>2 DEF StartRun
    <2>5. QED
      BY <1>1, <2>1, <2>2, <2>3, <2>4, QuietStep DEF SameOutcome
  <1>3. ASSUME NEW names \in SUBSET Domains, NEW answers \in [Domains -> Observations],
               FinishRun(names, answers)
        PROVE  HistoryInv'
    BY <1>3, FinishStep
  <1>4. ASSUME NEW status \in Interrupted, EndUnpublished(status) PROVE HistoryInv'
    <2>1. /\ Len(runs) > 0 /\ runs[Len(runs)].status = "running"
          /\ Len(runs') = Len(runs) /\ DOMAIN runs' = DOMAIN runs
          /\ \A j \in 1 .. Len(runs) - 1 : runs'[j] = runs[j]
          /\ runs'[Len(runs)] = [runs[Len(runs)] EXCEPT !.status = status]
      BY <1>1, <1>4 DEF EndUnpublished, Busy, HistoryInv, TypeOK
    <2>2. runs[Len(runs)] \in Run
      BY <1>1, <2>1 DEF HistoryInv, TypeOK
    <2>3. /\ runs'[Len(runs)].status = status /\ status # "accepted" /\ status # "running"
          /\ runs'[Len(runs)].route = runs[Len(runs)].route
          /\ runs'[Len(runs)].observed = runs[Len(runs)].observed
          /\ runs'[Len(runs)].events = runs[Len(runs)].events
      BY <2>1, <2>2 DEF Run, Interrupted
    <2>4. Finished = Len(runs) - 1 /\ Finished' = Len(runs)
      BY <1>1, <1>4, <2>1, <2>3 DEF Finished, Busy, EndUnpublished
    <2>5. OnlyNewestRuns'
      BY <1>1, <2>1 DEF OnlyNewestRuns, HistoryInv
    <2>6. \A j \in 1 .. Len(runs) : SameOutcome(j) /\ runs'[j].events \subseteq runs[j].events
      <3> TAKE j \in 1 .. Len(runs)
      <3>1. CASE j = Len(runs)
        BY <2>1, <2>3, <3>1 DEF SameOutcome
      <3>2. CASE j # Len(runs)
        <4>1. runs'[j] = runs[j]
          BY <1>1, <2>1, <3>2
        <4>2. QED
          BY <4>1 DEF SameOutcome
      <3>3. QED
        BY <3>1, <3>2
    <2>7. UNCHANGED <<candidates, state, project>>
      BY <1>4 DEF EndUnpublished
    <2>8. Finished' > Finished /\ runs'[Finished'].status # "accepted"
      BY <1>1, <2>3, <2>4
    <2>9. \A j \in Len(runs) + 1 .. Len(runs') : FALSE
      BY <1>1, <2>1
    <2>10. QED
      BY <1>1, <2>1, <2>5, <2>6, <2>7, <2>8, <2>9, QuietStep
  <1>5. ASSUME NEW i \in DOMAIN runs, DeleteReport(i) PROVE HistoryInv'
    <2>1. runs[i] \in Run
      BY DEF HistoryInv, TypeOK
    <2>2. /\ Len(runs') = Len(runs) /\ DOMAIN runs' = DOMAIN runs
          /\ \A j \in 1 .. Len(runs) : j # i => runs'[j] = runs[j]
          /\ runs'[i] = [runs[i] EXCEPT !.deleted = TRUE, !.events = {}]
      BY <1>1, <1>5 DEF DeleteReport, HistoryInv, TypeOK
    <2>3. /\ runs'[i].status = runs[i].status /\ runs'[i].route = runs[i].route
          /\ runs'[i].observed = runs[i].observed /\ runs'[i].events = {}
      BY <2>1, <2>2 DEF Run
    <2>4. \A j \in 1 .. Len(runs) :
            /\ SameOutcome(j) /\ runs'[j].events \subseteq runs[j].events
            /\ runs'[j].status = runs[j].status
      BY <1>1, <2>2, <2>3 DEF SameOutcome
    <2>5. Finished = Len(runs) /\ Finished' = Len(runs)
      <3>1. \A j \in 1 .. Len(runs) : runs'[j].status # "running"
        BY <1>1, <1>5, <2>4 DEF DeleteReport, Idle
      <3>2. ~Busy /\ (runs' # <<>> => Len(runs') \in 1 .. Len(runs))
        BY <1>1, <1>5, <2>2, BusyOrIdle DEF DeleteReport, HistoryInv
      <3>3. ~Busy'
        BY <2>2, <3>1, <3>2 DEF Busy
      <3>4. QED
        BY <2>2, <3>2, <3>3 DEF Finished
    <2>6. OnlyNewestRuns'
      BY <1>1, <2>2, <2>4 DEF OnlyNewestRuns, HistoryInv
    <2>7. UNCHANGED <<candidates, state, project>>
      BY <1>5 DEF DeleteReport
    <2>8. QED
      BY <1>1, <2>2, <2>4, <2>5, <2>6, <2>7, QuietStep
  <1>6. CASE UNCHANGED vars
    BY <1>6 DEF vars, HistoryInv, TypeOK, OnlyNewestRuns, CountIsAStreak, Finished, Busy, Accepted,
                Negative, Resolved, SeenMeansResolved, OutsidersAreBlank, AbsenceEventIsEarned,
                Confirmed, MissingStatusIsEarned
  <1>7. QED
    BY <1>2, <1>3, <1>4, <1>5, <1>6
    DEF Next, FailRun, CancelRun, RecoverInterruptedRuns, Interrupted

\* The inductive invariant holds in every reachable state: what each stored
\* column means in terms of the attempts made so far.
THEOREM HistoryInvariant == Spec => []HistoryInv
  <1>1. Init => HistoryInv
    <2> SUFFICES ASSUME Init PROVE HistoryInv
      OBVIOUS
    <2>1. TypeOK
      BY HistoryAssumption DEF Init, TypeOK, DomainState, NoRun, NoRecords
    <2>2. runs = <<>> /\ Finished = 0
      BY DEF Init, Finished, Busy
    <2>3. QED
      BY <2>1, <2>2 DEF Init, HistoryInv, OnlyNewestRuns, CountIsAStreak, SeenMeansResolved,
         OutsidersAreBlank, AbsenceEventIsEarned, MissingStatusIsEarned
  <1>2. HistoryInv /\ TypeOK' /\ [Next]_vars => HistoryInv'
    BY HistoryStep
  <1>3. QED
    BY <1>1, <1>2, TypeCorrect, PTL DEF Spec

\* A "DNS absence confirmed" event always rests on Threshold consecutive
\* explicit negatives on one route of a hostname that resolved before.
THEOREM AbsenceEventsAreEarned == Spec => []AbsenceEventIsEarned
  <1>1. HistoryInv => AbsenceEventIsEarned
    BY DEF HistoryInv
  <1>2. QED
    BY <1>1, HistoryInvariant, PTL

\* A hostname is stored as missing only on the strength of a confirmed absence
\* on the accepted route that no later accepted scan contradicted.
THEOREM MissingStatusesAreEarned == Spec => []MissingStatusIsEarned
  <1>1. HistoryInv => MissingStatusIsEarned
    BY DEF HistoryInv
  <1>2. QED
    BY <1>1, HistoryInvariant, PTL

-------------------------------------------------------------------------------
(* The shown records, the resolution events and the baselines.             *)

\* Attempt l is the last before attempt i that resolved d.
LastAt(d, i, l) ==
  l \in 1 .. i - 1 /\ Resolved(d, l) /\ \A k \in l + 1 .. i - 1 : ~Resolved(d, k)

\* A row's records are those of the last resolution, if there was one.
RecordsInv ==
  \A d \in Domains :
    \/ /\ ~state[d].seen /\ state[d].records = NoRecords
       /\ \A j \in DOMAIN runs : ~Resolved(d, j)
    \/ /\ state[d].seen
       /\ \E l \in DOMAIN runs :
            /\ Resolved(d, l) /\ state[d].records = runs[l].observed[d]
            /\ \A k \in DOMAIN runs : k > l => ~Resolved(d, k)

\* The project knows its newest baseline and its route.
BaselineInv ==
  /\ project.baseline = NoRun => \A k \in DOMAIN runs : ~runs[k].baseline
  /\ project.baseline # NoRun =>
       /\ project.baseline \in DOMAIN runs /\ runs[project.baseline].status # "running"
       /\ runs[project.baseline].baseline /\ runs[project.baseline].route = project.route
       /\ \A k \in DOMAIN runs : k > project.baseline => ~runs[k].baseline

\* What an event says, with the resolution it refers to.
EventInv(i, e) ==
  /\ e.kind = "newly_observed" => ~EverResolved(e.domain, i)
  /\ e.kind = "reappeared" =>
       \E l \in 1 .. i - 1, j \in 1 .. i - 1 :
         LastAt(e.domain, i, l) /\ l <= j /\ Confirmed(e.domain, j, runs[i].route)
  /\ e.kind = "records_changed" =>
       \E l \in 1 .. i - 1 : /\ LastAt(e.domain, i, l) /\ runs[l].observed[e.domain] = e.before
                             /\ runs[i].observed[e.domain] # e.before
EventsInv == \A i \in DOMAIN runs : \A e \in runs[i].events : EventInv(i, e)

ReportsInv == RecordsInv /\ BaselineInv /\ ChangesHaveBaseline /\ EventsInv

\* The records and the memory of a resolution survive what does not resolve.
LEMMA RowKeepsRecords ==
  ASSUME TypeOK, NEW d \in Domains, NEW answer \in Observations
  PROVE  /\ PreviousRow(d).records = state[d].records /\ PreviousRow(d).seen = state[d].seen
         /\ answer \in Records => NextRow(d, answer).records = answer /\ NextRow(d, answer).seen
         /\ answer \notin Records =>
              NextRow(d, answer).records = state[d].records /\ NextRow(d, answer).seen = state[d].seen
  <1> DEFINE prev == PreviousRow(d)
  <1>1. prev \in DomainState /\ prev.records = state[d].records /\ prev.seen = state[d].seen
    BY PreviousRowType DEF PreviousRow, Previous, TypeOK, DomainState
  <1>2. CASE answer \in Records
    <2>1. answer # "negative" /\ answer \notin Uncertain
      BY <1>2, HistoryAssumption DEF Uncertain
    <2>2. NextRow(d, answer) = [status |-> "resolved", records |-> answer, count |-> 0, seen |-> TRUE]
      BY <1>2, <2>1 DEF NextRow, Observed
    <2>3. NextRow(d, answer).records = answer /\ NextRow(d, answer).seen = TRUE
      BY <2>2
    <2>4. QED
      BY <1>1, <1>2, <2>3
  <1>3. CASE answer \notin Records
    <2>1. NextRow(d, answer).records = prev.records /\ NextRow(d, answer).seen = prev.seen
      BY <1>1, <1>3 DEF NextRow, Observed, DomainState
    <2>2. QED
      BY <1>1, <1>3, <2>1
  <1>4. QED
    BY <1>2, <1>3

\* Which attempt resolved a hostname last depends on their outcomes alone.
LEMMA LastIsStable ==
  ASSUME NEW d, NEW i \in Nat, \A j \in 1 .. i - 1 : SameOutcome(j)
  PROVE  /\ \A l : LastAt(d, i, l) => LastAt(d, i, l)'
         /\ EverResolved(d, i)' => EverResolved(d, i)
  <1>1. \A j \in 1 .. i - 1 : Resolved(d, j)' <=> Resolved(d, j)
    BY DEF Resolved, Accepted, SameOutcome
  <1>2. \A l \in 1 .. i - 1 : \A k \in l + 1 .. i - 1 : k \in 1 .. i - 1
    OBVIOUS
  <1>3. QED
    BY <1>1, <1>2 DEF LastAt, EverResolved

\* The events of attempt i stay true while the attempts up to it keep their outcome.
LEMMA EventIsStable ==
  ASSUME NEW i \in Nat, NEW e, \A j \in 1 .. i : SameOutcome(j), EventInv(i, e)
  PROVE  EventInv(i, e)'
  <1>1. \A j \in 1 .. i - 1 : SameOutcome(j) /\ j \in Nat
    OBVIOUS
  <1>2. PICK d : d = e.domain
    OBVIOUS
  <1>3. i > 0 => runs'[i].route = runs[i].route /\ runs'[i].observed = runs[i].observed
    BY DEF SameOutcome
  <1>4. /\ \A l : LastAt(d, i, l) => LastAt(d, i, l)'
        /\ EverResolved(d, i)' => EverResolved(d, i)
    BY <1>1, LastIsStable
  <1>5. ASSUME NEW j \in 1 .. i - 1 PROVE \A route : Confirmed(d, j, route) => Confirmed(d, j, route)'
    <2>1. \A k \in 1 .. j : SameOutcome(k)
      OBVIOUS
    <2>2. QED
      BY <2>1, ConfirmedIsStable
  <1>6. CASE 1 .. i - 1 = {}
    BY <1>2, <1>6 DEF EventInv, EverResolved
  <1>7. CASE 1 .. i - 1 # {}
    <2>1. runs'[i].route = runs[i].route /\ runs'[i].observed = runs[i].observed
      BY <1>3, <1>7
    <2>2. e.kind = "newly_observed" => ~EverResolved(d, i)'
      BY <1>2, <1>4 DEF EventInv
    <2>3. PICK route : route = runs[i].route
      OBVIOUS
    <2>4. e.kind = "reappeared" =>
            \E l \in 1 .. i - 1, j \in 1 .. i - 1 : LastAt(d, i, l)' /\ l <= j /\ Confirmed(d, j, route)'
      BY <1>2, <1>4, <1>5, <2>3 DEF EventInv
    <2>5. e.kind = "records_changed" =>
            \E l \in 1 .. i - 1 : /\ LastAt(d, i, l)' /\ runs'[l].observed[d] = e.before
                                  /\ runs'[i].observed[d] # e.before
      BY <1>1, <1>2, <1>4, <2>1 DEF EventInv, SameOutcome
    <2>6. QED
      BY <1>2, <2>1, <2>2, <2>3, <2>4, <2>5 DEF EventInv, Confirmed, LastAt, EverResolved
  <1>8. QED
    BY <1>6, <1>7

\* Nothing that is not published changes what the reports say.
LEMMA QuietReports ==
  ASSUME HistoryInv, ReportsInv, TypeOK', UNCHANGED <<state, project>>,
         Len(runs) <= Len(runs'),
         \A j \in 1 .. Len(runs) :
           /\ SameOutcome(j) /\ runs'[j].events \subseteq runs[j].events
           /\ runs'[j].baseline = runs[j].baseline
           /\ runs[j].status # "running" => runs'[j].status # "running",
         \A j \in Len(runs) + 1 .. Len(runs') :
           runs'[j].status # "accepted" /\ runs'[j].events = {} /\ ~runs'[j].baseline
  PROVE  ReportsInv'
  <1>1. /\ Len(runs) \in Nat /\ DOMAIN runs = 1 .. Len(runs)
        /\ Len(runs') \in Nat /\ DOMAIN runs' = 1 .. Len(runs')
    BY DEF HistoryInv, TypeOK
  <1>2. \A j \in DOMAIN runs' : j \in DOMAIN runs \/ j \in Len(runs) + 1 .. Len(runs')
    BY <1>1
  <1>3. \A j \in DOMAIN runs : j \in DOMAIN runs' /\ SameOutcome(j)
    BY <1>1
  <1>4. RecordsInv'
    <2>1. SUFFICES ASSUME NEW d \in Domains
                   PROVE  \/ /\ ~state[d].seen /\ state[d].records = NoRecords
                             /\ \A j \in DOMAIN runs' : ~Resolved(d, j)'
                          \/ /\ state[d].seen
                             /\ \E l \in DOMAIN runs' :
                                  /\ Resolved(d, l)' /\ state[d].records = runs'[l].observed[d]
                                  /\ \A k \in DOMAIN runs' : k > l => ~Resolved(d, k)'
      BY DEF RecordsInv
    <2>2. \A j \in DOMAIN runs' : Resolved(d, j)' => j \in DOMAIN runs /\ Resolved(d, j)
      BY <1>2, <1>3 DEF Resolved, Accepted, SameOutcome
    <2>3. \A j \in DOMAIN runs : Resolved(d, j) => Resolved(d, j)' /\ runs'[j].observed[d] = runs[j].observed[d]
      BY <1>3 DEF Resolved, Accepted, SameOutcome
    <2>4. QED
      BY <1>3, <2>2, <2>3 DEF ReportsInv, RecordsInv
  <1>5. BaselineInv'
    <2>1. \A k \in DOMAIN runs' : runs'[k].baseline => k \in DOMAIN runs /\ runs[k].baseline
      BY <1>1, <1>2
    <2>2. CASE project.baseline = NoRun
      BY <2>1, <2>2 DEF ReportsInv, BaselineInv
    <2>3. CASE project.baseline # NoRun
      <3>1. PICK b \in DOMAIN runs : b = project.baseline
        BY <2>3 DEF ReportsInv, BaselineInv
      <3>2. /\ runs[b].status # "running" /\ runs[b].baseline /\ runs[b].route = project.route
            /\ \A k \in DOMAIN runs : k > b => ~runs[k].baseline
        BY <2>3, <3>1 DEF ReportsInv, BaselineInv
      <3>3. b \in DOMAIN runs' /\ runs'[b].status # "running" /\ runs'[b].baseline /\ runs'[b].route = project.route
        BY <1>1, <1>3, <3>2 DEF SameOutcome
      <3>4. QED
        BY <2>1, <2>3, <3>1, <3>2, <3>3 DEF BaselineInv
    <2>4. QED
      BY <2>2, <2>3
  <1>6. \A i \in DOMAIN runs' : runs'[i].events # {} => i \in DOMAIN runs /\ runs[i].events # {}
    BY <1>1, <1>2
  <1>7. ChangesHaveBaseline'
    <2>1. SUFFICES ASSUME NEW i \in DOMAIN runs, runs[i].events # {}
                   PROVE  \E b \in 1 .. i - 1 : IsCurrentBaseline(b, i)' /\ runs'[b].route = runs'[i].route
      BY <1>6 DEF ChangesHaveBaseline
    <2>2. PICK b \in 1 .. i - 1 : IsCurrentBaseline(b, i) /\ runs[b].route = runs[i].route
      BY <2>1 DEF ReportsInv, ChangesHaveBaseline
    <2>3. \A k \in b .. i : k \in 1 .. Len(runs)
      BY <1>1
    <2>4. \A k \in b .. i : runs'[k].baseline = runs[k].baseline /\ runs'[k].route = runs[k].route
      BY <2>3 DEF SameOutcome
    <2>5. i \in Nat /\ \A k \in b + 1 .. i - 1 : k \in b .. i
      BY <1>1
    <2>6. b \in b .. i /\ i \in b .. i
      BY <1>1
    <2>7. QED
      BY <2>2, <2>4, <2>5, <2>6 DEF IsCurrentBaseline
  <1>8. EventsInv'
    <2>1. SUFFICES ASSUME NEW i \in DOMAIN runs, NEW e \in runs[i].events PROVE EventInv(i, e)'
      <3>1. \A i \in DOMAIN runs' : \A e \in runs'[i].events : i \in DOMAIN runs /\ e \in runs[i].events
        BY <1>1, <1>2
      <3>2. QED
        BY <3>1 DEF EventsInv
    <2>2. i \in Nat /\ \A j \in 1 .. i : SameOutcome(j)
      BY <1>1
    <2>3. EventInv(i, e)
      BY DEF ReportsInv, EventsInv
    <2>4. QED
      BY <2>2, <2>3, EventIsStable
  <1>9. QED
    BY <1>4, <1>5, <1>7, <1>8 DEF ReportsInv

\* finish_run stores the new records, reports against the history and moves
\* the baseline.
LEMMA FinishReports ==
  ASSUME HistoryInv, ReportsInv, TypeOK', NEW names \in SUBSET Domains,
         NEW answers \in [Domains -> Observations], FinishRun(names, answers)
  PROVE  ReportsInv'
  <1> DEFINE known == candidates \cup names
             newBaseline == IsBaseline /\ Informative(answers)
  <1>0. TypeOK /\ MissingStatusIsEarned
    BY DEF HistoryInv
  <1>1. PICK last \in Nat : last = Len(runs)
    BY <1>0 DEF TypeOK
  <1>2. /\ last > 0 /\ DOMAIN runs = 1 .. last
        /\ runs[last] \in Run /\ runs[last].status = "running"
    BY <1>0, <1>1 DEF FinishRun, Busy, TypeOK
  <1>3. /\ Len(runs') = last /\ DOMAIN runs' = 1 .. last
        /\ \A j \in 1 .. last - 1 : runs'[j] = runs[j]
        /\ runs'[last].status = "accepted" /\ runs'[last].observed = answers
        /\ runs'[last].route = runs[last].route
        /\ runs'[last].events = IF IsBaseline THEN {} ELSE Changes(answers)
        /\ runs'[last].baseline = newBaseline
    BY <1>0, <1>1, <1>2 DEF FinishRun, TypeOK, Run
  <1>4. \A d \in Domains : state'[d] = IF d \in known THEN NextRow(d, answers[d]) ELSE state[d]
    BY DEF FinishRun
  <1>5. \A d \in Domains : answers[d] # "unchecked" => d \in known
    BY DEF FinishRun
  <1>6. \A d : ~Resolved(d, last)
    BY <1>2 DEF Resolved, Accepted
  <1>7. \A d : \A j \in 1 .. last - 1 : Resolved(d, j)' <=> Resolved(d, j)
    BY <1>3 DEF Resolved, Accepted
  <1>8. \A d \in Domains : Resolved(d, last)' <=> answers[d] \in Records
    BY <1>3 DEF Resolved, Accepted
  <1>9. ASSUME NEW d \in Domains
        PROVE  \/ /\ ~state[d].seen /\ state[d].records = NoRecords
                  /\ \A j \in 1 .. last - 1 : ~Resolved(d, j)
               \/ /\ state[d].seen
                  /\ \E l \in 1 .. last - 1 :
                       /\ Resolved(d, l) /\ state[d].records = runs[l].observed[d]
                       /\ \A k \in l + 1 .. last - 1 : ~Resolved(d, k)
    <2>1. \A l \in 1 .. last : Resolved(d, l) => l \in 1 .. last - 1
      BY <1>2, <1>6
    <2>2. \A l \in 1 .. last - 1 : l \in DOMAIN runs /\ \A k \in l + 1 .. last - 1 : k \in DOMAIN runs /\ k > l
      BY <1>2
    <2>3. QED
      BY <1>2, <2>1, <2>2 DEF ReportsInv, RecordsInv
  <1>10. RecordsInv'
    <2>1. SUFFICES ASSUME NEW d \in Domains
                   PROVE  \/ /\ ~state'[d].seen /\ state'[d].records = NoRecords
                             /\ \A j \in 1 .. last : ~Resolved(d, j)'
                          \/ /\ state'[d].seen
                             /\ \E l \in 1 .. last :
                                  /\ Resolved(d, l)' /\ state'[d].records = runs'[l].observed[d]
                                  /\ \A k \in 1 .. last : k > l => ~Resolved(d, k)'
      BY <1>3 DEF RecordsInv
    <2>2. CASE answers[d] \in Records
      <3>1. answers[d] # "unchecked"
        BY <2>2, HistoryAssumption
      <3>2. state'[d].records = answers[d] /\ state'[d].seen
        BY <1>0, <1>4, <1>5, <2>2, <3>1, RowKeepsRecords
      <3>3. last \in 1 .. last /\ \A k \in 1 .. last : ~(k > last)
        BY <1>2
      <3>4. QED
        BY <1>3, <1>8, <2>2, <3>2, <3>3
    <2>3. CASE answers[d] \notin Records
      <3>1. state'[d].records = state[d].records /\ state'[d].seen = state[d].seen
        BY <1>0, <1>4, <2>3, RowKeepsRecords
      <3>2. ~Resolved(d, last)'
        BY <1>8, <2>3
      <3>3. \A j \in 1 .. last : j # last => j \in 1 .. last - 1
        BY <1>2
      <3>4. CASE ~state[d].seen
        BY <1>7, <1>9, <3>1, <3>2, <3>3, <3>4
      <3>5. CASE state[d].seen
        <4>1. PICK l \in 1 .. last - 1 :
                /\ Resolved(d, l) /\ state[d].records = runs[l].observed[d]
                /\ \A k \in l + 1 .. last - 1 : ~Resolved(d, k)
          BY <1>9, <3>5
        <4>2. l \in 1 .. last /\ runs'[l] = runs[l] /\ Resolved(d, l)'
          BY <1>2, <1>3, <1>7, <4>1
        <4>3. \A k \in 1 .. last : k > l => k = last \/ (k \in l + 1 .. last - 1 /\ k \in 1 .. last - 1)
          BY <1>2
        <4>4. \A k \in 1 .. last : k > l => ~Resolved(d, k)'
          BY <1>7, <3>2, <4>1, <4>3
        <4>5. QED
          BY <3>1, <3>5, <4>1, <4>2, <4>4
      <3>6. QED
        BY <3>4, <3>5
    <2>4. QED
      BY <2>2, <2>3
  <1>11. ~IsBaseline =>
           \E b \in 1 .. last - 1 : /\ b = project.baseline /\ runs[b].baseline
                                    /\ runs[b].route = project.route
                                    /\ \A k \in b + 1 .. last : ~runs[k].baseline
    <2>1. SUFFICES ASSUME project.baseline # NoRun
                   PROVE  \E b \in 1 .. last - 1 : /\ b = project.baseline /\ runs[b].baseline
                                                   /\ runs[b].route = project.route
                                                   /\ \A k \in b + 1 .. last : ~runs[k].baseline
      BY DEF IsBaseline
    <2>2. PICK b \in 1 .. last : b = project.baseline
      BY <1>2, <2>1 DEF ReportsInv, BaselineInv
    <2>3. /\ runs[b].status # "running" /\ runs[b].baseline /\ runs[b].route = project.route
          /\ \A k \in 1 .. last : k > b => ~runs[k].baseline
      BY <1>2, <2>1, <2>2 DEF ReportsInv, BaselineInv
    <2>4. b \in 1 .. last - 1 /\ \A k \in b + 1 .. last : k \in 1 .. last /\ k > b
      BY <1>2, <2>2, <2>3
    <2>5. QED
      BY <2>2, <2>3, <2>4
  <1>12. BaselineInv'
    <2>1. CASE newBaseline
      <3>1. project' = [baseline |-> last, route |-> runs[last].route]
        BY <1>1, <2>1 DEF FinishRun
      <3>2. project'.baseline = last /\ project'.route = runs'[last].route /\ last # NoRun
        BY <1>2, <1>3, <3>1 DEF NoRun
      <3>3. last \in DOMAIN runs' /\ \A k \in DOMAIN runs' : ~(k > last)
        BY <1>2, <1>3
      <3>4. QED
        BY <1>3, <2>1, <3>2, <3>3 DEF BaselineInv
    <2>2. CASE ~newBaseline
      <3>1. project' = project
        BY <2>2 DEF FinishRun
      <3>2. ~runs'[last].baseline
        BY <1>3, <2>2
      <3>3. \A k \in 1 .. last : k # last => k \in 1 .. last - 1 /\ runs'[k] = runs[k]
        BY <1>2, <1>3
      <3>4. CASE project.baseline = NoRun
        <4>1. \A k \in 1 .. last : ~runs[k].baseline
          BY <1>2, <3>4 DEF ReportsInv, BaselineInv
        <4>2. \A k \in 1 .. last : ~runs'[k].baseline
          BY <3>2, <3>3, <4>1
        <4>3. QED
          BY <1>3, <3>1, <3>4, <4>2 DEF BaselineInv
      <3>5. CASE project.baseline # NoRun
        <4>1. PICK b \in 1 .. last : b = project.baseline
          BY <1>2, <3>5 DEF ReportsInv, BaselineInv
        <4>2. /\ runs[b].status # "running" /\ runs[b].baseline /\ runs[b].route = project.route
              /\ \A k \in 1 .. last : k > b => ~runs[k].baseline
          BY <1>2, <3>5, <4>1 DEF ReportsInv, BaselineInv
        <4>3. b # last /\ runs'[b] = runs[b]
          BY <1>2, <3>3, <4>2
        <4>4. \A k \in 1 .. last : k > b => ~runs'[k].baseline
          BY <3>2, <3>3, <4>2
        <4>5. QED
          BY <1>3, <3>1, <3>5, <4>1, <4>2, <4>3, <4>4 DEF BaselineInv
      <3>6. QED
        BY <3>4, <3>5
    <2>3. QED
      BY <2>1, <2>2
  <1>13. ChangesHaveBaseline'
    <2>1. SUFFICES ASSUME NEW i \in 1 .. last, runs'[i].events # {}
                   PROVE  \E b \in 1 .. i - 1 : IsCurrentBaseline(b, i)' /\ runs'[b].route = runs'[i].route
      BY <1>3 DEF ChangesHaveBaseline
    <2>2. CASE i < last
      <3>1. i \in 1 .. last - 1 /\ runs'[i] = runs[i]
        BY <1>2, <1>3, <2>2
      <3>2. PICK b \in 1 .. i - 1 : IsCurrentBaseline(b, i) /\ runs[b].route = runs[i].route
        BY <1>2, <2>1, <3>1 DEF ReportsInv, ChangesHaveBaseline
      <3>3. b \in 1 .. last - 1 /\ \A k \in b + 1 .. i - 1 : k \in 1 .. last - 1
        BY <1>2, <3>1, <3>2
      <3>4. QED
        BY <1>3, <3>1, <3>2, <3>3 DEF IsCurrentBaseline
    <2>3. CASE i = last
      <3>1. ~IsBaseline
        BY <1>3, <2>1, <2>3
      <3>2. PICK b \in 1 .. last - 1 : /\ runs[b].baseline /\ runs[b].route = project.route
                                       /\ \A k \in b + 1 .. last : ~runs[k].baseline
        BY <1>11, <3>1
      <3>3. runs[last].route = project.route
        BY <1>1, <3>1 DEF IsBaseline, RouteChanged
      <3>4. \A k \in b + 1 .. last - 1 : k \in b + 1 .. last /\ k \in 1 .. last - 1
        BY <1>2, <3>2
      <3>5. QED
        BY <1>3, <2>3, <3>2, <3>3, <3>4 DEF IsCurrentBaseline
    <2>4. QED
      BY <1>2, <2>2, <2>3
  <1>14. EventsInv'
    <2>1. SUFFICES ASSUME NEW i \in 1 .. last, NEW e \in runs'[i].events PROVE EventInv(i, e)'
      BY <1>3 DEF EventsInv
    <2>2. CASE i < last
      <3>1. i \in DOMAIN runs /\ e \in runs[i].events /\ i \in Nat
        BY <1>2, <1>3, <2>1, <2>2
      <3>2. \A j \in 1 .. i : j \in 1 .. last - 1
        BY <1>2, <2>2
      <3>3. \A j \in 1 .. i : SameOutcome(j)
        BY <1>3, <3>2 DEF SameOutcome
      <3>4. EventInv(i, e)
        BY <3>1 DEF ReportsInv, EventsInv
      <3>5. QED
        BY <3>1, <3>3, <3>4, EventIsStable
    <2>3. CASE i = last
      <3>1. ~IsBaseline /\ ~RouteChanged /\ e \in Changes(answers)
        BY <1>3, <2>1, <2>3 DEF IsBaseline
      <3>2. PICK d \in Domains : d = e.domain
        BY <3>1 DEF Changes, Event
      <3>3. /\ e.kind \in Change(PreviousRow(d), answers[d], NextRow(d, answers[d]))
            /\ e.before = PreviousRow(d).records
        BY <3>1, <3>2 DEF Changes
      <3>4. /\ PreviousRow(d).seen = state[d].seen /\ e.before = state[d].records
            /\ PreviousRow(d).status = state[d].status
        BY <1>0, <3>1, <3>3, PreviousRowFields
      <3>5. e.kind = "newly_observed" => ~EverResolved(d, last)'
        <4>1. e.kind = "newly_observed" => ~state[d].seen
          BY <3>3, <3>4 DEF Change
        <4>2. QED
          BY <1>7, <1>9, <4>1 DEF EverResolved
      <3>6. ASSUME state[d].seen
            PROVE  \E l \in 1 .. last - 1 :
                     LastAt(d, last, l)' /\ Resolved(d, l) /\ runs'[l].observed[d] = state[d].records
        <4>1. PICK l \in 1 .. last - 1 :
                /\ Resolved(d, l) /\ state[d].records = runs[l].observed[d]
                /\ \A k \in l + 1 .. last - 1 : ~Resolved(d, k)
          BY <1>9, <3>6
        <4>2. \A k \in l + 1 .. last - 1 : k \in 1 .. last - 1
          BY <4>1
        <4>3. QED
          BY <1>3, <1>7, <4>1, <4>2 DEF LastAt
      <3>7. ASSUME e.kind = "reappeared"
            PROVE  \E l \in 1 .. last - 1, j \in 1 .. last - 1 :
                     LastAt(d, last, l)' /\ l <= j /\ Confirmed(d, j, runs[last].route)'
        <4>1. state[d].seen /\ state[d].status = "missing"
          BY <3>3, <3>4, <3>7 DEF Change
        <4>2. PICK l \in 1 .. last - 1 : LastAt(d, last, l)' /\ Resolved(d, l)
          BY <3>6, <4>1
        <4>3. PICK j \in 1 .. last :
                /\ Confirmed(d, j, project.route)
                /\ \A k \in j .. last : Accepted(k) => ~Resolved(d, k)
          BY <1>0, <1>1, <1>2, <4>1 DEF MissingStatusIsEarned
        <4>4. j \in (j - Threshold + 1) .. j
          BY <4>3, HistoryAssumption
        <4>5. Accepted(j)
          BY <4>3, <4>4 DEF Confirmed, Negative
        <4>6. j # last
          BY <1>2, <4>5 DEF Accepted
        <4>7. j \in 1 .. last - 1
          BY <1>2, <4>3, <4>6
        <4>8. l <= j
          <5>1. ~(l \in j .. last)
            BY <4>2, <4>3 DEF Resolved
          <5>2. QED
            BY <1>2, <4>2, <4>7, <5>1
        <4>9. \A k \in 1 .. j : k \in 1 .. last - 1
          BY <4>7
        <4>10. \A k \in 1 .. j : SameOutcome(k)
          BY <1>3, <4>9 DEF SameOutcome
        <4>11. PICK route : route = project.route
          OBVIOUS
        <4>12. Confirmed(d, j, route)'
          BY <4>3, <4>7, <4>10, <4>11, ConfirmedIsStable
        <4>13. runs'[last].route = route
          BY <1>1, <1>3, <3>1, <4>11 DEF RouteChanged
        <4>14. Confirmed(d, j, runs[last].route)'
          BY <4>12, <4>13 DEF Confirmed
        <4>15. QED
          BY <4>2, <4>7, <4>8, <4>14
      <3>8. ASSUME e.kind = "records_changed"
            PROVE  \E l \in 1 .. last - 1 : /\ LastAt(d, last, l)' /\ runs'[l].observed[d] = e.before
                                            /\ runs'[last].observed[d] # e.before
        <4>1. state[d].seen /\ e.before # answers[d]
          BY <3>3, <3>4, <3>8 DEF Change
        <4>2. QED
          BY <1>3, <3>4, <3>6, <4>1
      <3>9. QED
        BY <2>3, <3>2, <3>5, <3>7, <3>8 DEF EventInv
    <2>4. QED
      BY <1>2, <2>2, <2>3
  <1>15. QED
    BY <1>10, <1>12, <1>13, <1>14 DEF ReportsInv

\* Every step keeps the meaning of the reports.
LEMMA ReportsStep ==
  ASSUME HistoryInv, ReportsInv, TypeOK', [Next]_vars
  PROVE  ReportsInv'
  <1>1. Len(runs) \in Nat /\ DOMAIN runs = 1 .. Len(runs) /\ \A i \in DOMAIN runs : runs[i] \in Run
    BY DEF HistoryInv, TypeOK
  <1>2. ASSUME NEW route \in Routes, StartRun(route) PROVE ReportsInv'
    <2>1. /\ Len(runs') = Len(runs) + 1 /\ \A j \in 1 .. Len(runs) : runs'[j] = runs[j]
          /\ runs'[Len(runs) + 1].status = "running" /\ runs'[Len(runs) + 1].events = {}
          /\ runs'[Len(runs) + 1].baseline = FALSE
      BY <1>1, <1>2 DEF StartRun, HistoryInv, TypeOK
    <2>2. UNCHANGED <<state, project>>
      BY <1>2 DEF StartRun
    <2>3. \A j \in 1 .. Len(runs) :
            /\ SameOutcome(j) /\ runs'[j].events \subseteq runs[j].events
            /\ runs'[j].baseline = runs[j].baseline /\ runs'[j].status = runs[j].status
      BY <2>1 DEF SameOutcome
    <2>4. \A j \in Len(runs) + 1 .. Len(runs') : j = Len(runs) + 1
      BY <1>1, <2>1
    <2>5. QED
      BY <1>1, <2>1, <2>2, <2>3, <2>4, QuietReports
  <1>3. ASSUME NEW names \in SUBSET Domains, NEW answers \in [Domains -> Observations],
               FinishRun(names, answers)
        PROVE  ReportsInv'
    BY <1>3, FinishReports
  <1>4. ASSUME NEW status \in Interrupted, EndUnpublished(status) PROVE ReportsInv'
    <2>1. /\ Len(runs) > 0 /\ runs[Len(runs)].status = "running" /\ Len(runs') = Len(runs)
          /\ \A j \in 1 .. Len(runs) - 1 : runs'[j] = runs[j]
          /\ runs'[Len(runs)] = [runs[Len(runs)] EXCEPT !.status = status]
      BY <1>1, <1>4 DEF EndUnpublished, Busy, HistoryInv, TypeOK
    <2>2. runs[Len(runs)] \in Run
      BY <1>1, <2>1
    <2>3. /\ runs'[Len(runs)].status = status /\ status # "accepted" /\ status # "running"
          /\ runs'[Len(runs)].route = runs[Len(runs)].route
          /\ runs'[Len(runs)].observed = runs[Len(runs)].observed
          /\ runs'[Len(runs)].events = runs[Len(runs)].events
          /\ runs'[Len(runs)].baseline = runs[Len(runs)].baseline
      BY <2>1, <2>2 DEF Run, Interrupted
    <2>4. \A j \in 1 .. Len(runs) : j # Len(runs) => j \in 1 .. Len(runs) - 1
      <3>1. \A n \in Nat : \A j \in 1 .. n : j # n => j \in 1 .. n - 1
        OBVIOUS
      <3>2. QED
        BY <1>1, <3>1
    <2>5. \A j \in 1 .. Len(runs) :
            /\ SameOutcome(j) /\ runs'[j].events \subseteq runs[j].events
            /\ runs'[j].baseline = runs[j].baseline
            /\ runs[j].status # "running" => runs'[j].status # "running"
      BY <2>1, <2>3, <2>4 DEF SameOutcome
    <2>6. UNCHANGED <<state, project>>
      BY <1>4 DEF EndUnpublished
    <2>7. \A j \in Len(runs) + 1 .. Len(runs') : FALSE
      BY <1>1, <2>1
    <2>8. QED
      BY <1>1, <2>1, <2>5, <2>6, <2>7, QuietReports
  <1>5. ASSUME NEW i \in DOMAIN runs, DeleteReport(i) PROVE ReportsInv'
    <2>1. /\ Len(runs') = Len(runs)
          /\ \A j \in 1 .. Len(runs) : j # i => runs'[j] = runs[j]
          /\ runs'[i] = [runs[i] EXCEPT !.deleted = TRUE, !.events = {}]
      BY <1>1, <1>5 DEF DeleteReport, HistoryInv, TypeOK
    <2>2. /\ runs'[i].status = runs[i].status /\ runs'[i].route = runs[i].route
          /\ runs'[i].observed = runs[i].observed /\ runs'[i].events = {}
          /\ runs'[i].baseline = runs[i].baseline
      BY <1>1, <2>1 DEF Run
    <2>3. \A j \in 1 .. Len(runs) :
            /\ SameOutcome(j) /\ runs'[j].events \subseteq runs[j].events
            /\ runs'[j].baseline = runs[j].baseline /\ runs'[j].status = runs[j].status
      BY <2>1, <2>2 DEF SameOutcome
    <2>4. UNCHANGED <<state, project>>
      BY <1>5 DEF DeleteReport
    <2>5. \A j \in Len(runs) + 1 .. Len(runs') : FALSE
      BY <1>1, <2>1
    <2>6. QED
      BY <1>1, <2>1, <2>3, <2>4, <2>5, QuietReports
  <1>6. CASE UNCHANGED vars
    <2>1. UNCHANGED <<state, project>> /\ runs' = runs
      BY <1>6 DEF vars
    <2>2. \A j \in 1 .. Len(runs) :
            /\ SameOutcome(j) /\ runs'[j].events \subseteq runs[j].events
            /\ runs'[j].baseline = runs[j].baseline /\ runs'[j].status = runs[j].status
      BY <2>1 DEF SameOutcome
    <2>3. Len(runs') = Len(runs) /\ \A j \in Len(runs) + 1 .. Len(runs') : FALSE
      BY <1>1, <2>1
    <2>4. QED
      BY <1>1, <2>1, <2>2, <2>3, QuietReports
  <1>7. QED
    BY <1>2, <1>3, <1>4, <1>5, <1>6
    DEF Next, FailRun, CancelRun, RecoverInterruptedRuns, Interrupted

\* The invariant of the reports holds in every reachable state: the memory each
\* row keeps of the last resolution, and what each event said when it was stored.
THEOREM ReportsInvariant == Spec => []ReportsInv
  <1>1. Init => ReportsInv
    <2> SUFFICES ASSUME Init PROVE ReportsInv
      OBVIOUS
    <2>1. DOMAIN runs = {} /\ project.baseline = NoRun
      BY DEF Init
    <2>2. \A d \in Domains : state[d].seen = FALSE /\ state[d].records = NoRecords
      BY DEF Init
    <2>3. QED
      BY <2>1, <2>2 DEF ReportsInv, RecordsInv, BaselineInv, ChangesHaveBaseline, EventsInv
  <1>2. ReportsInv /\ HistoryInv /\ TypeOK' /\ [Next]_vars => ReportsInv'
    BY ReportsStep
  <1>3. QED
    BY <1>1, <1>2, TypeCorrect, HistoryInvariant, PTL DEF Spec

\* The last resolution is what LastResolution chooses.
LEMMA LastResolutionIs ==
  ASSUME NEW d, NEW i \in Nat, NEW l, LastAt(d, i, l)
  PROVE  LastResolution(d, i) = l
  <1> DEFINE P(j) == Resolved(d, j) /\ \A k \in j + 1 .. i - 1 : ~Resolved(d, k)
  <1>1. l \in 1 .. i - 1 /\ P(l)
    BY DEF LastAt
  <1>2. ASSUME NEW j \in 1 .. i - 1, P(j) PROVE j = l
    <2>1. ~(l \in j + 1 .. i - 1) /\ ~(j \in l + 1 .. i - 1)
      BY <1>1, <1>2
    <2>2. QED
      BY <1>1, <1>2, <2>1
  <1>3. (CHOOSE j \in 1 .. i - 1 : P(j)) = l
    BY <1>1, <1>2
  <1>4. QED
    BY <1>3 DEF LastResolution

\* The records shown for a hostname are those of its latest accepted resolution,
\* whatever failed, negative, uncertain or other-route scans came after it.
THEOREM RecordsRemain == Spec => []LastGoodRecordsRemain
  <1>1. HistoryInv /\ ReportsInv => LastGoodRecordsRemain
    <2> SUFFICES ASSUME TypeOK, RecordsInv, NEW d \in Domains
                 PROVE  state[d].records = IF EverResolved(d, Len(runs) + 1)
                                           THEN runs[LastResolution(d, Len(runs) + 1)].observed[d]
                                           ELSE NoRecords
      BY DEF HistoryInv, ReportsInv, LastGoodRecordsRemain
    <2>1. Len(runs) + 1 \in Nat /\ 1 .. (Len(runs) + 1) - 1 = DOMAIN runs
      BY DEF TypeOK
    <2>2. CASE ~state[d].seen
      BY <2>1, <2>2 DEF RecordsInv, EverResolved
    <2>3. CASE state[d].seen
      <3>1. PICK l \in DOMAIN runs :
              /\ Resolved(d, l) /\ state[d].records = runs[l].observed[d]
              /\ \A k \in DOMAIN runs : k > l => ~Resolved(d, k)
        BY <2>3 DEF RecordsInv
      <3>2. \A k \in l + 1 .. (Len(runs) + 1) - 1 : k \in DOMAIN runs /\ k > l
        BY <2>1
      <3>3. LastAt(d, Len(runs) + 1, l) /\ EverResolved(d, Len(runs) + 1)
        BY <2>1, <3>1, <3>2 DEF LastAt, EverResolved
      <3>4. LastResolution(d, Len(runs) + 1) = l
        BY <2>1, <3>3, LastResolutionIs
      <3>5. QED
        BY <3>1, <3>3, <3>4
    <2>4. QED
      BY <2>2, <2>3
  <1>2. QED
    BY <1>1, HistoryInvariant, ReportsInvariant, PTL

\* A run reports changes only against an earlier baseline of its own DNS route.
THEOREM ReportsHaveBaseline == Spec => []ChangesHaveBaseline
  <1>1. ReportsInv => ChangesHaveBaseline
    BY DEF ReportsInv
  <1>2. QED
    BY <1>1, ReportsInvariant, PTL

\* Each resolution event matches the history before it: newly observed only for
\* a name never resolved, resolves-again only after a confirmed absence since its
\* last resolution, records-changed only when that resolution had other records.
THEOREM EventsMatchHistory == Spec => []ResolutionEventsMatchHistory
  <1>1. HistoryInv /\ ReportsInv => ResolutionEventsMatchHistory
    <2> SUFFICES ASSUME TypeOK, EventsInv, NEW i \in DOMAIN runs, NEW e \in runs[i].events
                 PROVE  /\ e.kind = "newly_observed" => ~EverResolved(e.domain, i)
                        /\ e.kind = "reappeared" =>
                             \E j \in LastResolution(e.domain, i) .. i - 1 :
                               Confirmed(e.domain, j, runs[i].route)
                        /\ e.kind = "records_changed" =>
                             /\ EverResolved(e.domain, i)
                             /\ runs[LastResolution(e.domain, i)].observed[e.domain] = e.before
                             /\ runs[i].observed[e.domain] # e.before
      BY DEF HistoryInv, ReportsInv, ResolutionEventsMatchHistory
    <2>1. i \in Nat /\ EventInv(i, e)
      BY DEF TypeOK, EventsInv
    <2>2. ASSUME e.kind = "reappeared"
          PROVE  \E j \in LastResolution(e.domain, i) .. i - 1 : Confirmed(e.domain, j, runs[i].route)
      <3>1. PICK l \in 1 .. i - 1, j \in 1 .. i - 1 :
              LastAt(e.domain, i, l) /\ l <= j /\ Confirmed(e.domain, j, runs[i].route)
        BY <2>1, <2>2 DEF EventInv
      <3>2. LastResolution(e.domain, i) = l
        BY <2>1, <3>1, LastResolutionIs
      <3>3. j \in l .. i - 1
        BY <2>1, <3>1
      <3>4. QED
        BY <3>1, <3>2, <3>3
    <2>3. ASSUME e.kind = "records_changed"
          PROVE  /\ EverResolved(e.domain, i)
                 /\ runs[LastResolution(e.domain, i)].observed[e.domain] = e.before
                 /\ runs[i].observed[e.domain] # e.before
      <3>1. PICK l \in 1 .. i - 1 : /\ LastAt(e.domain, i, l) /\ runs[l].observed[e.domain] = e.before
                                    /\ runs[i].observed[e.domain] # e.before
        BY <2>1, <2>3 DEF EventInv
      <3>2. LastResolution(e.domain, i) = l
        BY <2>1, <3>1, LastResolutionIs
      <3>3. QED
        BY <3>1, <3>2 DEF LastAt, EverResolved
    <2>4. QED
      BY <2>1, <2>2, <2>3 DEF EventInv
  <1>2. QED
    BY <1>1, HistoryInvariant, ReportsInvariant, PTL
===============================================================================
