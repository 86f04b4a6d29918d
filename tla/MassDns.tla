-------------------------------- MODULE MassDns --------------------------------
(***************************************************************************)
(* One MassDNS batch: MassDnsResolver.resolve and _OutputReader of         *)
(* massdns.py, with _run_command of adapters.py.  The MassDNS process      *)
(* appends lines to a file; the resolver thread reads them every second    *)
(* while it waits for the process, and once more when the process is gone. *)
(*                                                                         *)
(* A line is a reply to one question (a hostname and a query type), of     *)
(* which _parse_reply and _wire_answers keep a status and records, or it   *)
(* is malformed, foreign or oversized, or it lacks the required patch.     *)
(***************************************************************************)
EXTENDS Naturals, Sequences, FiniteSets

CONSTANTS
  Domains,    \* the candidates
  Types,      \* QUERY_TYPES
  Records,    \* what a resolved question can hold
  MaxLines,   \* bound: lines the process writes
  MaxUnread   \* bound: complete lines it is ahead of the reader

ASSUME BatchAssumption ==
  IsFiniteSet(Domains) /\ IsFiniteSet(Types) /\ Types # {} /\ MaxLines \in Nat /\ MaxUnread \in Nat

VARIABLES
  process,    \* the MassDNS process: unborn, running, done (status 0), failed or killed
  unread,     \* complete lines in the file past the reader's offset
  fragment,   \* the file ends in a line without its newline
  written,    \* bound counter
  seen,       \* the replies read so far
  questions,  \* the reader's answer to each question
  counts,     \* hostnames per category
  completed,  \* completed_questions and completed_domains
  emitted,    \* hostnames given to result_callback
  fatal,      \* the reader rejected the output, which sets local_stop
  unsupported,
  cancelled,  \* the run's cancel event
  stage,      \* where resolve is
  failed,     \* command_error
  outcome     \* the observations resolve returns

file   == <<process, unread, fragment, written>>
reader == <<seen, questions, counts, completed, emitted, fatal, unsupported>>
vars   == <<file, reader, cancelled, stage, failed, outcome>>

Statuses   == {"resolved", "noanswer", "nxdomain", "unknown"}
Categories == {"resolved", "negative", "uncertain"}
Answer     == [status : Statuses, records : SUBSET Records]
None       == [status |-> "none", records |-> {}]

\* What _parse_reply can make of a reply: records only of a resolved one.
Parsed == {a \in Answer : IF a.status = "resolved" THEN a.records # {} ELSE a.records = {}}
Reply  == [kind : {"reply"}, domain : Domains, type : Types, answer : Parsed]
Line   == Reply \cup [kind : {"malformed", "unpatched"}]

Init ==
  /\ process = "unborn" /\ unread = <<>> /\ fragment = FALSE /\ written = 0
  /\ seen = {}
  /\ questions = [d \in Domains |-> [t \in Types |-> None]]
  /\ counts = [c \in Categories |-> 0]
  /\ completed = [questions |-> 0, domains |-> 0]
  /\ emitted = {} /\ fatal = FALSE /\ unsupported = FALSE
  /\ cancelled = FALSE
  /\ stage = "checking" /\ failed = FALSE
  /\ outcome = [d \in Domains |-> "none"]

-------------------------------------------------------------------------------
(* The process.                                                            *)

OnlyProcess == UNCHANGED <<reader, cancelled, stage, failed, outcome>>

\* The first bytes of a line reach the file.
WritesFragment ==
  /\ process = "running" /\ ~fragment
  /\ written < MaxLines /\ Len(unread) < MaxUnread
  /\ fragment' = TRUE /\ written' = written + 1
  /\ UNCHANGED <<process, unread>> /\ OnlyProcess

\* And its newline.
WritesLine(line) ==
  /\ process = "running" /\ fragment
  /\ unread' = Append(unread, line)
  /\ fragment' = FALSE
  /\ UNCHANGED <<process, written>> /\ OnlyProcess

\* A process that fails can leave a fragment behind.
ProcessEnds ==
  /\ process = "running"
  /\ process' \in IF fragment THEN {"failed"} ELSE {"done", "failed"}
  /\ UNCHANGED <<unread, fragment, written>> /\ OnlyProcess

-------------------------------------------------------------------------------
(* Judging a hostname.                                                     *)

\* _observation: resolved or negative only with a consistent answer to each
\* question.
Observation(answers) ==
  LET status == {answers[t].status : t \in Types} IN
  IF \/ status \cap {"none", "unknown"} # {}
     \/ "nxdomain" \in status /\ status # {"nxdomain"}
  THEN "uncertain"
  ELSE IF \E t \in Types : answers[t].records # {} THEN "resolved" ELSE "negative"

Complete(answers) == \A t \in Types : answers[t] # None

\* _category: none before every question is answered.
Category(answers) == IF Complete(answers) THEN {Observation(answers)} ELSE {}

\* Faulty: the first answer wins.
KeepsFirst(previous, answer) == IF previous = None THEN answer ELSE previous

\* A second, different answer makes a question uncertain for good.
Merged(previous, answer) ==
  IF previous \in {None, answer} THEN answer
  ELSE [status |-> "unknown", records |-> previous.records \cup answer.records]

-------------------------------------------------------------------------------
(* The reader.                                                             *)

Reading == stage \in {"ticking", "last tick", "final"} /\ ~fatal

\* Faulty: a hostname whose category changes is counted in both.
Recounted(before, after) ==
  [c \in Categories |-> IF c \in after \ before THEN counts[c] + 1 ELSE counts[c]]

\* Only a hostname that leaves a category is taken out of it.
Counted(before, after) ==
  [c \in Categories |-> CASE c \in after \ before -> counts[c] + 1
                          [] c \in before \ after -> counts[c] - 1
                          [] OTHER -> counts[c]]

\* The provisional positive, reported once.
Emits(d, answers) == IF "resolved" \in Category(answers) THEN emitted \cup {d} ELSE emitted

\* poll reads the next line: a reply to one of the questions.
ReadReply ==
  /\ Reading /\ unread # <<>> /\ Head(unread).kind = "reply"
  /\ LET line    == Head(unread)
         old     == questions[line.domain]
         new     == [old EXCEPT ![line.type] = Merged(@, line.answer)]
         before  == Category(old)
         after   == Category(new)
     IN /\ questions' = [questions EXCEPT ![line.domain] = new]
        /\ seen' = seen \cup {line}
        /\ counts' = Counted(before, after)
        /\ completed' = [questions |-> completed.questions + IF old[line.type] = None THEN 1 ELSE 0,
                         domains   |-> completed.domains + IF before = {} /\ after # {} THEN 1 ELSE 0]
        /\ emitted' = Emits(line.domain, new)
  /\ unread' = Tail(unread)
  /\ UNCHANGED <<process, fragment, written, fatal, unsupported, cancelled, stage, failed, outcome>>

\* poll meets a line it cannot use: the whole batch is rejected.
ReadReject ==
  /\ Reading /\ unread # <<>> /\ Head(unread).kind # "reply"
  /\ fatal' = TRUE
  /\ unsupported' = (Head(unread).kind = "unpatched")
  /\ unread' = Tail(unread)
  /\ UNCHANGED <<process, fragment, written, seen, questions, counts, completed, emitted,
                 cancelled, stage, failed, outcome>>

\* The file is too large, unreadable or full of duplicates, or the DNS relay of
\* the scan's proxy failed.
Rejects ==
  /\ Reading
  /\ fatal' = TRUE
  /\ UNCHANGED <<file, seen, questions, counts, completed, emitted, unsupported, cancelled,
                 stage, failed, outcome>>

-------------------------------------------------------------------------------
(* The resolver thread.                                                    *)

OnlyThread == UNCHANGED <<unread, fragment, written, reader, cancelled>>
Stopped    == cancelled \/ fatal         \* _StopSignal

\* No usable MassDNS: every hostname is uncertain.
Unavailable ==
  /\ stage = "checking"
  /\ outcome' = [d \in Domains |-> "uncertain"]
  /\ stage' = "returned"
  /\ UNCHANGED <<process, failed>> /\ OnlyThread

\* The process starts, or cannot and the empty output is read all the same.
Starts ==
  /\ stage = "checking" /\ ~cancelled
  /\ \/ process' = "running" /\ stage' = "waiting" /\ UNCHANGED failed
     \/ stage' = "ended" /\ failed' = TRUE /\ UNCHANGED process
  /\ UNCHANGED outcome /\ OnlyThread

\* Every second, unless a stop or the deadline comes first.
Tick ==
  /\ stage = "waiting" /\ ~Stopped
  /\ stage' = "ticking"
  /\ UNCHANGED <<process, failed, outcome>> /\ OnlyThread

\* poll returns at the end of the file or after MAX_POLL_BYTES.
TickEnds ==
  /\ stage \in {"ticking", "last tick"}
  /\ stage' = IF stage = "ticking" THEN "waiting" ELSE "ended"
  /\ UNCHANGED <<process, failed, outcome>> /\ OnlyThread

\* process.wait returns, and the reader ticks once more.
CommandReturns ==
  /\ stage = "waiting" /\ process \in {"done", "failed"}
  /\ stage' = "last tick" /\ failed' = (process = "failed")
  /\ UNCHANGED <<process, outcome>> /\ OnlyThread

\* A stop, or the deadline, whichever the loop sees first; the process can
\* write on until it is killed.
CommandStops ==
  /\ stage = "waiting"
  /\ stage' = "killing"
  /\ failed' = (failed \/ ~Stopped)
  /\ UNCHANGED <<process, outcome>> /\ OnlyThread

CommandKills ==
  /\ stage = "killing"
  /\ process' = IF process = "running" THEN "killed" ELSE process
  /\ stage' = "ended"
  /\ UNCHANGED <<failed, outcome>> /\ OnlyThread

\* A cancelled run raises before the batch, before the final poll and before
\* its results.
Raises ==
  /\ \/ stage \in {"checking", "ended", "final"} /\ cancelled
     \/ stage = "final" /\ unsupported
  /\ stage' = "raised"
  /\ UNCHANGED <<process, failed, outcome>> /\ OnlyThread

FinalPoll ==
  /\ stage = "ended" /\ ~cancelled
  /\ stage' = "final"
  /\ UNCHANGED <<process, failed, outcome>> /\ OnlyThread

\* Faulty: a fragment at the end of the file is left alone.
ReturnsAnyway ==
  /\ stage = "final" /\ ~cancelled /\ ~unsupported
  /\ fatal \/ unread = <<>>
  /\ outcome' = [d \in Domains |-> IF fatal THEN "uncertain" ELSE Observation(questions[d])]
  /\ stage' = "returned"
  /\ UNCHANGED <<file, reader, cancelled, failed>>

\* The final poll reads to the end of the file and rejects a fragment there;
\* nothing of a rejected batch is trusted.
Returns ==
  LET rejected == fatal \/ fragment IN
  /\ stage = "final" /\ ~cancelled /\ ~unsupported
  /\ fatal \/ unread = <<>>
  /\ fatal' = rejected
  /\ outcome' = [d \in Domains |-> IF rejected THEN "uncertain" ELSE Observation(questions[d])]
  /\ stage' = "returned"
  /\ UNCHANGED <<file, seen, questions, counts, completed, emitted, unsupported, cancelled, failed>>

Cancel ==
  /\ ~cancelled
  /\ cancelled' = TRUE
  /\ UNCHANGED <<file, reader, stage, failed, outcome>>

Process == WritesFragment \/ (\E line \in Line : WritesLine(line)) \/ ProcessEnds
Thread  == ReadReply \/ ReadReject \/ Rejects \/ Unavailable \/ Starts \/ Tick \/ TickEnds \/ CommandReturns \/ CommandStops
           \/ CommandKills \/ Raises \/ FinalPoll \/ Returns

Next == Process \/ Thread \/ Cancel

Spec == Init /\ [][Next]_vars

-------------------------------------------------------------------------------
(* Correctness.                                                            *)

TypeOK ==
  /\ process \in {"unborn", "running", "done", "failed", "killed"}
  /\ unread \in Seq(Line)
  /\ fragment \in BOOLEAN /\ written \in Nat
  /\ seen \in SUBSET Reply
  /\ questions \in [Domains -> [Types -> Answer \cup {None}]]
  /\ counts \in [Categories -> Nat]
  /\ completed \in [questions : Nat, domains : Nat]
  /\ emitted \in SUBSET Domains
  /\ fatal \in BOOLEAN /\ unsupported \in BOOLEAN /\ cancelled \in BOOLEAN /\ failed \in BOOLEAN
  /\ stage \in {"checking", "waiting", "ticking", "last tick", "killing", "ended", "final", "returned", "raised"}
  /\ outcome \in [Domains -> Categories \cup {"none"}]

\* The answers the output holds for one question.
Replies(d, t) == {line.answer : line \in {l \in seen : l.domain = d /\ l.type = t}}

\* What the whole output says of a question, whatever the order of its lines:
\* nothing, its only answer, or uncertainty about all of them.
Verdict(d, t) ==
  LET replies == Replies(d, t) IN
  IF replies = {} THEN None
  ELSE IF Cardinality(replies) = 1 THEN CHOOSE a \in replies : TRUE
  ELSE [status |-> "unknown", records |-> UNION {a.records : a \in replies}]

\* "contradictory answers remain uncertain": reading line by line, in pieces
\* and with duplicates, gives the verdict of the whole output so far, and a
\* provisional positive was resolved when its last question was answered, so
\* only a hostname with an answer to every question was ever reported.
AnswersMatchOutput ==
  /\ TypeOK
  /\ \A d \in Domains, t \in Types : questions[d][t] = Verdict(d, t)
  /\ \A d \in emitted : \A t \in Types : Replies(d, t) # {}

\* "Progress does not mark unanswered questions as completed": the counters
\* are what the answers say, also after contradictions moved a hostname to
\* another category.
CountsMatchAnswers ==
  /\ \A c \in Categories : counts[c] = Cardinality({d \in Domains : Category(questions[d]) = {c}})
  /\ completed.domains = Cardinality({d \in Domains : Complete(questions[d])})
  /\ completed.questions = Cardinality({x \in Domains \X Types : questions[x[1]][x[2]] # None})

\* A returned batch is trusted exactly as far as its output: everything was
\* read and whole, or nothing is trusted; an interrupted process loses only
\* the hostnames it had not answered.  Every final positive was also
\* reported while the batch ran.
OutcomeMatchesOutput ==
  stage = "returned" =>
    IF fatal THEN \A d \in Domains : outcome[d] = "uncertain"
    ELSE /\ unread = <<>> /\ ~fragment
         /\ \A d \in Domains : outcome[d] = Observation([t \in Types |-> Verdict(d, t)])
         /\ \A d \in Domains : outcome[d] = "resolved" => d \in emitted
===============================================================================
