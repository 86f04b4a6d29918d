------------------------------- MODULE Progress -------------------------------
(***************************************************************************)
(* RunProgress.update (progress.py): the live progress of one run, shared  *)
(* by every thread that reports on it, and the file that shows it.         *)
(* A report that says nothing new is written at most once a second.        *)
(***************************************************************************)
EXTENDS Integers

VARIABLES
  shown,  \* the shared state: a stage and its count
  saved   \* what the file holds

progressState == <<shown, saved>>

TerminalStages == {"completed", "partial", "cancelled", "failed"}

ProgressInit ==
  /\ shown = [stage |-> "queued", count |-> 0]
  /\ saved = [stage |-> "queued", count |-> 0]

\* Faulty: the last report wins, whoever sends it.
LastReportWins(stage, count, spoken) ==
  /\ shown' = [stage |-> stage, count |-> count]
  /\ saved' \in {shown'} \cup (IF shown.stage = stage /\ ~spoken THEN {saved} ELSE {})

\* A terminal stage is the last; a new message, a new stage or an end is written at once.
Update(stage, count, spoken) ==
  IF shown.stage \in TerminalStages THEN UNCHANGED progressState
  ELSE /\ shown' = [stage |-> stage, count |-> count]
       /\ saved' \in {shown'} \cup
            (IF shown.stage = stage /\ stage \notin TerminalStages /\ ~spoken THEN {saved} ELSE {})
===============================================================================
