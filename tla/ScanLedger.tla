------------------------------ MODULE ScanLedger -------------------------------
(***************************************************************************)
(* What the scan service promises about its runs, whatever its threads,    *)
(* its mutex and its restarts do.  A project scans once at a time.  A run  *)
(* ends once, as accepted, failed or cancelled, and from the moment a stop *)
(* is asked for it can no longer be accepted.  Only an accepted run is     *)
(* what its project's results come from.  Reports and projects go away     *)
(* only while nothing of them is running, and never come back.             *)
(*                                                                         *)
(* ScanService implements it; the README gives the mapping.                *)
(***************************************************************************)
EXTENDS Naturals

CONSTANTS Projects, RunIds, NoRun, NoOne

VARIABLES
  projects,   \* the projects that exist
  run,        \* every run ever started
  accepted,   \* per project, the run its results come from
  wanted      \* running runs that nobody asked to stop

vars == <<projects, run, accepted, wanted>>

Statuses == {"absent", "running", "accepted", "failed", "cancelled"}

Running(r)  == run[r].status = "running"
Scanning(p) == \E r \in RunIds : Running(r) /\ run[r].project = p

Init ==
  /\ projects = Projects
  /\ run = [r \in RunIds |-> [project |-> NoOne, status |-> "absent", shown |-> TRUE]]
  /\ accepted = [p \in Projects |-> NoRun]
  /\ wanted = {}

\* A scan of p is queued, perhaps after a stop was announced.
Start(p) ==
  /\ p \in projects /\ ~Scanning(p)
  /\ \E r \in RunIds :
       /\ run[r].project = NoOne
       /\ run' = [run EXCEPT ![r] = [project |-> p, status |-> "running", shown |-> TRUE]]
       /\ wanted' \in {wanted, wanted \cup {r}}
  /\ UNCHANGED <<projects, accepted>>

\* A stop is asked for.
Withdraw ==
  /\ \E S \in SUBSET wanted : wanted' = wanted \ S
  /\ UNCHANGED <<projects, run, accepted>>

\* The results of a run still wanted become its project's.
Accept(r) ==
  /\ Running(r) /\ r \in wanted
  /\ run' = [run EXCEPT ![r].status = "accepted"]
  /\ accepted' = [accepted EXCEPT ![run[r].project] = r]
  /\ wanted' = wanted \ {r}
  /\ UNCHANGED projects

\* Runs end without results.
End ==
  /\ \E S \in SUBSET RunIds : \E how \in [S -> {"failed", "cancelled"}] :
       /\ S # {} /\ \A r \in S : Running(r)
       /\ run' = [r \in RunIds |-> IF r \in S THEN [run[r] EXCEPT !.status = how[r]] ELSE run[r]]
       /\ wanted' = wanted \ S
  /\ UNCHANGED <<projects, accepted>>

\* A report is deleted: the run's results stay.
Hide(r) ==
  /\ run[r].status # "absent" /\ run[r].shown /\ ~Scanning(run[r].project)
  /\ run' = [run EXCEPT ![r].shown = FALSE]
  /\ UNCHANGED <<projects, accepted, wanted>>

\* A project is deleted with its runs.
Remove(p) ==
  /\ p \in projects /\ ~Scanning(p)
  /\ projects' = projects \ {p}
  /\ run' = [r \in RunIds |-> IF run[r].project = p THEN [run[r] EXCEPT !.status = "absent"] ELSE run[r]]
  /\ accepted' = [accepted EXCEPT ![p] = NoRun]
  /\ UNCHANGED wanted

Next ==
  \/ Withdraw \/ End
  \/ \E p \in Projects : Start(p) \/ Remove(p)
  \/ \E r \in RunIds : Accept(r) \/ Hide(r)

Spec == Init /\ [][Next]_vars
===============================================================================
