------------------------------ MODULE DnsHistory ------------------------------
(***************************************************************************)
(* The accepted DNS history of one project, as Store keeps it in SQLite:   *)
(* start_run, finish_run, fail_run, cancel_run, recover_interrupted_runs   *)
(* and delete_report of src/monitor/typo_monitor/store.py.  Every one of   *)
(* them is one BEGIN IMMEDIATE transaction, so each is one action.         *)
(*                                                                         *)
(* A hostname's answer is abstracted to what the history tells apart: the  *)
(* normalized record set of a resolved answer, an explicit negative        *)
(* (NXDOMAIN or no answer), an uncertain check, or no check at all.  The   *)
(* terminal statuses completed and partial, which no later step            *)
(* distinguishes, are one status, accepted.                                *)
(***************************************************************************)
EXTENDS Naturals, Sequences

CONSTANTS
  Domains,        \* the hostnames scans of this project can generate
  Records,        \* the normalized record sets a resolved hostname can have
  Routes,         \* the values of dns_route_key
  DirectRoute,    \* the route a new project starts with
  Threshold,      \* missing_threshold
  MaxRuns,        \* bound: scans ever started
  MaxDeletions    \* bound: reports ever deleted

ASSUME HistoryAssumption ==
  /\ DirectRoute \in Routes
  /\ Threshold \in Nat /\ Threshold >= 2
  /\ MaxRuns \in Nat /\ MaxDeletions \in Nat
  /\ Records \cap {"none", "negative", "unknown", "unchecked"} = {}

VARIABLES
  candidates,     \* inventory rows of kind 'candidate'
  state,          \* domain_states, one row per hostname
  project,        \* baseline_run_id and dns_route_key of the projects row
  runs,           \* the runs table in starting order, with what each observed
  deletions       \* how many reports were deleted

vars == <<candidates, state, project, runs, deletions>>

NoRun     == 0
NoRecords == "none"

Uncertain    == {"unknown", "unchecked"}
Observations == Records \cup {"negative"} \cup Uncertain
Interrupted  == {"failed", "cancelled"}
EventKinds   == {"newly_observed", "reappeared", "records_changed", "missing_confirmed"}

Event == [domain : Domains, kind : EventKinds, before : Records \cup {NoRecords}]

DomainState ==
  [status  : {"unknown", "resolved", "pending_missing", "missing"},
   records : Records \cup {NoRecords},
   count   : Nat,                       \* missing_count
   seen    : BOOLEAN]                   \* first_seen is not NULL

\* observed outlives the observations rows of a deleted report: it is the
\* history the properties speak about.
Run ==
  [status   : {"running", "accepted"} \cup Interrupted,
   route    : Routes,
   baseline : BOOLEAN,                  \* is_baseline
   observed : [Domains -> Observations],
   events   : SUBSET Event,
   deleted  : BOOLEAN]                  \* report_deleted

TypeOK ==
  /\ candidates \in SUBSET Domains
  /\ state \in [Domains -> DomainState]
  /\ project \in [baseline : Nat, route : Routes]
  /\ runs \in Seq(Run)
  /\ deletions \in Nat

\* Only the newest run can be running: start_run refuses a second one.
Busy == runs # <<>> /\ runs[Len(runs)].status = "running"
Idle == \A i \in DOMAIN runs : runs[i].status # "running"

-------------------------------------------------------------------------------
Init ==
  /\ candidates = {}
  /\ state = [d \in Domains |->
                [status |-> "unknown", records |-> NoRecords, count |-> 0, seen |-> FALSE]]
  /\ project = [baseline |-> NoRun, route |-> DirectRoute]
  /\ runs = <<>>
  /\ deletions = 0

\* start_run: one running scan per project; the run snapshots its DNS route.
StartRun(route) ==
  /\ Idle
  /\ Len(runs) < MaxRuns
  /\ runs' = Append(runs, [status |-> "running", route |-> route, baseline |-> FALSE,
                           observed |-> [d \in Domains |-> "unchecked"],
                           events |-> {}, deleted |-> FALSE])
  /\ UNCHANGED <<candidates, state, project, deletions>>

\* The run being finished was started on another route than the accepted one.
RouteChanged == runs[Len(runs)].route # project.route

\* Faulty: a changed route keeps the old route's status and counter.
PreviousOnAnyRoute(row, routeChanged) == row

\* The stored row a fresh observation is compared with.  A changed route
\* forgets the old route's status and counter, never its records.
Previous(row, routeChanged) ==
  IF routeChanged THEN [row EXCEPT !.status = "unknown", !.count = 0] ELSE row

\* Faulty: the accepted result of an interrupted attempt still counts.
NeverInterrupted == FALSE

\* The latest other attempt of the project ended without publishing.
InterruptedSequence ==
  Len(runs) > 1 /\ runs[Len(runs) - 1].status \in Interrupted

\* The row after an observation, or after a scan that left the name unchecked.
Observed(prev, answer, interrupted) ==
  LET negatives == IF interrupted THEN 1 ELSE prev.count + 1 IN
  CASE answer \in Records ->
         [status |-> "resolved", records |-> answer, count |-> 0, seen |-> TRUE]
    [] answer = "negative" ->
         [prev EXCEPT !.count  = negatives,
                      !.status = IF prev.status = "missing" \/ negatives >= Threshold
                                 THEN "missing" ELSE "pending_missing"]
    [] OTHER ->
         [prev EXCEPT !.count  = 0,
                      !.status = IF prev.status = "missing" THEN "missing" ELSE "unknown"]

PreviousRow(d)      == Previous(state[d], RouteChanged)

\* Faulty: an answer that is not resolved clears the saved records.
ForgetfulRow(d, answer) ==
  LET row == Observed(PreviousRow(d), answer, InterruptedSequence)
  IN IF answer \in Records THEN row ELSE [row EXCEPT !.records = NoRecords]

NextRow(d, answer) == Observed(PreviousRow(d), answer, InterruptedSequence)

\* Faulty: any hostname that was not resolving counts as newly observed.
ChangeByStatus(prev, answer, next) ==
  {kind \in EventKinds :
     \/ kind = "newly_observed"    /\ answer \in Records /\ prev.status \in {"unknown", "pending_missing"}
     \/ kind = "reappeared"        /\ answer \in Records /\ prev.status = "missing"
     \/ kind = "records_changed"   /\ answer \in Records /\ prev.status = "resolved"
                                   /\ prev.records # answer
     \/ kind = "missing_confirmed" /\ answer = "negative" /\ prev.seen /\ prev.status # "missing"
                                   /\ next.status = "missing"}

\* The change an observation reports, if any: at most one kind applies.
Change(prev, answer, next) ==
  {kind \in EventKinds :
     \/ kind = "newly_observed"    /\ answer \in Records /\ ~prev.seen
     \/ kind = "reappeared"        /\ answer \in Records /\ prev.seen /\ prev.status = "missing"
     \/ kind = "records_changed"   /\ answer \in Records /\ prev.seen /\ prev.status # "missing"
                                   /\ prev.records # answer
     \/ kind = "missing_confirmed" /\ answer = "negative" /\ prev.seen /\ prev.status # "missing"
                                   /\ next.status = "missing"}

Changes(answers) ==
  {e \in Event :
     /\ e.kind \in Change(PreviousRow(e.domain), answers[e.domain],
                          NextRow(e.domain, answers[e.domain]))
     /\ e.before = PreviousRow(e.domain).records}

\* Faulty: only a project's first scan is a baseline, whatever its route.
FirstScanOnly == project.baseline = NoRun

IsBaseline           == project.baseline = NoRun \/ RouteChanged
Informative(answers) == \E d \in Domains : answers[d] \notin Uncertain

\* finish_run: accept one scan.  names are the candidates it adds, answers
\* what it observed; a name it does not mention stays "unchecked".
FinishRun(names, answers) ==
  /\ Busy
  /\ \A d \in Domains \ (candidates \cup names) : answers[d] = "unchecked"
  /\ candidates' = candidates \cup names
  /\ state' = [d \in Domains |-> IF d \in candidates \cup names
                                 THEN NextRow(d, answers[d]) ELSE state[d]]
  /\ runs' = [runs EXCEPT ![Len(runs)] =
                [@ EXCEPT !.status   = "accepted",
                          !.baseline = IsBaseline /\ Informative(answers),
                          !.observed = answers,
                          !.events   = IF IsBaseline THEN {} ELSE Changes(answers)]]
  /\ project' = IF IsBaseline /\ Informative(answers)
                THEN [baseline |-> Len(runs), route |-> runs[Len(runs)].route]
                ELSE project
  /\ UNCHANGED deletions

\* fail_run, cancel_run on a running attempt, and recover_interrupted_runs at
\* startup end the run and leave inventory, DNS state and baseline alone.
EndUnpublished(status) ==
  /\ Busy
  /\ runs' = [runs EXCEPT ![Len(runs)] = [@ EXCEPT !.status = status]]
  /\ UNCHANGED <<candidates, state, project, deletions>>

\* Faulty: startup leaves a status no other code knows.
RecoverAsInterrupted == EndUnpublished("interrupted")

FailRun                == EndUnpublished("failed")
CancelRun              == EndUnpublished("cancelled")
RecoverInterruptedRuns == EndUnpublished("failed")

\* delete_report: drop a finished report's content, keep its bookkeeping row.
DeleteReport(i) ==
  /\ Idle
  /\ deletions < MaxDeletions
  /\ ~runs[i].deleted
  /\ runs' = [runs EXCEPT ![i] = [@ EXCEPT !.deleted = TRUE, !.events = {}]]
  /\ deletions' = deletions + 1
  /\ UNCHANGED <<candidates, state, project>>

Next ==
  \/ \E route \in Routes : StartRun(route)
  \/ \E names \in SUBSET (Domains \ candidates), answers \in [Domains -> Observations] : FinishRun(names, answers)
  \/ FailRun
  \/ CancelRun
  \/ RecoverInterruptedRuns
  \/ \E i \in DOMAIN runs : DeleteReport(i)

Spec == Init /\ [][Next]_vars

-------------------------------------------------------------------------------
Accepted(i) == runs[i].status = "accepted"
Resolved(d, i) == Accepted(i) /\ runs[i].observed[d] \in Records
Negative(d, i) == Accepted(i) /\ runs[i].observed[d] = "negative"

\* The Threshold attempts up to i all observed d explicitly absent on one route.
Confirmed(d, i, route) ==
  /\ i >= Threshold
  /\ \A j \in (i - Threshold + 1) .. i : Negative(d, j) /\ runs[j].route = route

\* A "DNS absence confirmed" event reports a hostname that resolved before and
\* that the last Threshold attempts, none failed, cancelled or uncertain, all
\* observed absent through the same DNS route (finish_run, missing_count).
AbsenceEventIsEarned ==
  \A i \in DOMAIN runs : \A e \in runs[i].events :
    e.kind = "missing_confirmed" =>
      /\ Confirmed(e.domain, i, runs[i].route)
      /\ \E j \in 1 .. i : Resolved(e.domain, j)

\* A hostname stored as missing went through a confirmed absence on the
\* project's accepted route, and no accepted scan since then resolved it or
\* used another route (the status column across any later failures,
\* cancellations and uncertain scans).
MissingStatusIsEarned ==
  \A d \in Domains : state[d].status = "missing" =>
    \E i \in DOMAIN runs :
      /\ Confirmed(d, i, project.route)
      /\ \A j \in i .. Len(runs) :
           Accepted(j) => ~Resolved(d, j) /\ runs[j].route = project.route

\* How many attempts have ended.
Finished == IF Busy THEN Len(runs) - 1 ELSE Len(runs)

\* missing_count is the length of a streak: unless the latest ended attempt was
\* failed or cancelled (finish_run then starts over), the last missing_count
\* attempts were all accepted, on the accepted route, and negative for d.
CountIsAStreak ==
  \A d \in Domains :
    /\ state[d].count <= Finished
    /\ Finished > 0 /\ Accepted(Finished) =>
         \A j \in Finished - state[d].count + 1 .. Finished :
           Negative(d, j) /\ runs[j].route = project.route

\* Only the newest attempt can still be running.
OnlyNewestRuns == \A i \in DOMAIN runs : i < Len(runs) => runs[i].status # "running"

\* first_seen is set only by an accepted resolution.
SeenMeansResolved ==
  \A d \in Domains : state[d].seen => \E j \in DOMAIN runs : Resolved(d, j)

\* A name outside the inventory has a blank row.
OutsidersAreBlank ==
  \A d \in Domains \ candidates : state[d].count = 0 /\ state[d].status = "unknown"

\* The inductive invariant behind the two absence properties: what the columns
\* mean in terms of the attempts, which the properties alone do not say.
HistoryInv ==
  /\ TypeOK
  /\ OnlyNewestRuns
  /\ CountIsAStreak
  /\ SeenMeansResolved
  /\ OutsidersAreBlank
  /\ AbsenceEventIsEarned
  /\ MissingStatusIsEarned

\* The run that resolved d last before attempt i.
LastResolution(d, i) ==
  CHOOSE j \in 1 .. i - 1 : Resolved(d, j) /\ \A k \in j + 1 .. i - 1 : ~Resolved(d, k)

EverResolved(d, i) == \E j \in 1 .. i - 1 : Resolved(d, j)

\* The records shown for a hostname are those of its latest accepted
\* resolution, whatever failed, negative, uncertain or other-route scans came
\* after it ("the last good records remain available").
LastGoodRecordsRemain ==
  \A d \in Domains :
    LET end == Len(runs) + 1 IN
    state[d].records = IF EverResolved(d, end)
                       THEN runs[LastResolution(d, end)].observed[d] ELSE NoRecords

\* The latest run before i that established a baseline.
IsCurrentBaseline(b, i) ==
  runs[b].baseline /\ \A k \in b + 1 .. i - 1 : ~runs[k].baseline

\* A run reports changes only against a baseline of its own DNS route: an
\* earlier baseline run exists, and the newest one used the same route.
ChangesHaveBaseline ==
  \A i \in DOMAIN runs : runs[i].events # {} =>
    \E b \in 1 .. i - 1 : IsCurrentBaseline(b, i) /\ runs[b].route = runs[i].route

\* Each resolution event matches the history before it: newly observed only
\* for a name no accepted scan ever resolved, resolves-again only after a
\* confirmed absence since its last resolution, records-changed only when the
\* last accepted resolution had other records.
ResolutionEventsMatchHistory ==
  \A i \in DOMAIN runs : \A e \in runs[i].events :
    LET d == e.domain IN
    CASE e.kind = "newly_observed"  -> ~EverResolved(d, i)
      [] e.kind = "reappeared"      -> \E j \in LastResolution(d, i) .. i - 1 : Confirmed(d, j, runs[i].route)
      [] e.kind = "records_changed" -> /\ EverResolved(d, i)
                                       /\ runs[LastResolution(d, i)].observed[d] = e.before
                                       /\ runs[i].observed[d] # e.before
      [] OTHER -> TRUE

\* Two absence events of one hostname under one baseline have a resolution
\* between them: an uncertain scan must not produce a second one.
OneEventPerAbsence ==
  \A i, k \in DOMAIN runs : \A d \in Domains :
    LET confirmed(j) == \E e \in runs[j].events : e.domain = d /\ e.kind = "missing_confirmed" IN
    /\ i < k /\ confirmed(i) /\ confirmed(k)
    /\ \A b \in i .. k : ~runs[b].baseline
    => \E j \in i .. k : Resolved(d, j)

\* A records-changed event compares two resolutions of one DNS route.
RecordChangesStayOnOneRoute ==
  \A i \in DOMAIN runs : \A e \in runs[i].events :
    e.kind = "records_changed" => runs[LastResolution(e.domain, i)].route = runs[i].route
===============================================================================
