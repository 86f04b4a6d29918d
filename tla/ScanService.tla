------------------------------ MODULE ScanService ------------------------------
(***************************************************************************)
(* MonitorService of src/monitor/typo_monitor/service.py: one scan worker  *)
(* thread fed by an executor queue, web request threads and the scheduler  *)
(* thread, all serialised by _mutex, over the run, project and cleanup     *)
(* rows of the SQLite store and the artifact folders on disk.              *)
(*                                                                         *)
(* A request that holds _mutex is one action where nothing else can see    *)
(* the middle of it, and several where the worker, which takes _mutex only *)
(* to publish or to record a failure, or a crash can come in between.  The *)
(* DNS history a run publishes is module DnsHistory; here a publication is *)
(* the run's identity.                                                     *)
(***************************************************************************)
EXTENDS Naturals, Sequences, FiniteSets

CONSTANTS
  Projects,       \* the clients
  Scheduled,      \* those with a saved schedule: the other never had one
  MaxRuns,        \* bound: scans ever queued
  MaxRestarts,    \* bound: crashes and graceful stops
  MaxFaults       \* bound: transient SQLite or file system errors

NoOne == "no one"     \* no project: their ids are uuids

ASSUME ServiceAssumption ==
  /\ Scheduled \subseteq Projects /\ NoOne \notin Projects
  /\ MaxRuns \in Nat /\ MaxRestarts \in Nat /\ MaxFaults \in Nat

VARIABLES
  projects,   \* rows of the projects table
  run,        \* rows of the runs table, by order of creation
  cleanup,    \* rows of artifact_cleanup
  accepted,   \* per project, the run whose results are the accepted state
  cadence,    \* per project and mode, a scan_schedules row: off, waiting or due
  owed,       \* history, kept nowhere in the code: deadlines that passed and that no scan
              \* was queued for since
  files,      \* runs with a folder or progress file on disk
  server,     \* the process: starting, open, closing (the stop is announced), draining
              \* (queued work is cancelled), aborted (close raised), stopped or crashed
  mutex,      \* what holds _mutex
  future,     \* state of the executor future of each run
  tracked,    \* keys of _futures
  queue,      \* the executor's work queue
  requested,  \* runs whose cancel event is set
  snapshots,  \* keys of _proxy_snapshots: private proxy URLs held in memory
  worker,     \* the scan thread: where it is and on which run
  scheduler,  \* the schedule thread: alive, projects left in its tick, and the one it submits
  restarts,   \* bound counter
  faults      \* bound counter

stored == <<projects, run, cleanup, accepted, cadence, owed, files>>
memory == <<mutex, future, tracked, queue, requested, snapshots, worker, scheduler>>
vars   == <<stored, server, memory, restarts, faults>>

RunIds   == 1 .. MaxRuns
NoRun    == 0
Modes    == {"enumerate", "cached"}
Ended    == {"accepted", "failed", "cancelled"}
Finished == {"finished", "broken", "cancelled"}    \* future.done()

Free   == [op |-> "free", run |-> NoRun]
Idle   == [pc |-> "idle", run |-> NoRun]
Asleep == [alive |-> TRUE, todo |-> {}, submitting |-> NoOne]

RunRow == [project : Projects \cup {NoOne}, mode : Modes,
           status : {"absent", "running"} \cup Ended, shown : BOOLEAN]

TypeOK ==
  /\ projects \in SUBSET Projects
  /\ run \in [RunIds -> RunRow]
  /\ cleanup \in SUBSET RunIds
  /\ accepted \in [Projects -> RunIds \cup {NoRun}]
  /\ cadence \in [Projects -> [Modes -> {"off", "waiting", "due"}]]
  /\ owed \in SUBSET (Projects \X Modes)
  /\ files \in SUBSET RunIds
  /\ server \in {"starting", "open", "closing", "draining", "aborted", "stopped", "crashed"}
  /\ mutex \in [op : {"free", "submit", "schedule", "cancel", "cleanup"}, run : RunIds \cup {NoRun}]
                \cup [op : {"asked", "due"}, run : {NoRun}, project : Projects, mode : Modes]
  /\ future \in [RunIds -> {"none", "queued", "running"} \cup Finished]
  /\ tracked \in SUBSET RunIds
  /\ queue \in Seq(RunIds)
  /\ requested \in SUBSET RunIds
  /\ snapshots \in SUBSET RunIds
  /\ worker \in [pc : {"idle", "starting", "working", "publishing", "failing", "final"},
                 run : RunIds \cup {NoRun}]
  /\ scheduler \in [alive : BOOLEAN, todo : SUBSET (Projects \X Modes),
                    submitting : Projects \cup {NoOne}]
  /\ restarts \in Nat /\ faults \in Nat

Visible(r) == run[r].status # "absent" /\ run[r].shown         \* get_run is not None
RunsOf(p)  == {r \in RunIds : run[r].status # "absent" /\ run[r].project = p}
Scanning(p) == \E r \in RunsOf(p) : run[r].status = "running"
Up         == server \in {"open", "closing", "draining", "aborted"}
Stopping(r) == server # "open" \/ r \in requested              \* _check_shutdown raises
HasInventory(p) == accepted[p] # NoRun                         \* has_candidate_inventory

Init ==
  /\ projects = Projects
  /\ run = [r \in RunIds |-> [project |-> NoOne, mode |-> "enumerate", status |-> "absent", shown |-> TRUE]]
  /\ cleanup = {}
  /\ accepted = [p \in Projects |-> NoRun]
  /\ cadence \in [Projects -> [Modes -> {"off", "waiting"}]]
  /\ \A p \in Projects \ Scheduled : cadence[p] = [m \in Modes |-> "off"]
  /\ owed = {}
  /\ files = {}
  /\ server = "open"
  /\ mutex = Free
  /\ future = [r \in RunIds |-> "none"]
  /\ tracked = {} /\ queue = <<>> /\ requested = {} /\ snapshots = {}
  /\ worker = Idle
  /\ scheduler = Asleep
  /\ restarts = 0 /\ faults = 0

Fault == faults < MaxFaults /\ faults' = faults + 1

-------------------------------------------------------------------------------
(* The schedules.  Which deadlines still want a scan is remembered beside  *)
(* the rows: these may change before a run is queued, and a run may be     *)
(* lost before they are advanced.                                          *)

AskFor(op, p, mode) == [op |-> op, run |-> NoRun, project |-> p, mode |-> mode]

\* A row that no longer says due withdraws its deadline, unless the schedule thread
\* has taken it up.
StillOwed == {d \in owed : cadence'[d[1]][d[2]] = "due" \/ mutex' = AskFor("due", d[1], d[2])}

\* The deadlines a scan covers: an enumeration those of both modes.
Covered(p, mode) == {p} \X {m \in Modes : mode = "enumerate" \/ m = mode}

\* A deadline passes.
Elapse(p, mode) ==
  /\ p \in projects
  /\ cadence[p][mode] = "waiting"
  /\ cadence' = [cadence EXCEPT ![p][mode] = "due"]
  /\ owed' = owed \cup {<<p, mode>>}
  /\ UNCHANGED <<projects, run, cleanup, accepted, files, server, memory, restarts, faults>>

\* Faulty: any scan restarts both cadences.
AdvancedBoth(p, mode) ==
  [cadence EXCEPT ![p] = [m \in Modes |-> IF cadence[p][m] # "off" THEN "waiting" ELSE "off"]]

\* advance_schedule: an enumeration restarts both enabled cadences, a scan of
\* the saved inventory only its own.
Advanced(p, mode) ==
  [cadence EXCEPT ![p] = [m \in Modes |->
     IF cadence[p][m] # "off" /\ (mode = "enumerate" \/ m = mode) THEN "waiting" ELSE cadence[p][m]]]

\* The schedule form: an interval that is saved again keeps its deadline, another one
\* starts anew, and none turns the cadence off.  Changing both is changing one after
\* the other.
SaveSchedules(p) ==
  /\ server = "open" /\ mutex = Free
  /\ p \in projects \cap Scheduled
  /\ \E mode \in Modes, saved \in {"off", "waiting"} : cadence' = [cadence EXCEPT ![p][mode] = saved]
  /\ UNCHANGED <<projects, run, cleanup, accepted, files, server, memory, restarts, faults>>
  /\ owed' = StillOwed

\* The form of the former single schedule replaces both cadences by one, whoever holds
\* the mutex.
SaveSchedule(p) ==
  /\ server = "open"
  /\ p \in projects \cap Scheduled
  /\ \E mode \in Modes, saved \in {"off", "waiting"} :
       /\ mode = "cached" => HasInventory(p)
       /\ cadence' = [cadence EXCEPT ![p] = [m \in Modes |-> IF m = mode THEN saved ELSE "off"]]
  /\ UNCHANGED <<projects, run, cleanup, accepted, files, server, memory, restarts, faults>>
  /\ owed' = StillOwed

-------------------------------------------------------------------------------
(* Queueing a scan.                                                        *)

\* Run ids are uuids: a new one is never an old one.
NewRun == 1 + Cardinality({r \in RunIds : run[r].project # NoOne})

\* submit_scan takes the mutex, for a user or for a due deadline, and reads the
\* project.  A form that writes without the mutex, a deadline, the thread, an
\* announced stop or a crash can come before the run is queued.
Asks(op, p, mode) ==
  /\ mutex = Free
  /\ server = "open"
  /\ p \in projects
  /\ mode = "cached" => HasInventory(p)
  /\ NewRun \in RunIds
  /\ mutex' = AskFor(op, p, mode)
  /\ UNCHANGED <<stored, server, future, tracked, queue, requested, snapshots, worker, restarts, faults>>

\* A user starts a scan.
SubmitScan(p, mode) == Asks("asked", p, mode) /\ UNCHANGED scheduler

Asking == mutex.op \in {"asked", "due"}

\* What start_run asks of the rows.
Startable(p, mode) == p \in projects /\ ~Scanning(p) /\ (mode = "cached" => HasInventory(p))

\* Up to the executor: the run row, its proxy snapshot, its progress file and
\* its future.  The worker can start before the rest.
Enqueue ==
  LET r == NewRun IN
  /\ Asking
  /\ Startable(mutex.project, mutex.mode)
  /\ run' = [run EXCEPT ![r] =
       [project |-> mutex.project, mode |-> mutex.mode, status |-> "running", shown |-> TRUE]]
  /\ owed' = owed \ Covered(mutex.project, mutex.mode)
  /\ snapshots' = snapshots \cup {r}
  /\ files' = files \cup {r}
  /\ future' = [future EXCEPT ![r] = "queued"]
  /\ tracked' = tracked \cup {r}
  /\ queue' = Append(queue, r)
  /\ mutex' = [op |-> IF mutex.op = "due" THEN "schedule" ELSE "submit", run |-> r]
  /\ UNCHANGED <<projects, cleanup, accepted, cadence, server, requested, worker, scheduler, restarts, faults>>

\* The project is already scanning, or an error, before there is a run.
SubmitRefused ==
  /\ Asking
  /\ IF Startable(mutex.project, mutex.mode) THEN Fault ELSE UNCHANGED faults
  /\ mutex' = Free
  /\ UNCHANGED <<projects, run, cleanup, accepted, cadence, files>>
  /\ UNCHANGED <<server, future, tracked, queue, requested, snapshots, worker, scheduler, restarts>>
  /\ owed' = StillOwed

Submitting == mutex.op \in {"submit", "schedule"}

\* The submission is lost: the deadlines it did not advance are owed again.
OwedAgain ==
  StillOwed \cup IF Submitting
                 THEN {d \in Covered(run[mutex.run].project, run[mutex.run].mode) : cadence[d[1]][d[2]] = "due"}
                 ELSE {}

\* The rest of submit_scan: advance the schedule, forget finished futures.
SubmitEnds ==
  LET r == mutex.run IN
  /\ Submitting
  /\ cadence' = Advanced(run[r].project, run[r].mode)
  /\ tracked' = {t \in tracked : future[t] \notin Finished}
  /\ mutex' = Free
  /\ UNCHANGED <<projects, run, cleanup, accepted, files, server, future, queue, requested,
                 snapshots, worker, scheduler, restarts, faults>>
  /\ owed' = StillOwed

\* advance_schedule fails: the run is stopped and recorded as failed.
SubmitFails ==
  LET r == mutex.run IN
  /\ Submitting
  /\ Fault
  /\ requested' = requested \cup {r}
  /\ future' = [future EXCEPT ![r] = IF @ = "queued" THEN "cancelled" ELSE @]
  /\ run' = [run EXCEPT ![r].status = "failed"]
  /\ snapshots' = snapshots \ {r}
  /\ mutex' = Free
  /\ UNCHANGED <<projects, cleanup, accepted, cadence, files, server, tracked, queue, worker,
                 scheduler, restarts>>
  /\ owed' = OwedAgain

-------------------------------------------------------------------------------
(* Stopping a scan.                                                        *)

\* cancel_scan: set the event and record the cancellation ...
CancelScan(r) ==
  /\ Up /\ mutex = Free
  /\ Visible(r) /\ run[r].status = "running"
  /\ requested' = requested \cup {r}
  /\ run' = [run EXCEPT ![r].status = "cancelled"]
  /\ mutex' = [op |-> "cancel", run |-> r]
  /\ UNCHANGED <<projects, cleanup, accepted, cadence, owed, files, server, future, tracked, queue, snapshots,
                 worker, scheduler, restarts, faults>>

\* Faulty: a queued scan that is stopped keeps its proxy URLs in memory.
CancelEndsHoldingUrls ==
  LET r == mutex.run
      dequeued == r \in tracked /\ future[r] = "queued" IN
  /\ mutex.op = "cancel"
  /\ cadence' = Advanced(run[r].project, run[r].mode)
  /\ future' = IF dequeued THEN [future EXCEPT ![r] = "cancelled"] ELSE future
  /\ tracked' = IF dequeued THEN tracked \ {r} ELSE tracked
  /\ mutex' = Free
  /\ UNCHANGED <<projects, run, cleanup, accepted, files, server, queue, requested, snapshots,
                 worker, scheduler, restarts, faults>>
  /\ owed' = StillOwed

\* ... then advance its schedule and take it off the queue, if the worker has
\* not started it.
CancelEnds ==
  LET r == mutex.run
      dequeued == r \in tracked /\ future[r] \in {"queued", "cancelled"} IN
  /\ mutex.op = "cancel"
  /\ cadence' = Advanced(run[r].project, run[r].mode)
  /\ future' = IF dequeued THEN [future EXCEPT ![r] = "cancelled"] ELSE future
  /\ tracked' = IF dequeued THEN tracked \ {r} ELSE tracked
  /\ snapshots' = IF dequeued THEN snapshots \ {r} ELSE snapshots
  /\ mutex' = Free
  /\ UNCHANGED <<projects, run, cleanup, accepted, files, server, queue, requested, worker,
                 scheduler, restarts, faults>>
  /\ owed' = StillOwed

-------------------------------------------------------------------------------
(* The scan worker.                                                        *)

OnlyWorker == UNCHANGED <<projects, cleanup, cadence, owed, server, mutex, tracked, requested, scheduler, restarts>>

\* The executor hands the next future to the thread, dropping a cancelled one.
WorkerTakes ==
  LET r == Head(queue) IN
  /\ Up
  /\ worker = Idle
  /\ queue # <<>>
  /\ queue' = Tail(queue)
  /\ IF future[r] = "cancelled"
     THEN UNCHANGED <<future, worker>>
     ELSE /\ future' = [future EXCEPT ![r] = "running"]
          /\ worker' = [pc |-> "starting", run |-> r]
  /\ OnlyWorker /\ UNCHANGED <<run, accepted, files, snapshots, faults>>

\* _execute reaches its try block and its first check for a stop.
WorkerStarts ==
  /\ worker.pc = "starting"
  /\ worker' = [worker EXCEPT !.pc = IF Stopping(worker.run) THEN "failing" ELSE "working"]
  /\ files' = IF Stopping(worker.run) THEN files ELSE files \cup {worker.run}
  /\ OnlyWorker /\ UNCHANGED <<run, accepted, future, queue, snapshots, faults>>

\* An error before the try block (capture_baselines reads the database there)
\* ends the future without ending the run.
WorkerBreaks ==
  /\ worker.pc = "starting"
  /\ Fault
  /\ future' = [future EXCEPT ![worker.run] = "broken"]
  /\ worker' = Idle
  /\ OnlyWorker /\ UNCHANGED <<run, accepted, files, queue, snapshots>>

\* Discovery, generation, DNS, parking and capture end: with an error, because
\* a stop interrupted them, or with results to publish.
WorkerWorks ==
  /\ worker.pc = "working"
  /\ \E next \in {"failing"} \cup (IF Stopping(worker.run) THEN {} ELSE {"publishing"}) :
       worker' = [worker EXCEPT !.pc = next]
  /\ OnlyWorker /\ UNCHANGED <<run, accepted, files, future, queue, snapshots, faults>>

\* Faulty: publish without checking again for a stop under the mutex.
PublishesUnchecked ==
  LET r == worker.run IN
  /\ worker.pc = "publishing"
  /\ mutex = Free
  /\ run' = [run EXCEPT ![r].status = "accepted"]
  /\ accepted' = [accepted EXCEPT ![run[r].project] = r]
  /\ worker' = [worker EXCEPT !.pc = "final"]
  /\ OnlyWorker /\ UNCHANGED <<files, future, queue, snapshots, faults>>

\* Under the mutex: one last check, then finish_run, which needs a running run
\* (or fails and publishes nothing).
WorkerPublishes ==
  LET r == worker.run IN
  /\ worker.pc = "publishing"
  /\ mutex = Free
  /\ \/ /\ ~Stopping(r) /\ run[r].status = "running"
        /\ run' = [run EXCEPT ![r].status = "accepted"]
        /\ accepted' = [accepted EXCEPT ![run[r].project] = r]
        /\ worker' = [worker EXCEPT !.pc = "final"]
        /\ UNCHANGED faults
     \/ /\ Stopping(r) \/ run[r].status # "running"
        /\ worker' = [worker EXCEPT !.pc = "failing"]
        /\ UNCHANGED <<run, accepted, faults>>
     \/ /\ Fault
        /\ worker' = [worker EXCEPT !.pc = "failing"]
        /\ UNCHANGED <<run, accepted>>
  /\ OnlyWorker /\ UNCHANGED <<files, future, queue, snapshots>>

\* Faulty: only a user's stop is recorded.
SettlesOnlyStops ==
  LET r == worker.run IN
  /\ worker.pc = "failing"
  /\ mutex = Free
  /\ run' = IF run[r].status = "running" /\ r \in requested
            THEN [run EXCEPT ![r].status = "cancelled"] ELSE run
  /\ worker' = [worker EXCEPT !.pc = "final"]
  /\ OnlyWorker /\ UNCHANGED <<accepted, files, future, queue, snapshots, faults>>

\* The except block, under the mutex: leave an ended run alone, else record the
\* user's stop or the failure.
WorkerSettles ==
  LET r == worker.run IN
  /\ worker.pc = "failing"
  /\ mutex = Free
  /\ run' = IF run[r].status # "running" THEN run
            ELSE [run EXCEPT ![r].status = IF r \in requested THEN "cancelled" ELSE "failed"]
  /\ worker' = [worker EXCEPT !.pc = "final"]
  /\ OnlyWorker /\ UNCHANGED <<accepted, files, future, queue, snapshots, faults>>

\* The finally block releases the run's memory; then the future is done.
WorkerEnds ==
  /\ worker.pc = "final"
  /\ snapshots' = snapshots \ {worker.run}
  /\ future' = [future EXCEPT ![worker.run] = "finished"]
  /\ worker' = Idle
  /\ OnlyWorker /\ UNCHANGED <<run, accepted, files, queue, faults>>

-------------------------------------------------------------------------------
(* Deletion and the artifacts on disk.                                     *)

\* Faulty: refuse a deletion only while the latest run is running.
RunningBlocks(p) == Scanning(p)

\* deletion_blocker and _require_idle: a running run, or a future not yet done
\* of a run that still shows, in particular of a stopped scan still draining.
DeletionBlocked(p) ==
  \/ Scanning(p)
  \/ \E r \in tracked : future[r] \notin Finished /\ Visible(r) /\ run[r].project = p

\* delete_project commits; the mutex is kept for the cleanup.
DeleteProject(p) ==
  /\ Up /\ mutex = Free
  /\ p \in projects /\ ~DeletionBlocked(p)
  /\ projects' = projects \ {p}
  /\ run' = [r \in RunIds |-> IF run[r].project = p THEN [run[r] EXCEPT !.status = "absent"] ELSE run[r]]
  /\ cleanup' = cleanup \cup RunsOf(p)
  /\ accepted' = [accepted EXCEPT ![p] = NoRun]
  /\ cadence' = [cadence EXCEPT ![p] = [m \in Modes |-> "off"]]
  /\ mutex' = [op |-> "cleanup", run |-> NoRun]
  /\ UNCHANGED <<files, server, future, tracked, queue, requested, snapshots, worker, scheduler,
                 restarts, faults>>
  /\ owed' = StillOwed

\* delete_report commits: the run row stays, with what the schedule and the
\* accepted state need.
DeleteReport(r) ==
  /\ Up /\ mutex = Free
  /\ Visible(r) /\ ~DeletionBlocked(run[r].project)
  /\ run' = [run EXCEPT ![r].shown = FALSE]
  /\ cleanup' = cleanup \cup {r}
  /\ mutex' = [op |-> "cleanup", run |-> NoRun]
  /\ UNCHANGED <<projects, accepted, cadence, owed, files, server, future, tracked, queue, requested,
                 snapshots, worker, scheduler, restarts, faults>>

\* _cleanup_deleted_artifacts removes what one pending run left on disk ...
CleanupRemoves(r) ==
  /\ mutex.op = "cleanup"
  /\ r \in cleanup \cap files
  /\ files' = files \ {r}
  /\ UNCHANGED <<projects, run, cleanup, accepted, cadence, owed, server, memory, restarts, faults>>

\* Faulty: the pending rows are cleared whether or not the removal worked.
CleanupClearsAll ==
  /\ mutex.op = "cleanup"
  /\ IF cleanup \cap files = {} THEN UNCHANGED faults ELSE Fault
  /\ cleanup' = {}
  /\ mutex' = Free
  /\ server' = IF server = "starting" THEN "open" ELSE server
  /\ UNCHANGED <<projects, run, accepted, cadence, owed, files, future, tracked, queue, requested,
                 snapshots, worker, scheduler, restarts>>

\* ... and the loop ends, keeping the rows whose removal raised an OSError for
\* the next deletion or restart.
CleanupEnds ==
  /\ mutex.op = "cleanup"
  /\ IF cleanup \cap files = {} THEN UNCHANGED faults ELSE Fault
  /\ cleanup' = cleanup \cap files
  /\ mutex' = Free
  /\ server' = IF server = "starting" THEN "open" ELSE server
  /\ UNCHANGED <<projects, run, accepted, cadence, owed, files, future, tracked, queue, requested,
                 snapshots, worker, scheduler, restarts>>

-------------------------------------------------------------------------------
(* Stopping, crashing and restarting the process.                          *)

\* What a new process starts with, given what holds _mutex first.
Memory(held) ==
  /\ mutex' = held
  /\ future' = [r \in RunIds |-> "none"]
  /\ tracked' = {} /\ queue' = <<>> /\ requested' = {} /\ snapshots' = {}
  /\ worker' = Idle
  /\ scheduler' = Asleep

Crash ==
  /\ server \notin {"stopped", "crashed"}
  /\ restarts < MaxRestarts
  /\ server' = "crashed"
  /\ restarts' = restarts + 1
  /\ Memory(Free)
  /\ UNCHANGED <<projects, run, cleanup, accepted, cadence, files, faults>>
  /\ owed' = OwedAgain

\* Faulty: the runs a dead process left running stay so.
RestartsQuietly ==
  /\ server \in {"crashed", "stopped"}
  /\ server' = "starting"
  /\ Memory([op |-> "cleanup", run |-> NoRun])
  /\ UNCHANGED <<stored, restarts, faults>>

\* __init__: with the instance lock, recover_interrupted_runs, then the cleanup
\* left over, before any thread or request exists.
Restart ==
  /\ server \in {"crashed", "stopped"}
  /\ server' = "starting"
  /\ run' = [r \in RunIds |->
       IF run[r].status = "running" THEN [run[r] EXCEPT !.status = "failed"] ELSE run[r]]
  /\ Memory([op |-> "cleanup", run |-> NoRun])
  /\ UNCHANGED <<projects, cleanup, accepted, cadence, owed, files, restarts, faults>>

\* close sets _closed, without _mutex.
CloseBegins ==
  /\ server = "open"
  /\ restarts < MaxRestarts
  /\ server' = "closing"
  /\ restarts' = restarts + 1
  /\ UNCHANGED <<stored, memory, faults>>

Cancellable == {r \in tracked : future[r] \in {"queued", "cancelled"}}

\* Faulty: the futures are cancelled and their runs are left running.
CloseCancelsFutures ==
  /\ server = "closing" /\ mutex = Free
  /\ server' = "draining"
  /\ future' = [r \in RunIds |-> IF r \in Cancellable THEN "cancelled" ELSE future[r]]
  /\ snapshots' = snapshots \ Cancellable
  /\ UNCHANGED <<stored, mutex, tracked, queue, requested, worker, scheduler, restarts, faults>>

\* close under the mutex: every future not yet started is cancelled, its run
\* recorded as failed.  The run of a future cancelled when its submission failed
\* may have been deleted since: get_run returns None and the loop raises.
CloseQueued ==
  LET gone == {r \in Cancellable : ~Visible(r)}
      done == {r \in Cancellable : \A g \in gone : r < g}
      hit  == {r \in Cancellable : \A g \in gone : r <= g} IN
  /\ server = "closing" /\ mutex = Free
  /\ server' = IF gone = {} THEN "draining" ELSE "aborted"
  /\ future' = [r \in RunIds |-> IF r \in hit THEN "cancelled" ELSE future[r]]
  /\ run' = [r \in RunIds |->
       IF r \in done /\ run[r].status = "running" THEN [run[r] EXCEPT !.status = "failed"] ELSE run[r]]
  /\ snapshots' = snapshots \ done
  /\ UNCHANGED <<projects, cleanup, accepted, cadence, owed, files, mutex, tracked, queue, requested,
                 worker, scheduler, restarts, faults>>

\* The executor has joined its thread, in close or at interpreter exit.
ServerStops ==
  /\ server \in {"draining", "aborted"}
  /\ mutex = Free /\ worker = Idle /\ queue = <<>>
  /\ server' = "stopped"
  /\ UNCHANGED <<stored, memory, restarts, faults>>

-------------------------------------------------------------------------------
(* The schedule thread.                                                    *)

\* The mode _scheduled_mode picks, from rows that say what is due.
DueMode(due, inventory) ==
  IF due["enumerate"] = "due" THEN {"enumerate"}
  ELSE IF due["cached"] = "due" /\ inventory THEN {"cached"} ELSE {}

ThreadRuns == scheduler.alive /\ scheduler.submitting = NoOne /\ mutex.op \notin {"due", "schedule"}
              /\ server # "starting"

\* A tick: list_projects reads rows that can go stale while it works through
\* them.  A project that is scanning, or with nothing due, is passed over.
SchedulerTicks ==
  /\ ThreadRuns /\ server = "open"
  /\ scheduler.todo = {}
  /\ scheduler' = [scheduler EXCEPT !.todo =
       {due \in projects \X Modes : ~Scanning(due[1]) /\ due[2] \in DueMode(cadence[due[1]], TRUE)}]
  /\ scheduler.todo' # {}
  /\ UNCHANGED <<stored, server, mutex, future, tracked, queue, requested, snapshots, worker, restarts, faults>>

\* _schedule_due on one of those rows, without the mutex.  Only a saved
\* inventory is looked up, and looking it up for a deleted project raises
\* outside any try: the thread ends.
SchedulerChecks(p, mode) ==
  /\ ThreadRuns
  /\ <<p, mode>> \in scheduler.todo
  /\ scheduler' =
       IF server # "open" THEN [scheduler EXCEPT !.todo = {}]
       ELSE IF mode = "cached" /\ p \notin projects THEN [Asleep EXCEPT !.alive = FALSE]
       ELSE [scheduler EXCEPT !.todo = @ \ {<<p, mode>>},
               !.submitting = IF mode = "cached" /\ ~HasInventory(p) THEN NoOne ELSE p]
  /\ UNCHANGED <<stored, server, mutex, future, tracked, queue, requested, snapshots, worker, restarts, faults>>

\* Faulty: trust the tick about the deadline.
DueAtTick(p) == IF p \in projects /\ ~Scanning(p) THEN {"enumerate"} ELSE {}

\* submit_scan re-reads the project under the mutex ...
DueNow(p) == IF p \in projects /\ ~Scanning(p) THEN DueMode(cadence[p], HasInventory(p)) ELSE {}

SchedulerSubmits(p) ==
  /\ scheduler.submitting = p
  /\ \E mode \in DueNow(p) : Asks("due", p, mode)
  /\ scheduler' = [scheduler EXCEPT !.submitting = NoOne]

\* ... and a scan no longer wanted, or an error, leaves the tick to go on.
SchedulerSkips(p) ==
  /\ scheduler.submitting = p
  /\ mutex = Free
  /\ server # "open" \/ DueNow(p) = {} \/ NewRun \notin RunIds
  /\ scheduler' = [scheduler EXCEPT !.submitting = NoOne]
  /\ UNCHANGED <<stored, server, mutex, future, tracked, queue, requested, snapshots, worker, restarts, faults>>

-------------------------------------------------------------------------------
Worker == WorkerTakes \/ WorkerStarts \/ WorkerBreaks \/ WorkerWorks \/ WorkerPublishes
          \/ WorkerSettles \/ WorkerEnds
Holder == Enqueue \/ SubmitRefused \/ SubmitEnds \/ SubmitFails \/ CancelEnds \/ CleanupEnds \/ \E r \in RunIds : CleanupRemoves(r)
Process == Crash \/ Restart \/ CloseBegins \/ CloseQueued \/ ServerStops
Request ==
  \/ \E p \in Projects, mode \in Modes : SubmitScan(p, mode)
  \/ \E r \in RunIds : CancelScan(r) \/ DeleteReport(r)
  \/ \E p \in Projects : DeleteProject(p) \/ SaveSchedules(p) \/ SaveSchedule(p)
Schedule ==
  \/ SchedulerTicks
  \/ \E p \in Projects, mode \in Modes : Elapse(p, mode) \/ SchedulerChecks(p, mode)
  \/ \E p \in Projects : SchedulerSubmits(p) \/ SchedulerSkips(p)

Next == Worker \/ Holder \/ Process \/ Request \/ Schedule

Spec == Init /\ [][Next]_vars

\* Threads run, stages end (every adapter has a timeout), a mutex holder lets go
\* of it and Lock hands it in the end to a thread that waits for it; close runs to
\* its end and a process that died is restarted.
Fairness ==
  /\ WF_vars(WorkerTakes \/ WorkerStarts \/ WorkerWorks \/ WorkerEnds)
  /\ SF_vars(WorkerPublishes \/ WorkerSettles)
  /\ WF_vars(Holder)
  /\ SF_vars(CloseQueued)
  /\ WF_vars(ServerStops \/ (server = "crashed" /\ Restart))
  /\ WF_vars(SchedulerTicks \/ \E p \in Projects, mode \in Modes : SchedulerChecks(p, mode))
  /\ SF_vars(\E p \in Projects : SchedulerSubmits(p) \/ SchedulerSkips(p))

FairSpec == Spec /\ Fairness

-------------------------------------------------------------------------------
(* Correctness.                                                            *)

\* The executor, its futures and the thread agree: only the thread's run has a
\* running future, and what waits in the queue has not been started.
ThreadMatchesFutures ==
  /\ \A r \in RunIds : future[r] = "running" <=> worker.run = r
  /\ worker.pc = "idle" <=> worker.run = NoRun
  /\ \A i \in DOMAIN queue : future[queue[i]] \in {"queued", "cancelled"}
  /\ \A r \in RunIds : future[r] = "queued" => (\E i \in DOMAIN queue : queue[i] = r) /\ r \in tracked

\* Every running run is on its way to an end: in the queue, in the thread, or
\* left by a dead process for the next start (or its thread broke, a finding).
RunningIsOwned ==
  \A r \in RunIds : run[r].status = "running" =>
    server = "crashed" \/ future[r] \in {"queued", "running", "broken"}

\* A project never has two scans running.
OneScanPerProject ==
  \A p \in Projects : Cardinality({r \in RunsOf(p) : run[r].status = "running"}) <= 1

ServiceInv == TypeOK /\ ThreadMatchesFutures /\ RunningIsOwned /\ OneScanPerProject

\* While the thread works on a run, neither its project nor its report is
\* deleted, also when the run was stopped long before ("a stopped worker still
\* draining"); so the worker never finds its row gone.
DeletionWaitsForWorker == worker.pc # "idle" => Visible(worker.run) /\ run[worker.run].project \in projects

\* Whatever is on disk belongs to a run that still shows or to a pending
\* cleanup, through failed removals, crashes and a worker that starts late.
NoLostArtifacts == \A r \in files : Visible(r) \/ r \in cleanup

\* Private proxy URLs are in memory only for runs queued or in the thread (or
\* whose thread broke, see UrlsAreReleased).
SnapshotsReleased == \A r \in snapshots : future[r] \in {"queued", "running", "broken"}

\* "Private URLs are held in worker memory for queued runs and released
\* afterward": also when the thread fails before its try block.
UrlsAreReleased == \A r \in snapshots : future[r] \in {"queued", "running"}

\* Once a graceful stop has cancelled the queue, only the thread's run is still
\* running, and none when the process is gone (except one whose thread broke).
StopEndsEverything ==
  server \in {"draining", "aborted", "stopped"} =>
    \A r \in RunIds : run[r].status = "running" => future[r] \in {"running", "broken"}

\* "The scheduler runs only while the server is online", and deleting one client
\* leaves the others' schedules alone: the thread lives as long as the server.
SchedulerSurvives == server = "open" => scheduler.alive

\* The service keeps the promises of ScanLedger, where a run is wanted from its
\* start until a user or a shutdown asks it to stop.
Ledger == INSTANCE ScanLedger WITH
  run <- [r \in RunIds |-> [project |-> run[r].project, status |-> run[r].status, shown |-> run[r].shown]],
  wanted <- {r \in RunIds : run[r].status = "running" /\ server = "open" /\ r \notin requested}
LedgerSpec == Ledger!Spec

\* Every scan ends, through stops, failures, crashes and shutdowns (unless its
\* thread broke before the try block).
EveryScanEnds ==
  \A r \in RunIds : run[r].status = "running" ~> run[r].status # "running" \/ future[r] = "broken"

\* "Re-read the deadline under the same lock as manual enqueueing.  A manual scan or
\* changed schedule may have superseded the tick": no deadline is served twice.  The
\* schedule thread queues a scan only for a deadline that no scan queued since, by a
\* user or by itself, has covered, however old the rows of its tick are, and whatever
\* comes between reading the row and queueing.
DeadlinesServedOnce ==
  [][mutex.op = "due" /\ mutex'.op = "schedule" => <<mutex.project, mutex.mode>> \in owed]_vars

\* "A cached scan must never defer the next enumeration": an enumeration that is due
\* stays due until an enumeration of the project is queued or stopped, or the project is
\* deleted; and what the user turned off stays off, also when a form is saved while a
\* scan advances the schedule.  Only the two forms set either otherwise.
SavedSchedulesHold ==
  [][\A p \in Projects :
       \/ /\ \A m \in Modes : cadence[p][m] = "off" => cadence'[p][m] = "off"
          /\ cadence[p]["enumerate"] = "due" /\ cadence'[p]["enumerate"] # "due" =>
               \/ p \notin projects'
               \/ mutex.run # NoRun /\ run[mutex.run].project = p /\ run[mutex.run].mode = "enumerate"
       \/ SaveSchedules(p) \/ SaveSchedule(p)]_vars

\* A due enumeration is started, while the server stays up and its schedule
\* thread alive (and the bound on runs leaves room), whatever scans are stopped,
\* fail or are lost in a crash; not when a broken thread left the project's run
\* running.
DueScansStart ==
  \A p \in Projects :
    cadence[p]["enumerate"] = "due" ~>
      \/ cadence[p]["enumerate"] # "due" \/ server # "open" \/ ~scheduler.alive
      \/ NewRun \notin RunIds
      \/ \E r \in RunsOf(p) : future[r] = "broken"
===============================================================================
