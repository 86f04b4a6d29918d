--------------------------- MODULE ScanServiceProofs ---------------------------
(***************************************************************************)
(* The scan service keeps its invariants, and implements ScanLedger, for   *)
(* any number of projects, runs, restarts and faults.                      *)
(***************************************************************************)
EXTENDS ScanService, FiniteSetTheorems, TLAPS

(* The inductive invariant.                                                *)

\* Run ids are handed out in order, and a run keeps its project for good.
IdsInOrder == \E n \in 0 .. MaxRuns : \A r \in RunIds : run[r].project # NoOne <=> r <= n

\* What was not handed out is nowhere.
UnusedIsBlank ==
  \A r \in RunIds : run[r].project = NoOne =>
    run[r].status = "absent" /\ future[r] = "none" /\ r \notin requested

\* A row belongs to a project that exists, and a running one shows.
RowsAreOwned ==
  \A r \in RunIds : /\ run[r].status # "absent" => run[r].project \in projects
                    /\ run[r].status = "running" => run[r].shown

\* A submission was asked of a server that is up, and there is an id for it; then it
\* holds the newest run, still running; a stop holds one that it ended; the first
\* cleanup of a process comes before any run.
HolderInv ==
  /\ Asking \/ Submitting => server \in {"open", "closing"}
  /\ Asking => \E r \in RunIds : run[r].project = NoOne
  /\ Submitting => /\ mutex.run \in RunIds /\ run[mutex.run].status = "running"
                   /\ \A r \in RunIds : r > mutex.run => run[r].project = NoOne
  /\ mutex.op = "cancel" => mutex.run \in RunIds /\ run[mutex.run].status = "cancelled"
  /\ server = "starting" => \A r \in RunIds : run[r].status # "running"

\* The queue holds a run once.
QueueDistinct == \A i, j \in DOMAIN queue : queue[i] = queue[j] => i = j

\* What waits or is in the thread is tracked and shows.
LiveFutures ==
  \A r \in RunIds : future[r] \in {"queued", "running"} => r \in tracked /\ Visible(r)

\* OneScanPerProject without counting.
OneRunning ==
  \A r, s \in RunIds : run[r].status = "running" /\ run[s].status = "running"
                       /\ run[r].project = run[s].project => r = s

\* Before the thread lets go of a run it has ended it.
FinalHasEnded == worker.pc = "final" => run[worker.run].status # "running"

\* A cancelled future that is still tracked is newer than all that wait, except while
\* the next submission is under way: close cancels these before it can raise.
WaitingComesFirst ==
  \A g \in tracked, r \in RunIds :
    future[g] = "cancelled" /\ future[r] = "queued" /\ g < r => Submitting /\ mutex.run = r

RowInv    == IdsInOrder /\ UnusedIsBlank /\ RowsAreOwned /\ OneRunning
ThreadInv == ThreadMatchesFutures /\ QueueDistinct /\ LiveFutures /\ FinalHasEnded /\ WaitingComesFirst
GoalInv   == RunningIsOwned /\ NoLostArtifacts /\ SnapshotsReleased /\ StopEndsEverything

IInv == TypeOK /\ RowInv /\ HolderInv /\ ThreadInv /\ GoalInv

-------------------------------------------------------------------------------
(* Lemmas about the operators.                                             *)

\* The next id is the first that was not handed out.
LEMMA NextId ==
  ASSUME NEW n \in 0 .. MaxRuns, \A r \in RunIds : run[r].project # NoOne <=> r <= n
  PROVE  NewRun = n + 1
  <1> DEFINE Used == {r \in RunIds : run[r].project # NoOne}
  <1>1. \A r : r \in Used <=> r \in 1 .. n
    <2>1. \A r : r \in 1 .. n => r \in RunIds
      BY ServiceAssumption DEF RunIds
    <2>2. \A r \in RunIds : r <= n <=> r \in 1 .. n
      BY ServiceAssumption DEF RunIds
    <2>3. QED
      BY <2>1, <2>2
  <1>2. Cardinality(1 .. n) = n
    BY FS_Interval, ServiceAssumption
  <1>3. Used = 1 .. n
    BY <1>1
  <1>4. Cardinality(Used) = n
    BY <1>2, <1>3
  <1>5. QED
    BY <1>4 DEF NewRun

\* It was never used.
LEMMA NextIdIsFresh ==
  ASSUME IdsInOrder, NewRun \in RunIds
  PROVE  run[NewRun].project = NoOne /\ \A r \in RunIds : r > NewRun => run[r].project = NoOne
  <1>1. PICK n \in 0 .. MaxRuns : \A r \in RunIds : run[r].project # NoOne <=> r <= n
    BY DEF IdsInOrder
  <1>2. NewRun = n + 1
    BY <1>1, NextId
  <1>3. QED
    BY <1>1, <1>2, ServiceAssumption DEF RunIds

\* Restarting a cadence leaves a cadence.
LEMMA AdvancedType ==
  ASSUME TypeOK, NEW p, NEW mode
  PROVE  Advanced(p, mode) \in [Projects -> [Modes -> {"off", "waiting", "due"}]]
  BY DEF TypeOK, Advanced

\* What is owed belongs to projects.
LEMMA OwedType ==
  ASSUME IInv, owed' \subseteq owed \/ owed' = StillOwed \/ owed' = OwedAgain
  PROVE  owed' \in SUBSET (Projects \X Modes)
  <1>1. owed \subseteq Projects \X Modes /\ StillOwed \subseteq owed
    BY DEF IInv, TypeOK, StillOwed
  <1>2. Submitting => run[mutex.run].project \in Projects
    BY DEF IInv, TypeOK, HolderInv, RowInv, RowsAreOwned
  <1>3. Submitting => Covered(run[mutex.run].project, run[mutex.run].mode) \subseteq Projects \X Modes
    BY <1>2 DEF Covered
  <1>4. OwedAgain \subseteq Projects \X Modes
    BY <1>1, <1>3 DEF OwedAgain
  <1>5. QED
    BY <1>1, <1>4

LEMMA InitInv == Init => IInv
  <1> SUFFICES ASSUME Init PROVE IInv
    OBVIOUS
  <1>1. TypeOK
    BY DEF Init, TypeOK, RunRow, Modes, Free, Idle, Asleep, NoRun
  <1>2. RowInv
    <2>1. \A r \in RunIds : run[r].project = NoOne /\ run[r].status = "absent"
      BY DEF Init
    <2>2. 0 \in 0 .. MaxRuns /\ \A r \in RunIds : ~(r <= 0)
      BY ServiceAssumption DEF RunIds
    <2>3. IdsInOrder
      BY <2>1, <2>2 DEF IdsInOrder
    <2>4. QED
      BY <2>1, <2>3 DEF Init, RowInv, UnusedIsBlank, RowsAreOwned, OneRunning
  <1>3. HolderInv /\ ThreadInv /\ GoalInv
    BY DEF Init, HolderInv, Asking, Submitting, Free, ThreadInv, ThreadMatchesFutures, QueueDistinct,
           LiveFutures, FinalHasEnded, WaitingComesFirst, GoalInv, RunningIsOwned, NoLostArtifacts,
           SnapshotsReleased, StopEndsEverything, Idle, NoRun, RunIds
  <1>4. QED
    BY <1>1, <1>2, <1>3 DEF IInv

-------------------------------------------------------------------------------
(* One lemma per kind of step.                                             *)

\* A step that leaves the rows, the futures and the thread alone, and adds no file.
LEMMA StillStep ==
  ASSUME IInv, TypeOK', HolderInv', files' \subseteq files, UNCHANGED mutex \/ ~Submitting,
         UNCHANGED <<projects, run, cleanup, server, future, tracked, queue, requested, snapshots, worker>>
  PROVE  IInv'
  <1> USE DEF IInv
  <1>1. RowInv'
    BY DEF RowInv, IdsInOrder, UnusedIsBlank, RowsAreOwned, OneRunning
  <1>2. ThreadInv'
    <2>1. ThreadMatchesFutures' /\ QueueDistinct' /\ LiveFutures' /\ FinalHasEnded'
      BY DEF ThreadInv, ThreadMatchesFutures, QueueDistinct, LiveFutures, Visible, FinalHasEnded
    <2>2. WaitingComesFirst'
      BY DEF ThreadInv, WaitingComesFirst, Submitting
    <2>3. QED
      BY <2>1, <2>2 DEF ThreadInv
  <1>3. GoalInv'
    BY DEF GoalInv, RunningIsOwned, NoLostArtifacts, Visible, SnapshotsReleased, StopEndsEverything
  <1>4. QED
    BY <1>1, <1>2, <1>3

\* So does one that leaves the mutex alone as well.
LEMMA QuietStep ==
  ASSUME IInv, TypeOK', files' \subseteq files,
         UNCHANGED <<projects, run, cleanup, server, mutex, future, tracked, queue, requested, snapshots, worker>>
  PROVE  IInv'
  <1>1. HolderInv'
    BY DEF IInv, HolderInv, Asking, Submitting
  <1>2. QED
    BY <1>1, StillStep

\* Where the scheduler can be.
SchedulerType == [alive : BOOLEAN, todo : SUBSET (Projects \X Modes), submitting : Projects \cup {NoOne}]

\* A submission takes the mutex ...
LEMMA AsksStep ==
  ASSUME IInv, NEW op \in {"asked", "due"}, NEW p \in Projects, NEW mode \in Modes, Asks(op, p, mode),
         scheduler' \in SchedulerType
  PROVE  IInv'
  <1>1. /\ mutex = Free /\ server = "open"
        /\ mutex' = AskFor(op, p, mode)
        /\ UNCHANGED <<projects, run, cleanup, accepted, cadence, owed, files, server, future, tracked, queue,
                       requested, snapshots, worker, restarts, faults>>
    BY DEF Asks, stored
  <1>2. TypeOK'
    BY <1>1 DEF IInv, TypeOK, SchedulerType, AskFor
  <1>3. \E r \in RunIds : run[r].project = NoOne
    BY NextIdIsFresh DEF Asks, IInv, RowInv
  <1>4. HolderInv'
    <2>1. mutex'.op = op /\ op \notin {"submit", "schedule", "cancel"}
      BY <1>1 DEF AskFor
    <2>2. QED
      BY <1>1, <1>3, <2>1 DEF IInv, HolderInv, Asking, Submitting
  <1>5. ~Submitting
    BY <1>1 DEF Submitting, Free
  <1>6. QED
    BY <1>1, <1>2, <1>4, <1>5, StillStep

\* ... and is refused.
LEMMA RefusedStep ==
  ASSUME IInv, SubmitRefused
  PROVE  IInv'
  <1>0. owed' \in SUBSET (Projects \X Modes)
    BY OwedType DEF SubmitRefused
  <1>1. /\ Asking /\ mutex' = Free /\ faults' \in {faults, faults + 1}
        /\ UNCHANGED <<projects, run, cleanup, accepted, cadence, files, server, future, tracked, queue,
                       requested, snapshots, worker, scheduler, restarts>>
    BY DEF SubmitRefused, Fault
  <1>2. TypeOK'
    BY <1>0, <1>1 DEF IInv, TypeOK, Free
  <1>3. HolderInv'
    BY <1>1 DEF IInv, HolderInv, Asking, Submitting, Free
  <1>4. ~Submitting
    BY <1>1 DEF Asking, Submitting
  <1>5. QED
    BY <1>1, <1>2, <1>3, <1>4, StillStep

\* What was asked for names a project and a mode, and there is an id for it.
LEMMA AskedFor ==
  ASSUME IInv, Asking
  PROVE  /\ mutex.project \in Projects /\ mutex.mode \in Modes
         /\ server \in {"open", "closing"} /\ NewRun \in RunIds
  <1>1. mutex.project \in Projects /\ mutex.mode \in Modes
    BY DEF IInv, TypeOK, Asking
  <1>2. PICK r \in RunIds : run[r].project = NoOne
    BY DEF IInv, HolderInv
  <1>3. PICK n \in 0 .. MaxRuns : \A s \in RunIds : run[s].project # NoOne <=> s <= n
    BY DEF IInv, RowInv, IdsInOrder
  <1>4. n < MaxRuns
    BY <1>2, <1>3, ServiceAssumption DEF RunIds
  <1>5. NewRun \in RunIds
    BY <1>3, <1>4, NextId, ServiceAssumption DEF RunIds
  <1>6. QED
    BY <1>1, <1>5 DEF IInv, HolderInv

\* A submission reaches the executor.
LEMMA EnqueueStep ==
  ASSUME IInv, Enqueue
  PROVE  IInv'
  <1> DEFINE new == NewRun
             p == mutex.project
             op == IF mutex.op = "due" THEN "schedule" ELSE "submit"
             row == [project |-> p, mode |-> mutex.mode, status |-> "running", shown |-> TRUE]
  <1>0. Asking /\ p \in Projects /\ mutex.mode \in Modes /\ server \in {"open", "closing"}
    BY AskedFor DEF Enqueue
  <1>a. owed' \in SUBSET (Projects \X Modes)
    BY OwedType DEF Enqueue
  <1>1. new \in RunIds /\ run[new].project = NoOne
        /\ \A r \in RunIds : r > new => run[r].project = NoOne
    BY <1>0, AskedFor, NextIdIsFresh DEF IInv, RowInv
  <1>2. run[new].status = "absent" /\ future[new] = "none" /\ new \notin requested
    BY <1>1 DEF IInv, RowInv, UnusedIsBlank
  <1>3. /\ row \in RunRow /\ row.project = p /\ row.status = "running" /\ row.shown = TRUE
        /\ p \in projects /\ p # NoOne
    BY <1>0, ServiceAssumption DEF RunRow, Enqueue, Startable
  <1>4. /\ run' = [run EXCEPT ![new] = row]
        /\ future' = [future EXCEPT ![new] = "queued"]
        /\ queue' = Append(queue, new) /\ tracked' = tracked \cup {new}
        /\ snapshots' = snapshots \cup {new} /\ files' = files \cup {new}
        /\ mutex' = [op |-> op, run |-> new] /\ op \in {"submit", "schedule"}
        /\ server \in {"open", "closing"} /\ ~Scanning(p) /\ ~Submitting
        /\ UNCHANGED <<projects, cleanup, accepted, cadence, server, requested, worker, scheduler,
                       restarts, faults>>
    BY <1>0 DEF Enqueue, Startable, Asking, Submitting
  <1> HIDE DEF new, row, p, op
  <1>5. TypeOK'
    BY <1>a, <1>1, <1>3, <1>4 DEF IInv, TypeOK
  <1>6. /\ run'[new] = row /\ \A r \in RunIds : r # new => run'[r] = run[r]
        /\ future'[new] = "queued" /\ \A r \in RunIds : r # new => future'[r] = future[r]
    BY <1>1, <1>4 DEF IInv, TypeOK
  <1>7. RowInv'
    <2>1. IdsInOrder'
      <3>1. new \in 0 .. MaxRuns /\ \A r \in RunIds : r \in Nat
        BY <1>1, ServiceAssumption DEF RunIds
      <3>2. PICK n \in 0 .. MaxRuns : \A r \in RunIds : run[r].project # NoOne <=> r <= n
        BY DEF IInv, RowInv, IdsInOrder
      <3>3. new = n + 1
        BY <3>2, NextId DEF new
      <3>4. \A r \in RunIds : run'[r].project # NoOne <=> r <= new
        BY <1>3, <1>6, <3>1, <3>2, <3>3
      <3>5. QED
        BY <3>1, <3>4 DEF IdsInOrder
    <2>2. UnusedIsBlank'
      BY <1>1, <1>3, <1>4, <1>6 DEF IInv, RowInv, UnusedIsBlank
    <2>3. RowsAreOwned'
      BY <1>1, <1>3, <1>4, <1>6 DEF IInv, RowInv, RowsAreOwned
    <2>4. OneRunning'
      <3>1. \A r \in RunIds : run[r].status = "running" => run[r].project # p
        BY <1>4 DEF Scanning, RunsOf
      <3>2. QED
        BY <1>1, <1>3, <1>6, <3>1 DEF IInv, RowInv, OneRunning
    <2>5. QED
      BY <2>1, <2>2, <2>3, <2>4 DEF RowInv
  <1>8. HolderInv'
    <2>1. mutex'.op = op /\ mutex'.run = new /\ op # "cancel"
      BY <1>4
    <2>2. \A r \in RunIds : r > new => r # new
      BY <1>1 DEF RunIds
    <2>3. QED
      BY <1>1, <1>3, <1>4, <1>6, <2>1, <2>2 DEF HolderInv, Asking, Submitting
  <1>9. ThreadInv'
    <2>1. ThreadMatchesFutures'
      <3>1. ThreadMatchesFutures /\ queue \in Seq(RunIds)
        BY DEF IInv, TypeOK, ThreadInv
      <3>2. \A r \in RunIds : future'[r] = "running" <=> worker'.run = r
        BY <1>1, <1>2, <1>4, <1>6, <3>1 DEF ThreadMatchesFutures
      <3>3. worker'.pc = "idle" <=> worker'.run = NoRun
        BY <1>4, <3>1 DEF ThreadMatchesFutures
      <3>4. \A i \in DOMAIN queue' : future'[queue'[i]] \in {"queued", "cancelled"}
        BY <1>1, <1>4, <1>6, <3>1 DEF ThreadMatchesFutures
      <3>5. ASSUME NEW r \in RunIds, future'[r] = "queued"
            PROVE  (\E i \in DOMAIN queue' : queue'[i] = r) /\ r \in tracked'
        <4>1. CASE r = new
          <5>1. Len(queue) + 1 \in DOMAIN queue' /\ queue'[Len(queue) + 1] = r
            BY <1>1, <1>4, <3>1, <4>1
          <5>2. QED
            BY <1>4, <4>1, <5>1
        <4>2. CASE r # new
          <5>1. PICK i \in DOMAIN queue : queue[i] = r
            BY <1>6, <3>1, <3>5, <4>2 DEF ThreadMatchesFutures
          <5>2. i \in DOMAIN queue' /\ queue'[i] = r
            BY <1>1, <1>4, <3>1, <5>1
          <5>3. QED
            BY <1>4, <1>6, <3>1, <3>5, <4>2, <5>2 DEF ThreadMatchesFutures
        <4>3. QED
          BY <4>1, <4>2
      <3>6. QED
        BY <3>2, <3>3, <3>4, <3>5 DEF ThreadMatchesFutures
    <2>2. QueueDistinct'
      BY <1>1, <1>2, <1>4 DEF IInv, TypeOK, ThreadInv, ThreadMatchesFutures, QueueDistinct
    <2>3. LiveFutures'
      BY <1>1, <1>3, <1>4, <1>6 DEF IInv, ThreadInv, LiveFutures, Visible
    <2>4. FinalHasEnded'
      <3>1. worker.pc = "final" => worker.run # new /\ worker.run \in RunIds
        BY <1>1, <1>2 DEF IInv, TypeOK, ThreadInv, ThreadMatchesFutures, NoRun
      <3>2. QED
        BY <1>4, <1>6, <3>1 DEF IInv, ThreadInv, FinalHasEnded
    <2>5. WaitingComesFirst'
      BY <1>1, <1>4, <1>6 DEF IInv, TypeOK, ThreadInv, WaitingComesFirst, Submitting, Free
    <2>6. QED
      BY <2>1, <2>2, <2>3, <2>4, <2>5 DEF ThreadInv
  <1>10. GoalInv'
    BY <1>1, <1>3, <1>4, <1>6
       DEF IInv, GoalInv, RunningIsOwned, NoLostArtifacts, Visible, SnapshotsReleased, StopEndsEverything
  <1>11. QED
    BY <1>5, <1>7, <1>8, <1>9, <1>10 DEF IInv
\* The submission lets go of the mutex.
LEMMA SubmitEndsStep ==
  ASSUME IInv, SubmitEnds
  PROVE  IInv'
  <1>1. /\ Submitting /\ mutex' = Free
        /\ tracked' = {t \in tracked : future[t] \notin Finished}
        /\ UNCHANGED <<projects, run, cleanup, accepted, files, server, future, queue, requested,
                       snapshots, worker, scheduler, restarts, faults>>
    BY DEF SubmitEnds
  <1>2. TypeOK'
    <2>1. cadence' \in [Projects -> [Modes -> {"off", "waiting", "due"}]]
      BY AdvancedType DEF SubmitEnds, IInv
    <2>2. owed' \in SUBSET (Projects \X Modes)
      BY OwedType DEF SubmitEnds
    <2>3. QED
      BY <1>1, <2>1, <2>2 DEF IInv, TypeOK, Free
  <1>3. RowInv'
    BY <1>1 DEF IInv, RowInv, IdsInOrder, UnusedIsBlank, RowsAreOwned, OneRunning
  <1>4. HolderInv'
    BY <1>1 DEF IInv, HolderInv, Asking, Submitting, Free
  <1>5. ThreadInv'
    <2>1. ThreadMatchesFutures' /\ LiveFutures'
      BY <1>1 DEF IInv, ThreadInv, ThreadMatchesFutures, LiveFutures, Visible, Finished
    <2>2. QueueDistinct' /\ FinalHasEnded'
      BY <1>1 DEF IInv, ThreadInv, QueueDistinct, FinalHasEnded
    <2>3. WaitingComesFirst'
      BY <1>1 DEF WaitingComesFirst, Finished
    <2>4. QED
      BY <2>1, <2>2, <2>3 DEF ThreadInv
  <1>6. GoalInv'
    BY <1>1 DEF IInv, GoalInv, RunningIsOwned, NoLostArtifacts, Visible, SnapshotsReleased, StopEndsEverything
  <1>7. QED
    BY <1>2, <1>3, <1>4, <1>5, <1>6 DEF IInv

\* A run that is still in the table gets an end, and nothing else of any row changes.
Settles(r, how) ==
  /\ run' = [run EXCEPT ![r].status = how]
  /\ UNCHANGED <<projects, server, cleanup>>

\* So a run that was there keeps its project and whether it shows.
LEMMA SettledRows ==
  ASSUME IInv, NEW r \in RunIds, NEW how \in Ended, run[r].status # "absent", Settles(r, how)
  PROVE  /\ run' \in [RunIds -> RunRow]
         /\ run'[r].status = how
         /\ \A s \in RunIds : /\ run'[s].project = run[s].project /\ run'[s].shown = run[s].shown
                              /\ run'[s].mode = run[s].mode
                              /\ s # r => run'[s] = run[s]
                              /\ run'[s].status = "running" => run[s].status = "running"
                              /\ run'[s].status = "absent" <=> run[s].status = "absent"
         /\ IdsInOrder' /\ RowsAreOwned' /\ OneRunning'
         /\ (server = "starting" => \A s \in RunIds : run[s].status # "running")'
  <1>1. run \in [RunIds -> RunRow] /\ how \notin {"absent", "running"}
    BY DEF IInv, TypeOK, Ended
  <1>2. run' \in [RunIds -> RunRow]
    BY <1>1 DEF Settles, RunRow
  <1>3. run'[r].status = how
    BY <1>1 DEF Settles, RunRow
  <1>4. ASSUME NEW s \in RunIds
        PROVE  /\ run'[s].project = run[s].project /\ run'[s].shown = run[s].shown
               /\ run'[s].mode = run[s].mode /\ (s # r => run'[s] = run[s])
    BY <1>1 DEF Settles, RunRow
  <1>5. ASSUME NEW s \in RunIds
        PROVE  /\ run'[s].status = "running" => run[s].status = "running"
               /\ run'[s].status = "absent" <=> run[s].status = "absent"
    BY <1>1, <1>3, <1>4
  <1>6. UNCHANGED <<projects, server>>
    BY DEF Settles
  <1>7. IdsInOrder' /\ RowsAreOwned' /\ OneRunning'
    BY <1>4, <1>5, <1>6 DEF IInv, RowInv, IdsInOrder, RowsAreOwned, OneRunning
  <1>8. QED
    BY <1>2, <1>3, <1>4, <1>5, <1>6, <1>7 DEF IInv, HolderInv
\* A submission that cannot advance its schedule ends its run.
LEMMA SubmitFailsStep ==
  ASSUME IInv, SubmitFails
  PROVE  IInv'
  <1> DEFINE r == mutex.run
  <1>1. /\ Submitting /\ mutex' = Free /\ faults' = faults + 1
        /\ requested' = requested \cup {r}
        /\ future' = [future EXCEPT ![r] = IF @ = "queued" THEN "cancelled" ELSE @]
        /\ snapshots' = snapshots \ {r}
        /\ Settles(r, "failed")
        /\ UNCHANGED <<projects, cleanup, accepted, cadence, files, server, tracked, queue, worker,
                       scheduler, restarts>>
    BY DEF SubmitFails, Fault, Settles
  <1>2. r \in RunIds /\ run[r].status = "running" /\ \A s \in RunIds : s > r => run[s].project = NoOne
    BY <1>1 DEF IInv, HolderInv
  <1> HIDE DEF r
  <1>3. \A s \in RunIds : future'[s] = IF s = r /\ future[r] = "queued" THEN "cancelled" ELSE future[s]
    BY <1>1, <1>2 DEF IInv, TypeOK
  <1>4. /\ run' \in [RunIds -> RunRow]
        /\ run'[r].status = "failed"
        /\ \A s \in RunIds : /\ run'[s].project = run[s].project /\ run'[s].shown = run[s].shown
                             /\ s # r => run'[s] = run[s]
                             /\ run'[s].status = "running" => run[s].status = "running"
                             /\ run'[s].status = "absent" <=> run[s].status = "absent"
        /\ IdsInOrder' /\ RowsAreOwned' /\ OneRunning'
        /\ (server = "starting" => \A s \in RunIds : run[s].status # "running")'
    BY <1>1, <1>2, SettledRows DEF Ended
  <1>5. TypeOK'
    <2>1. future' \in [RunIds -> {"none", "queued", "running"} \cup Finished]
      BY <1>1, <1>2 DEF IInv, TypeOK, Finished
    <2>2. faults' \in Nat /\ requested' \in SUBSET RunIds /\ snapshots' \in SUBSET RunIds
      BY <1>1, <1>2 DEF IInv, TypeOK
    <2>3. owed' \in SUBSET (Projects \X Modes)
      BY OwedType DEF SubmitFails
    <2>4. QED
      BY <1>1, <1>4, <2>1, <2>2, <2>3 DEF IInv, TypeOK, Free
  <1>6. UnusedIsBlank'
    BY <1>1, <1>2, <1>3, <1>4 DEF IInv, RowInv, UnusedIsBlank
  <1>7. HolderInv'
    BY <1>1, <1>4 DEF HolderInv, Asking, Submitting, Free
  <1>8. ThreadInv'
    <2>1. ThreadMatchesFutures'
      BY <1>1, <1>3 DEF IInv, TypeOK, ThreadInv, ThreadMatchesFutures
    <2>2. QueueDistinct' /\ LiveFutures'
      BY <1>1, <1>3, <1>4 DEF IInv, ThreadInv, QueueDistinct, LiveFutures, Visible
    <2>3. FinalHasEnded'
      BY <1>1, <1>4 DEF IInv, TypeOK, ThreadInv, FinalHasEnded, ThreadMatchesFutures
    <2>4. WaitingComesFirst'
      <3>1. ASSUME NEW s \in RunIds, s > r PROVE future[s] = "none"
        BY <1>2, <3>1 DEF IInv, RowInv, UnusedIsBlank
      <3>2. ASSUME NEW g \in tracked', NEW s \in RunIds, future'[g] = "cancelled",
                   future'[s] = "queued", g < s
            PROVE  FALSE
        <4>1. s # r /\ future[s] = "queued" /\ ~(s > r)
          BY <1>2, <1>3, <3>1, <3>2
        <4>2. g \in RunIds /\ g \in tracked /\ g # r
          BY <1>1, <1>2, <3>2, <4>1 DEF IInv, TypeOK, RunIds
        <4>3. future[g] = "cancelled"
          BY <1>3, <3>2, <4>2
        <4>4. QED
          BY <3>2, <4>1, <4>2, <4>3 DEF IInv, ThreadInv, WaitingComesFirst, r
      <3>3. QED
        BY <3>2 DEF WaitingComesFirst
    <2>5. QED
      BY <2>1, <2>2, <2>3, <2>4 DEF ThreadInv
  <1>9. GoalInv'
    <2>1. RunningIsOwned' /\ StopEndsEverything'
      BY <1>1, <1>3, <1>4 DEF IInv, GoalInv, RunningIsOwned, StopEndsEverything
    <2>2. NoLostArtifacts'
      BY <1>1, <1>4 DEF IInv, TypeOK, GoalInv, NoLostArtifacts, Visible
    <2>3. SnapshotsReleased'
      BY <1>1, <1>3 DEF IInv, TypeOK, GoalInv, SnapshotsReleased
    <2>4. QED
      BY <2>1, <2>2, <2>3 DEF GoalInv
  <1>10. QED
    BY <1>4, <1>5, <1>6, <1>7, <1>8, <1>9 DEF IInv, RowInv

\* A user's stop is recorded.
LEMMA CancelScanStep ==
  ASSUME IInv, NEW r \in RunIds, CancelScan(r)
  PROVE  IInv'
  <1>1. /\ mutex = Free /\ mutex' = [op |-> "cancel", run |-> r]
        /\ run[r].status = "running"
        /\ requested' = requested \cup {r}
        /\ Settles(r, "cancelled")
        /\ UNCHANGED <<projects, cleanup, accepted, cadence, owed, files, server, future, tracked, queue,
                       snapshots, worker, scheduler, restarts, faults>>
    BY DEF CancelScan, Settles
  <1>2. /\ run' \in [RunIds -> RunRow]
        /\ run'[r].status = "cancelled"
        /\ \A s \in RunIds : /\ run'[s].project = run[s].project /\ run'[s].shown = run[s].shown
                             /\ s # r => run'[s] = run[s]
                             /\ run'[s].status = "running" => run[s].status = "running"
                             /\ run'[s].status = "absent" <=> run[s].status = "absent"
        /\ IdsInOrder' /\ RowsAreOwned' /\ OneRunning'
        /\ (server = "starting" => \A s \in RunIds : run[s].status # "running")'
    BY <1>1, SettledRows DEF Ended
  <1>3. TypeOK'
    BY <1>1, <1>2 DEF IInv, TypeOK
  <1>4. UnusedIsBlank'
    BY <1>1, <1>2 DEF IInv, RowInv, UnusedIsBlank
  <1>5. HolderInv'
    BY <1>1, <1>2 DEF HolderInv, Asking, Submitting
  <1>6. ThreadInv'
    <2>1. ThreadMatchesFutures' /\ QueueDistinct'
      BY <1>1 DEF IInv, ThreadInv, ThreadMatchesFutures, QueueDistinct
    <2>2. LiveFutures'
      BY <1>1, <1>2 DEF IInv, ThreadInv, LiveFutures, Visible
    <2>3. FinalHasEnded'
      BY <1>1, <1>2 DEF IInv, TypeOK, ThreadInv, FinalHasEnded, ThreadMatchesFutures
    <2>4. WaitingComesFirst'
      BY <1>1 DEF IInv, ThreadInv, WaitingComesFirst, Submitting, Free
    <2>5. QED
      BY <2>1, <2>2, <2>3, <2>4 DEF ThreadInv
  <1>7. GoalInv'
    <2>1. RunningIsOwned' /\ StopEndsEverything'
      BY <1>1, <1>2 DEF IInv, GoalInv, RunningIsOwned, StopEndsEverything
    <2>2. NoLostArtifacts'
      BY <1>1, <1>2 DEF IInv, TypeOK, GoalInv, NoLostArtifacts, Visible
    <2>3. SnapshotsReleased'
      BY <1>1 DEF IInv, GoalInv, SnapshotsReleased
    <2>4. QED
      BY <2>1, <2>2, <2>3 DEF GoalInv
  <1>8. QED
    BY <1>2, <1>3, <1>4, <1>5, <1>6, <1>7 DEF IInv, RowInv
\* A stopped run leaves the queue.
LEMMA CancelEndsStep ==
  ASSUME IInv, CancelEnds
  PROVE  IInv'
  <1> DEFINE r == mutex.run
             dequeued == r \in tracked /\ future[r] \in {"queued", "cancelled"}
  <1>1. /\ mutex.op = "cancel" /\ mutex' = Free
        /\ future' = IF dequeued THEN [future EXCEPT ![r] = "cancelled"] ELSE future
        /\ tracked' = IF dequeued THEN tracked \ {r} ELSE tracked
        /\ snapshots' = IF dequeued THEN snapshots \ {r} ELSE snapshots
        /\ UNCHANGED <<projects, run, cleanup, accepted, files, server, queue, requested, worker,
                       scheduler, restarts, faults>>
    BY DEF CancelEnds
  <1>2. r \in RunIds /\ run[r].status = "cancelled"
    BY <1>1 DEF IInv, HolderInv
  <1> HIDE DEF r, dequeued
  <1>3. \A s \in RunIds : future'[s] = IF s = r /\ dequeued THEN "cancelled" ELSE future[s]
    BY <1>1, <1>2 DEF IInv, TypeOK
  <1>4. dequeued => r \in tracked /\ future[r] \in {"queued", "cancelled"}
    BY DEF dequeued
  <1>5. TypeOK'
    <2>1. cadence' \in [Projects -> [Modes -> {"off", "waiting", "due"}]]
      BY AdvancedType DEF CancelEnds, IInv
    <2>2. future' \in [RunIds -> {"none", "queued", "running"} \cup Finished]
      BY <1>1, <1>2 DEF IInv, TypeOK, Finished
    <2>3. owed' \in SUBSET (Projects \X Modes)
      BY OwedType DEF CancelEnds
    <2>4. QED
      BY <1>1, <2>1, <2>2, <2>3 DEF IInv, TypeOK, Free
  <1>6. RowInv'
    <2>1. IdsInOrder' /\ RowsAreOwned' /\ OneRunning'
      BY <1>1 DEF IInv, RowInv, IdsInOrder, RowsAreOwned, OneRunning
    <2>2. UnusedIsBlank'
      BY <1>1, <1>2, <1>3 DEF IInv, RowInv, UnusedIsBlank
    <2>3. QED
      BY <2>1, <2>2 DEF RowInv
  <1>7. HolderInv'
    BY <1>1 DEF IInv, HolderInv, Asking, Submitting, Free
  <1>8. ThreadInv'
    <2>1. ThreadMatchesFutures'
      BY <1>1, <1>2, <1>3, <1>4 DEF IInv, TypeOK, ThreadInv, ThreadMatchesFutures
    <2>2. QueueDistinct' /\ FinalHasEnded'
      BY <1>1 DEF IInv, ThreadInv, QueueDistinct, FinalHasEnded
    <2>3. LiveFutures'
      BY <1>1, <1>3, <1>4 DEF IInv, ThreadInv, LiveFutures, Visible
    <2>4. WaitingComesFirst'
      <3>1. ASSUME NEW g \in tracked', NEW s \in RunIds, future'[g] = "cancelled",
                   future'[s] = "queued", g < s
            PROVE  FALSE
        <4>1. future[s] = "queued"
          BY <1>3, <3>1
        <4>2. g \in RunIds /\ g \in tracked /\ ~(g = r /\ dequeued)
          BY <1>1, <3>1 DEF IInv, TypeOK
        <4>3. future[g] = "cancelled"
          BY <1>3, <3>1, <4>2
        <4>4. QED
          BY <1>1, <3>1, <4>1, <4>2, <4>3 DEF IInv, ThreadInv, WaitingComesFirst, Submitting
      <3>2. QED
        BY <3>1 DEF WaitingComesFirst
    <2>5. QED
      BY <2>1, <2>2, <2>3, <2>4 DEF ThreadInv
  <1>9. GoalInv'
    <2>1. RunningIsOwned' /\ StopEndsEverything'
      BY <1>1, <1>2, <1>3 DEF IInv, GoalInv, RunningIsOwned, StopEndsEverything
    <2>2. NoLostArtifacts'
      BY <1>1 DEF IInv, GoalInv, NoLostArtifacts, Visible
    <2>3. SnapshotsReleased'
      BY <1>1, <1>3 DEF IInv, TypeOK, GoalInv, SnapshotsReleased
    <2>4. QED
      BY <2>1, <2>2, <2>3 DEF GoalInv
  <1>10. QED
    BY <1>5, <1>6, <1>7, <1>8, <1>9 DEF IInv

\* The thread takes the head of the queue.
LEMMA WorkerTakesStep ==
  ASSUME IInv, WorkerTakes
  PROVE  IInv'
  <1> DEFINE r == Head(queue)
  <1>1. /\ worker = Idle /\ queue # <<>> /\ queue' = Tail(queue)
        /\ \/ future[r] = "cancelled" /\ UNCHANGED <<future, worker>>
           \/ /\ future[r] # "cancelled"
              /\ future' = [future EXCEPT ![r] = "running"]
              /\ worker' = [pc |-> "starting", run |-> r]
        /\ UNCHANGED <<projects, run, cleanup, accepted, cadence, owed, files, server, mutex, tracked,
                       requested, snapshots, scheduler, restarts, faults>>
    BY DEF WorkerTakes, OnlyWorker
  <1>2. queue \in Seq(RunIds) /\ r = queue[1] /\ 1 \in DOMAIN queue /\ r \in RunIds
    BY <1>1 DEF IInv, TypeOK
  <1>3. queue' \in Seq(RunIds) /\ \A i \in DOMAIN queue' : i + 1 \in DOMAIN queue /\ queue'[i] = queue[i + 1]
    BY <1>1, <1>2
  <1>4. future[r] \in {"queued", "cancelled"} /\ \A s \in RunIds : future[s] # "running"
    BY <1>1, <1>2 DEF IInv, ThreadInv, ThreadMatchesFutures, Idle, NoRun, RunIds
  <1> HIDE DEF r
  <1>5. \/ future[r] = "cancelled" /\ UNCHANGED <<future, worker>>
        \/ /\ future[r] = "queued" /\ future'[r] = "running"
           /\ \A s \in RunIds : s # r => future'[s] = future[s]
           /\ worker' = [pc |-> "starting", run |-> r]
    BY <1>1, <1>2, <1>4 DEF IInv, TypeOK
  <1>6. TypeOK'
    <2>1. future' \in [RunIds -> {"none", "queued", "running"} \cup Finished]
      BY <1>1, <1>2 DEF IInv, TypeOK
    <2>2. worker' \in [pc : {"idle", "starting", "working", "publishing", "failing", "final"},
                      run : RunIds \cup {NoRun}]
      BY <1>1, <1>2 DEF IInv, TypeOK
    <2>3. QED
      BY <1>1, <1>3, <2>1, <2>2 DEF IInv, TypeOK
  <1>7. RowInv'
    <2>1. IdsInOrder' /\ RowsAreOwned' /\ OneRunning'
      BY <1>1 DEF IInv, RowInv, IdsInOrder, RowsAreOwned, OneRunning
    <2>2. UnusedIsBlank'
      BY <1>1, <1>2, <1>5 DEF IInv, RowInv, UnusedIsBlank
    <2>3. QED
      BY <2>1, <2>2 DEF RowInv
  <1>8. HolderInv'
    BY <1>1 DEF IInv, HolderInv, Asking, Submitting
  <1>9. ThreadInv'
    <2>1. \A i \in DOMAIN queue' : queue'[i] # r
      BY <1>2, <1>3 DEF IInv, ThreadInv, QueueDistinct
    <2>2. ThreadMatchesFutures'
      <3>1. \A s \in RunIds : future'[s] = "running" <=> worker'.run = s
        BY <1>1, <1>2, <1>4, <1>5 DEF Idle, NoRun, RunIds
      <3>2. worker'.pc = "idle" <=> worker'.run = NoRun
        BY <1>1, <1>2, <1>5 DEF Idle, NoRun, RunIds
      <3>3. \A i \in DOMAIN queue' : future'[queue'[i]] \in {"queued", "cancelled"}
        BY <1>2, <1>3, <1>5, <2>1 DEF IInv, ThreadInv, ThreadMatchesFutures
      <3>4. ASSUME NEW s \in RunIds, future'[s] = "queued"
            PROVE  (\E i \in DOMAIN queue' : queue'[i] = s) /\ s \in tracked'
        <4>1. s # r /\ future[s] = "queued"
          BY <1>4, <1>5, <3>4
        <4>2. PICK i \in DOMAIN queue : queue[i] = s
          BY <4>1 DEF IInv, ThreadInv, ThreadMatchesFutures
        <4>3. i - 1 \in DOMAIN queue' /\ queue'[i - 1] = s
          BY <1>1, <1>2, <4>1, <4>2
        <4>4. QED
          BY <1>1, <4>1, <4>3 DEF IInv, ThreadInv, ThreadMatchesFutures
      <3>5. QED
        BY <3>1, <3>2, <3>3, <3>4 DEF ThreadMatchesFutures
    <2>3. QueueDistinct'
      <3>1. ASSUME NEW i \in DOMAIN queue', NEW j \in DOMAIN queue', queue'[i] = queue'[j]
            PROVE  i = j
        BY <1>3, <3>1 DEF IInv, ThreadInv, QueueDistinct
      <3>2. QED
        BY <3>1 DEF QueueDistinct
    <2>4. LiveFutures'
      BY <1>1, <1>5 DEF IInv, ThreadInv, LiveFutures, Visible
    <2>5. FinalHasEnded'
      BY <1>1, <1>5 DEF FinalHasEnded, Idle
    <2>6. WaitingComesFirst'
      BY <1>1, <1>5 DEF IInv, TypeOK, ThreadInv, WaitingComesFirst, Submitting
    <2>7. QED
      BY <2>2, <2>3, <2>4, <2>5, <2>6 DEF ThreadInv
  <1>10. GoalInv'
    <2>1. RunningIsOwned' /\ StopEndsEverything'
      BY <1>1, <1>5 DEF IInv, GoalInv, RunningIsOwned, StopEndsEverything
    <2>2. NoLostArtifacts'
      BY <1>1 DEF IInv, GoalInv, NoLostArtifacts, Visible
    <2>3. SnapshotsReleased'
      BY <1>1, <1>5 DEF IInv, TypeOK, GoalInv, SnapshotsReleased
    <2>4. QED
      BY <2>1, <2>2, <2>3 DEF GoalInv
  <1>11. QED
    BY <1>6, <1>7, <1>8, <1>9, <1>10 DEF IInv
\* A busy thread has a run, which is in no queue, shows and is tracked.
LEMMA BusyThread ==
  ASSUME IInv, worker.pc # "idle"
  PROVE  /\ worker.run \in RunIds /\ future[worker.run] = "running" /\ Visible(worker.run)
         /\ run[worker.run].project \in projects
  <1>1. worker.run \in RunIds
    BY DEF IInv, TypeOK, ThreadInv, ThreadMatchesFutures, NoRun
  <1>2. future[worker.run] = "running"
    BY <1>1 DEF IInv, ThreadInv, ThreadMatchesFutures
  <1>3. Visible(worker.run)
    BY <1>1, <1>2 DEF IInv, ThreadInv, LiveFutures
  <1>4. QED
    BY <1>1, <1>2, <1>3 DEF IInv, RowInv, RowsAreOwned, Visible

\* The thread goes on with its run.
LEMMA WorkerMovesStep ==
  ASSUME IInv, worker.pc # "idle", NEW pc \in {"working", "publishing", "failing"},
         worker' = [worker EXCEPT !.pc = pc], files' \subseteq files \cup {worker.run}, faults' \in Nat,
         UNCHANGED <<projects, run, cleanup, accepted, cadence, owed, server, mutex, future, tracked, queue,
                     requested, snapshots, scheduler, restarts>>
  PROVE  IInv'
  <1>1. worker.run \in RunIds /\ Visible(worker.run)
    BY BusyThread
  <1>2. worker'.pc = pc /\ worker'.run = worker.run
    BY DEF IInv, TypeOK
  <1>3. TypeOK'
    BY <1>1 DEF IInv, TypeOK
  <1>4. RowInv'
    BY DEF IInv, RowInv, IdsInOrder, UnusedIsBlank, RowsAreOwned, OneRunning
  <1>5. HolderInv'
    BY DEF IInv, HolderInv, Asking, Submitting
  <1>6. ThreadInv'
    <2>1. ThreadMatchesFutures' /\ QueueDistinct'
      BY <1>1, <1>2 DEF IInv, ThreadInv, ThreadMatchesFutures, QueueDistinct, NoRun
    <2>2. LiveFutures' /\ FinalHasEnded' /\ WaitingComesFirst'
      BY <1>2 DEF IInv, ThreadInv, LiveFutures, Visible, FinalHasEnded, WaitingComesFirst, Submitting
    <2>3. QED
      BY <2>1, <2>2 DEF ThreadInv
  <1>7. GoalInv'
    BY <1>1
       DEF IInv, GoalInv, RunningIsOwned, NoLostArtifacts, Visible, SnapshotsReleased, StopEndsEverything
  <1>8. QED
    BY <1>3, <1>4, <1>5, <1>6, <1>7 DEF IInv

\* The thread breaks off before its try block.
LEMMA WorkerBreaksStep ==
  ASSUME IInv, WorkerBreaks
  PROVE  IInv'
  <1> DEFINE r == worker.run
  <1>1. /\ worker.pc = "starting" /\ worker' = Idle /\ faults' = faults + 1
        /\ future' = [future EXCEPT ![r] = "broken"]
        /\ UNCHANGED <<projects, run, cleanup, accepted, cadence, owed, files, server, mutex, tracked, queue,
                       requested, snapshots, scheduler, restarts>>
    BY DEF WorkerBreaks, OnlyWorker, Fault
  <1>2. r \in RunIds /\ future[r] = "running" /\ run[r].status # "absent"
    BY <1>1, BusyThread DEF Visible
  <1> HIDE DEF r
  <1>3. future'[r] = "broken" /\ \A s \in RunIds : s # r => future'[s] = future[s]
    BY <1>1, <1>2 DEF IInv, TypeOK
  <1>4. TypeOK'
    BY <1>1, <1>2 DEF IInv, TypeOK, Finished, Idle, NoRun
  <1>5. RowInv'
    <2>1. IdsInOrder' /\ RowsAreOwned' /\ OneRunning'
      BY <1>1 DEF IInv, RowInv, IdsInOrder, RowsAreOwned, OneRunning
    <2>2. UnusedIsBlank'
      BY <1>1, <1>2, <1>3 DEF IInv, RowInv, UnusedIsBlank
    <2>3. QED
      BY <2>1, <2>2 DEF RowInv
  <1>6. HolderInv'
    BY <1>1 DEF IInv, HolderInv, Asking, Submitting
  <1>7. ThreadInv'
    <2>1. ThreadMatchesFutures'
      BY <1>1, <1>2, <1>3 DEF IInv, TypeOK, ThreadInv, ThreadMatchesFutures, Idle, NoRun, RunIds, r
    <2>2. QueueDistinct' /\ LiveFutures' /\ FinalHasEnded'
      BY <1>1, <1>3 DEF IInv, ThreadInv, QueueDistinct, LiveFutures, Visible, FinalHasEnded, Idle
    <2>3. WaitingComesFirst'
      BY <1>1, <1>3 DEF IInv, TypeOK, ThreadInv, WaitingComesFirst, Submitting
    <2>4. QED
      BY <2>1, <2>2, <2>3 DEF ThreadInv
  <1>8. GoalInv'
    <2>1. RunningIsOwned' /\ StopEndsEverything'
      BY <1>1, <1>3 DEF IInv, GoalInv, RunningIsOwned, StopEndsEverything
    <2>2. NoLostArtifacts'
      BY <1>1 DEF IInv, GoalInv, NoLostArtifacts, Visible
    <2>3. SnapshotsReleased'
      BY <1>1, <1>3 DEF IInv, TypeOK, GoalInv, SnapshotsReleased
    <2>4. QED
      BY <2>1, <2>2, <2>3 DEF GoalInv
  <1>9. QED
    BY <1>4, <1>5, <1>6, <1>7, <1>8 DEF IInv

\* The thread ends its run, or finds it ended.
LEMMA WorkerRecordsStep ==
  ASSUME IInv, worker.pc # "idle", mutex = Free, NEW how \in Ended,
         \/ Settles(worker.run, how)
         \/ UNCHANGED run /\ run[worker.run].status # "running",
         worker' = [worker EXCEPT !.pc = "final"],
         accepted' \in [Projects -> RunIds \cup {NoRun}],
         UNCHANGED <<projects, cleanup, cadence, owed, files, server, mutex, future, tracked, queue,
                     requested, snapshots, scheduler, restarts, faults>>
  PROVE  IInv'
  <1> DEFINE r == worker.run
  <1>1. r \in RunIds /\ future[r] = "running" /\ run[r].status # "absent"
    BY BusyThread DEF Visible
  <1>2. worker'.pc = "final" /\ worker'.run = r
    BY DEF IInv, TypeOK
  <1> HIDE DEF r
  <1>3. /\ run' \in [RunIds -> RunRow]
        /\ run'[r].status # "running"
        /\ \A s \in RunIds : /\ run'[s].project = run[s].project /\ run'[s].shown = run[s].shown
                             /\ s # r => run'[s] = run[s]
                             /\ run'[s].status = "running" => run[s].status = "running"
                             /\ run'[s].status = "absent" <=> run[s].status = "absent"
        /\ IdsInOrder' /\ RowsAreOwned' /\ OneRunning'
        /\ (server = "starting" => \A s \in RunIds : run[s].status # "running")'
    <2>1. CASE Settles(worker.run, how)
      <3>1. how # "running"
        BY DEF Ended
      <3>2. QED
        BY <1>1, <2>1, <3>1, SettledRows DEF r
    <2>2. CASE UNCHANGED run /\ run[worker.run].status # "running"
      BY <2>2 DEF r, IInv, TypeOK, RowInv, IdsInOrder, RowsAreOwned, OneRunning, HolderInv
    <2>3. QED
      BY <2>1, <2>2
  <1>4. TypeOK'
    BY <1>3 DEF IInv, TypeOK
  <1>5. UnusedIsBlank'
    BY <1>3 DEF IInv, RowInv, UnusedIsBlank
  <1>6. HolderInv'
    BY <1>3 DEF HolderInv, Asking, Submitting, Free
  <1>7. ThreadInv'
    <2>1. ThreadMatchesFutures' /\ QueueDistinct'
      BY <1>1, <1>2 DEF IInv, ThreadInv, ThreadMatchesFutures, QueueDistinct, NoRun, r
    <2>2. LiveFutures'
      BY <1>3 DEF IInv, ThreadInv, LiveFutures, Visible
    <2>3. FinalHasEnded' /\ WaitingComesFirst'
      BY <1>2, <1>3 DEF IInv, ThreadInv, FinalHasEnded, WaitingComesFirst, Submitting
    <2>4. QED
      BY <2>1, <2>2, <2>3 DEF ThreadInv
  <1>8. GoalInv'
    <2>1. RunningIsOwned' /\ StopEndsEverything'
      BY <1>3 DEF IInv, GoalInv, RunningIsOwned, StopEndsEverything
    <2>2. NoLostArtifacts'
      BY <1>3 DEF IInv, TypeOK, GoalInv, NoLostArtifacts, Visible
    <2>3. SnapshotsReleased'
      BY DEF IInv, GoalInv, SnapshotsReleased
    <2>4. QED
      BY <2>1, <2>2, <2>3 DEF GoalInv
  <1>9. QED
    BY <1>3, <1>4, <1>5, <1>6, <1>7, <1>8 DEF IInv, RowInv

\* The thread lets go of its run.
LEMMA WorkerEndsStep ==
  ASSUME IInv, WorkerEnds
  PROVE  IInv'
  <1> DEFINE r == worker.run
  <1>1. /\ worker.pc = "final" /\ worker' = Idle
        /\ snapshots' = snapshots \ {r}
        /\ future' = [future EXCEPT ![r] = "finished"]
        /\ UNCHANGED <<projects, run, cleanup, accepted, cadence, owed, files, server, mutex, tracked, queue,
                       requested, scheduler, restarts, faults>>
    BY DEF WorkerEnds, OnlyWorker
  <1>2. r \in RunIds /\ future[r] = "running" /\ run[r].status \notin {"absent", "running"}
    BY <1>1, BusyThread DEF Visible, IInv, ThreadInv, FinalHasEnded
  <1> HIDE DEF r
  <1>3. future'[r] = "finished" /\ \A s \in RunIds : s # r => future'[s] = future[s]
    BY <1>1, <1>2 DEF IInv, TypeOK
  <1>4. TypeOK'
    BY <1>1, <1>2 DEF IInv, TypeOK, Finished, Idle, NoRun
  <1>5. RowInv'
    <2>1. IdsInOrder' /\ RowsAreOwned' /\ OneRunning'
      BY <1>1 DEF IInv, RowInv, IdsInOrder, RowsAreOwned, OneRunning
    <2>2. UnusedIsBlank'
      BY <1>1, <1>2, <1>3 DEF IInv, RowInv, UnusedIsBlank
    <2>3. QED
      BY <2>1, <2>2 DEF RowInv
  <1>6. HolderInv'
    BY <1>1 DEF IInv, HolderInv, Asking, Submitting
  <1>7. ThreadInv'
    <2>1. ThreadMatchesFutures'
      BY <1>1, <1>2, <1>3 DEF IInv, TypeOK, ThreadInv, ThreadMatchesFutures, Idle, NoRun, RunIds, r
    <2>2. QueueDistinct' /\ LiveFutures' /\ FinalHasEnded'
      BY <1>1, <1>3 DEF IInv, ThreadInv, QueueDistinct, LiveFutures, Visible, FinalHasEnded, Idle
    <2>3. WaitingComesFirst'
      BY <1>1, <1>3 DEF IInv, TypeOK, ThreadInv, WaitingComesFirst, Submitting
    <2>4. QED
      BY <2>1, <2>2, <2>3 DEF ThreadInv
  <1>8. GoalInv'
    <2>1. RunningIsOwned' /\ StopEndsEverything'
      BY <1>1, <1>2, <1>3 DEF IInv, GoalInv, RunningIsOwned, StopEndsEverything
    <2>2. NoLostArtifacts'
      BY <1>1 DEF IInv, GoalInv, NoLostArtifacts, Visible
    <2>3. SnapshotsReleased'
      BY <1>1, <1>3 DEF IInv, TypeOK, GoalInv, SnapshotsReleased
    <2>4. QED
      BY <2>1, <2>2, <2>3 DEF GoalInv
  <1>9. QED
    BY <1>4, <1>5, <1>6, <1>7, <1>8 DEF IInv

\* Every step of the thread.
LEMMA WorkerStep ==
  ASSUME IInv, Worker
  PROVE  IInv'
  <1>1. CASE WorkerStarts
    <2>1. PICK pc \in {"working", "failing"} : worker' = [worker EXCEPT !.pc = pc]
      BY <1>1 DEF WorkerStarts
    <2>2. QED
      BY <1>1, <2>1, WorkerMovesStep DEF WorkerStarts, OnlyWorker, IInv, TypeOK
  <1>2. CASE WorkerWorks
    <2>1. PICK pc \in {"publishing", "failing"} : worker' = [worker EXCEPT !.pc = pc]
      BY <1>2 DEF WorkerWorks
    <2>2. QED
      BY <1>2, <2>1, WorkerMovesStep DEF WorkerWorks, OnlyWorker, IInv, TypeOK
  <1>3. CASE WorkerPublishes
    <2>1. /\ worker.pc = "publishing" /\ mutex = Free
          /\ UNCHANGED <<projects, cleanup, cadence, owed, server, mutex, tracked, requested, scheduler,
                         restarts, files, future, queue, snapshots>>
      BY <1>3 DEF WorkerPublishes, OnlyWorker
    <2>2. CASE /\ worker' = [worker EXCEPT !.pc = "failing"] /\ UNCHANGED <<run, accepted>>
               /\ faults' \in Nat
      BY <2>1, <2>2, WorkerMovesStep
    <2>3. CASE /\ run' = [run EXCEPT ![worker.run].status = "accepted"]
               /\ accepted' = [accepted EXCEPT ![run[worker.run].project] = worker.run]
               /\ worker' = [worker EXCEPT !.pc = "final"]
               /\ UNCHANGED faults
      <3>1. worker.run \in RunIds
        BY <2>1, BusyThread
      <3>2. accepted' \in [Projects -> RunIds \cup {NoRun}]
        BY <2>3, <3>1 DEF IInv, TypeOK
      <3>3. Settles(worker.run, "accepted") /\ "accepted" \in Ended
        BY <2>1, <2>3 DEF Settles, Ended
      <3>4. QED
        BY <2>1, <2>3, <3>2, <3>3, WorkerRecordsStep
    <2>4. QED
      BY <1>3, <2>2, <2>3 DEF WorkerPublishes, Fault, IInv, TypeOK
  <1>4. CASE WorkerSettles
    <2>1. PICK how \in {"cancelled", "failed"} :
            run' = IF run[worker.run].status # "running" THEN run
                   ELSE [run EXCEPT ![worker.run].status = how]
      BY <1>4 DEF WorkerSettles
    <2>2. how \in Ended /\ accepted \in [Projects -> RunIds \cup {NoRun}]
      BY DEF Ended, IInv, TypeOK
    <2>3. QED
      BY <1>4, <2>1, <2>2, WorkerRecordsStep DEF WorkerSettles, OnlyWorker, Settles
  <1>5. QED
    BY <1>1, <1>2, <1>3, <1>4, WorkerTakesStep, WorkerBreaksStep, WorkerEndsStep DEF Worker
\* A project that may be deleted has nothing running, waiting or in the thread.
LEMMA NothingLive ==
  ASSUME IInv, NEW p, ~DeletionBlocked(p), NEW r \in RunIds, run[r].project = p
  PROVE  run[r].status # "running" /\ future[r] \notin {"queued", "running"}
  <1>1. run[r].status # "running"
    BY DEF DeletionBlocked, Scanning, RunsOf
  <1>2. future[r] \notin {"queued", "running"}
    BY DEF DeletionBlocked, IInv, ThreadInv, LiveFutures, Finished
  <1>3. QED
    BY <1>1, <1>2

\* A project is deleted with its rows.
LEMMA DeleteProjectStep ==
  ASSUME IInv, NEW p \in Projects, DeleteProject(p)
  PROVE  IInv'
  <1>1. /\ mutex = Free /\ ~DeletionBlocked(p)
        /\ projects' = projects \ {p}
        /\ run' = [r \in RunIds |-> IF run[r].project = p THEN [run[r] EXCEPT !.status = "absent"] ELSE run[r]]
        /\ cleanup' = cleanup \cup RunsOf(p)
        /\ accepted' = [accepted EXCEPT ![p] = NoRun]
        /\ cadence' = [cadence EXCEPT ![p] = [m \in Modes |-> "off"]]
        /\ mutex' = [op |-> "cleanup", run |-> NoRun]
        /\ UNCHANGED <<files, server, future, tracked, queue, requested, snapshots, worker, scheduler,
                       restarts, faults>>
    BY DEF DeleteProject
  <1>2. \A r \in RunIds : run[r].project = p =>
          run[r].status # "running" /\ future[r] \notin {"queued", "running"}
    BY <1>1, NothingLive
  <1>3. \A r \in RunIds : /\ run'[r].project = run[r].project /\ run'[r].shown = run[r].shown
                          /\ run[r].project = p => run'[r].status = "absent"
                          /\ run[r].project # p => run'[r] = run[r]
                          /\ run'[r] \in RunRow
    BY <1>1 DEF IInv, TypeOK, RunRow
  <1>4. TypeOK'
    <2>1. run' \in [RunIds -> RunRow]
      BY <1>1, <1>3
    <2>2. cleanup' \in SUBSET RunIds /\ accepted' \in [Projects -> RunIds \cup {NoRun}]
      BY <1>1 DEF IInv, TypeOK, RunsOf
    <2>3. cadence' \in [Projects -> [Modes -> {"off", "waiting", "due"}]]
      BY <1>1 DEF IInv, TypeOK
    <2>4. owed' \in SUBSET (Projects \X Modes)
      BY OwedType DEF DeleteProject
    <2>5. QED
      BY <1>1, <2>1, <2>2, <2>3, <2>4 DEF IInv, TypeOK
  <1>5. RowInv'
    <2>1. IdsInOrder' /\ RowsAreOwned' /\ OneRunning'
      BY <1>1, <1>3 DEF IInv, RowInv, IdsInOrder, RowsAreOwned, OneRunning
    <2>2. UnusedIsBlank'
      BY <1>1, <1>3 DEF IInv, RowInv, UnusedIsBlank
    <2>3. QED
      BY <2>1, <2>2 DEF RowInv
  <1>6. HolderInv'
    BY <1>1, <1>3 DEF IInv, HolderInv, Asking, Submitting
  <1>7. ThreadInv'
    <2>1. ThreadMatchesFutures' /\ QueueDistinct'
      BY <1>1 DEF IInv, ThreadInv, ThreadMatchesFutures, QueueDistinct
    <2>2. LiveFutures'
      BY <1>1, <1>2, <1>3 DEF IInv, ThreadInv, LiveFutures, Visible
    <2>3. FinalHasEnded'
      BY <1>1, <1>3, BusyThread DEF IInv, ThreadInv, FinalHasEnded
    <2>4. WaitingComesFirst'
      BY <1>1 DEF IInv, ThreadInv, WaitingComesFirst, Submitting, Free
    <2>5. QED
      BY <2>1, <2>2, <2>3, <2>4 DEF ThreadInv
  <1>8. GoalInv'
    <2>1. RunningIsOwned' /\ StopEndsEverything'
      BY <1>1, <1>3 DEF IInv, GoalInv, RunningIsOwned, StopEndsEverything
    <2>2. NoLostArtifacts'
      BY <1>1, <1>3 DEF IInv, TypeOK, GoalInv, NoLostArtifacts, Visible, RunsOf
    <2>3. SnapshotsReleased'
      BY <1>1 DEF IInv, GoalInv, SnapshotsReleased
    <2>4. QED
      BY <2>1, <2>2, <2>3 DEF GoalInv
  <1>9. QED
    BY <1>4, <1>5, <1>6, <1>7, <1>8 DEF IInv

\* A report is deleted.
LEMMA DeleteReportStep ==
  ASSUME IInv, NEW r \in RunIds, DeleteReport(r)
  PROVE  IInv'
  <1>1. /\ mutex = Free /\ ~DeletionBlocked(run[r].project)
        /\ run' = [run EXCEPT ![r].shown = FALSE]
        /\ cleanup' = cleanup \cup {r}
        /\ mutex' = [op |-> "cleanup", run |-> NoRun]
        /\ UNCHANGED <<projects, accepted, cadence, owed, files, server, future, tracked, queue, requested,
                       snapshots, worker, scheduler, restarts, faults>>
    BY DEF DeleteReport
  <1>2. run[r].status # "running" /\ future[r] \notin {"queued", "running"}
    BY <1>1, NothingLive
  <1>3. /\ run' \in [RunIds -> RunRow]
        /\ \A s \in RunIds : /\ run'[s].project = run[s].project /\ run'[s].status = run[s].status
                             /\ s # r => run'[s] = run[s]
    BY <1>1 DEF IInv, TypeOK, RunRow
  <1>4. TypeOK'
    BY <1>1, <1>3 DEF IInv, TypeOK
  <1>5. RowInv'
    <2>1. IdsInOrder' /\ OneRunning'
      BY <1>1, <1>3 DEF IInv, RowInv, IdsInOrder, OneRunning
    <2>2. UnusedIsBlank' /\ RowsAreOwned'
      BY <1>1, <1>2, <1>3 DEF IInv, RowInv, UnusedIsBlank, RowsAreOwned
    <2>3. QED
      BY <2>1, <2>2 DEF RowInv
  <1>6. HolderInv'
    BY <1>1, <1>3 DEF IInv, HolderInv, Asking, Submitting
  <1>7. ThreadInv'
    <2>1. ThreadMatchesFutures' /\ QueueDistinct'
      BY <1>1 DEF IInv, ThreadInv, ThreadMatchesFutures, QueueDistinct
    <2>2. LiveFutures'
      BY <1>1, <1>2, <1>3 DEF IInv, ThreadInv, LiveFutures, Visible
    <2>3. FinalHasEnded'
      BY <1>1, <1>3, BusyThread DEF IInv, ThreadInv, FinalHasEnded
    <2>4. WaitingComesFirst'
      BY <1>1 DEF IInv, ThreadInv, WaitingComesFirst, Submitting, Free
    <2>5. QED
      BY <2>1, <2>2, <2>3, <2>4 DEF ThreadInv
  <1>8. GoalInv'
    <2>1. RunningIsOwned' /\ StopEndsEverything'
      BY <1>1, <1>3 DEF IInv, GoalInv, RunningIsOwned, StopEndsEverything
    <2>2. NoLostArtifacts'
      BY <1>1, <1>3 DEF IInv, TypeOK, GoalInv, NoLostArtifacts, Visible
    <2>3. SnapshotsReleased'
      BY <1>1 DEF IInv, GoalInv, SnapshotsReleased
    <2>4. QED
      BY <2>1, <2>2, <2>3 DEF GoalInv
  <1>9. QED
    BY <1>4, <1>5, <1>6, <1>7, <1>8 DEF IInv

\* The cleanup forgets what it removed.
LEMMA CleanupEndsStep ==
  ASSUME IInv, CleanupEnds
  PROVE  IInv'
  <1>1. /\ mutex.op = "cleanup" /\ mutex' = Free
        /\ cleanup' = cleanup \cap files
        /\ server' = IF server = "starting" THEN "open" ELSE server
        /\ UNCHANGED <<projects, run, accepted, cadence, owed, files, future, tracked, queue, requested,
                       snapshots, worker, scheduler, restarts>>
    BY DEF CleanupEnds
  <1>2. TypeOK'
    <2>1. faults' \in Nat
      BY DEF CleanupEnds, Fault, IInv, TypeOK
    <2>2. QED
      BY <1>1, <2>1 DEF IInv, TypeOK, Free, NoRun
  <1>3. RowInv'
    BY <1>1 DEF IInv, RowInv, IdsInOrder, UnusedIsBlank, RowsAreOwned, OneRunning
  <1>4. HolderInv'
    BY <1>1 DEF HolderInv, Asking, Submitting, Free
  <1>5. ThreadInv'
    <2>1. ThreadMatchesFutures' /\ QueueDistinct' /\ LiveFutures' /\ FinalHasEnded'
      BY <1>1 DEF IInv, ThreadInv, ThreadMatchesFutures, QueueDistinct, LiveFutures, Visible, FinalHasEnded
    <2>2. WaitingComesFirst'
      BY <1>1 DEF IInv, ThreadInv, WaitingComesFirst, Submitting
    <2>3. QED
      BY <2>1, <2>2 DEF ThreadInv
  <1>6. GoalInv'
    <2>1. RunningIsOwned' /\ StopEndsEverything'
      BY <1>1 DEF IInv, GoalInv, RunningIsOwned, StopEndsEverything
    <2>2. NoLostArtifacts' /\ SnapshotsReleased'
      BY <1>1 DEF IInv, GoalInv, NoLostArtifacts, Visible, SnapshotsReleased
    <2>3. QED
      BY <2>1, <2>2 DEF GoalInv
  <1>7. QED
    BY <1>2, <1>3, <1>4, <1>5, <1>6 DEF IInv
\* A stop is announced, or done.
LEMMA ServerMovesStep ==
  ASSUME IInv, CloseBegins \/ ServerStops
  PROVE  IInv'
  <1>1. /\ \/ server = "open" /\ server' = "closing"
           \/ server \in {"draining", "aborted"} /\ server' = "stopped"
        /\ restarts' \in Nat
        /\ UNCHANGED <<stored, memory, faults>>
    BY DEF CloseBegins, ServerStops, IInv, TypeOK
  <1> USE <1>1 DEF stored, memory
  <1>2. TypeOK'
    BY DEF IInv, TypeOK
  <1>3. RowInv'
    BY DEF IInv, RowInv, IdsInOrder, UnusedIsBlank, RowsAreOwned, OneRunning
  <1>4. HolderInv'
    BY DEF IInv, HolderInv, Asking, Submitting
  <1>5. ThreadInv'
    BY DEF IInv, ThreadInv, ThreadMatchesFutures, QueueDistinct, LiveFutures, Visible, FinalHasEnded,
           WaitingComesFirst, Submitting
  <1>6. GoalInv'
    BY DEF IInv, GoalInv, RunningIsOwned, NoLostArtifacts, Visible, SnapshotsReleased, StopEndsEverything
  <1>7. QED
    BY <1>2, <1>3, <1>4, <1>5, <1>6 DEF IInv

\* The process dies, or a new one takes over.
LEMMA NewProcessStep ==
  ASSUME IInv, Crash \/ Restart
  PROVE  IInv'
  <1>0. owed' \in SUBSET (Projects \X Modes)
    BY OwedType DEF Crash, Restart
  <1>1. /\ \/ server' = "crashed" /\ mutex' = Free
           \/ server' = "starting" /\ mutex' = [op |-> "cleanup", run |-> NoRun]
        /\ future' = [r \in RunIds |-> "none"]
        /\ tracked' = {} /\ queue' = <<>> /\ requested' = {} /\ snapshots' = {}
        /\ worker' = Idle /\ scheduler' = Asleep
        /\ restarts' \in Nat
        /\ UNCHANGED <<projects, cleanup, accepted, cadence, files, faults>>
    BY DEF Crash, Restart, Memory, stored, IInv, TypeOK
  <1>2. /\ run' \in [RunIds -> RunRow]
        /\ \A s \in RunIds : /\ run'[s].project = run[s].project /\ run'[s].shown = run[s].shown
                             /\ run'[s].status = "running" => run[s].status = "running"
                             /\ run'[s].status = "absent" <=> run[s].status = "absent"
                             /\ server' = "crashed" \/ run'[s].status # "running"
    <2>1. CASE Crash
      BY <2>1 DEF Crash, Memory, stored, IInv, TypeOK
    <2>2. CASE Restart
      <3>1. run' = [r \in RunIds |->
              IF run[r].status = "running" THEN [run[r] EXCEPT !.status = "failed"] ELSE run[r]]
        BY <2>2 DEF Restart
      <3>2. ASSUME NEW s \in RunIds
            PROVE  /\ run'[s] \in RunRow
                   /\ run'[s].project = run[s].project /\ run'[s].shown = run[s].shown
                   /\ run'[s].status = "absent" <=> run[s].status = "absent"
                   /\ run'[s].status # "running"
        BY <3>1 DEF IInv, TypeOK, RunRow, Ended
      <3>3. QED
        BY <3>1, <3>2
    <2>3. QED
      BY <2>1, <2>2
  <1>3. TypeOK'
    BY <1>0, <1>1, <1>2 DEF IInv, TypeOK, Free, Idle, Asleep, NoRun
  <1>4. RowInv'
    <2>1. IdsInOrder' /\ RowsAreOwned' /\ OneRunning'
      BY <1>1, <1>2 DEF IInv, RowInv, IdsInOrder, RowsAreOwned, OneRunning
    <2>2. UnusedIsBlank'
      BY <1>1, <1>2 DEF IInv, RowInv, UnusedIsBlank
    <2>3. QED
      BY <2>1, <2>2 DEF RowInv
  <1>5. HolderInv'
    BY <1>1, <1>2 DEF HolderInv, Asking, Submitting, Free
  <1>6. ThreadInv'
    BY <1>1 DEF ThreadInv, ThreadMatchesFutures, QueueDistinct, LiveFutures, FinalHasEnded,
                WaitingComesFirst, Idle, NoRun, RunIds
  <1>7. GoalInv'
    BY <1>1, <1>2
       DEF IInv, TypeOK, GoalInv, RunningIsOwned, NoLostArtifacts, Visible, SnapshotsReleased, StopEndsEverything
  <1>8. QED
    BY <1>3, <1>4, <1>5, <1>6, <1>7 DEF IInv

\* close cancels what waits.  A future whose run is gone makes it raise, but then all
\* that wait are older, and were cancelled before.
LEMMA CloseQueuedStep ==
  ASSUME IInv, CloseQueued
  PROVE  IInv'
  <1> DEFINE gone == {r \in Cancellable : ~Visible(r)}
             done == {r \in Cancellable : \A g \in gone : r < g}
             hit  == {r \in Cancellable : \A g \in gone : r <= g}
  <1>1. /\ mutex = Free /\ server' \in {"draining", "aborted"}
        /\ future' = [r \in RunIds |-> IF r \in hit THEN "cancelled" ELSE future[r]]
        /\ run' = [r \in RunIds |->
             IF r \in done /\ run[r].status = "running" THEN [run[r] EXCEPT !.status = "failed"] ELSE run[r]]
        /\ snapshots' = snapshots \ done
        /\ UNCHANGED <<projects, cleanup, accepted, cadence, owed, files, mutex, tracked, queue, requested,
                       worker, scheduler, restarts, faults>>
    BY DEF CloseQueued
  <1>2. \A r \in Cancellable : r \in RunIds /\ r \in tracked /\ future[r] \in {"queued", "cancelled"}
    BY DEF Cancellable, IInv, TypeOK
  <1>3. \A g \in gone : future[g] = "cancelled"
    BY <1>2 DEF IInv, ThreadInv, LiveFutures
  <1>4. ASSUME NEW r \in RunIds, future[r] = "queued"
        PROVE  r \in done
    <2>1. r \in Cancellable
      BY <1>4 DEF Cancellable, IInv, ThreadInv, LiveFutures
    <2>2. ASSUME NEW g \in gone PROVE r < g
      <3>1. ~(g < r)
        BY <1>1, <1>2, <1>3, <1>4 DEF IInv, ThreadInv, WaitingComesFirst, Submitting, Free
      <3>2. g # r /\ g \in Nat /\ r \in Nat
        BY <1>2, <1>3, <1>4 DEF RunIds
      <3>3. QED
        BY <3>1, <3>2
    <2>3. QED
      BY <2>1, <2>2
  <1>5. done \subseteq hit /\ hit \subseteq Cancellable
    BY <1>2 DEF RunIds
  <1>6. \A r \in hit : r \in done \/ r \in gone
    BY <1>2, <1>5 DEF RunIds
  <1> HIDE DEF gone, done, hit
  <1>7. ASSUME NEW r \in RunIds
        PROVE  /\ future'[r] \in {future[r], "cancelled"} /\ future'[r] # "queued"
               /\ future'[r] # future[r] => r \in done
               /\ future[r] = "running" => future'[r] = "running"
               /\ r \in snapshots' => future'[r] = future[r]
    <2>1. future'[r] = IF r \in hit THEN "cancelled" ELSE future[r]
      BY <1>1
    <2>2. r \in hit => future[r] \in {"queued", "cancelled"} /\ (r \in done \/ future[r] = "cancelled")
      BY <1>2, <1>3, <1>5, <1>6
    <2>3. QED
      BY <1>1, <1>4, <1>5, <2>1, <2>2
  <1>8. ASSUME NEW s \in RunIds
        PROVE  /\ run'[s] \in RunRow
               /\ run'[s].project = run[s].project /\ run'[s].shown = run[s].shown
               /\ run'[s].status = "absent" <=> run[s].status = "absent"
               /\ run'[s].status = "running" => run[s].status = "running" /\ s \notin done
    BY <1>1 DEF IInv, TypeOK, RunRow, Ended
  <1>9. TypeOK'
    <2>1. run' \in [RunIds -> RunRow]
      BY <1>1, <1>8
    <2>2. future' \in [RunIds -> {"none", "queued", "running"} \cup Finished]
      BY <1>1 DEF IInv, TypeOK, Finished
    <2>3. QED
      BY <1>1, <2>1, <2>2 DEF IInv, TypeOK
  <1>10. RowInv'
    <2>1. IdsInOrder' /\ RowsAreOwned' /\ OneRunning'
      BY <1>1, <1>8 DEF IInv, RowInv, IdsInOrder, RowsAreOwned, OneRunning
    <2>2. UnusedIsBlank'
      <3>1. ASSUME NEW r \in RunIds, future[r] = "none" PROVE future'[r] = "none"
        BY <1>1, <1>2, <1>5, <3>1
      <3>2. QED
        BY <1>1, <1>8, <3>1 DEF IInv, RowInv, UnusedIsBlank
    <2>3. QED
      BY <2>1, <2>2 DEF RowInv
  <1>11. HolderInv'
    BY <1>1 DEF HolderInv, Asking, Submitting, Free
  <1>12. ThreadInv'
    <2>1. ThreadMatchesFutures'
      <3>1. \A r \in RunIds : future'[r] = "running" <=> worker'.run = r
        BY <1>1, <1>7 DEF IInv, ThreadInv, ThreadMatchesFutures
      <3>2. worker'.pc = "idle" <=> worker'.run = NoRun
        BY <1>1 DEF IInv, ThreadInv, ThreadMatchesFutures
      <3>3. \A i \in DOMAIN queue' : future'[queue'[i]] \in {"queued", "cancelled"}
        BY <1>1, <1>7 DEF IInv, TypeOK, ThreadInv, ThreadMatchesFutures
      <3>4. QED
        BY <1>7, <3>1, <3>2, <3>3 DEF ThreadMatchesFutures
    <2>2. QueueDistinct' /\ LiveFutures'
      BY <1>1, <1>7, <1>8 DEF IInv, ThreadInv, QueueDistinct, LiveFutures, Visible
    <2>3. FinalHasEnded'
      BY <1>1, <1>8, BusyThread DEF IInv, ThreadInv, FinalHasEnded
    <2>4. WaitingComesFirst'
      BY <1>7 DEF WaitingComesFirst
    <2>5. QED
      BY <2>1, <2>2, <2>3, <2>4 DEF ThreadInv
  <1>13. GoalInv'
    <2>1. ASSUME NEW r \in RunIds, run'[r].status = "running"
          PROVE  future'[r] \in {"running", "broken"}
      <3>1. run[r].status = "running" /\ future'[r] = future[r]
        BY <1>7, <1>8, <2>1
      <3>2. server # "crashed"
        BY DEF CloseQueued
      <3>3. QED
        BY <1>7, <3>1, <3>2 DEF IInv, GoalInv, RunningIsOwned
    <2>2. RunningIsOwned' /\ StopEndsEverything'
      BY <2>1 DEF RunningIsOwned, StopEndsEverything
    <2>3. NoLostArtifacts'
      BY <1>1, <1>8 DEF IInv, TypeOK, GoalInv, NoLostArtifacts, Visible
    <2>4. SnapshotsReleased'
      BY <1>1, <1>7 DEF IInv, TypeOK, GoalInv, SnapshotsReleased
    <2>5. QED
      BY <2>2, <2>3, <2>4 DEF GoalInv
  <1>14. QED
    BY <1>9, <1>10, <1>11, <1>12, <1>13 DEF IInv
-------------------------------------------------------------------------------
(* The invariants.                                                         *)

\* Every step keeps the inductive invariant.
LEMMA NextInv == IInv /\ [Next]_vars => IInv'
  <1> SUFFICES ASSUME IInv, [Next]_vars PROVE IInv'
    OBVIOUS
  <1>1. CASE Worker
    BY <1>1, WorkerStep
  <1>2. CASE Holder
    <2>1. ASSUME NEW r \in RunIds, CleanupRemoves(r) PROVE IInv'
      <3>1. TypeOK'
        BY <2>1 DEF CleanupRemoves, memory, IInv, TypeOK
      <3>2. QED
        BY <2>1, <3>1, QuietStep DEF CleanupRemoves, memory
    <2>2. QED
      BY <1>2, <2>1, EnqueueStep, RefusedStep, SubmitEndsStep, SubmitFailsStep, CancelEndsStep, CleanupEndsStep
         DEF Holder
  <1>3. CASE Process
    BY <1>3, NewProcessStep, ServerMovesStep, CloseQueuedStep DEF Process
  <1>4. CASE Request
    <2>1. ASSUME NEW p \in Projects, NEW mode \in Modes, SubmitScan(p, mode) PROVE IInv'
      <3>1. scheduler' \in SchedulerType
        BY <2>1 DEF SubmitScan, IInv, TypeOK, SchedulerType
      <3>2. QED
        BY <2>1, <3>1, AsksStep DEF SubmitScan
    <2>2. ASSUME NEW p \in Projects, SaveSchedules(p) \/ SaveSchedule(p) PROVE IInv'
      <3>1. cadence' \in [Projects -> [Modes -> {"off", "waiting", "due"}]]
        <4>1. CASE SaveSchedules(p)
          BY <4>1 DEF SaveSchedules, IInv, TypeOK
        <4>2. CASE SaveSchedule(p)
          <5>1. PICK mode \in Modes, saved \in {"off", "waiting"} :
                  cadence' = [cadence EXCEPT ![p] = [m \in Modes |-> IF m = mode THEN saved ELSE "off"]]
            BY <4>2 DEF SaveSchedule
          <5>2. [m \in Modes |-> IF m = mode THEN saved ELSE "off"] \in [Modes -> {"off", "waiting", "due"}]
            OBVIOUS
          <5>3. QED
            BY <5>1, <5>2 DEF IInv, TypeOK
        <4>3. QED
          BY <2>2, <4>1, <4>2
      <3>2. /\ UNCHANGED <<projects, run, accepted, server, restarts, faults, scheduler>>
            /\ UNCHANGED <<cleanup, files, mutex, future, tracked, queue, requested, snapshots, worker>>
        BY <2>2 DEF SaveSchedules, SaveSchedule, memory
      <3>3. TypeOK'
        <4>1. owed' \in SUBSET (Projects \X Modes)
          BY <2>2, OwedType DEF SaveSchedules, SaveSchedule
        <4>2. QED
          BY <3>1, <3>2, <4>1 DEF IInv, TypeOK
      <3>4. QED
        BY <3>2, <3>3, QuietStep
    <2>3. QED
      BY <1>4, <2>1, <2>2, CancelScanStep, DeleteReportStep, DeleteProjectStep DEF Request
  <1>5. CASE Schedule
    <2>1. ASSUME NEW p \in Projects, NEW mode \in Modes, Elapse(p, mode) PROVE IInv'
      <3>1. TypeOK'
        BY <2>1 DEF Elapse, memory, IInv, TypeOK
      <3>2. QED
        BY <2>1, <3>1, QuietStep DEF Elapse, memory
    <2>2. ASSUME NEW p \in Projects, SchedulerSubmits(p) PROVE IInv'
      <3>1. PICK mode \in DueNow(p) : Asks("due", p, mode)
        BY <2>2 DEF SchedulerSubmits
      <3>2. mode \in Modes
        BY DEF DueNow, DueMode, Modes
      <3>3. scheduler' \in SchedulerType
        BY <2>2 DEF SchedulerSubmits, IInv, TypeOK, SchedulerType
      <3>4. QED
        BY <3>1, <3>2, <3>3, AsksStep
    <2>3. ASSUME /\ UNCHANGED <<stored, server, mutex, future, tracked, queue, requested, snapshots, worker,
                                restarts, faults>>
                 /\ scheduler' \in [alive : BOOLEAN, todo : SUBSET (Projects \X Modes),
                                    submitting : Projects \cup {NoOne}]
          PROVE  IInv'
      <3>1. TypeOK'
        BY <2>3 DEF stored, IInv, TypeOK
      <3>2. QED
        BY <2>3, <3>1, QuietStep DEF stored
    <2>4. CASE SchedulerTicks
      <3>1. {due \in projects \X Modes : ~Scanning(due[1]) /\ due[2] \in DueMode(cadence[due[1]], TRUE)}
              \subseteq Projects \X Modes
        BY DEF IInv, TypeOK
      <3>2. QED
        BY <2>3, <2>4, <3>1 DEF SchedulerTicks, IInv, TypeOK
    <2>5. ASSUME NEW p \in Projects, NEW mode \in Modes, SchedulerChecks(p, mode) PROVE IInv'
      <3>1. Asleep \in [alive : BOOLEAN, todo : SUBSET (Projects \X Modes), submitting : Projects \cup {NoOne}]
        BY DEF Asleep
      <3>2. scheduler' \in [alive : BOOLEAN, todo : SUBSET (Projects \X Modes),
                            submitting : Projects \cup {NoOne}]
        BY <2>5, <3>1 DEF SchedulerChecks, IInv, TypeOK
      <3>3. QED
        BY <2>3, <2>5, <3>2 DEF SchedulerChecks
    <2>6. ASSUME NEW p \in Projects, SchedulerSkips(p) PROVE IInv'
      BY <2>3, <2>6 DEF SchedulerSkips, IInv, TypeOK
    <2>7. QED
      BY <1>5, <2>1, <2>2, <2>4, <2>5, <2>6 DEF Schedule
  <1>6. CASE UNCHANGED vars
    <2>1. TypeOK' /\ UNCHANGED <<projects, run, cleanup, server, mutex, future, tracked, queue, requested,
                                 snapshots, worker>> /\ UNCHANGED files
      BY <1>6 DEF vars, stored, memory, IInv, TypeOK
    <2>2. QED
      BY <2>1, QuietStep
  <1>7. QED
    BY <1>1, <1>2, <1>3, <1>4, <1>5, <1>6 DEF Next

LEMMA AlwaysIInv == Spec => []IInv
  BY InitInv, NextInv, PTL DEF Spec

\* The service is well-typed, the executor, its futures and its thread agree, every
\* running run is on its way to an end, and no project scans twice at once.
THEOREM ServiceInvariant == Spec => []ServiceInv
  <1>1. IInv => ServiceInv
    <2> SUFFICES ASSUME IInv PROVE ServiceInv
      OBVIOUS
    <2>1. ASSUME NEW p \in Projects
          PROVE  Cardinality({r \in RunsOf(p) : run[r].status = "running"}) <= 1
      <3> DEFINE S == {r \in RunsOf(p) : run[r].status = "running"}
      <3>1. \A r, s \in S : r = s
        BY DEF RunsOf, IInv, RowInv, OneRunning
      <3>2. CASE S = {}
        BY <3>2, FS_EmptySet
      <3>3. CASE S # {}
        <4>1. PICK r : r \in S
          BY <3>3
        <4>2. S = {r}
          BY <3>1, <4>1
        <4>3. Cardinality({r}) = 1
          BY FS_Singleton
        <4>4. Cardinality(S) = 1
          BY <4>2, <4>3
        <4>5. QED
          BY <4>4
      <3>4. QED
        BY <3>2, <3>3
    <2>2. QED
      BY <2>1 DEF IInv, ThreadInv, GoalInv, ServiceInv, OneScanPerProject
  <1>2. QED
    BY <1>1, AlwaysIInv, PTL

\* Neither the project nor the report of the run the thread works on is deleted.
THEOREM WorkerKeepsItsRun == Spec => []DeletionWaitsForWorker
  <1>1. IInv => DeletionWaitsForWorker
    BY BusyThread DEF DeletionWaitsForWorker
  <1>2. QED
    BY <1>1, AlwaysIInv, PTL

\* A folder or progress file of a report that was deleted, with its project or alone, is
\* gone or waits for its recorded cleanup.
THEOREM ArtifactsAreKnown == Spec => []NoLostArtifacts
  <1>1. IInv => NoLostArtifacts
    BY DEF IInv, GoalInv
  <1>2. QED
    BY <1>1, AlwaysIInv, PTL

\* Private proxy URLs are held only for runs that have not ended, unless an error came
\* before the try block of _execute.
THEOREM UrlsAreHeldForRuns == Spec => []SnapshotsReleased
  <1>1. IInv => SnapshotsReleased
    BY DEF IInv, GoalInv
  <1>2. QED
    BY <1>1, AlwaysIInv, PTL

\* Once close has cancelled the queue, no run is running but the one in the thread and
\* one whose thread never reached that try block.
THEOREM StopIsComplete == Spec => []StopEndsEverything
  <1>1. IInv => StopEndsEverything
    BY DEF IInv, GoalInv
  <1>2. QED
    BY <1>1, AlwaysIInv, PTL

-------------------------------------------------------------------------------
(* The schedules.                                                          *)

\* An enumeration that is due waits for an enumeration, and what the user turned off
\* stays off, unless a form is saved.
THEOREM SchedulesAreTheUsers == Spec => SavedSchedulesHold
  <1>1. IInv /\ [Next]_vars =>
          [\A p \in Projects :
             \/ /\ \A m \in Modes : cadence[p][m] = "off" => cadence'[p][m] = "off"
                /\ cadence[p]["enumerate"] = "due" /\ cadence'[p]["enumerate"] # "due" =>
                     \/ p \notin projects'
                     \/ mutex.run # NoRun /\ run[mutex.run].project = p /\ run[mutex.run].mode = "enumerate"
             \/ SaveSchedules(p) \/ SaveSchedule(p)]_vars
    <2> DEFINE Kept(p) ==
          /\ \A m \in Modes : cadence[p][m] = "off" => cadence'[p][m] = "off"
          /\ cadence[p]["enumerate"] = "due" /\ cadence'[p]["enumerate"] # "due" =>
               \/ p \notin projects'
               \/ mutex.run # NoRun /\ run[mutex.run].project = p /\ run[mutex.run].mode = "enumerate"
    <2> SUFFICES ASSUME IInv, [Next]_vars, NEW p \in Projects
                 PROVE  Kept(p) \/ SaveSchedules(p) \/ SaveSchedule(p)
      OBVIOUS
    <2>1. ASSUME UNCHANGED cadence PROVE Kept(p)
      BY <2>1
    <2>2. ASSUME mutex.run \in RunIds, cadence' = Advanced(run[mutex.run].project, run[mutex.run].mode)
          PROVE  Kept(p)
      <3>1. mutex.run # NoRun
        BY <2>2 DEF NoRun, RunIds
      <3>2. CASE run[mutex.run].project = p
        BY <2>2, <3>1, <3>2 DEF Advanced, IInv, TypeOK, Modes
      <3>3. CASE run[mutex.run].project # p
        BY <2>2, <3>3 DEF Advanced, IInv, TypeOK
      <3>4. QED
        BY <3>2, <3>3
    <2>3. CASE SubmitEnds \/ CancelEnds
      BY <2>2, <2>3 DEF SubmitEnds, CancelEnds, IInv, HolderInv
    <2>4. ASSUME NEW q \in Projects, DeleteProject(q) PROVE Kept(p)
      BY <2>4 DEF DeleteProject, IInv, TypeOK
    <2>5. ASSUME NEW q \in Projects, NEW mode \in Modes, Elapse(q, mode) PROVE Kept(p)
      BY <2>5 DEF Elapse, IInv, TypeOK
    <2>6. ASSUME NEW q \in Projects, SaveSchedules(q) \/ SaveSchedule(q)
          PROVE  Kept(p) \/ SaveSchedules(p) \/ SaveSchedule(p)
      <3>1. CASE q = p
        BY <2>6, <3>1
      <3>2. CASE q # p
        BY <2>6, <3>2 DEF SaveSchedules, SaveSchedule, IInv, TypeOK
      <3>3. QED
        BY <3>1, <3>2
    <2>7. CASE Worker
      BY <2>1, <2>7 DEF Worker, WorkerTakes, WorkerStarts, WorkerBreaks, WorkerWorks, WorkerPublishes,
                        WorkerSettles, WorkerEnds, OnlyWorker
    <2>8. CASE Holder
      BY <2>1, <2>3, <2>8 DEF Holder, Enqueue, SubmitRefused, stored, SubmitFails, CleanupEnds, CleanupRemoves
    <2>9. CASE Process \/ UNCHANGED vars
      BY <2>1, <2>9 DEF Process, Crash, Restart, Memory, CloseBegins, CloseQueued, ServerStops, stored, vars
    <2>10. CASE Request
      BY <2>1, <2>4, <2>6, <2>10 DEF Request, SubmitScan, Asks, stored, CancelScan, DeleteReport
    <2>11. CASE Schedule
      BY <2>1, <2>5, <2>11
         DEF Schedule, SchedulerTicks, SchedulerChecks, SchedulerSubmits, SchedulerSkips, Asks, stored
    <2>12. QED
      BY <2>7, <2>8, <2>9, <2>10, <2>11 DEF Next
  <1>2. QED
    BY <1>1, AlwaysIInv, PTL DEF Spec, SavedSchedulesHold
-------------------------------------------------------------------------------
(* The deadlines.                                                          *)

\* The scan being submitted covers the deadline of p and m.
Serving(p, m) == Submitting /\ run[mutex.run].project = p /\ run[mutex.run].mode \in {"enumerate", m}

\* A row says due only of a deadline still owed, or while the scan that serves it is
\* being submitted; and what the schedule thread asked for is owed.
DueIsOwed ==
  \A p \in Projects, m \in Modes : cadence[p][m] = "due" /\ ~Serving(p, m) => <<p, m>> \in owed
AskedIsOwed == mutex.op = "due" => <<mutex.project, mutex.mode>> \in owed
OwedInv     == DueIsOwed /\ AskedIsOwed

\* A submission keeps its run until its schedule is advanced, or it is lost and its
\* deadlines are owed again.
LEMMA ServesUntilAdvanced ==
  ASSUME IInv, Submitting, [Next]_vars
  PROVE  \/ /\ UNCHANGED mutex
            /\ run'[mutex.run].project = run[mutex.run].project /\ run'[mutex.run].mode = run[mutex.run].mode
         \/ cadence' = Advanced(run[mutex.run].project, run[mutex.run].mode)
         \/ owed' = OwedAgain
  <1>1. /\ server \in {"open", "closing"}
        /\ mutex.run \in RunIds /\ run[mutex.run].status = "running" /\ run \in [RunIds -> RunRow]
        /\ mutex # Free /\ mutex.op \notin {"asked", "due", "cancel", "cleanup"}
    BY DEF IInv, TypeOK, HolderInv, Submitting, Free
  <1>2. CASE UNCHANGED <<mutex, run>>
    BY <1>2
  <1>3. CASE SubmitEnds
    BY <1>3 DEF SubmitEnds
  <1>4. CASE SubmitFails
    BY <1>4 DEF SubmitFails
  <1>5. CASE Crash
    BY <1>5 DEF Crash
  <1>6. ~Restart
    BY <1>1 DEF Restart
  <1>7. CASE Worker
    <2>1. CASE WorkerSettles /\ ~UNCHANGED run
      <3>1. /\ worker.pc = "failing" /\ run[worker.run].status = "running" /\ UNCHANGED mutex
        BY <2>1 DEF WorkerSettles, OnlyWorker
      <3>2. PICK how \in {"failed", "cancelled"} : run' = [run EXCEPT ![worker.run].status = how]
        BY <2>1, <3>1 DEF WorkerSettles
      <3>3. QED
        BY <1>1, <3>1, <3>2 DEF RunRow
    <2>2. QED
      BY <1>1, <1>2, <1>7, <2>1 DEF Worker, WorkerTakes, WorkerStarts, WorkerBreaks, WorkerWorks,
         WorkerPublishes, WorkerSettles, WorkerEnds, OnlyWorker
  <1>8. CASE Request
    BY <1>1, <1>2, <1>8 DEF Request, SubmitScan, Asks, CancelScan, DeleteReport, DeleteProject,
       SaveSchedules, SaveSchedule, memory
  <1>9. CASE Schedule
    BY <1>1, <1>2, <1>9 DEF Schedule, SchedulerTicks, Elapse, SchedulerChecks, SchedulerSubmits,
       SchedulerSkips, Asks, stored, memory
  <1>10. CASE Holder
    BY <1>1, <1>3, <1>4, <1>10 DEF Holder, Enqueue, SubmitRefused, Asking, CancelEnds, CleanupEnds, CleanupRemoves
  <1>11. CASE Process \/ UNCHANGED vars
    BY <1>1, <1>2, <1>5, <1>6, <1>11 DEF Process, CloseBegins, CloseQueued, ServerStops, vars, stored, memory
  <1>12. QED
    BY <1>7, <1>8, <1>9, <1>10, <1>11 DEF Next

\* What is asked for waits until it is queued as it was asked for, or dropped.
LEMMA AsksUntilQueued ==
  ASSUME IInv, Asking, [Next]_vars
  PROVE  \/ UNCHANGED mutex
         \/ mutex' = Free \/ mutex'.op = "cleanup"
         \/ /\ mutex'.op \in {"submit", "schedule"}
            /\ run'[mutex'.run].project = mutex.project /\ run'[mutex'.run].mode = mutex.mode
  <1>1. mutex # Free /\ mutex.op \notin {"submit", "schedule", "cancel", "cleanup"}
    BY DEF Asking, Free
  <1>2. CASE Enqueue
    <2>1. NewRun \in RunIds
      BY AskedFor
    <2>2. mutex'.op \in {"submit", "schedule"} /\ mutex'.run = NewRun
      BY <1>2 DEF Enqueue
    <2>3. run'[NewRun] = [project |-> mutex.project, mode |-> mutex.mode, status |-> "running", shown |-> TRUE]
      BY <1>2, <2>1 DEF Enqueue, IInv, TypeOK
    <2>4. QED
      BY <2>2, <2>3
  <1>3. CASE Worker
    BY <1>3 DEF Worker, WorkerTakes, WorkerStarts, WorkerBreaks, WorkerWorks, WorkerPublishes,
       WorkerSettles, WorkerEnds, OnlyWorker
  <1>4. CASE Holder
    BY <1>1, <1>2, <1>4 DEF Holder, SubmitRefused, Submitting, SubmitEnds, SubmitFails, CancelEnds,
       CleanupEnds, CleanupRemoves
  <1>5. CASE Process \/ UNCHANGED vars
    BY <1>1, <1>5 DEF Process, Crash, Restart, Memory, CloseBegins, CloseQueued, ServerStops, vars, memory
  <1>6. CASE Request
    BY <1>1, <1>6 DEF Request, SubmitScan, Asks, CancelScan, DeleteReport, DeleteProject, SaveSchedules,
       SaveSchedule, memory
  <1>7. CASE Schedule
    BY <1>1, <1>7 DEF Schedule, SchedulerTicks, Elapse, SchedulerChecks, SchedulerSubmits, SchedulerSkips,
       Asks, memory
  <1>8. QED
    BY <1>3, <1>4, <1>5, <1>6, <1>7 DEF Next

\* The schedule thread asks only for what a row says is due.
LEMMA AsksForTheDue ==
  ASSUME IInv, ~Asking, mutex'.op = "due", [Next]_vars
  PROVE  /\ ~Submitting /\ UNCHANGED cadence
         /\ mutex'.project \in Projects /\ mutex'.mode \in Modes
         /\ cadence[mutex'.project][mutex'.mode] = "due"
  <1>1. mutex' # mutex /\ mutex' # Free /\ mutex'.op \notin {"submit", "schedule", "asked", "cancel", "cleanup"}
    BY DEF Asking, Free
  <1>2. ~Worker /\ ~UNCHANGED vars
    BY <1>1 DEF Worker, WorkerTakes, WorkerStarts, WorkerBreaks, WorkerWorks, WorkerPublishes,
       WorkerSettles, WorkerEnds, OnlyWorker, vars, memory
  <1>3. ~Holder
    BY <1>1 DEF Holder, Enqueue, SubmitRefused, SubmitEnds, SubmitFails, CancelEnds, CleanupEnds, CleanupRemoves, memory
  <1>4. ~Process
    BY <1>1 DEF Process, Crash, Restart, Memory, CloseBegins, CloseQueued, ServerStops, memory
  <1>5. ~Request
    BY <1>1 DEF Request, SubmitScan, Asks, AskFor, CancelScan, DeleteReport, DeleteProject, SaveSchedules,
       SaveSchedule, memory
  <1>6. PICK p \in Projects : SchedulerSubmits(p)
    BY <1>1, <1>2, <1>3, <1>4, <1>5
       DEF Next, Schedule, SchedulerTicks, Elapse, SchedulerChecks,
       SchedulerSkips, memory
  <1>7. PICK mode \in DueNow(p) : Asks("due", p, mode)
    BY <1>6 DEF SchedulerSubmits
  <1>8. mode \in Modes /\ cadence[p][mode] = "due"
    BY <1>7 DEF DueNow, DueMode, Modes
  <1>9. mutex = Free /\ mutex'.project = p /\ mutex'.mode = mode /\ UNCHANGED cadence
    BY <1>7 DEF Asks, AskFor, stored
  <1>10. QED
    BY <1>8, <1>9 DEF Submitting, Free

\* A deadline stays owed until a scan is queued for it, or its row no longer says so and
\* the schedule thread has not asked.
LEMMA OwedUntilQueued ==
  ASSUME IInv, [Next]_vars, NEW p \in Projects, NEW m \in Modes, <<p, m>> \in owed,
         ~(/\ Asking /\ mutex'.op \in {"submit", "schedule"}
           /\ mutex.project = p /\ mutex.mode \in {"enumerate", m}),
         cadence'[p][m] = "due" \/ mutex' = AskFor("due", p, m)
  PROVE  <<p, m>> \in owed'
  <1>1. <<p, m>> \in StillOwed
    BY DEF StillOwed
  <1>2. CASE owed' = StillOwed \/ owed' = OwedAgain \/ UNCHANGED owed
    BY <1>1, <1>2 DEF OwedAgain
  <1>3. CASE Worker
    BY <1>2, <1>3 DEF Worker, WorkerTakes, WorkerStarts, WorkerBreaks, WorkerWorks, WorkerPublishes,
       WorkerSettles, WorkerEnds, OnlyWorker
  <1>4. CASE Holder
    <2>1. CASE Enqueue
      <3>1. Asking /\ mutex'.op \in {"submit", "schedule"} /\ owed' = owed \ Covered(mutex.project, mutex.mode)
        BY <2>1 DEF Enqueue
      <3>2. <<p, m>> \notin Covered(mutex.project, mutex.mode)
        BY <3>1 DEF Covered
      <3>3. QED
        BY <3>1, <3>2
    <2>2. QED
      BY <1>2, <1>4, <2>1 DEF Holder, SubmitRefused, SubmitEnds, SubmitFails, CancelEnds, CleanupEnds, CleanupRemoves
  <1>5. CASE Process \/ UNCHANGED vars
    BY <1>2, <1>5 DEF Process, Crash, Restart, CloseBegins, CloseQueued, ServerStops, vars, stored
  <1>6. CASE Request
    BY <1>2, <1>6 DEF Request, SubmitScan, Asks, CancelScan, DeleteReport, DeleteProject, SaveSchedules,
       SaveSchedule, stored
  <1>7. CASE Schedule
    <2>1. ASSUME NEW q \in Projects, NEW mode \in Modes, Elapse(q, mode) PROVE <<p, m>> \in owed'
      BY <2>1 DEF Elapse
    <2>2. QED
      BY <1>2, <1>7, <2>1 DEF Schedule, SchedulerTicks, SchedulerChecks, SchedulerSubmits, SchedulerSkips,
         Asks, stored
  <1>8. QED
    BY <1>3, <1>4, <1>5, <1>6, <1>7 DEF Next

\* A deadline that passes is owed.
LEMMA NewlyDueIsOwed ==
  ASSUME IInv, [Next]_vars, NEW p \in Projects, NEW m \in Modes,
         cadence[p][m] # "due", cadence'[p][m] = "due"
  PROVE  <<p, m>> \in owed'
  <1>1. cadence \in [Projects -> [Modes -> {"off", "waiting", "due"}]]
    BY DEF IInv, TypeOK
  <1>2. ~UNCHANGED cadence
    OBVIOUS
  <1>3. \A q, mode : cadence' # Advanced(q, mode)
    BY <1>1 DEF Advanced
  <1>4. CASE Worker
    BY <1>2, <1>4 DEF Worker, WorkerTakes, WorkerStarts, WorkerBreaks, WorkerWorks, WorkerPublishes,
       WorkerSettles, WorkerEnds, OnlyWorker
  <1>5. CASE Holder
    BY <1>2, <1>3, <1>5 DEF Holder, Enqueue, SubmitRefused, SubmitEnds, SubmitFails, CancelEnds, CleanupEnds,
       CleanupRemoves
  <1>6. CASE Process \/ UNCHANGED vars
    BY <1>2, <1>6 DEF Process, Crash, Restart, CloseBegins, CloseQueued, ServerStops, vars, stored
  <1>7. CASE Request
    <2>1. ASSUME NEW q \in Projects, DeleteProject(q) \/ SaveSchedules(q) \/ SaveSchedule(q) PROVE FALSE
      BY <1>1, <2>1 DEF DeleteProject, SaveSchedules, SaveSchedule
    <2>2. QED
      BY <1>2, <1>7, <2>1 DEF Request, SubmitScan, Asks, CancelScan, DeleteReport, stored
  <1>8. CASE Schedule
    <2>1. ASSUME NEW q \in Projects, NEW mode \in Modes, Elapse(q, mode) PROVE <<p, m>> \in owed'
      <3>1. q = p /\ mode = m
        BY <1>1, <2>1 DEF Elapse
      <3>2. QED
        BY <2>1, <3>1 DEF Elapse
    <2>2. QED
      BY <1>2, <1>8, <2>1 DEF Schedule, SchedulerTicks, SchedulerChecks, SchedulerSubmits, SchedulerSkips,
         Asks, stored
  <1>9. QED
    BY <1>4, <1>5, <1>6, <1>7, <1>8 DEF Next

\* Which deadlines are owed is known again after every step.
LEMMA OwedStep == IInv /\ OwedInv /\ [Next]_vars => OwedInv'
  <1> SUFFICES ASSUME IInv, OwedInv, [Next]_vars PROVE OwedInv'
    OBVIOUS
  <1>1. ASSUME NEW p \in Projects, NEW m \in Modes, cadence'[p][m] = "due", ~Serving(p, m)'
        PROVE  <<p, m>> \in owed'
    <2>1. CASE cadence[p][m] # "due"
      BY <1>1, <2>1, NewlyDueIsOwed
    <2>2. CASE cadence[p][m] = "due" /\ Serving(p, m)
      <3>1. ~(cadence' = Advanced(run[mutex.run].project, run[mutex.run].mode))
        BY <1>1, <2>2 DEF Advanced, Serving, IInv, TypeOK
      <3>2. ~(/\ UNCHANGED mutex
              /\ run'[mutex.run].project = run[mutex.run].project
              /\ run'[mutex.run].mode = run[mutex.run].mode)
        BY <1>1, <2>2 DEF Serving, Submitting
      <3>3. owed' = OwedAgain
        BY <2>2, <3>1, <3>2, ServesUntilAdvanced DEF Serving
      <3>4. <<p, m>> \in Covered(run[mutex.run].project, run[mutex.run].mode)
        BY <2>2 DEF Covered, Serving
      <3>5. QED
        BY <2>2, <3>3, <3>4 DEF OwedAgain, Serving
    <2>3. CASE cadence[p][m] = "due" /\ ~Serving(p, m)
      <3>1. <<p, m>> \in owed
        BY <2>3 DEF OwedInv, DueIsOwed
      <3>2. CASE /\ Asking /\ mutex'.op \in {"submit", "schedule"}
                 /\ mutex.project = p /\ mutex.mode \in {"enumerate", m}
        <4>1. mutex' # mutex /\ mutex' # Free /\ mutex'.op # "cleanup"
          BY <3>2 DEF Asking, Free
        <4>2. run'[mutex'.run].project = mutex.project /\ run'[mutex'.run].mode = mutex.mode
          BY <3>2, <4>1, AsksUntilQueued
        <4>3. QED
          BY <1>1, <3>2, <4>2 DEF Serving, Submitting
      <3>3. QED
        BY <1>1, <3>1, <3>2, OwedUntilQueued
    <2>4. QED
      BY <2>1, <2>2, <2>3
  <1>2. AskedIsOwed'
    <2>1. SUFFICES ASSUME mutex'.op = "due" PROVE <<mutex'.project, mutex'.mode>> \in owed'
      BY DEF AskedIsOwed
    <2>2. CASE Asking
      <3>1. UNCHANGED mutex
        BY <2>1, <2>2, AsksUntilQueued DEF Free
      <3>2. PICK p \in Projects, m \in Modes : p = mutex.project /\ m = mutex.mode
        BY <2>2, AskedFor
      <3>3. mutex.op = "due" /\ <<p, m>> \in owed /\ mutex'.op \notin {"submit", "schedule"}
        BY <2>1, <3>1, <3>2 DEF OwedInv, AskedIsOwed
      <3>4. mutex' = AskFor("due", p, m)
        BY <3>1, <3>2, <3>3 DEF AskFor, IInv, TypeOK
      <3>5. <<p, m>> \in owed'
        BY <3>3, <3>4, OwedUntilQueued
      <3>6. QED
        BY <3>1, <3>2, <3>5
    <2>3. CASE ~Asking
      <3>1. /\ ~Submitting /\ UNCHANGED cadence
            /\ mutex'.project \in Projects /\ mutex'.mode \in Modes
            /\ cadence[mutex'.project][mutex'.mode] = "due"
        BY <2>1, <2>3, AsksForTheDue
      <3>2. PICK p \in Projects, m \in Modes : p = mutex'.project /\ m = mutex'.mode
        BY <3>1
      <3>3. cadence'[p][m] = "due" /\ ~Serving(p, m)'
        BY <2>1, <3>1, <3>2 DEF Serving, Submitting
      <3>4. QED
        BY <1>1, <3>2, <3>3
    <2>4. QED
      BY <2>2, <2>3
  <1>3. QED
    BY <1>1, <1>2 DEF OwedInv, DueIsOwed

\* The schedule thread queues a scan only for a deadline that no scan has covered since
\* it passed: what it asked for is owed until it is queued.
THEOREM DeadlinesAreServedOnce == Spec => DeadlinesServedOnce
  <1>1. Init => OwedInv
    BY DEF Init, Free, OwedInv, DueIsOwed, AskedIsOwed
  <1>2. OwedInv =>
          [mutex.op = "due" /\ mutex'.op = "schedule" => <<mutex.project, mutex.mode>> \in owed]_vars
    BY DEF OwedInv, AskedIsOwed
  <1>3. QED
    BY <1>1, <1>2, AlwaysIInv, OwedStep, PTL DEF Spec, DeadlinesServedOnce
-------------------------------------------------------------------------------
(* The service implements ScanLedger.                                      *)

\* The ledger's view of the runs, and of those wanted.
LRun    == [r \in RunIds |-> [project |-> run[r].project, status |-> run[r].status, shown |-> run[r].shown]]
LWanted == {r \in RunIds : run[r].status = "running" /\ server = "open" /\ r \notin requested}

\* Nothing the ledger sees changes.
LEMMA LedgerStutters ==
  ASSUME UNCHANGED <<projects, accepted>>, LRun' = LRun, LWanted' = LWanted
  PROVE  UNCHANGED Ledger!vars
  BY DEF Ledger!vars, LRun, LWanted

\* Wanted runs are withdrawn.
LEMMA LedgerWithdraws ==
  ASSUME UNCHANGED <<projects, accepted>>, LRun' = LRun, LWanted' \subseteq LWanted
  PROVE  Ledger!Withdraw
  <1>1. LWanted \ LWanted' \in SUBSET LWanted /\ LWanted' = LWanted \ (LWanted \ LWanted')
    OBVIOUS
  <1>2. QED
    BY <1>1 DEF Ledger!Withdraw, LRun, LWanted

\* Running runs end without results.
LEMMA LedgerEnds ==
  ASSUME NEW S \in SUBSET RunIds, S # {},
         \A r \in S : run[r].status = "running" /\ run'[r].status \in {"failed", "cancelled"},
         \A r \in RunIds : /\ run'[r].project = run[r].project /\ run'[r].shown = run[r].shown
                           /\ r \notin S => run'[r].status = run[r].status,
         UNCHANGED <<projects, accepted>>, LWanted' = LWanted \ S
  PROVE  Ledger!End
  <1> DEFINE how == [r \in S |-> run'[r].status]
  <1>1. how \in [S -> {"failed", "cancelled"}]
    OBVIOUS
  <1>2. LRun' = [r \in RunIds |-> IF r \in S THEN [LRun[r] EXCEPT !.status = how[r]] ELSE LRun[r]]
    BY DEF LRun
  <1>3. \A r \in S : LRun[r].status = "running"
    BY DEF LRun
  <1>4. QED
    BY <1>1, <1>2, <1>3 DEF Ledger!End, Ledger!Running, LRun, LWanted

LEMMA LedgerInit == Init => Ledger!Init
  BY DEF Init, Ledger!Init
\* A submission starts a run.
LEMMA EnqueueStarts ==
  ASSUME IInv, Enqueue
  PROVE  Ledger!Next
  <1> DEFINE new == NewRun
             row == [project |-> mutex.project, mode |-> mutex.mode, status |-> "running", shown |-> TRUE]
  <1>0. PICK p \in Projects : p = mutex.project
    BY AskedFor DEF Enqueue
  <1>1. new \in RunIds /\ run[new].project = NoOne
    BY AskedFor, NextIdIsFresh DEF IInv, RowInv, Enqueue
  <1>2. new \notin requested
    BY <1>1 DEF IInv, RowInv, UnusedIsBlank
  <1>3. /\ run' = [run EXCEPT ![new] = row] /\ p \in projects /\ ~Scanning(p)
        /\ UNCHANGED <<projects, accepted, server, requested>>
    BY <1>0 DEF Enqueue, Startable
  <1> HIDE DEF new
  <1>4. run'[new] = row /\ \A r \in RunIds : r # new => run'[r] = run[r]
    BY <1>1, <1>3 DEF IInv, TypeOK
  <1>5. ~Ledger!Scanning(p)
    BY <1>3 DEF Ledger!Scanning, Ledger!Running, Scanning, RunsOf
  <1>6. LRun' = [LRun EXCEPT ![new] = [project |-> p, status |-> "running", shown |-> TRUE]]
    <2>1. run'[new].project = p /\ run'[new].status = "running" /\ run'[new].shown = TRUE
      BY <1>0, <1>4
    <2> HIDE DEF row
    <2>2. QED
      BY <1>1, <1>4, <2>1 DEF LRun
  <1>7. LRun[new].project = NoOne
    BY <1>1 DEF LRun
  <1>8. LWanted' \in {LWanted, LWanted \cup {new}}
    <2>1. CASE server = "open"
      BY <1>1, <1>2, <1>3, <1>4, <2>1 DEF LWanted
    <2>2. CASE server # "open"
      BY <1>3, <2>2 DEF LWanted
    <2>3. QED
      BY <2>1, <2>2
  <1>9. Ledger!Start(p)
    BY <1>1, <1>3, <1>5, <1>6, <1>7, <1>8 DEF Ledger!Start, LRun, LWanted
  <1>10. QED
    BY <1>9 DEF Ledger!Next

\* Recording an end of a running run ends it.
LEMMA SettlingEnds ==
  ASSUME IInv, NEW r \in RunIds, run[r].status = "running", NEW how \in {"failed", "cancelled"},
         Settles(r, how), requested \subseteq requested', requested' \subseteq requested \cup {r},
         UNCHANGED accepted
  PROVE  Ledger!End
  <1>1. /\ run'[r].status = how
        /\ \A s \in RunIds : /\ run'[s].project = run[s].project /\ run'[s].shown = run[s].shown
                             /\ s # r => run'[s] = run[s]
    BY SettledRows DEF Ended
  <1>2. UNCHANGED <<projects, server>>
    BY DEF Settles
  <1>3. LWanted' = LWanted \ {r}
    BY <1>1, <1>2 DEF LWanted
  <1>4. {r} \in SUBSET RunIds /\ {r} # {}
    OBVIOUS
  <1>5. QED
    BY <1>1, <1>2, <1>3, <1>4, LedgerEnds

\* The thread publishes a run still wanted, ends one, or does nothing the ledger sees.
LEMMA WorkerSimulates ==
  ASSUME IInv, Worker
  PROVE  Ledger!Next \/ UNCHANGED Ledger!vars
  <1>1. CASE UNCHANGED <<projects, run, accepted, server, requested>>
    BY <1>1, LedgerStutters DEF LRun, LWanted
  <1>2. CASE WorkerPublishes /\ ~UNCHANGED run
    <2>1. PICK r \in RunIds : r = worker.run
      BY <1>2, BusyThread DEF WorkerPublishes
    <2>2. /\ ~Stopping(r) /\ run[r].status = "running"
          /\ run' = [run EXCEPT ![r].status = "accepted"]
          /\ accepted' = [accepted EXCEPT ![run[r].project] = r]
          /\ UNCHANGED <<projects, server, cleanup, requested>>
      BY <1>2, <2>1 DEF WorkerPublishes, OnlyWorker
    <2>3. /\ run'[r].status = "accepted"
          /\ \A s \in RunIds : /\ run'[s].project = run[s].project /\ run'[s].shown = run[s].shown
                               /\ s # r => run'[s] = run[s]
      BY <2>2, SettledRows DEF Settles, Ended
    <2>4. r \in LWanted /\ LWanted' = LWanted \ {r}
      BY <2>2, <2>3 DEF LWanted, Stopping
    <2>5. LRun' = [LRun EXCEPT ![r].status = "accepted"]
      BY <2>2, <2>3 DEF LRun
    <2>6. LRun[r].status = "running" /\ LRun[r].project = run[r].project
      BY <2>2 DEF LRun
    <2>7. accepted' = [accepted EXCEPT ![LRun[r].project] = r] /\ UNCHANGED projects
      BY <2>2, <2>6
    <2>8. Ledger!Accept(r)
      BY <2>4, <2>5, <2>6, <2>7 DEF Ledger!Accept, Ledger!Running, LRun, LWanted
    <2>9. QED
      BY <2>8 DEF Ledger!Next
  <1>3. CASE WorkerSettles /\ ~UNCHANGED run
    <2>1. /\ worker.pc = "failing" /\ run[worker.run].status = "running"
          /\ UNCHANGED <<projects, server, cleanup, requested, accepted>>
      BY <1>3 DEF WorkerSettles, OnlyWorker
    <2>2. PICK how \in {"failed", "cancelled"} : Settles(worker.run, how)
      BY <1>3, <2>1 DEF WorkerSettles, Settles
    <2>3. Ledger!End
      BY <2>1, <2>2, BusyThread, SettlingEnds
    <2>4. QED
      BY <2>3 DEF Ledger!Next
  <1>4. CASE WorkerPublishes /\ UNCHANGED run
    <2>1. worker.pc = "publishing" /\ worker.run \in RunIds
      BY <1>4, BusyThread DEF WorkerPublishes
    <2>2. ~(run[worker.run].status = "running" /\ run' = [run EXCEPT ![worker.run].status = "accepted"])
      BY <1>4, <2>1 DEF IInv, TypeOK, RunRow
    <2>3. UNCHANGED accepted
      BY <1>4, <2>2 DEF WorkerPublishes
    <2>4. QED
      BY <1>1, <1>4, <2>3 DEF WorkerPublishes, OnlyWorker
  <1>5. QED
    BY <1>1, <1>2, <1>3, <1>4
       DEF Worker, WorkerTakes, WorkerStarts, WorkerBreaks, WorkerWorks, WorkerSettles, WorkerEnds, OnlyWorker

\* What holds the mutex starts a run or ends one: when the first cleanup opens the
\* server, there is no run that would be wanted again.
LEMMA HolderSimulates ==
  ASSUME IInv, Holder
  PROVE  Ledger!Next \/ UNCHANGED Ledger!vars
  <1>1. CASE UNCHANGED <<projects, run, accepted, server, requested>>
    BY <1>1, LedgerStutters DEF LRun, LWanted
  <1>2. CASE SubmitFails
    <2>1. /\ mutex.run \in RunIds /\ run[mutex.run].status = "running"
          /\ Settles(mutex.run, "failed") /\ requested' = requested \cup {mutex.run}
          /\ UNCHANGED accepted
      BY <1>2 DEF SubmitFails, Settles, IInv, HolderInv
    <2>2. Ledger!End
      BY <2>1, SettlingEnds
    <2>3. QED
      BY <2>2 DEF Ledger!Next
  <1>3. CASE CleanupEnds
    <2>1. LRun' = LRun /\ LWanted' = LWanted
      BY <1>3 DEF CleanupEnds, LRun, LWanted, IInv, HolderInv
    <2>2. QED
      BY <1>3, <2>1, LedgerStutters DEF CleanupEnds
  <1>4. CASE SubmitEnds \/ CancelEnds
    BY <1>1, <1>4 DEF SubmitEnds, CancelEnds
  <1>5. CASE \E r \in RunIds : CleanupRemoves(r)
    BY <1>1, <1>5 DEF CleanupRemoves, memory
  <1>6. CASE SubmitRefused
    BY <1>1, <1>6 DEF SubmitRefused, stored
  <1>7. QED
    BY <1>2, <1>3, <1>4, <1>5, <1>6, EnqueueStarts DEF Holder

\* A request ends, hides or removes, or takes the mutex.
LEMMA RequestSimulates ==
  ASSUME IInv, Request
  PROVE  Ledger!Next \/ UNCHANGED Ledger!vars
  <1>1. ASSUME NEW p \in Projects, NEW mode \in Modes, SubmitScan(p, mode)
        PROVE  UNCHANGED Ledger!vars
    BY <1>1, LedgerStutters DEF SubmitScan, Asks, stored, LRun, LWanted
  <1>2. ASSUME NEW r \in RunIds, CancelScan(r)
        PROVE  Ledger!Next
    <2>1. /\ run[r].status = "running" /\ Settles(r, "cancelled") /\ requested' = requested \cup {r}
          /\ UNCHANGED accepted
      BY <1>2 DEF CancelScan, Settles
    <2>2. Ledger!End
      BY <2>1, SettlingEnds
    <2>3. QED
      BY <2>2 DEF Ledger!Next
  <1>3. ASSUME NEW r \in RunIds, DeleteReport(r)
        PROVE  Ledger!Next
    <2>1. /\ Visible(r) /\ ~Scanning(run[r].project)
          /\ run' = [run EXCEPT ![r].shown = FALSE]
          /\ UNCHANGED <<projects, accepted, server, requested>>
      BY <1>3 DEF DeleteReport, DeletionBlocked
    <2>2. /\ run'[r].shown = FALSE
          /\ \A s \in RunIds : /\ run'[s].project = run[s].project /\ run'[s].status = run[s].status
                               /\ s # r => run'[s] = run[s]
      BY <2>1 DEF IInv, TypeOK, RunRow
    <2>3. LRun' = [LRun EXCEPT ![r].shown = FALSE] /\ LWanted' = LWanted
      BY <2>1, <2>2 DEF LRun, LWanted
    <2>4. ~Ledger!Scanning(LRun[r].project) /\ LRun[r].status # "absent" /\ LRun[r].shown
      BY <2>1 DEF Ledger!Scanning, Ledger!Running, LRun, Visible, Scanning, RunsOf
    <2>5. Ledger!Hide(r)
      BY <2>1, <2>3, <2>4 DEF Ledger!Hide, LRun, LWanted
    <2>6. QED
      BY <2>5 DEF Ledger!Next
  <1>4. ASSUME NEW p \in Projects, DeleteProject(p)
        PROVE  Ledger!Next
    <2>1. /\ p \in projects /\ ~Scanning(p)
          /\ projects' = projects \ {p}
          /\ run' = [r \in RunIds |-> IF run[r].project = p THEN [run[r] EXCEPT !.status = "absent"] ELSE run[r]]
          /\ accepted' = [accepted EXCEPT ![p] = NoRun]
          /\ UNCHANGED <<server, requested>>
      BY <1>4 DEF DeleteProject, DeletionBlocked
    <2>2. \A r \in RunIds : /\ run'[r].project = run[r].project /\ run'[r].shown = run[r].shown
                            /\ run'[r].status = IF run[r].project = p THEN "absent" ELSE run[r].status
      BY <2>1 DEF IInv, TypeOK, RunRow
    <2>3. LRun' = [r \in RunIds |->
                     IF LRun[r].project = p THEN [LRun[r] EXCEPT !.status = "absent"] ELSE LRun[r]]
      BY <2>2 DEF LRun
    <2>4. LWanted' = LWanted
      BY <2>1, <2>2 DEF LWanted, Scanning, RunsOf
    <2>5. ~Ledger!Scanning(p)
      BY <2>1 DEF Ledger!Scanning, Ledger!Running, Scanning, RunsOf
    <2>6. Ledger!Remove(p)
      BY <2>1, <2>3, <2>4, <2>5 DEF Ledger!Remove, LRun, LWanted
    <2>7. QED
      BY <2>6 DEF Ledger!Next
  <1>5. ASSUME NEW p \in Projects, SaveSchedules(p) \/ SaveSchedule(p)
        PROVE  UNCHANGED Ledger!vars
    BY <1>5, LedgerStutters DEF SaveSchedules, SaveSchedule, memory, LRun, LWanted
  <1>6. QED
    BY <1>1, <1>2, <1>3, <1>4, <1>5 DEF Request

\* The process withdraws what was wanted, and ends what it leaves.
LEMMA ProcessSimulates ==
  ASSUME IInv, Process
  PROVE  Ledger!Next \/ UNCHANGED Ledger!vars
  <1>1. CASE Crash \/ CloseBegins \/ ServerStops
    <2>1. LRun' = LRun /\ LWanted' = {}
      BY <1>1 DEF Crash, CloseBegins, ServerStops, stored, memory, LRun, LWanted
    <2>2. Ledger!Withdraw
      BY <1>1, <2>1, LedgerWithdraws DEF Crash, CloseBegins, ServerStops, stored
    <2>3. QED
      BY <2>2 DEF Ledger!Next
  <1>2. ASSUME NEW S \in SUBSET RunIds, \A r \in S : run[r].status = "running",
               run' = [r \in RunIds |-> IF r \in S THEN [run[r] EXCEPT !.status = "failed"] ELSE run[r]],
               server # "open", server' # "open", UNCHANGED <<projects, accepted>>
        PROVE  Ledger!Next \/ UNCHANGED Ledger!vars
    <2>1. \A r \in RunIds : /\ run'[r].project = run[r].project /\ run'[r].shown = run[r].shown
                            /\ run'[r].status = IF r \in S THEN "failed" ELSE run[r].status
      BY <1>2 DEF IInv, TypeOK, RunRow
    <2>2. LWanted = {} /\ LWanted' = {}
      BY <1>2 DEF LWanted
    <2>3. CASE S = {}
      <3>1. LRun' = LRun
        BY <2>1, <2>3 DEF LRun
      <3>2. QED
        BY <1>2, <2>2, <3>1, LedgerStutters
    <2>4. CASE S # {}
      <3>1. Ledger!End
        BY <1>2, <2>1, <2>2, <2>4, LedgerEnds
      <3>2. QED
        BY <3>1 DEF Ledger!Next
    <2>5. QED
      BY <2>3, <2>4
  <1>3. CASE Restart
    <2> DEFINE S == {r \in RunIds : run[r].status = "running"}
    <2>1. run' = [r \in RunIds |-> IF r \in S THEN [run[r] EXCEPT !.status = "failed"] ELSE run[r]]
      BY <1>3 DEF Restart
    <2>2. QED
      BY <1>2, <1>3, <2>1 DEF Restart
  <1>4. CASE CloseQueued
    <2> DEFINE gone == {r \in Cancellable : ~Visible(r)}
               done == {r \in Cancellable : \A g \in gone : r < g}
               S == {r \in RunIds : r \in done /\ run[r].status = "running"}
    <2>1. run' = [r \in RunIds |->
            IF r \in done /\ run[r].status = "running" THEN [run[r] EXCEPT !.status = "failed"] ELSE run[r]]
      BY <1>4 DEF CloseQueued
    <2>2. server = "closing" /\ server' \in {"draining", "aborted"} /\ UNCHANGED <<projects, accepted>>
      BY <1>4 DEF CloseQueued
    <2> HIDE DEF done
    <2>3. run' = [r \in RunIds |-> IF r \in S THEN [run[r] EXCEPT !.status = "failed"] ELSE run[r]]
      BY <2>1
    <2>4. S \in SUBSET RunIds /\ \A r \in S : run[r].status = "running"
      OBVIOUS
    <2> HIDE DEF S
    <2>5. QED
      BY <1>2, <2>2, <2>3, <2>4
  <1>5. QED
    BY <1>1, <1>3, <1>4 DEF Process

\* The schedule thread changes no run: what holds the mutex for it does.
LEMMA ScheduleSimulates ==
  ASSUME IInv, Schedule
  PROVE  UNCHANGED Ledger!vars
  <1>1. UNCHANGED <<projects, run, accepted, server, requested>>
    BY DEF Schedule, SchedulerTicks, Elapse, SchedulerChecks, SchedulerSubmits, SchedulerSkips, Asks,
           stored, memory
  <1>2. QED
    BY <1>1, LedgerStutters DEF LRun, LWanted

\* Through its threads, requests, crashes and restarts, the service keeps the promises
\* of ScanLedger.
THEOREM ServiceImplementsLedger == Spec => LedgerSpec
  <1>1. IInv /\ [Next]_vars => [Ledger!Next]_(Ledger!vars)
    <2> SUFFICES ASSUME IInv, [Next]_vars PROVE Ledger!Next \/ UNCHANGED Ledger!vars
      OBVIOUS
    <2>1. CASE UNCHANGED vars
      BY <2>1, LedgerStutters DEF vars, stored, memory, LRun, LWanted
    <2>2. QED
      BY <2>1, WorkerSimulates, HolderSimulates, RequestSimulates, ProcessSimulates, ScheduleSimulates DEF Next
  <1>2. QED
    BY <1>1, AlwaysIInv, LedgerInit, PTL DEF Spec, LedgerSpec, Ledger!Spec
===============================================================================
