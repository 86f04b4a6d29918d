------------------------------ MODULE BoundedMap ------------------------------
(***************************************************************************)
(* bounded_map (concurrency.py): a generator that runs a function over     *)
(* items on a thread pool, keeps at most Workers futures, and yields each  *)
(* result as it completes.  The caller's thread submits, waits, yields and *)
(* drains; the pool's threads begin, finish or fail.                       *)
(*                                                                         *)
(* Used for DNS observations, parking lookups and website probes.          *)
(***************************************************************************)
EXTENDS Integers, FiniteSets, Cancellation

CONSTANTS
  Items,    \* what a call may be asked to map
  Workers   \* the worker count of the call

ASSUME MapAssumption == IsFiniteSet(Items) /\ Workers \in Nat \ {0}

VARIABLES
  caller,   \* where the generator is
  given,    \* the items of this call
  unread,   \* those its iterator still holds
  future,   \* the state of each item's future
  pending,  \* the items whose futures the caller holds
  done,     \* what the last wait found, less what was taken from it
  failed,   \* a function failure is recorded
  stopped,  \* the stop event
  why,      \* the error a call raised
  yielded   \* the items whose results the caller has had

mapState == <<caller, given, unread, future, pending, done, failed, stopped, why, yielded>>

Completed == {"value", "error", "refused", "guard"}
Unfinished == {i \in Items : future[i] \in {"queued", "running", "failing"}}

MapInit ==
  /\ caller = "idle" /\ given = {} /\ unread = {} /\ future = [i \in Items |-> "none"]
  /\ pending = {} /\ done = {} /\ failed = FALSE /\ stopped = FALSE /\ why = "none" /\ yielded = {}

\* check(): the caller's cancel check, then the first failure of a worker.
Ok == ~Cancelled /\ ~failed
Reason == IF Cancelled THEN "cancel" ELSE "failure"

\* The finally block up to the wait: stop, and cancel what has not begun.
Abandon(reason) ==
  /\ caller' = "draining" /\ stopped' = TRUE /\ why' = reason
  /\ future' = [i \in Items |-> IF i \in pending /\ future[i] = "queued" THEN "cancelled" ELSE future[i]]

-------------------------------------------------------------------------------
(* The caller's thread.                                                    *)

Call(items) ==
  /\ caller = "idle"
  /\ given' = items /\ unread' = items
  /\ caller' = IF Ok THEN "submitting" ELSE "raised"
  /\ why' = IF Ok THEN "none" ELSE Reason
  /\ UNCHANGED <<future, pending, done, failed, stopped, yielded>>

Submit ==
  /\ caller = "submitting" /\ Ok
  /\ Cardinality(pending) < Workers
  /\ \E i \in unread :
       /\ unread' = unread \ {i} /\ pending' = pending \cup {i}
       /\ future' = [future EXCEPT ![i] = "queued"]
  /\ UNCHANGED <<caller, given, done, failed, stopped, why, yielded>>

Wait ==
  /\ caller = "submitting" /\ Ok
  /\ pending # {} /\ (unread = {} \/ Cardinality(pending) >= Workers)
  /\ caller' = "waiting"
  /\ UNCHANGED <<given, unread, future, pending, done, failed, stopped, why, yielded>>

\* Every future has been yielded.
Return ==
  /\ caller = "submitting" /\ Ok /\ unread = {} /\ pending = {}
  /\ caller' = "returned" /\ stopped' = TRUE
  /\ UNCHANGED <<given, unread, future, pending, done, failed, why, yielded>>

\* A wait that times out with nothing done is taken again.
Wake ==
  /\ caller = "waiting" /\ Ok
  /\ done' = {i \in pending : future[i] \in Completed} /\ done' # {}
  /\ caller' = "yielding"
  /\ UNCHANGED <<given, unread, future, pending, failed, stopped, why, yielded>>

\* A check fails before a submission, or after a wait.
Raise ==
  /\ caller \in {"submitting", "waiting"} /\ ~Ok
  /\ Abandon(Reason)
  /\ UNCHANGED <<given, unread, pending, done, failed, yielded>>

\* The result is taken, checked once more, and handed out.
Yield(i) ==
  /\ caller = "yielding" /\ i \in done /\ future[i] = "value" /\ Ok
  /\ pending' = pending \ {i} /\ done' = done \ {i} /\ yielded' = yielded \cup {i}
  /\ caller' = IF done' = {} THEN "submitting" ELSE "yielding"
  /\ UNCHANGED <<given, unread, future, failed, stopped, why>>

\* The future holds an error, or the check after it fails: its result is lost.
YieldFails(i) ==
  /\ caller = "yielding" /\ i \in done /\ ~(future[i] = "value" /\ Ok)
  /\ Abandon(CASE future[i] = "value"   -> Reason
               [] future[i] = "error"   -> "failure"
               [] future[i] = "refused" -> "cancel"
               [] future[i] = "guard"   -> "guard")
  /\ UNCHANGED <<given, unread, pending, done, failed, yielded>>

\* Faulty: the pool is shut down without waiting for its threads.
DrainWithoutWaiting ==
  /\ caller = "draining"
  /\ caller' = "raised" /\ pending' = {} /\ done' = {}
  /\ UNCHANGED <<given, unread, future, failed, stopped, why, yielded>>

\* executor.shutdown(wait=True): the error leaves when no thread works any more.
Drain ==
  /\ caller = "draining" /\ Unfinished = {}
  /\ caller' = "raised" /\ pending' = {} /\ done' = {}
  /\ UNCHANGED <<given, unread, future, failed, stopped, why, yielded>>

\* The generator is gone; the next call starts afresh.
Leave ==
  /\ caller \in {"returned", "raised"}
  /\ caller' = "idle" /\ given' = {} /\ unread' = {} /\ future' = [i \in Items |-> "none"]
  /\ pending' = {} /\ done' = {} /\ failed' = FALSE /\ stopped' = FALSE /\ why' = "none" /\ yielded' = {}

-------------------------------------------------------------------------------
(* The pool's threads: invoke.                                             *)

\* The guard, then the cancel check, outside the try block; then the function.
Begin(i) ==
  /\ future[i] = "queued"
  /\ future' = [future EXCEPT ![i] =
       IF stopped THEN "guard" ELSE IF Cancelled THEN "refused" ELSE "running"]
  /\ UNCHANGED <<caller, given, unread, pending, done, failed, stopped, why, yielded>>

Finish(i) ==
  /\ future[i] = "running"
  /\ future' = [future EXCEPT ![i] = "value"]
  /\ UNCHANGED <<caller, given, unread, pending, done, failed, stopped, why, yielded>>

\* Faulty: the others are stopped before the failure is on record.
FailUnrecorded(i) ==
  /\ future[i] = "running"
  /\ future' = [future EXCEPT ![i] = "failing"] /\ stopped' = TRUE
  /\ UNCHANGED <<caller, given, unread, pending, done, failed, why, yielded>>

\* The failure is recorded first ...
Fail(i) ==
  /\ future[i] = "running"
  /\ future' = [future EXCEPT ![i] = "failing"] /\ failed' = TRUE
  /\ UNCHANGED <<caller, given, unread, pending, done, stopped, why, yielded>>

\* ... then the others are stopped, and the future holds the error.
FailEnds(i) ==
  /\ future[i] = "failing"
  /\ future' = [future EXCEPT ![i] = "error"] /\ failed' = TRUE /\ stopped' = TRUE
  /\ UNCHANGED <<caller, given, unread, pending, done, why, yielded>>

-------------------------------------------------------------------------------
CallerStep ==
  \/ \E items \in SUBSET Items : Call(items)
  \/ Submit \/ Wait \/ Return \/ Wake \/ Raise \/ Drain \/ Leave
  \/ \E i \in Items : Yield(i) \/ YieldFails(i)

WorkerStep == \E i \in Items : Begin(i) \/ Finish(i) \/ Fail(i) \/ FailEnds(i)

SignalStep == (Request \/ Close) /\ UNCHANGED mapState

MapNext == \/ (CallerStep \/ WorkerStep) /\ UNCHANGED signal
           \/ SignalStep

MapSpec == MapInit /\ SignalInit /\ [][MapNext]_<<mapState, signal>>

-------------------------------------------------------------------------------
(* Properties.                                                             *)

\* No thread of the pool is at work, or still has something to begin, once the call
\* has returned or raised, however it failed or was stopped.
NoWorkOutlivesCall == caller \in {"idle", "returned", "raised"} => Unfinished = {}

\* A call that returns has yielded a value for every item it was given.
ResultsAreWhole ==
  caller = "returned" => yielded = given /\ \A i \in given : future[i] = "value"

\* What a call raises is the failure of the function or the cancellation, never the
\* guard's CancelledError that follows from it.
FirstFailureIsReported == why # "guard"

\* No more than Workers futures are held, and every thread at work has one of them.
PoolIsBounded ==
  /\ Cardinality(pending) <= Workers
  /\ caller # "draining" => Unfinished \subseteq pending
===============================================================================
