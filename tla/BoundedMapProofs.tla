--------------------------- MODULE BoundedMapProofs ---------------------------
(***************************************************************************)
(* What BoundedMap promises for every set of items and every worker count. *)
(***************************************************************************)
EXTENDS BoundedMap, FiniteSetTheorems, TLAPS

Active == {"submitting", "waiting", "yielding"}
Over   == {"idle", "returned", "raised"}

\* The shapes of the variables of a call.
MapType ==
  /\ caller \in Active \cup Over \cup {"draining"}
  /\ given \subseteq Items /\ unread \subseteq given
  /\ pending \subseteq given /\ yielded \subseteq given /\ done \subseteq pending
  /\ future \in [Items -> Completed \cup {"none", "queued", "running", "failing", "cancelled"}]
  /\ failed \in BOOLEAN /\ stopped \in BOOLEAN

\* The caller holds the future of every unfinished item, and none when it is done.
Held ==
  /\ Unfinished \subseteq pending
  /\ caller \in Over => pending = {}
  /\ Cardinality(pending) <= Workers

\* Nothing of a call is lost on its way from the iterator to the caller.
Accounted ==
  /\ caller \in Active \cup {"returned"} => given = unread \cup pending \cup yielded
  /\ caller = "returned" => unread = {}
  /\ caller = "idle" => /\ yielded = {} /\ failed = FALSE /\ stopped = FALSE
                        /\ \A i \in Items : future[i] = "none"
  /\ \A i \in yielded : future[i] = "value"
  /\ caller \in {"idle", "raised"} \/ \A i \in unread : future[i] = "none"

\* While a call is active a stop means a failure on record, and what the guard turned
\* away is not among what a clean wait found.
Recorded ==
  /\ caller \in Active /\ stopped => failed
  /\ \A i \in Items : future[i] = "failing" => failed
  /\ caller \in Active => \A i \in Items : future[i] = "guard" => failed
  /\ \A i \in done : future[i] \in Completed \ {"guard"}
  /\ why # "guard"
  /\ caller = "draining" => stopped

MapInv == MapType /\ Held /\ Accounted /\ Recorded

\* What the caller holds is finite, and so is what it holds after one more or one less.
LEMMA PendingFinite ==
  ASSUME MapType
  PROVE  /\ IsFiniteSet(pending) /\ Cardinality(pending) \in Nat
         /\ Cardinality({}) = 0
         /\ \A i : Cardinality(pending \cup {i}) <= Cardinality(pending) + 1
         /\ \A i : Cardinality(pending \ {i}) <= Cardinality(pending)
  <1>1. IsFiniteSet(pending)
    BY MapAssumption, FS_Subset DEF MapType
  <1>2. Cardinality(pending) \in Nat
    BY <1>1, FS_CardinalityType
  <1>3. Cardinality({}) = 0
    BY FS_EmptySet
  <1>4. ASSUME NEW i PROVE Cardinality(pending \cup {i}) <= Cardinality(pending) + 1
    <2>1. Cardinality(pending \cup {i}) =
            IF i \in pending THEN Cardinality(pending) ELSE Cardinality(pending) + 1
      BY <1>1, FS_AddElement, Zenon
    <2>2. QED
      BY <1>2, <2>1
  <1>5. ASSUME NEW i PROVE Cardinality(pending \ {i}) <= Cardinality(pending)
    BY <1>1, <1>2, FS_RemoveElement
  <1>6. QED
    BY <1>1, <1>2, <1>3, <1>4, <1>5

\* The invariant holds before the first call.
LEMMA MapStarts == MapInit => MapInv
  <1> SUFFICES ASSUME MapInit PROVE MapInv
    OBVIOUS
  <1>1. MapType
    BY DEF MapInit, MapType, Active, Over, Completed
  <1>2. Held
    <2>1. Cardinality(pending) = 0
      BY FS_EmptySet DEF MapInit
    <2>2. QED
      BY <2>1, MapAssumption DEF MapInit, Held, Unfinished
  <1>3. Accounted
    BY DEF MapInit, Accounted, Active
  <1>4. Recorded
    BY DEF MapInit, Recorded, Active
  <1>5. QED
    BY <1>1, <1>2, <1>3, <1>4 DEF MapInv

\* Giving up a call keeps the invariant, for a reason that is not the guard's.
LEMMA AbandonKeeps ==
  ASSUME MapInv, NEW reason, reason # "guard", Abandon(reason), caller \in Active,
         UNCHANGED <<given, unread, pending, done, failed, yielded>>
  PROVE  MapInv'
  <1> USE DEF MapInv
  <1>1. MapType'
    BY DEF MapType, Abandon, Active, Over
  <1>2. Held'
    BY DEF Held, Abandon, Unfinished, Active, Over, MapType
  <1>3. Accounted'
    BY DEF Accounted, Abandon, Active, MapType
  <1>4. Recorded'
    BY DEF Recorded, Abandon, Active, MapType, Completed
  <1>5. QED
    BY <1>1, <1>2, <1>3, <1>4

\* Every step of the caller's thread keeps it.
LEMMA CallerKeeps ==
  ASSUME MapInv, CallerStep, UNCHANGED signal
  PROVE  MapInv'
  <1> USE DEF MapInv
  <1>1. ASSUME NEW items \in SUBSET Items, Call(items) PROVE MapInv'
    <2>1. MapType'
      BY <1>1 DEF Call, MapType, Held, Accounted, Active, Over
    <2>2. Held' /\ Accounted' /\ Recorded'
      BY <1>1, PendingFinite DEF Call, MapType, Held, Accounted, Recorded, Active, Over, Unfinished, Reason, Ok
    <2>3. QED
      BY <2>1, <2>2
  <1>2. CASE Submit
    <2>1. PICK i \in unread :
            /\ unread' = unread \ {i} /\ pending' = pending \cup {i}
            /\ future' = [future EXCEPT ![i] = "queued"]
      BY <1>2 DEF Submit
    <2>2. MapType'
      <3>1. i \in Items /\ UNCHANGED <<caller, given, done, failed, stopped, yielded>>
        BY <1>2 DEF Submit, MapType
      <3>2. future' \in [Items -> Completed \cup {"none", "queued", "running", "failing", "cancelled"}]
        BY <2>1, <3>1 DEF MapType
      <3>3. QED
        BY <2>1, <3>1, <3>2 DEF MapType
    <2>3. Cardinality(pending') <= Workers
      <3>1. Cardinality(pending \cup {i}) <= Cardinality(pending) + 1 /\ Cardinality(pending) \in Nat
        BY PendingFinite
      <3>2. Cardinality(pending') <= Cardinality(pending) + 1
        BY <2>1, <3>1
      <3>3. Cardinality(pending') \in Nat
        <4>1. IsFiniteSet(pending \cup {i})
          BY PendingFinite, FS_AddElement, Zenon
        <4>2. QED
          BY <2>1, <4>1, FS_CardinalityType, Zenon
      <3>4. QED
        BY <1>2, <3>1, <3>2, <3>3, MapAssumption DEF Submit
    <2>4. Held'
      BY <1>2, <2>1, <2>3 DEF Submit, MapType, Held, Unfinished, Active, Over
    <2>5. Accounted'
      BY <1>2, <2>1 DEF Submit, MapType, Accounted, Active, Over
    <2>6. Recorded'
      BY <1>2, <2>1 DEF Submit, MapType, Recorded, Accounted, Active, Completed
    <2>7. QED
      BY <2>2, <2>4, <2>5, <2>6
  <1>3. CASE Wait
    BY <1>3 DEF Wait, MapType, Held, Accounted, Recorded, Active, Over, Unfinished
  <1>4. CASE Return
    BY <1>4 DEF Return, MapType, Held, Accounted, Recorded, Active, Over, Unfinished
  <1>5. CASE Wake
    <2>1. MapType' /\ Held' /\ Accounted'
      BY <1>5 DEF Wake, MapType, Held, Accounted, Active, Over, Unfinished
    <2>2. Recorded'
      BY <1>5 DEF Wake, MapType, Recorded, Active, Ok
    <2>3. QED
      BY <2>1, <2>2
  <1>6. CASE Raise
    <2>1. Reason # "guard" /\ caller \in Active
      BY <1>6 DEF Raise, Reason, Active
    <2>2. QED
      BY <1>6, <2>1, AbandonKeeps DEF Raise
  <1>7. CASE Drain
    BY <1>7, PendingFinite, MapAssumption
    DEF Drain, MapType, Held, Accounted, Recorded, Active, Over, Unfinished
  <1>8. CASE Leave
    BY <1>8, PendingFinite, MapAssumption
    DEF Leave, MapType, Held, Accounted, Recorded, Active, Over, Unfinished
  <1>9. ASSUME NEW i \in Items, Yield(i) PROVE MapInv'
    <2>1. MapType'
      BY <1>9 DEF Yield, MapType, Active
    <2>2. Held'
      <3>1. pending' = pending \ {i} /\ future' = future /\ future[i] = "value" /\ caller' \notin Over
        BY <1>9 DEF Yield, Over
      <3>2. Unfinished' \subseteq pending'
        BY <3>1 DEF Held, Unfinished
      <3>3. Cardinality(pending') <= Cardinality(pending) /\ Cardinality(pending) \in Nat
        BY <3>1, PendingFinite
      <3>4. Cardinality(pending') \in Nat
        <4>1. IsFiniteSet(pending \ {i})
          BY PendingFinite, FS_RemoveElement, Zenon
        <4>2. QED
          BY <3>1, <4>1, FS_CardinalityType, Zenon
      <3>5. Cardinality(pending') <= Workers
        BY <3>3, <3>4, MapAssumption DEF Held
      <3>6. QED
        BY <3>1, <3>2, <3>5 DEF Held
    <2>3. Accounted'
      BY <1>9 DEF Yield, MapType, Accounted, Active, Over
    <2>4. Recorded'
      BY <1>9 DEF Yield, MapType, Recorded, Active
    <2>5. QED
      BY <2>1, <2>2, <2>3, <2>4
  <1>10. ASSUME NEW i \in Items, YieldFails(i) PROVE MapInv'
    <2>1. future[i] \in {"value", "error", "refused"}
      BY <1>10 DEF YieldFails, Recorded, Completed
    <2>2. PICK reason : reason # "guard" /\ Abandon(reason)
      BY <1>10, <2>1 DEF YieldFails, Reason
    <2>3. QED
      BY <1>10, <2>2, AbandonKeeps DEF YieldFails, Active
  <1>11. QED
    BY <1>1, <1>2, <1>3, <1>4, <1>5, <1>6, <1>7, <1>8, <1>9, <1>10 DEF CallerStep

\* Every step of a thread of the pool keeps it.
LEMMA WorkerKeeps ==
  ASSUME MapInv, WorkerStep, UNCHANGED signal
  PROVE  MapInv'
  <1> USE DEF MapInv
  <1>1. PICK i \in Items : Begin(i) \/ Finish(i) \/ Fail(i) \/ FailEnds(i)
    BY DEF WorkerStep
  <1>2. i \in pending /\ future[i] \in {"queued", "running", "failing"} /\ caller \notin Over
    BY <1>1 DEF Begin, Finish, Fail, FailEnds, Held, Unfinished
  <1>3. i \notin done /\ i \notin yielded
    BY <1>2 DEF Recorded, Accounted, Completed
  <1>4. i \notin unread
    BY <1>2 DEF Accounted, Over
  <1>5. MapType'
    BY <1>1 DEF Begin, Finish, Fail, FailEnds, MapType, Completed
  <1>6. Held'
    BY <1>1, <1>2 DEF Begin, Finish, Fail, FailEnds, MapType, Held, Unfinished, Completed
  <1>7. Accounted'
    BY <1>1, <1>2, <1>3, <1>4 DEF Begin, Finish, Fail, FailEnds, MapType, Accounted
  <1>8. Recorded'
    <2>1. CASE Begin(i)
      BY <1>2, <1>3, <2>1 DEF Begin, MapType, Recorded, Active
    <2>2. CASE Finish(i)
      BY <1>3, <2>2 DEF Finish, MapType, Recorded, Active
    <2>3. CASE Fail(i)
      BY <1>3, <2>3 DEF Fail, MapType, Recorded, Active
    <2>4. CASE FailEnds(i)
      BY <1>3, <2>4 DEF FailEnds, MapType, Recorded, Active
    <2>5. QED
      BY <1>1, <2>1, <2>2, <2>3, <2>4
  <1>9. QED
    BY <1>5, <1>6, <1>7, <1>8

\* The invariant is inductive.
LEMMA MapInvariant == MapSpec => []MapInv
  <1>1. MapInv /\ [MapNext]_<<mapState, signal>> => MapInv'
    <2> SUFFICES ASSUME MapInv, [MapNext]_<<mapState, signal>> PROVE MapInv'
      OBVIOUS
    <2>1. CASE CallerStep /\ UNCHANGED signal
      BY <2>1, CallerKeeps
    <2>2. CASE WorkerStep /\ UNCHANGED signal
      BY <2>2, WorkerKeeps
    <2>3. CASE UNCHANGED mapState
      BY <2>3 DEF mapState, MapInv, MapType, Held, Accounted, Recorded, Unfinished
    <2>4. QED
      BY <2>1, <2>2, <2>3 DEF MapNext, SignalStep
  <1>2. QED
    BY <1>1, MapStarts, PTL DEF MapSpec

\* No thread of bounded_map's pool is at work once the call is over.
THEOREM NoWorkOutlives == MapSpec => []NoWorkOutlivesCall
  <1>1. MapInv => NoWorkOutlivesCall
    BY DEF MapInv, Held, NoWorkOutlivesCall, Over
  <1>2. QED
    BY <1>1, MapInvariant, PTL

\* A call of bounded_map that returns has yielded a value for every item.
THEOREM ResultsWhole == MapSpec => []ResultsAreWhole
  <1>1. MapInv => ResultsAreWhole
    BY DEF MapInv, Held, Accounted, ResultsAreWhole, Over
  <1>2. QED
    BY <1>1, MapInvariant, PTL

\* bounded_map raises the first failure or the cancellation, never what follows from it.
THEOREM FirstFailure == MapSpec => []FirstFailureIsReported
  <1>1. MapInv => FirstFailureIsReported
    BY DEF MapInv, Recorded, FirstFailureIsReported
  <1>2. QED
    BY <1>1, MapInvariant, PTL

\* bounded_map never holds more than its worker count, and every thread at work is held.
THEOREM PoolBounded == MapSpec => []PoolIsBounded
  <1>1. MapInv => PoolIsBounded
    BY DEF MapInv, Held, PoolIsBounded
  <1>2. QED
    BY <1>1, MapInvariant, PTL
===============================================================================
