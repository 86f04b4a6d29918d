------------------------- MODULE CapturePipelineProofs -------------------------
(***************************************************************************)
(* Nothing is lost between DNS and capture, for any number of hostnames    *)
(* and probe threads and any capacity of the queue between them.           *)
(***************************************************************************)
EXTENDS CapturePipeline, FiniteSetTheorems, TLAPS

(* The inductive invariant.                                                *)

ProducerSet == [pc : {"unborn", "pull", "announce", "http", "https", "error", "sentinels", "gone"},
                domain : Domains \cup {NoOne}, seen : SUBSET Domains, left : Nat]
WorkerSet   == [pc : {"unborn", "get", "probe", "put", "error", "last", "gone"},
                url : Endpoints \cup {NoTask}]

\* The hostnames whose announcement was read or waits to be.
Announced == listed \cup {d \in Domains : \E i \in DOMAIN output : output[i] = Event("domain", d)}

\* DNS has ended and what was deferred was put.
AllPut == scan \in {"waiting", "closing", "joining", "closed"}

\* The scan thread and the capture thread know of each other.
ScanInv ==
  /\ scan = "dns" => final = Domains
  /\ scan = "ending" => final \subseteq submitted \/ done
  /\ abort => outcome # "none"
  /\ outcome = "none" <=> scan \in {"dns", "deferring", "ending", "waiting"}
  /\ outcome = "results" => coord = "returned"
  /\ done <=> coord = "returned"
  /\ stopped <=> coord \in {"joining", "returned"}
  /\ ending = "none" <=> coord \in {"starting", "reading"}
  /\ scan = "closed" => coord = "returned"

\* The capture threads have done nothing before they are started.
StartInv == coord = "starting" =>
  /\ producer.pc = "unborn" /\ producer.seen = {} /\ \A w \in Workers : worker[w].pc = "unborn"
  /\ tasks = <<>> /\ output = <<>>

\* The overlap queue holds what was submitted, once, and the end marker after all else.
OverlapInv ==
  /\ Len(overlap) <= Capacity
  /\ \A i, j \in DOMAIN overlap : overlap[i] = overlap[j] => i = j
  /\ \A i \in DOMAIN overlap :
       /\ overlap[i] \in submitted \cup {EndMark}
       /\ overlap[i] = EndMark => i = Len(overlap) /\ AllPut /\ final \subseteq submitted
  /\ \A d \in submitted : InQueue(overlap, d) \/ d \in producer.seen \/ d \notin final

\* An endpoint is on its way only behind its hostname's announcement.
TasksInv ==
  /\ Len(tasks) <= Bound
  /\ \A i \in DOMAIN tasks : tasks[i] # NoTask => tasks[i][1] \in Announced
  /\ \A w \in Workers : worker[w].pc \in {"probe", "put"} =>
       worker[w].url \in Endpoints /\ worker[w].url[1] \in Announced
  /\ producer.pc \in {"announce", "http", "https"} => producer.domain \in Domains
  /\ producer.pc \in {"http", "https"} => producer.domain \in Announced

\* So is the result in the coordinator's queue.
Listed(i) ==
  \/ output[i].value[1] \in listed
  \/ \E j \in DOMAIN output : j < i /\ output[j] = Event("domain", output[i].value[1])
OutputInv ==
  /\ Len(output) <= Bound
  /\ \A i \in DOMAIN output :
       /\ output[i].kind = "domain" => output[i].value \in Domains
       /\ output[i].kind = "result" => output[i].value \in Endpoints /\ Listed(i)
  /\ \A u \in checked : u[1] \in listed

\* Every probe thread announces its end at most once.
FinishedAt == {i \in DOMAIN output : output[i].kind = "finished"}
Here       == {w \in Workers : worker[w].pc # "gone"}
CountInv   == finished + Cardinality(FinishedAt) + Cardinality(Here) <= Cardinality(Workers)

\* While the coordinator reads and nobody stopped the scan ...
Live == coord = "reading" /\ ~Halt

\* ... and no thread has failed ...
ErrorIn == \E i \in DOMAIN output : output[i].kind = "error"
Failing == producer.pc = "error" \/ (\E w \in Workers : worker[w].pc = "error") \/ ErrorIn

Done(d, k) ==
  \/ <<d, k>> \in checked
  \/ \E i \in DOMAIN output : output[i] = Event("result", <<d, k>>)
  \/ \E w \in Workers : worker[w].pc \in {"probe", "put"} /\ worker[w].url = <<d, k>>
  \/ InQueue(tasks, <<d, k>>)
  \/ producer.domain = d /\ producer.pc \in {"announce", "http"}
  \/ producer.domain = d /\ producer.pc = "https" /\ k = 2

\* ... every hostname taken is announced and its endpoints are on their way, the
\* producer only ends behind the end marker, and the last event is that of a probe
\* thread that finished.
SoundInv ==
  /\ producer.pc \in {"sentinels", "gone"} => overlap = <<>> /\ AllPut /\ final \subseteq submitted
  /\ \A d \in producer.seen : d \in Announced \/ (producer.domain = d /\ producer.pc = "announce")
  /\ \A d \in producer.seen, k \in {1, 2} : Done(d, k)
  /\ Here = {} => \A i \in DOMAIN output : \E j \in FinishedAt : i <= j

\* A probe thread ends only behind an error, or behind the producer and with nothing
\* left to probe, and an error is read before the last of them has finished.
LiveInv ==
  /\ producer.pc # "unborn" /\ \A w \in Workers : worker[w].pc # "unborn"
  /\ \A i \in DOMAIN tasks : tasks[i] = NoTask => producer.pc \in {"sentinels", "gone"}
  /\ \A i, j \in DOMAIN tasks : tasks[i] = NoTask /\ i < j => tasks[j] = NoTask
  /\ \A w \in Workers : worker[w].pc \in {"last", "gone"} =>
       ErrorIn \/ (producer.pc \in {"sentinels", "gone"} /\ \A i \in DOMAIN tasks : tasks[i] = NoTask)
  /\ Here = {} /\ ErrorIn => \E i \in DOMAIN output, j \in FinishedAt : i < j /\ output[i].kind = "error"
  /\ ~Failing => SoundInv

\* What capture brought once it has drained, if the scan takes it.
DrainedInv ==
  ending = "drained" /\ outcome # "raised" /\ (outcome = "results" \/ ~Halt) =>
    /\ AllPut
    /\ \A d \in final : d \in listed /\ <<d, 1>> \in checked /\ <<d, 2>> \in checked

IInv == /\ TypeOK /\ ScanInv /\ StartInv /\ OverlapInv /\ TasksInv /\ OutputInv /\ CountInv
        /\ (Live => LiveInv) /\ DrainedInv

-------------------------------------------------------------------------------
(* Lemmas about queues.                                                    *)

\* What a put does.
LEMMA AppendFacts ==
  ASSUME NEW S, NEW q \in Seq(S), NEW x \in S, NEW r, r = Append(q, x)
  PROVE  /\ r \in Seq(S) /\ Len(r) = Len(q) + 1 /\ Len(r) \in DOMAIN r /\ r[Len(r)] = x
         /\ \A i \in DOMAIN q : i \in DOMAIN r /\ r[i] = q[i] /\ i < Len(r) /\ i \in Nat
         /\ \A i \in DOMAIN r : i \in DOMAIN q \/ i = Len(r)
  OBVIOUS

\* What a get does.
LEMMA TailFacts ==
  ASSUME NEW S, NEW q \in Seq(S), q # <<>>, NEW r, r = Tail(q)
  PROVE  /\ r \in Seq(S) /\ Len(r) = Len(q) - 1 /\ Len(r) \in Nat
         /\ 1 \in DOMAIN q /\ Head(q) = q[1] /\ q[1] \in S
         /\ \A i \in DOMAIN r : i \in Nat /\ i + 1 \in DOMAIN q /\ r[i] = q[i + 1]
         /\ \A i \in DOMAIN q : i \in Nat /\ (i # 1 => i - 1 \in DOMAIN r /\ r[i - 1] = q[i])
  OBVIOUS

LEMMA EmptySeq ==
  ASSUME NEW S, NEW q \in Seq(S), Len(q) = 0
  PROVE  q = <<>>
  OBVIOUS

\* The bounds are numbers.
LEMMA Sizes == Cardinality(Workers) \in Nat /\ Bound \in Nat /\ Cardinality(Workers) > 0
  <1>1. Cardinality(Workers) \in Nat
    BY PipelineAssumption, FS_CardinalityType
  <1>2. Cardinality(Workers) # 0
    BY PipelineAssumption, FS_EmptySet
  <1>3. QED
    BY <1>1, <1>2 DEF Bound

LEMMA InitInv == Init => IInv
  <1> SUFFICES ASSUME Init PROVE IInv
    OBVIOUS
  <1>1. TypeOK
    <2>1. producer \in ProducerSet
      BY DEF Init, ProducerSet
    <2>2. worker \in [Workers -> WorkerSet]
      BY DEF Init, WorkerSet
    <2>3. /\ overlap \in Seq(Domains \cup {EndMark})
          /\ tasks \in Seq(Endpoints \cup {NoTask}) /\ output \in Seq(EventSet)
      BY DEF Init
    <2>4. /\ scan = "dns" /\ outcome = "none" /\ coord = "starting" /\ ending = "none" /\ finished = 0
          /\ emitted = {} /\ submitted = {} /\ final = Domains /\ listed = {} /\ checked = {}
          /\ cancelled = FALSE /\ abort = FALSE /\ done = FALSE /\ stopped = FALSE
      BY DEF Init
    <2>5. QED
      BY <2>1, <2>2, <2>3, <2>4 DEF TypeOK, ProducerSet, WorkerSet
  <1>2. ScanInv /\ StartInv /\ DrainedInv
    BY DEF Init, ScanInv, StartInv, DrainedInv
  <1>3. OverlapInv
    BY PipelineAssumption DEF Init, OverlapInv
  <1>4. TasksInv /\ OutputInv
    BY Sizes DEF Init, TasksInv, OutputInv
  <1>5. CountInv
    <2>1. Cardinality(FinishedAt) = 0
      BY FS_EmptySet DEF Init, FinishedAt
    <2>2. Here = Workers
      BY DEF Init, Here
    <2>3. QED
      BY <2>1, <2>2, Sizes DEF Init, CountInv
  <1>6. ~Live
    BY DEF Init, Live
  <1>7. QED
    BY <1>1, <1>2, <1>3, <1>4, <1>5, <1>6 DEF IInv
-------------------------------------------------------------------------------
(* The scan thread, and the user.                                          *)

\* Its types need no more than those of what the scan thread and the user change.
LEMMA ScanTypes ==
  ASSUME TypeOK, UNCHANGED <<captureVars, threadVars, tasks, output>>,
         scan' \in {"dns", "deferring", "ending", "waiting", "closing", "joining", "closed"},
         outcome' \in {"none", "results", "raised"},
         emitted' \in SUBSET Domains, submitted' \in SUBSET Domains, final' \in SUBSET Domains,
         overlap' \in Seq(Domains \cup {EndMark}), cancelled' \in BOOLEAN, abort' \in BOOLEAN
  PROVE  TypeOK'
  <1>1. /\ coord' = coord /\ ending' = ending /\ done' = done /\ stopped' = stopped
        /\ finished' = finished /\ listed' = listed /\ checked' = checked
        /\ producer' = producer /\ worker' = worker /\ tasks' = tasks /\ output' = output
    BY DEF captureVars, threadVars
  <1>2. producer' \in ProducerSet
    BY <1>1 DEF TypeOK, ProducerSet
  <1>3. worker' \in [Workers -> WorkerSet]
    BY <1>1 DEF TypeOK, WorkerSet
  <1>4. tasks' \in Seq(Endpoints \cup {NoTask}) /\ output' \in Seq(EventSet)
    BY <1>1 DEF TypeOK
  <1>5. /\ done' \in BOOLEAN /\ stopped' \in BOOLEAN
        /\ coord' \in {"starting", "reading", "stopping", "joining", "returned"}
        /\ ending' \in {"none", "drained", "gave up", "raised"}
        /\ finished' \in Nat /\ listed' \in SUBSET Domains /\ checked' \in SUBSET Endpoints
    BY <1>1 DEF TypeOK
  <1>6. QED
    BY <1>2, <1>3, <1>4, <1>5 DEF TypeOK, ProducerSet, WorkerSet

\* A step of the scan thread, or a stop, leaves what the capture threads hold alone.
LEMMA ScanFrame ==
  ASSUME IInv, TypeOK', ScanInv', OverlapInv',
         UNCHANGED <<captureVars, threadVars, tasks, output>>,
         Halt => Halt',
         AllPut => AllPut' /\ UNCHANGED <<overlap, final, submitted>>,
         \/ outcome' = outcome \/ outcome' = "raised"
         \/ outcome = "none" /\ outcome' = "results" /\ ~cancelled
  PROVE  IInv'
  <1> USE DEF captureVars, threadVars
  <1>1. StartInv' /\ TasksInv' /\ OutputInv' /\ CountInv'
    BY DEF IInv, StartInv, TasksInv, Announced, OutputInv, Listed, CountInv, FinishedAt, Here
  <1>2. Live' => LiveInv'
    <2>1. Live' => Live
      BY DEF Live
    <2>2. SoundInv => SoundInv'
      <3>1. /\ producer' = producer /\ worker' = worker /\ tasks' = tasks /\ output' = output
            /\ listed' = listed /\ checked' = checked
        OBVIOUS
      <3>2. Here' = Here /\ FinishedAt' = FinishedAt
        BY <3>1 DEF Here, FinishedAt
      <3>3. Announced' = Announced
        BY <3>1 DEF Announced
      <3>4. \A d, k : Done(d, k) => Done(d, k)'
        BY <3>1 DEF Done, InQueue
      <3>5. SUFFICES ASSUME SoundInv PROVE SoundInv'
        OBVIOUS
      <3>6. producer'.pc \in {"sentinels", "gone"} => overlap' = <<>> /\ AllPut' /\ final' \subseteq submitted'
        BY <3>1, <3>5 DEF SoundInv
      <3>7. \A d \in producer'.seen : d \in Announced' \/ (producer'.domain = d /\ producer'.pc = "announce")
        BY <3>1, <3>3, <3>5 DEF SoundInv
      <3>8. \A d \in producer'.seen, k \in {1, 2} : Done(d, k)'
        BY <3>1, <3>4, <3>5 DEF SoundInv
      <3>9. Here' = {} => \A i \in DOMAIN output' : \E j \in FinishedAt' : i <= j
        BY <3>1, <3>2, <3>5 DEF SoundInv
      <3>10. QED
        BY <3>6, <3>7, <3>8, <3>9 DEF SoundInv
    <2>3. LiveInv => LiveInv'
      BY <2>2 DEF LiveInv, ErrorIn, Failing, Here, FinishedAt
    <2>4. QED
      BY <2>1, <2>3 DEF IInv
  <1>3. DrainedInv'
    BY DEF IInv, DrainedInv, ScanInv, Halt
  <1>4. QED
    BY <1>1, <1>2, <1>3 DEF IInv

\* A hostname, or the end marker, is put on the overlap queue.
LEMMA OverlapPut ==
  ASSUME IInv, NEW x \in Domains \cup {EndMark}, overlap' = Append(overlap, x),
         Room(overlap, Capacity), UNCHANGED <<final, producer>>, ~AllPut,
         \/ x \in Domains /\ x \notin submitted /\ submitted' = submitted \cup {x}
         \/ x = EndMark /\ UNCHANGED submitted /\ AllPut' /\ final \subseteq submitted
  PROVE  OverlapInv' /\ overlap' \in Seq(Domains \cup {EndMark})
  <1>1. overlap \in Seq(Domains \cup {EndMark})
    BY DEF IInv, TypeOK
  <1>2. /\ overlap' \in Seq(Domains \cup {EndMark}) /\ Len(overlap') = Len(overlap) + 1
        /\ Len(overlap') \in DOMAIN overlap' /\ overlap'[Len(overlap')] = x
        /\ \A i \in DOMAIN overlap : i \in DOMAIN overlap' /\ overlap'[i] = overlap[i]
                                     /\ i < Len(overlap') /\ i \in Nat
        /\ \A i \in DOMAIN overlap' : i \in DOMAIN overlap \/ i = Len(overlap')
    BY <1>1, AppendFacts
  <1>3. \A i \in DOMAIN overlap : overlap[i] # EndMark /\ overlap[i] \in submitted /\ overlap[i] # x
    BY PipelineAssumption DEF IInv, OverlapInv
  <1>4. Len(overlap') <= Capacity
    BY <1>1, <1>2, PipelineAssumption DEF Room
  <1>5. \A i, j \in DOMAIN overlap' : overlap'[i] = overlap'[j] => i = j
    BY <1>2, <1>3 DEF IInv, OverlapInv
  <1>6. \A i \in DOMAIN overlap' :
          /\ overlap'[i] \in submitted' \cup {EndMark}
          /\ overlap'[i] = EndMark => i = Len(overlap') /\ AllPut' /\ final' \subseteq submitted'
    BY <1>2, <1>3, PipelineAssumption
  <1>7. \A d \in submitted' : InQueue(overlap', d) \/ d \in producer'.seen \/ d \notin final'
    BY <1>2 DEF IInv, OverlapInv, InQueue
  <1>8. QED
    BY <1>2, <1>4, <1>5, <1>6, <1>7 DEF OverlapInv, InQueue

LEMMA OfferStep ==
  ASSUME IInv, NEW d \in Domains, Offer(d)
  PROVE  IInv'
  <1> DEFINE taken == d \notin submitted /\ ~done /\ ~cancelled /\ Room(overlap, Capacity)
  <1>1. /\ scan = "dns" /\ emitted' = emitted \cup {d}
        /\ submitted' = IF taken THEN submitted \cup {d} ELSE submitted
        /\ overlap' = IF taken THEN Append(overlap, d) ELSE overlap
        /\ UNCHANGED <<scan, outcome, final, abort, cancelled, captureVars, threadVars, tasks, output>>
    BY DEF Offer, Others
  <1>2. OverlapInv' /\ overlap' \in Seq(Domains \cup {EndMark})
    <2>1. CASE taken
      BY <1>1, <2>1, OverlapPut DEF AllPut, threadVars
    <2>2. CASE ~taken
      BY <1>1, <2>2 DEF IInv, TypeOK, OverlapInv, AllPut, InQueue, threadVars
    <2>3. QED
      BY <2>1, <2>2
  <1> HIDE DEF taken
  <1>3. TypeOK'
    <2>1. /\ scan' = scan /\ outcome' = outcome /\ final' = final /\ abort' = abort /\ cancelled' = cancelled
          /\ emitted' \subseteq Domains /\ submitted' \subseteq Domains
      BY <1>1 DEF IInv, TypeOK
    <2>2. QED
      BY <1>1, <1>2, <2>1, ScanTypes DEF IInv, TypeOK
  <1>4. ScanInv'
    BY <1>1 DEF IInv, ScanInv, captureVars, threadVars
  <1>5. QED
    BY <1>1, <1>2, <1>3, <1>4, ScanFrame DEF AllPut, Halt

LEMMA ScanThreadStep ==
  ASSUME IInv, ScanThread
  PROVE  IInv'
  <1>1. ASSUME NEW d \in Domains, PutDeferred(d) PROVE IInv'
    <2>1. /\ scan = "deferring" /\ d \notin submitted
          /\ UNCHANGED <<outcome, emitted, final, abort, cancelled, captureVars, threadVars, tasks, output>>
      BY <1>1 DEF PutDeferred, Deferred, Others
    <2>2. CASE done /\ scan' = "ending" /\ UNCHANGED <<overlap, submitted>>
      <3>1. OverlapInv'
        BY <2>1, <2>2 DEF IInv, TypeOK, OverlapInv, AllPut, InQueue, threadVars
      <3>2. TypeOK'
        BY <2>1, <2>2, ScanTypes DEF IInv, TypeOK
      <3>3. ScanInv'
        BY <2>1, <2>2 DEF IInv, ScanInv, captureVars, threadVars
      <3>4. QED
        BY <2>1, <2>2, <3>1, <3>2, <3>3, ScanFrame DEF AllPut, Halt
    <2>3. CASE /\ Room(overlap, Capacity) /\ overlap' = Append(overlap, d)
               /\ submitted' = submitted \cup {d} /\ UNCHANGED scan
      <3>1. OverlapInv' /\ overlap' \in Seq(Domains \cup {EndMark})
        BY <2>1, <2>3, OverlapPut DEF AllPut, threadVars
      <3>2. TypeOK'
        <4>1. submitted' \subseteq Domains
          BY <2>3 DEF IInv, TypeOK
        <4>2. QED
          BY <2>1, <2>3, <3>1, <4>1, ScanTypes DEF IInv, TypeOK
      <3>3. ScanInv'
        BY <2>1, <2>3 DEF IInv, ScanInv, captureVars, threadVars
      <3>4. QED
        BY <2>1, <2>3, <3>1, <3>2, <3>3, ScanFrame DEF AllPut, Halt
    <2>4. QED
      BY <1>1, <2>2, <2>3 DEF PutDeferred
  <1>2. CASE PutEnd
    <2>1. /\ scan = "ending" /\ scan' = "waiting"
          /\ \/ done /\ UNCHANGED overlap
             \/ ~done /\ Room(overlap, Capacity) /\ overlap' = Append(overlap, EndMark)
          /\ UNCHANGED <<outcome, emitted, submitted, final, abort, cancelled, captureVars, threadVars, tasks, output>>
      BY <1>2 DEF PutEnd, Others
    <2>2. OverlapInv' /\ overlap' \in Seq(Domains \cup {EndMark})
      <3>1. CASE UNCHANGED overlap
        BY <2>1, <3>1 DEF IInv, TypeOK, OverlapInv, AllPut, InQueue, threadVars
      <3>2. CASE ~UNCHANGED overlap
        <4>1. final \subseteq submitted
          BY <2>1, <3>2 DEF IInv, ScanInv
        <4>2. QED
          BY <2>1, <3>2, <4>1, OverlapPut DEF AllPut, threadVars
      <3>3. QED
        BY <3>1, <3>2
    <2>3. TypeOK'
      BY <2>1, <2>2, ScanTypes DEF IInv, TypeOK
    <2>4. ScanInv'
      BY <2>1 DEF IInv, ScanInv, captureVars, threadVars
    <2>5. QED
      BY <2>1, <2>2, <2>3, <2>4, ScanFrame DEF AllPut, Halt
  <1>3. CASE DnsEnds
    <2>1. /\ scan = "dns" /\ final' \in SUBSET Domains /\ scan' = "deferring"
          /\ UNCHANGED <<outcome, emitted, submitted, overlap, abort, cancelled, captureVars, threadVars, tasks, output>>
      BY <1>3 DEF DnsEnds, Others
    <2>2. OverlapInv'
      <3>1. /\ overlap' = overlap /\ submitted' = submitted /\ producer' = producer
            /\ \A d \in submitted : d \in final
        BY <2>1 DEF IInv, TypeOK, ScanInv, threadVars
      <3>2. \A i \in DOMAIN overlap : overlap[i] # EndMark
        BY <2>1 DEF IInv, OverlapInv, AllPut
      <3>3. QED
        BY <3>1, <3>2 DEF IInv, OverlapInv, InQueue
    <2>3. TypeOK'
      BY <2>1, ScanTypes DEF IInv, TypeOK
    <2>4. ScanInv'
      BY <2>1 DEF IInv, ScanInv, captureVars, threadVars
    <2>5. QED
      BY <2>1, <2>2, <2>3, <2>4, ScanFrame DEF AllPut, Halt
  <1>4. CASE DnsFails \/ AllDeferred \/ FinishStops \/ Reconcile \/ CloseAborts \/ Restore
    <2>1. /\ UNCHANGED <<emitted, submitted, final, overlap, cancelled, captureVars, threadVars, tasks, output>>
          /\ AllPut => AllPut'
          /\ abort' \in {abort, TRUE}
      BY <1>4 DEF DnsFails, AllDeferred, FinishStops, Reconcile, CloseAborts, Restore, Others, AllPut
    <2>2. \/ outcome' = outcome \/ outcome' = "raised"
          \/ outcome = "none" /\ outcome' = "results" /\ ~cancelled
      BY <1>4 DEF DnsFails, AllDeferred, FinishStops, Reconcile, CloseAborts, Restore, IInv, ScanInv
    <2>3. TypeOK'
      <3>1. scan' \in {"dns", "deferring", "ending", "waiting", "closing", "joining", "closed"}
        BY <1>4 DEF DnsFails, AllDeferred, FinishStops, Reconcile, CloseAborts, Restore
      <3>2. QED
        BY <2>1, <2>2, <3>1, ScanTypes DEF IInv, TypeOK
    <2>4. ScanInv'
      BY <1>4, <2>1 DEF DnsFails, AllDeferred, FinishStops, Reconcile, CloseAborts, Restore, Deferred,
                        IInv, TypeOK, ScanInv, captureVars, threadVars
    <2>5. OverlapInv'
      BY <2>1 DEF IInv, OverlapInv, InQueue, threadVars
    <2>6. /\ Halt => Halt'
          /\ UNCHANGED <<overlap, final, submitted>>
          /\ UNCHANGED <<captureVars, threadVars, tasks, output>>
      <3>1. abort => abort'
        BY <2>1, Zenon
      <3>2. QED
        BY <2>1, <3>1 DEF Halt
    <2>7. QED
      BY <2>1, <2>2, <2>3, <2>4, <2>5, <2>6, ScanFrame
  <1>5. QED
    BY <1>1, <1>2, <1>3, <1>4 DEF ScanThread

LEMMA CancelStep ==
  ASSUME IInv, Cancel
  PROVE  IInv'
  <1>1. cancelled' = TRUE /\ UNCHANGED <<scanVars, overlap, abort, captureVars, threadVars, tasks, output>>
    BY DEF Cancel
  <1>2. TypeOK' /\ ScanInv'
    <2>1. TypeOK'
      BY <1>1, ScanTypes DEF IInv, TypeOK, scanVars
    <2>2. ScanInv'
      BY <1>1 DEF IInv, ScanInv, scanVars, captureVars
    <2>3. QED
      BY <2>1, <2>2
  <1>3. OverlapInv'
    BY <1>1 DEF IInv, OverlapInv, InQueue, AllPut, scanVars, threadVars
  <1>4. QED
    BY <1>1, <1>2, <1>3, ScanFrame DEF Halt, AllPut, scanVars

-------------------------------------------------------------------------------
(* What a step of the capture threads needs to show.                       *)

\* The scan thread and the coordinator leave off where they were.
LEMMA ThreadFrame ==
  ASSUME IInv, UNCHANGED <<scanVars, cancelled, abort, captureVars>>, coord # "starting",
         TypeOK', OverlapInv', TasksInv', OutputInv', CountInv', Live => LiveInv'
  PROVE  IInv'
  <1>1. /\ scan' = scan /\ outcome' = outcome /\ final' = final /\ submitted' = submitted
        /\ cancelled' = cancelled /\ abort' = abort /\ coord' = coord /\ ending' = ending
        /\ done' = done /\ stopped' = stopped /\ listed' = listed /\ checked' = checked
    BY DEF scanVars, captureVars
  <1>2. ScanInv' /\ DrainedInv'
    BY <1>1 DEF IInv, ScanInv, DrainedInv, Halt, AllPut
  <1>3. StartInv'
    BY <1>1 DEF StartInv
  <1>4. Live' => Live
    BY <1>1 DEF Live, Halt
  <1>5. QED
    BY <1>2, <1>3, <1>4 DEF IInv

LEMMA ThreadTypes ==
  ASSUME TypeOK, UNCHANGED <<scanVars, cancelled, abort, captureVars>>,
         overlap' \in Seq(Domains \cup {EndMark}),
         producer' \in ProducerSet,
         worker' \in [Workers -> WorkerSet],
         tasks' \in Seq(Endpoints \cup {NoTask}), output' \in Seq(EventSet)
  PROVE  TypeOK'
  <1>1. /\ scan' = scan /\ outcome' = outcome /\ emitted' = emitted /\ final' = final
        /\ submitted' = submitted /\ cancelled' = cancelled /\ abort' = abort /\ coord' = coord
        /\ ending' = ending /\ done' = done /\ stopped' = stopped /\ finished' = finished
        /\ listed' = listed /\ checked' = checked
    BY DEF scanVars, captureVars
  <1>2. /\ scan' \in {"dns", "deferring", "ending", "waiting", "closing", "joining", "closed"}
        /\ outcome' \in {"none", "results", "raised"}
        /\ emitted' \in SUBSET Domains /\ submitted' \in SUBSET Domains /\ final' \in SUBSET Domains
        /\ cancelled' \in BOOLEAN /\ abort' \in BOOLEAN /\ done' \in BOOLEAN /\ stopped' \in BOOLEAN
    BY <1>1 DEF TypeOK
  <1>3. /\ coord' \in {"starting", "reading", "stopping", "joining", "returned"}
        /\ ending' \in {"none", "drained", "gave up", "raised"}
        /\ finished' \in Nat /\ listed' \in SUBSET Domains /\ checked' \in SUBSET Endpoints
    BY <1>1 DEF TypeOK
  <1>4. QED
    BY <1>2, <1>3 DEF TypeOK, ProducerSet, WorkerSet

\* While the coordinator reads and nobody stopped the scan, no put gives up.
LEMMA LivePuts == IInv /\ Live => ~GivesUp
  BY DEF IInv, ScanInv, Live, GivesUp

\* An event of the queue stays in it, behind it comes what is put.
LEMMA OutputPut ==
  ASSUME IInv, NEW e \in EventSet, Room(output, Bound), output' = Append(output, e),
         UNCHANGED <<listed, checked>>,
         e.kind = "domain" => e.value \in Domains,
         e.kind = "result" => e.value \in Endpoints /\ e.value[1] \in Announced
  PROVE  /\ OutputInv' /\ output' \in Seq(EventSet)
         /\ Announced \subseteq Announced' /\ (e.kind = "domain" => e.value \in Announced')
         /\ Len(output') \in DOMAIN output' /\ output'[Len(output')] = e
         /\ \A i \in DOMAIN output : i \in DOMAIN output' /\ output'[i] = output[i] /\ i < Len(output')
         /\ \A i \in DOMAIN output' : i \in DOMAIN output \/ i = Len(output')
         /\ e.kind = "finished" => FinishedAt' = FinishedAt \cup {Len(output')} /\ Len(output') \notin FinishedAt
         /\ e.kind # "finished" => FinishedAt' = FinishedAt
         /\ ErrorIn' <=> ErrorIn \/ e.kind = "error"
  <1>1. output \in Seq(EventSet) /\ Len(output) \in Nat
    <2>1. output \in Seq(EventSet)
      BY DEF IInv, TypeOK
    <2>2. QED
      BY <2>1
  <1>2. /\ output' \in Seq(EventSet) /\ Len(output') = Len(output) + 1
        /\ Len(output') \in DOMAIN output' /\ output'[Len(output')] = e
        /\ \A i \in DOMAIN output : i \in DOMAIN output' /\ output'[i] = output[i]
                                    /\ i < Len(output') /\ i \in Nat
        /\ \A i \in DOMAIN output' : i \in DOMAIN output \/ i = Len(output')
    BY <1>1, AppendFacts
  <1>3. Announced \subseteq Announced'
    BY <1>2 DEF Announced
  <1>4. e.kind = "domain" => e.value \in Announced'
    <2>1. SUFFICES ASSUME e.kind = "domain" PROVE e.value \in Announced'
      OBVIOUS
    <2>2. e = Event("domain", e.value)
      BY <2>1 DEF EventSet, Event
    <2>3. QED
      BY <1>2, <2>1, <2>2 DEF Announced
  <1>5. Len(output') <= Bound
    BY <1>1, <1>2, Sizes DEF Room
  <1>6. \A i \in DOMAIN output' :
          /\ output'[i].kind = "domain" => output'[i].value \in Domains
          /\ output'[i].kind = "result" => output'[i].value \in Endpoints /\ Listed(i)'
    <2>1. TAKE i \in DOMAIN output'
    <2>2. CASE i \in DOMAIN output
      <3>1. output'[i] = output[i]
        BY <1>2, <2>2
      <3>2. /\ output[i].kind = "domain" => output[i].value \in Domains
            /\ output[i].kind = "result" => output[i].value \in Endpoints /\ Listed(i)
        BY <2>2 DEF IInv, OutputInv
      <3>3. Listed(i) => Listed(i)'
        BY <1>2, <3>1 DEF Listed
      <3>4. QED
        BY <3>1, <3>2, <3>3
    <2>3. CASE i = Len(output')
      <3>1. output'[i] = e
        BY <1>2, <2>3
      <3>2. e.kind = "result" => Listed(i)'
        BY <1>2, <2>3 DEF Listed, Announced
      <3>3. QED
        BY <3>1, <3>2
    <2>4. QED
      BY <1>2, <2>2, <2>3
  <1>7. OutputInv'
    BY <1>5, <1>6 DEF IInv, OutputInv
  <1>8. e.kind = "finished" => FinishedAt' = FinishedAt \cup {Len(output')} /\ Len(output') \notin FinishedAt
    BY <1>1, <1>2 DEF FinishedAt
  <1>9. e.kind # "finished" => FinishedAt' = FinishedAt
    BY <1>1, <1>2 DEF FinishedAt
  <1>10. ErrorIn' <=> ErrorIn \/ e.kind = "error"
    BY <1>2 DEF ErrorIn
  <1>11. QED
    BY <1>2, <1>3, <1>4, <1>7, <1>8, <1>9, <1>10

\* The ends that wait to be read and the threads that have not ended can be counted.
LEMMA Counts ==
  ASSUME IInv
  PROVE  /\ IsFiniteSet(FinishedAt) /\ Cardinality(FinishedAt) \in Nat
         /\ IsFiniteSet(Here) /\ Cardinality(Here) \in Nat
  <1>1. FinishedAt \subseteq 1..Len(output) /\ Len(output) \in Nat
    <2>1. output \in Seq(EventSet)
      BY DEF IInv, TypeOK
    <2>2. QED
      BY <2>1 DEF FinishedAt
  <1>2. IsFiniteSet(FinishedAt)
    <2>1. IsFiniteSet(1..Len(output))
      BY <1>1, FS_Interval
    <2>2. QED
      BY <1>1, <2>1, FS_Subset
  <1>3. IsFiniteSet(Here)
    BY PipelineAssumption, FS_Subset DEF Here
  <1>4. QED
    BY <1>2, <1>3, FS_CardinalityType

LEMMA ThreadFacts ==
  ASSUME IInv
  PROVE  /\ overlap \in Seq(Domains \cup {EndMark}) /\ producer \in ProducerSet
         /\ worker \in [Workers -> WorkerSet]
         /\ tasks \in Seq(Endpoints \cup {NoTask}) /\ output \in Seq(EventSet)
         /\ (producer.pc # "unborn" => coord # "starting")
         /\ \A w \in Workers : worker[w].pc # "unborn" => coord # "starting"
  <1>1. /\ overlap \in Seq(Domains \cup {EndMark}) /\ producer \in ProducerSet
        /\ worker \in [Workers -> WorkerSet]
        /\ tasks \in Seq(Endpoints \cup {NoTask}) /\ output \in Seq(EventSet)
    BY DEF IInv, TypeOK, ProducerSet, WorkerSet
  <1>2. /\ (producer.pc # "unborn" => coord # "starting")
        /\ \A w \in Workers : worker[w].pc # "unborn" => coord # "starting"
    BY DEF IInv, StartInv
  <1>3. QED
    BY <1>1, <1>2

-------------------------------------------------------------------------------
(* The producer.                                                           *)

LEMMA PullStep ==
  ASSUME IInv, ProducerPulls
  PROVE  IInv'
  <1>1. /\ producer.pc = "pull" /\ overlap # <<>> /\ overlap' = Tail(overlap)
        /\ UNCHANGED <<tasks, output, worker>>
        /\ UNCHANGED <<scanVars, cancelled, abort, captureVars>>
    BY DEF ProducerPulls, ProducerOnly
  <1>2. /\ scan' = scan /\ final' = final /\ submitted' = submitted
        /\ listed' = listed /\ checked' = checked /\ finished' = finished
        /\ tasks' = tasks /\ output' = output /\ worker' = worker
    BY <1>1 DEF scanVars, captureVars
  <1>3. producer \in ProducerSet /\ worker \in [Workers -> WorkerSet] /\ coord # "starting"
    BY <1>1, ThreadFacts
  <1>4. /\ overlap' \in Seq(Domains \cup {EndMark}) /\ Len(overlap') = Len(overlap) - 1 /\ Len(overlap') \in Nat
        /\ 1 \in DOMAIN overlap /\ Head(overlap) = overlap[1] /\ overlap[1] \in Domains \cup {EndMark}
        /\ \A i \in DOMAIN overlap' : i \in Nat /\ i + 1 \in DOMAIN overlap /\ overlap'[i] = overlap[i + 1]
        /\ \A i \in DOMAIN overlap : i \in Nat /\ (i # 1 => i - 1 \in DOMAIN overlap' /\ overlap'[i - 1] = overlap[i])
    <2>1. overlap \in Seq(Domains \cup {EndMark})
      BY ThreadFacts
    <2>2. QED
      BY <1>1, <2>1, TailFacts
  <1>5. PICK h : h = overlap[1]
    OBVIOUS
  <1>6. producer' = IF h = EndMark THEN Sentinels
                    ELSE IF h \notin final \/ h \in producer.seen THEN producer
                    ELSE [producer EXCEPT !.pc = "announce", !.domain = h, !.seen = @ \cup {h}]
    BY <1>4, <1>5 DEF ProducerPulls
  <1>7. /\ producer' \in ProducerSet /\ producer.seen \subseteq producer'.seen
        /\ producer'.pc \in {"pull", "announce", "sentinels"}
        /\ producer'.pc = "sentinels" => h = EndMark /\ producer'.seen = producer.seen
        /\ producer'.pc = "pull" => producer'.seen = producer.seen /\ (h \notin final \/ h \in producer.seen)
        /\ producer'.pc = "announce" => h \in Domains /\ producer'.domain = h
                                        /\ producer'.seen = producer.seen \cup {h}
    <2>1. Cardinality(Workers) \in Nat
      BY Sizes
    <2>2. CASE h = EndMark
      BY <1>3, <1>6, <2>1, <2>2 DEF ProducerSet, Sentinels
    <2>3. CASE h # EndMark /\ (h \notin final \/ h \in producer.seen)
      BY <1>1, <1>3, <1>6, <2>3 DEF ProducerSet
    <2>4. CASE h # EndMark /\ ~(h \notin final \/ h \in producer.seen)
      BY <1>3, <1>4, <1>5, <1>6, <2>4 DEF ProducerSet
    <2>5. QED
      BY <2>2, <2>3, <2>4
  <1>8. TypeOK'
    <2>1. tasks' \in Seq(Endpoints \cup {NoTask}) /\ output' \in Seq(EventSet) /\ worker' \in [Workers -> WorkerSet]
      BY <1>2, ThreadFacts
    <2>2. TypeOK
      BY DEF IInv
    <2>3. QED
      BY <1>1, <1>4, <1>7, <2>1, <2>2, ThreadTypes DEF ProducerSet, WorkerSet
  <1>9. h = EndMark => overlap' = <<>> /\ AllPut /\ final \subseteq submitted
    <2>1. SUFFICES ASSUME h = EndMark PROVE overlap' = <<>> /\ AllPut /\ final \subseteq submitted
      OBVIOUS
    <2>2. Len(overlap) = 1 /\ AllPut /\ final \subseteq submitted
      BY <1>4, <1>5, <2>1 DEF IInv, OverlapInv
    <2>3. Len(overlap') = Len(overlap) - 1 /\ overlap' \in Seq(Domains \cup {EndMark})
      BY <1>4
    <2>4. Len(overlap') = 0
      BY <2>2, <2>3
    <2>5. QED
      BY <2>2, <2>3, <2>4, EmptySeq
  <1>10. OverlapInv'
    <2>1. Len(overlap') <= Capacity
      <3>1. Len(overlap) <= Capacity /\ Len(overlap) = Len(overlap') + 1
        BY <1>4 DEF IInv, OverlapInv
      <3>2. QED
        BY <1>4, <3>1, PipelineAssumption
    <2>2. \A i, j \in DOMAIN overlap' : overlap'[i] = overlap'[j] => i = j
      <3>1. \A i, j \in DOMAIN overlap' : overlap'[i] = overlap'[j] => i + 1 = j + 1
        BY <1>4 DEF IInv, OverlapInv
      <3>2. QED
        BY <1>4, <3>1
    <2>3. \A i \in DOMAIN overlap' :
            /\ overlap'[i] \in submitted \cup {EndMark}
            /\ overlap'[i] = EndMark => i = Len(overlap') /\ AllPut /\ final \subseteq submitted
      <3>1. \A i \in DOMAIN overlap' :
              /\ overlap'[i] \in submitted \cup {EndMark}
              /\ overlap'[i] = EndMark => i + 1 = Len(overlap) /\ AllPut /\ final \subseteq submitted
        BY <1>4 DEF IInv, OverlapInv
      <3>2. QED
        BY <1>4, <3>1
    <2>4. \A d \in submitted : InQueue(overlap', d) \/ d \in producer'.seen \/ d \notin final
      <3>1. SUFFICES ASSUME NEW d \in submitted, d \notin producer'.seen, d \in final
                     PROVE  InQueue(overlap', d)
        OBVIOUS
      <3>2. d # EndMark /\ d \notin producer.seen
        <4>1. submitted \in SUBSET Domains
          BY DEF IInv, TypeOK
        <4>2. QED
          BY <1>7, <3>1, <4>1, PipelineAssumption
      <3>3. PICK i \in DOMAIN overlap : overlap[i] = d
        BY <3>1, <3>2 DEF IInv, OverlapInv, InQueue
      <3>4. h # d
        BY <1>7, <3>1, <3>2
      <3>5. QED
        BY <1>4, <1>5, <3>3, <3>4 DEF InQueue
    <2>5. QED
      BY <1>2, <2>1, <2>2, <2>3, <2>4 DEF OverlapInv, AllPut
  <1>11. Announced' = Announced /\ Here' = Here /\ FinishedAt' = FinishedAt /\ (ErrorIn' <=> ErrorIn)
    BY <1>2 DEF Announced, Here, FinishedAt, ErrorIn
  <1>12. TasksInv' /\ OutputInv' /\ CountInv'
    <2>1. TasksInv'
      BY <1>2, <1>7, <1>11 DEF IInv, TasksInv
    <2>2. OutputInv'
      BY <1>2 DEF IInv, OutputInv, Listed
    <2>3. QED
      BY <1>2, <1>11, <2>1, <2>2 DEF IInv, CountInv
  <1>13. Live => LiveInv'
    <2>1. SUFFICES ASSUME Live PROVE LiveInv'
      OBVIOUS
    <2>2. LiveInv
      BY <2>1 DEF IInv
    <2>3. ~Failing' => SoundInv'
      <3>1. SUFFICES ASSUME ~Failing' PROVE SoundInv'
        OBVIOUS
      <3>2. SoundInv
        BY <1>1, <1>2, <1>11, <2>2, <3>1 DEF LiveInv, Failing
      <3>3. producer'.pc \in {"sentinels", "gone"} => overlap' = <<>> /\ AllPut' /\ final' \subseteq submitted'
        BY <1>2, <1>7, <1>9 DEF AllPut
      <3>4. \A d \in producer'.seen : d \in Announced' \/ (producer'.domain = d /\ producer'.pc = "announce")
        BY <1>1, <1>7, <1>11, <3>2 DEF SoundInv
      <3>5. \A d \in producer'.seen, k \in {1, 2} : Done(d, k)'
        <4>1. TAKE d \in producer'.seen, k \in {1, 2}
        <4>2. CASE d \in producer.seen
          <5>1. Done(d, k)
            BY <3>2, <4>2 DEF SoundInv
          <5>2. QED
            BY <1>1, <1>2, <5>1 DEF Done, InQueue
        <4>3. CASE d \notin producer.seen
          BY <1>7, <4>3 DEF Done
        <4>4. QED
          BY <4>2, <4>3
      <3>6. Here' = {} => \A i \in DOMAIN output' : \E j \in FinishedAt' : i <= j
        BY <1>2, <1>11, <3>2 DEF SoundInv
      <3>7. QED
        BY <3>3, <3>4, <3>5, <3>6 DEF SoundInv
    <2>4. /\ producer'.pc # "unborn" /\ \A w \in Workers : worker'[w].pc # "unborn"
          /\ \A i \in DOMAIN tasks' : tasks'[i] = NoTask => producer'.pc \in {"sentinels", "gone"}
          /\ \A i, j \in DOMAIN tasks' : tasks'[i] = NoTask /\ i < j => tasks'[j] = NoTask
      BY <1>1, <1>2, <1>7, <2>2 DEF LiveInv
    <2>5. \A w \in Workers : worker'[w].pc \in {"last", "gone"} => ErrorIn'
      BY <1>1, <1>2, <1>11, <2>2 DEF LiveInv
    <2>6. Here' = {} /\ ErrorIn' => \E i \in DOMAIN output', j \in FinishedAt' : i < j /\ output'[i].kind = "error"
      BY <1>2, <1>11, <2>2 DEF LiveInv
    <2>7. QED
      BY <2>3, <2>4, <2>5, <2>6 DEF LiveInv
  <1>14. QED
    BY <1>1, <1>3, <1>8, <1>10, <1>12, <1>13, ThreadFrame

\* A step of the producer other than a take.
LEMMA ProducerFrame ==
  ASSUME IInv, ProducerOnly, UNCHANGED overlap, producer.pc # "unborn",
         producer' \in ProducerSet, producer'.seen = producer.seen,
         producer'.pc \in {"announce", "http", "https"} => producer'.domain \in Domains,
         producer'.pc \in {"http", "https"} => producer'.domain \in Announced',
         tasks' \in Seq(Endpoints \cup {NoTask}), Len(tasks') <= Bound,
         \A i \in DOMAIN tasks' : tasks'[i] # NoTask => tasks'[i][1] \in Announced',
         output' \in Seq(EventSet), OutputInv', Announced \subseteq Announced', FinishedAt' = FinishedAt,
         Live => LiveInv'
  PROVE  IInv'
  <1>1. /\ UNCHANGED <<scanVars, cancelled, abort, captureVars>>
        /\ scan' = scan /\ final' = final /\ submitted' = submitted /\ finished' = finished
        /\ worker' = worker /\ overlap' = overlap
    BY DEF ProducerOnly, scanVars, captureVars
  <1>2. TypeOK'
    <2>1. worker' \in [Workers -> WorkerSet] /\ overlap' \in Seq(Domains \cup {EndMark})
      BY <1>1, ThreadFacts
    <2>2. TypeOK
      BY DEF IInv
    <2>3. QED
      BY <1>1, <2>1, <2>2, ThreadTypes DEF ProducerSet, WorkerSet
  <1>3. OverlapInv'
    BY <1>1 DEF IInv, OverlapInv, InQueue, AllPut
  <1>4. TasksInv'
    BY <1>1 DEF IInv, TasksInv
  <1>5. CountInv'
    BY <1>1 DEF IInv, CountInv, Here
  <1>6. QED
    BY <1>1, <1>2, <1>3, <1>4, <1>5, ThreadFacts, ThreadFrame

\* A task stays in the queue, behind it comes what is put.
LEMMA TaskPut ==
  ASSUME IInv, NEW t \in Endpoints \cup {NoTask}, Room(tasks, Bound), tasks' = Append(tasks, t)
  PROVE  /\ tasks' \in Seq(Endpoints \cup {NoTask}) /\ Len(tasks') <= Bound
         /\ Len(tasks') \in DOMAIN tasks' /\ tasks'[Len(tasks')] = t
         /\ \A i \in DOMAIN tasks : i \in DOMAIN tasks' /\ tasks'[i] = tasks[i] /\ i < Len(tasks') /\ i \in Nat
         /\ \A i \in DOMAIN tasks' : i \in DOMAIN tasks \/ i = Len(tasks')
  <1>1. tasks \in Seq(Endpoints \cup {NoTask}) /\ Len(tasks) \in Nat
    <2>1. tasks \in Seq(Endpoints \cup {NoTask})
      BY ThreadFacts
    <2>2. QED
      BY <2>1
  <1>2. /\ tasks' \in Seq(Endpoints \cup {NoTask}) /\ Len(tasks') = Len(tasks) + 1
        /\ Len(tasks') \in DOMAIN tasks' /\ tasks'[Len(tasks')] = t
        /\ \A i \in DOMAIN tasks : i \in DOMAIN tasks' /\ tasks'[i] = tasks[i] /\ i < Len(tasks') /\ i \in Nat
        /\ \A i \in DOMAIN tasks' : i \in DOMAIN tasks \/ i = Len(tasks')
    BY <1>1, AppendFacts
  <1>3. Len(tasks') <= Bound
    BY <1>1, <1>2, Sizes DEF Room
  <1>4. QED
    BY <1>2, <1>3

\* The producer gives up, is stopped or reports: no hostname is promised any more.
LEMMA ProducerStopsStep ==
  ASSUME IInv, ProducerStops \/ ProducerRejects \/ ProducerReports
  PROVE  IInv'
  <1>1. /\ ProducerOnly /\ UNCHANGED <<overlap, tasks>>
        /\ producer.pc \in {"pull", "announce", "error"}
        /\ \/ producer' = Sentinels /\ UNCHANGED output /\ GivesUp
           \/ producer.pc # "error" /\ producer' = [producer EXCEPT !.pc = "error"] /\ UNCHANGED output
           \/ producer.pc = "error" /\ producer' = Sentinels
              /\ Room(output, Bound) /\ output' = Append(output, Event("error", NoTask))
    BY DEF ProducerStops, ProducerRejects, ProducerReports, GoTo
  <1>2. /\ worker' = worker /\ tasks' = tasks /\ listed' = listed /\ checked' = checked
    BY <1>1 DEF ProducerOnly, captureVars
  <1>3. /\ producer' \in ProducerSet /\ producer'.seen = producer.seen
        /\ producer'.pc \in {"error", "sentinels"}
        /\ producer'.pc = "error" \/ GivesUp \/ (producer.pc = "error" /\ output' = Append(output, Event("error", NoTask)))
    <2>1. Cardinality(Workers) \in Nat /\ producer \in ProducerSet
      BY Sizes, ThreadFacts
    <2>2. CASE producer' = Sentinels
      <3>1. /\ producer' \in ProducerSet /\ producer'.seen = producer.seen /\ producer'.pc = "sentinels"
        BY <2>1, <2>2 DEF ProducerSet, Sentinels
      <3>2. producer' # [producer EXCEPT !.pc = "error"]
        BY <2>1, <3>1 DEF ProducerSet
      <3>3. QED
        BY <1>1, <3>1, <3>2
    <2>3. CASE producer' = [producer EXCEPT !.pc = "error"]
      BY <2>1, <2>3 DEF ProducerSet
    <2>4. QED
      BY <1>1, <2>2, <2>3
  <1>4. /\ output' \in Seq(EventSet) /\ OutputInv' /\ Announced \subseteq Announced' /\ FinishedAt' = FinishedAt
        /\ \A i \in DOMAIN output : i \in DOMAIN output' /\ output'[i] = output[i]
        /\ output' = Append(output, Event("error", NoTask)) => ErrorIn'
        /\ ErrorIn => ErrorIn'
    <2>1. CASE UNCHANGED output
      <3>1. output' = output /\ output \in Seq(EventSet)
        BY <2>1, ThreadFacts
      <3>2. output' # Append(output, Event("error", NoTask))
        BY <3>1
      <3>3. QED
        BY <1>2, <3>1, <3>2 DEF IInv, OutputInv, Listed, Announced, FinishedAt, ErrorIn
    <2>2. CASE Room(output, Bound) /\ output' = Append(output, Event("error", NoTask))
      <3>1. /\ Event("error", NoTask) \in EventSet /\ Event("error", NoTask).kind = "error"
        BY DEF Event, EventSet
      <3>2. QED
        BY <1>2, <2>2, <3>1, OutputPut
    <2>3. QED
      BY <1>1, <2>1, <2>2
  <1>5. /\ Len(tasks') <= Bound /\ tasks' \in Seq(Endpoints \cup {NoTask})
        /\ \A i \in DOMAIN tasks' : tasks'[i] # NoTask => tasks'[i][1] \in Announced'
    BY <1>2, <1>4, ThreadFacts DEF IInv, TasksInv
  <1>6. Live => LiveInv'
    <2>1. SUFFICES ASSUME Live PROVE LiveInv'
      OBVIOUS
    <2>2. LiveInv /\ ~GivesUp
      BY <2>1, LivePuts DEF IInv
    <2>3. Failing'
      BY <1>3, <1>4, <2>2 DEF Failing
    <2>4. Here' = Here
      BY <1>2 DEF Here
    <2>5. /\ producer'.pc # "unborn" /\ \A w \in Workers : worker'[w].pc # "unborn"
          /\ \A i \in DOMAIN tasks' : tasks'[i] # NoTask
      BY <1>1, <1>2, <1>3, <2>2 DEF LiveInv
    <2>6. \A w \in Workers : worker'[w].pc \in {"last", "gone"} => ErrorIn /\ ErrorIn'
      BY <1>1, <1>2, <1>4, <2>2 DEF LiveInv
    <2>7. Here' = {} => ErrorIn
      BY <1>2, <2>6, PipelineAssumption DEF Here
    <2>8. Here' = {} /\ ErrorIn' => \E i \in DOMAIN output', j \in FinishedAt' : i < j /\ output'[i].kind = "error"
      BY <1>4, <2>2, <2>4, <2>7 DEF LiveInv
    <2>9. QED
      BY <2>3, <2>5, <2>6, <2>8 DEF LiveInv
  <1>7. QED
    BY <1>1, <1>3, <1>4, <1>5, <1>6, ProducerFrame

LEMMA AnnounceStep ==
  ASSUME IInv, ProducerAnnounces
  PROVE  IInv'
  <1>1. /\ ProducerOnly /\ UNCHANGED <<overlap, tasks>> /\ producer.pc = "announce"
        /\ Room(output, Bound) /\ output' = Append(output, Event("domain", producer.domain))
        /\ producer' = [producer EXCEPT !.pc = "http"]
    BY DEF ProducerAnnounces, GoTo
  <1>2. /\ worker' = worker /\ tasks' = tasks /\ listed' = listed /\ checked' = checked
        /\ overlap' = overlap /\ final' = final /\ submitted' = submitted
    BY <1>1 DEF ProducerOnly, captureVars, scanVars
  <1>3. /\ producer' \in ProducerSet /\ producer'.pc = "http" /\ producer'.seen = producer.seen
        /\ producer'.domain = producer.domain /\ producer.domain \in Domains
    <2>1. producer \in ProducerSet /\ producer.domain \in Domains
      BY <1>1, ThreadFacts DEF IInv, TasksInv
    <2>2. QED
      BY <1>1, <2>1 DEF ProducerSet
  <1>4. PICK e \in EventSet : e = Event("domain", producer.domain)
    BY <1>3 DEF Event, EventSet
  <1>5. e.kind = "domain" /\ e.value = producer.domain
    BY <1>4 DEF Event
  <1>6. /\ OutputInv' /\ output' \in Seq(EventSet) /\ Announced \subseteq Announced'
        /\ producer.domain \in Announced' /\ FinishedAt' = FinishedAt /\ (ErrorIn' <=> ErrorIn)
        /\ \A i \in DOMAIN output : i \in DOMAIN output' /\ output'[i] = output[i]
    BY <1>1, <1>2, <1>3, <1>4, <1>5, OutputPut
  <1>7. /\ Len(tasks') <= Bound /\ tasks' \in Seq(Endpoints \cup {NoTask})
        /\ \A i \in DOMAIN tasks' : tasks'[i] # NoTask => tasks'[i][1] \in Announced'
    BY <1>2, <1>6, ThreadFacts DEF IInv, TasksInv
  <1>8. Live => LiveInv'
    <2>1. SUFFICES ASSUME Live PROVE LiveInv'
      OBVIOUS
    <2>2. LiveInv
      BY <2>1 DEF IInv
    <2>3. Here' = Here
      BY <1>2 DEF Here
    <2>4. /\ producer'.pc # "unborn" /\ \A w \in Workers : worker'[w].pc # "unborn"
          /\ \A i \in DOMAIN tasks' : tasks'[i] # NoTask
      BY <1>1, <1>2, <1>3, <2>2 DEF LiveInv
    <2>5. \A w \in Workers : worker'[w].pc \in {"last", "gone"} => ErrorIn /\ ErrorIn'
      BY <1>1, <1>2, <1>6, <2>2 DEF LiveInv
    <2>6. Here' = {} => ErrorIn
      BY <1>2, <2>5, PipelineAssumption DEF Here
    <2>7. Here' = {} /\ ErrorIn' => \E i \in DOMAIN output', j \in FinishedAt' : i < j /\ output'[i].kind = "error"
      BY <1>6, <2>2, <2>3, <2>6 DEF LiveInv
    <2>8. ~Failing' => SoundInv'
      <3>1. SUFFICES ASSUME ~Failing' PROVE SoundInv'
        OBVIOUS
      <3>2. SoundInv /\ ~ErrorIn
        BY <1>1, <1>2, <1>6, <2>2, <3>1 DEF LiveInv, Failing
      <3>3. \A d \in producer'.seen : d \in Announced'
        BY <1>3, <1>6, <3>2 DEF SoundInv
      <3>4. \A d \in producer'.seen, k \in {1, 2} : Done(d, k)'
        <4>1. TAKE d \in producer'.seen, k \in {1, 2}
        <4>2. Done(d, k)
          BY <1>3, <3>2 DEF SoundInv
        <4>3. QED
          BY <1>1, <1>2, <1>3, <1>6, <4>2 DEF Done, InQueue
      <3>5. Here' # {}
        BY <2>6, <3>2
      <3>6. QED
        BY <1>3, <3>3, <3>4, <3>5 DEF SoundInv
    <2>9. QED
      BY <2>4, <2>5, <2>7, <2>8 DEF LiveInv
  <1>9. QED
    BY <1>1, <1>3, <1>6, <1>7, <1>8, ProducerFrame

\* An endpoint, or an end marker, is put on the probes' queue.
LEMMA QueueStep ==
  ASSUME IInv, NEW t \in Endpoints \cup {NoTask}, ProducerOnly, UNCHANGED <<overlap, output>>,
         Room(tasks, Bound), tasks' = Append(tasks, t),
         producer' \in ProducerSet, producer'.seen = producer.seen, producer'.domain = producer.domain,
         \/ producer.pc = "http" /\ t = <<producer.domain, 1>> /\ producer'.pc = "https"
         \/ producer.pc = "https" /\ t = <<producer.domain, 2>> /\ producer'.pc = "pull"
         \/ producer.pc = "sentinels" /\ t = NoTask /\ producer'.pc = "sentinels"
  PROVE  IInv'
  <1>1. /\ worker' = worker /\ output' = output /\ listed' = listed /\ checked' = checked
        /\ overlap' = overlap /\ final' = final /\ submitted' = submitted /\ scan' = scan
    BY DEF ProducerOnly, captureVars, scanVars
  <1>2. /\ tasks' \in Seq(Endpoints \cup {NoTask}) /\ Len(tasks') <= Bound
        /\ Len(tasks') \in DOMAIN tasks' /\ tasks'[Len(tasks')] = t
        /\ \A i \in DOMAIN tasks : i \in DOMAIN tasks' /\ tasks'[i] = tasks[i] /\ i < Len(tasks') /\ i \in Nat
        /\ \A i \in DOMAIN tasks' : i \in DOMAIN tasks \/ i = Len(tasks')
    BY TaskPut
  <1>3. /\ Announced' = Announced /\ Here' = Here /\ FinishedAt' = FinishedAt /\ (ErrorIn' <=> ErrorIn)
        /\ output' \in Seq(EventSet) /\ OutputInv'
    BY <1>1, ThreadFacts DEF IInv, Announced, Here, FinishedAt, ErrorIn, OutputInv, Listed
  <1>4. /\ producer.domain \in Announced \/ t = NoTask
        /\ producer'.pc = "https" => producer.domain \in Domains /\ producer.domain \in Announced
    BY DEF IInv, TasksInv
  <1>5. \A i \in DOMAIN tasks' : tasks'[i] # NoTask => tasks'[i][1] \in Announced'
    <2>1. t # NoTask => t[1] \in Announced
      BY <1>4
    <2>2. \A i \in DOMAIN tasks : tasks[i] # NoTask => tasks[i][1] \in Announced
      BY DEF IInv, TasksInv
    <2>3. QED
      BY <1>2, <1>3, <2>1, <2>2
  <1>6. Live => LiveInv'
    <2>1. SUFFICES ASSUME Live PROVE LiveInv'
      OBVIOUS
    <2>2. LiveInv
      BY <2>1 DEF IInv
    <2>3. producer'.pc # "unborn" /\ \A w \in Workers : worker'[w].pc # "unborn"
      BY <1>1, <2>2 DEF LiveInv
    <2>4. producer.pc # "sentinels" => t # NoTask /\ \A i \in DOMAIN tasks : tasks[i] # NoTask
      <3>1. producer.pc # "sentinels" => t = <<producer.domain, 1>> \/ t = <<producer.domain, 2>>
        OBVIOUS
      <3>2. QED
        BY <2>2, <3>1 DEF LiveInv, NoTask
    <2>5. \A i \in DOMAIN tasks' : tasks'[i] = NoTask => producer'.pc \in {"sentinels", "gone"}
      BY <1>2, <2>2, <2>4 DEF LiveInv
    <2>6. \A i, j \in DOMAIN tasks' : tasks'[i] = NoTask /\ i < j => tasks'[j] = NoTask
      <3>1. CASE producer.pc # "sentinels"
        BY <1>2, <2>4, <3>1
      <3>2. CASE producer.pc = "sentinels"
        <4>1. t = NoTask
          BY <3>2
        <4>2. \A i \in DOMAIN tasks' : i \notin DOMAIN tasks => i = Len(tasks')
          BY <1>2
        <4>3. TAKE i, j \in DOMAIN tasks'
        <4>4. CASE j = Len(tasks')
          BY <1>2, <4>1, <4>4
        <4>5. CASE j \in DOMAIN tasks /\ i \in DOMAIN tasks
          BY <1>2, <2>2, <4>5 DEF LiveInv
        <4>6. CASE j \in DOMAIN tasks /\ i = Len(tasks')
          <5>1. j < i /\ j \in Nat /\ i \in Nat
            BY <1>2, <4>6
          <5>2. QED
            BY <5>1
        <4>7. QED
          BY <4>2, <4>4, <4>5, <4>6
      <3>3. QED
        BY <3>1, <3>2
    <2>7. \A w \in Workers : worker'[w].pc \in {"last", "gone"} =>
            ErrorIn' \/ (producer'.pc \in {"sentinels", "gone"} /\ \A i \in DOMAIN tasks' : tasks'[i] = NoTask)
      <3>1. \A w \in Workers : worker[w].pc \in {"last", "gone"} =>
              ErrorIn \/ (producer.pc = "sentinels" /\ \A i \in DOMAIN tasks : tasks[i] = NoTask)
        BY <2>2 DEF LiveInv
      <3>2. QED
        BY <1>1, <1>2, <1>3, <3>1
    <2>8. Here' = {} /\ ErrorIn' => \E i \in DOMAIN output', j \in FinishedAt' : i < j /\ output'[i].kind = "error"
      BY <1>1, <1>3, <2>2 DEF LiveInv
    <2>9. ~Failing' => SoundInv'
      <3>1. SUFFICES ASSUME ~Failing' PROVE SoundInv'
        OBVIOUS
      <3>2. SoundInv
        BY <1>1, <1>3, <2>2, <3>1 DEF LiveInv, Failing
      <3>3. producer'.pc \in {"sentinels", "gone"} => overlap' = <<>> /\ AllPut' /\ final' \subseteq submitted'
        BY <1>1, <3>2 DEF SoundInv, AllPut
      <3>4. \A d \in producer'.seen : d \in Announced'
        BY <1>3, <3>2 DEF SoundInv
      <3>5. \A d \in producer'.seen, k \in {1, 2} : Done(d, k)'
        <4>1. TAKE d \in producer'.seen, k \in {1, 2}
        <4>2. Done(d, k)
          BY <3>2 DEF SoundInv
        <4>3. CASE InQueue(tasks, <<d, k>>)
          BY <1>2, <4>3 DEF Done, InQueue
        <4>4. CASE producer.domain = d /\ producer.pc = "http"
          <5>1. k = 1 => t = <<d, k>>
            BY <4>4
          <5>2. k = 1 => InQueue(tasks', <<d, k>>)
            BY <1>2, <5>1 DEF InQueue
          <5>3. QED
            BY <4>4, <5>2 DEF Done
        <4>5. CASE producer.domain = d /\ producer.pc = "https" /\ k = 2
          <5>1. t = <<d, k>>
            BY <4>5
          <5>2. InQueue(tasks', <<d, k>>)
            BY <1>2, <5>1 DEF InQueue
          <5>3. QED
            BY <5>2 DEF Done
        <4>6. CASE \/ <<d, k>> \in checked \/ \E i \in DOMAIN output : output[i] = Event("result", <<d, k>>)
                   \/ \E w \in Workers : worker[w].pc \in {"probe", "put"} /\ worker[w].url = <<d, k>>
          BY <1>1, <4>6 DEF Done
        <4>7. QED
          BY <4>2, <4>3, <4>4, <4>5, <4>6 DEF Done
      <3>6. Here' = {} => \A i \in DOMAIN output' : \E j \in FinishedAt' : i <= j
        BY <1>1, <1>3, <3>2 DEF SoundInv
      <3>7. QED
        BY <3>3, <3>4, <3>5, <3>6 DEF SoundInv
    <2>10. QED
      BY <2>3, <2>5, <2>6, <2>7, <2>8, <2>9 DEF LiveInv
  <1>7. QED
    BY <1>2, <1>3, <1>4, <1>5, <1>6, ProducerFrame

\* The producer gives up while queueing, or ends.
LEMMA ProducerEndStep ==
  ASSUME IInv, ProducerOnly, UNCHANGED <<overlap, tasks, output>>,
         producer' \in ProducerSet, producer'.seen = producer.seen,
         \/ GivesUp /\ producer.pc # "unborn" /\ producer'.pc \in {"sentinels", "gone"}
         \/ producer.pc = "sentinels" /\ producer'.pc = "gone"
  PROVE  IInv'
  <1>1. /\ worker' = worker /\ output' = output /\ listed' = listed /\ checked' = checked /\ tasks' = tasks
        /\ overlap' = overlap /\ final' = final /\ submitted' = submitted /\ scan' = scan
    BY DEF ProducerOnly, captureVars, scanVars
  <1>2. /\ Announced' = Announced /\ Here' = Here /\ FinishedAt' = FinishedAt /\ (ErrorIn' <=> ErrorIn)
        /\ output' \in Seq(EventSet) /\ OutputInv'
    BY <1>1, ThreadFacts DEF IInv, Announced, Here, FinishedAt, ErrorIn, OutputInv, Listed
  <1>3. /\ Len(tasks') <= Bound /\ tasks' \in Seq(Endpoints \cup {NoTask})
        /\ \A i \in DOMAIN tasks' : tasks'[i] # NoTask => tasks'[i][1] \in Announced'
    BY <1>1, <1>2, ThreadFacts DEF IInv, TasksInv
  <1>4. Live => LiveInv'
    <2>1. SUFFICES ASSUME Live PROVE LiveInv'
      OBVIOUS
    <2>2. LiveInv /\ producer.pc = "sentinels" /\ producer'.pc = "gone"
      BY <2>1, LivePuts DEF IInv
    <2>3. ~Failing' => SoundInv'
      <3>1. SUFFICES ASSUME ~Failing' PROVE SoundInv'
        OBVIOUS
      <3>2. SoundInv
        BY <1>1, <1>2, <2>2, <3>1 DEF LiveInv, Failing
      <3>3. \A d \in producer'.seen, k \in {1, 2} : Done(d, k)'
        <4>1. TAKE d \in producer'.seen, k \in {1, 2}
        <4>2. Done(d, k)
          BY <3>2 DEF SoundInv
        <4>3. QED
          BY <1>1, <2>2, <4>2 DEF Done, InQueue
      <3>4. QED
        BY <1>1, <1>2, <2>2, <3>2, <3>3 DEF SoundInv, AllPut
    <2>4. QED
      BY <1>1, <1>2, <2>2, <2>3 DEF LiveInv
  <1>5. QED
    BY <1>2, <1>3, <1>4, ProducerFrame

LEMMA ProducerStep ==
  ASSUME IInv, Producer \/ ProducerRejects
  PROVE  IInv'
  <1>1. producer \in ProducerSet /\ Cardinality(Workers) \in Nat
    BY ThreadFacts, Sizes
  <1>2. Sentinels \in ProducerSet /\ Sentinels.pc = "sentinels" /\ Sentinels.seen = producer.seen
    BY <1>1 DEF ProducerSet, Sentinels
  <1>3. ASSUME NEW pc \in {"https", "pull", "gone"}, GoTo(pc)
        PROVE  /\ producer' \in ProducerSet /\ producer'.pc = pc
               /\ producer'.seen = producer.seen /\ producer'.domain = producer.domain
    BY <1>1, <1>3 DEF ProducerSet, GoTo
  <1>4. CASE ProducerQueues
    <2>1. ProducerOnly /\ UNCHANGED <<overlap, output>>
      BY <1>4 DEF ProducerQueues
    <2>2. producer.pc \in {"http", "https"} => <<producer.domain, 1>> \in Endpoints /\ <<producer.domain, 2>> \in Endpoints
      BY DEF IInv, TasksInv, Endpoints
    <2>3. CASE producer.pc = "http" /\ Room(tasks, Bound) /\ tasks' = Append(tasks, <<producer.domain, 1>>) /\ GoTo("https")
      <3>1. PICK t \in Endpoints \cup {NoTask} : t = <<producer.domain, 1>>
        BY <2>2, <2>3
      <3>2. QED
        BY <1>3, <2>1, <2>3, <3>1, QueueStep
    <2>4. CASE producer.pc = "https" /\ Room(tasks, Bound) /\ tasks' = Append(tasks, <<producer.domain, 2>>) /\ GoTo("pull")
      <3>1. PICK t \in Endpoints \cup {NoTask} : t = <<producer.domain, 2>>
        BY <2>2, <2>4
      <3>2. QED
        BY <1>3, <2>1, <2>4, <3>1, QueueStep
    <2>5. CASE producer.pc \in {"http", "https"} /\ GivesUp /\ producer' = Sentinels /\ UNCHANGED tasks
      BY <1>2, <2>1, <2>5, ProducerEndStep
    <2>6. QED
      BY <1>4, <2>3, <2>4, <2>5 DEF ProducerQueues
  <1>5. CASE ProducerEnds
    <2>1. ProducerOnly /\ UNCHANGED <<overlap, output>> /\ producer.pc = "sentinels"
      BY <1>5 DEF ProducerEnds
    <2>2. CASE /\ producer.left > 0 /\ Room(tasks, Bound) /\ tasks' = Append(tasks, NoTask)
               /\ producer' = [producer EXCEPT !.left = @ - 1]
      <3>1. producer' \in ProducerSet /\ producer'.pc = "sentinels"
            /\ producer'.seen = producer.seen /\ producer'.domain = producer.domain
        BY <1>1, <2>1, <2>2 DEF ProducerSet
      <3>2. NoTask \in Endpoints \cup {NoTask}
        OBVIOUS
      <3>3. QED
        BY <2>1, <2>2, <3>1, <3>2, QueueStep
    <2>3. CASE (producer.left = 0 \/ GivesUp) /\ GoTo("gone") /\ UNCHANGED tasks
      BY <1>3, <2>1, <2>3, ProducerEndStep
    <2>4. QED
      BY <1>5, <2>2, <2>3 DEF ProducerEnds
  <1>6. QED
    BY <1>4, <1>5, PullStep, ProducerStopsStep, AnnounceStep DEF Producer

-------------------------------------------------------------------------------
(* A probe thread.                                                         *)

LEMMA WorkerFrame ==
  ASSUME IInv, NEW w \in Workers, NEW r \in WorkerSet, WorkerOnly, worker[w].pc # "unborn",
         worker' = [worker EXCEPT ![w] = r],
         r.pc \in {"probe", "put"} => r.url \in Endpoints /\ r.url[1] \in Announced',
         tasks' \in Seq(Endpoints \cup {NoTask}), Len(tasks') <= Bound,
         \A i \in DOMAIN tasks' : tasks'[i] # NoTask => tasks'[i][1] \in Announced',
         output' \in Seq(EventSet), OutputInv', Announced \subseteq Announced', CountInv',
         Live => LiveInv'
  PROVE  IInv'
  <1>1. /\ UNCHANGED <<scanVars, cancelled, abort, captureVars>>
        /\ scan' = scan /\ final' = final /\ submitted' = submitted
        /\ producer' = producer /\ overlap' = overlap
    BY DEF WorkerOnly, scanVars, captureVars
  <1>2. worker \in [Workers -> WorkerSet]
    BY ThreadFacts
  <1>3. TypeOK'
    <2>1. /\ worker' \in [Workers -> WorkerSet] /\ producer' \in ProducerSet
          /\ overlap' \in Seq(Domains \cup {EndMark})
      BY <1>1, <1>2, ThreadFacts
    <2>2. TypeOK
      BY DEF IInv
    <2>3. QED
      BY <1>1, <2>1, <2>2, ThreadTypes DEF ProducerSet, WorkerSet
  <1>4. OverlapInv'
    BY <1>1 DEF IInv, OverlapInv, InQueue, AllPut
  <1>5. TasksInv'
    <2>1. \A v \in Workers : worker'[v] = IF v = w THEN r ELSE worker[v]
      BY <1>2
    <2>2. QED
      BY <1>1, <2>1 DEF IInv, TasksInv
  <1>6. QED
    BY <1>1, <1>3, <1>4, <1>5, ThreadFacts, ThreadFrame

\* A stop or a probe that ends: no queue changes.
LEMMA WorkerQuietStep ==
  ASSUME IInv, NEW w \in Workers, NEW r \in WorkerSet, WorkerOnly, UNCHANGED <<tasks, output>>,
         worker' = [worker EXCEPT ![w] = r], worker[w].pc \notin {"unborn", "gone"},
         \/ GivesUp /\ r.pc \in {"last", "error", "gone"}
         \/ worker[w].pc = "probe" /\ r.pc = "put" /\ r.url = worker[w].url
         \/ worker[w].pc = "probe" /\ r.pc = "error"
  PROVE  IInv'
  <1>1. /\ producer' = producer /\ output' = output /\ listed' = listed /\ checked' = checked
        /\ tasks' = tasks /\ finished' = finished
        /\ overlap' = overlap /\ final' = final /\ submitted' = submitted /\ scan' = scan
    BY DEF WorkerOnly, captureVars, scanVars
  <1>2. \A v \in Workers : worker'[v] = IF v = w THEN r ELSE worker[v]
    BY ThreadFacts
  <1>3. /\ Announced' = Announced /\ FinishedAt' = FinishedAt /\ (ErrorIn' <=> ErrorIn)
        /\ output' \in Seq(EventSet) /\ OutputInv'
    BY <1>1, ThreadFacts DEF IInv, Announced, FinishedAt, ErrorIn, OutputInv, Listed
  <1>4. /\ tasks' \in Seq(Endpoints \cup {NoTask}) /\ Len(tasks') <= Bound
        /\ \A i \in DOMAIN tasks' : tasks'[i] # NoTask => tasks'[i][1] \in Announced'
        /\ r.pc \in {"probe", "put"} => r.url \in Endpoints /\ r.url[1] \in Announced'
    BY <1>1, <1>3, ThreadFacts DEF IInv, TasksInv
  <1>5. Here' \subseteq Here
    BY <1>2 DEF Here
  <1>6. CountInv'
    <2>1. Cardinality(Here') <= Cardinality(Here) /\ Cardinality(Here') \in Nat
      BY <1>5, Counts, FS_Subset, FS_CardinalityType
    <2>2. finished \in Nat /\ Cardinality(Workers) \in Nat /\ Cardinality(Here) \in Nat /\ Cardinality(FinishedAt) \in Nat
      BY Sizes, Counts DEF IInv, TypeOK
    <2>3. finished + Cardinality(FinishedAt) + Cardinality(Here) <= Cardinality(Workers)
      BY DEF IInv, CountInv
    <2>4. finished + Cardinality(FinishedAt) + Cardinality(Here') <= Cardinality(Workers)
      BY <2>1, <2>2, <2>3
    <2>5. QED
      BY <1>1, <1>3, <2>4 DEF CountInv
  <1>7. Live => LiveInv'
    <2>1. SUFFICES ASSUME Live PROVE LiveInv'
      OBVIOUS
    <2>2. LiveInv /\ worker[w].pc = "probe" /\ (r.pc = "error" \/ (r.pc = "put" /\ r.url = worker[w].url))
      BY <2>1, LivePuts DEF IInv
    <2>3. Here' = Here
      BY <1>2, <2>2 DEF Here
    <2>4. ~Failing' => SoundInv'
      <3>1. SUFFICES ASSUME ~Failing' PROVE SoundInv'
        OBVIOUS
      <3>2. r.pc = "put"
        BY <1>2, <2>2, <3>1 DEF Failing
      <3>3. \A v \in Workers : worker[v].pc # "error"
        BY <1>2, <2>2, <3>1 DEF Failing
      <3>4. SoundInv
        BY <1>1, <1>3, <2>2, <3>1, <3>3 DEF LiveInv, Failing
      <3>5. \A d \in producer'.seen, k \in {1, 2} : Done(d, k)'
        <4>1. TAKE d \in producer'.seen, k \in {1, 2}
        <4>2. Done(d, k)
          BY <1>1, <3>4 DEF SoundInv
        <4>3. \A v \in Workers : worker[v].pc \in {"probe", "put"} =>
                                   worker'[v].pc \in {"probe", "put"} /\ worker'[v].url = worker[v].url
          BY <1>2, <2>2, <3>2
        <4>4. QED
          BY <1>1, <4>2, <4>3 DEF Done, InQueue
      <3>6. QED
        BY <1>1, <1>3, <2>3, <3>4, <3>5 DEF SoundInv, AllPut
    <2>5. \A v \in Workers : /\ worker'[v].pc # "unborn"
                             /\ worker'[v].pc \in {"last", "gone"} => worker[v].pc \in {"last", "gone"}
      BY <1>2, <2>2 DEF LiveInv
    <2>6. QED
      BY <1>1, <1>3, <2>2, <2>3, <2>4, <2>5 DEF LiveInv
  <1>8. QED
    BY <1>3, <1>4, <1>6, <1>7, WorkerFrame

\* A result, an error or the end of the thread is put on the coordinator's queue.
LEMMA WorkerPutStep ==
  ASSUME IInv, NEW w \in Workers, NEW r \in WorkerSet, NEW e \in EventSet, WorkerOnly, UNCHANGED tasks,
         worker' = [worker EXCEPT ![w] = r], Room(output, Bound), output' = Append(output, e),
         \/ worker[w].pc = "put" /\ e = Event("result", worker[w].url) /\ r.pc = "get"
         \/ worker[w].pc = "error" /\ e = Event("error", NoTask) /\ r.pc = "last"
         \/ worker[w].pc = "last" /\ e = Event("finished", NoTask) /\ r.pc = "gone"
  PROVE  IInv'
  <1>1. /\ producer' = producer /\ listed' = listed /\ checked' = checked
        /\ tasks' = tasks /\ finished' = finished
        /\ overlap' = overlap /\ final' = final /\ submitted' = submitted /\ scan' = scan
    BY DEF WorkerOnly, captureVars, scanVars
  <1>2. \A v \in Workers : worker'[v] = IF v = w THEN r ELSE worker[v]
    BY ThreadFacts
  <1>3. /\ e.kind \in {"result", "error", "finished"}
        /\ e.kind = "result" <=> worker[w].pc = "put"
        /\ e.kind = "error" <=> worker[w].pc = "error"
        /\ e.kind = "finished" <=> worker[w].pc = "last"
        /\ e.kind = "result" => e.value \in Endpoints /\ e.value[1] \in Announced
    BY DEF Event, IInv, TasksInv
  <1>4. /\ OutputInv' /\ output' \in Seq(EventSet) /\ Announced \subseteq Announced'
        /\ Len(output') \in DOMAIN output' /\ output'[Len(output')] = e
        /\ \A i \in DOMAIN output : i \in DOMAIN output' /\ output'[i] = output[i] /\ i < Len(output')
        /\ \A i \in DOMAIN output' : i \in DOMAIN output \/ i = Len(output')
        /\ e.kind = "finished" => FinishedAt' = FinishedAt \cup {Len(output')} /\ Len(output') \notin FinishedAt
        /\ e.kind # "finished" => FinishedAt' = FinishedAt
        /\ ErrorIn' <=> ErrorIn \/ e.kind = "error"
    BY <1>1, <1>3, OutputPut
  <1>5. /\ tasks' \in Seq(Endpoints \cup {NoTask}) /\ Len(tasks') <= Bound
        /\ \A i \in DOMAIN tasks' : tasks'[i] # NoTask => tasks'[i][1] \in Announced'
    BY <1>1, <1>4, ThreadFacts DEF IInv, TasksInv
  <1>6. /\ w \in Here
        /\ r.pc = "gone" => Here' = Here \ {w}
        /\ r.pc # "gone" => Here' = Here
    BY <1>2 DEF Here
  <1>7. CountInv'
    <2>1. finished \in Nat /\ Cardinality(Workers) \in Nat /\ Cardinality(Here) \in Nat /\ Cardinality(FinishedAt) \in Nat
      BY Sizes, Counts DEF IInv, TypeOK
    <2>2. finished + Cardinality(FinishedAt) + Cardinality(Here) <= Cardinality(Workers)
      BY DEF IInv, CountInv
    <2>3. CASE r.pc = "gone"
      <3>1. Cardinality(Here') = Cardinality(Here) - 1
        BY <1>6, <2>3, Counts, FS_RemoveElement
      <3>2. Cardinality(FinishedAt') = Cardinality(FinishedAt) + 1
        BY <1>3, <1>4, <2>3, Counts, FS_AddElement
      <3>3. finished + Cardinality(FinishedAt') + Cardinality(Here') <= Cardinality(Workers)
        BY <2>1, <2>2, <3>1, <3>2
      <3>4. QED
        BY <1>1, <3>3 DEF CountInv
    <2>4. CASE r.pc # "gone"
      BY <1>1, <1>3, <1>4, <1>6, <2>2, <2>4 DEF CountInv
    <2>5. QED
      BY <2>3, <2>4
  <1>8. Live => LiveInv'
    <2>1. SUFFICES ASSUME Live PROVE LiveInv'
      OBVIOUS
    <2>2. LiveInv
      BY <2>1 DEF IInv
    <2>3. \A v \in Workers : /\ worker'[v].pc # "unborn"
                             /\ worker'[v].pc \in {"last", "gone"} => worker[v].pc \in {"last", "gone"} \/ ErrorIn'
      BY <1>2, <1>3, <1>4, <2>2 DEF LiveInv
    <2>4. Here' = {} /\ ErrorIn' => \E i \in DOMAIN output', j \in FinishedAt' : i < j /\ output'[i].kind = "error"
      <3>1. SUFFICES ASSUME Here' = {}, ErrorIn'
                     PROVE  \E i \in DOMAIN output', j \in FinishedAt' : i < j /\ output'[i].kind = "error"
        OBVIOUS
      <3>2. r.pc = "gone" /\ e.kind = "finished"
        BY <1>3, <1>6, <3>1
      <3>3. PICK i \in DOMAIN output : output[i].kind = "error"
        BY <1>4, <3>1, <3>2 DEF ErrorIn
      <3>4. QED
        BY <1>4, <3>2, <3>3
    <2>5. ~Failing' => SoundInv'
      <3>1. SUFFICES ASSUME ~Failing' PROVE SoundInv'
        OBVIOUS
      <3>2. e.kind # "error" /\ ~ErrorIn /\ worker[w].pc # "error"
        BY <1>3, <1>4, <3>1 DEF Failing
      <3>3. SoundInv
        BY <1>1, <1>2, <2>2, <3>1, <3>2 DEF LiveInv, Failing
      <3>4. \A d \in producer'.seen, k \in {1, 2} : Done(d, k)'
        <4>1. TAKE d \in producer'.seen, k \in {1, 2}
        <4>2. Done(d, k)
          BY <1>1, <3>3 DEF SoundInv
        <4>3. CASE \E v \in Workers : worker[v].pc \in {"probe", "put"} /\ worker[v].url = <<d, k>>
          <5>1. PICK v \in Workers : worker[v].pc \in {"probe", "put"} /\ worker[v].url = <<d, k>>
            BY <4>3
          <5>2. CASE v # w
            BY <1>2, <5>1, <5>2 DEF Done
          <5>3. CASE v = w
            <6>1. e = Event("result", <<d, k>>)
              BY <5>1, <5>3
            <6>2. QED
              BY <1>4, <6>1 DEF Done
          <5>4. QED
            BY <5>2, <5>3
        <4>4. CASE \E i \in DOMAIN output : output[i] = Event("result", <<d, k>>)
          BY <1>4, <4>4 DEF Done
        <4>5. QED
          BY <1>1, <4>2, <4>3, <4>4 DEF Done, InQueue
      <3>5. Here' = {} => \A i \in DOMAIN output' : \E j \in FinishedAt' : i <= j
        <4>1. SUFFICES ASSUME Here' = {} PROVE Len(output') \in FinishedAt'
          <5>1. Len(output') \in Nat /\ \A i \in DOMAIN output' : i \in Nat /\ i <= Len(output')
            BY <1>4
          <5>2. QED
            BY <5>1
        <4>2. QED
          BY <1>3, <1>4, <1>6, <4>1
      <3>6. \A d \in producer'.seen : d \in Announced' \/ (producer'.domain = d /\ producer'.pc = "announce")
        BY <1>1, <1>4, <3>3 DEF SoundInv
      <3>7. producer'.pc \in {"sentinels", "gone"} => overlap' = <<>> /\ AllPut' /\ final' \subseteq submitted'
        BY <1>1, <3>3 DEF SoundInv, AllPut
      <3>8. QED
        BY <3>4, <3>5, <3>6, <3>7 DEF SoundInv
    <2>6. \A v \in Workers : worker'[v].pc \in {"last", "gone"} =>
            ErrorIn' \/ (producer'.pc \in {"sentinels", "gone"} /\ \A i \in DOMAIN tasks' : tasks'[i] = NoTask)
      BY <1>1, <1>4, <2>2, <2>3 DEF LiveInv
    <2>7. QED
      BY <1>1, <2>2, <2>3, <2>4, <2>5, <2>6 DEF LiveInv
  <1>9. QED
    BY <1>3, <1>4, <1>5, <1>7, <1>8, WorkerFrame

\* A task is taken off the probes' queue.
LEMMA TakeStep ==
  ASSUME IInv, NEW w \in Workers, NEW r \in WorkerSet, WorkerOnly, UNCHANGED output,
         worker[w].pc = "get", tasks # <<>>, tasks' = Tail(tasks), worker' = [worker EXCEPT ![w] = r],
         \/ Head(tasks) = NoTask /\ r.pc = "last"
         \/ Head(tasks) # NoTask /\ r.pc = "probe" /\ r.url = Head(tasks)
  PROVE  IInv'
  <1>1. /\ producer' = producer /\ output' = output /\ listed' = listed /\ checked' = checked
        /\ finished' = finished
        /\ overlap' = overlap /\ final' = final /\ submitted' = submitted /\ scan' = scan
    BY DEF WorkerOnly, captureVars, scanVars
  <1>2. \A v \in Workers : worker'[v] = IF v = w THEN r ELSE worker[v]
    BY ThreadFacts
  <1>3. /\ Announced' = Announced /\ FinishedAt' = FinishedAt /\ (ErrorIn' <=> ErrorIn)
        /\ output' \in Seq(EventSet) /\ OutputInv'
    BY <1>1, ThreadFacts DEF IInv, Announced, FinishedAt, ErrorIn, OutputInv, Listed
  <1>4. /\ tasks' \in Seq(Endpoints \cup {NoTask}) /\ Len(tasks') = Len(tasks) - 1 /\ Len(tasks') \in Nat
        /\ 1 \in DOMAIN tasks /\ Head(tasks) = tasks[1] /\ tasks[1] \in Endpoints \cup {NoTask}
        /\ \A i \in DOMAIN tasks' : i \in Nat /\ i + 1 \in DOMAIN tasks /\ tasks'[i] = tasks[i + 1]
        /\ \A i \in DOMAIN tasks : i \in Nat /\ (i # 1 => i - 1 \in DOMAIN tasks' /\ tasks'[i - 1] = tasks[i])
    <2>1. tasks \in Seq(Endpoints \cup {NoTask})
      BY ThreadFacts
    <2>2. QED
      BY <2>1, TailFacts
  <1>5. Len(tasks') <= Bound
    <2>1. Len(tasks) <= Bound /\ Len(tasks) = Len(tasks') + 1
      BY <1>4 DEF IInv, TasksInv
    <2>2. QED
      BY <1>4, <2>1, Sizes
  <1>6. /\ \A i \in DOMAIN tasks' : tasks'[i] # NoTask => tasks'[i][1] \in Announced'
        /\ r.pc \in {"probe", "put"} => r.url \in Endpoints /\ r.url[1] \in Announced'
    BY <1>3, <1>4 DEF IInv, TasksInv
  <1>7. Here' = Here
    BY <1>2 DEF Here
  <1>8. CountInv'
    BY <1>1, <1>3, <1>7 DEF IInv, CountInv
  <1>9. Live => LiveInv'
    <2>1. SUFFICES ASSUME Live PROVE LiveInv'
      OBVIOUS
    <2>2. LiveInv
      BY <2>1 DEF IInv
    <2>3. producer'.pc # "unborn" /\ \A v \in Workers : worker'[v].pc # "unborn"
      BY <1>1, <1>2, <2>2 DEF LiveInv
    <2>4. \A i \in DOMAIN tasks' : tasks'[i] = NoTask => producer'.pc \in {"sentinels", "gone"}
      BY <1>1, <1>4, <2>2 DEF LiveInv
    <2>5. \A i, j \in DOMAIN tasks' : tasks'[i] = NoTask /\ i < j => tasks'[j] = NoTask
      <3>1. SUFFICES ASSUME NEW i \in DOMAIN tasks', NEW j \in DOMAIN tasks', tasks'[i] = NoTask, i < j
                     PROVE  tasks'[j] = NoTask
        OBVIOUS
      <3>2. i + 1 < j + 1
        BY <1>4, <3>1
      <3>3. QED
        BY <1>4, <2>2, <3>1, <3>2 DEF LiveInv
    <2>6. r.pc = "last" => producer.pc \in {"sentinels", "gone"} /\ \A i \in DOMAIN tasks' : tasks'[i] = NoTask
      <3>1. SUFFICES ASSUME tasks[1] = NoTask
                     PROVE  producer.pc \in {"sentinels", "gone"} /\ \A i \in DOMAIN tasks' : tasks'[i] = NoTask
        BY <1>4
      <3>2. \A i \in DOMAIN tasks' : 1 < i + 1
        BY <1>4
      <3>3. QED
        BY <1>4, <2>2, <3>1, <3>2 DEF LiveInv
    <2>7. \A v \in Workers : worker'[v].pc \in {"last", "gone"} =>
            ErrorIn' \/ (producer'.pc \in {"sentinels", "gone"} /\ \A i \in DOMAIN tasks' : tasks'[i] = NoTask)
      <3>1. TAKE v \in Workers
      <3>2. CASE v = w
        BY <1>1, <1>2, <2>6, <3>2
      <3>3. CASE v # w
        BY <1>1, <1>2, <1>3, <1>4, <2>2, <3>3 DEF LiveInv
      <3>4. QED
        BY <3>2, <3>3
    <2>8. Here' = {} /\ ErrorIn' => \E i \in DOMAIN output', j \in FinishedAt' : i < j /\ output'[i].kind = "error"
      BY <1>1, <1>3, <1>7, <2>2 DEF LiveInv
    <2>9. ~Failing' => SoundInv'
      <3>1. SUFFICES ASSUME ~Failing' PROVE SoundInv'
        OBVIOUS
      <3>2. SoundInv
        BY <1>1, <1>2, <1>3, <2>2, <3>1 DEF LiveInv, Failing
      <3>3. \A d \in producer'.seen, k \in {1, 2} : Done(d, k)'
        <4>1. TAKE d \in producer'.seen, k \in {1, 2}
        <4>2. Done(d, k)
          BY <1>1, <3>2 DEF SoundInv
        <4>3. CASE InQueue(tasks, <<d, k>>)
          <5>1. PICK i \in DOMAIN tasks : tasks[i] = <<d, k>>
            BY <4>3 DEF InQueue
          <5>2. CASE i = 1
            <6>1. r.pc = "probe" /\ r.url = <<d, k>>
              BY <1>4, <4>1, <5>1, <5>2 DEF NoTask
            <6>2. QED
              BY <1>2, <6>1 DEF Done
          <5>3. CASE i # 1
            <6>1. i - 1 \in DOMAIN tasks' /\ tasks'[i - 1] = <<d, k>>
              BY <1>4, <5>1, <5>3
            <6>2. QED
              BY <6>1 DEF Done, InQueue
          <5>4. QED
            BY <5>2, <5>3
        <4>4. CASE \E v \in Workers : worker[v].pc \in {"probe", "put"} /\ worker[v].url = <<d, k>>
          BY <1>2, <4>4 DEF Done
        <4>5. QED
          BY <1>1, <4>2, <4>3, <4>4 DEF Done
      <3>4. QED
        BY <1>1, <1>3, <1>7, <3>2, <3>3 DEF SoundInv, AllPut
    <2>10. QED
      BY <2>3, <2>4, <2>5, <2>7, <2>8, <2>9 DEF LiveInv
  <1>10. QED
    BY <1>3, <1>4, <1>5, <1>6, <1>8, <1>9, WorkerFrame

LEMMA WorkerStep ==
  ASSUME IInv, NEW w \in Workers, Worker(w)
  PROVE  IInv'
  <1>1. worker[w] \in WorkerSet
    BY ThreadFacts
  <1>2. CASE WorkerTakes(w)
    <2>1. Head(tasks) = NoTask \/ Head(tasks) \in Endpoints
      <3>1. tasks \in Seq(Endpoints \cup {NoTask}) /\ tasks # <<>>
        BY <1>2, ThreadFacts DEF WorkerTakes
      <3>2. Head(tasks) \in Endpoints \cup {NoTask}
        BY <3>1
      <3>3. QED
        BY <3>2
    <2>2. CASE Head(tasks) = NoTask
      <3>1. PICK r \in WorkerSet : r = [pc |-> "last", url |-> NoTask]
        BY DEF WorkerSet
      <3>2. QED
        BY <1>2, <2>2, <3>1, TakeStep DEF WorkerTakes, Move
    <2>3. CASE Head(tasks) # NoTask
      <3>1. PICK r \in WorkerSet : r = [pc |-> "probe", url |-> Head(tasks)]
        BY <2>1, <2>3 DEF WorkerSet
      <3>2. QED
        BY <1>2, <2>3, <3>1, TakeStep DEF WorkerTakes, Move
    <2>4. QED
      BY <2>2, <2>3
  <1>3. CASE WorkerStops(w)
    <2>1. PICK r \in WorkerSet : r = [pc |-> IF stopped THEN "last" ELSE "error", url |-> NoTask]
      <3>1. (IF stopped THEN "last" ELSE "error") \in {"last", "error"}
        BY Zenon
      <3>2. QED
        BY <3>1 DEF WorkerSet
    <2>2. QED
      BY <1>3, <2>1, WorkerQuietStep DEF WorkerStops, Move
  <1>4. CASE WorkerProbes(w)
    <2>1. CASE Move(w, "put", worker[w].url)
      <3>1. PICK r \in WorkerSet : r = [pc |-> "put", url |-> worker[w].url]
        BY <1>1 DEF WorkerSet
      <3>2. QED
        BY <1>4, <2>1, <3>1, WorkerQuietStep DEF WorkerProbes, Move
    <2>2. CASE Move(w, "error", NoTask)
      <3>1. PICK r \in WorkerSet : r = [pc |-> "error", url |-> NoTask]
        BY DEF WorkerSet
      <3>2. QED
        BY <1>4, <2>2, <3>1, WorkerQuietStep DEF WorkerProbes, Move
    <2>3. QED
      BY <1>4, <2>1, <2>2 DEF WorkerProbes
  <1>5. PICK last \in WorkerSet : last = [pc |-> "last", url |-> NoTask]
    BY DEF WorkerSet
  <1>6. CASE WorkerPuts(w)
    <2>1. CASE Room(output, Bound) /\ output' = Append(output, Event("result", worker[w].url)) /\ Move(w, "get", NoTask)
      <3>1. PICK r \in WorkerSet : r = [pc |-> "get", url |-> NoTask]
        BY DEF WorkerSet
      <3>2. PICK e \in EventSet : e = Event("result", worker[w].url)
        <4>1. worker[w].url \in Endpoints
          BY <1>6 DEF WorkerPuts, IInv, TasksInv
        <4>2. QED
          BY <4>1 DEF EventSet, Event
      <3>3. QED
        BY <1>6, <2>1, <3>1, <3>2, WorkerPutStep DEF WorkerPuts, Move
    <2>2. CASE GivesUp /\ Move(w, "last", NoTask) /\ UNCHANGED output
      BY <1>5, <1>6, <2>2, WorkerQuietStep DEF WorkerPuts, Move
    <2>3. QED
      BY <1>6, <2>1, <2>2 DEF WorkerPuts
  <1>7. CASE WorkerReports(w)
    <2>1. CASE Room(output, Bound) /\ output' = Append(output, Event("error", NoTask))
      <3>1. PICK e \in EventSet : e = Event("error", NoTask)
        BY DEF EventSet, Event
      <3>2. QED
        BY <1>5, <1>7, <2>1, <3>1, WorkerPutStep DEF WorkerReports, Move
    <2>2. CASE GivesUp /\ UNCHANGED output
      BY <1>5, <1>7, <2>2, WorkerQuietStep DEF WorkerReports, Move
    <2>3. QED
      BY <1>7, <2>1, <2>2 DEF WorkerReports
  <1>8. CASE WorkerEnds(w)
    <2>1. PICK r \in WorkerSet : r = [pc |-> "gone", url |-> NoTask]
      BY DEF WorkerSet
    <2>2. CASE Room(output, Bound) /\ output' = Append(output, Event("finished", NoTask))
      <3>1. PICK e \in EventSet : e = Event("finished", NoTask)
        BY DEF EventSet, Event
      <3>2. QED
        BY <1>8, <2>1, <2>2, <3>1, WorkerPutStep DEF WorkerEnds, Move
    <2>3. CASE GivesUp /\ UNCHANGED output
      BY <1>8, <2>1, <2>3, WorkerQuietStep DEF WorkerEnds, Move
    <2>4. QED
      BY <1>8, <2>2, <2>3 DEF WorkerEnds
  <1>9. QED
    BY <1>2, <1>3, <1>4, <1>6, <1>7, <1>8 DEF Worker

-------------------------------------------------------------------------------
(* The coordinator.                                                        *)

LEMMA StartStep ==
  ASSUME IInv, CoordinatorStarts
  PROVE  IInv'
  <1>1. /\ coord = "starting" /\ CoordinatorOnly
        /\ UNCHANGED <<output, done, stopped, finished, listed, checked>>
    BY DEF CoordinatorStarts
  <1>2. /\ scan' = scan /\ outcome' = outcome /\ emitted' = emitted /\ submitted' = submitted
        /\ final' = final /\ overlap' = overlap /\ cancelled' = cancelled /\ abort' = abort
        /\ tasks' = tasks /\ output' = output /\ done' = done /\ stopped' = stopped
        /\ finished' = finished /\ listed' = listed /\ checked' = checked
    BY <1>1 DEF CoordinatorOnly, scanVars
  <1>3. /\ producer.pc = "unborn" /\ producer.seen = {} /\ \A w \in Workers : worker[w].pc = "unborn"
        /\ tasks = <<>> /\ output = <<>> /\ outcome # "results" /\ ending = "none" /\ scan # "closed"
    BY <1>1 DEF IInv, StartInv, ScanInv
  <1>4. /\ producer' \in ProducerSet /\ worker' \in [Workers -> WorkerSet] /\ producer'.seen = {}
        /\ \/ coord' = "reading" /\ ending' = "none" /\ producer'.pc = "pull"
              /\ \A w \in Workers : worker'[w].pc = "get"
           \/ coord' = "stopping" /\ ending' \in {"raised", "gave up"} /\ producer'.pc = "unborn"
              /\ \A w \in Workers : worker'[w].pc = "unborn"
    <2>1. producer \in ProducerSet /\ worker \in [Workers -> WorkerSet]
      BY ThreadFacts
    <2>2. CASE /\ coord' = "reading" /\ UNCHANGED ending
               /\ producer' = [producer EXCEPT !.pc = "pull"]
               /\ worker' = [w \in Workers |-> [pc |-> "get", url |-> NoTask]]
      BY <1>3, <2>1, <2>2 DEF ProducerSet, WorkerSet
    <2>3. CASE End(IF Halt THEN "raised" ELSE "gave up") /\ UNCHANGED threadVars
      BY <1>3, <2>1, <2>3 DEF End, threadVars
    <2>4. QED
      BY <2>2, <2>3 DEF CoordinatorStarts
  <1>5. TypeOK'
    <2>1. /\ scan' \in {"dns", "deferring", "ending", "waiting", "closing", "joining", "closed"}
          /\ outcome' \in {"none", "results", "raised"}
          /\ emitted' \in SUBSET Domains /\ submitted' \in SUBSET Domains /\ final' \in SUBSET Domains
          /\ cancelled' \in BOOLEAN /\ abort' \in BOOLEAN /\ done' \in BOOLEAN /\ stopped' \in BOOLEAN
      BY <1>2 DEF IInv, TypeOK
    <2>2. /\ finished' \in Nat /\ listed' \in SUBSET Domains /\ checked' \in SUBSET Endpoints
      BY <1>2 DEF IInv, TypeOK
    <2>3. /\ overlap' \in Seq(Domains \cup {EndMark})
          /\ tasks' \in Seq(Endpoints \cup {NoTask}) /\ output' \in Seq(EventSet)
      BY <1>2, ThreadFacts
    <2>4. QED
      BY <1>4, <2>1, <2>2, <2>3 DEF TypeOK, ProducerSet, WorkerSet
  <1>6. ScanInv' /\ StartInv' /\ DrainedInv'
    <2>1. /\ scan' = "dns" => final' = Domains
          /\ scan' = "ending" => final' \subseteq submitted' \/ done'
          /\ abort' => outcome' # "none"
          /\ outcome' = "none" <=> scan' \in {"dns", "deferring", "ending", "waiting"}
          /\ ~done' /\ ~stopped'
      BY <1>1, <1>2 DEF IInv, ScanInv
    <2>2. /\ coord' \in {"reading", "stopping"} /\ outcome' # "results" /\ scan' # "closed"
          /\ ending' = "none" <=> coord' = "reading"
          /\ ending' # "drained"
      BY <1>2, <1>3, <1>4
    <2>3. QED
      BY <2>1, <2>2 DEF ScanInv, StartInv, DrainedInv
  <1>7. OverlapInv'
    BY <1>2, <1>3, <1>4 DEF IInv, OverlapInv, InQueue, AllPut
  <1>8. TasksInv'
    <2>1. tasks' = <<>> /\ Len(<<>>) = 0 /\ 0 <= Bound
      BY <1>2, <1>3, Sizes
    <2>2. /\ producer'.pc \notin {"announce", "http", "https"}
          /\ \A w \in Workers : worker'[w].pc \notin {"probe", "put"}
      BY <1>4
    <2>3. QED
      BY <2>1, <2>2 DEF TasksInv
  <1>9. OutputInv'
    BY <1>2 DEF IInv, OutputInv, Listed
  <1>10. CountInv'
    <2>1. Here' = Here
      BY <1>3, <1>4 DEF Here
    <2>2. FinishedAt' = FinishedAt
      BY <1>2 DEF FinishedAt
    <2>3. QED
      BY <1>2, <2>1, <2>2 DEF IInv, CountInv
  <1>11. Live' => LiveInv'
    <2>1. SUFFICES ASSUME coord' = "reading" PROVE LiveInv'
      BY DEF Live
    <2>2. producer'.pc = "pull" /\ \A w \in Workers : worker'[w].pc = "get"
      BY <1>4, <2>1
    <2>3. Here' # {}
      BY <2>2, PipelineAssumption DEF Here
    <2>4. SoundInv'
      BY <1>4, <2>2, <2>3 DEF SoundInv
    <2>5. QED
      BY <1>2, <1>3, <2>2, <2>3, <2>4 DEF LiveInv
  <1>12. QED
    BY <1>5, <1>6, <1>7, <1>8, <1>9, <1>10, <1>11 DEF IInv

\* The queue in front of the coordinator moves up by one.
LEMMA ShiftedCount ==
  ASSUME NEW S, NEW T, IsFiniteSet(T), S \subseteq Nat, \A i \in S : i + 1 \in T
  PROVE  IsFiniteSet(S) /\ Cardinality(S) <= Cardinality(T)
  <1> DEFINE next == [i \in S |-> i + 1]
  <1>1. next \in [S -> T]
    OBVIOUS
  <1>2. \A i, j \in S : next[i] = next[j] => i = j
    OBVIOUS
  <1>3. next \in Injection(S, T)
    BY <1>1, <1>2 DEF Injection, IsInjective
  <1>4. QED
    BY <1>3, FS_Injection

LEMMA ReadStep ==
  ASSUME IInv, CoordinatorReads
  PROVE  IInv'
  <1>1. /\ coord = "reading" /\ output # <<>> /\ output' = Tail(output) /\ CoordinatorOnly
        /\ UNCHANGED <<done, stopped, threadVars>>
    BY DEF CoordinatorReads
  <1>2. /\ scan' = scan /\ outcome' = outcome /\ emitted' = emitted /\ submitted' = submitted
        /\ final' = final /\ overlap' = overlap /\ cancelled' = cancelled /\ abort' = abort
        /\ tasks' = tasks /\ done' = done /\ stopped' = stopped
        /\ producer' = producer /\ worker' = worker
    BY <1>1 DEF CoordinatorOnly, scanVars, threadVars
  <1>3. /\ output' \in Seq(EventSet) /\ Len(output') = Len(output) - 1 /\ Len(output') \in Nat
        /\ 1 \in DOMAIN output /\ Head(output) = output[1] /\ output[1] \in EventSet
        /\ \A i \in DOMAIN output' : i \in Nat /\ i + 1 \in DOMAIN output /\ output'[i] = output[i + 1]
        /\ \A i \in DOMAIN output : i \in Nat /\ (i # 1 => i - 1 \in DOMAIN output' /\ output'[i - 1] = output[i])
    <2>1. output \in Seq(EventSet)
      BY ThreadFacts
    <2>2. QED
      BY <1>1, <2>1, TailFacts
  <1>4. PICK e \in EventSet : e = output[1]
    BY <1>3
  <1>5. /\ finished' = IF e.kind = "finished" THEN finished + 1 ELSE finished
        /\ listed' = IF e.kind = "domain" THEN listed \cup {e.value} ELSE listed
        /\ checked' = IF e.kind = "result" THEN checked \cup {e.value} ELSE checked
        /\ IF e.kind = "error" THEN End("gave up") \/ End("raised") ELSE UNCHANGED <<coord, ending>>
    BY <1>3, <1>4 DEF CoordinatorReads
  <1>6. /\ e.kind = "domain" => e.value \in Domains
        /\ e.kind = "result" => e.value \in Endpoints /\ e.value[1] \in listed
    <2>1. \A j \in DOMAIN output : ~(j < 1)
      BY <1>3
    <2>2. /\ e.kind = "domain" => e.value \in Domains
          /\ e.kind = "result" => e.value \in Endpoints /\ Listed(1)
      BY <1>3, <1>4 DEF IInv, OutputInv
    <2>3. QED
      BY <1>4, <2>1, <2>2 DEF Listed
  <1>7. /\ coord' \in {"reading", "stopping"} /\ ending' \in {"none", "gave up", "raised"}
        /\ ending' = "none" <=> coord' = "reading"
        /\ coord' = "reading" => e.kind # "error"
    <2>1. ending = "none"
      BY <1>1 DEF IInv, ScanInv
    <2>2. QED
      BY <1>1, <1>5, <2>1 DEF End
  <1>8. /\ finished \in Nat /\ finished' \in Nat /\ listed' \in SUBSET Domains /\ checked' \in SUBSET Endpoints
        /\ listed \subseteq listed' /\ checked \subseteq checked'
    <2>1. finished \in Nat /\ listed \in SUBSET Domains /\ checked \in SUBSET Endpoints
      BY DEF IInv, TypeOK
    <2>2. finished' \in Nat
      <3>1. finished' = finished + 1 \/ finished' = finished
        BY <1>5
      <3>2. QED
        BY <2>1, <3>1
    <2>3. listed' \in SUBSET Domains /\ listed \subseteq listed'
      BY <1>5, <1>6, <2>1
    <2>4. checked' \in SUBSET Endpoints /\ checked \subseteq checked'
      BY <1>5, <1>6, <2>1
    <2>5. QED
      BY <2>1, <2>2, <2>3, <2>4
  <1>9. TypeOK'
    <2>1. /\ scan' \in {"dns", "deferring", "ending", "waiting", "closing", "joining", "closed"}
          /\ outcome' \in {"none", "results", "raised"}
          /\ emitted' \in SUBSET Domains /\ submitted' \in SUBSET Domains /\ final' \in SUBSET Domains
          /\ cancelled' \in BOOLEAN /\ abort' \in BOOLEAN /\ done' \in BOOLEAN /\ stopped' \in BOOLEAN
      BY <1>2 DEF IInv, TypeOK
    <2>2. /\ overlap' \in Seq(Domains \cup {EndMark}) /\ tasks' \in Seq(Endpoints \cup {NoTask})
          /\ producer' \in ProducerSet /\ worker' \in [Workers -> WorkerSet]
      BY <1>2, ThreadFacts
    <2>3. QED
      BY <1>3, <1>7, <1>8, <2>1, <2>2 DEF TypeOK, ProducerSet, WorkerSet
  <1>10. ScanInv' /\ StartInv' /\ DrainedInv'
    <2>1. /\ scan' = "dns" => final' = Domains
          /\ scan' = "ending" => final' \subseteq submitted' \/ done'
          /\ abort' => outcome' # "none"
          /\ outcome' = "none" <=> scan' \in {"dns", "deferring", "ending", "waiting"}
          /\ ~done' /\ ~stopped' /\ outcome' # "results" /\ scan' # "closed"
      BY <1>1, <1>2 DEF IInv, ScanInv
    <2>2. QED
      BY <1>7, <2>1 DEF ScanInv, StartInv, DrainedInv
  <1>11. OverlapInv'
    BY <1>2 DEF IInv, OverlapInv, InQueue, AllPut
  <1>12. Announced \subseteq Announced'
    <2>1. SUFFICES ASSUME NEW d \in Announced PROVE d \in Announced'
      OBVIOUS
    <2>2. CASE d \in listed
      BY <1>8, <2>2 DEF Announced
    <2>3. CASE d \in Domains /\ \E i \in DOMAIN output : output[i] = Event("domain", d)
      <3>1. PICK i \in DOMAIN output : output[i] = Event("domain", d)
        BY <2>3
      <3>2. CASE i = 1
        <4>1. e.kind = "domain" /\ e.value = d
          BY <1>4, <3>1, <3>2 DEF Event
        <4>2. QED
          BY <1>5, <4>1 DEF Announced
      <3>3. CASE i # 1
        <4>1. i - 1 \in DOMAIN output' /\ output'[i - 1] = Event("domain", d)
          BY <1>3, <3>1, <3>3
        <4>2. QED
          BY <2>3, <4>1 DEF Announced
      <3>4. QED
        BY <3>2, <3>3
    <2>4. QED
      BY <2>1, <2>2, <2>3 DEF Announced
  <1>13. TasksInv'
    BY <1>2, <1>12 DEF IInv, TasksInv
  <1>14. OutputInv'
    <2>1. Len(output') <= Bound
      <3>1. Len(output) <= Bound /\ Len(output) = Len(output') + 1
        BY <1>3 DEF IInv, OutputInv
      <3>2. QED
        BY <1>3, <3>1, Sizes
    <2>2. \A i \in DOMAIN output' :
            /\ output'[i].kind = "domain" => output'[i].value \in Domains
            /\ output'[i].kind = "result" => output'[i].value \in Endpoints /\ Listed(i)'
      <3>1. TAKE i \in DOMAIN output'
      <3>2. /\ i \in Nat /\ i + 1 \in DOMAIN output /\ output'[i] = output[i + 1]
        BY <1>3
      <3>3. /\ output'[i].kind = "domain" => output'[i].value \in Domains
            /\ output'[i].kind = "result" => output'[i].value \in Endpoints /\ Listed(i + 1)
        BY <3>2 DEF IInv, OutputInv
      <3>4. Listed(i + 1) => Listed(i)'
        <4>1. PICK d : d = output[i + 1].value[1]
          OBVIOUS
        <4>2. CASE d \in listed
          BY <1>8, <3>2, <4>1, <4>2 DEF Listed
        <4>3. ASSUME NEW j \in DOMAIN output, j < i + 1, output[j] = Event("domain", d) PROVE Listed(i)'
          <5>1. CASE j = 1
            <6>1. e.kind = "domain" /\ e.value = d
              BY <1>4, <4>3, <5>1 DEF Event
            <6>2. d \in listed'
              BY <1>5, <6>1
            <6>3. QED
              BY <3>2, <4>1, <6>2 DEF Listed
          <5>2. CASE j # 1
            <6>1. j - 1 \in DOMAIN output' /\ output'[j - 1] = Event("domain", d) /\ j - 1 < i
              BY <1>3, <3>2, <4>3, <5>2
            <6>2. QED
              BY <3>2, <4>1, <6>1 DEF Listed
          <5>3. QED
            BY <5>1, <5>2
        <4>4. QED
          BY <4>1, <4>2, <4>3 DEF Listed
      <3>5. QED
        BY <3>3, <3>4
    <2>3. \A u \in checked' : u[1] \in listed'
      <3>1. \A u \in checked : u[1] \in listed
        BY DEF IInv, OutputInv
      <3>2. QED
        BY <1>5, <1>6, <1>8, <3>1
    <2>4. QED
      BY <2>1, <2>2, <2>3 DEF OutputInv
  <1>15. Here' = Here
    BY <1>2 DEF Here
  <1>16. CountInv'
    <2>1. FinishedAt' \subseteq Nat /\ \A i \in FinishedAt' : i + 1 \in FinishedAt \ {1}
      BY <1>3 DEF FinishedAt
    <2>2. IsFiniteSet(FinishedAt \ {1}) /\ Cardinality(FinishedAt \ {1}) \in Nat
      BY Counts, FS_RemoveElement, FS_CardinalityType
    <2>3. IsFiniteSet(FinishedAt') /\ Cardinality(FinishedAt') <= Cardinality(FinishedAt \ {1})
      BY <2>1, <2>2, ShiftedCount
    <2>4. Cardinality(FinishedAt') \in Nat
      BY <2>3, FS_CardinalityType
    <2>5. Cardinality(FinishedAt \ {1}) = IF e.kind = "finished" THEN Cardinality(FinishedAt) - 1 ELSE Cardinality(FinishedAt)
      <3>1. 1 \in FinishedAt <=> e.kind = "finished"
        BY <1>3, <1>4 DEF FinishedAt
      <3>2. QED
        BY <3>1, Counts, FS_RemoveElement
    <2>6. /\ Cardinality(FinishedAt) \in Nat /\ Cardinality(Here) \in Nat /\ Cardinality(Workers) \in Nat
          /\ finished + Cardinality(FinishedAt) + Cardinality(Here) <= Cardinality(Workers)
      BY Counts, Sizes DEF IInv, CountInv
    <2>7. finished' + Cardinality(FinishedAt') + Cardinality(Here) <= Cardinality(Workers)
      <3>1. CASE e.kind = "finished"
        <4>1. finished' = finished + 1 /\ finished \in Nat
          BY <1>5, <1>8, <3>1
        <4>2. Cardinality(FinishedAt') <= Cardinality(FinishedAt) - 1
          BY <2>3, <2>5, <3>1
        <4>3. QED
          BY <2>4, <2>6, <4>1, <4>2
      <3>2. CASE e.kind # "finished"
        <4>1. finished' = finished /\ finished \in Nat
          BY <1>5, <1>8, <3>2
        <4>2. Cardinality(FinishedAt') <= Cardinality(FinishedAt)
          BY <2>3, <2>5, <3>2
        <4>3. QED
          BY <2>4, <2>6, <4>1, <4>2
      <3>3. QED
        BY <3>1, <3>2
    <2>8. QED
      BY <1>15, <2>7 DEF CountInv
  <1>17. Live' => LiveInv'
    <2>1. SUFFICES ASSUME Live' PROVE LiveInv'
      OBVIOUS
    <2>2. e.kind # "error" /\ LiveInv
      BY <1>1, <1>2, <1>7, <2>1 DEF IInv, Live, Halt
    <2>3. ErrorIn' <=> ErrorIn
      BY <1>3, <1>4, <2>2 DEF ErrorIn
    <2>4. \A j \in FinishedAt : j # 1 => j - 1 \in FinishedAt' /\ j \in Nat
      BY <1>3 DEF FinishedAt
    <2>5. Here' = {} /\ ErrorIn' => \E i \in DOMAIN output', j \in FinishedAt' : i < j /\ output'[i].kind = "error"
      <3>1. SUFFICES ASSUME Here = {}, ErrorIn
                     PROVE  \E i \in DOMAIN output', j \in FinishedAt' : i < j /\ output'[i].kind = "error"
        BY <1>15, <2>3
      <3>2. PICK i \in DOMAIN output, j \in FinishedAt : i < j /\ output[i].kind = "error"
        BY <2>2, <3>1 DEF LiveInv
      <3>3. i # 1 /\ i \in Nat /\ j \in Nat /\ i >= 1 /\ j # 1
        BY <1>3, <1>4, <2>2, <3>2 DEF FinishedAt
      <3>4. i - 1 \in DOMAIN output' /\ output'[i - 1] = output[i]
        BY <1>3, <3>3
      <3>5. j - 1 \in FinishedAt' /\ i - 1 < j - 1
        BY <2>4, <3>2, <3>3
      <3>6. QED
        BY <3>2, <3>4, <3>5
    <2>6. ~Failing' => SoundInv'
      <3>1. SUFFICES ASSUME ~Failing' PROVE SoundInv'
        OBVIOUS
      <3>2. SoundInv
        BY <1>2, <2>2, <2>3, <3>1 DEF LiveInv, Failing
      <3>3. producer'.pc \in {"sentinels", "gone"} => overlap' = <<>> /\ AllPut' /\ final' \subseteq submitted'
        BY <1>2, <3>2 DEF SoundInv, AllPut
      <3>4. \A d \in producer'.seen : d \in Announced' \/ (producer'.domain = d /\ producer'.pc = "announce")
        BY <1>2, <1>12, <3>2 DEF SoundInv
      <3>5. \A d \in producer'.seen, k \in {1, 2} : Done(d, k)'
        <4>1. TAKE d \in producer'.seen, k \in {1, 2}
        <4>2. Done(d, k)
          BY <1>2, <3>2 DEF SoundInv
        <4>3. ASSUME NEW i \in DOMAIN output, output[i] = Event("result", <<d, k>>) PROVE Done(d, k)'
          <5>1. CASE i = 1
            <6>1. e.kind = "result" /\ e.value = <<d, k>>
              BY <1>4, <4>3, <5>1 DEF Event
            <6>2. <<d, k>> \in checked'
              BY <1>5, <6>1
            <6>3. QED
              BY <6>2 DEF Done
          <5>2. CASE i # 1
            <6>1. i - 1 \in DOMAIN output' /\ output'[i - 1] = Event("result", <<d, k>>)
              BY <1>3, <4>3, <5>2
            <6>2. QED
              BY <6>1 DEF Done
          <5>3. QED
            BY <5>1, <5>2
        <4>4. QED
          BY <1>2, <1>8, <4>2, <4>3 DEF Done, InQueue
      <3>6. Here' = {} => \A i \in DOMAIN output' : \E j \in FinishedAt' : i <= j
        <4>1. SUFFICES ASSUME Here = {}, NEW i \in DOMAIN output' PROVE \E j \in FinishedAt' : i <= j
          BY <1>15
        <4>2. i \in Nat /\ i >= 1 /\ i + 1 \in DOMAIN output
          BY <1>3
        <4>3. PICK j \in FinishedAt : i + 1 <= j
          BY <3>2, <4>1, <4>2 DEF SoundInv
        <4>4. j \in Nat
          BY <1>3 DEF FinishedAt
        <4>5. j # 1 /\ i <= j - 1
          BY <4>2, <4>3, <4>4
        <4>6. QED
          BY <2>4, <4>3, <4>5
      <3>7. QED
        BY <3>3, <3>4, <3>5, <3>6 DEF SoundInv
    <2>7. /\ producer'.pc # "unborn" /\ \A w \in Workers : worker'[w].pc # "unborn"
          /\ \A i \in DOMAIN tasks' : tasks'[i] = NoTask => producer'.pc \in {"sentinels", "gone"}
          /\ \A i, j \in DOMAIN tasks' : tasks'[i] = NoTask /\ i < j => tasks'[j] = NoTask
          /\ \A w \in Workers : worker'[w].pc \in {"last", "gone"} =>
               ErrorIn' \/ (producer'.pc \in {"sentinels", "gone"} /\ \A i \in DOMAIN tasks' : tasks'[i] = NoTask)
      BY <1>2, <2>2, <2>3 DEF LiveInv
    <2>8. QED
      BY <2>5, <2>6, <2>7 DEF LiveInv
  <1>18. QED
    BY <1>9, <1>10, <1>11, <1>13, <1>14, <1>16, <1>17 DEF IInv

\* The coordinator reads no more.
LEMMA CoordinatorFrame ==
  ASSUME IInv, CoordinatorOnly, UNCHANGED <<output, finished, listed, checked, threadVars>>,
         coord \notin {"starting", "returned"}, coord' \in {"stopping", "joining", "returned"},
         ending' \in {"drained", "gave up", "raised"},
         done' = (coord' = "returned"), stopped' = (coord' # "stopping"),
         done => done', DrainedInv'
  PROVE  IInv'
  <1>1. /\ scan' = scan /\ outcome' = outcome /\ emitted' = emitted /\ submitted' = submitted
        /\ final' = final /\ overlap' = overlap /\ cancelled' = cancelled /\ abort' = abort
        /\ tasks' = tasks /\ output' = output /\ finished' = finished /\ listed' = listed
        /\ checked' = checked /\ producer' = producer /\ worker' = worker
    BY DEF CoordinatorOnly, scanVars, threadVars
  <1>2. TypeOK'
    <2>1. /\ scan' \in {"dns", "deferring", "ending", "waiting", "closing", "joining", "closed"}
          /\ outcome' \in {"none", "results", "raised"}
          /\ emitted' \in SUBSET Domains /\ submitted' \in SUBSET Domains /\ final' \in SUBSET Domains
          /\ cancelled' \in BOOLEAN /\ abort' \in BOOLEAN
      BY <1>1 DEF IInv, TypeOK
    <2>2. finished' \in Nat /\ listed' \in SUBSET Domains /\ checked' \in SUBSET Endpoints
      BY <1>1 DEF IInv, TypeOK
    <2>3. /\ overlap' \in Seq(Domains \cup {EndMark}) /\ tasks' \in Seq(Endpoints \cup {NoTask})
          /\ producer' \in ProducerSet /\ worker' \in [Workers -> WorkerSet] /\ output' \in Seq(EventSet)
      BY <1>1, ThreadFacts
    <2>4. done' \in BOOLEAN /\ stopped' \in BOOLEAN
      OBVIOUS
    <2>5. QED
      BY <2>1, <2>2, <2>3, <2>4 DEF TypeOK, ProducerSet, WorkerSet
  <1>3. ScanInv' /\ StartInv'
    <2>1. /\ scan' = "dns" => final' = Domains
          /\ scan' = "ending" => final' \subseteq submitted' \/ done'
          /\ abort' => outcome' # "none"
          /\ outcome' = "none" <=> scan' \in {"dns", "deferring", "ending", "waiting"}
          /\ outcome' # "results" /\ scan' # "closed"
      BY <1>1 DEF IInv, ScanInv
    <2>2. QED
      BY <2>1 DEF ScanInv, StartInv
  <1>4. OverlapInv'
    BY <1>1 DEF IInv, OverlapInv, InQueue, AllPut
  <1>5. TasksInv'
    BY <1>1 DEF IInv, TasksInv, Announced
  <1>6. OutputInv'
    BY <1>1 DEF IInv, OutputInv, Listed
  <1>7. CountInv'
    <2>1. Here' = Here /\ FinishedAt' = FinishedAt
      BY <1>1 DEF Here, FinishedAt
    <2>2. QED
      BY <1>1, <2>1 DEF IInv, CountInv
  <1>8. ~Live'
    BY DEF Live
  <1>9. QED
    BY <1>2, <1>3, <1>4, <1>5, <1>6, <1>7, <1>8 DEF IInv

\* Every probe thread has finished and no event is left: everything was done.
LEMMA AllDone ==
  ASSUME IInv, Live, finished = Cardinality(Workers)
  PROVE  AllPut /\ \A d \in final : d \in listed /\ <<d, 1>> \in checked /\ <<d, 2>> \in checked
  <1>1. Here = {} /\ FinishedAt = {}
    <2>1. /\ Cardinality(FinishedAt) \in Nat /\ Cardinality(Here) \in Nat /\ Cardinality(Workers) \in Nat
          /\ finished + Cardinality(FinishedAt) + Cardinality(Here) <= Cardinality(Workers)
      BY Counts, Sizes DEF IInv, CountInv
    <2>2. Cardinality(FinishedAt) = 0 /\ Cardinality(Here) = 0
      BY <2>1
    <2>3. QED
      BY <2>2, Counts, FS_EmptySet
  <1>2. LiveInv
    BY DEF IInv
  <1>3. ~ErrorIn
    BY <1>1, <1>2 DEF LiveInv
  <1>4. \A w \in Workers : worker[w].pc = "gone"
    BY <1>1 DEF Here
  <1>5. producer.pc \in {"sentinels", "gone"} /\ \A i \in DOMAIN tasks : tasks[i] = NoTask
    BY <1>2, <1>3, <1>4, PipelineAssumption DEF LiveInv
  <1>6. SoundInv
    BY <1>2, <1>3, <1>4, <1>5 DEF LiveInv, Failing
  <1>7. DOMAIN output = {}
    BY <1>1, <1>6 DEF SoundInv
  <1>8. overlap = <<>> /\ AllPut /\ final \subseteq submitted
    BY <1>5, <1>6 DEF SoundInv
  <1>9. ASSUME NEW d \in final
        PROVE  d \in listed /\ <<d, 1>> \in checked /\ <<d, 2>> \in checked
    <2>1. d \in producer.seen
      <3>1. ~InQueue(overlap, d)
        BY <1>8 DEF InQueue
      <3>2. QED
        BY <1>8, <1>9, <3>1 DEF IInv, OverlapInv
    <2>2. d \in listed
      BY <1>5, <1>6, <1>7, <2>1 DEF SoundInv, Announced
    <2>3. \A k \in {1, 2} : ~InQueue(tasks, <<d, k>>)
      BY <1>5 DEF InQueue, NoTask
    <2>4. \A k \in {1, 2} : Done(d, k)
      BY <1>6, <2>1 DEF SoundInv
    <2>5. \A k \in {1, 2} : <<d, k>> \in checked
      BY <1>4, <1>5, <1>7, <2>3, <2>4 DEF Done
    <2>6. QED
      BY <2>2, <2>5
  <1>10. QED
    BY <1>8, <1>9

LEMMA CoordinatorStep ==
  ASSUME IInv, Coordinator \/ CoordinatorFails
  PROVE  IInv'
  <1>1. CASE CoordinatorEnds \/ CoordinatorFails
    <2>1. /\ coord = "reading" /\ coord' = "stopping" /\ CoordinatorOnly
          /\ UNCHANGED <<output, done, stopped, finished, listed, checked, threadVars>>
          /\ \/ ending' = "raised" \/ ending' = "gave up"
             \/ ending' = "drained" /\ finished = Cardinality(Workers)
      BY <1>1 DEF CoordinatorEnds, CoordinatorFails, End
    <2>2. ~done /\ ~stopped /\ outcome # "results"
      BY <2>1 DEF IInv, ScanInv
    <2>3. done' = FALSE /\ stopped' = FALSE
      BY <2>1, <2>2 DEF IInv, TypeOK
    <2>4. DrainedInv'
      <3>1. /\ outcome' = outcome /\ scan' = scan /\ final' = final /\ cancelled' = cancelled
            /\ abort' = abort /\ listed' = listed /\ checked' = checked
        BY <2>1 DEF CoordinatorOnly, scanVars
      <3>2. SUFFICES ASSUME ending' = "drained", ~Halt PROVE DrainedInv'
        BY <2>2, <3>1 DEF DrainedInv, Halt
      <3>3. Live /\ finished = Cardinality(Workers)
        BY <2>1, <3>2 DEF Live
      <3>4. QED
        BY <3>1, <3>3, AllDone DEF DrainedInv, AllPut
    <2>5. QED
      BY <2>1, <2>2, <2>3, <2>4, CoordinatorFrame
  <1>2. CASE CoordinatorStops \/ CoordinatorReturns
    <2>1. /\ CoordinatorOnly /\ UNCHANGED <<output, ending, finished, listed, checked, threadVars>>
          /\ \/ coord = "stopping" /\ coord' = "joining" /\ stopped' = TRUE /\ done' = done
             \/ coord = "joining" /\ coord' = "returned" /\ stopped' = stopped /\ done' = TRUE
      BY <1>2 DEF CoordinatorStops, CoordinatorReturns
    <2>2. /\ ~done /\ (stopped <=> coord = "joining") /\ ending # "none"
          /\ done \in BOOLEAN /\ stopped \in BOOLEAN /\ ending \in {"none", "drained", "gave up", "raised"}
      BY <2>1 DEF IInv, ScanInv, TypeOK
    <2>3. /\ ending' \in {"drained", "gave up", "raised"}
          /\ done' = (coord' = "returned") /\ stopped' = (coord' # "stopping")
      BY <2>1, <2>2
    <2>4. DrainedInv'
      BY <2>1 DEF IInv, DrainedInv, CoordinatorOnly, scanVars, Halt, AllPut
    <2>5. QED
      BY <2>1, <2>2, <2>3, <2>4, CoordinatorFrame
  <1>3. QED
    BY <1>1, <1>2, StartStep, ReadStep DEF Coordinator

LEMMA NextInv == IInv /\ [Next]_vars => IInv'
  <1> SUFFICES ASSUME IInv, [Next]_vars PROVE IInv'
    OBVIOUS
  <1>1. CASE UNCHANGED vars
    <2>1. UNCHANGED <<scanVars, overlap, cancelled, abort, captureVars, threadVars, tasks, output>>
      BY <1>1 DEF vars
    <2>2. TypeOK'
      BY <2>1, ScanTypes DEF IInv, TypeOK, scanVars
    <2>3. ScanInv'
      BY <2>1 DEF IInv, ScanInv, scanVars, captureVars
    <2>4. OverlapInv'
      BY <2>1 DEF IInv, OverlapInv, InQueue, AllPut, scanVars, threadVars
    <2>5. QED
      BY <2>1, <2>2, <2>3, <2>4, ScanFrame DEF Halt, AllPut, scanVars
  <1>2. QED
    BY <1>1, OfferStep, CancelStep, ScanThreadStep, ProducerStep, CoordinatorStep, WorkerStep DEF Next

LEMMA AlwaysIInv == Spec => []IInv
  BY InitInv, NextInv, PTL DEF Spec

-------------------------------------------------------------------------------
(* What follows.                                                           *)

\* The queues between the threads never hold more than their sizes, nothing is
\* queued twice, and what CaptureOverlap counts as submitted is queued, was taken
\* or did not resolve.
THEOREM QueuesHold == Spec => []PipelineInv
  <1>1. IInv => PipelineInv
    BY DEF IInv, PipelineInv, OverlapInv, TasksInv, OutputInv
  <1>2. QED
    BY <1>1, AlwaysIInv, PTL

\* "A full queue means defer, never drop", for any number of hostnames and probe
\* threads: when finish takes the results of a capture that ran to its end, every
\* hostname that resolved was announced and both its endpoints were checked.
THEOREM DeferNeverDrops == Spec => []NothingIsLost
  <1>1. IInv => NothingIsLost
    BY DEF IInv, DrainedInv, NothingIsLost
  <1>2. QED
    BY <1>1, AlwaysIInv, PTL

\* A result never overtakes the announcement of its hostname, although another
\* thread put that one on the coordinator's queue.
THEOREM AnnouncedBeforeChecked == Spec => []ResultsFollowListing
  <1>1. IInv => ResultsFollowListing
    <2>1. SUFFICES ASSUME IInv PROVE ResultsFollowListing
      OBVIOUS
    <2>2. \A u \in checked : u[1] \in listed
      BY <2>1 DEF IInv, OutputInv
    <2>3. ASSUME output # <<>>, Head(output).kind = "result" PROVE Head(output).value[1] \in listed
      <3>1. output \in Seq(EventSet)
        BY <2>1, ThreadFacts
      <3>2. 1 \in DOMAIN output /\ Head(output) = output[1] /\ \A j \in DOMAIN output : ~(j < 1)
        BY <2>3, <3>1
      <3>3. QED
        BY <2>1, <2>3, <3>2 DEF IInv, OutputInv, Listed
    <2>4. QED
      BY <2>2, <2>3 DEF ResultsFollowListing
  <1>2. QED
    BY <1>1, AlwaysIInv, PTL

\* The adapters go to the next scan only after the capture thread has returned and
\* its threads were told to stop.
THEOREM AdaptersComeBackQuiet == Spec => []RestoredIsQuiet
  <1>1. IInv => RestoredIsQuiet
    BY DEF IInv, ScanInv, RestoredIsQuiet
  <1>2. QED
    BY <1>1, AlwaysIInv, PTL
===============================================================================
