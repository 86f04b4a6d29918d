---------------------------- MODULE CapturePipeline ----------------------------
(***************************************************************************)
(* Website capture while DNS is still running: CaptureOverlap of           *)
(* scan_pipeline.py, and the capture thread it starts, capture_stream and  *)
(* _PreflightFeed of capture_pipeline.py.                                  *)
(*                                                                         *)
(* The scan thread offers provisional DNS positives to a bounded queue and *)
(* never waits for it; when DNS ends it puts what it deferred and an end   *)
(* marker.  A producer thread takes hostnames off that queue and gives two *)
(* endpoints each to probe workers through a second bounded queue; a third *)
(* brings announcements and results to the coordinator, which is the       *)
(* capture thread.  Waits with a timeout that re-check a stop are waits    *)
(* that a stop also ends.  Rows, metrics and the browser are abstracted to *)
(* which hostnames were announced and which endpoints were checked.        *)
(***************************************************************************)
EXTENDS Naturals, Sequences, FiniteSets

CONSTANTS
  Domains,    \* the candidates of the scan
  Workers,    \* the probe workers
  Capacity    \* maxsize of the overlap queue

EndMark == "end"          \* _END, which is no hostname

ASSUME PipelineAssumption ==
  IsFiniteSet(Workers) /\ Workers # {} /\ Capacity \in Nat \ {0} /\ EndMark \notin Domains

VARIABLES
  scan,       \* where the scan thread is
  outcome,    \* what finish did: "none" yet, "results" or "raised"
  emitted,    \* provisional positives the resolver reported
  submitted,  \* hostnames put on the overlap queue
  final,      \* final_resolving; before DNS ends it filters nothing
  overlap,    \* the overlap queue
  cancelled,  \* the run's cancellation signal
  abort,      \* set by close
  coord,      \* where the capture thread is
  ending,     \* how capture_stream ended: drained, gave up (a failed stage) or raised
  done,       \* set when the capture thread ends
  stopped,    \* the stream's own stop event
  producer,   \* the domains thread: where it is, its hostname, what it has seen
  worker,     \* the probe threads
  tasks,      \* endpoints to probe, NoTask ends a worker
  output,     \* what the coordinator reads
  finished,   \* workers the coordinator saw finish
  listed,     \* hostnames with rows in results
  checked     \* endpoints with a recorded diagnostic

scanVars    == <<scan, outcome, emitted, submitted, final>>
captureVars == <<coord, ending, done, stopped, finished, listed, checked>>
threadVars  == <<producer, worker>>
vars == <<scanVars, overlap, cancelled, abort, captureVars, threadVars, tasks, output>>

NoOne   == "no hostname"
NoTask  == <<"end", 0>>                 \* the None that ends a worker
Endpoints == Domains \X {1, 2}          \* http and https
Bound     == 2 * Cardinality(Workers)   \* maxsize of tasks and output

\* Faulty: a queue holds one more than its size.
RoomOrOneMore(queue, size) == Len(queue) <= size
Room(queue, size) == Len(queue) < size

Halt     == cancelled \/ abort          \* capture.cancel_event
GivesUp  == stopped \/ Halt             \* when a put of the feed returns False

Event(kind, value) == [kind |-> kind, value |-> value]

Init ==
  /\ scan = "dns" /\ outcome = "none" /\ emitted = {} /\ submitted = {} /\ final = Domains
  /\ overlap = <<>> /\ cancelled = FALSE /\ abort = FALSE
  /\ coord = "starting" /\ ending = "none" /\ done = FALSE /\ stopped = FALSE
  /\ producer = [pc |-> "unborn", domain |-> NoOne, seen |-> {}, left |-> 0]
  /\ worker = [w \in Workers |-> [pc |-> "unborn", url |-> NoTask]]
  /\ tasks = <<>> /\ output = <<>> /\ finished = 0 /\ listed = {} /\ checked = {}

-------------------------------------------------------------------------------
(* The scan thread.                                                        *)

Others == UNCHANGED <<cancelled, captureVars, threadVars, tasks, output>>

\* Faulty: a positive that finds the queue full counts as submitted.
OfferDropping(d) ==
  /\ scan = "dns" /\ d \notin emitted
  /\ emitted' = emitted \cup {d}
  /\ submitted' = IF done \/ cancelled THEN submitted ELSE submitted \cup {d}
  /\ overlap' = IF ~done /\ ~cancelled /\ Room(overlap, Capacity) THEN Append(overlap, d) ELSE overlap
  /\ UNCHANGED <<scan, outcome, final, abort>> /\ Others

\* offer: the resolver reports each provisional positive at most once; a full
\* queue, a capture thread that ended or a cancellation leaves it for later.
Offer(d) ==
  LET taken == d \notin submitted /\ ~done /\ ~cancelled /\ Room(overlap, Capacity) IN
  /\ scan = "dns" /\ d \notin emitted
  /\ emitted' = emitted \cup {d}
  /\ submitted' = IF taken THEN submitted \cup {d} ELSE submitted
  /\ overlap' = IF taken THEN Append(overlap, d) ELSE overlap
  /\ UNCHANGED <<scan, outcome, final, abort>> /\ Others

\* DNS ends.  Any hostname may resolve in the end, a provisional positive may not.
DnsEnds ==
  /\ scan = "dns" /\ ~cancelled
  /\ final' \in SUBSET Domains
  /\ scan' = "deferring"
  /\ UNCHANGED <<outcome, emitted, submitted, overlap, abort>> /\ Others

\* The resolver or a stop raises: finish is never called.
DnsFails ==
  /\ scan = "dns"
  /\ scan' = "closing" /\ outcome' = "raised"
  /\ UNCHANGED <<emitted, submitted, final, overlap, abort>> /\ Others

Deferred == final \ submitted

\* finish puts the next deferred hostname (in any order; the code sorts them),
\* or stops deferring once the capture thread has ended.
PutDeferred(d) ==
  /\ scan = "deferring"
  /\ d \in Deferred
  /\ \/ /\ done
        /\ scan' = "ending"
        /\ UNCHANGED <<overlap, submitted>>
     \/ /\ ~done /\ ~cancelled /\ Room(overlap, Capacity)
        /\ overlap' = Append(overlap, d) /\ submitted' = submitted \cup {d}
        /\ UNCHANGED scan
  /\ UNCHANGED <<outcome, emitted, final, abort>> /\ Others

AllDeferred ==
  /\ scan = "deferring" /\ Deferred = {}
  /\ scan' = "ending"
  /\ UNCHANGED <<outcome, emitted, submitted, final, overlap, abort>> /\ Others

\* Faulty: wait for room whether or not anybody still reads the queue.
PutEndWaiting ==
  /\ scan = "ending"
  /\ ~cancelled /\ Room(overlap, Capacity) /\ overlap' = Append(overlap, EndMark)
  /\ scan' = "waiting"
  /\ UNCHANGED <<outcome, emitted, submitted, final, abort>> /\ Others

PutEnd ==
  /\ scan = "ending"
  /\ \/ done /\ UNCHANGED overlap
     \/ ~done /\ ~cancelled /\ Room(overlap, Capacity) /\ overlap' = Append(overlap, EndMark)
  /\ scan' = "waiting"
  /\ UNCHANGED <<outcome, emitted, submitted, final, abort>> /\ Others

\* _check_cancel raises while putting.
FinishStops ==
  /\ scan \in {"deferring", "ending"} /\ ~done /\ cancelled
  /\ scan' = "closing" /\ outcome' = "raised"
  /\ UNCHANGED <<emitted, submitted, final, overlap, abort>> /\ Others

\* finish waits for the capture thread and reconciles, unless the scan stopped.
Reconcile ==
  /\ scan = "waiting" /\ coord = "returned"
  /\ outcome' = IF cancelled THEN "raised" ELSE "results"
  /\ scan' = "closing"
  /\ UNCHANGED <<emitted, submitted, final, overlap, abort>> /\ Others

\* close: abort, wait for the capture thread, give the adapters back.
CloseAborts ==
  /\ scan = "closing"
  /\ abort' = TRUE /\ scan' = "joining"
  /\ UNCHANGED <<outcome, emitted, submitted, final, overlap>> /\ Others

\* Faulty: give the adapters back without waiting.
RestoreAtOnce ==
  /\ scan = "joining"
  /\ scan' = "closed"
  /\ UNCHANGED <<outcome, emitted, submitted, final, overlap, abort>> /\ Others

Restore ==
  /\ scan = "joining" /\ coord = "returned"
  /\ scan' = "closed"
  /\ UNCHANGED <<outcome, emitted, submitted, final, overlap, abort>> /\ Others

\* The user stops the run or the server shuts down.
Cancel ==
  /\ ~cancelled /\ scan # "closed"
  /\ cancelled' = TRUE
  /\ UNCHANGED <<scanVars, overlap, abort, captureVars, threadVars, tasks, output>>

-------------------------------------------------------------------------------
(* The domains thread of _PreflightFeed, on top of CaptureOverlap._domains. *)

ProducerOnly == UNCHANGED <<scanVars, cancelled, abort, captureVars, worker>>
GoTo(pc) == producer' = [producer EXCEPT !.pc = pc]
Sentinels == [producer EXCEPT !.pc = "sentinels", !.left = Cardinality(Workers)]

\* Faulty: a hostname's endpoints are queued without announcing it.
ProducerPullsOnly ==
  LET d == Head(overlap) IN
  /\ producer.pc = "pull" /\ overlap # <<>>
  /\ overlap' = Tail(overlap)
  /\ producer' = IF d = EndMark THEN Sentinels
                 ELSE IF d \notin final \/ d \in producer.seen THEN producer
                 ELSE [producer EXCEPT !.pc = "http", !.domain = d, !.seen = @ \cup {d}]
  /\ UNCHANGED <<tasks, output>> /\ ProducerOnly

\* Take the next hostname; one that did not resolve in the end is skipped.
ProducerPulls ==
  LET d == Head(overlap) IN
  /\ producer.pc = "pull" /\ overlap # <<>>
  /\ overlap' = Tail(overlap)
  /\ producer' = IF d = EndMark THEN Sentinels
                 ELSE IF d \notin final \/ d \in producer.seen THEN producer
                 ELSE [producer EXCEPT !.pc = "announce", !.domain = d, !.seen = @ \cup {d}]
  /\ UNCHANGED <<tasks, output>> /\ ProducerOnly

\* A stop ends the iterator, a cancellation raises in it.
ProducerStops ==
  /\ producer.pc \in {"pull", "announce"}
  /\ \/ GivesUp /\ producer' = Sentinels
     \/ Halt /\ GoTo("error")
  /\ UNCHANGED <<overlap, tasks, output>> /\ ProducerOnly

\* A hostname that is not valid raises.
ProducerRejects ==
  /\ producer.pc = "announce" /\ GoTo("error")
  /\ UNCHANGED <<overlap, tasks, output>> /\ ProducerOnly

ProducerReports ==
  /\ producer.pc = "error"
  /\ \/ Room(output, Bound) /\ output' = Append(output, Event("error", NoTask))
     \/ GivesUp /\ UNCHANGED output
  /\ producer' = Sentinels
  /\ UNCHANGED <<overlap, tasks>> /\ ProducerOnly

ProducerAnnounces ==
  /\ producer.pc = "announce"
  /\ Room(output, Bound)
  /\ output' = Append(output, Event("domain", producer.domain))
  /\ GoTo("http")
  /\ UNCHANGED <<overlap, tasks>> /\ ProducerOnly

\* Queue both endpoints; giving up goes straight to the sentinels.
ProducerQueues ==
  /\ \/ /\ producer.pc = "http" /\ Room(tasks, Bound)
        /\ tasks' = Append(tasks, <<producer.domain, 1>>) /\ GoTo("https")
     \/ /\ producer.pc = "https" /\ Room(tasks, Bound)
        /\ tasks' = Append(tasks, <<producer.domain, 2>>) /\ GoTo("pull")
     \/ /\ producer.pc \in {"http", "https"} /\ GivesUp
        /\ producer' = Sentinels /\ UNCHANGED tasks
  /\ UNCHANGED <<overlap, output>> /\ ProducerOnly

\* One end marker per worker, until a put gives up.
ProducerEnds ==
  /\ producer.pc = "sentinels"
  /\ \/ /\ producer.left > 0 /\ Room(tasks, Bound)
        /\ tasks' = Append(tasks, NoTask)
        /\ producer' = [producer EXCEPT !.left = @ - 1]
     \/ /\ producer.left = 0 \/ GivesUp
        /\ GoTo("gone") /\ UNCHANGED tasks
  /\ UNCHANGED <<overlap, output>> /\ ProducerOnly

-------------------------------------------------------------------------------
(* A probe worker.                                                         *)

WorkerOnly == UNCHANGED <<scanVars, overlap, cancelled, abort, captureVars, producer>>
Move(w, pc, url) == worker' = [worker EXCEPT ![w] = [pc |-> pc, url |-> url]]

WorkerTakes(w) ==
  /\ worker[w].pc = "get" /\ tasks # <<>>
  /\ tasks' = Tail(tasks)
  /\ IF Head(tasks) = NoTask THEN Move(w, "last", NoTask) ELSE Move(w, "probe", Head(tasks))
  /\ UNCHANGED output /\ WorkerOnly

\* A stop ends the loop, a cancellation raises in it.
WorkerStops(w) ==
  /\ worker[w].pc = "get" /\ GivesUp
  /\ Move(w, IF stopped THEN "last" ELSE "error", NoTask)
  /\ UNCHANGED <<tasks, output>> /\ WorkerOnly

\* The probe of an endpoint ends with a diagnostic or raises.
WorkerProbes(w) ==
  /\ worker[w].pc = "probe"
  /\ Move(w, "put", worker[w].url) \/ Move(w, "error", NoTask)
  /\ UNCHANGED <<tasks, output>> /\ WorkerOnly

WorkerPuts(w) ==
  /\ worker[w].pc = "put"
  /\ \/ /\ Room(output, Bound)
        /\ output' = Append(output, Event("result", worker[w].url)) /\ Move(w, "get", NoTask)
     \/ GivesUp /\ Move(w, "last", NoTask) /\ UNCHANGED output
  /\ UNCHANGED tasks /\ WorkerOnly

WorkerReports(w) ==
  /\ worker[w].pc = "error"
  /\ \/ Room(output, Bound) /\ output' = Append(output, Event("error", NoTask))
     \/ GivesUp /\ UNCHANGED output
  /\ Move(w, "last", NoTask)
  /\ UNCHANGED tasks /\ WorkerOnly

\* Faulty: a worker that is done leaves without a word.
WorkerEndsQuietly(w) ==
  /\ worker[w].pc = "last"
  /\ Move(w, "gone", NoTask)
  /\ UNCHANGED <<tasks, output>> /\ WorkerOnly

\* The finally block announces the end, unless the stream has stopped.
WorkerEnds(w) ==
  /\ worker[w].pc = "last"
  /\ \/ Room(output, Bound) /\ output' = Append(output, Event("finished", NoTask))
     \/ GivesUp /\ UNCHANGED output
  /\ Move(w, "gone", NoTask)
  /\ UNCHANGED tasks /\ WorkerOnly

-------------------------------------------------------------------------------
(* The capture thread: capture_stream around _PreflightFeed.events.        *)

CoordinatorOnly == UNCHANGED <<scanVars, overlap, cancelled, abort, tasks>>
End(how) == ending' = how /\ coord' = "stopping"

\* Its threads start with the first event; artifacts of an earlier capture, or
\* a stop, end it before.
CoordinatorStarts ==
  /\ coord = "starting"
  /\ \/ /\ ~Halt
        /\ coord' = "reading"
        /\ producer' = [producer EXCEPT !.pc = "pull"]
        /\ worker' = [w \in Workers |-> [pc |-> "get", url |-> NoTask]]
        /\ UNCHANGED ending
     \/ End(IF Halt THEN "raised" ELSE "gave up") /\ UNCHANGED threadVars
  /\ UNCHANGED <<output, done, stopped, finished, listed, checked>> /\ CoordinatorOnly

CoordinatorReads ==
  LET event == Head(output) IN
  /\ coord = "reading" /\ output # <<>> /\ finished < Cardinality(Workers)
  /\ output' = Tail(output)
  /\ finished' = IF event.kind = "finished" THEN finished + 1 ELSE finished
  /\ listed' = IF event.kind = "domain" THEN listed \cup {event.value} ELSE listed
  /\ checked' = IF event.kind = "result" THEN checked \cup {event.value} ELSE checked
  /\ IF event.kind = "error" THEN End("gave up") \/ End("raised") ELSE UNCHANGED <<coord, ending>>
  /\ UNCHANGED <<done, stopped, threadVars>> /\ CoordinatorOnly

\* A cancellation, or every worker finished and the browser drained (or stopped
\* at its deadline).
CoordinatorEnds ==
  /\ coord = "reading"
  /\ \/ Halt /\ End("raised")
     \/ finished = Cardinality(Workers) /\ End("drained")
  /\ UNCHANGED <<output, done, stopped, finished, listed, checked, threadVars>> /\ CoordinatorOnly

\* An error of its own: a file or the browser fails.
CoordinatorFails ==
  /\ coord = "reading" /\ End("gave up")
  /\ UNCHANGED <<output, done, stopped, finished, listed, checked, threadVars>> /\ CoordinatorOnly

\* The finally blocks: stop the threads and wait for them up to a deadline.
CoordinatorStops ==
  /\ coord = "stopping"
  /\ stopped' = TRUE /\ coord' = "joining"
  /\ UNCHANGED <<output, ending, done, finished, listed, checked, threadVars>> /\ CoordinatorOnly

CoordinatorReturns ==
  /\ coord = "joining"
  /\ coord' = "returned" /\ done' = TRUE
  /\ UNCHANGED <<output, ending, stopped, finished, listed, checked, threadVars>> /\ CoordinatorOnly

-------------------------------------------------------------------------------
ScanThread ==
  \/ \E d \in Domains : PutDeferred(d)
  \/ DnsEnds \/ DnsFails \/ AllDeferred \/ PutEnd \/ FinishStops \/ Reconcile \/ CloseAborts \/ Restore
Producer == ProducerPulls \/ ProducerStops \/ ProducerReports \/ ProducerAnnounces
            \/ ProducerQueues \/ ProducerEnds
Worker(w) == WorkerTakes(w) \/ WorkerStops(w) \/ WorkerProbes(w) \/ WorkerPuts(w)
             \/ WorkerReports(w) \/ WorkerEnds(w)
Coordinator == CoordinatorStarts \/ CoordinatorReads \/ CoordinatorEnds
               \/ CoordinatorStops \/ CoordinatorReturns

Next ==
  \/ \E d \in Domains : Offer(d)
  \/ Cancel \/ ScanThread \/ Producer \/ ProducerRejects \/ Coordinator \/ CoordinatorFails
  \/ \E w \in Workers : Worker(w)

Spec == Init /\ [][Next]_vars

\* Every thread runs; DNS has its own deadline, and so has every probe.  Nothing owes
\* an invalid hostname or a failing coordinator: while no event arrives it reads on.
Fairness ==
  WF_vars(ScanThread) /\ WF_vars(Producer) /\ WF_vars(Coordinator) /\ \A w \in Workers : WF_vars(Worker(w))

FairSpec == Spec /\ Fairness

-------------------------------------------------------------------------------
(* Correctness.                                                            *)

EventSet == [kind : {"domain", "result", "error", "finished"}, value : Domains \cup Endpoints \cup {NoTask}]

TypeOK ==
  /\ scan \in {"dns", "deferring", "ending", "waiting", "closing", "joining", "closed"}
  /\ outcome \in {"none", "results", "raised"}
  /\ emitted \in SUBSET Domains /\ submitted \in SUBSET Domains /\ final \in SUBSET Domains
  /\ overlap \in Seq(Domains \cup {EndMark})
  /\ cancelled \in BOOLEAN /\ abort \in BOOLEAN /\ done \in BOOLEAN /\ stopped \in BOOLEAN
  /\ coord \in {"starting", "reading", "stopping", "joining", "returned"}
  /\ ending \in {"none", "drained", "gave up", "raised"}
  /\ producer \in [pc : {"unborn", "pull", "announce", "http", "https", "error", "sentinels", "gone"},
                   domain : Domains \cup {NoOne}, seen : SUBSET Domains, left : Nat]
  /\ worker \in [Workers -> [pc : {"unborn", "get", "probe", "put", "error", "last", "gone"},
                             url : Endpoints \cup {NoTask}]]
  /\ tasks \in Seq(Endpoints \cup {NoTask})
  /\ output \in Seq(EventSet)
  /\ finished \in Nat /\ listed \in SUBSET Domains /\ checked \in SUBSET Endpoints

InQueue(q, x) == \E i \in DOMAIN q : q[i] = x

\* The queues keep their sizes, nothing is queued twice, and a hostname the scan
\* thread considers submitted is still queued, was taken, or did not resolve.
PipelineInv ==
  /\ TypeOK
  /\ Len(overlap) <= Capacity /\ Len(tasks) <= Bound /\ Len(output) <= Bound
  /\ \A i, j \in DOMAIN overlap : overlap[i] = overlap[j] => i = j
  /\ \A d \in submitted : InQueue(overlap, d) \/ d \in producer.seen \/ d \notin final

\* "A full queue means defer, never drop": if capture ran to its end, every
\* hostname that resolved in the end was announced and both its endpoints
\* checked, whatever was offered early, deferred or skipped on the way.
NothingIsLost ==
  outcome = "results" /\ ending = "drained" =>
    \A d \in final : d \in listed /\ {<<d, 1>>, <<d, 2>>} \subseteq checked

\* The coordinator has rows for an endpoint when its result arrives, although
\* announcement and result come from different threads.
ResultsFollowListing ==
  /\ \A u \in checked : u[1] \in listed
  /\ output # <<>> /\ Head(output).kind = "result" => Head(output).value[1] \in listed

\* Adapters go back to the next scan only after the capture thread is done with
\* them and its helper threads were told to stop.
RestoredIsQuiet == scan = "closed" => coord = "returned" /\ stopped

\* The scan thread always gets out: no queue that is full, no thread that died
\* and no stop leaves it waiting, though the coordinator, which has no deadline,
\* waits for the last word of every worker.
ScanThreadReturns == <>(scan = "closed")
===============================================================================
