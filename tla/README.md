# Formal model of the typo-squat monitor

TLA+ modules, TLC configurations and TLAPS proofs for the scanning core of
`src/monitor/typo_monitor`: what a scan changes in a client's saved DNS history,
how scans are queued, stopped, scheduled, recovered and deleted, what one scan
does from discovery to publication with its threads and its DNS relay, how website
capture overlaps DNS resolution, and what a website check is compared with and
decides.  The source is the reference; every definition
that models code is listed under `map` in `PROJECT.json` with its lines.

## The system

The monitor keeps *projects* (clients).  A scan of a project discovers or reuses
seed names, generates look-alike hostnames, resolves them, classifies parking,
captures websites and, in one transaction at the end, publishes the result.  One
process serves a web interface, runs one scan thread and one schedule thread, and
keeps everything in SQLite and in one folder per run.

| Component | State | Operations | Hard behaviour | What makes it correct |
|---|---|---|---|---|
| DNS history (`store.py`) | `projects`, `runs`, `inventory`, `domain_states`, observations | `start_run`, `finish_run`, `fail_run`, `cancel_run`, `recover_interrupted_runs`, `delete_report` | long sequences of scans that are negative, uncertain, interrupted or on another DNS route | every reported change is backed by what scans observed |
| Scan service (`service.py`) | `_futures`, `_cancel_events`, `_proxy_snapshots`, `_mutex`, `_closed`, the executor and its thread | `submit_scan`, `cancel_scan`, `_execute`, `close`, `__init__` | requests, the scan thread, shutdown and crashes interleave; a stopped scan goes on working | one scan per project, one end per run, no result of a stopped run, no private URL left over |
| Schedules (`service.py`, `store.py`) | `scan_schedules`, the schedule thread | `_schedule_tick`, `_schedule_due`, `advance_schedule`, `set_schedules`, `set_schedule` | rows read before they are used, stops and crashes between queueing and advancing | due scans start, and no deadline is served twice |
| Deletion (`service.py`, `store.py`) | `artifact_cleanup`, folders and progress files | `delete_report`, `delete_project`, `_cleanup_deleted_artifacts` | a thread still using what is deleted; a crash before the files are gone | nothing in use is deleted, nothing is left behind |
| Capture overlap (`scan_pipeline.py`, `capture_pipeline.py`) | four kinds of threads, three bounded queues, three stop signals | `offer`, `finish`, `close`, `produce`, `worker`, `events`, `capture_stream` | full queues, threads that die, retracted positives, stops at any point | nothing is lost, nobody waits for ever |
| MassDNS batch (`massdns.py`) | offset, per-hostname answers, counters | `resolve`, the incremental reader | output read while it is written, duplicates, conflicts | a result only from consistent answers |
| Bounded map (`concurrency.py`) | pending futures, first failure, stop event | `bounded_map` | one item fails, or the scan is stopped, while others run | everything joined, the first error raised |
| Proxy relay (`proxy.py`) | pending questions by transaction id | `DnsRelay._run`, `close` | late answers, reused ids and ports | an answer reaches the question's sender |
| DNS lookups (`adapters.py`, `parking.py`) | the answers of one host | `observe`, `_lookup_ns` | failing and contradicting answers | nothing is claimed that the network did not say |
| Discovery ensemble (`discovery_ensemble.py`, engines) | per-engine status, merged names | `discover`, the engines' threads | parallel engines, stops | each name and each status has its source |
| Stages of a scan (`service.py`) | seeds, candidates, results of a run | `_execute` | stops, errors and shutdown in every stage | what is published is whole, and shown as it ended |
| Progress (`progress.py`) | one shared state per file | `update` | late reports of a draining thread | terminal stages stick |
| Capture decisions (`capture_changes.py`, `screenshots.py`, `capture_baselines`) | published captures, image folders | `compare`, `_deduplicate_protocols`, `report_entries`, `website_text_notes` | evidence of different scans combined; small changes add up | every page has a screenshot that shows it, every change is told |
| Web, exports, filters, demo, packaging | none of their own | handlers, renderers | none | outside the model |

Interaction.  Web requests and the schedule thread call the service, which holds
`_mutex` around each of them (except the form of the former single schedule, which
writes to the store directly).  The scan thread takes `_mutex` only to publish and to record a failure.
Every Store method is one SQLite transaction.  The scan thread
starts the capture thread, which starts a producer and probe workers; they share
bounded queues, the run's cancellation signal and the overlap's abort event.

## Modules

```
DnsHistory ---- MCDnsHistory          ScanLedger <== ScanService ---- MCScanService
    |                                   (INSTANCE, refinement)
DnsHistoryProofs (TLAPS)              CapturePipeline ---- MCCapturePipeline
                                      MassDns ---- MCMassDns
ScanServiceProofs, CapturePipelineProofs, MassDnsProofs (TLAPS), each over its module

Cancellation --+-- BoundedMap --+-- DnsLookup --+       CaptureChanges
               |   DnsRelay ----+               |             |
               +-- Discovery -------------------+       CaptureHistory
                      |                         |             +-- CaptureHistoryProofs (TLAPS)
                   Progress                 ScanStages        |
                                                |       MCCaptureHistory
                                           MCScanStages
BoundedMapProofs, DnsRelayProofs (TLAPS) ------ ScanStagesProofs (TLAPS)
```

The `MC` modules only add model values and symmetry sets.

### DnsHistory

One action per transaction: `StartRun`, `FinishRun`, `FailRun`, `CancelRun`,
`RecoverInterruptedRuns`, `DeleteReport`.  `state` is the `domain_states` table,
`project` the two columns of the project row that matter here, `runs` the runs
table in starting order with the answer each accepted scan got for each hostname.
That history outlives `DeleteReport`, which in the code drops the observation
rows: it is there so that properties can speak about what was observed.

`FinishRun` computes each row through `Previous` (the route reset), `Observed`
(the row after an answer) and `Change` (the event).  Answers are abstracted to a
record set, `negative` (NXDOMAIN or no answer), `unknown`, or `unchecked` (the
hostname is in the inventory but not in the results).  The terminal statuses
`completed` and `partial` are one status.

Properties:

- `AbsenceEventIsEarned`: an absence is reported only when the last `Threshold`
  attempts of the project were accepted, negative for the hostname and on one
  route, and the hostname resolved before.
- `MissingStatusIsEarned`: the stored status `missing` always goes back to such a
  confirmation on the accepted route with nothing since that contradicts it.
- `LastGoodRecordsRemain`, `ChangesHaveBaseline`, `ResolutionEventsMatchHistory`:
  records, baselines and the other events agree with the accepted history.
- `HistoryInv`: the inductive invariant of the proofs, checked by TLC first.

### ScanLedger and ScanService

`ScanLedger` is the promise: runs of a project start one at a time, end once, are
accepted only while nobody asked to stop them, and reports and projects go away
only while nothing of them is running.

`ScanService` is the implementation.  `stored` is what survives a crash (tables
and files), `memory` what does not.  The code that holds `_mutex` is split where
someone who does not need it can come in between: `submit_scan` into `Asks` (it takes
the mutex and reads the project and, for the schedule thread, its deadline), `Enqueue`
(the run row and the future; the executor may start the run at once) or `SubmitRefused`
(another scan is running, or an error, before there is a run), and `SubmitEnds` /
`SubmitFails` (the schedule advances, or fails to).  `SubmitScan` is `Asks` for a user,
`SchedulerSubmits` for the schedule thread.  `_closed` is read in `Asks` only, so a run
can be queued after a stop was announced, as in the code; `cancel_scan` into `CancelScan` and `CancelEnds`;
deletion into the commit and `CleanupRemoves` / `CleanupEnds`.  `_execute` is
`WorkerStarts`, `WorkerBreaks` (an error before its try block), `WorkerWorks`,
`WorkerPublishes`, `WorkerSettles` and `WorkerEnds`.  `close` is `CloseBegins`,
`CloseQueued` and `ServerStops`.  `Restart` is `__init__`.  The schedule
thread's tick is `SchedulerTicks` (the rows it read), `SchedulerChecks`,
`SchedulerSubmits`, `SchedulerSkips`.

A deadline is `off`, `waiting` or `due`; `Elapse` makes it due.  `SaveSchedules` is
the form with both cadences (`set_schedules`, under the mutex: an interval saved again
keeps its deadline), `SaveSchedule` the form of the former single schedule
(`set_schedule`), which replaces both by one and takes no mutex, so it can come between
the check of a deadline (`SchedulerSubmits`), the queueing of its run (`Enqueue`) and its
advance (`SubmitEnds`).  Saves while the service closes are left out:
they are saves after the restart.  A run's private
proxy URLs are its membership in `snapshots`.  A publication is the run's identity
in `accepted`; what it does to the DNS history is `DnsHistory`.

Properties:

- `ServiceInv`, `DeletionWaitsForWorker`, `NoLostArtifacts`, `SnapshotsReleased`,
  `StopEndsEverything`, `LedgerSpec`: threads, futures, rows, files and private URLs.
- `DeadlinesServedOnce`: the schedule thread queues a scan only for a deadline that is
  still owed.  Since the cadence rows can change between the check and the queueing, the
  row at the moment of queueing says little: the form without the mutex may have just
  withdrawn the deadline, and the scan is queued all the same.  The code accepts that (the
  user's form and the tick met), but it promises that a deadline already covered by another
  scan is not served again (`service.py:336-337`).  `ScanService` therefore has a history
  variable, `owed`, which is kept nowhere in the code and no guard reads: a deadline is owed from
  the moment it passes until a scan that covers it is queued (`Covered`) or it is withdrawn
  before the schedule thread took it up (`StillOwed`), and again when that scan is lost before the
  schedule advanced (`OwedAgain`).
- `SavedSchedulesHold`: an enumeration that is due is not deferred by a cached scan, and what
  the user turned off stays off.
- `DueScansStart`, `EveryScanEnds`: liveness.

The refinement mapping (`Ledger == INSTANCE ScanLedger WITH ...`) hides everything
but projects, runs and acceptance.  `wanted` is the set of runs that are running
while the server is open and their cancel event is not set: a stop request or the
announcement of a shutdown is `Withdraw`, and an accepted run must still be in
`wanted`.  A run queued after the announcement starts unwanted.  TLC checks `Ledger!Spec` as a property of the detailed runs.

### CapturePipeline

`scan` is the scan thread inside `CaptureOverlap`, `coord` the capture thread
(`capture_stream` around `_PreflightFeed.events`), `producer` the domains thread,
`worker[w]` the probe threads.  `overlap`, `tasks`, `output` are the three queues.
A wait with a timeout that looks at a stop signal is an action with two disjuncts:
the queue has room (or an element), or the signal is set.  `final` is what DNS
resolved in the end: until then it filters nothing, and it need not
contain what was offered early.

The coordinator reads `output` with no deadline until every probe thread has said that it
finished, so `ScanThreadReturns` is about that loop: `CoordinatorEnds` has the two ways out
the loop itself offers.  An error of its own (`CoordinatorFails`: a file, the browser) and a
hostname that does not normalise (`ProducerRejects`) may come at any moment and never have to.

`NothingIsLost` speaks of `ending = "drained"`: a stage that gave up leaves
diagnostics instead of results, and the code says so in the report.

### MassDns

`process`, `unread`, `fragment` are the MassDNS process and the file it appends to
(external), `reader`'s variables are those of `_OutputReader`, `stage` is where
`resolve` and `_run_command` are.  One action reads one line (`ReadReply` with
`Merged`, `Counted`, `Emits`; `ReadReject`); a poll is as many of them as the
file and `MAX_POLL_BYTES` allow, so it ends anywhere.  A line is a reply to one
question, a malformed one, or one of an unpatched binary.  A reply carries the
status and records that `_parse_reply` makes of it; how it validates wire data is
left out.  `Rejects` stands for the limits on size and on surplus lines, an
unreadable file and a failed DNS relay.

`Verdict` is the reference: what the set of all replies says of a question,
without any order.  `AnswersMatchOutput` compares the incremental reader with it at every
step, `OutcomeMatchesOutput` the returned batch, `CountsMatchAnswers` the progress
counters with the answers.  `CapturePipeline` abstracts this module: `emitted` is
what it offers early, `outcome` what may retract it.

### BoundedMap and Cancellation

`Cancellation` is `_CancellationSignal`, the one stop signal all adapters of a scan
read.  `BoundedMap` is `bounded_map`: the caller's thread submits, waits, yields,
raises and drains (`Submit` ... `Leave`), the pool's threads begin, finish or fail.
`check()` is `Ok` and `Reason`; a thread that begins after the stop ends with the
guard's error (`refused`), which must not hide the failure that caused the stop.
`FailEnds` is separate from `Fail`: between them the failure is recorded but the future
is not done.

### DnsRelay and DnsLookup

`entries` is the relay's table: who waits under which of its own ids.  `Forward`,
`DropQuestion`, `Expire`, `Answer`, `RelayFails` and `CloseRelay` are the branches of
`_run` and `close`; sockets, datagrams and the resolver upstream are external.  A
question leaves the table after its time, and its id may be given again while the old
answer is still outside: `outside` keeps every question that may be answered.
`DnsLookup` runs `observe` and `_lookup_ns` as the functions of the map: the questions
in order, the routes checked first, each answer direct or through the relay, and
`Observation` / `NsVerdict` for what the answers together say.

### Discovery and Progress

`Discovery` is `CombinedDiscovery.discover`: the engines' threads
(`Launch` first), their statuses, and the scan's thread that accepts, counts and merges.
An engine runs one command per root and writes names as a set; `ScopeOf` says which
root a name lies under.  `Progress` is `RunProgress.update`: terminal stages stick,
and a report without a new message may miss the file.

### ScanStages

One run through `_execute`, from the thread that takes it to the closed routes, with
everything above as parts: `TakeRun`, discovery, `Generate`, `Resolve` / `Enrich` over
the map, `Announce`, `Publish`, `ReportOutcome`, and `Fallout` for every error.
`Stop` is `cancel_scan`, `CloseService` is `close`.  `ScanService` has all of this as
one step of the worker; here the queue, the schedule and other runs are left out.

- `NoWorkOutlivesCall`, `FirstFailureIsReported`, `AnswersFitTheirAsker`: the promises
  of the two parts.
- `ObservationsTellTheTruth`: lost, late and failed answers make a host `unknown`,
  never unregistered, resolving or parked.
- `PublishedScanIsWhole`: an accepted run covers the saved search space and today's, has
  an answer for every candidate, and nobody had asked to stop it.
- `DiscoveryIsAttributed`: every merged name goes back to an engine that wrote it, and the merged
  status says no more than the engines' statuses do.
- `OutcomeIsShown`, `ProgressMovesForward`: the progress file ends on the status in the
  database, and never goes back.
- `EveryScanReturns`: with stops, dead relays and failing engines anywhere.

### CaptureChanges and CaptureHistory

`CaptureChanges` holds the decisions as operators of their arguments: what a saved check is
evidence of (`ObservedTitle`, `TextComplete`, `StructureKnown`), `Compare` with the
order of its reasons (`Recapture` is the ladder of early returns), `ApplyPreflight`,
`Deduplicate` for two protocols with one body, and the report (`ResolvedChange`,
`Priority`, `Entry`, `Noted`).  A page has a title, words, forms, a place, and a
layout: a number, two layouts matching when they are at most one apart.  `compare_layout`
is a similarity with a threshold, and the essential fact about it is that matching is
not transitive.

`CaptureHistory` applies them to scans of one host: `StartScan` takes the baselines
(`Baselines`, one per kind of evidence over accepted runs), `CheckWebsites` tries each
protocol (`ProbeStatus`: with the certificate checked, then without) and decides,
`Browse` visits what is queued, `Publish` inserts the rows, `Abandon` is a scan that
fails.  `CheckFails` is a website stage that fails in a scan that is published all the
same: its rows are attempts that say nothing about the site.  `DeleteReport` removes
rows and images, `LoseImages` images alone.

- `NothingGoesUnseen`: a responding page that a changes scan leaves alone has a saved screenshot
  that shows it (own or twin's), however many small changes, failures and deletions lie
  between.
- `QuietPagesStayQuiet`: a page that has not changed since its screenshot is not visited
  again because checks in between failed or could not tell.
- `ChangesAreTold`, `TitleChangesLead`: what reads differently is in the report, and a
  new title leads it, also when one protocol stands for both.
- `AvailabilityIsTold`: outages are reported exactly against the last check that could
  tell, and only when the server itself refused.

What the properties had to allow, read from the code.  A title change on
one protocol is only a context note when its twin already had that title, or had none
to compare, or only its own address (`TitleChangesLead` names the cases).  A page without any
words is never a complete reading, so a text comparison visits it in every scan
(`QuietPagesStayQuiet`).  One wording change is told nowhere (`LeftToTwin` in
`ChangesAreTold`): a protocol whose browser failed has no image; a title scan leaves it to
its twin; then its wording becomes the one the twin had all along, `_deduplicate_protocols` leaves
it to the twin again, and the twin is quiet because it is what it was
(`src/monitor/typo_monitor/screenshots.py:258`).  "No title" is remembered only while the
latest check was complete.  Pages titled by scripts alone are captured in every scan.
An image from before structure was recorded stands as long as the lineage of quiet
checks does (`Lineage`), so drift is not bounded there, which is why `Shows` asks for a
layout only where the image's check has one.  Text that stays and a layout
that moves a little on another DNS or HTTP route counts as unchanged content.

## Runs

All with two TLC workers.

| Run | Instance | Shows |
|---|---|---|
| `dns_history` | 1 hostname, 2 record sets, 2 routes, threshold 2, 5 scans, 1 deletion | the invariant and the properties of the history |
| `dns_history_absence` | 1 record set, 6 scans | finding: one absence reported twice |
| `dns_history_routes` | 2 hostnames, 3 scans | finding: a records change across two routes |
| `scan_service` | 2 projects, 2 scans, 2 crashes or stops, 2 faults, no schedules | ownership, deletion, artifacts, private URLs, shutdown, and the refinement of `ScanLedger` |
| `scan_schedules` | 1 project with both cadences, 2 scans, 1 crash or stop, fairness | that a deadline is served once, deferral, and that due scans start and scans end |
| `scan_scheduler` | 2 projects, one scheduled | finding: a deletion ends the schedule thread |
| `scan_urls` | 1 project, 1 fault | finding: an early error keeps private URLs |
| `capture_pipeline` | 2 hostnames, 1 probe worker, overlap queue of 1 | nothing lost, order of results, hand-back of adapters |
| `capture_ends` | 1 hostname, 1 worker, fairness | the scan thread gets out |
| `mass_dns` | 2 hostnames, 2 query types, 5 lines, 1 line ahead of the reader | incremental reading agrees with the whole output |
| `scan_stages` | 4 starting points, 2 engines, 2 workers, 4 names, 2 record types, a relay with 2 ids and room for 1 question, fairness | nothing outlives a stage, answers fit their askers, published scans are whole and shown as they ended, and every scan returns |
| `capture_history` | both protocols of one host, 7 pairs of readings, 3 setups, 2 published scans and a third up to publishing, 1 day, 1 lost image folder | no page goes unseen, quiet pages stay quiet, changes and availability are told |

Why the bounds are enough.  Rows of different hostnames do not influence each
other within `FinishRun` except through `Informative`, so one hostname with
`unchecked` answers covers a row's life; five scans hold a resolution, a
confirmed absence and a route change with room for an interruption, and the
theorems drop the bounds for every property of this run.  `dns_history_routes` needs
a second hostname, because the baseline must be informative through another one.
With two projects and two scans, a deletion, a stop and a submission can each hit
the other project's or the other run's step, and the queue holds a run while the
thread works on another; two crashes include one during the recovery of the first.
In the pipeline an overlap queue of one place is full whenever one hostname waits,
so offering, deferring and the end marker all meet a full queue, and the queues of
two places of one worker fill with the four endpoints of two hostnames.
Five lines complete both hostnames of the MassDNS run and contradict one answer;
two of the three query types suffice, because all of them are treated alike.

The four starting points of `scan_stages` are a first scan of two roots (stopped by
the user or the service at any point), a later scan behind a proxy with a saved
inventory and typos to generate, a cached scan through the relay, and a cached scan
without an inventory (`MCScanStages`).  `setup.stops` says who may stop the scan:
only the first scan is stopped, because the stop checks are the same in all of them.
Two workers and up to three candidates hold a failing, a running and a waiting item at
once; `MaxEntries` 1 with two ids makes the relay's table full with one question, and
two ports make one socket's late answer meet another's question.  `MaxFlight` bounds
the datagrams under way, not how often a question is asked.  Two of the three record
types suffice for contradictions between them; the code treats the three alike.
Drift needs three scans of one page (captured, moved a little, moved a little more);
so do evidence of two scans combined in a third, and a deleted or lost image between.
The pages of `capture_history` do not reach `LeftToTwin`, which takes a twin that reads
alike, a full title scan and two browsers that fail; the theorems of `CaptureHistoryProofs`
cover it with every other page and setup.

`CHECK_DEADLOCK FALSE` everywhere: the bounds end the counters, a service may be
stopped for good, and a pipeline ends.

Symmetry is used on projects, hostnames, record sets and query types in runs without liveness
properties only.

### Fairness

`FairSpec` of `ScanService` assumes: the threads run (weak fairness of the scan
thread's and the schedule thread's steps that need no lock, and of a mutex holder's);
`Lock` is handed on in the end (strong fairness of the steps that wait for `_mutex`:
publishing or settling, `CloseQueued`, and the scheduler's submission or its skipping); the
stages of a scan end, since every adapter has a deadline; the executor joins its thread
(`ServerStops`) and a process that died is started again
(`restart: unless-stopped` in `src/monitor/compose.yaml:27`).  Users need not do
anything: requests, `CloseBegins`, `Crash` and errors carry no fairness, nor does a
restart after a graceful stop.

`FairSpec` of `CapturePipeline` assumes only that each thread runs: each DNS run,
probe and browser stage has its own deadline, and the code's waits with a timeout
re-check their stop signals.  Nothing is assumed to fail: neither `CoordinatorFails` nor
`ProducerRejects`, nor anyone's `Cancel`, is fair, so a coordinator that waits for a mark that never
comes waits for ever in the model too.

`FairSpec` of `ScanStages` assumes that some thread of the scan (its own, an engine's,
a lookup's) runs while one of them can: engine processes and questions end by their own
timeouts, which are steps of those threads.  Nothing is assumed of the network, the
relay or anyone who stops the scan.

Liveness excuses.  `DueScansStart` and `EveryScanEnds` name the runs whose thread
broke before its try block (`WorkerBreaks`, see the findings); `DueScansStart` also
names the dead schedule thread and the bound on runs.

## Findings

1. *One absence, two events* (`dns_history_absence`, `store.py:850-851`).  An
   accepted scan on another route with nothing informative resets statuses without
   starting a baseline.
2. *Cross-route records change* (`dns_history_routes`, `store.py:864`).  A hostname
   uncertain in the new route's baseline scan is compared with the old route's
   records in the next one.
3. *Deletion ends the schedule thread* (`scan_scheduler`, `service.py:737`).
   `_schedule_due` is outside the try block and raises for a project deleted since
   the tick read its row.
4. *Private URLs outlive a run* (`scan_urls`, `service.py:451`).  An error before
   the try block of `_execute` skips the `finally` that releases them and leaves the
   run running.

`ScanService` also contains a path without a finding: `close` can raise on a run
deleted since its submission failed (`service.py:761`, server state `aborted`);
no document says what it owes then, and the stop still ends every run.

## Proofs

Each `...Proofs` module extends the module it is about.  The assumptions are those the
modules state by name; TLC evaluates them in every run.

`DnsHistoryProofs` proves, for every set of hostnames, record sets and routes,
every threshold of at least two and every number of scans and deletions:

- `TypeCorrect`: `Spec => []TypeOK`;
- `HistoryInvariant`: `Spec => []HistoryInv`, with `AbsenceEventsAreEarned` and
  `MissingStatusesAreEarned`, the two absence properties;
- `ReportsInvariant`: `Spec => []ReportsInv`, with `RecordsRemain`, `ReportsHaveBaseline`
  and `EventsMatchHistory`, the properties of what is shown and reported.

Assumptions: `HistoryAssumption` in `DnsHistory` (the initial route is a route,
the threshold a natural number of at least two, record sets are not the words for the
other answers).  `finish_run` refuses a smaller threshold.

Argument.  Neither absence property is inductive: it speaks of attempts, and a
step only sees the counter and the status.  `HistoryInv` adds what the counter
means.  `CountIsAStreak` says that unless the latest ended attempt was interrupted,
the last `count` attempts were accepted, on the accepted route and negative;
`finish_run` extends the streak by one or starts over, and `InterruptedSequence`
restarts it exactly where the clause says nothing.  `SeenMeansResolved` carries the
earlier resolution, `OnlyNewestRuns` makes "the run being finished" the last
one, `OutsidersAreBlank` covers names that enter the inventory later.
`ConfirmedIsStable` moves a confirmation across steps that leave earlier outcomes
alone (all of them do), `QuietStep` covers the steps that touch no row, `FinishStep`
the one that does.

The reports need a memory of their own.  `RecordsInv` says that a row's records are
those of its last accepted resolution, or that there was none; `BaselineInv` that
the project knows its newest baseline and that it ran on the project's route; `EventsInv` names for
each stored event the resolution it refers to, in place of the maximum that the
property computes.

`ScanServiceProofs` proves, for any number of projects, runs, restarts and failed
removals (`ServiceAssumption`; `NoOne` is no project because it stands for the empty column):

- `ServiceInvariant`, `WorkerKeepsItsRun`, `ArtifactsAreKnown`, `UrlsAreHeldForRuns`,
  `StopIsComplete`: the five invariants of its run;
- `DeadlinesAreServedOnce`, `SchedulesAreTheUsers`: the two action properties of the
  schedules;
- `ServiceImplementsLedger`: the refinement of `ScanLedger`, each step mapped to a step of the
  ledger or to a stutter.

`IInv` has the rows in order and owned (`RowInv`), what the holder of the mutex has
done so far (`HolderInv`), the executor's queue, futures and thread (`ThreadInv`), and the
goals themselves.  The clause that is easy to miss is `WaitingComesFirst`: while the
ended futures are still tracked, no queued future is younger than a cancelled one,
unless its submission is still under way.  `close` reads the status of the runs in order and can
raise half way; without the clause nothing says that the queue behind that point was
cancelled.  For `DeadlinesAreServedOnce`, `OwedInv` adds that a row says due only of a deadline that is
owed or is being served (`Serving`), and that what the schedule thread asked for is owed.  The first
clause is what a tick's old rows, a lost run and a form in the middle of a submission could break:
`AsksUntilQueued` and `ServesUntilAdvanced` follow a submission to its end, `OwedUntilQueued` a
deadline to its scan.

`CapturePipelineProofs` proves, for any hostnames, any finite number of probe threads
but zero, and any capacity but zero (`PipelineAssumption`; the end marker is no
hostname): `QueuesHold`, `DeferNeverDrops`, `AnnouncedBeforeChecked` and
`AdaptersComeBackQuiet`.  `IInv` follows a hostname through the three queues:
`OverlapInv` (the end marker is last and comes after all that resolved), `TasksInv` and `OutputInv` (an
endpoint, a result, is behind its hostname's announcement wherever it is), `CountInv` (each probe thread
announces its end once, so that `Here = {}` is known from counting), and `LiveInv` for
a capture nobody halted, whose `SoundInv` says where each endpoint of a taken hostname
still is.  `DrainedInv` is what remains true after the queues are gone.

`MassDnsProofs` proves, for any finite sets of hostnames and types and any lengths of
output (`BatchAssumption`): `ReadingIsWhole`, `CountersAreTrue` and
`OutcomeIsTrusted`.  The reader merges replies one at a time, the property compares with
the set of all replies: `MergedVerdict` is the lemma between the two, by the cases none, one and
several distinct replies; the counters are cardinalities of the categories, and one reply moves at most one
hostname.

`BoundedMapProofs` proves, for every finite set of items, every number of workers
and every moment of a stop (`MapAssumption`): `NoWorkOutlives`, `FirstFailure`,
`ResultsWhole` (a call that returns has yielded a value for every item) and
`PoolBounded`.  `MapInv` says where each item is (unread, pending, yielded, or given up
by the drain), that a future that is not done is held by the caller, and that a recorded failure is
what is raised.  `CallerKeeps` goes through the caller's steps, `WorkerKeeps` through
the pool's; `AbandonKeeps` is the finally block they share.

`DnsRelayProofs` proves, for all ports, ids, questions and every table smaller than its
finite key space (`RelayAssumption`): `AnswersFit` (a socket gets only what it asked under this id)
and `RoomRemains` (a free id exists whenever one is sought).  `RelayInv` ties each
entry and each answer under way to a question in `asked`; `EntryRemoved` serves expiry
and answers alike.

`ScanStagesProofs` first proves a lemma, `Composition`: every scan is a behaviour of both modules
(`Spec => MapSpec /\ RelaySpec`), for all names, engines, zones and setups
(`StagesAssumption`).  `MapStep` and `RelayStep` take each action of the scan to a step
of the part or to a stutter; they need `StagesInv`, which types the scan's own values
and the lookups, because a call is only given items, and a question only asked, that the parts know.
`ScanNoWorkOutlives`, `ScanFirstFailure` and `ScanAnswersFit` then follow from the
theorems of the parts without another induction.  Then come the scan's own promises:

- `DiscoveryAttributed`: `EngineInv` keeps `provenance` equal to what the finished engines found, and
  an engine that reports "ok" without an open root or an error.
- `OutcomeShown`: `EndInv` ties the stage of the thread, the status in the database and what is shown.
- `ProgressForward`: `ShownInv` says that what is shown is never ahead of the stage the scan is at;
  `ReportMoves` does the rest for every thread that reports.
- `ObservationsTrue`: `LookupInv` says that every answer a lookup got, and every letter in the mail,
  is the zone's or a failure (with the relay's own invariant); `ResultsInv` that nothing else
  becomes an observation or a parking result.
- `PublishedWhole`: `WholeInv` collects what each stage adds.  That every item got an
  observation rests on `MapInv` of `BoundedMapProofs`, through `Composition`: a call that ends has
  yielded what it was given.

`StagesAssumption` has one conjunct about saved state: the typos of a seed that is marked
as generated are among the saved candidates.  `finish_run` stores marker and candidates in one
transaction (`src/monitor/typo_monitor/store.py:937`), and without it a scan that skips a generated
seed could publish less than its search space.

`CaptureHistoryProofs` proves, for any pages and setups of the shapes in
`CaptureAssumption` and any number of scans, days and lost folders, the six invariants of its run:
`TypeCorrect`, `AvailabilityTold`, `NothingUnseen`, `QuietStays`, `ChangesTold` and
`TitlesLead`.  Layouts are any integers there, and titles, words, forms and places any
strings.  The argument has three layers:

- What one decision can be.  `RecaptureCases` (the ladder of `compare`), `WebKinds`,
  `DecisionCases` (each protocol keeps its own decision, or is left to a twin that is visited or
  rests on its image) and `RowFields` turn the operators of `CaptureChanges` into the few
  facts the rest uses.
- What the evidence is.  `LatestRow` says that each baseline is the newest row of its
  kind, which needs `DaysInv`: a scan is published before the day ends, so that the
  order by day and the order by run are one.
- What a scan is.  Reports, files and the day stand still while a scan is under way, so
  `ScanInv` gives its whole state as a function of the reports and of what it was asked
  and found; the properties of a scan become facts about that function.

`IInv` is `TypeOK`, `DaysInv`, `ScanInv` and `FormsInv`.  The last is the only
memory of earlier decisions: a check that was skipped on the strength of an earlier page
(`base`) has the forms of that page.  `NothingGoesUnseen` needs it when the layout of the
image's own check is not known: then what ties the page to the screenshot is the chain of quiet
checks, and each link of it keeps the forms.  The layout has no such clause, because matching is
not transitive; `ImageMatches` compares it with the image's own check wherever that has one.
`SmallStaysSmall` is the lemma behind `ChangesTold`: a small update keeps its forms and
its structure, so that it never leads the report, and a page that rests on a screenshot has
not drifted from it; small updates are what `website_text_notes` notes.

Three statements came out of this proof corrected, each from a leaf that could not be
proved: the title, the page without words, and `LeftToTwin`, named above under what the properties had to
allow.  For the last one TLC found the counterexample once its pages included a rewording of
one protocol and its setups a full title scan.

Only model-checked: all liveness, which is out of the prover's reach (`DueScansStart`,
`EveryScanEnds`, `ScanThreadReturns` and `EveryScanReturns`).  Every safety property and
every action property of a passing run is also a theorem.

## Not modelled

Record normalisation, enrichment tables, comparison scopes, report layout, exports, the
web interface, external tools and network I/O; `PROJECT.json` lists each part with
its reason.  Hazards that no property covers carry a note there.  In the parts that are modelled:

- The clock never steps back, and image evidence is never from the future
  (`image_baseline_future_date` is in `Recapture`, no run reaches it).
- The capture modes of the cadences.  `advance_schedule` does not advance a full cached
  cadence for an enumeration that captures changes only, so "Queueing a full scan
  advances both enabled cadences" (`src/monitor/README.md:514`) does not hold of that
  pair; the cadences of `ScanService` have no mode.
- Full captures (`mode` other than `changes`) are in `CaptureChanges` and in the theorems of
  `CaptureHistory`; the run only scans for changes.  Endpoint-change notes and the capture decision log are left out.
- The relay serves one resolver; duplicated datagrams and packets from other
  addresses are left out (late answers are in).  `HttpProxy` and `SocksEndpoint` handle
  streams without shared state.
- What the network knows of a name stays the same during a scan; errors while writing
  the progress file; scans with discovery disabled; the screenshot source status among
  the sources of `ScanStages`, where website capture is not a stage.
- `ScanStages` uses the system resolver; MassDNS is in its own module.

## Plan

1. Compose `MassDns` with `CapturePipeline` through provisional positives.
2. The capture modes of the two cadences with the exception `advance_schedule` makes
   for them, the server-wide fallback interval, and clocks that step back.
3. `CaptureHistory`: full captures, endpoint-change notes; several hosts with
   their own ports.

The two violations of `DnsHistory` and the two of `ScanService` stay as runs until
the code changes; a module above that shares a component with an existing run
extends it before it gets a run of its own.
