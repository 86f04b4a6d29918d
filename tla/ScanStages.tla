------------------------------ MODULE ScanStages ------------------------------
(***************************************************************************)
(* ScanService._execute (service.py) for one run, from the thread that     *)
(* takes it to the release of its routes: discovery, generation, DNS,      *)
(* parking, publication, and the ways out of each.  Discovery engines, the *)
(* threads of the bounded map, the relay and the threads that stop a scan  *)
(* or close the service work beside it.                                    *)
(*                                                                         *)
(* Website capture is CapturePipeline's and CaptureHistory's; MassDNS, in  *)
(* place of the resolver of DnsLookup, is MassDns's.                       *)
(***************************************************************************)
EXTENDS Discovery, DnsLookup

CONSTANTS
  Setups,        \* what a scan starts from: see MCScanStages
  TypoOf(_),     \* what the generator makes of a seed
  MaxCandidates  \* max_candidates

ASSUME StagesAssumption ==
  /\ Names \subseteq Items
  /\ \A n \in Items : TypoOf(n) \subseteq Items
  /\ RecordTypes \in Seq(STRING) /\ RecordTypes # <<>> /\ RecordTypes # <<"NS">>
  /\ \A i \in Items : /\ <<i, "NS">> \in Questions
                      /\ \A n \in DOMAIN RecordTypes : <<i, RecordTypes[n]>> \in Questions
  /\ IsFiniteSet(Engines)
  /\ \A s \in Setups :
       /\ s.roots \cup s.old.seeds \cup s.old.candidates \subseteq Items
       \* finish_run saves what a seed generated together with the seed's marker.
       /\ \A n \in s.old.generated : TypoOf(n) \subseteq s.old.candidates
       /\ \A i \in Items : /\ s.zone[<<i, "NS">>] \in NsOutcomes
                           /\ \A n \in DOMAIN RecordTypes : s.zone[<<i, RecordTypes[n]>>] \in Outcomes

VARIABLES
  setup,   \* this scan's setup
  stage,   \* where the scan's thread is
  status,  \* the run's status in the database
  scan     \* the scan's own values

scanState == <<setup, stage, status, scan>>
vars == <<scanState, signal, mapState, relayState, lookupState, discoveryState, progressState>>

NoResults == [i \in Items |-> "none"]

Init ==
  /\ setup \in Setups
  /\ zone = setup.zone /\ proxied = setup.dnsProxied
  /\ stage = "start" /\ status = "running"
  /\ scan = [seeds |-> {}, sourcesComplete |-> TRUE, candidates |-> {},
             observations |-> NoResults, parking |-> NoResults]
  /\ SignalInit /\ MapInit /\ RelayInit /\ LookupInit /\ DiscoveryInit /\ ProgressInit

Roots == setup.roots
Old   == setup.old

\* Seeds: the roots, those saved, and those discovered.
SeedsOf(discovered) == Roots \cup Old.seeds \cup discovered

\* With a saved inventory nothing is generated; else every seed without a saved generation.
Ungenerated == IF setup.mode = "cached" THEN {} ELSE scan.seeds \ Old.generated

\* Faulty: today's sample replaces the saved search space.
FreshCandidates == scan.seeds \cup UNION {TypoOf(s) : s \in Ungenerated}

Candidates == Old.candidates \cup scan.seeds \cup UNION {TypoOf(s) : s \in Ungenerated}

Idle  == UNCHANGED <<signal, mapState, relayState, lookupState, discoveryState>>
Still == UNCHANGED <<setup, stage, status, scan>>

-------------------------------------------------------------------------------
(* The threads that stop a scan.                                           *)

\* cancel_scan: the event, the database and the progress in one section of the mutex.
Stop ==
  /\ stage # "ended" /\ status = "running" /\ "user" \in setup.stops
  /\ Request
  /\ status' = "cancelled"
  /\ Update("cancelled", shown.count, TRUE)
  /\ UNCHANGED <<setup, stage, scan, mapState, relayState, lookupState, discoveryState>>

\* close sets its event and waits for the scan's thread.
CloseService ==
  /\ stage # "ended" /\ "service" \in setup.stops
  /\ Close
  /\ UNCHANGED <<scanState, mapState, relayState, lookupState, discoveryState, progressState>>

-------------------------------------------------------------------------------
(* Discovery and generation.                                               *)

\* The saved inventory is used as it is, or the engines are started.
TakeRun ==
  /\ stage = "start"
  /\ stage' = IF Cancelled \/ (setup.mode = "cached" /\ Old.candidates = {}) THEN "failing"
              ELSE IF setup.mode = "cached" THEN "generation" ELSE "discovery"
  /\ scan' = IF stage' = "generation" THEN [scan EXCEPT !.seeds = SeedsOf({})] ELSE scan
  /\ IF stage' = "failing" THEN UNCHANGED progressState ELSE Update("discovery", 0, TRUE)
  /\ UNCHANGED <<setup, status>> /\ Idle

Discover(e) ==
  /\ stage = "discovery"
  /\ EngineThread(e, Roots, setup.discoveryProxied)
  /\ Still /\ UNCHANGED <<mapState, relayState, lookupState>>

MergeEngines ==
  /\ stage = "discovery"
  /\ Combine \/ \E e \in Engines : Accept(e)
  /\ Still /\ UNCHANGED <<mapState, relayState, lookupState>>

\* A source is complete with these states only.
SourceComplete(state) == state \in {"ok", "skipped"}

\* discover returns, or raises; the scan keeps what is in scope.
TakeDiscovered ==
  /\ stage = "discovery" /\ merged # NotMerged
  /\ LeaveDiscovery
  /\ scan' = IF merged.status = "cancelled" THEN scan
             ELSE [scan EXCEPT !.seeds = SeedsOf(merged.names), !.sourcesComplete = SourceComplete(merged.status)]
  /\ stage' = IF merged.status = "cancelled" THEN "failing" ELSE "generation"
  /\ UNCHANGED <<setup, status, signal, mapState, relayState, lookupState, progressState>>

\* The generator and its limit, with a look for a stop before and after.
Generate ==
  /\ stage = "generation"
  /\ IF Cancelled \/ Cardinality(Candidates) > MaxCandidates
     THEN stage' = "failing" /\ UNCHANGED scan
     ELSE stage' = "dns" /\ scan' = [scan EXCEPT !.candidates = Candidates]
  /\ Update("generation", Cardinality(Ungenerated), TRUE)
  /\ UNCHANGED <<setup, status>> /\ Idle

\* AIL fails, or the route for DNS cannot be opened.
GenerateFails ==
  /\ stage = "generation" /\ (Ungenerated # {} \/ proxied)
  /\ stage' = "failing"
  /\ UNCHANGED <<setup, status, scan, progressState>> /\ Idle

-------------------------------------------------------------------------------
(* DNS observations and parking lookups.                                   *)

Job == IF stage = "dns" THEN "observe" ELSE "parking"

\* What enrich can tell without a lookup of its own.
Hint(i) ==
  CASE scan.observations[i] # "resolved" -> "unknown"
    [] scan.observations[i] = "resolved" -> setup.hints[i]

Resolve ==
  /\ stage = "dns"
  /\ Call(scan.candidates)
  /\ Update("dns", 0, TRUE)
  /\ Still /\ UNCHANGED <<signal, relayState, lookupState, discoveryState>>

Enrich ==
  /\ stage = "parking"
  /\ LET hinted == {i \in scan.candidates : Hint(i) # "none"}
     IN  /\ Call(scan.candidates \ hinted)
         /\ scan' = [scan EXCEPT !.parking = [i \in Items |-> IF i \in hinted THEN Hint(i) ELSE "none"]]
         /\ Update("parking", Cardinality(hinted), FALSE)
  /\ UNCHANGED <<setup, stage, status, signal, relayState, lookupState, discoveryState>>

\* The turns of bounded_map that change nothing else.
Mapping ==
  /\ stage \in {"dns", "parking"}
  /\ Submit \/ Wait \/ Return \/ Wake \/ Raise \/ Drain \/ \E i \in Items : YieldFails(i)
  /\ Still /\ UNCHANGED <<signal, relayState, lookupState, discoveryState, progressState>>

\* A result is counted, kept and reported.
Collect(i) ==
  /\ stage \in {"dns", "parking"}
  /\ Yield(i)
  /\ scan' = IF stage = "dns"
             THEN [scan EXCEPT !.observations[i] = Observation(lookup[i].got)]
             ELSE [scan EXCEPT !.parking[i] = NsVerdict(lookup[i].got[1])]
  /\ Update(stage, shown.count + 1, FALSE)
  /\ UNCHANGED <<setup, stage, status, signal, relayState, lookupState, discoveryState>>

InLookup ==
  /\ stage \in {"dns", "parking"}
  /\ Still /\ UNCHANGED <<signal, discoveryState, progressState>>

\* One thread of the pool, until its function has returned or failed.
LookupThread(i) ==
  /\ InLookup
  /\ \/ Enter(i, Job) \/ GiveIn(i) \/ GivenIn(i) \/ TimeOut(i) \/ ReturnFrom(i)
     \/ \E outcome \in Answers : AskDirectly(i, outcome)
     \/ \E port \in Ports, id \in Ids : AskRelay(i, port, id)

\* What the sockets, the relay and the network do meanwhile.
Network ==
  /\ InLookup
  /\ \/ \E i \in Items, port \in Ports : AskAgain(i, port)
     \/ \E letter \in mail : Arrive(letter)
     \/ \E packet \in inbox : Dropped(packet) \/ \E key \in Keys : Relayed(packet, key)
     \/ \E key \in Keys : Expired(key)
     \/ \E sent \in outside, answer \in Answers : Resolver(sent[1], sent[2], answer)
     \/ RelayDies

\* The call is over: its error ends the scan, and so does a stop.
LeaveCall ==
  /\ stage \in {"dns", "parking"}
  /\ stage' = IF caller = "raised" \/ Cancelled THEN "failing"
              ELSE IF stage = "dns" THEN "parking" ELSE "publishing"
  /\ Leave
  /\ lookup' = [i \in Items |-> NoLookup]
  /\ UNCHANGED <<setup, status, scan, zone, proxied, signal, relayState, discoveryState, progressState>>

-------------------------------------------------------------------------------
(* The end of the scan.                                                    *)

\* The other sources end the scan when they fail.
Incomplete == ~scan.sourcesComplete \/ \E i \in scan.candidates : scan.observations[i] = "unknown"

Announce ==
  /\ stage = "publishing"
  /\ stage' = "accepting"
  /\ Update("publishing", 0, TRUE)
  /\ UNCHANGED <<setup, status, scan>> /\ Idle

\* Faulty: a stop is not looked for under the mutex.
PublishUnchecked ==
  /\ stage = "accepting"
  /\ stage' = "reporting" /\ status' = IF Incomplete THEN "partial" ELSE "completed"
  /\ UNCHANGED <<setup, scan, progressState>> /\ Idle

\* finish_run under the mutex, unless the scan was stopped by then.
Publish ==
  /\ stage = "accepting"
  /\ IF Cancelled THEN stage' = "failing" /\ UNCHANGED status
     ELSE stage' = "reporting" /\ status' = IF Incomplete THEN "partial" ELSE "completed"
  /\ UNCHANGED <<setup, scan, progressState>> /\ Idle

ReportOutcome ==
  /\ stage = "reporting"
  /\ stage' = "closing"
  /\ Update(status, shown.count, TRUE)
  /\ UNCHANGED <<setup, status, scan>> /\ Idle

\* The except block under the mutex: a run already ended stays as it is.
Fallout ==
  /\ stage = "failing"
  /\ status' = IF status = "running" THEN "failed" ELSE status
  /\ stage' = "closing"
  /\ Update(status', shown.count, TRUE)
  /\ UNCHANGED <<setup, scan>> /\ Idle

\* The routes are closed whatever happened.
CloseRoutes ==
  /\ stage = "closing"
  /\ CloseRelay
  /\ stage' = "ended"
  /\ UNCHANGED <<setup, status, scan, signal, mapState, lookupState, discoveryState, progressState>>

ScanThread ==
  \/ TakeRun \/ MergeEngines \/ TakeDiscovered \/ Generate \/ GenerateFails
  \/ Resolve \/ Enrich \/ Mapping \/ LeaveCall
  \/ \E i \in Items : Collect(i)
  \/ Announce \/ Publish \/ ReportOutcome \/ Fallout \/ CloseRoutes

Threads ==
  \/ ScanThread
  \/ \E e \in Engines : Discover(e)
  \/ \E i \in Items : LookupThread(i)

Next == Threads \/ Network \/ Stop \/ CloseService

Spec == Init /\ [][Next]_vars

\* Some thread runs while one of them can: engine processes and questions end by their
\* own timeouts, and nothing is assumed of the network.
FairSpec == Spec /\ WF_vars(Threads)

-------------------------------------------------------------------------------
(* Properties.                                                             *)

\* What a scan says of a host is what the network knows of it, or "unknown": timeouts, a
\* dead relay, late answers and failing servers never make a host look unregistered,
\* resolving or parked.
ObservationsTellTheTruth ==
  \A i \in Items :
    LET types == 1 .. Len(RecordTypes)
        known(t) == zone[<<i, RecordTypes[t]>>]
    IN
    /\ scan.observations[i] = "resolved" =>
         (\E t \in types : known(t) = "records") /\ \A t \in types : known(t) # "nxdomain"
    /\ scan.observations[i] = "nxdomain" => \A t \in types : known(t) = "nxdomain"
    /\ scan.observations[i] = "noanswer" => \A t \in types : known(t) = "noanswer"
    /\ scan.parking[i] # "none" =>
         CASE scan.observations[i] # "resolved"  -> scan.parking[i] = "unknown"
           [] setup.hints[i] # "none" /\ scan.observations[i] = "resolved" ->
                scan.parking[i] = setup.hints[i]
           [] OTHER -> scan.parking[i] = "likely_parked" => zone[<<i, "NS">>] = "parked"

\* A published scan has looked at every root, every saved candidate and every typo of a
\* seed, has an answer for each, is complete only without unknowns and with engines that
\* did not fall short, and was not stopped.
PublishedScanIsWhole ==
  status \in {"completed", "partial"} =>
    /\ Roots \cup Old.candidates \cup Old.seeds \cup scan.seeds \subseteq scan.candidates
    /\ setup.mode # "cached" => \A s \in scan.seeds : TypoOf(s) \subseteq scan.candidates
    /\ \A i \in scan.candidates : scan.observations[i] # "none" /\ scan.parking[i] # "none"
    /\ status = "completed" <=>
         scan.sourcesComplete /\ \A i \in scan.candidates : scan.observations[i] # "unknown"
    /\ ~requested

\* The order of the stages; the terminal ones share its end.
Rank == [queued |-> 1, discovery |-> 2, generation |-> 3, dns |-> 4, parking |-> 5, publishing |-> 6,
         completed |-> 7, partial |-> 7, cancelled |-> 7, failed |-> 7]

\* The count of a stage only grows, stages do not come back, and after a terminal stage
\* nothing moves, though the scan's thread reports on.
ProgressMovesForward ==
  [][/\ Rank[shown.stage] <= Rank[shown'.stage]
     /\ shown'.stage = shown.stage => shown'.count >= shown.count
     /\ shown.stage \in TerminalStages => shown' = shown]_progressState

\* When a scan's thread is done its progress, on disk too, shows how the run ended in
\* the database, whoever ended it.
OutcomeIsShown ==
  stage = "ended" => /\ status # "running"
                     /\ shown.stage = status /\ saved = shown

\* Every scan comes to its end, stopped or not, with the relay alive or dead.
EveryScanReturns == <>(stage = "ended")
===============================================================================
