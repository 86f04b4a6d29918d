------------------------------ MODULE Discovery ------------------------------
(***************************************************************************)
(* CombinedDiscovery.discover (discovery_ensemble.py) over the engines of  *)
(* discovery.py, assetfinder.py and adapters.py: each engine runs one      *)
(* command for every root on a thread of its own, and the scan's thread    *)
(* accepts their results as they come and merges them.                     *)
(***************************************************************************)
EXTENDS FiniteSets, Cancellation, Progress

CONSTANTS
  Names,    \* hostnames an engine may write
  Engines,
  Proxied,  \* engines that are skipped behind a proxy: Amass
  ScopeOf(_)  \* the root a hostname lies under, if any

VARIABLES
  engine,      \* each engine's thread, and its entry in statuses
  provenance,  \* which engines named each accepted hostname
  merged       \* what discover returns, or the error it raises

discoveryState == <<engine, provenance, merged>>

NoEngine == [at |-> "queued", todo |-> {}, found |-> {}, erred |-> FALSE, status |-> "queued"]
NotMerged == [status |-> "none", names |-> {}]

DiscoveryInit ==
  /\ engine = [e \in Engines |-> NoEngine]
  /\ provenance = [n \in Names |-> {}]
  /\ merged = NotMerged

Finished == {e \in Engines : engine[e].at = "finished"}
Accepted == {n \in Names : provenance[n] # {}}

\* Every report holds the ensemble's lock and counts finished engines.
Count == Cardinality(Finished)

\* child_callback: the engine's own counters are ignored.
ChildCount(e) == Count

-------------------------------------------------------------------------------
(* An engine's thread.                                                     *)

\* run_engine checks for a stop and marks the engine running under the lock.
Launch(e, roots) ==
  /\ engine[e].at = "queued"
  /\ Cardinality({f \in Engines : engine[f].at = "running"}) < 3
  /\ IF Cancelled
     THEN /\ engine' = [engine EXCEPT ![e].at = "returned", ![e].status = "cancelled"]
          /\ UNCHANGED progressState
     ELSE /\ engine' = [engine EXCEPT ![e].at = "running", ![e].todo = roots]
          /\ Update("discovery", Count, TRUE)
  /\ UNCHANGED <<provenance, merged, signal>>

\* Not installed, not the right version, or not configured.
Unavailable(e, roots, proxied) ==
  /\ engine[e].at = "running" /\ engine[e].todo = roots /\ ~Cancelled
  /\ ~(proxied /\ e \in Proxied)
  /\ engine' = [engine EXCEPT ![e].at = "returned", ![e].todo = {}, ![e].status = "unavailable"]
  /\ Update("discovery", ChildCount(e), TRUE)
  /\ UNCHANGED <<provenance, merged, signal>>

\* Not to be used behind a proxy: nothing is started.
Skip(e, proxied) ==
  /\ engine[e].at = "running" /\ proxied /\ e \in Proxied /\ ~Cancelled
  /\ engine' = [engine EXCEPT ![e].at = "returned", ![e].todo = {}, ![e].status = "skipped"]
  /\ UNCHANGED <<provenance, merged, signal, progressState>>

\* _names: whole lines that name a host under the root, whatever else was written.
InScope(written, root) == {n \in written : ScopeOf(n) = root}

\* The command for one root ends, fails or times out; what it wrote is kept in each case.
RootDone(e, root, written, ok, proxied) ==
  /\ engine[e].at = "running" /\ root \in engine[e].todo /\ ~Cancelled
  /\ ~(proxied /\ e \in Proxied)
  /\ LET todo  == engine[e].todo \ {root}
         erred == engine[e].erred \/ ~ok
     IN engine' = [engine EXCEPT
          ![e].todo = todo, ![e].found = @ \cup InScope(written, root), ![e].erred = erred,
          ![e].at = IF todo = {} THEN "returned" ELSE "running",
          ![e].status = IF todo # {} THEN @ ELSE IF erred THEN "partial" ELSE "ok"]
  /\ Update("discovery", ChildCount(e), TRUE)
  /\ UNCHANGED <<provenance, merged, signal>>

\* The engine raises: a stop, or an error of its own.  What it had is dropped.
EngineRaises(e, proxied) ==
  /\ engine[e].at = "running" /\ (Cancelled \/ ~(proxied /\ e \in Proxied))
  /\ engine' = [engine EXCEPT ![e].at = "returned", ![e].todo = {}, ![e].found = {},
                              ![e].status = IF Cancelled THEN "cancelled" ELSE "failed"]
  /\ UNCHANGED <<provenance, merged, signal, progressState>>

EngineThread(e, roots, proxied) ==
  \/ Launch(e, roots) \/ Unavailable(e, roots, proxied) \/ Skip(e, proxied) \/ EngineRaises(e, proxied)
  \/ \E root \in roots, written \in SUBSET Names, ok \in BOOLEAN : RootDone(e, root, written, ok, proxied)

-------------------------------------------------------------------------------
(* The scan's thread.                                                      *)

\* Faulty: the results of a stopped scan are not even counted.
AcceptUnlessCancelled(e) ==
  /\ engine[e].at = "returned" /\ ~Cancelled
  /\ engine' = [engine EXCEPT ![e].at = "finished"]
  /\ provenance' = [n \in Names |-> provenance[n] \cup (IF n \in engine[e].found THEN {e} ELSE {})]
  /\ Update("discovery", Count + 1, TRUE)
  /\ UNCHANGED <<merged, signal>>

\* accept, for the next future that completes.
Accept(e) ==
  /\ engine[e].at = "returned"
  /\ engine' = [engine EXCEPT ![e].at = "finished",
                              ![e].status = IF Cancelled THEN "cancelled" ELSE @]
  /\ provenance' = [n \in Names |-> provenance[n] \cup (IF n \in engine[e].found THEN {e} ELSE {})]
  /\ Update("discovery", Count + 1, TRUE)
  /\ UNCHANGED <<merged, signal>>

Statuses == {engine[e].status : e \in Engines}

\* Faulty: an engine that only got part of the way does not show in the whole.
AnyEngineOk ==
  CASE Cancelled \/ "cancelled" \in Statuses -> "cancelled"
    [] ~(Cancelled \/ "cancelled" \in Statuses) ->
         IF Accepted = {} /\ "ok" \notin Statuses THEN "unavailable"
         ELSE IF "ok" \in Statuses THEN "ok" ELSE "partial"

MergedStatus ==
  CASE Cancelled \/ "cancelled" \in Statuses -> "cancelled"
    [] ~(Cancelled \/ "cancelled" \in Statuses) ->
         IF Accepted = {} /\ "ok" \notin Statuses THEN "unavailable"
         ELSE IF Statuses \subseteq {"ok", "skipped"} THEN "ok" ELSE "partial"

\* All engines are finished: their union, or the error of a stopped scan.
Combine ==
  /\ Finished = Engines /\ merged = NotMerged
  /\ merged' = [status |-> MergedStatus, names |-> Accepted]
  /\ Update("discovery", Count, TRUE)
  /\ UNCHANGED <<engine, provenance, signal>>

\* discover is left; nothing of it is kept but what it returned.
LeaveDiscovery ==
  /\ engine' = [e \in Engines |-> NoEngine]
  /\ provenance' = [n \in Names |-> {}]
  /\ merged' = NotMerged

-------------------------------------------------------------------------------
\* What discovery hands over: every name was written in scope by an engine that ran to
\* its return, none that an engine returned is missing, a scan stopped in the middle
\* hands over nothing, and "ok" means that no engine fell short.
DiscoveryIsAttributed ==
  merged # NotMerged /\ merged.status # "cancelled" =>
    /\ \A e \in Engines : engine[e].at = "finished" /\ engine[e].status # "cancelled"
    /\ merged.names = UNION {engine[e].found : e \in Engines}
    /\ \A n \in Names : provenance[n] = {e \in Engines : n \in engine[e].found}
    /\ merged.status = "ok" => \A e \in Engines :
         engine[e].todo = {} /\ ~engine[e].erred /\ engine[e].status \in {"ok", "skipped"}
    /\ merged.status = "unavailable" => merged.names = {}
===============================================================================
