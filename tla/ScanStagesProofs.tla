--------------------------- MODULE ScanStagesProofs ---------------------------
(***************************************************************************)
(* The stages of a scan use the bounded map and the relay as their modules *)
(* say, so that what is proved of each alone holds of a scan.              *)
(***************************************************************************)
EXTENDS ScanStages, BoundedMapProofs, DnsRelayProofs

\* The hostnames a scan works on.
ScanType ==
  /\ setup \in Setups
  /\ merged.names \subseteq Items
  /\ DOMAIN scan = {"seeds", "sourcesComplete", "candidates", "observations", "parking"}
  /\ scan.seeds \subseteq Items /\ scan.candidates \subseteq Items

Asks == {<<>>, RecordTypes, <<"NS">>}

\* One function's lookup.
Lookups == [asks : Asks, got : Seq(Answers \cup {"failure"}), socket : {NoSocket} \cup (Ports \X Ids)]

\* The functions' state, and what is under way between them and the resolver.
LookupType ==
  /\ lookup \in [Items -> Lookups]
  /\ \A i \in Items : /\ Len(lookup[i].got) <= Len(lookup[i].asks)
                      /\ lookup[i].socket # NoSocket => Len(lookup[i].got) < Len(lookup[i].asks)
  /\ inbox \subseteq Packet
  /\ outside \subseteq Keys \X Questions
  /\ mail \subseteq Ports \X Ids \X Questions \X Answers
  /\ Used \subseteq Keys /\ \A k \in Used : entries[k] \in Packet

StagesInv == ScanType /\ LookupType

\* Both hold in the beginning.
LEMMA StagesStart == Init => StagesInv
  <1> SUFFICES ASSUME Init PROVE StagesInv
    OBVIOUS
  <1>1. ScanType
    BY DEF Init, ScanType, DiscoveryInit, NotMerged
  <1>2. LookupType
    BY DEF Init, LookupType, LookupInit, NoLookup, LookupOf, Lookups, Asks, RelayInit, Used
  <1>3. QED
    BY <1>1, <1>2 DEF StagesInv

\* The subject of a question under way, or to be asked next, is a question.
LEMMA SubjectType ==
  ASSUME LookupType, NEW i \in Items, Len(lookup[i].got) < Len(lookup[i].asks)
  PROVE  Subject(i) \in Questions
  <1>1. lookup[i].asks \in Asks /\ lookup[i].got \in Seq(Answers \cup {"failure"})
    BY DEF LookupType, Lookups
  <1>2. Len(lookup[i].got) \in Nat
    BY <1>1
  <1>3. CASE lookup[i].asks = <<>>
    BY <1>2, <1>3
  <1>4. CASE lookup[i].asks = RecordTypes
    <2>1. Len(lookup[i].got) + 1 \in DOMAIN RecordTypes
      BY <1>2, <1>4, StagesAssumption
    <2>2. QED
      BY <1>4, <2>1, StagesAssumption DEF Subject
  <1>5. CASE lookup[i].asks = <<"NS">>
    <2>1. Len(lookup[i].got) = 0
      BY <1>2, <1>5
    <2>2. QED
      BY <1>5, <2>1, StagesAssumption DEF Subject
  <1>6. QED
    BY <1>1, <1>3, <1>4, <1>5 DEF Asks

\* A question that gets its answer leaves a well-formed lookup.
LEMMA GetsType ==
  ASSUME LookupType, NEW i \in Items, NEW outcome \in Answers \cup {"failure"},
         Len(lookup[i].got) < Len(lookup[i].asks), Gets(i, outcome)
  PROVE  /\ lookup' \in [Items -> Lookups]
         /\ \A j \in Items : /\ Len(lookup'[j].got) <= Len(lookup'[j].asks)
                             /\ lookup'[j].socket # NoSocket => Len(lookup'[j].got) < Len(lookup'[j].asks)
  <1>1. lookup[i] \in Lookups
    BY DEF LookupType
  <1> DEFINE new == [asks |-> lookup[i].asks, got |-> Append(lookup[i].got, outcome), socket |-> NoSocket]
  <1>2. lookup' = [lookup EXCEPT ![i] = new]
    BY DEF Gets
  <1>3. /\ new \in Lookups /\ new.socket = NoSocket /\ new.asks = lookup[i].asks
        /\ Len(new.got) = Len(lookup[i].got) + 1
    <2>1. lookup[i].got \in Seq(Answers \cup {"failure"}) /\ lookup[i].asks \in Asks
      BY <1>1 DEF Lookups
    <2>2. /\ Append(lookup[i].got, outcome) \in Seq(Answers \cup {"failure"})
          /\ Len(Append(lookup[i].got, outcome)) = Len(lookup[i].got) + 1
      BY <2>1
    <2>3. QED
      BY <2>1, <2>2 DEF Lookups
  <1>4. Len(new.got) <= Len(new.asks)
    <2>1. Len(lookup[i].got) \in Nat /\ Len(lookup[i].asks) \in Nat
      BY <1>1, StagesAssumption DEF Lookups, Asks
    <2>2. QED
      BY <1>3, <2>1
  <1>5. QED
    BY <1>2, <1>3, <1>4 DEF LookupType

\* A lookup starts with its questions and no answers.
LEMMA LookupStarts ==
  ASSUME NEW asks \in Asks
  PROVE  /\ LookupOf(asks) \in Lookups /\ LookupOf(asks).socket = NoSocket
         /\ LookupOf(asks).asks = asks /\ LookupOf(asks).got = <<>>
         /\ Len(LookupOf(asks).got) <= Len(LookupOf(asks).asks)
  <1>1. Len(asks) \in Nat
    BY StagesAssumption DEF Asks
  <1>2. <<>> \in Seq(Answers \cup {"failure"}) /\ Len(<<>>) = 0
    OBVIOUS
  <1>3. QED
    BY <1>1, <1>2 DEF LookupOf, Lookups

\* A new socket leaves a lookup what it was.
LEMMA SocketType ==
  ASSUME NEW r \in Lookups, NEW socket \in Ports \X Ids
  PROVE  /\ [r EXCEPT !.socket = socket] \in Lookups
         /\ [r EXCEPT !.socket = socket].asks = r.asks
         /\ [r EXCEPT !.socket = socket].got = r.got
  BY DEF Lookups

\* A question sent leaves a well-formed lookup and a well-formed datagram.
LEMMA ResentType ==
  ASSUME LookupType, NEW i \in Items, NEW port \in Ports, NEW id \in Ids, NEW question \in Questions,
         Len(lookup[i].got) < Len(lookup[i].asks), Ask(<<port, id, question>>),
         lookup' = [lookup EXCEPT ![i] = [@ EXCEPT !.socket = <<port, id>>]]
  PROVE  LookupType'
  <1> DEFINE new == [lookup[i] EXCEPT !.socket = <<port, id>>]
  <1>1. lookup[i] \in Lookups
    BY DEF LookupType
  <1>2. new \in Lookups /\ new.asks = lookup[i].asks /\ new.got = lookup[i].got
    BY <1>1, SocketType
  <1>3. lookup' = [lookup EXCEPT ![i] = new]
    OBVIOUS
  <1> HIDE DEF new
  <1>4. lookup' \in [Items -> Lookups] /\ \A j \in Items : lookup'[j] = IF j = i THEN new ELSE lookup[j]
    BY <1>2, <1>3 DEF LookupType
  <1>5. \A j \in Items : lookup'[j].got = lookup[j].got /\ lookup'[j].asks = lookup[j].asks
    BY <1>2, <1>4
  <1>6. \A j \in Items : /\ Len(lookup'[j].got) <= Len(lookup'[j].asks)
                         /\ lookup'[j].socket # NoSocket => Len(lookup'[j].got) < Len(lookup'[j].asks)
    BY <1>4, <1>5 DEF LookupType
  <1>7. <<port, id, question>> \in Packet
    BY DEF Packet
  <1>8. QED
    BY <1>4, <1>6, <1>7 DEF LookupType, Ask, Used

\* The steps of a scan that touch no lookup.
Elsewhere == UNCHANGED <<lookupState, relayState>>

\* Every step keeps the types of the lookups and of what is under way.
LEMMA LookupTypeKept ==
  ASSUME StagesInv, Next
  PROVE  LookupType'
  <1> USE DEF StagesInv
  <1>1. ASSUME Elsewhere PROVE LookupType'
    BY <1>1 DEF Elsewhere, LookupType, lookupState, relayState, Used
  <1>2. CASE ScanThread
    <2>1. CASE LeaveCall
      <3>1. UNCHANGED relayState /\ lookup' = [i \in Items |-> NoLookup]
        BY <2>1 DEF LeaveCall
      <3>2. QED
        BY <3>1, LookupStarts DEF NoLookup, Asks, LookupType, relayState, Used
    <2>2. CASE CloseRoutes
      BY <2>2 DEF CloseRoutes, CloseRelay, LookupType, lookupState, Used
    <2>3. CASE ~LeaveCall /\ ~CloseRoutes
      BY <1>1, <1>2, <2>3
      DEF ScanThread, TakeRun, MergeEngines, TakeDiscovered, Generate, GenerateFails, Resolve, Enrich,
          Mapping, Collect, Announce, Publish, ReportOutcome, Fallout, Idle, Elsewhere
    <2>4. QED
      BY <2>1, <2>2, <2>3
  <1>3. ASSUME NEW e \in Engines, Discover(e) PROVE LookupType'
    BY <1>1, <1>3 DEF Discover, Elsewhere
  <1>4. ASSUME NEW i \in Items, LookupThread(i) PROVE LookupType'
    <2>1. CASE Enter(i, Job)
      <3>1. PICK asks \in Asks : lookup' = [lookup EXCEPT ![i] = LookupOf(asks)]
        BY <2>1 DEF Enter, TypesOf, NoLookup, Asks
      <3>2. UNCHANGED relayState
        BY <2>1 DEF Enter
      <3>3. QED
        BY <3>1, <3>2, LookupStarts DEF LookupType, relayState, Used
    <2>2. CASE GiveIn(i) \/ GivenIn(i) \/ ReturnFrom(i)
      BY <1>1, <2>2 DEF GiveIn, GivenIn, ReturnFrom, Elsewhere
    <2>3. CASE TimeOut(i)
      <3>1. Gets(i, "failure") /\ UNCHANGED relayState /\ Len(lookup[i].got) < Len(lookup[i].asks)
        BY <2>3 DEF TimeOut, Asking, LookupType
      <3>2. QED
        BY <3>1, GetsType DEF LookupType, relayState, Used
    <2>4. ASSUME NEW outcome \in Answers, AskDirectly(i, outcome) PROVE LookupType'
      <3>1. Gets(i, outcome) /\ UNCHANGED relayState /\ Len(lookup[i].got) < Len(lookup[i].asks)
        BY <2>4 DEF AskDirectly, Between
      <3>2. QED
        BY <3>1, GetsType DEF LookupType, relayState, Used
    <2>5. ASSUME NEW port \in Ports, NEW id \in Ids, AskRelay(i, port, id) PROVE LookupType'
      <3>1. /\ Len(lookup[i].got) < Len(lookup[i].asks)
            /\ lookup' = [lookup EXCEPT ![i] = [@ EXCEPT !.socket = <<port, id>>]]
            /\ Ask(<<port, id, Subject(i)>>)
        BY <2>5 DEF AskRelay, Between
      <3>2. Subject(i) \in Questions
        BY <3>1, SubjectType
      <3>3. QED
        BY <3>1, <3>2, ResentType
    <2>6. QED
      BY <1>4, <2>1, <2>2, <2>3, <2>4, <2>5 DEF LookupThread
  <1>5. CASE Network
    <2>1. ASSUME NEW i \in Items, NEW port \in Ports, AskAgain(i, port) PROVE LookupType'
      <3>1. /\ Len(lookup[i].got) < Len(lookup[i].asks)
            /\ lookup' = [lookup EXCEPT ![i] = [@ EXCEPT !.socket = <<port, lookup[i].socket[2]>>]]
            /\ Ask(<<port, lookup[i].socket[2], Subject(i)>>)
        BY <2>1 DEF AskAgain, Asking, LookupType
      <3>2. Subject(i) \in Questions /\ lookup[i].socket[2] \in Ids
        BY <2>1, <3>1, SubjectType DEF AskAgain, Asking, LookupType, Lookups
      <3>3. QED
        BY <3>1, <3>2, ResentType
    <2>2. ASSUME NEW letter \in mail, Arrive(letter) PROVE LookupType'
      <3>1. mail' \subseteq mail /\ UNCHANGED <<inbox, outside, entries>> /\ letter[4] \in Answers
        BY <2>2 DEF Arrive, Receive, LookupType
      <3>2. CASE UNCHANGED lookup
        BY <3>1, <3>2 DEF LookupType, Used
      <3>3. ASSUME NEW i \in Items, NEW outcome \in Answers \cup {"failure"}, Asking(i), Gets(i, outcome)
            PROVE  LookupType'
        BY <3>1, <3>3, GetsType DEF LookupType, Asking, Used
      <3>4. QED
        BY <2>2, <3>1, <3>2, <3>3 DEF Arrive
    <2>3. ASSUME NEW packet \in inbox, Dropped(packet) PROVE LookupType'
      BY <2>3 DEF Dropped, DropQuestion, lookupState, LookupType, Used
    <2>4. ASSUME NEW packet \in inbox, NEW key \in Keys, Relayed(packet, key) PROVE LookupType'
      BY <2>4 DEF Relayed, Forward, lookupState, LookupType, Used, Packet, Question
    <2>5. ASSUME NEW key \in Keys, Expired(key) PROVE LookupType'
      BY <2>5 DEF Expired, Expire, Without, lookupState, LookupType, Used
    <2>6. ASSUME NEW sent \in outside, NEW answer \in Answers, Resolver(sent[1], sent[2], answer)
          PROVE  LookupType'
      <3>1. sent[1] \in Keys /\ sent[2] \in Questions /\ UNCHANGED <<lookup, inbox>> /\ outside' \subseteq outside
        BY <2>6 DEF Resolver, Answer, lookupState, LookupType
      <3>2. CASE UNCHANGED <<entries, mail>>
        BY <3>1, <3>2 DEF LookupType, Used
      <3>3. CASE /\ sent[1] \in Used /\ entries' = Without(sent[1])
                 /\ mail' = mail \cup {<<entries[sent[1]][1], entries[sent[1]][2], sent[2], answer>>}
        BY <3>1, <3>3 DEF LookupType, Used, Without, Packet
      <3>4. QED
        BY <2>6, <3>2, <3>3 DEF Resolver, Answer
    <2>7. CASE RelayDies
      BY <2>7 DEF RelayDies, RelayFails, lookupState, LookupType, Used
    <2>8. QED
      BY <1>5, <2>1, <2>2, <2>3, <2>4, <2>5, <2>6, <2>7 DEF Network
  <1>6. CASE Stop \/ CloseService
    BY <1>1, <1>6 DEF Stop, CloseService, Elsewhere
  <1>7. QED
    BY <1>2, <1>3, <1>4, <1>5, <1>6 DEF Next, Threads

\* The seeds of a scan are among the items.
LEMMA SeedsType ==
  ASSUME setup \in Setups, NEW discovered \in SUBSET Items
  PROVE  SeedsOf(discovered) \subseteq Items
  BY StagesAssumption DEF SeedsOf, Roots, Old

\* Every step keeps the hostnames of a scan among the items its maps are made for.
LEMMA ScanTypeKept ==
  ASSUME ScanType, Next
  PROVE  ScanType'
  <1> USE DEF ScanType
  <1>1. ASSUME UNCHANGED <<setup, scan>>, merged' = merged \/ merged'.names \subseteq Items
        PROVE  ScanType'
    BY <1>1
  <1>2. Accepted \subseteq Items
    BY StagesAssumption DEF Accepted
  <1>3. CASE ScanThread
    <2>1. CASE MergeEngines
      <3>1. UNCHANGED <<setup, scan>>
        BY <2>1 DEF MergeEngines, Still
      <3>2. CASE Combine
        <4>1. merged' = [status |-> MergedStatus, names |-> Accepted]
          BY <3>2 DEF Combine
        <4>2. merged'.names = Accepted
          BY <4>1, Zenon
        <4>3. QED
          BY <1>1, <1>2, <3>1, <4>2, Zenon
      <3>3. ASSUME NEW e \in Engines, Accept(e) PROVE ScanType'
        BY <1>1, <3>1, <3>3 DEF Accept
      <3>4. QED
        BY <2>1, <3>2, <3>3 DEF MergeEngines
    <2>2. CASE TakeDiscovered
      <3>1. SeedsOf(merged.names) \subseteq Items
        BY SeedsType
      <3>2. merged'.names = {} /\ UNCHANGED setup
        BY <2>2 DEF TakeDiscovered, LeaveDiscovery, NotMerged
      <3>3. CASE UNCHANGED scan
        BY <3>2, <3>3
      <3>4. CASE scan' = [scan EXCEPT !.seeds = SeedsOf(merged.names),
                                      !.sourcesComplete = SourceComplete(merged.status)]
        BY <3>1, <3>2, <3>4
      <3>5. QED
        BY <2>2, <3>3, <3>4 DEF TakeDiscovered
    <2>3. CASE Generate
      <3>1. Old.candidates \subseteq Items
        BY StagesAssumption DEF Old
      <3>2. Ungenerated \subseteq Items
        BY DEF Ungenerated
      <3>4. Candidates \subseteq Items
        <4>1. \A s \in Ungenerated : TypoOf(s) \subseteq Items
          BY <3>2, StagesAssumption
        <4>2. UNION {TypoOf(s) : s \in Ungenerated} \subseteq Items
          BY <4>1
        <4>3. QED
          BY <3>1, <4>2 DEF Candidates
      <3>5. QED
        BY <2>3, <3>4 DEF Generate, Idle, discoveryState
    <2>4. CASE LeaveCall \/ CloseRoutes
      BY <1>1, <2>4 DEF LeaveCall, CloseRoutes, discoveryState
    <2>5. CASE Enrich
      BY <2>5 DEF Enrich, discoveryState
    <2>6. ASSUME NEW i \in Items, Collect(i) PROVE ScanType'
      BY <2>6 DEF Collect, discoveryState
    <2>7. CASE TakeRun
      <3>1. SeedsOf({}) \subseteq Items /\ UNCHANGED <<setup, merged>>
        BY <2>7, SeedsType DEF TakeRun, Idle, discoveryState
      <3>2. QED
        BY <2>7, <3>1 DEF TakeRun
    <2>8. CASE GenerateFails \/ Resolve \/ Mapping \/ Announce \/ Publish \/ ReportOutcome \/ Fallout
      BY <1>1, <2>8 DEF GenerateFails, Resolve, Mapping, Announce, Publish, ReportOutcome, Fallout,
                        Idle, Still, discoveryState
    <2>9. QED
      BY <1>3, <2>1, <2>2, <2>3, <2>4, <2>5, <2>6, <2>7, <2>8 DEF ScanThread
  <1>4. ASSUME NEW e \in Engines, Discover(e) PROVE ScanType'
    BY <1>1, <1>4 DEF Discover, EngineThread, Launch, Unavailable, Skip, EngineRaises, RootDone, Still
  <1>5. CASE Network \/ \E i \in Items : LookupThread(i)
    BY <1>1, <1>5 DEF Network, LookupThread, InLookup, Still, discoveryState
  <1>6. CASE Stop \/ CloseService
    BY <1>1, <1>6 DEF Stop, CloseService, scanState, discoveryState
  <1>7. QED
    BY <1>3, <1>4, <1>5, <1>6 DEF Next, Threads

\* Whatever a scan does, the bounded map takes a step of its own or none.
LEMMA MapStep ==
  ASSUME ScanType, Next
  PROVE  [MapNext]_<<mapState, signal>>
  <1>1. ASSUME UNCHANGED <<mapState, signal>> PROVE [MapNext]_<<mapState, signal>>
    BY <1>1
  <1>2. ASSUME CallerStep, UNCHANGED signal PROVE [MapNext]_<<mapState, signal>>
    BY <1>2 DEF MapNext
  <1>3. CASE ScanThread
    <2>1. CASE Resolve
      <3>1. Call(scan.candidates) /\ scan.candidates \in SUBSET Items /\ UNCHANGED signal
        BY <2>1 DEF Resolve, ScanType
      <3>2. QED
        BY <1>2, <3>1 DEF CallerStep
    <2>2. CASE Enrich
      <3>1. PICK items \in SUBSET Items : Call(items)
        BY <2>2 DEF Enrich, ScanType
      <3>2. UNCHANGED signal
        BY <2>2 DEF Enrich
      <3>3. QED
        BY <1>2, <3>1, <3>2 DEF CallerStep
    <2>3. CASE Mapping
      BY <1>2, <2>3 DEF Mapping, CallerStep
    <2>4. ASSUME NEW i \in Items, Collect(i) PROVE [MapNext]_<<mapState, signal>>
      BY <1>2, <2>4 DEF Collect, CallerStep
    <2>5. CASE LeaveCall
      BY <1>2, <2>5 DEF LeaveCall, CallerStep
    <2>6. CASE \/ TakeRun \/ MergeEngines \/ TakeDiscovered \/ Generate \/ GenerateFails
               \/ Announce \/ Publish \/ ReportOutcome \/ Fallout \/ CloseRoutes
      BY <1>1, <2>6
      DEF TakeRun, MergeEngines, Combine, Accept, TakeDiscovered, Generate, GenerateFails,
          Announce, Publish, ReportOutcome, Fallout, CloseRoutes, Idle
    <2>7. QED
      BY <1>3, <2>1, <2>2, <2>3, <2>4, <2>5, <2>6 DEF ScanThread
  <1>4. ASSUME NEW e \in Engines, Discover(e) PROVE [MapNext]_<<mapState, signal>>
    BY <1>1, <1>4 DEF Discover, EngineThread, Launch, Unavailable, Skip, EngineRaises, RootDone
  <1>5. ASSUME NEW i \in Items, LookupThread(i) PROVE [MapNext]_<<mapState, signal>>
    <2>1. UNCHANGED signal
      BY <1>5 DEF LookupThread, InLookup
    <2>2. CASE Enter(i, Job) \/ GiveIn(i) \/ GivenIn(i) \/ ReturnFrom(i)
      BY <2>1, <2>2 DEF Enter, GiveIn, GivenIn, ReturnFrom, WorkerStep, MapNext
    <2>3. CASE TimeOut(i)
      BY <1>1, <2>1, <2>3 DEF TimeOut
    <2>4. ASSUME NEW outcome \in Answers, AskDirectly(i, outcome) PROVE [MapNext]_<<mapState, signal>>
      BY <1>1, <2>1, <2>4 DEF AskDirectly
    <2>5. ASSUME NEW port \in Ports, NEW id \in Ids, AskRelay(i, port, id)
          PROVE  [MapNext]_<<mapState, signal>>
      BY <1>1, <2>1, <2>5 DEF AskRelay
    <2>6. QED
      BY <1>5, <2>2, <2>3, <2>4, <2>5 DEF LookupThread
  <1>6. CASE Network
    BY <1>1, <1>6 DEF Network, InLookup, AskAgain, Arrive, Dropped, Relayed, Expired, Resolver, RelayDies
  <1>7. CASE Stop \/ CloseService
    BY <1>7 DEF Stop, CloseService, MapNext, SignalStep
  <1>8. QED
    BY <1>3, <1>4, <1>5, <1>6, <1>7 DEF Next, Threads

\* Whatever a scan does, the relay takes a step of its own or none.
LEMMA RelayStep ==
  ASSUME LookupType, Next
  PROVE  [RelayNext]_relayState
  <1>1. ASSUME UNCHANGED relayState PROVE [RelayNext]_relayState
    BY <1>1
  <1>2. CASE ScanThread
    <2>1. CASE CloseRoutes
      BY <2>1 DEF CloseRoutes, RelayNext
    <2>2. CASE ~CloseRoutes
      BY <1>1, <1>2, <2>2
      DEF ScanThread, TakeRun, MergeEngines, TakeDiscovered, Generate, GenerateFails, Resolve, Enrich,
          Mapping, Collect, LeaveCall, Announce, Publish, ReportOutcome, Fallout, Idle
    <2>3. QED
      BY <2>1, <2>2
  <1>3. ASSUME NEW e \in Engines, Discover(e) PROVE [RelayNext]_relayState
    BY <1>1, <1>3 DEF Discover
  <1>4. ASSUME NEW i \in Items, LookupThread(i) PROVE [RelayNext]_relayState
    <2>1. CASE Enter(i, Job) \/ GiveIn(i) \/ GivenIn(i) \/ TimeOut(i) \/ ReturnFrom(i)
      BY <1>1, <2>1 DEF Enter, GiveIn, GivenIn, TimeOut, ReturnFrom
    <2>2. ASSUME NEW outcome \in Answers, AskDirectly(i, outcome) PROVE [RelayNext]_relayState
      BY <1>1, <2>2 DEF AskDirectly
    <2>3. ASSUME NEW port \in Ports, NEW id \in Ids, AskRelay(i, port, id) PROVE [RelayNext]_relayState
      <3>1. Subject(i) \in Questions /\ Ask(<<port, id, Subject(i)>>)
        BY <2>3, SubjectType DEF AskRelay, Between
      <3>2. <<port, id, Subject(i)>> \in Packet
        BY <3>1 DEF Packet
      <3>3. QED
        BY <3>1, <3>2 DEF RelayNext
    <2>4. QED
      BY <1>4, <2>1, <2>2, <2>3 DEF LookupThread
  <1>5. CASE Network
    <2>1. ASSUME NEW i \in Items, NEW port \in Ports, AskAgain(i, port) PROVE [RelayNext]_relayState
      <3>1. /\ Len(lookup[i].got) < Len(lookup[i].asks) /\ lookup[i].socket[2] \in Ids
            /\ Ask(<<port, lookup[i].socket[2], Subject(i)>>)
        BY <2>1 DEF AskAgain, Asking, LookupType, Lookups
      <3>2. <<port, lookup[i].socket[2], Subject(i)>> \in Packet
        BY <3>1, SubjectType DEF Packet
      <3>3. QED
        BY <3>1, <3>2 DEF RelayNext
    <2>2. ASSUME NEW letter \in mail, Arrive(letter) PROVE [RelayNext]_relayState
      BY <2>2 DEF Arrive, RelayNext
    <2>3. ASSUME NEW packet \in inbox, Dropped(packet) PROVE [RelayNext]_relayState
      BY <2>3 DEF Dropped, LookupType, RelayNext
    <2>4. ASSUME NEW packet \in inbox, NEW key \in Keys, Relayed(packet, key) PROVE [RelayNext]_relayState
      BY <2>4 DEF Relayed, LookupType, RelayNext
    <2>5. ASSUME NEW key \in Keys, Expired(key) PROVE [RelayNext]_relayState
      BY <2>5 DEF Expired, RelayNext
    <2>6. ASSUME NEW sent \in outside, NEW answer \in Answers, Resolver(sent[1], sent[2], answer)
          PROVE  [RelayNext]_relayState
      <3>1. sent[1] \in Keys /\ sent[2] \in Questions
        BY DEF LookupType
      <3>2. QED
        BY <2>6, <3>1 DEF Resolver, RelayNext
    <2>7. CASE RelayDies
      BY <2>7 DEF RelayDies, RelayNext
    <2>8. QED
      BY <1>5, <2>1, <2>2, <2>3, <2>4, <2>5, <2>6, <2>7 DEF Network
  <1>6. CASE Stop \/ CloseService
    BY <1>1, <1>6 DEF Stop, CloseService
  <1>7. QED
    BY <1>2, <1>3, <1>4, <1>5, <1>6 DEF Next, Threads

\* The types hold in every reachable state of a scan.
LEMMA StagesInvariant == Spec => []StagesInv
  <1>1. StagesInv /\ [Next]_vars => StagesInv'
    <2> SUFFICES ASSUME StagesInv, [Next]_vars PROVE StagesInv'
      OBVIOUS
    <2>1. CASE Next
      BY <2>1, ScanTypeKept, LookupTypeKept DEF StagesInv
    <2>2. CASE UNCHANGED vars
      BY <2>2 DEF vars, scanState, discoveryState, lookupState, relayState, StagesInv, ScanType, LookupType, Used
    <2>3. QED
      BY <2>1, <2>2
  <1>2. QED
    BY <1>1, StagesStart, PTL DEF Spec

\* The scan moves the bounded map and the relay by their own steps, so that what is
\* proved about each holds in it.
LEMMA Composition == Spec => MapSpec /\ RelaySpec
  <1>1. Init => MapInit /\ SignalInit /\ RelayInit
    BY DEF Init
  <1>2. StagesInv /\ [Next]_vars => [MapNext]_<<mapState, signal>> /\ [RelayNext]_relayState
    <2> SUFFICES ASSUME StagesInv, [Next]_vars
                 PROVE  [MapNext]_<<mapState, signal>> /\ [RelayNext]_relayState
      OBVIOUS
    <2>1. CASE Next
      BY <2>1, MapStep, RelayStep DEF StagesInv
    <2>2. CASE UNCHANGED vars
      BY <2>2 DEF vars
    <2>3. QED
      BY <2>1, <2>2
  <1>3. QED
    BY <1>1, <1>2, StagesInvariant, PTL DEF Spec, MapSpec, RelaySpec

\* In every scan: no thread of the pool is at work once the call that started it is over.
THEOREM ScanNoWorkOutlives == Spec => []NoWorkOutlivesCall
  BY Composition, NoWorkOutlives, PTL

\* In every scan: what ends a stage is the first failure or the stop.
THEOREM ScanFirstFailure == Spec => []FirstFailureIsReported
  BY Composition, FirstFailure, PTL

\* In every scan: the relay answers a socket only what this socket asked.
THEOREM ScanAnswersFit == Spec => []AnswersFitTheirAsker
  BY Composition, AnswersFit, PTL

-------------------------------------------------------------------------------
(* The stages of a scan: the inductive invariant.                          *)

\* The engines' threads, what the scan's thread took from them, and why an engine
\* that says "ok" or "skipped" has nothing left to do.
EngineSet ==
  [at : {"queued", "running", "returned", "finished"}, todo : SUBSET Items, found : SUBSET Names,
   erred : BOOLEAN,
   status : {"queued", "unavailable", "skipped", "partial", "ok", "cancelled", "failed"}]

EngineInv ==
  /\ engine \in [Engines -> EngineSet]
  /\ provenance \in [Names -> SUBSET Engines]
  /\ \A n \in Names : provenance[n] = {e \in Finished : n \in engine[e].found}
  /\ \A e \in Engines :
       /\ engine[e].at \in {"queued", "running"} => engine[e].status = "queued"
       /\ engine[e].status \in {"ok", "skipped"} => engine[e].todo = {} /\ ~engine[e].erred
       /\ engine[e].erred => ~(setup.discoveryProxied /\ e \in Proxied)
  /\ merged # NotMerged => Finished = Engines
  /\ stage # "discovery" => merged = NotMerged /\ \A e \in Engines : engine[e] = NoEngine

-------------------------------------------------------------------------------
(* Discovery.                                                              *)

\* Before its engines are all finished, an engine's thread changes only its own
\* entry, and what the scan's thread took stays what the engines found.
LEMMA EngineMoves ==
  ASSUME EngineInv, stage = "discovery", NEW e \in Engines, NEW r \in EngineSet,
         engine[e].at \in {"queued", "running"}, r.at \in {"running", "returned"},
         r.at = "running" => r.status = "queued",
         r.status \in {"ok", "skipped"} => r.todo = {} /\ ~r.erred,
         r.erred => ~(setup.discoveryProxied /\ e \in Proxied),
         engine' = [engine EXCEPT ![e] = r], UNCHANGED <<provenance, merged, setup, stage>>
  PROVE  EngineInv' /\ DiscoveryIsAttributed' /\ Finished' = Finished
  <1>1. /\ engine' \in [Engines -> EngineSet] /\ engine'[e] = r
        /\ \A f \in Engines : f # e => engine'[f] = engine[f]
    BY DEF EngineInv
  <1>2. e \notin Finished /\ Finished' = Finished
    BY <1>1 DEF Finished
  <1>3. merged = NotMerged
    BY <1>2 DEF EngineInv
  <1>4. \A n \in Names : provenance'[n] = {f \in Finished' : n \in engine'[f].found}
    <2>1. \A f \in Finished : f \in Engines /\ f # e
      BY <1>2 DEF Finished
    <2>2. ASSUME NEW n \in Names PROVE provenance'[n] = {f \in Finished' : n \in engine'[f].found}
      <3>1. provenance[n] = {f \in Finished : n \in engine[f].found}
        BY DEF EngineInv
      <3>2. {f \in Finished : n \in engine[f].found} = {f \in Finished : n \in engine'[f].found}
        BY <1>1, <2>1
      <3>3. QED
        BY <1>2, <3>1, <3>2
    <2>3. QED
      BY <2>2
  <1>5. ASSUME NEW f \in Engines
        PROVE  /\ engine'[f].at \in {"queued", "running"} => engine'[f].status = "queued"
               /\ engine'[f].status \in {"ok", "skipped"} => engine'[f].todo = {} /\ ~engine'[f].erred
               /\ engine'[f].erred => ~(setup.discoveryProxied /\ f \in Proxied)
    BY <1>1 DEF EngineInv
  <1>6. EngineInv'
    BY <1>1, <1>3, <1>4, <1>5 DEF EngineInv, NotMerged
  <1>7. QED
    BY <1>2, <1>3, <1>6 DEF DiscoveryIsAttributed, NotMerged

\* An engine's thread keeps the invariant of discovery, and finishes no engine: that
\* is for the scan's thread to say.
LEMMA EngineThreadKeeps ==
  ASSUME ScanType, EngineInv, NEW e \in Engines, Discover(e)
  PROVE  EngineInv' /\ DiscoveryIsAttributed' /\ Finished' = Finished
  <1> DEFINE roots == setup.roots
             proxied_ == setup.discoveryProxied
             old == engine[e]
  <1>1. /\ stage = "discovery" /\ UNCHANGED <<setup, stage>> /\ EngineThread(e, roots, proxied_)
        /\ roots \subseteq Items
    BY StagesAssumption DEF Discover, Still, Roots, ScanType
  <1>2. /\ engine \in [Engines -> EngineSet] /\ old \in EngineSet
        /\ old.at \in {"queued", "running"} => old.status = "queued"
        /\ old.erred => ~(proxied_ /\ e \in Proxied)
    BY DEF EngineInv
  <1>3. CASE Launch(e, roots)
    <2>1. CASE Cancelled
      <3> DEFINE r == [at |-> "returned", todo |-> old.todo, found |-> old.found, erred |-> old.erred,
                       status |-> "cancelled"]
      <3>1. engine' = [engine EXCEPT ![e] = r]
        BY <1>2, <1>3, <2>1 DEF Launch, EngineSet
      <3>2. r \in EngineSet
        BY <1>2 DEF EngineSet
      <3>3. QED
        BY <1>1, <1>2, <1>3, <3>1, <3>2, EngineMoves DEF Launch
    <2>2. CASE ~Cancelled
      <3> DEFINE r == [at |-> "running", todo |-> roots, found |-> old.found, erred |-> old.erred,
                       status |-> old.status]
      <3>1. engine' = [engine EXCEPT ![e] = r]
        BY <1>2, <1>3, <2>2 DEF Launch, EngineSet
      <3>2. r \in EngineSet
        BY <1>1, <1>2 DEF EngineSet
      <3>3. QED
        BY <1>1, <1>2, <1>3, <3>1, <3>2, EngineMoves DEF Launch
    <2>3. QED
      BY <2>1, <2>2
  <1>4. CASE Unavailable(e, roots, proxied_)
    <2> DEFINE r == [at |-> "returned", todo |-> {}, found |-> old.found, erred |-> old.erred,
                     status |-> "unavailable"]
    <2>1. engine' = [engine EXCEPT ![e] = r]
      BY <1>2, <1>4 DEF Unavailable, EngineSet
    <2>2. r \in EngineSet
      BY <1>2 DEF EngineSet
    <2>3. QED
      BY <1>1, <1>2, <1>4, <2>1, <2>2, EngineMoves DEF Unavailable
  <1>5. CASE Skip(e, proxied_)
    <2> DEFINE r == [at |-> "returned", todo |-> {}, found |-> old.found, erred |-> old.erred,
                     status |-> "skipped"]
    <2>1. engine' = [engine EXCEPT ![e] = r]
      BY <1>2, <1>5 DEF Skip, EngineSet
    <2>2. r \in EngineSet
      BY <1>2 DEF EngineSet
    <2>3. QED
      BY <1>1, <1>2, <1>5, <2>1, <2>2, EngineMoves DEF Skip
  <1>6. CASE EngineRaises(e, proxied_)
    <2> DEFINE r == [at |-> "returned", todo |-> {}, found |-> {}, erred |-> old.erred,
                     status |-> IF Cancelled THEN "cancelled" ELSE "failed"]
    <2>1. engine' = [engine EXCEPT ![e] = r]
      BY <1>2, <1>6 DEF EngineRaises, EngineSet
    <2>2. r \in EngineSet
      BY <1>2 DEF EngineSet
    <2>3. QED
      BY <1>1, <1>2, <1>6, <2>1, <2>2, EngineMoves DEF EngineRaises
  <1>7. ASSUME NEW root \in roots, NEW written \in SUBSET Names, NEW ok \in BOOLEAN,
               RootDone(e, root, written, ok, proxied_)
        PROVE  EngineInv' /\ DiscoveryIsAttributed' /\ Finished' = Finished
    <2>1. PICK at, todo, found, erred, st :
            /\ at = IF todo = {} THEN "returned" ELSE "running"
            /\ todo = old.todo \ {root} /\ found = old.found \cup InScope(written, root)
            /\ erred = (old.erred \/ ~ok)
            /\ st = IF todo # {} THEN old.status ELSE IF erred THEN "partial" ELSE "ok"
      OBVIOUS
    <2> DEFINE r == [old EXCEPT !.todo = todo, !.found = found, !.erred = erred, !.at = at, !.status = st]
    <2>2. engine' = [engine EXCEPT ![e] = r]
      BY <1>2, <1>7, <2>1 DEF RootDone
    <2>3. r \in EngineSet /\ r.at = at /\ r.todo = todo /\ r.erred = erred /\ r.status = st
      <3>1. todo \subseteq Items /\ found \subseteq Names /\ erred \in BOOLEAN
        BY <1>2, <2>1 DEF EngineSet, InScope
      <3>2. /\ at \in {"queued", "running", "returned", "finished"}
            /\ st \in {"queued", "unavailable", "skipped", "partial", "ok", "cancelled", "failed"}
        BY <1>2, <2>1 DEF EngineSet
      <3>3. QED
        BY <1>2, <3>1, <3>2 DEF EngineSet
    <2>4. /\ old.at = "running" /\ ~(proxied_ /\ e \in Proxied) /\ UNCHANGED <<provenance, merged>>
      BY <1>7 DEF RootDone
    <2>5. at \in {"running", "returned"} /\ (at = "running" => st = "queued")
      BY <1>2, <2>1, <2>4
    <2>6. st \in {"ok", "skipped"} => todo = {} /\ ~erred
      BY <1>2, <2>1, <2>4
    <2> HIDE DEF r
    <2>7. r.status \in {"ok", "skipped"} => r.todo = {} /\ ~r.erred
      BY <2>3, <2>6, Zenon
    <2>8. r.at \in {"running", "returned"} /\ (r.at = "running" => r.status = "queued")
      BY <2>3, <2>5
    <2>9. r.erred => ~(proxied_ /\ e \in Proxied)
      BY <2>4
    <2>10. QED
      BY <1>1, <1>2, <2>2, <2>3, <2>4, <2>7, <2>8, <2>9, EngineMoves
  <1>8. QED
    BY <1>1, <1>3, <1>4, <1>5, <1>6, <1>7 DEF EngineThread

\* The scan's thread takes what an engine found as it is.
LEMMA AcceptKeeps ==
  ASSUME EngineInv, stage = "discovery", UNCHANGED <<setup, stage>>, NEW e \in Engines, Accept(e)
  PROVE  EngineInv' /\ DiscoveryIsAttributed'
  <1> DEFINE old == engine[e]
             st  == IF Cancelled THEN "cancelled" ELSE old.status
             r   == [old EXCEPT !.at = "finished", !.status = st]
  <1>1. engine \in [Engines -> EngineSet] /\ old \in EngineSet
    BY DEF EngineInv
  <1>2. engine' = [engine EXCEPT ![e] = r]
    BY <1>1 DEF Accept
  <1>3. /\ r \in EngineSet /\ r.at = "finished" /\ r.status = st /\ r.found = old.found
        /\ r.erred = old.erred /\ r.todo = old.todo
    BY <1>1 DEF EngineSet
  <1> HIDE DEF r
  <1>4. /\ engine' \in [Engines -> EngineSet] /\ engine'[e] = r
        /\ \A f \in Engines : f # e => engine'[f] = engine[f]
    BY <1>1, <1>2, <1>3
  <1>5. e \notin Finished /\ Finished' = Finished \cup {e} /\ merged' = merged
    BY <1>3, <1>4 DEF Accept, Finished
  <1>6. merged = NotMerged
    BY <1>5 DEF EngineInv
  <1>7. /\ provenance' \in [Names -> SUBSET Engines]
        /\ \A n \in Names : provenance'[n] = {f \in Finished' : n \in engine'[f].found}
    <2>1. provenance' = [n \in Names |-> provenance[n] \cup (IF n \in engine[e].found THEN {e} ELSE {})]
      BY DEF Accept
    <2>2. \A f \in Finished : f \in Engines /\ f # e
      BY <1>5 DEF Finished
    <2>3. \A f \in Finished \cup {e} : engine'[f].found = engine[f].found
      BY <1>3, <1>4, <2>2
    <2>4. \A n \in Names : provenance[n] = {f \in Finished : n \in engine[f].found}
      BY DEF EngineInv
    <2>5. ASSUME NEW n \in Names PROVE provenance'[n] = {f \in Finished' : n \in engine'[f].found}
      BY <1>5, <2>1, <2>3, <2>4
    <2>6. provenance' \in [Names -> SUBSET Engines]
      BY <2>1 DEF EngineInv
    <2>7. QED
      BY <2>5, <2>6
  <1>8. ASSUME NEW f \in Engines
        PROVE  /\ engine'[f].at \in {"queued", "running"} => engine'[f].status = "queued"
               /\ engine'[f].status \in {"ok", "skipped"} => engine'[f].todo = {} /\ ~engine'[f].erred
               /\ engine'[f].erred => ~(setup.discoveryProxied /\ f \in Proxied)
    BY <1>3, <1>4 DEF EngineInv
  <1>9. EngineInv'
    BY <1>4, <1>5, <1>6, <1>7, <1>8 DEF EngineInv, NotMerged
  <1>10. QED
    BY <1>5, <1>6, <1>9 DEF DiscoveryIsAttributed, NotMerged

\* What is merged is what every engine found.
LEMMA CombineKeeps ==
  ASSUME EngineInv, stage = "discovery", UNCHANGED <<setup, stage>>, Combine
  PROVE  EngineInv' /\ DiscoveryIsAttributed'
  <1>1. /\ Finished = Engines /\ engine' = engine /\ provenance' = provenance
        /\ merged' = [status |-> MergedStatus, names |-> Accepted]
    BY DEF Combine
  <1>2. /\ engine \in [Engines -> EngineSet] /\ \A e \in Engines : engine[e].at = "finished"
        /\ \A e \in Engines : engine[e].status \in {"ok", "skipped"} => engine[e].todo = {} /\ ~engine[e].erred
        /\ \A n \in Names : provenance[n] = {e \in Engines : n \in engine[e].found}
    BY <1>1 DEF EngineInv, Finished
  <1>3. EngineInv'
    <2>1. Finished' = Finished
      BY <1>1 DEF Finished
    <2>2. \A n \in Names : provenance'[n] = {e \in Finished' : n \in engine'[e].found}
      BY <1>1, <1>2, <2>1
    <2>3. QED
      BY <1>1, <2>1, <2>2 DEF EngineInv
  <1>4. merged'.status = MergedStatus /\ merged'.names = Accepted
    BY <1>1, Zenon
  <1>5. Accepted = UNION {engine[e].found : e \in Engines}
    <2>1. \A e \in Engines : engine[e].found \subseteq Names
      BY <1>2 DEF EngineSet
    <2>2. \A n : n \in Accepted <=> \E e \in Engines : n \in engine[e].found
      BY <1>2, <2>1 DEF Accepted
    <2>3. QED
      BY <2>2
  <1>6. MergedStatus # "cancelled" =>
          /\ \A e \in Engines : engine[e].status # "cancelled"
          /\ MergedStatus = "ok" => \A e \in Engines : engine[e].status \in {"ok", "skipped"}
          /\ MergedStatus = "unavailable" => Accepted = {}
    BY DEF MergedStatus, Statuses
  <1>7. DiscoveryIsAttributed'
    <2>1. SUFFICES ASSUME MergedStatus # "cancelled"
                   PROVE  /\ \A e \in Engines : engine[e].at = "finished" /\ engine[e].status # "cancelled"
                          /\ Accepted = UNION {engine[e].found : e \in Engines}
                          /\ \A n \in Names : provenance[n] = {e \in Engines : n \in engine[e].found}
                          /\ MergedStatus = "ok" => \A e \in Engines :
                               engine[e].todo = {} /\ ~engine[e].erred /\ engine[e].status \in {"ok", "skipped"}
                          /\ MergedStatus = "unavailable" => Accepted = {}
      BY <1>1, <1>4 DEF DiscoveryIsAttributed
    <2>2. QED
      BY <1>2, <1>5, <1>6, <2>1
  <1>8. QED
    BY <1>3, <1>7

\* Every step keeps the invariant of discovery.
LEMMA DiscoveryKept ==
  ASSUME ScanType, EngineInv, DiscoveryIsAttributed, Next
  PROVE  EngineInv' /\ DiscoveryIsAttributed'
  <1>1. ASSUME UNCHANGED <<discoveryState, setup>>, stage' = stage \/ stage # "discovery"
        PROVE  EngineInv' /\ DiscoveryIsAttributed'
    <2>1. /\ engine' = engine /\ provenance' = provenance /\ merged' = merged /\ setup' = setup
          /\ stage' # "discovery" => stage # "discovery"
      BY <1>1 DEF discoveryState
    <2>2. Finished' = Finished
      BY <2>1 DEF Finished
    <2>3. QED
      BY <2>1, <2>2 DEF EngineInv, DiscoveryIsAttributed
  <1>2. CASE ScanThread
    <2>1. CASE MergeEngines
      <3>1. stage = "discovery" /\ UNCHANGED <<setup, stage>> /\ (Combine \/ \E e \in Engines : Accept(e))
        BY <2>1 DEF MergeEngines, Still
      <3>2. QED
        BY <3>1, AcceptKeeps, CombineKeeps
    <2>2. CASE TakeDiscovered
      <3>1. /\ engine' = [e \in Engines |-> NoEngine] /\ provenance' = [n \in Names |-> {}]
            /\ merged' = NotMerged /\ setup' = setup
        BY <2>2 DEF TakeDiscovered, LeaveDiscovery
      <3>2. NoEngine \in EngineSet /\ NoEngine.at = "queued" /\ NoEngine.status = "queued" /\ NoEngine.erred = FALSE
        BY DEF NoEngine, EngineSet
      <3>3. Finished' = {}
        BY <3>1, <3>2 DEF Finished
      <3>4. QED
        BY <3>1, <3>2, <3>3 DEF EngineInv, DiscoveryIsAttributed, NotMerged
    <2>3. CASE ~MergeEngines /\ ~TakeDiscovered
      BY <1>1, <1>2, <2>3
      DEF ScanThread, TakeRun, Generate, GenerateFails, Resolve, Enrich, Mapping, LeaveCall, Collect,
          Announce, Publish, ReportOutcome, Fallout, CloseRoutes, Idle, Still
    <2>4. QED
      BY <2>1, <2>2, <2>3
  <1>3. ASSUME NEW e \in Engines, Discover(e) PROVE EngineInv' /\ DiscoveryIsAttributed'
    BY <1>3, EngineThreadKeeps
  <1>4. CASE Network \/ \E i \in Items : LookupThread(i)
    BY <1>1, <1>4 DEF Network, LookupThread, InLookup, Still
  <1>5. CASE Stop \/ CloseService
    BY <1>1, <1>5 DEF Stop, CloseService, scanState
  <1>6. QED
    BY <1>2, <1>3, <1>4, <1>5 DEF Next, Threads

\* The invariant of discovery holds in every reachable state.
LEMMA EnginesInvariant == Spec => [](EngineInv /\ DiscoveryIsAttributed)
  <1> DEFINE Inv == EngineInv /\ DiscoveryIsAttributed
  <1>1. Init => Inv
    <2> SUFFICES ASSUME Init PROVE Inv
      OBVIOUS
    <2>1. /\ engine = [e \in Engines |-> NoEngine] /\ provenance = [n \in Names |-> {}] /\ merged = NotMerged
      BY DEF Init, DiscoveryInit
    <2>2. NoEngine \in EngineSet /\ NoEngine.at = "queued" /\ NoEngine.status = "queued" /\ NoEngine.erred = FALSE
      BY DEF NoEngine, EngineSet
    <2>3. Finished = {}
      BY <2>1, <2>2 DEF Finished
    <2>4. QED
      BY <2>1, <2>2, <2>3 DEF EngineInv, DiscoveryIsAttributed
  <1>2. Inv /\ StagesInv /\ [Next]_vars => Inv'
    <2>1. ASSUME Inv, StagesInv, Next PROVE Inv'
      BY <2>1, DiscoveryKept DEF StagesInv
    <2>2. ASSUME Inv, UNCHANGED vars PROVE Inv'
      <3>1. UNCHANGED <<engine, provenance, merged, setup, stage>>
        BY <2>2 DEF vars, scanState, discoveryState
      <3>2. Finished' = Finished
        BY <3>1 DEF Finished
      <3>3. QED
        BY <2>2, <3>1, <3>2 DEF EngineInv, DiscoveryIsAttributed
    <2>3. QED
      BY <2>1, <2>2
  <1>3. QED
    BY <1>1, <1>2, StagesInvariant, PTL DEF Spec

\* What a scan is handed by discovery is what its engines found in scope, all of
\* it, and "ok" only of engines that did not fall short, in every reachable state.
THEOREM DiscoveryAttributed == Spec => []DiscoveryIsAttributed
  BY EnginesInvariant, PTL

-------------------------------------------------------------------------------
(* The end of a scan.                                                      *)

\* Only a stop cancels a run, only a published or failed scan ends it otherwise,
\* and what is shown as an end is the run's.
Published == status \in {"completed", "partial"}

EndInv ==
  /\ status \in {"running"} \cup TerminalStages
  /\ requested <=> status = "cancelled"
  /\ shown.stage \in TerminalStages => shown.stage = status /\ saved = shown
  /\ status \in {"completed", "partial", "failed"} => stage \in {"reporting", "closing", "ended"}
  /\ stage = "reporting" => Published
  /\ stage \in {"closing", "ended"} => status # "running" /\ shown.stage = status

\* A report that ends nothing.
QuietReport ==
  \/ UNCHANGED progressState
  \/ shown.stage \notin TerminalStages /\ shown'.stage \notin TerminalStages

\* Where a scan is before its end.
Underway == stage \notin {"reporting", "closing", "ended"}

LEMMA ReportIsQuiet ==
  ASSUME NEW st, NEW count, NEW spoken, st \notin TerminalStages, Update(st, count, spoken)
  PROVE  QuietReport
  BY DEF Update, QuietReport

\* A report of an end ends what is shown, on disk too, unless it had ended before.
LEMMA ReportEnds ==
  ASSUME NEW st \in TerminalStages, NEW count, NEW spoken, Update(st, count, spoken)
  PROVE  IF shown.stage \in TerminalStages THEN shown' = shown /\ saved' = saved
         ELSE shown' = [stage |-> st, count |-> count] /\ saved' = shown'
  <1>1. CASE shown.stage \in TerminalStages
    BY <1>1 DEF Update, progressState
  <1>2. CASE shown.stage \notin TerminalStages
    BY <1>2 DEF Update
  <1>3. QED
    BY <1>1, <1>2

\* Every step keeps the run and what is shown of its end together.
LEMMA EndKept ==
  ASSUME EndInv, Next
  PROVE  EndInv'
  <1>1. ASSUME UNCHANGED <<status, requested>>, QuietReport, stage' = stage \/ (Underway /\ Underway')
        PROVE  EndInv'
    BY <1>1 DEF EndInv, QuietReport, Underway, progressState, Published, TerminalStages
  <1>2. CASE ScanThread
    <2>1. CASE Publish
      <3>1. stage = "accepting" /\ UNCHANGED <<requested, shown, saved>>
        BY <2>1 DEF Publish, Idle, signal, progressState
      <3>2. status \in {"running", "cancelled"} /\ shown.stage \notin {"completed", "partial", "failed"}
        BY <3>1 DEF EndInv, TerminalStages
      <3>3. CASE Cancelled
        BY <2>1, <3>1, <3>3 DEF Publish, EndInv, Published
      <3>4. CASE ~Cancelled
        <4>1. status = "running" /\ ~requested /\ shown.stage \notin TerminalStages
          BY <3>2, <3>4 DEF Cancelled, EndInv, TerminalStages
        <4>2. stage' = "reporting" /\ status' \in {"completed", "partial"}
          BY <2>1, <3>4 DEF Publish
        <4>3. QED
          BY <3>1, <4>1, <4>2 DEF EndInv, Published, TerminalStages
      <3>5. QED
        BY <3>3, <3>4
    <2>2. CASE ReportOutcome
      <3>1. /\ stage = "reporting" /\ stage' = "closing" /\ UNCHANGED <<status, requested>>
            /\ Update(status, shown.count, TRUE)
        BY <2>2 DEF ReportOutcome, Idle, signal
      <3>2. status \in TerminalStages /\ Published
        BY <3>1 DEF EndInv, Published, TerminalStages
      <3>3. IF shown.stage \in TerminalStages THEN shown' = shown /\ saved' = saved
            ELSE shown' = [stage |-> status, count |-> shown.count] /\ saved' = shown'
        BY <3>1, <3>2, ReportEnds
      <3>4. QED
        BY <3>1, <3>2, <3>3 DEF EndInv, Published, TerminalStages
    <2>3. CASE Fallout
      <3>1. /\ stage = "failing" /\ stage' = "closing" /\ UNCHANGED requested
            /\ status' = IF status = "running" THEN "failed" ELSE status
            /\ Update(status', shown.count, TRUE)
        BY <2>3 DEF Fallout, Idle, signal
      <3>2. status' \in {"failed", "cancelled"} /\ (status' = "failed" => status = "running")
        BY <3>1 DEF EndInv, TerminalStages
      <3>3. status' \in TerminalStages
        BY <3>2 DEF TerminalStages
      <3>4. IF shown.stage \in TerminalStages THEN shown' = shown /\ saved' = saved
            ELSE shown' = [stage |-> status', count |-> shown.count] /\ saved' = shown'
        BY <3>1, <3>3, ReportEnds
      <3>5. QED
        BY <3>1, <3>2, <3>3, <3>4 DEF EndInv, Published, TerminalStages
    <2>4. CASE CloseRoutes
      BY <2>4 DEF CloseRoutes, signal, progressState, EndInv, Published, TerminalStages
    <2>5. CASE TakeRun \/ Generate \/ Resolve \/ Enrich \/ Announce \/ \E i \in Items : Collect(i)
      <3>1. UNCHANGED <<status, requested>>
        BY <2>5 DEF TakeRun, Generate, Resolve, Enrich, Announce, Collect, Idle, Still, signal
      <3>2. stage' = stage \/ (Underway /\ Underway')
        BY <2>5 DEF TakeRun, Generate, Resolve, Enrich, Announce, Collect, Still, Underway
      <3>3. QuietReport
        <4>1. \A st \in {"discovery", "generation", "dns", "parking", "publishing"} : st \notin TerminalStages
          BY DEF TerminalStages
        <4>2. UNCHANGED progressState => QuietReport
          BY DEF QuietReport
        <4>3. CASE TakeRun \/ Generate \/ Resolve
          BY <4>1, <4>2, <4>3, ReportIsQuiet DEF TakeRun, Generate, Resolve
        <4>4. CASE Enrich \/ Announce \/ \E i \in Items : Collect(i)
          BY <4>1, <4>2, <4>4, ReportIsQuiet DEF Enrich, Announce, Collect
        <4>5. QED
          BY <2>5, <4>3, <4>4
      <3>4. QED
        BY <1>1, <3>1, <3>2, <3>3
    <2>6. CASE MergeEngines
      <3>1. UNCHANGED <<status, requested, stage>> /\ \E count : Update("discovery", count, TRUE)
        BY <2>6 DEF MergeEngines, Combine, Accept, Still, signal
      <3>2. QED
        BY <1>1, <3>1, ReportIsQuiet DEF TerminalStages
    <2>7. CASE TakeDiscovered \/ GenerateFails \/ Mapping \/ LeaveCall
      <3>1. UNCHANGED <<status, requested, progressState>> /\ (stage' = stage \/ (Underway /\ Underway'))
        BY <2>7 DEF TakeDiscovered, GenerateFails, Mapping, LeaveCall, Idle, Still, signal, Underway
      <3>2. QED
        BY <1>1, <3>1 DEF QuietReport
    <2>8. QED
      BY <1>2, <2>1, <2>2, <2>3, <2>4, <2>5, <2>6, <2>7 DEF ScanThread
  <1>3. ASSUME NEW e \in Engines, Discover(e) PROVE EndInv'
    <2>1. UNCHANGED <<status, requested, stage>>
      BY <1>3 DEF Discover, Still, EngineThread, Launch, Unavailable, Skip, EngineRaises, RootDone, signal
    <2>2. UNCHANGED progressState \/ \E count : Update("discovery", count, TRUE)
      BY <1>3 DEF Discover, EngineThread, Launch, Unavailable, Skip, EngineRaises, RootDone
    <2>3. QED
      BY <1>1, <2>1, <2>2, ReportIsQuiet DEF QuietReport, TerminalStages
  <1>4. CASE Network \/ \E i \in Items : LookupThread(i)
    <2>1. UNCHANGED <<status, requested, stage, progressState>>
      BY <1>4 DEF Network, LookupThread, InLookup, Still, signal
    <2>2. QED
      BY <1>1, <2>1 DEF QuietReport
  <1>5. CASE Stop
    <2>1. /\ status = "running" /\ requested' = TRUE /\ status' = "cancelled" /\ stage' = stage
          /\ Update("cancelled", shown.count, TRUE) /\ stage # "ended"
      BY <1>5 DEF Stop, Request
    <2>2. shown.stage \notin TerminalStages /\ stage \notin {"reporting", "closing", "ended"}
      BY <2>1 DEF EndInv, Published, TerminalStages
    <2>3. shown' = [stage |-> "cancelled", count |-> shown.count] /\ saved' = shown'
      BY <2>1, <2>2, ReportEnds DEF TerminalStages
    <2>4. QED
      BY <2>1, <2>2, <2>3 DEF EndInv, Published, TerminalStages
  <1>6. CASE CloseService
    <2>1. UNCHANGED <<status, requested, stage, progressState>>
      BY <1>6 DEF CloseService, Close, scanState
    <2>2. QED
      BY <1>1, <2>1 DEF QuietReport
  <1>7. QED
    BY <1>2, <1>3, <1>4, <1>5, <1>6 DEF Next, Threads

\* When a scan's thread is done the run has ended in the database, and its progress,
\* on disk too, shows that end, in every reachable state.
THEOREM OutcomeShown == Spec => []OutcomeIsShown
  <1>1. Init => EndInv
    <2> SUFFICES ASSUME Init PROVE EndInv
      OBVIOUS
    <2>1. requested = FALSE /\ status = "running" /\ stage = "start" /\ shown.stage = "queued"
      BY DEF Init, SignalInit, ProgressInit
    <2>2. QED
      BY <2>1 DEF EndInv, TerminalStages
  <1>2. EndInv /\ [Next]_vars => EndInv'
    <2>1. ASSUME EndInv, UNCHANGED vars PROVE EndInv'
      BY <2>1 DEF vars, scanState, signal, progressState, EndInv, Published
    <2>2. QED
      BY <2>1, EndKept
  <1>3. EndInv => OutcomeIsShown
    BY DEF EndInv, OutcomeIsShown, TerminalStages
  <1>4. QED
    BY <1>1, <1>2, <1>3, PTL DEF Spec

-------------------------------------------------------------------------------
(* What is shown of a scan.                                                *)

\* The scan's thread is in a call of bounded_map only in the two stages that make one.
CallInv == stage \notin {"dns", "parking"} => caller = "idle"

\* What may be shown.
Counted == [stage : {"queued", "discovery", "generation", "dns", "parking", "publishing"} \cup TerminalStages,
            count : Nat]

\* What is shown keeps behind the stage the scan is at.
ShownInv ==
  /\ shown \in Counted
  /\ shown.stage \notin TerminalStages =>
       /\ stage = "start"      => shown.stage = "queued"
       /\ stage = "discovery"  => shown.stage = "discovery" /\ shown.count = Count
       /\ stage = "generation" => shown.stage = "discovery"
       /\ stage = "dns"        => shown.stage = IF caller = "idle" THEN "generation" ELSE "dns"
       /\ stage = "parking"    => shown.stage = IF caller = "idle" THEN "dns" ELSE "parking"
       /\ stage = "publishing" => shown.stage = "parking"
       /\ stage \in {"accepting", "reporting"} => shown.stage = "publishing"

\* What a report may do to what is shown.
MovesOn ==
  /\ Rank[shown.stage] <= Rank[shown'.stage]
  /\ shown'.stage = shown.stage => shown'.count >= shown.count
  /\ shown.stage \in TerminalStages => shown' = shown

\* Every step leaves the caller in a call, or out of one, as the stage says.
LEMMA CallKept ==
  ASSUME CallInv, Next
  PROVE  CallInv'
  <1>1. ASSUME caller' = caller, stage' = stage \/ stage \notin {"dns", "parking"} \/ stage' \in {"dns", "parking"}
        PROVE  CallInv'
    BY <1>1 DEF CallInv
  <1>2. CASE ScanThread
    <2>1. CASE \/ TakeRun \/ MergeEngines \/ TakeDiscovered \/ Generate \/ GenerateFails
               \/ Announce \/ Publish \/ ReportOutcome \/ Fallout \/ CloseRoutes
      BY <1>1, <2>1
      DEF TakeRun, MergeEngines, TakeDiscovered, Generate, GenerateFails, Announce, Publish, ReportOutcome,
          Fallout, CloseRoutes, Idle, Still, mapState
    <2>2. CASE Resolve \/ Enrich \/ Mapping \/ \E i \in Items : Collect(i)
      BY <2>2 DEF Resolve, Enrich, Mapping, Collect, Still, CallInv
    <2>3. CASE LeaveCall
      BY <2>3 DEF LeaveCall, Leave, CallInv
    <2>4. QED
      BY <1>2, <2>1, <2>2, <2>3 DEF ScanThread
  <1>3. ASSUME NEW e \in Engines, Discover(e) PROVE CallInv'
    BY <1>1, <1>3 DEF Discover, Still, mapState
  <1>4. CASE Network \/ \E i \in Items : LookupThread(i)
    BY <1>4 DEF Network, LookupThread, InLookup, Still, CallInv
  <1>5. CASE Stop \/ CloseService
    BY <1>1, <1>5 DEF Stop, CloseService, scanState, mapState
  <1>6. QED
    BY <1>2, <1>3, <1>4, <1>5 DEF Next, Threads

\* The counts that are reported.
LEMMA Counts ==
  ASSUME ScanType, EngineInv
  PROVE  /\ Count \in Nat /\ Cardinality(Ungenerated) \in Nat
         /\ \A e \in Engines : e \notin Finished => Cardinality(Finished \cup {e}) = Count + 1
         /\ \A hinted \in SUBSET Items : Cardinality(hinted) \in Nat
         /\ Finished = {} => Count = 0
  <1>1. IsFiniteSet(Items) /\ IsFiniteSet(Engines)
    BY MapAssumption, StagesAssumption
  <1>2. Ungenerated \in SUBSET Items
    BY DEF Ungenerated, ScanType
  <1>3. \A hinted \in SUBSET Items : Cardinality(hinted) \in Nat
    BY <1>1, FS_Subset, FS_CardinalityType, Zenon
  <1>4. Finished \in SUBSET Engines
    BY DEF Finished
  <1>5. IsFiniteSet(Finished) /\ Count \in Nat
    BY <1>1, <1>4, FS_Subset, FS_CardinalityType, Zenon DEF Count
  <1>6. ASSUME NEW e \in Engines, e \notin Finished PROVE Cardinality(Finished \cup {e}) = Count + 1
    BY <1>5, <1>6, FS_AddElement, Zenon DEF Count
  <1>7. Finished = {} => Count = 0
    BY FS_EmptySet, Zenon DEF Count
  <1>8. QED
    BY <1>2, <1>3, <1>5, <1>6, <1>7

\* A stage and a count that are not behind what is shown, unless it had ended.
NotBehind(st, count) ==
  shown.stage \notin TerminalStages => /\ Rank[shown.stage] <= Rank[st]
                                       /\ shown.stage = st => count >= shown.count

\* A report of a stage that is not behind what is shown moves it forward, unless it
\* had ended.
LEMMA ReportMoves ==
  ASSUME shown \in Counted, NEW st, NEW count, NEW spoken, Update(st, count, spoken), count \in Nat,
         st \in {"discovery", "generation", "dns", "parking", "publishing"} \cup TerminalStages,
         NotBehind(st, count)
  PROVE  /\ shown' \in Counted /\ MovesOn
         /\ shown'.stage \notin TerminalStages =>
              shown.stage \notin TerminalStages /\ shown'.stage = st /\ shown'.count = count
  <1>1. CASE shown.stage \in TerminalStages
    <2>1. shown' = shown
      BY <1>1 DEF Update, progressState
    <2>2. QED
      BY <1>1, <2>1 DEF Counted, MovesOn, Rank, TerminalStages
  <1>2. CASE shown.stage \notin TerminalStages
    <2>1. shown' = [stage |-> st, count |-> count]
      BY <1>2 DEF Update
    <2>2. QED
      BY <1>2, <2>1 DEF Counted, MovesOn, NotBehind
  <1>3. QED
    BY <1>1, <1>2

\* Silence moves nothing.
LEMMA SilenceMoves ==
  ASSUME shown \in Counted, UNCHANGED progressState
  PROVE  shown' = shown /\ shown' \in Counted /\ MovesOn
  BY DEF Counted, MovesOn, Rank, TerminalStages, progressState

\* In every step: what is shown moves forward, and keeps behind the scan.
LEMMA ShownKept ==
  ASSUME ScanType, EngineInv, EndInv, CallInv, ShownInv, Next
  PROVE  ShownInv' /\ MovesOn
  <1>1. shown \in Counted /\ Count \in Nat /\ shown.count \in Nat
    BY Counts DEF ShownInv, Counted
  <1>2. ASSUME UNCHANGED <<progressState, stage>>,
               caller' = caller \/ stage \notin {"dns", "parking"} \/ (caller # "idle" /\ caller' # "idle"),
               stage = "discovery" => Finished' = Finished
        PROVE  ShownInv' /\ MovesOn
    BY <1>1, <1>2, SilenceMoves DEF ShownInv, Count
  <1>3. CASE ScanThread
    <2>1. CASE TakeRun
      <3>1. stage = "start" /\ stage' \in {"failing", "generation", "discovery"} /\ engine' = engine
        BY <2>1 DEF TakeRun, Idle, discoveryState
      <3>2. CASE stage' = "failing"
        BY <1>1, <2>1, <3>2, SilenceMoves DEF TakeRun, ShownInv
      <3>3. CASE stage' # "failing"
        <4>1. Update("discovery", 0, TRUE)
          BY <2>1, <3>3 DEF TakeRun
        <4>2. shown.stage \notin TerminalStages => shown.stage = "queued"
          BY <3>1 DEF ShownInv
        <4>3. /\ shown' \in Counted /\ MovesOn
              /\ shown'.stage \notin TerminalStages => shown'.stage = "discovery" /\ shown'.count = 0
          <5>1. NotBehind("discovery", 0)
            BY <4>2 DEF Rank, NotBehind
          <5>2. QED
            BY <1>1, <4>1, <5>1, ReportMoves
        <4>4. Count' = 0
          <5>1. Finished = {} /\ Finished' = Finished
            BY <3>1 DEF EngineInv, Finished, NoEngine
          <5>2. Count' = Count
            BY <5>1 DEF Count
          <5>3. QED
            BY <5>1, <5>2, Counts
        <4>5. QED
          BY <3>1, <3>3, <4>3, <4>4 DEF ShownInv
      <3>4. QED
        BY <3>2, <3>3
    <2>2. CASE MergeEngines
      <3>1. stage = "discovery" /\ stage' = stage
        BY <2>2 DEF MergeEngines, Still
      <3>2. shown.stage \notin TerminalStages => shown.stage = "discovery" /\ shown.count = Count
        BY <3>1 DEF ShownInv
      <3>3. PICK count \in Nat : Update("discovery", count, TRUE) /\ count >= Count /\ Count' = count
        <4>1. CASE Combine
          <5>1. Finished' = Finished /\ Update("discovery", Count, TRUE)
            BY <4>1 DEF Combine, Finished
          <5>2. Count' = Count
            BY <5>1 DEF Count
          <5>3. Count >= Count
            BY <1>1
          <5>4. QED
            BY <1>1, <5>1, <5>2, <5>3
        <4>2. ASSUME NEW e \in Engines, Accept(e)
              PROVE  Update("discovery", Count + 1, TRUE) /\ Count' = Count + 1
          <5>1. engine \in [Engines -> EngineSet]
            BY DEF EngineInv
          <5>2. /\ engine[e].at = "returned" /\ engine'[e].at = "finished"
                /\ \A f \in Engines : f # e => engine'[f] = engine[f]
            BY <4>2, <5>1 DEF Accept, EngineSet
          <5>3. e \notin Finished /\ Finished' = Finished \cup {e}
            BY <5>2 DEF Finished
          <5>4. Count' = Cardinality(Finished \cup {e})
            BY <5>3 DEF Count
          <5>5. QED
            BY <4>2, <5>3, <5>4, Counts DEF Accept
        <4>3. Count + 1 \in Nat /\ Count + 1 >= Count
          BY <1>1
        <4>4. CASE \E e \in Engines : Accept(e)
          BY <4>2, <4>3, <4>4
        <4>5. QED
          BY <2>2, <4>1, <4>4 DEF MergeEngines
      <3>4. /\ shown' \in Counted /\ MovesOn
            /\ shown'.stage \notin TerminalStages => shown'.stage = "discovery" /\ shown'.count = count
        <4>1. NotBehind("discovery", count)
          BY <3>2, <3>3 DEF Rank, NotBehind
        <4>2. QED
          BY <1>1, <3>3, <4>1, ReportMoves
      <3>5. QED
        BY <3>1, <3>3, <3>4 DEF ShownInv
    <2>3. CASE TakeDiscovered \/ GenerateFails
      <3>1. /\ UNCHANGED progressState /\ stage \in {"discovery", "generation"}
            /\ stage' \in {"failing", "generation"} /\ (stage = "generation" => stage' = "failing")
        BY <2>3 DEF TakeDiscovered, GenerateFails
      <3>2. QED
        BY <1>1, <3>1, SilenceMoves DEF ShownInv
    <2>4. CASE Generate
      <3>1. /\ stage = "generation" /\ stage' \in {"failing", "dns"} /\ caller' = "idle"
            /\ Update("generation", Cardinality(Ungenerated), TRUE)
        BY <2>4 DEF Generate, Idle, mapState, CallInv
      <3>2. /\ shown' \in Counted /\ MovesOn
            /\ shown'.stage \notin TerminalStages => shown'.stage = "generation"
        <4>1. shown.stage \notin TerminalStages => shown.stage = "discovery"
          BY <3>1 DEF ShownInv
        <4>2. NotBehind("generation", Cardinality(Ungenerated))
          BY <4>1 DEF Rank, NotBehind
        <4>3. QED
          BY <1>1, <3>1, <4>1, Counts, <4>2, ReportMoves
      <3>3. QED
        BY <3>1, <3>2 DEF ShownInv
    <2>5. CASE Resolve
      <3>1. stage = "dns" /\ stage' = stage /\ caller = "idle" /\ caller' # "idle" /\ Update("dns", 0, TRUE)
        BY <2>5 DEF Resolve, Call, Still
      <3>2. /\ shown' \in Counted /\ MovesOn
            /\ shown'.stage \notin TerminalStages => shown'.stage = "dns"
        <4>1. shown.stage \notin TerminalStages => shown.stage = "generation"
          BY <3>1 DEF ShownInv
        <4>2. NotBehind("dns", 0)
          BY <4>1 DEF Rank, NotBehind
        <4>3. QED
          BY <1>1, <3>1, <4>1, <4>2, ReportMoves
      <3>3. QED
        BY <3>1, <3>2 DEF ShownInv
    <2>6. CASE Enrich
      <3>1. PICK hinted \in SUBSET Items : Update("parking", Cardinality(hinted), FALSE)
        BY <2>6 DEF Enrich, ScanType
      <3>2. stage = "parking" /\ stage' = stage /\ caller = "idle" /\ caller' # "idle"
        BY <2>6 DEF Enrich, Call
      <3>3. /\ shown' \in Counted /\ MovesOn
            /\ shown'.stage \notin TerminalStages => shown'.stage = "parking"
        <4>1. shown.stage \notin TerminalStages => shown.stage = "dns"
          BY <3>2 DEF ShownInv
        <4>2. Cardinality(hinted) \in Nat
          BY Counts
        <4>3. NotBehind("parking", Cardinality(hinted))
          BY <4>1 DEF Rank, NotBehind
        <4>4. QED
          BY <1>1, <3>1, <4>1, <4>2, <4>3, ReportMoves
      <3>4. QED
        BY <3>2, <3>3 DEF ShownInv
    <2>7. CASE Mapping
      <3>1. UNCHANGED <<progressState, stage>> /\ stage # "discovery" /\ caller # "idle" /\ caller' # "idle"
        BY <2>7 DEF Mapping, Still, Submit, Wait, Return, Wake, Raise, Drain, YieldFails, Abandon
      <3>2. QED
        BY <1>2, <3>1
    <2>8. ASSUME NEW i \in Items, Collect(i) PROVE ShownInv' /\ MovesOn
      <3>1. /\ stage \in {"dns", "parking"} /\ stage' = stage /\ caller # "idle" /\ caller' # "idle"
            /\ Update(stage, shown.count + 1, FALSE)
        BY <2>8 DEF Collect, Yield
      <3>2. /\ shown' \in Counted /\ MovesOn
            /\ shown'.stage \notin TerminalStages => shown'.stage = stage
        <4>1. shown.stage \notin TerminalStages => shown.stage = stage
          BY <3>1 DEF ShownInv
        <4>2. shown.count + 1 \in Nat /\ shown.count + 1 >= shown.count
          BY <1>1
        <4>3. QED
          <5>1. NotBehind(stage, shown.count + 1)
            BY <3>1, <4>1, <4>2 DEF Rank, NotBehind
          <5>2. QED
            BY <1>1, <3>1, <4>2, <5>1, ReportMoves
      <3>3. QED
        BY <3>1, <3>2 DEF ShownInv
    <2>9. CASE LeaveCall
      <3>1. /\ UNCHANGED progressState /\ caller # "idle" /\ caller' = "idle"
            /\ \/ stage' = "failing"
               \/ stage = "dns" /\ stage' = "parking"
               \/ stage = "parking" /\ stage' = "publishing"
        BY <2>9 DEF LeaveCall, Leave
      <3>2. QED
        BY <1>1, <3>1, SilenceMoves DEF ShownInv
    <2>10. CASE Announce
      <3>1. stage = "publishing" /\ stage' = "accepting" /\ Update("publishing", 0, TRUE)
        BY <2>10 DEF Announce
      <3>2. /\ shown' \in Counted /\ MovesOn
            /\ shown'.stage \notin TerminalStages => shown'.stage = "publishing"
        <4>1. shown.stage \notin TerminalStages => shown.stage = "parking"
          BY <3>1 DEF ShownInv
        <4>2. NotBehind("publishing", 0)
          BY <4>1 DEF Rank, NotBehind
        <4>3. QED
          BY <1>1, <3>1, <4>1, <4>2, ReportMoves
      <3>3. QED
        BY <3>1, <3>2 DEF ShownInv
    <2>11. CASE Publish
      <3>1. UNCHANGED progressState /\ stage = "accepting" /\ stage' \in {"failing", "reporting"}
        BY <2>11 DEF Publish
      <3>2. QED
        BY <1>1, <3>1, SilenceMoves DEF ShownInv
    <2>12. CASE ReportOutcome \/ Fallout
      <3>1. PICK st \in TerminalStages : Update(st, shown.count, TRUE)
        <4>1. CASE ReportOutcome
          BY <4>1 DEF ReportOutcome, EndInv, Published, TerminalStages
        <4>2. CASE Fallout
          BY <4>2 DEF Fallout, EndInv, TerminalStages
        <4>3. QED
          BY <2>12, <4>1, <4>2
      <3>2. /\ shown' \in Counted /\ MovesOn /\ shown'.stage \in TerminalStages
        <4>1. st \notin {"discovery", "generation", "dns", "parking", "publishing"}
          BY DEF TerminalStages
        <4>2. NotBehind(st, shown.count)
          BY <1>1 DEF Rank, Counted, TerminalStages, NotBehind
        <4>3. QED
          BY <1>1, <3>1, <4>1, <4>2, ReportMoves
      <3>3. QED
        BY <3>2 DEF ShownInv
    <2>13. CASE CloseRoutes
      <3>1. UNCHANGED progressState /\ stage' = "ended"
        BY <2>13 DEF CloseRoutes
      <3>2. QED
        BY <1>1, <3>1, SilenceMoves DEF ShownInv
    <2>14. QED
      BY <1>3, <2>1, <2>2, <2>3, <2>4, <2>5, <2>6, <2>7, <2>8, <2>9, <2>10, <2>11, <2>12, <2>13 DEF ScanThread
  <1>4. ASSUME NEW e \in Engines, Discover(e) PROVE ShownInv' /\ MovesOn
    <2>1. stage = "discovery" /\ stage' = stage /\ Finished' = Finished
      BY <1>4, EngineThreadKeeps DEF Discover, Still
    <2>2. Count' = Count
      BY <2>1 DEF Count
    <2>3. CASE UNCHANGED progressState
      BY <1>2, <2>1, <2>3
    <2>4. CASE Update("discovery", Count, TRUE)
      <3>1. shown.stage \notin TerminalStages => shown.stage = "discovery" /\ shown.count = Count
        BY <2>1 DEF ShownInv
      <3>2. /\ shown' \in Counted /\ MovesOn
            /\ shown'.stage \notin TerminalStages => shown'.stage = "discovery" /\ shown'.count = Count
        <4>1. NotBehind("discovery", Count)
          BY <1>1, <3>1 DEF Rank, NotBehind
        <4>2. QED
          BY <1>1, <2>4, <4>1, ReportMoves
      <3>3. QED
        BY <2>1, <2>2, <3>2 DEF ShownInv
    <2>5. QED
      BY <1>4, <2>3, <2>4
      DEF Discover, EngineThread, Launch, Unavailable, Skip, EngineRaises, RootDone, ChildCount
  <1>5. CASE Network \/ \E i \in Items : LookupThread(i)
    <2>1. UNCHANGED <<progressState, stage>> /\ stage # "discovery" /\ caller' = caller
      BY <1>5
      DEF Network, LookupThread, InLookup, Still, Enter, GiveIn, GivenIn, TimeOut, ReturnFrom, AskDirectly,
          AskRelay, AskAgain, Arrive, Dropped, Relayed, Expired, Resolver, RelayDies, mapState,
          Begin, Finish, Fail, FailEnds
    <2>2. QED
      BY <1>2, <2>1
  <1>6. CASE Stop
    <2>1. Update("cancelled", shown.count, TRUE)
      BY <1>6 DEF Stop
    <2>2. NotBehind("cancelled", shown.count)
      BY <1>1 DEF Rank, Counted, TerminalStages, NotBehind
    <2>3. /\ shown' \in Counted /\ MovesOn /\ shown'.stage \in TerminalStages
      BY <1>1, <2>1, <2>2, ReportMoves DEF TerminalStages
    <2>4. QED
      BY <2>3 DEF ShownInv
  <1>7. CASE CloseService
    <2>1. UNCHANGED <<progressState, stage, caller, engine>>
      BY <1>7 DEF CloseService, scanState, mapState, discoveryState
    <2>2. Finished' = Finished
      BY <2>1 DEF Finished
    <2>3. QED
      BY <1>2, <2>1, <2>2
  <1>8. QED
    BY <1>3, <1>4, <1>5, <1>6, <1>7 DEF Next, Threads

\* What is shown of a scan only moves forward: the count of a stage grows, no stage
\* comes back, and nothing follows an end.
THEOREM ProgressForward == Spec => ProgressMovesForward
  <1>1. Init => CallInv /\ ShownInv /\ EndInv
    <2> SUFFICES ASSUME Init PROVE CallInv /\ ShownInv /\ EndInv
      OBVIOUS
    <2>1. /\ requested = FALSE /\ status = "running" /\ stage = "start" /\ caller = "idle"
          /\ shown = [stage |-> "queued", count |-> 0]
      BY DEF Init, SignalInit, ProgressInit, MapInit
    <2>2. QED
      BY <2>1 DEF EndInv, CallInv, ShownInv, Counted, TerminalStages
  <1>2. CallInv /\ ShownInv /\ EndInv /\ EngineInv /\ StagesInv /\ [Next]_vars
          => (CallInv /\ ShownInv /\ EndInv)' /\ [MovesOn]_progressState
    <2>1. ASSUME CallInv, ShownInv, EndInv, EngineInv, StagesInv, Next
          PROVE  (CallInv /\ ShownInv /\ EndInv)' /\ MovesOn
      BY <2>1, CallKept, EndKept, ShownKept DEF StagesInv
    <2>2. ASSUME CallInv, ShownInv, EndInv, UNCHANGED vars
          PROVE  (CallInv /\ ShownInv /\ EndInv)' /\ UNCHANGED progressState
      BY <2>2 DEF vars, scanState, signal, progressState, mapState, discoveryState, EndInv, Published, CallInv,
                  ShownInv, Count, Finished
    <2>3. QED
      BY <2>1, <2>2
  <1>3. [MovesOn]_progressState
          <=> [/\ Rank[shown.stage] <= Rank[shown'.stage]
               /\ shown'.stage = shown.stage => shown'.count >= shown.count
               /\ shown.stage \in TerminalStages => shown' = shown]_progressState
    BY DEF MovesOn
  <1>4. QED
    BY <1>1, <1>2, <1>3, StagesInvariant, EnginesInvariant, PTL DEF Spec, ProgressMovesForward

-------------------------------------------------------------------------------
(* What the lookups of a scan have got.                                    *)

\* A lookup asks what its stage asks, in turn, and what it has got is what the network
\* knows, or a failure; when its function has returned it has got it all.
Fits(i) ==
  /\ \A n \in 1 .. Len(lookup[i].got) :
       lookup[i].got[n] \in {zone[<<i, lookup[i].asks[n]>>], "failure"}
  /\ lookup[i].asks \in {<<>>, TypesOf(Job)}
  /\ future[i] \in {"running", "value"} => lookup[i].asks = TypesOf(Job)
  /\ future[i] = "value" => Len(lookup[i].got) = Len(lookup[i].asks)

\* So do the answers still under way; between calls there are no lookups.
LookupInv ==
  /\ zone = setup.zone
  /\ stage \notin {"dns", "parking"} => \A i \in Items : lookup[i] = NoLookup
  /\ \A letter \in mail : letter[4] \in {zone[letter[3]], "failure"}
  /\ \A i \in Items : Fits(i)

\* A lookup that is left alone still fits.
LEMMA ItemStays ==
  ASSUME NEW i \in Items, Fits(i), lookup'[i] = lookup[i], zone' = zone, Job' = Job,
         future'[i] = future[i] \/ future'[i] \notin {"running", "value"}
  PROVE  Fits(i)'
  <1>1. TypesOf(Job)' = TypesOf(Job)
    BY DEF TypesOf
  <1>2. QED
    BY <1>1 DEF Fits

\* No lookup fits any job.
LEMMA NoLookupFits ==
  ASSUME NEW i \in Items, lookup'[i] = NoLookup, future'[i] \notin {"running", "value"}
  PROVE  Fits(i)'
  <1>1. lookup'[i].got = <<>> /\ lookup'[i].asks = <<>>
    BY DEF NoLookup, LookupOf
  <1>2. Len(lookup'[i].got) = 0
    BY <1>1
  <1>3. QED
    BY <1>1, <1>2 DEF Fits

\* A question that gets an answer of the network's, or fails.
LEMMA GotGrows ==
  ASSUME LookupType, LookupInv, NEW i \in Items, NEW outcome \in {zone[Subject(i)], "failure"},
         Gets(i, outcome), future[i] = "running", Len(lookup[i].got) < Len(lookup[i].asks),
         mail' \subseteq mail, UNCHANGED <<zone, setup, stage, future>>
  PROVE  LookupInv'
  <1> DEFINE got == lookup[i].got
             asks == lookup[i].asks
  <1>1. lookup \in [Items -> Lookups] /\ got \in Seq(Answers \cup {"failure"}) /\ Fits(i)
    BY DEF LookupType, Lookups, LookupInv
  <1>2. /\ lookup'[i].got = Append(got, outcome) /\ lookup'[i].asks = asks
        /\ \A j \in Items : j # i => lookup'[j] = lookup[j]
    BY <1>1 DEF Gets
  <1>3. Job' = Job /\ TypesOf(Job)' = TypesOf(Job)
    BY DEF Job, TypesOf
  <1>4. /\ Len(got) \in Nat /\ Len(Append(got, outcome)) = Len(got) + 1
        /\ Append(got, outcome)[Len(got) + 1] = outcome
        /\ \A n \in 1 .. Len(got) : Append(got, outcome)[n] = got[n]
    BY <1>1
  <1>5. Subject(i) = <<i, asks[Len(got) + 1]>>
    BY DEF Subject
  <1>6. \A n \in 1 .. Len(got) + 1 : Append(got, outcome)[n] \in {zone[<<i, asks[n]>>], "failure"}
    <2>1. \A n \in 1 .. Len(got) + 1 : n \in 1 .. Len(got) \/ n = Len(got) + 1
      BY <1>4
    <2>2. \A n \in 1 .. Len(got) : got[n] \in {zone[<<i, asks[n]>>], "failure"}
      BY <1>1 DEF Fits
    <2>3. QED
      BY <1>4, <1>5, <2>1, <2>2
  <1>7. Fits(i)'
    BY <1>1, <1>2, <1>3, <1>4, <1>6 DEF Fits
  <1>8. ASSUME NEW j \in Items, j # i PROVE Fits(j)'
    BY <1>2, <1>3, <1>8, ItemStays DEF LookupInv
  <1>9. stage \in {"dns", "parking"}
    <2>1. lookup[i] # NoLookup
      BY <1>4 DEF NoLookup, LookupOf
    <2>2. QED
      BY <2>1 DEF LookupInv
  <1>10. QED
    BY <1>7, <1>8, <1>9 DEF LookupInv

\* A step that changes no lookup and no stage.
LEMMA LookupsStay ==
  ASSUME LookupInv, UNCHANGED <<zone, setup, stage, lookup>>,
         \A letter \in mail' : letter \in mail \/ letter[4] \in {zone[letter[3]], "failure"},
         \A i \in Items : future'[i] = future[i] \/ future'[i] \notin {"running", "value"}
  PROVE  LookupInv'
  <1>1. Job' = Job
    BY DEF Job
  <1>2. \A i \in Items : Fits(i)'
    BY <1>1, ItemStays DEF LookupInv
  <1>3. QED
    BY <1>2 DEF LookupInv

\* A step between the calls.
LEMMA BetweenCalls ==
  ASSUME LookupInv, MapInv, CallInv, UNCHANGED <<zone, setup, lookup, future>>, mail' \subseteq mail,
         stage \notin {"dns", "parking"}
  PROVE  LookupInv'
  <1>1. \A i \in Items : lookup'[i] = NoLookup /\ future'[i] \notin {"running", "value"}
    BY DEF LookupInv, CallInv, MapInv, Accounted
  <1>2. \A i \in Items : Fits(i)'
    BY <1>1, NoLookupFits
  <1>3. QED
    BY <1>1, <1>2 DEF LookupInv

\* A question sent changes sockets only.
LEMMA SocketsMove ==
  ASSUME LookupType, LookupInv, NEW i \in Items, NEW socket \in Ports \X Ids,
         lookup' = [lookup EXCEPT ![i] = [@ EXCEPT !.socket = socket]], stage \in {"dns", "parking"},
         UNCHANGED <<zone, setup, stage, mail, future>>
  PROVE  LookupInv'
  <1>1. Job' = Job /\ TypesOf(Job)' = TypesOf(Job)
    BY DEF Job, TypesOf
  <1> DEFINE new == [lookup[i] EXCEPT !.socket = socket]
  <1>2. lookup \in [Items -> Lookups] /\ lookup[i] \in Lookups /\ lookup' = [lookup EXCEPT ![i] = new]
    BY DEF LookupType
  <1>3. new.asks = lookup[i].asks /\ new.got = lookup[i].got
    BY <1>2, SocketType
  <1> HIDE DEF new
  <1>4. \A j \in Items : lookup'[j].asks = lookup[j].asks /\ lookup'[j].got = lookup[j].got
    BY <1>2, <1>3
  <1>5. \A j \in Items : Fits(j)'
    BY <1>1, <1>4 DEF Fits, LookupInv
  <1>6. QED
    BY <1>5 DEF LookupInv

\* Every step keeps what the lookups have got true.
LEMMA LookupKept ==
  ASSUME StagesInv, MapInv, CallInv, LookupInv, Next
  PROVE  LookupInv'
  <1> USE DEF StagesInv
  <1>1. ASSUME UNCHANGED <<zone, setup, lookup, future>>, mail' \subseteq mail,
               stage' = stage \/ stage \notin {"dns", "parking"}
        PROVE  LookupInv'
    <2>1. CASE stage' = stage
      BY <1>1, <2>1, LookupsStay
    <2>2. CASE stage \notin {"dns", "parking"}
      BY <1>1, <2>2, BetweenCalls
    <2>3. QED
      BY <1>1, <2>1, <2>2
  <1>2. CASE ScanThread
    <2>1. CASE \/ TakeRun \/ MergeEngines \/ TakeDiscovered \/ Generate \/ GenerateFails
               \/ Announce \/ Publish \/ ReportOutcome \/ Fallout
      <3>1. UNCHANGED <<setup, lookupState, mapState, relayState>> /\ stage \notin {"dns", "parking"}
        BY <2>1
        DEF TakeRun, MergeEngines, TakeDiscovered, Generate, GenerateFails, Announce, Publish, ReportOutcome,
            Fallout, Idle, Still
      <3>2. QED
        BY <1>1, <3>1 DEF lookupState, mapState, relayState
    <2>2. CASE CloseRoutes
      BY <1>1, <2>2 DEF CloseRoutes, CloseRelay, lookupState, mapState
    <2>3. CASE Resolve \/ Enrich \/ \E i \in Items : Collect(i)
      <3>1. UNCHANGED <<setup, stage, lookupState, relayState, future>>
        BY <2>3 DEF Resolve, Enrich, Collect, Call, Yield, Still
      <3>2. QED
        BY <1>1, <3>1 DEF lookupState, relayState
    <2>4. CASE Mapping
      <3>1. UNCHANGED <<setup, stage, lookupState, relayState>>
        BY <2>4 DEF Mapping, Still
      <3>2. \A i \in Items : future'[i] = future[i] \/ future'[i] \notin {"running", "value"}
        <4>1. future \in [Items -> Completed \cup {"none", "queued", "running", "failing", "cancelled"}]
          BY DEF MapInv, MapType
        <4>2. CASE Submit
          BY <4>1, <4>2 DEF Submit
        <4>3. CASE Wait \/ Return \/ Wake \/ Drain
          BY <4>3 DEF Wait, Return, Wake, Drain
        <4>4. CASE Raise \/ \E i \in Items : YieldFails(i)
          BY <4>4 DEF Raise, YieldFails, Abandon
        <4>5. QED
          BY <2>4, <4>2, <4>3, <4>4 DEF Mapping
      <3>3. QED
        BY <3>1, <3>2, LookupsStay DEF lookupState, relayState
    <2>5. CASE LeaveCall
      <3>1. /\ \A i \in Items : lookup'[i] = NoLookup /\ future'[i] \notin {"running", "value"}
            /\ UNCHANGED <<zone, setup, mail>>
        BY <2>5 DEF LeaveCall, Leave, relayState
      <3>2. \A i \in Items : Fits(i)'
        BY <3>1, NoLookupFits
      <3>3. QED
        BY <3>1, <3>2 DEF LookupInv
    <2>6. QED
      BY <1>2, <2>1, <2>2, <2>3, <2>4, <2>5 DEF ScanThread
  <1>3. ASSUME NEW e \in Engines, Discover(e) PROVE LookupInv'
    BY <1>1, <1>3 DEF Discover, Still, lookupState, mapState, relayState
  <1>4. ASSUME NEW i \in Items, LookupThread(i) PROVE LookupInv'
    <2>1. UNCHANGED <<setup, stage>> /\ stage \in {"dns", "parking"}
      BY <1>4 DEF LookupThread, InLookup, Still
    <2>2. future \in [Items -> Completed \cup {"none", "queued", "running", "failing", "cancelled"}]
      BY DEF MapInv, MapType
    <2>3. CASE Enter(i, Job)
      <3>1. /\ UNCHANGED <<zone, mail>> /\ lookup \in [Items -> Lookups] /\ Job' = Job
            /\ TypesOf(Job)' = TypesOf(Job)
        BY <2>1, <2>3 DEF Enter, relayState, LookupType, Job, TypesOf
      <3>2. \A j \in Items : j # i => lookup'[j] = lookup[j] /\ future'[j] = future[j]
        BY <2>2, <2>3, <3>1 DEF Enter, Begin
      <3>3. Fits(i)'
        <4>1. CASE stopped \/ Cancelled
          <5>1. lookup'[i] = NoLookup /\ future'[i] \notin {"running", "value"}
            BY <2>2, <2>3, <3>1, <4>1 DEF Enter, Begin
          <5>2. QED
            BY <5>1, NoLookupFits
        <4>2. CASE ~(stopped \/ Cancelled)
          <5>1. lookup'[i] = LookupOf(TypesOf(Job)) /\ future'[i] = "running"
            BY <2>2, <2>3, <3>1, <4>2 DEF Enter, Begin
          <5>2. lookup'[i].got = <<>> /\ lookup'[i].asks = TypesOf(Job)
            BY <5>1 DEF LookupOf
          <5>3. Len(lookup'[i].got) = 0
            BY <5>2
          <5>4. QED
            BY <3>1, <5>1, <5>2, <5>3 DEF Fits
        <4>3. QED
          BY <4>1, <4>2
      <3>4. ASSUME NEW j \in Items PROVE Fits(j)'
        <4>1. Fits(j)
          BY DEF LookupInv
        <4>2. CASE j # i
          BY <3>1, <3>2, <4>1, <4>2, ItemStays
        <4>3. QED
          BY <3>3, <4>2
      <3>5. QED
        BY <2>1, <3>1, <3>4 DEF LookupInv
    <2>4. CASE GiveIn(i) \/ GivenIn(i)
      <3>1. UNCHANGED <<lookupState, relayState>>
        BY <2>4 DEF GiveIn, GivenIn
      <3>2. \A j \in Items : future'[j] = future[j] \/ future'[j] \notin {"running", "value"}
        BY <2>2, <2>4 DEF GiveIn, GivenIn, Fail, FailEnds
      <3>3. QED
        BY <2>1, <3>1, <3>2, LookupsStay DEF lookupState, relayState
    <2>5. CASE TimeOut(i)
      BY <2>1, <2>5, GotGrows DEF TimeOut, Asking, Busy, LookupType, mapState, relayState
    <2>6. ASSUME NEW outcome \in Answers, AskDirectly(i, outcome) PROVE LookupInv'
      BY <2>1, <2>6, GotGrows DEF AskDirectly, Between, Busy, mapState, relayState
    <2>7. ASSUME NEW port \in Ports, NEW id \in Ids, AskRelay(i, port, id) PROVE LookupInv'
      <3>1. <<port, id>> \in Ports \X Ids
        OBVIOUS
      <3>2. /\ lookup' = [lookup EXCEPT ![i] = [@ EXCEPT !.socket = <<port, id>>]]
            /\ UNCHANGED <<zone, mail, future>>
        BY <2>7 DEF AskRelay, Ask, mapState
      <3>3. QED
        BY <2>1, <3>1, <3>2, SocketsMove
    <2>8. CASE ReturnFrom(i)
      <3>1. /\ UNCHANGED <<zone, lookup, mail>> /\ Job' = Job /\ TypesOf(Job)' = TypesOf(Job)
            /\ future[i] = "running" /\ Len(lookup[i].got) = Len(lookup[i].asks)
            /\ future'[i] = "value" /\ \A j \in Items : j # i => future'[j] = future[j]
        BY <2>1, <2>2, <2>8 DEF ReturnFrom, Through, Busy, Finish, lookupState, relayState, Job, TypesOf
      <3>2. ASSUME NEW j \in Items PROVE Fits(j)'
        <4>1. Fits(j)
          BY DEF LookupInv
        <4>2. CASE j # i
          BY <3>1, <4>1, <4>2, ItemStays
        <4>3. CASE j = i
          BY <3>1, <4>1, <4>3 DEF Fits
        <4>4. QED
          BY <4>2, <4>3
      <3>3. QED
        BY <2>1, <3>1, <3>2 DEF LookupInv
    <2>9. QED
      BY <1>4, <2>3, <2>4, <2>5, <2>6, <2>7, <2>8 DEF LookupThread
  <1>5. CASE Network
    <2>1. UNCHANGED <<setup, stage>> /\ stage \in {"dns", "parking"}
      BY <1>5 DEF Network, InLookup, Still
    <2>2. ASSUME NEW i \in Items, NEW port \in Ports, AskAgain(i, port) PROVE LookupInv'
      <3>1. /\ lookup' = [lookup EXCEPT ![i] = [@ EXCEPT !.socket = <<port, lookup[i].socket[2]>>]]
            /\ UNCHANGED <<zone, mail, future>>
        BY <2>2 DEF AskAgain, Ask, mapState
      <3>2. <<port, lookup[i].socket[2]>> \in Ports \X Ids
        BY <2>2 DEF AskAgain, Asking, LookupType, Lookups
      <3>3. QED
        BY <2>1, <3>1, <3>2, SocketsMove
    <2>3. ASSUME NEW letter \in mail, Arrive(letter) PROVE LookupInv'
      <3>1. mail' \subseteq mail /\ UNCHANGED <<zone, future>> /\ letter[4] \in {zone[letter[3]], "failure"}
        BY <2>3 DEF Arrive, Receive, mapState, LookupInv
      <3>2. CASE UNCHANGED lookup
        BY <1>1, <2>1, <3>1, <3>2
      <3>3. ASSUME NEW i \in Items, Asking(i),
                   Gets(i, IF lookup[i].socket = Asker(letter) /\ Subject(i) = Question(letter)
                           THEN letter[4] ELSE "failure")
            PROVE  LookupInv'
        <4> DEFINE outcome == IF lookup[i].socket = Asker(letter) /\ Subject(i) = Question(letter)
                              THEN letter[4] ELSE "failure"
        <4>1. outcome \in {zone[Subject(i)], "failure"}
          BY <3>1 DEF Question
        <4>2. future[i] = "running" /\ Len(lookup[i].got) < Len(lookup[i].asks)
          BY <3>3 DEF Asking, Busy, LookupType
        <4>3. Gets(i, outcome)
          BY <3>3
        <4> HIDE DEF outcome
        <4>4. QED
          BY <2>1, <3>1, <4>1, <4>2, <4>3, GotGrows
      <3>4. QED
        BY <2>3, <3>2, <3>3 DEF Arrive
    <2>4. CASE \/ \E packet \in inbox : Dropped(packet) \/ \E key \in Keys : Relayed(packet, key)
               \/ \E key \in Keys : Expired(key)
               \/ RelayDies
      <3>1. \A packet : Dropped(packet) => UNCHANGED <<lookupState, mapState>> /\ mail' = mail
        BY DEF Dropped, DropQuestion
      <3>2. \A packet, key : Relayed(packet, key) => UNCHANGED <<lookupState, mapState>> /\ mail' = mail
        BY DEF Relayed, Forward
      <3>3. \A key : Expired(key) => UNCHANGED <<lookupState, mapState>> /\ mail' = mail
        BY DEF Expired, Expire
      <3>4. RelayDies => UNCHANGED <<lookupState, mapState>> /\ mail' = mail
        BY DEF RelayDies, RelayFails
      <3>5. UNCHANGED <<lookupState, mapState>> /\ mail' = mail
        BY <2>4, <3>1, <3>2, <3>3, <3>4
      <3>6. QED
        BY <1>1, <2>1, <3>5 DEF lookupState, mapState
    <2>5. ASSUME NEW sent \in outside, NEW answer \in Answers, Resolver(sent[1], sent[2], answer)
          PROVE  LookupInv'
      <3>1. UNCHANGED <<lookupState, mapState>> /\ answer \in {zone[sent[2]], "failure"}
        BY <2>5 DEF Resolver
      <3>2. \A letter \in mail' : letter \in mail \/ (letter[3] = sent[2] /\ letter[4] = answer)
        BY <2>5 DEF Resolver, Answer
      <3>3. \A letter \in mail' : letter \in mail \/ letter[4] \in {zone[letter[3]], "failure"}
        BY <3>1, <3>2
      <3>4. QED
        BY <2>1, <3>1, <3>3, LookupsStay DEF lookupState, mapState
    <2>6. QED
      BY <1>5, <2>2, <2>3, <2>4, <2>5 DEF Network
  <1>6. CASE Stop \/ CloseService
    BY <1>1, <1>6 DEF Stop, CloseService, scanState, lookupState, mapState, relayState
  <1>7. QED
    BY <1>2, <1>3, <1>4, <1>5, <1>6 DEF Next, Threads

-------------------------------------------------------------------------------
(* What a scan says of a host.                                             *)

Types == 1 .. Len(RecordTypes)

HostTrue(i, said) ==
  /\ said = "resolved" => /\ \E t \in Types : zone[<<i, RecordTypes[t]>>] = "records"
                          /\ \A t \in Types : zone[<<i, RecordTypes[t]>>] # "nxdomain"
  /\ said = "nxdomain" => \A t \in Types : zone[<<i, RecordTypes[t]>>] = "nxdomain"
  /\ said = "noanswer" => \A t \in Types : zone[<<i, RecordTypes[t]>>] = "noanswer"

ParkingTrue(i, said, parking) ==
  parking # "none" =>
    CASE said # "resolved"  -> parking = "unknown"
      [] setup.hints[i] # "none" /\ said = "resolved" -> parking = setup.hints[i]
      [] OTHER -> parking = "likely_parked" => zone[<<i, "NS">>] = "parked"

LEMMA TruthByHost ==
  ObservationsTellTheTruth <=>
    \A i \in Items : /\ HostTrue(i, scan.observations[i])
                     /\ ParkingTrue(i, scan.observations[i], scan.parking[i])
  BY DEF ObservationsTellTheTruth, HostTrue, ParkingTrue, Types

\* The same of what is true after a step.
LEMMA TruthNext ==
  ASSUME UNCHANGED <<zone, setup>>,
         \A i \in Items : /\ HostTrue(i, scan'.observations[i])
                         /\ ParkingTrue(i, scan'.observations[i], scan'.parking[i])
  PROVE  ObservationsTellTheTruth'
  <1>1. ASSUME NEW i \in Items, NEW said, NEW parking, HostTrue(i, said), ParkingTrue(i, said, parking)
        PROVE  HostTrue(i, said)' /\ ParkingTrue(i, said, parking)'
    BY <1>1 DEF HostTrue, ParkingTrue, Types
  <1>2. QED
    BY DEF ObservationsTellTheTruth, HostTrue, ParkingTrue, Types

\* What a scan has made of its lookups: nothing before its stage.
ResultsInv ==
  /\ scan.observations \in [Items -> {"none", "unknown", "resolved", "nxdomain", "noanswer"}]
  /\ DOMAIN scan.parking = Items
  /\ stage \in {"start", "discovery", "generation"} => scan.observations = NoResults
  /\ stage \in {"start", "discovery", "generation", "dns"} \/ (stage = "parking" /\ caller = "idle") =>
       scan.parking = NoResults
  /\ stage = "parking" /\ caller # "idle" => given = {i \in scan.candidates : Hint(i) = "none"}

\* What the network knows of the types is one of the outcomes of a question.
LEMMA ZoneType ==
  ASSUME ScanType, LookupInv, NEW i \in Items
  PROVE  /\ zone[<<i, "NS">>] \in NsOutcomes
         /\ \A t \in 1 .. Len(RecordTypes) : zone[<<i, RecordTypes[t]>>] \in Outcomes
         /\ Len(RecordTypes) \in Nat /\ Len(RecordTypes) > 0
  <1>1. RecordTypes \in Seq(STRING) /\ RecordTypes # <<>>
    BY StagesAssumption
  <1>2. /\ Len(RecordTypes) \in Nat /\ Len(RecordTypes) > 0
        /\ DOMAIN RecordTypes = 1 .. Len(RecordTypes)
    BY <1>1
  <1>3. QED
    BY <1>2, StagesAssumption DEF ScanType, LookupInv

\* observe, whatever of its questions failed, tells the truth.
LEMMA ObservationTrue ==
  ASSUME ScanType, LookupInv, NEW i \in Items, NEW got, DOMAIN got = 1 .. Len(RecordTypes),
         \A t \in 1 .. Len(RecordTypes) : got[t] \in {zone[<<i, RecordTypes[t]>>], "failure"}
  PROVE  /\ Observation(got) \in {"unknown", "resolved", "nxdomain", "noanswer"}
         /\ HostTrue(i, Observation(got))
  <1>1. \A t \in Types : zone[<<i, RecordTypes[t]>>] \in {"records", "noanswer", "nxdomain"}
    BY ZoneType DEF Outcomes, Types
  <1>2. 1 \in Types
    <2>1. Len(RecordTypes) \in Nat /\ Len(RecordTypes) > 0
      BY ZoneType
    <2>2. QED
      BY <2>1 DEF Types
  <1>3. CASE Some(got, "failure") \/ (Some(got, "nxdomain") /\ ~Every(got, "nxdomain"))
    <2>1. ~Every(got, "nxdomain") /\ ~Every(got, "noanswer")
      BY <1>3 DEF Some, Every
    <2>2. Observation(got) = "unknown"
      BY <1>3, <2>1 DEF Observation
    <2>3. QED
      BY <2>2 DEF HostTrue
  <1>4. CASE ~(Some(got, "failure") \/ (Some(got, "nxdomain") /\ ~Every(got, "nxdomain")))
    <2>1. \A t \in Types : got[t] = zone[<<i, RecordTypes[t]>>]
      BY <1>4 DEF Some, Types
    <2>2. CASE Every(got, "nxdomain")
      <3>1. \A t \in Types : zone[<<i, RecordTypes[t]>>] = "nxdomain"
        BY <2>1, <2>2 DEF Every, Types
      <3>2. ~Every(got, "noanswer")
        BY <1>2, <2>2 DEF Every, Types
      <3>3. Observation(got) = "nxdomain"
        BY <1>4, <2>2, <3>2 DEF Observation
      <3>4. QED
        BY <3>1, <3>3 DEF HostTrue
    <2>3. CASE ~Every(got, "nxdomain") /\ Every(got, "noanswer")
      <3>1. Observation(got) = "noanswer"
        BY <1>4, <2>3 DEF Observation
      <3>2. \A t \in Types : zone[<<i, RecordTypes[t]>>] = "noanswer"
        BY <2>1, <2>3 DEF Every, Types
      <3>3. QED
        BY <3>1, <3>2 DEF HostTrue
    <2>4. CASE ~Every(got, "nxdomain") /\ ~Every(got, "noanswer")
      <3>1. Observation(got) = "resolved"
        BY <1>4, <2>4 DEF Observation
      <3>2. \A t \in Types : got[t] # "nxdomain"
        BY <1>4, <2>4 DEF Some, Types
      <3>3. PICK t \in Types : got[t] # "noanswer"
        BY <2>4 DEF Every, Types
      <3>4. zone[<<i, RecordTypes[t]>>] = "records"
        BY <1>1, <2>1, <3>2, <3>3
      <3>5. \A u \in Types : zone[<<i, RecordTypes[u]>>] # "nxdomain"
        BY <2>1, <3>2
      <3>6. QED
        BY <3>1, <3>4, <3>5 DEF HostTrue
    <2>5. QED
      BY <2>2, <2>3, <2>4
  <1>5. QED
    BY <1>3, <1>4

\* _lookup_ns says "likely_parked" only of nameservers that are a provider's.
LEMMA VerdictTrue ==
  ASSUME ScanType, LookupInv, NEW i \in Items, NEW outcome \in {zone[<<i, "NS">>], "failure"}
  PROVE  /\ NsVerdict(outcome) \in {"likely_parked", "not_detected", "unknown"}
         /\ NsVerdict(outcome) = "likely_parked" => zone[<<i, "NS">>] = "parked"
  <1>1. outcome \in {"noanswer", "nxdomain", "alias", "parked", "mixed", "other", "failure"}
    BY ZoneType DEF NsOutcomes
  <1>2. QED
    BY <1>1 DEF NsVerdict

\* A result that is collected is that of a lookup that got all its answers.
LEMMA CollectedFits ==
  ASSUME StagesInv, LookupInv, NEW i \in Items, stage \in {"dns", "parking"}, future[i] = "value"
  PROVE  /\ stage = "dns" =>
              /\ DOMAIN lookup[i].got = 1 .. Len(RecordTypes)
              /\ \A t \in 1 .. Len(RecordTypes) :
                   lookup[i].got[t] \in {zone[<<i, RecordTypes[t]>>], "failure"}
         /\ stage = "parking" => lookup[i].got[1] \in {zone[<<i, "NS">>], "failure"}
  <1>1. /\ lookup[i].got \in Seq(Answers \cup {"failure"}) /\ lookup[i].asks = TypesOf(Job)
        /\ Len(lookup[i].got) = Len(lookup[i].asks)
        /\ \A n \in 1 .. Len(lookup[i].got) :
             lookup[i].got[n] \in {zone[<<i, lookup[i].asks[n]>>], "failure"}
    BY DEF StagesInv, LookupType, Lookups, LookupInv, Fits
  <1>2. CASE stage = "dns"
    <2>1. lookup[i].asks = RecordTypes
      BY <1>1, <1>2 DEF Job, TypesOf
    <2>2. DOMAIN lookup[i].got = 1 .. Len(lookup[i].got)
      BY <1>1
    <2>3. QED
      BY <1>1, <1>2, <2>1, <2>2
  <1>3. CASE stage = "parking"
    <2>1. lookup[i].asks = <<"NS">>
      BY <1>1, <1>3 DEF Job, TypesOf
    <2>2. Len(lookup[i].asks) = 1 /\ lookup[i].asks[1] = "NS"
      BY <2>1
    <2>3. 1 \in 1 .. Len(lookup[i].got)
      BY <1>1, <2>2
    <2>4. QED
      BY <1>1, <1>3, <2>2, <2>3
  <1>4. QED
    BY <1>2, <1>3

\* A step that leaves the results of a scan alone.
LEMMA ResultsStay ==
  ASSUME ScanType, ResultsInv, UNCHANGED <<setup, scan, stage, given>>, caller = "idle" <=> caller' = "idle"
  PROVE  ResultsInv'
  <1>1. \A i \in Items : Hint(i)' = Hint(i)
    BY DEF Hint
  <1>2. {i \in scan.candidates : Hint(i) = "none"}' = {i \in scan.candidates : Hint(i) = "none"}
    BY <1>1 DEF ScanType
  <1>3. QED
    BY <1>2 DEF ResultsInv

\* A step that leaves what a scan says of the hosts alone.
LEMMA SaidStays ==
  ASSUME ScanType, ResultsInv, ObservationsTellTheTruth, UNCHANGED <<zone, setup>>,
         scan'.observations = scan.observations, scan'.parking = scan.parking,
         \/ stage' = stage /\ scan' = scan /\ UNCHANGED <<caller, given>>
         \/ stage' = stage /\ stage \notin {"dns", "parking"}
         \/ stage' # stage /\ stage' # "start"
              /\ (stage' = "discovery" => stage = "start")
              /\ (stage' = "generation" => stage \in {"start", "discovery"})
              /\ (stage' = "dns" => stage = "generation")
              /\ (stage' = "parking" => stage = "dns" /\ caller' = "idle")
  PROVE  ResultsInv' /\ ObservationsTellTheTruth'
  <1>1. ObservationsTellTheTruth'
    BY TruthByHost, TruthNext
  <1>2. CASE stage' = stage /\ scan' = scan /\ UNCHANGED <<caller, given>>
    BY <1>1, <1>2, ResultsStay
  <1>3. CASE stage' = stage /\ stage \notin {"dns", "parking"}
    BY <1>1, <1>3 DEF ResultsInv
  <1>4. CASE /\ stage' # stage /\ stage' # "start"
             /\ stage' = "discovery" => stage = "start"
             /\ stage' = "generation" => stage \in {"start", "discovery"}
             /\ stage' = "dns" => stage = "generation"
             /\ stage' = "parking" => stage = "dns" /\ caller' = "idle"
    BY <1>1, <1>4 DEF ResultsInv
  <1>5. QED
    BY <1>1, <1>2, <1>3, <1>4

\* Every step keeps what a scan says of the hosts true.
LEMMA SaidKept ==
  ASSUME StagesInv, MapInv, CallInv, LookupInv, ResultsInv, ObservationsTellTheTruth, Next
  PROVE  ResultsInv' /\ ObservationsTellTheTruth'
  <1> USE DEF StagesInv
  <1>1. CASE ScanThread
    <2>1. CASE TakeRun \/ MergeEngines \/ TakeDiscovered \/ Generate \/ GenerateFails
      <3>1. UNCHANGED <<zone, setup>> /\ scan'.observations = scan.observations /\ scan'.parking = scan.parking
        BY <2>1
        DEF TakeRun, MergeEngines, TakeDiscovered, Generate, GenerateFails, Idle, Still, lookupState, ScanType
      <3>2. \/ stage' = stage /\ stage \notin {"dns", "parking"}
            \/ stage = "start" /\ stage' \in {"failing", "generation", "discovery"}
            \/ stage = "discovery" /\ stage' \in {"failing", "generation"}
            \/ stage = "generation" /\ stage' \in {"failing", "dns"}
        BY <2>1 DEF TakeRun, MergeEngines, TakeDiscovered, Generate, GenerateFails, Still
      <3>3. QED
        BY <3>1, <3>2, SaidStays
    <2>2. CASE Announce \/ Publish \/ ReportOutcome \/ Fallout \/ CloseRoutes
      <3>1. /\ UNCHANGED <<zone, setup, scan>>
            /\ stage' \in {"accepting", "reporting", "failing", "closing", "ended"} /\ stage' # stage
        BY <2>2 DEF Announce, Publish, ReportOutcome, Fallout, CloseRoutes, Idle, lookupState
      <3>2. QED
        BY <3>1, SaidStays
    <2>3. CASE Resolve
      <3>1. UNCHANGED <<zone, setup, scan, stage>> /\ stage = "dns"
        BY <2>3 DEF Resolve, Still, lookupState
      <3>2. QED
        BY <3>1, TruthByHost, TruthNext DEF ResultsInv
    <2>4. CASE Enrich
      <3> DEFINE hinted == {i \in scan.candidates : Hint(i) # "none"}
                 parking == [i \in Items |-> IF i \in hinted THEN Hint(i) ELSE "none"]
      <3>1. /\ UNCHANGED <<zone, setup, stage>> /\ stage = "parking" /\ given' = scan.candidates \ hinted
            /\ scan' = [scan EXCEPT !.parking = parking]
        BY <2>4 DEF Enrich, Call, lookupState
      <3>2. /\ scan'.parking = parking /\ scan'.observations = scan.observations
            /\ scan'.candidates = scan.candidates
        BY <3>1 DEF ScanType
      <3>3. \A i \in Items : Hint(i)' = Hint(i)
        BY <3>1, <3>2 DEF Hint
      <3>4. ResultsInv'
        <4>1. scan.candidates \ hinted = {i \in scan.candidates : Hint(i) = "none"}
          OBVIOUS
        <4>2. {i \in scan.candidates : Hint(i) = "none"}' = {i \in scan.candidates : Hint(i) = "none"}
          BY <3>2, <3>3 DEF ScanType
        <4>3. given' = {i \in scan.candidates : Hint(i) = "none"}'
          BY <3>1, <4>1, <4>2
        <4>4. caller' # "idle"
          BY <2>4 DEF Enrich, Call
        <4>5. DOMAIN scan'.parking = Items
          BY <3>2
        <4>6. QED
          BY <3>1, <3>2, <4>3, <4>4, <4>5 DEF ResultsInv
      <3>5. ASSUME NEW i \in Items
            PROVE  HostTrue(i, scan'.observations[i]) /\ ParkingTrue(i, scan'.observations[i], scan'.parking[i])
        <4>1. HostTrue(i, scan'.observations[i])
          BY <3>2, TruthByHost
        <4>2. scan'.parking[i] = IF i \in hinted THEN Hint(i) ELSE "none"
          BY <3>2
        <4>3. Hint(i) = IF scan.observations[i] # "resolved" THEN "unknown" ELSE setup.hints[i]
          BY DEF Hint
        <4>4. QED
          BY <3>2, <4>1, <4>2, <4>3 DEF ParkingTrue
      <3>6. ObservationsTellTheTruth'
        BY <3>1, <3>5, TruthNext
      <3>7. QED
        BY <3>4, <3>6
    <2>5. CASE Mapping
      <3>1. /\ UNCHANGED <<zone, setup, scan, stage, given>>
            /\ caller # "idle" /\ caller' # "idle"
        BY <2>5 DEF Mapping, Still, lookupState, Submit, Wait, Return, Wake, Raise, Drain, YieldFails, Abandon
      <3>2. ObservationsTellTheTruth'
        BY <3>1, TruthByHost, TruthNext
      <3>3. ResultsInv'
        BY <3>1, ResultsStay
      <3>4. QED
        BY <3>2, <3>3
    <2>6. ASSUME NEW i \in Items, Collect(i) PROVE ResultsInv' /\ ObservationsTellTheTruth'
      <3>1. /\ UNCHANGED <<zone, setup, stage, given>> /\ stage \in {"dns", "parking"} /\ caller # "idle"
            /\ future[i] = "value" /\ i \in given
        BY <2>6 DEF Collect, Yield, lookupState, MapInv, MapType
      <3>2. CASE stage = "dns"
        <4> DEFINE said == Observation(lookup[i].got)
        <4>1. said \in {"unknown", "resolved", "nxdomain", "noanswer"} /\ HostTrue(i, said)
          BY <3>1, <3>2, CollectedFits, ObservationTrue
        <4>2. scan' = [scan EXCEPT !.observations[i] = said]
          BY <2>6, <3>2 DEF Collect
        <4> HIDE DEF said
        <4>3. /\ scan'.observations = [scan.observations EXCEPT ![i] = said] /\ scan'.parking = scan.parking
              /\ scan.parking = NoResults
          BY <3>2, <4>2 DEF ScanType, ResultsInv
        <4>4. ResultsInv'
          BY <3>1, <3>2, <4>1, <4>3 DEF ResultsInv
        <4>5. ObservationsTellTheTruth'
          <5>1. ASSUME NEW j \in Items
                PROVE  HostTrue(j, scan'.observations[j]) /\ ParkingTrue(j, scan'.observations[j], scan'.parking[j])
            <6>1. ParkingTrue(j, scan'.observations[j], scan'.parking[j])
              BY <4>3 DEF ParkingTrue, NoResults
            <6>2. CASE j = i
              BY <4>1, <4>3, <6>1, <6>2 DEF ResultsInv
            <6>3. CASE j # i
              <7>1. HostTrue(j, scan.observations[j])
                BY TruthByHost
              <7>2. QED
                BY <4>3, <6>1, <6>3, <7>1 DEF ResultsInv
            <6>4. QED
              BY <6>2, <6>3
          <5>2. QED
            BY <3>1, <5>1, TruthNext
        <4>6. QED
          BY <4>4, <4>5
      <3>3. CASE stage = "parking"
        <4> DEFINE verdict == NsVerdict(lookup[i].got[1])
        <4>1. verdict = "likely_parked" => zone[<<i, "NS">>] = "parked"
          BY <3>1, <3>3, CollectedFits, VerdictTrue
        <4>2. scan' = [scan EXCEPT !.parking[i] = verdict]
          BY <2>6, <3>3 DEF Collect
        <4> HIDE DEF verdict
        <4>3. /\ scan'.observations = scan.observations /\ scan'.candidates = scan.candidates
              /\ scan'.parking = [scan.parking EXCEPT ![i] = verdict]
          BY <4>2 DEF ScanType
        <4>4. scan.observations[i] = "resolved" /\ setup.hints[i] = "none"
          BY <3>1, <3>3 DEF ResultsInv, Hint
        <4>5. ResultsInv'
          <5>1. \A j \in Items : Hint(j)' = Hint(j)
            BY <3>1, <4>3 DEF Hint
          <5>2. {j \in scan.candidates : Hint(j) = "none"}' = {j \in scan.candidates : Hint(j) = "none"}
            BY <4>3, <5>1 DEF ScanType
          <5>3. caller' # "idle"
            BY <2>6 DEF Collect, Yield
          <5>4. given' = {j \in scan.candidates : Hint(j) = "none"}'
            BY <3>1, <3>3, <5>2 DEF ResultsInv
          <5>5. DOMAIN scan'.parking = Items
            BY <4>3 DEF ResultsInv
          <5>6. QED
            BY <3>1, <3>3, <4>3, <5>3, <5>4, <5>5 DEF ResultsInv
        <4>6. ObservationsTellTheTruth'
          <5>1. ASSUME NEW j \in Items
                PROVE  HostTrue(j, scan'.observations[j]) /\ ParkingTrue(j, scan'.observations[j], scan'.parking[j])
            <6>1. HostTrue(j, scan'.observations[j]) /\ ParkingTrue(j, scan.observations[j], scan.parking[j])
              BY <4>3, TruthByHost
            <6>2. CASE j = i
              <7>1. scan'.parking[j] = verdict
                BY <4>3, <6>2 DEF ResultsInv
              <7>2. QED
                BY <4>1, <4>3, <4>4, <6>1, <6>2, <7>1 DEF ParkingTrue
            <6>3. CASE j # i
              BY <4>3, <6>1, <6>3 DEF ResultsInv
            <6>4. QED
              BY <6>2, <6>3
          <5>2. QED
            BY <3>1, <5>1, TruthNext
        <4>7. QED
          BY <4>5, <4>6
      <3>4. QED
        BY <3>1, <3>2, <3>3
    <2>7. CASE LeaveCall
      <3>1. /\ UNCHANGED <<zone, setup, scan>> /\ caller' = "idle" /\ stage \in {"dns", "parking"}
            /\ \/ stage' = "failing"
               \/ stage = "dns" /\ stage' = "parking"
               \/ stage = "parking" /\ stage' = "publishing"
        BY <2>7 DEF LeaveCall, Leave
      <3>2. QED
        BY <3>1, SaidStays
    <2>8. QED
      BY <1>1, <2>1, <2>2, <2>3, <2>4, <2>5, <2>6, <2>7 DEF ScanThread
  <1>2. ASSUME NEW e \in Engines, Discover(e) PROVE ResultsInv' /\ ObservationsTellTheTruth'
    BY <1>2, SaidStays DEF Discover, Still, lookupState, mapState
  <1>3. CASE Network \/ \E i \in Items : LookupThread(i)
    <2>1. UNCHANGED <<zone, setup, scan, stage, caller, given>>
      BY <1>3
      DEF Network, LookupThread, InLookup, Still, Enter, GiveIn, GivenIn, TimeOut, ReturnFrom, AskDirectly,
          AskRelay, AskAgain, Arrive, Dropped, Relayed, Expired, Resolver, RelayDies, mapState, lookupState,
          Begin, Finish, Fail, FailEnds
    <2>2. QED
      BY <2>1, SaidStays
  <1>4. CASE Stop \/ CloseService
    <2>1. UNCHANGED <<zone, setup, scan, stage, caller, given>>
      BY <1>4 DEF Stop, CloseService, scanState, lookupState, mapState
    <2>2. QED
      BY <2>1, SaidStays
  <1>5. QED
    BY <1>1, <1>2, <1>3, <1>4 DEF Next, Threads

\* What the lookups have got, and what a scan says of the hosts, is true in every
\* reachable state.
LEMMA TruthInvariant == Spec => [](CallInv /\ LookupInv /\ ResultsInv /\ ObservationsTellTheTruth)
  <1> DEFINE Inv == CallInv /\ LookupInv /\ ResultsInv /\ ObservationsTellTheTruth
  <1>1. Init => Inv
    <2> SUFFICES ASSUME Init PROVE Inv
      OBVIOUS
    <2>1. /\ stage = "start" /\ caller = "idle" /\ zone = setup.zone /\ mail = {}
          /\ lookup = [i \in Items |-> NoLookup] /\ future = [i \in Items |-> "none"]
          /\ scan.observations = NoResults /\ scan.parking = NoResults
      BY DEF Init, MapInit, RelayInit, LookupInit
    <2>2. LookupInv
      <3>1. NoLookup.got = <<>> /\ NoLookup.asks = <<>> /\ Len(NoLookup.got) = 0
        BY DEF NoLookup, LookupOf
      <3>2. \A i \in Items : Fits(i)
        BY <2>1, <3>1 DEF Fits
      <3>3. QED
        BY <2>1, <3>2 DEF LookupInv
    <2>3. CallInv /\ ResultsInv
      BY <2>1 DEF CallInv, ResultsInv, NoResults
    <2>4. ObservationsTellTheTruth
      BY <2>1 DEF ObservationsTellTheTruth, NoResults
    <2>5. QED
      BY <2>2, <2>3, <2>4
  <1>2. Inv /\ StagesInv /\ MapInv /\ [Next]_vars => Inv'
    <2>1. ASSUME Inv, StagesInv, MapInv, Next PROVE Inv'
      BY <2>1, CallKept, LookupKept, SaidKept
    <2>2. ASSUME Inv, StagesInv, UNCHANGED vars PROVE Inv'
      <3>1. /\ UNCHANGED <<zone, setup, scan, stage, caller, given, lookup, future, mail>>
        BY <2>2 DEF vars, scanState, mapState, relayState, lookupState
      <3>2. CallInv' /\ LookupInv'
        BY <2>2, <3>1, LookupsStay DEF CallInv
      <3>3. QED
        BY <2>2, <3>1, <3>2, SaidStays DEF StagesInv
    <2>3. QED
      BY <2>1, <2>2
  <1>3. QED
    BY <1>1, <1>2, StagesInvariant, Composition, MapInvariant, PTL DEF Spec

\* Timeouts, a dead relay, late answers and failing servers never make a host look
\* unregistered, resolving or parked, in every reachable state.
THEOREM ObservationsTrue == Spec => []ObservationsTellTheTruth
  BY TruthInvariant, PTL

-------------------------------------------------------------------------------
(* What a published scan has looked at.                                    *)

\* How far the scan's own values have come; Published is the last stage of these.
Sought   == stage \in {"generation", "dns", "parking", "publishing", "accepting"} \/ Published
Listed   == stage \in {"dns", "parking", "publishing", "accepting"} \/ Published
Observed == stage \in {"parking", "publishing", "accepting"} \/ Published
Told     == stage \in {"publishing", "accepting"} \/ Published

WholeInv ==
  /\ Sought => Roots \cup Old.seeds \subseteq scan.seeds
  /\ Listed => scan.candidates = Candidates
  /\ stage = "dns" /\ caller # "idle" =>
       given = scan.candidates /\ \A i \in yielded : scan.observations[i] # "none"
  /\ stage = "parking" /\ caller # "idle" =>
       /\ \A i \in yielded : scan.parking[i] # "none"
       /\ \A i \in scan.candidates \ given : scan.parking[i] # "none"
  /\ Observed => \A i \in scan.candidates : scan.observations[i] # "none"
  /\ Told => \A i \in scan.candidates : scan.parking[i] # "none"
  /\ Published => (status = "completed" <=> ~Incomplete)

\* A step that changes nothing the scan has come by.
LEMMA WholeStays ==
  ASSUME WholeInv, UNCHANGED <<setup, scan, stage>>, status' = status \/ (~Published /\ ~Published'),
         stage \in {"dns", "parking"} =>
           /\ caller = "idle" <=> caller' = "idle"
           /\ UNCHANGED <<given, yielded>>
  PROVE  WholeInv'
  <1>1. /\ Published' <=> Published
        /\ Roots' = Roots /\ Old' = Old /\ Candidates' = Candidates /\ (Incomplete' <=> Incomplete)
    BY DEF Published, Roots, Old, Candidates, Ungenerated, Incomplete
  <1>2. CASE status' = status
    BY <1>1, <1>2 DEF WholeInv, Sought, Listed, Observed, Told
  <1>3. CASE ~Published /\ ~Published'
    BY <1>1, <1>3 DEF WholeInv, Sought, Listed, Observed, Told
  <1>4. QED
    BY <1>2, <1>3

\* A step to another stage that keeps the scan's values: what the new stage has come
\* by the old one had come by, or the call between them has brought it.
LEMMA WholeMoves ==
  ASSUME WholeInv, UNCHANGED <<setup, scan, status>>, ~Published,
         stage' \in {"parking", "publishing"} => caller' = "idle", stage' # "dns",
         Sought' => Sought, Listed' => Listed,
         Observed' => \A i \in scan.candidates : scan.observations[i] # "none",
         Told' => \A i \in scan.candidates : scan.parking[i] # "none"
  PROVE  WholeInv'
  <1>1. /\ ~Published'
        /\ Roots' = Roots /\ Old' = Old /\ Candidates' = Candidates
    BY DEF Published, Roots, Old, Candidates, Ungenerated
  <1>2. QED
    BY <1>1 DEF WholeInv

\* Every step keeps what a scan has come by.
LEMMA WholeKept ==
  ASSUME StagesInv, MapInv, CallInv, EndInv, LookupInv, ResultsInv, WholeInv, Next
  PROVE  WholeInv'
  <1> USE DEF StagesInv
  <1>1. CASE ScanThread
    <2>1. CASE TakeRun
      <3>1. /\ UNCHANGED <<setup, status>> /\ stage = "start" /\ stage' \in {"failing", "generation", "discovery"}
            /\ stage' = "generation" => scan' = [scan EXCEPT !.seeds = SeedsOf({})]
        BY <2>1 DEF TakeRun
      <3>2. ~Published /\ ~Published' /\ Roots' = Roots /\ Old' = Old
        BY <3>1 DEF EndInv, Published, Roots, Old
      <3>3. stage' = "generation" => Roots \cup Old.seeds \subseteq scan'.seeds
        BY <3>1 DEF SeedsOf, ScanType
      <3>4. QED
        BY <3>1, <3>2, <3>3 DEF WholeInv, Sought, Listed, Observed, Told
    <2>2. CASE TakeDiscovered
      <3>1. /\ UNCHANGED <<setup, status>> /\ stage = "discovery" /\ stage' \in {"failing", "generation"}
            /\ stage' = "generation" => scan'.seeds = SeedsOf(merged.names)
        BY <2>2 DEF TakeDiscovered, ScanType
      <3>2. ~Published /\ ~Published' /\ Roots' = Roots /\ Old' = Old
        BY <3>1 DEF EndInv, Published, Roots, Old
      <3>3. stage' = "generation" => Roots \cup Old.seeds \subseteq scan'.seeds
        BY <3>1 DEF SeedsOf
      <3>4. QED
        BY <3>1, <3>2, <3>3 DEF WholeInv, Sought, Listed, Observed, Told
    <2>3. CASE Generate
      <3>1. /\ UNCHANGED <<setup, status, caller>> /\ stage = "generation" /\ stage' \in {"failing", "dns"}
            /\ stage' = "dns" => scan' = [scan EXCEPT !.candidates = Candidates]
            /\ scan'.seeds = scan.seeds
        BY <2>3 DEF Generate, Idle, mapState, ScanType
      <3>2. ~Published /\ ~Published' /\ Roots' = Roots /\ Old' = Old /\ caller' = "idle"
        BY <3>1 DEF EndInv, CallInv, Published, Roots, Old
      <3>3. Candidates' = Candidates
        BY <3>1 DEF Candidates, Ungenerated, Old
      <3>4. stage' = "dns" => scan'.candidates = Candidates
        BY <3>1 DEF ScanType
      <3>5. Roots \cup Old.seeds \subseteq scan.seeds
        BY <3>1 DEF WholeInv, Sought
      <3>6. QED
        BY <3>1, <3>2, <3>3, <3>4, <3>5 DEF WholeInv, Sought, Listed, Observed, Told
    <2>4. CASE MergeEngines
      BY <2>4, WholeStays DEF MergeEngines, Still
    <2>5. CASE GenerateFails
      <3>1. UNCHANGED <<setup, scan, status>> /\ stage = "generation" /\ stage' = "failing" /\ ~Published /\ ~Published'
        BY <2>5 DEF GenerateFails, EndInv, Published
      <3>2. QED
        BY <3>1, WholeMoves DEF Sought, Listed, Observed, Told
    <2>6. CASE Resolve
      <3>1. /\ UNCHANGED <<setup, scan, stage, status, yielded>> /\ stage = "dns" /\ given' = scan.candidates
            /\ caller = "idle"
        BY <2>6 DEF Resolve, Call, Still
      <3>2. yielded = {} /\ ~Published /\ ~Published'
        BY <3>1 DEF MapInv, Accounted, EndInv, Published
      <3>3. Roots' = Roots /\ Old' = Old /\ Candidates' = Candidates
        BY <3>1 DEF Roots, Old, Candidates, Ungenerated
      <3>4. QED
        BY <3>1, <3>2, <3>3 DEF WholeInv, Sought, Listed, Observed, Told
    <2>7. CASE Enrich
      <3> DEFINE hinted == {i \in scan.candidates : Hint(i) # "none"}
                 parking == [i \in Items |-> IF i \in hinted THEN Hint(i) ELSE "none"]
      <3>1. /\ UNCHANGED <<setup, stage, status, yielded>> /\ stage = "parking" /\ given' = scan.candidates \ hinted
            /\ scan' = [scan EXCEPT !.parking = parking] /\ caller = "idle"
        BY <2>7 DEF Enrich, Call
      <3>2. yielded = {} /\ ~Published /\ ~Published'
        BY <3>1 DEF MapInv, Accounted, EndInv, Published
      <3>3. /\ scan'.parking = parking /\ scan'.candidates = scan.candidates /\ scan'.seeds = scan.seeds
            /\ scan'.observations = scan.observations /\ scan.candidates \subseteq Items
        BY <3>1 DEF ScanType
      <3>4. Roots' = Roots /\ Old' = Old /\ Candidates' = Candidates
        BY <3>1, <3>3 DEF Roots, Old, Candidates, Ungenerated
      <3>5. \A i \in scan.candidates \ given' : scan'.parking[i] # "none"
        <4>1. ASSUME NEW i \in scan.candidates \ given' PROVE scan'.parking[i] # "none"
          <5>1. i \in hinted /\ i \in Items
            BY <3>1, <3>3
          <5>2. parking[i] = Hint(i)
            BY <5>1
          <5>3. QED
            BY <3>3, <5>1, <5>2
        <4>2. QED
          BY <4>1
      <3>6. QED
        BY <3>1, <3>2, <3>3, <3>4, <3>5 DEF WholeInv, Sought, Listed, Observed, Told
    <2>8. CASE Mapping
      <3>1. /\ UNCHANGED <<setup, scan, stage, status, given, yielded>>
            /\ caller # "idle" /\ caller' # "idle"
        BY <2>8 DEF Mapping, Still, Submit, Wait, Return, Wake, Raise, Drain, YieldFails, Abandon
      <3>2. QED
        BY <3>1, WholeStays
    <2>9. ASSUME NEW i \in Items, Collect(i) PROVE WholeInv'
      <3>1. /\ UNCHANGED <<setup, stage, status, given>> /\ stage \in {"dns", "parking"}
            /\ caller # "idle" /\ yielded' = yielded \cup {i} /\ future[i] = "value"
        BY <2>9 DEF Collect, Yield
      <3>2. ~Published /\ ~Published'
        BY <3>1 DEF EndInv, Published
      <3>3. CASE stage = "dns"
        <4> DEFINE said == Observation(lookup[i].got)
        <4>1. said # "none"
          BY <3>1, <3>3, CollectedFits, ObservationTrue
        <4>2. scan' = [scan EXCEPT !.observations[i] = said]
          BY <2>9, <3>3 DEF Collect
        <4> HIDE DEF said
        <4>3. /\ scan'.observations = [scan.observations EXCEPT ![i] = said]
              /\ scan'.candidates = scan.candidates /\ scan'.seeds = scan.seeds
          BY <4>2 DEF ScanType
        <4>4. \A j \in Items : scan'.observations[j] = IF j = i THEN said ELSE scan.observations[j]
          BY <4>3 DEF ResultsInv
        <4>5. Roots' = Roots /\ Old' = Old /\ Candidates' = Candidates
          BY <3>1, <4>3 DEF Roots, Old, Candidates, Ungenerated
        <4>6. yielded \subseteq Items
          BY DEF MapInv, MapType
        <4>7. QED
          BY <3>1, <3>2, <3>3, <4>1, <4>3, <4>4, <4>5, <4>6 DEF WholeInv, Sought, Listed, Observed, Told
      <3>4. CASE stage = "parking"
        <4> DEFINE verdict == NsVerdict(lookup[i].got[1])
        <4>1. verdict # "none"
          BY <3>1, <3>4, CollectedFits, VerdictTrue
        <4>2. scan' = [scan EXCEPT !.parking[i] = verdict]
          BY <2>9, <3>4 DEF Collect
        <4> HIDE DEF verdict
        <4>3. /\ scan'.parking = [scan.parking EXCEPT ![i] = verdict] /\ scan'.observations = scan.observations
              /\ scan'.candidates = scan.candidates /\ scan'.seeds = scan.seeds
          BY <4>2 DEF ScanType
        <4>4. \A j \in Items : scan'.parking[j] = IF j = i THEN verdict ELSE scan.parking[j]
          BY <4>3 DEF ResultsInv
        <4>5. Roots' = Roots /\ Old' = Old /\ Candidates' = Candidates
          BY <3>1, <4>3 DEF Roots, Old, Candidates, Ungenerated
        <4>6. yielded \subseteq Items /\ scan.candidates \subseteq Items
          BY DEF MapInv, MapType, ScanType
        <4>7. QED
          BY <3>1, <3>2, <3>4, <4>1, <4>3, <4>4, <4>5, <4>6 DEF WholeInv, Sought, Listed, Observed, Told
      <3>5. QED
        BY <3>1, <3>3, <3>4
    <2>10. CASE LeaveCall
      <3>1. /\ UNCHANGED <<setup, scan, status>> /\ caller \in {"returned", "raised"} /\ caller' = "idle"
            /\ \/ stage' = "failing"
               \/ stage = "dns" /\ stage' = "parking" /\ caller = "returned"
               \/ stage = "parking" /\ stage' = "publishing" /\ caller = "returned"
            /\ stage \in {"dns", "parking"}
        BY <2>10 DEF LeaveCall, Leave
      <3>2. caller = "returned" => yielded = given
        BY DEF MapInv, Held, Accounted, Over
      <3>3. ~Published /\ ~Published'
        BY <3>1 DEF EndInv, Published
      <3>4. CASE stage' = "failing"
        BY <3>1, <3>3, <3>4, WholeMoves DEF Sought, Listed, Observed, Told
      <3>5. CASE stage = "dns" /\ stage' = "parking" /\ caller = "returned"
        <4>1. \A i \in scan.candidates : scan.observations[i] # "none"
          BY <3>2, <3>5 DEF WholeInv
        <4>2. QED
          BY <3>1, <3>3, <3>5, <4>1, WholeMoves DEF Sought, Listed, Observed, Told
      <3>6. CASE stage = "parking" /\ stage' = "publishing" /\ caller = "returned"
        <4>1. \A i \in scan.candidates : scan.parking[i] # "none"
          BY <3>2, <3>6 DEF WholeInv
        <4>2. \A i \in scan.candidates : scan.observations[i] # "none"
          BY <3>6 DEF WholeInv, Observed
        <4>3. QED
          BY <3>1, <3>3, <3>6, <4>1, <4>2, WholeMoves DEF Sought, Listed, Observed, Told
      <3>7. QED
        BY <3>1, <3>4, <3>5, <3>6
    <2>11. CASE Announce
      <3>1. UNCHANGED <<setup, scan, status>> /\ stage = "publishing" /\ stage' = "accepting"
        BY <2>11 DEF Announce
      <3>2. ~Published /\ ~Published'
        BY <3>1 DEF EndInv, Published
      <3>3. QED
        BY <3>1, <3>2, WholeMoves DEF Sought, Listed, Observed, Told, WholeInv
    <2>12. CASE Publish
      <3>1. /\ UNCHANGED <<setup, scan>> /\ stage = "accepting" /\ stage' \in {"failing", "reporting"}
            /\ \/ UNCHANGED status /\ stage' = "failing"
               \/ status' = IF Incomplete THEN "partial" ELSE "completed"
        BY <2>12 DEF Publish
      <3>2. ~Published
        BY <3>1 DEF EndInv, Published
      <3>3. CASE UNCHANGED status /\ stage' = "failing"
        BY <3>1, <3>2, <3>3, WholeMoves DEF Sought, Listed, Observed, Told, Published
      <3>4. CASE status' = IF Incomplete THEN "partial" ELSE "completed"
        <4>1. status' = "completed" <=> ~Incomplete
          BY <3>4
        <4>2. /\ Roots' = Roots /\ Old' = Old /\ Candidates' = Candidates /\ (Incomplete' <=> Incomplete)
          BY <3>1 DEF Roots, Old, Candidates, Ungenerated, Incomplete
        <4>3. Sought /\ Listed /\ Observed /\ Told
          BY <3>1 DEF Sought, Listed, Observed, Told
        <4>4. QED
          BY <3>1, <4>1, <4>2, <4>3 DEF WholeInv
      <3>5. QED
        BY <3>1, <3>3, <3>4
    <2>13. CASE ReportOutcome \/ Fallout \/ CloseRoutes
      <3>1. /\ UNCHANGED <<setup, scan>> /\ stage' \in {"closing", "ended"}
            /\ status' = status \/ (~Published /\ ~Published')
        BY <2>13 DEF ReportOutcome, Fallout, CloseRoutes, Published
      <3>2. Published' <=> Published
        BY <3>1 DEF Published
      <3>3. /\ Roots' = Roots /\ Old' = Old /\ Candidates' = Candidates /\ (Incomplete' <=> Incomplete)
        BY <3>1 DEF Roots, Old, Candidates, Ungenerated, Incomplete
      <3>4. Published' => status' = status
        BY <3>1
      <3>5. QED
        BY <3>1, <3>2, <3>3, <3>4 DEF WholeInv, Sought, Listed, Observed, Told
    <2>14. QED
      BY <1>1, <2>1, <2>2, <2>3, <2>4, <2>5, <2>6, <2>7, <2>8, <2>9, <2>10, <2>11, <2>12, <2>13 DEF ScanThread
  <1>2. ASSUME NEW e \in Engines, Discover(e) PROVE WholeInv'
    BY <1>2, WholeStays DEF Discover, Still
  <1>3. CASE Network \/ \E i \in Items : LookupThread(i)
    <2>1. UNCHANGED <<setup, scan, stage, status, caller, given, yielded>>
      BY <1>3
      DEF Network, LookupThread, InLookup, Still, Enter, GiveIn, GivenIn, TimeOut, ReturnFrom, AskDirectly,
          AskRelay, AskAgain, Arrive, Dropped, Relayed, Expired, Resolver, RelayDies, mapState,
          Begin, Finish, Fail, FailEnds
    <2>2. QED
      BY <2>1, WholeStays
  <1>4. CASE Stop
    <2>1. /\ UNCHANGED <<setup, scan, stage, caller, given, yielded>> /\ status = "running" /\ status' = "cancelled"
      BY <1>4 DEF Stop, mapState
    <2>2. ~Published /\ ~Published'
      BY <2>1 DEF Published
    <2>3. QED
      BY <2>1, <2>2, WholeStays
  <1>5. CASE CloseService
    <2>1. UNCHANGED <<setup, scan, stage, status, caller, given, yielded>>
      BY <1>5 DEF CloseService, scanState, mapState
    <2>2. QED
      BY <2>1, WholeStays
  <1>6. QED
    BY <1>1, <1>2, <1>3, <1>4, <1>5 DEF Next, Threads

\* What has been sought, listed, observed and told makes a published scan whole.
LEMMA PublishedIsWhole ==
  ASSUME ScanType, EndInv, WholeInv
  PROVE  PublishedScanIsWhole
  <1> SUFFICES ASSUME Published
               PROVE  /\ Roots \cup Old.candidates \cup Old.seeds \cup scan.seeds \subseteq scan.candidates
                      /\ setup.mode # "cached" => \A s \in scan.seeds : TypoOf(s) \subseteq scan.candidates
                      /\ \A i \in scan.candidates : scan.observations[i] # "none" /\ scan.parking[i] # "none"
                      /\ status = "completed" <=>
                           scan.sourcesComplete /\ \A i \in scan.candidates : scan.observations[i] # "unknown"
                      /\ ~requested
    BY DEF PublishedScanIsWhole, Published
  <1>1. /\ scan.candidates = Candidates /\ Roots \cup Old.seeds \subseteq scan.seeds
        /\ \A i \in scan.candidates : scan.observations[i] # "none" /\ scan.parking[i] # "none"
        /\ status = "completed" <=> ~Incomplete
    BY DEF WholeInv, Sought, Listed, Observed, Told
  <1>2. Roots \cup Old.candidates \cup Old.seeds \cup scan.seeds \subseteq scan.candidates
    BY <1>1 DEF Candidates
  <1>3. ASSUME setup.mode # "cached", NEW s \in scan.seeds PROVE TypoOf(s) \subseteq scan.candidates
    <2>1. CASE s \in Old.generated
      <3>1. TypoOf(s) \subseteq Old.candidates
        BY <2>1, StagesAssumption DEF Old, ScanType
      <3>2. QED
        BY <1>2, <3>1
    <2>2. CASE s \notin Old.generated
      <3>1. s \in Ungenerated
        BY <1>3, <2>2 DEF Ungenerated
      <3>2. TypoOf(s) \subseteq UNION {TypoOf(seed) : seed \in Ungenerated}
        BY <3>1
      <3>3. QED
        BY <1>1, <3>2 DEF Candidates
    <2>3. QED
      BY <2>1, <2>2
  <1>4. ~requested
    BY DEF EndInv, Published
  <1>5. QED
    BY <1>1, <1>2, <1>3, <1>4 DEF Incomplete

\* A published scan has looked at every root, every saved candidate and every typo of
\* a seed, has an answer for each, and was not stopped, in every reachable state.
THEOREM PublishedWhole == Spec => []PublishedScanIsWhole
  <1> DEFINE Inv == EndInv /\ WholeInv
  <1>1. Init => Inv
    <2> SUFFICES ASSUME Init PROVE Inv
      OBVIOUS
    <2>1. /\ requested = FALSE /\ status = "running" /\ stage = "start" /\ shown.stage = "queued"
      BY DEF Init, SignalInit, ProgressInit
    <2>2. EndInv /\ ~Published
      BY <2>1 DEF EndInv, TerminalStages, Published
    <2>3. QED
      BY <2>1, <2>2 DEF WholeInv, Sought, Listed, Observed, Told
  <1>2. Inv /\ StagesInv /\ MapInv /\ CallInv /\ LookupInv /\ ResultsInv /\ [Next]_vars => Inv'
    <2>1. ASSUME Inv, StagesInv, MapInv, CallInv, LookupInv, ResultsInv, Next PROVE Inv'
      BY <2>1, EndKept, WholeKept
    <2>2. ASSUME Inv, UNCHANGED vars PROVE Inv'
      <3>1. UNCHANGED <<setup, scan, stage, status, caller, given, yielded, requested, shown, saved>>
        BY <2>2 DEF vars, scanState, mapState, signal, progressState
      <3>2. EndInv'
        BY <2>2, <3>1 DEF EndInv, Published
      <3>3. QED
        BY <2>2, <3>1, <3>2, WholeStays
    <2>3. QED
      BY <2>1, <2>2
  <1>3. Inv /\ StagesInv => PublishedScanIsWhole
    BY PublishedIsWhole DEF StagesInv
  <1>4. QED
    BY <1>1, <1>2, <1>3, StagesInvariant, TruthInvariant, Composition, MapInvariant, PTL DEF Spec
===============================================================================
