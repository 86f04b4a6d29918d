------------------------------ MODULE DnsLookup ------------------------------
(***************************************************************************)
(* The lookups of one scan: DnsResolver.observe (adapters.py) and          *)
(* ParkingClassifier._lookup_ns (parking.py) as the functions BoundedMap   *)
(* runs on its threads, directly or through the relay of DnsRelay.         *)
(*                                                                         *)
(* A thread asks one question at a time.  What dnspython does with it is   *)
(* external: it sends it from a fresh socket, sends it again from another  *)
(* when nothing comes, gives up in the end, and takes only an answer that  *)
(* carries its id and question.                                            *)
(***************************************************************************)
EXTENDS BoundedMap, DnsRelay, Sequences

CONSTANTS
  RecordTypes, \* the types observe asks for, in order: A, AAAA, CNAME
  MaxFlight    \* bound: datagrams under way when a question is sent again

VARIABLES
  zone,     \* what the network knows of each question; it does not change
  proxied,  \* proxy_routes is set
  lookup    \* the function of each item: the question it is at and what it has

lookupState == <<zone, proxied, lookup>>

Outcomes   == {"records", "noanswer", "nxdomain"}
NsOutcomes == {"noanswer", "nxdomain", "alias", "parked", "mixed", "other"}

NoSocket == <<"closed">>
LookupOf(asks) == [asks |-> asks, got |-> <<>>, socket |-> NoSocket]
NoLookup == LookupOf(<<>>)

LookupInit == lookup = [i \in Items |-> NoLookup]

\* The questions a function asks about its item.
TypesOf(job) == IF job = "observe" THEN RecordTypes ELSE <<"NS">>

Busy(i)    == future[i] = "running" /\ lookup[i].asks # <<>>
Between(i) == Busy(i) /\ lookup[i].socket = NoSocket /\ Len(lookup[i].got) < Len(lookup[i].asks)
Asking(i)  == Busy(i) /\ lookup[i].socket # NoSocket
Through(i) == Busy(i) /\ Len(lookup[i].got) = Len(lookup[i].asks)
Subject(i) == <<i, lookup[i].asks[Len(lookup[i].got) + 1]>>

OpenPorts == {lookup[i].socket[1] : i \in {j \in Items : Asking(j)}}

\* proxy_routes.check() at the top of every function.
RouteFails(i) == proxied /\ lookup[i].got = <<>> /\ relay # "open"

\* The thread enters its function.
Enter(i, job) ==
  /\ Begin(i)
  /\ lookup' = [lookup EXCEPT ![i] =
       IF stopped \/ Cancelled THEN NoLookup ELSE LookupOf(TypesOf(job))]
  /\ UNCHANGED <<zone, proxied, relayState>>

\* _lookup_ns looks for a stop once more when it has an answer.
StoppedAfter(i) ==
  /\ Through(i) /\ lookup[i].asks = TypesOf("parking") /\ Cancelled
  /\ lookup[i].got[1] \in {"alias", "parked", "mixed", "other"}

\* observe makes its resolver outside any try block: without a configuration it raises.
NoConfiguration(i) == lookup[i].asks = RecordTypes /\ lookup[i].got = <<>>

\* The route is dead, the scan was stopped before this question, or there is no resolver.
GiveIn(i) ==
  /\ \/ Between(i) /\ (RouteFails(i) \/ Cancelled \/ NoConfiguration(i))
     \/ StoppedAfter(i)
  /\ Fail(i)
  /\ UNCHANGED <<lookupState, relayState>>

\* The failure stops the others.
GivenIn(i) ==
  /\ FailEnds(i)
  /\ UNCHANGED <<lookupState, relayState>>

Gets(i, outcome) ==
  lookup' = [lookup EXCEPT ![i] =
    [asks |-> lookup[i].asks, got |-> Append(lookup[i].got, outcome), socket |-> NoSocket]]

\* Without a proxy a question is answered, or fails, out of sight.
AskDirectly(i, outcome) ==
  /\ Between(i) /\ ~Cancelled /\ ~proxied
  /\ outcome \in {zone[Subject(i)], "failure"}
  /\ Gets(i, outcome)
  /\ UNCHANGED <<zone, proxied, mapState, relayState>>

\* A fresh socket sends the question to the relay.
AskRelay(i, port, id) ==
  /\ Between(i) /\ ~Cancelled /\ proxied /\ ~RouteFails(i) /\ port \notin OpenPorts
  /\ lookup' = [lookup EXCEPT ![i] = [@ EXCEPT !.socket = <<port, id>>]]
  /\ Ask(<<port, id, Subject(i)>>)
  /\ UNCHANGED <<zone, proxied, mapState>>

\* Nothing came: the same message again, from another socket.
AskAgain(i, port) ==
  /\ Asking(i) /\ port \notin OpenPorts
  /\ Cardinality(inbox) + Cardinality(outside) + Cardinality(mail) < MaxFlight
  /\ lookup' = [lookup EXCEPT ![i] = [@ EXCEPT !.socket = <<port, lookup[i].socket[2]>>]]
  /\ Ask(<<port, lookup[i].socket[2], Subject(i)>>)
  /\ UNCHANGED <<zone, proxied, mapState>>

\* The lifetime of the question is over.
TimeOut(i) ==
  /\ Asking(i)
  /\ Gets(i, "failure")
  /\ UNCHANGED <<zone, proxied, mapState, relayState>>

\* A datagram arrives: at a closed port it is lost, at an open one it is the answer, or
\* one that does not fit and fails the attempt.
Arrive(letter) ==
  /\ Receive(letter)
  /\ LET at == {i \in Items : Asking(i) /\ lookup[i].socket[1] = letter[1]}
     IN  IF at = {} THEN UNCHANGED lookup
         ELSE \E i \in at :
           Gets(i, IF lookup[i].socket = Asker(letter) /\ Subject(i) = Question(letter)
                   THEN letter[4] ELSE "failure")
  /\ UNCHANGED <<zone, proxied, mapState>>

\* The resolver answers from the zone, or with a failure of its own.
Resolver(key, question, answer) ==
  /\ answer \in {zone[question], "failure"}
  /\ Answer(key, question, answer)
  /\ UNCHANGED <<lookupState, mapState>>

Relayed(packet, key) == Forward(packet, key) /\ UNCHANGED <<lookupState, mapState>>
Dropped(packet)      == DropQuestion(packet) /\ UNCHANGED <<lookupState, mapState>>
Expired(key)         == Expire(key) /\ UNCHANGED <<lookupState, mapState>>
RelayDies            == proxied /\ RelayFails /\ UNCHANGED <<lookupState, mapState>>

\* The function returns.
ReturnFrom(i) ==
  /\ Through(i) /\ ~StoppedAfter(i)
  /\ Finish(i)
  /\ UNCHANGED <<lookupState, relayState>>

-------------------------------------------------------------------------------
(* What the answers come to.                                               *)

Some(got, outcome)  == \E n \in DOMAIN got : got[n] = outcome
Every(got, outcome) == \A n \in DOMAIN got : got[n] = outcome

\* Faulty: an NXDOMAIN is final, whatever failed beside it.
AnyNxdomain(got) ==
  CASE Some(got, "nxdomain") -> "nxdomain"
    [] ~Some(got, "nxdomain") /\ Some(got, "records") -> "resolved"
    [] ~Some(got, "nxdomain") /\ ~Some(got, "records") /\ Every(got, "noanswer") -> "noanswer"
    [] OTHER -> "unknown"

\* observe: one failure, or NXDOMAIN beside anything else, leaves the host unknown.
Observation(got) ==
  CASE Some(got, "failure") \/ (Some(got, "nxdomain") /\ ~Every(got, "nxdomain")) -> "unknown"
    [] Every(got, "nxdomain") -> "nxdomain"
    [] Every(got, "noanswer") -> "noanswer"
    [] OTHER -> "resolved"

\* _lookup_ns: only nameservers that all belong to one provider say parked.
NsVerdict(outcome) ==
  CASE outcome = "parked" -> "likely_parked"
    [] outcome \in {"noanswer", "alias", "other"} -> "not_detected"
    [] outcome \in {"nxdomain", "mixed", "failure"} -> "unknown"
===============================================================================
