------------------------------- MODULE DnsRelay -------------------------------
(***************************************************************************)
(* DnsRelay of proxy.py: DNS questions from local sockets cross a SOCKS5   *)
(* UDP association under transaction ids of the relay's own, and answers   *)
(* go back under the asker's.  Datagrams may be late or lost on either     *)
(* side; a socket's port and an id may be used again by another question.  *)
(*                                                                         *)
(* The askers (dnspython, in DnsLookup) and the upstream resolver are      *)
(* outside this module: Ask, Answer and Receive are how they use it.       *)
(***************************************************************************)
EXTENDS Integers, FiniteSets

CONSTANTS
  Ports,      \* the askers' sockets
  Ids,        \* their transaction ids
  Keys,       \* the relay's transaction ids: 0..65535
  Questions,
  Answers,
  MaxEntries  \* 4096

ASSUME RelayAssumption ==
  IsFiniteSet(Keys) /\ MaxEntries \in Nat /\ MaxEntries < Cardinality(Keys)

VARIABLES
  relay,    \* "open", or "failed" with its error set
  inbox,    \* questions on their way to the relay
  entries,  \* the relay's pending: who waits for the answer to which question
  outside,  \* questions sent upstream that may still be answered
  mail,     \* answers on their way to the askers
  asked     \* every question put to the relay

relayState == <<relay, inbox, entries, outside, mail, asked>>

Packet == Ports \X Ids \X Questions
Used   == DOMAIN entries

Asker(packet)    == <<packet[1], packet[2]>>
Question(packet) == packet[3]

RelayInit ==
  /\ relay = "open" /\ inbox = {} /\ entries = [k \in {} |-> {}]
  /\ outside = {} /\ mail = {} /\ asked = {}

Without(key) == [k \in Used \ {key} |-> entries[k]]

\* A socket sends a question.
Ask(packet) ==
  /\ inbox' = inbox \cup {packet} /\ asked' = asked \cup {packet}
  /\ UNCHANGED <<relay, entries, outside, mail>>

\* A free id is found at random and by linear probing.
Forward(packet, key) ==
  /\ relay = "open" /\ packet \in inbox
  /\ Cardinality(Used) < MaxEntries /\ key \notin Used
  /\ entries' = [k \in Used \cup {key} |-> IF k = key THEN packet ELSE entries[k]]
  /\ outside' = outside \cup {<<key, Question(packet)>>}
  /\ inbox' = inbox \ {packet}
  /\ UNCHANGED <<relay, mail, asked>>

\* A full table drops the question.
DropQuestion(packet) ==
  /\ relay = "open" /\ packet \in inbox
  /\ Cardinality(Used) >= MaxEntries
  /\ inbox' = inbox \ {packet}
  /\ UNCHANGED <<relay, entries, outside, mail, asked>>

\* Fifteen seconds passed; the question may still be answered upstream.
Expire(key) ==
  /\ relay = "open" /\ key \in Used
  /\ entries' = Without(key)
  /\ UNCHANGED <<relay, inbox, outside, mail, asked>>

\* Faulty: whoever holds the id gets the answer, whatever they asked.
AnswerById(key, question, answer) ==
  /\ relay = "open" /\ <<key, question>> \in outside
  /\ outside' = outside \ {<<key, question>>}
  /\ IF key \in Used
     THEN /\ entries' = Without(key)
          /\ mail' = mail \cup {<<entries[key][1], entries[key][2], question, answer>>}
     ELSE UNCHANGED <<entries, mail>>
  /\ UNCHANGED <<relay, inbox, asked>>

\* An answer of the resolver, in time, late or out of order: it goes to who asked this
\* question under this id, with the asker's own id restored, or nowhere.
Answer(key, question, answer) ==
  /\ relay = "open" /\ <<key, question>> \in outside
  /\ outside' = outside \ {<<key, question>>}
  /\ IF key \in Used /\ Question(entries[key]) = question
     THEN /\ entries' = Without(key)
          /\ mail' = mail \cup {<<entries[key][1], entries[key][2], question, answer>>}
     ELSE UNCHANGED <<entries, mail>>
  /\ UNCHANGED <<relay, inbox, asked>>

\* A datagram reaches the port it was sent to, whoever holds it now.
Receive(letter) ==
  /\ letter \in mail
  /\ mail' = mail \ {letter}
  /\ UNCHANGED <<relay, inbox, entries, outside, asked>>

\* A socket or the association fails: the thread ends, and check() says so.
RelayFails ==
  /\ relay = "open"
  /\ relay' = "failed"
  /\ UNCHANGED <<inbox, entries, outside, mail, asked>>

\* The route is closed with its scan; the next one opens its own.
CloseRelay ==
  /\ relay' = "open" /\ inbox' = {} /\ entries' = [k \in {} |-> {}]
  /\ outside' = {} /\ mail' = {} /\ asked' = {}

RelayNext ==
  \/ \E packet \in Packet : Ask(packet) \/ DropQuestion(packet)
  \/ \E packet \in Packet, key \in Keys : Forward(packet, key)
  \/ \E key \in Keys : Expire(key)
  \/ \E key \in Keys, question \in Questions, answer \in Answers : Answer(key, question, answer)
  \/ \E letter \in mail : Receive(letter)
  \/ RelayFails \/ CloseRelay

RelaySpec == RelayInit /\ [][RelayNext]_relayState

-------------------------------------------------------------------------------
(* Properties.                                                             *)

\* Every answer the relay gives to a socket is to a question this socket asked under
\* this id, even when the relay's id was used before and the old answer comes late.
AnswersFitTheirAsker == \A letter \in mail : <<letter[1], letter[2], letter[3]>> \in asked

\* The table never grows past its limit, so that a free id is always found.
RelayHasRoom == Cardinality(Used) <= MaxEntries /\ Keys \ Used # {}
===============================================================================
