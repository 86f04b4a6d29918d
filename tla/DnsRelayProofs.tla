---------------------------- MODULE DnsRelayProofs ----------------------------
(***************************************************************************)
(* What DnsRelay promises for every number of sockets, ids and questions,  *)
(* and every table smaller than the space of its keys.                     *)
(***************************************************************************)
EXTENDS DnsRelay, FiniteSetTheorems, TLAPS

\* Whatever the relay holds was asked, and its table is a small part of its keys.
RelayInv ==
  /\ asked \subseteq Packet /\ inbox \subseteq asked
  /\ Used \subseteq Keys /\ Cardinality(Used) <= MaxEntries
  /\ \A k \in Used : entries[k] \in asked
  /\ AnswersFitTheirAsker

\* A part of the keys is finite, and one key less is not more.
LEMMA UsedFinite ==
  ASSUME Used \subseteq Keys
  PROVE  /\ IsFiniteSet(Used) /\ Cardinality(Used) \in Nat
         /\ \A k : Cardinality(Used \cup {k}) \in Nat /\ Cardinality(Used \ {k}) \in Nat
         /\ \A k : Cardinality(Used \cup {k}) <= Cardinality(Used) + 1
         /\ \A k : Cardinality(Used \ {k}) <= Cardinality(Used)
  <1>1. IsFiniteSet(Used) /\ Cardinality(Used) \in Nat
    BY RelayAssumption, FS_Subset, FS_CardinalityType
  <1>2. ASSUME NEW k
        PROVE  /\ Cardinality(Used \cup {k}) \in Nat
               /\ Cardinality(Used \cup {k}) <= Cardinality(Used) + 1
    <2>1. /\ IsFiniteSet(Used \cup {k})
          /\ Cardinality(Used \cup {k}) = IF k \in Used THEN Cardinality(Used) ELSE Cardinality(Used) + 1
      BY <1>1, FS_AddElement, Zenon
    <2>2. QED
      BY <1>1, <2>1
  <1>3. ASSUME NEW k
        PROVE  /\ Cardinality(Used \ {k}) \in Nat
               /\ Cardinality(Used \ {k}) <= Cardinality(Used)
    <2>1. /\ IsFiniteSet(Used \ {k})
          /\ Cardinality(Used \ {k}) = IF k \in Used THEN Cardinality(Used) - 1 ELSE Cardinality(Used)
      BY <1>1, FS_RemoveElement, Zenon
    <2>2. Cardinality(Used \ {k}) \in Nat
      BY <2>1, FS_CardinalityType, Zenon
    <2>3. QED
      BY <1>1, <2>1, <2>2
  <1>4. QED
    BY <1>1, <1>2, <1>3

\* Taking an entry out leaves the others as they are.
LEMMA EntryRemoved ==
  ASSUME RelayInv, NEW key \in Used, entries' = Without(key), asked' = asked
  PROVE  /\ Used' \subseteq Keys /\ Cardinality(Used') <= MaxEntries
         /\ \A k \in Used' : entries'[k] \in asked'
  <1>1. Used' = Used \ {key} /\ \A k \in Used' : entries'[k] = entries[k]
    BY DEF Without, Used
  <1>2. Cardinality(Used') <= MaxEntries
    <2>1. /\ Cardinality(Used \ {key}) <= Cardinality(Used)
          /\ Cardinality(Used) \in Nat /\ Cardinality(Used \ {key}) \in Nat
      BY UsedFinite DEF RelayInv
    <2>2. Cardinality(Used \ {key}) <= MaxEntries
      BY <2>1, RelayAssumption DEF RelayInv
    <2>3. QED
      BY <1>1, <2>2
  <1>3. QED
    BY <1>1, <1>2 DEF RelayInv

\* A table that starts or is closed is empty.
LEMMA EmptyTable == RelayInit => RelayInv
  <1> SUFFICES ASSUME RelayInit PROVE RelayInv
    OBVIOUS
  <1>1. Used = {} /\ Cardinality({}) = 0
    BY FS_EmptySet DEF RelayInit, Used
  <1>2. QED
    BY <1>1, RelayAssumption DEF RelayInit, RelayInv, AnswersFitTheirAsker

\* Every step of the relay, its askers and the network keeps the invariant.
LEMMA RelayKeeps ==
  ASSUME RelayInv, RelayNext
  PROVE  RelayInv'
  <1> USE DEF RelayInv
  <1>1. ASSUME NEW packet \in Packet, Ask(packet) PROVE RelayInv'
    BY <1>1 DEF Ask, Used, AnswersFitTheirAsker
  <1>2. ASSUME NEW packet \in Packet, DropQuestion(packet) PROVE RelayInv'
    BY <1>2 DEF DropQuestion, Used, AnswersFitTheirAsker
  <1>3. ASSUME NEW packet \in Packet, NEW key \in Keys, Forward(packet, key) PROVE RelayInv'
    <2>1. /\ Used' = Used \cup {key} /\ packet \in asked
          /\ \A k \in Used' : entries'[k] = IF k = key THEN packet ELSE entries[k]
      BY <1>3 DEF Forward, Used
    <2>2. Cardinality(Used') <= MaxEntries
      <3>1. /\ Cardinality(Used \cup {key}) <= Cardinality(Used) + 1
            /\ Cardinality(Used) \in Nat /\ Cardinality(Used \cup {key}) \in Nat
        BY UsedFinite
      <3>2. Cardinality(Used) < MaxEntries
        BY <1>3 DEF Forward
      <3>3. Cardinality(Used \cup {key}) <= MaxEntries
        BY <3>1, <3>2, RelayAssumption
      <3>4. QED
        BY <2>1, <3>3
    <2>3. UNCHANGED <<mail, asked>> /\ inbox' \subseteq inbox
      BY <1>3 DEF Forward
    <2>4. QED
      BY <2>1, <2>2, <2>3 DEF AnswersFitTheirAsker
  <1>4. ASSUME NEW key \in Keys, Expire(key) PROVE RelayInv'
    <2>1. key \in Used /\ entries' = Without(key) /\ UNCHANGED <<inbox, mail, asked>>
      BY <1>4 DEF Expire
    <2>2. QED
      BY <2>1, EntryRemoved DEF AnswersFitTheirAsker
  <1>5. ASSUME NEW key \in Keys, NEW question \in Questions, NEW answer \in Answers,
               Answer(key, question, answer)
        PROVE  RelayInv'
    <2>1. UNCHANGED <<inbox, asked>>
      BY <1>5 DEF Answer
    <2>2. CASE key \in Used /\ Question(entries[key]) = question
      <3>1. /\ entries' = Without(key)
            /\ mail' = mail \cup {<<entries[key][1], entries[key][2], question, answer>>}
        BY <1>5, <2>2 DEF Answer
      <3>2. <<entries[key][1], entries[key][2], question>> = entries[key] /\ entries[key] \in asked
        <4>1. entries[key] \in Packet /\ entries[key] \in asked /\ entries[key][3] = question
          BY <2>2 DEF Question
        <4>2. PICK port \in Ports, id \in Ids, q \in Questions : entries[key] = <<port, id, q>>
          BY <4>1 DEF Packet
        <4>3. QED
          BY <4>1, <4>2
      <3>3. AnswersFitTheirAsker'
        <4> SUFFICES ASSUME NEW letter \in mail' PROVE <<letter[1], letter[2], letter[3]>> \in asked
          BY <2>1 DEF AnswersFitTheirAsker
        <4>1. CASE letter \in mail
          BY <4>1 DEF AnswersFitTheirAsker
        <4>2. CASE letter = <<entries[key][1], entries[key][2], question, answer>>
          BY <3>2, <4>2
        <4>3. QED
          BY <3>1, <4>1, <4>2
      <3>4. QED
        BY <2>1, <2>2, <3>1, <3>3, EntryRemoved
    <2>3. CASE ~(key \in Used /\ Question(entries[key]) = question)
      BY <1>5, <2>1, <2>3 DEF Answer, Used, AnswersFitTheirAsker
    <2>4. QED
      BY <2>2, <2>3
  <1>6. ASSUME NEW letter \in mail, Receive(letter) PROVE RelayInv'
    BY <1>6 DEF Receive, Used, AnswersFitTheirAsker
  <1>7. CASE RelayFails
    BY <1>7 DEF RelayFails, Used, AnswersFitTheirAsker
  <1>8. CASE CloseRelay
    <2>1. Used' = {} /\ Cardinality({}) = 0
      BY <1>8, FS_EmptySet DEF CloseRelay, Used
    <2>2. QED
      BY <1>8, <2>1, RelayAssumption DEF CloseRelay, AnswersFitTheirAsker
  <1>9. QED
    BY <1>1, <1>2, <1>3, <1>4, <1>5, <1>6, <1>7, <1>8 DEF RelayNext

\* The invariant holds in every reachable state.
LEMMA RelayInvariant == RelaySpec => []RelayInv
  <1>1. RelayInv /\ UNCHANGED relayState => RelayInv'
    BY DEF RelayInv, relayState, Used, AnswersFitTheirAsker
  <1>2. QED
    BY <1>1, EmptyTable, RelayKeeps, PTL DEF RelaySpec

\* The relay answers a socket only what this socket asked under this id.
THEOREM AnswersFit == RelaySpec => []AnswersFitTheirAsker
  <1>1. RelayInv => AnswersFitTheirAsker
    BY DEF RelayInv
  <1>2. QED
    BY <1>1, RelayInvariant, PTL

\* The relay's table stays within its limit, so the search for a free id ends.
THEOREM RoomRemains == RelaySpec => []RelayHasRoom
  <1>1. RelayInv => RelayHasRoom
    <2> SUFFICES ASSUME RelayInv PROVE RelayHasRoom
      OBVIOUS
    <2>1. Used # Keys
      <3>1. Cardinality(Used) \in Nat /\ Cardinality(Keys) \in Nat
        BY UsedFinite, RelayAssumption, FS_CardinalityType DEF RelayInv
      <3>2. Cardinality(Used) < Cardinality(Keys)
        BY <3>1, RelayAssumption DEF RelayInv
      <3>3. QED
        BY <3>1, <3>2
    <2>2. QED
      BY <2>1 DEF RelayInv, RelayHasRoom
  <1>2. QED
    BY <1>1, RelayInvariant, PTL
===============================================================================
