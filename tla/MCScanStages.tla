----------------------------- MODULE MCScanStages -----------------------------
EXTENDS ScanStages

CONSTANTS r1, r2, sub, typo, amass, subfinder

MCItems == {r1, r2, sub, typo}
MCScopeOf(n) == IF n = sub THEN r1 ELSE IF n \in {r1, r2} THEN n ELSE typo
MCTypoOf(seed) == IF seed = sub THEN {typo} ELSE {}
MCTypes == <<"A", "CNAME">>
MCQuestions == MCItems \X {"A", "CNAME", "NS"}
MCAnswers == {"records", "noanswer", "nxdomain", "alias", "parked", "mixed", "other", "failure"}

Zone(a, cname, ns) ==
  [q \in MCQuestions |-> CASE q[2] = "A" -> a[q[1]] [] q[2] = "CNAME" -> cname[q[1]] [] q[2] = "NS" -> ns]

Nothing == [seeds |-> {}, candidates |-> {}, generated |-> {}]
NoHints == [i \in MCItems |-> "none"]

Say(outcome) == [i \in MCItems |-> outcome]
Only(names) == [i \in MCItems |-> IF i \in names THEN "records" ELSE "nxdomain"]

Setup(mode, roots, old, zone_, hints) ==
  [mode |-> mode, roots |-> roots, old |-> old, zone |-> zone_, hints |-> hints,
   discoveryProxied |-> FALSE, dnsProxied |-> FALSE, stops |-> {"user", "service"}]

\* The first scan of two roots, one of them resolving and parked.
FirstScan == Setup("enumerate", {r1, r2}, Nothing, Zone(Only({r1}), Say("noanswer"), "parked"), NoHints)

\* Another one, through an HTTP proxy, on top of a saved inventory with its typos.
NextScan ==
  [Setup("enumerate", {r1}, [seeds |-> {r1, sub}, candidates |-> {r1, sub, typo}, generated |-> {r1, sub}],
         Zone([Say("nxdomain") EXCEPT ![typo] = "noanswer"],
              [Say("nxdomain") EXCEPT ![typo] = "records", ![sub] = "noanswer"], "other"), [NoHints EXCEPT ![typo] = "parked"])
    EXCEPT !.discoveryProxied = TRUE, !.stops = {}]

\* The saved inventory alone, its DNS through a relay.
RelayedScan ==
  [Setup("cached", {r1}, [seeds |-> {r1}, candidates |-> {r1}, generated |-> {r1}],
         Zone(Only({r1}), Say("noanswer"), "parked"), NoHints)
    EXCEPT !.dnsProxied = TRUE, !.stops = {}]

\* A saved inventory that is empty.
EmptyScan == Setup("cached", {r1}, Nothing, Zone(Only({}), Say("nxdomain"), "nxdomain"), NoHints)

MCSetups == {FirstScan, NextScan, RelayedScan, EmptyScan}
===============================================================================
