----------------------------- MODULE MCDnsHistory -----------------------------
(* DnsHistory on small instances for TLC. *)
EXTENDS DnsHistory, TLC

CONSTANTS d1, d2, r1, r2, direct, proxied

Symmetric == Permutations(Domains) \cup Permutations(Records)
===============================================================================
