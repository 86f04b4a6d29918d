---- MODULE MCMassDns ----
(* Model values for the MassDns run. *)
EXTENDS MassDns, TLC

CONSTANTS d1, d2, r1, tA, tAAAA

Symmetric == Permutations(Domains) \cup Permutations(Types)
====
