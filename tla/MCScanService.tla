---- MODULE MCScanService ----
(* Model values for the ScanService runs. *)
EXTENDS ScanService, TLC

CONSTANTS p1, p2

Symmetric == Permutations(Projects)
====
