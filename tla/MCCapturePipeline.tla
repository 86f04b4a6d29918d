---- MODULE MCCapturePipeline ----
(* Model values for the CapturePipeline runs. *)
EXTENDS CapturePipeline, TLC

CONSTANTS d1, d2, w1, w2

Symmetric == Permutations(Domains)
====
