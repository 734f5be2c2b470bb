----------------------------- MODULE MCNewQueue -----------------------------
(* Instances of NewQueue for TLC. *)
EXTENDS NewQueue, TLC

CONSTANTS e1, e2, q1, q2, v1

EnvSymmetry == Permutations({e1, e2})
=============================================================================
