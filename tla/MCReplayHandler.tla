-------------------------- MODULE MCReplayHandler --------------------------
(* Instances of ReplayHandler for TLC. *)
EXTENDS ReplayHandler

CONSTANTS e1, e2, q1, q2
=============================================================================
