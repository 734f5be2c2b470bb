----------------------------- MODULE MCChunking -----------------------------
(* Instances of Chunking for TLC. *)
EXTENDS Chunking

CONSTANTS q1, q2
=============================================================================
