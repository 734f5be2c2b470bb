--------------------------- MODULE MCConfigStore ---------------------------
(* Instances of ConfigStore for TLC. *)
EXTENDS ConfigStore, TLC

CONSTANTS e1, q1, q2, v1, v2

VersionSymmetry == Permutations({v1, v2})
=============================================================================
