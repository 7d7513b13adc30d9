----------------------------- MODULE MCRegistry -----------------------------
(* An instance of Registry: three requests at once over up to two rows. *)
EXTENDS Registry, TLC

CONSTANTS i1, i2, v1, v2, q1, q2, q3

Symmetry ==
  Permutations(Ids) \cup Permutations(Values) \cup Permutations(Requests)
=============================================================================
