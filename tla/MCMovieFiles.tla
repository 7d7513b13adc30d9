---------------------------- MODULE MCMovieFiles ----------------------------
(* Instances of MovieFiles: two create requests that compete for uploads. *)
EXTENDS MovieFiles, TLC

CONSTANTS r1, r2, f1, f2, f3

\* Requests and files are interchangeable.
Symmetry == Permutations(Requests) \cup Permutations(Files)
=============================================================================
