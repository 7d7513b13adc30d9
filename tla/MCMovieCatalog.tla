--------------------------- MODULE MCMovieCatalog ---------------------------
(* Instances of MovieCatalog: two requests at once. *)
EXTENDS MovieCatalog, TLC

CONSTANTS m1, m2, t1, t2, t3, d1, d2, g1, g2, r1, r2

Symmetry == Permutations(Movies) \cup Permutations(Titles)
              \cup Permutations(Directors) \cup Permutations(Genres)
              \cup Permutations(Requests)
===========================================================================
