--------------------------- MODULE MCMovieLikes ---------------------------
(* Instances of MovieLikes: who is logged in where. *)
EXTENDS MovieLikes, TLC

CONSTANTS m1, m2, c1, c2, u1, u2

\* Two users, a tab each.
OneTabEach == (c1 :> u1) @@ (c2 :> u2)

\* The first user has two tabs open, or has clicked twice.
TwoTabs == (c1 :> u1) @@ (c2 :> u1)
===========================================================================
