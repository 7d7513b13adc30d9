------------------------------- MODULE MCChat -------------------------------
(* An instance of Chat: an admin and two customers, with a socket each, and a *)
(* socket with a renewed token.                                               *)
EXTENDS Chat, TLC

CONSTANTS admin, ann, bob, s1, s2, s3, s4, m1, m2, r1, r2

OneSocketEach == (s1 :> admin) @@ (s2 :> ann) @@ (s3 :> bob) @@ (s4 :> NoUser)

Symmetry == Permutations(Messages) \cup Permutations(Rooms)
=============================================================================
