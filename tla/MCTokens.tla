------------------------------ MODULE MCTokens ------------------------------
(* Instances of Tokens: how long tokens live. *)
EXTENDS Tokens, TLC

\* The access token outlives the refresh token, as 1080h does 24h.
Lives == [refresh |-> 1, access |-> 2]

Slots == Permutations(Requests)
=============================================================================
