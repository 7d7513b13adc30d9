------------------------------ MODULE LikeLedger ------------------------------
(***************************************************************************)
(* What the like feature of a movie promises, without its transactions:    *)
(* a vote and the counters that show it change in one step.  Voting twice  *)
(* the same way takes the vote back; voting the other way moves it.        *)
(***************************************************************************)
EXTENDS Integers, FiniteSets

CONSTANTS Movies, Users

VARIABLES movies,        \* the movies there are
          votes,         \* votes[m][u]: "like", "dislike" or "none"
          likeCount,     \* what a reader of the movie sees
          dislikeCount

ledger == <<movies, votes, likeCount, dislikeCount>>

NumberOf(table, m, kind) == Cardinality({u \in Users : table[m][u] = kind})

Init ==
  /\ movies = Movies
  /\ votes = [m \in Movies |-> [u \in Users |-> "none"]]
  /\ likeCount = [m \in Movies |-> 0]
  /\ dislikeCount = [m \in Movies |-> 0]

\* The counters of m after its votes have become those of table.
Counted(m, table) ==
  /\ votes' = table
  /\ likeCount' = [likeCount EXCEPT ![m] = NumberOf(table, m, "like")]
  /\ dislikeCount' = [dislikeCount EXCEPT ![m] = NumberOf(table, m, "dislike")]

Vote(m, u, vote) ==
  /\ m \in movies
  /\ Counted(m, [votes EXCEPT ![m][u] = IF @ = vote THEN "none" ELSE vote])
  /\ UNCHANGED movies

Remove(m) ==
  /\ m \in movies
  /\ Counted(m, [votes EXCEPT ![m] = [u \in Users |-> "none"]])
  /\ movies' = movies \ {m}

Next ==
  \/ \E m \in Movies, u \in Users, vote \in {"like", "dislike"} :
       Vote(m, u, vote)
  \/ \E m \in Movies : Remove(m)

Spec == Init /\ [][Next]_ledger
===============================================================================
