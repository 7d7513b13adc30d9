-------------------------- MODULE MovieLikesProofs --------------------------
(***************************************************************************)
(* Proofs about MovieLikes, for any finite sets of movies and users, any   *)
(* clients and any number of toggles.                                      *)
(***************************************************************************)
EXTENDS MovieLikes, TLAPS, FiniteSetTheorems

USE MoviesAssumption, UsersAssumption, UserOfAssumption, TogglesAssumption

(***************************************************************************)
(* Counting.                                                               *)
(***************************************************************************)
\* A tally is a natural number.
LEMMA TallyType ==
  ASSUME NEW table, NEW m, NEW kind
  PROVE  Tally(table, m, kind) \in Nat
<1>1. IsFiniteSet({u \in Users : table[m][u] = kind})
  BY FS_Subset
<1> QED  BY <1>1, FS_CardinalityType DEF Tally

\* The table with the row of one movie and user changed.
Changed(table, m, v, r) == [table EXCEPT ![m][v] = r]

\* Changing one user's row moves a tally by what the change adds and removes.
LEMMA TallyChange ==
  ASSUME NEW table \in [Movies -> [Users -> Records]],
         NEW m \in Movies, NEW v \in Users, NEW r \in Records,
         NEW kind \in Votes
  PROVE  /\ \A n \in Movies \ {m} :
              Tally(Changed(table, m, v, r), n, kind) = Tally(table, n, kind)
         /\ Tally(Changed(table, m, v, r), m, kind) =
              Tally(table, m, kind)
                + (IF r = kind THEN 1 ELSE 0)
                - (IF table[m][v] = kind THEN 1 ELSE 0)
<1> DEFINE new == Changed(table, m, v, r)
           Of(t, n) == {u \in Users : t[n][u] = kind}
           Rest == Of(table, m) \ {v}
<1>1. \A n \in Movies \ {m} : Of(new, n) = Of(table, n)
  BY DEF Changed
<1>2. Of(table, m) = IF table[m][v] = kind THEN Rest \cup {v} ELSE Rest
  OBVIOUS
<1>3. Of(new, m) = IF r = kind THEN Rest \cup {v} ELSE Rest
  BY DEF Changed
<1>4. IsFiniteSet(Rest) /\ v \notin Rest
  BY FS_Subset
<1>5. Cardinality(Rest \cup {v}) = Cardinality(Rest) + 1
  BY <1>4, FS_AddElement
<1>6. Cardinality(Rest) \in Nat
  BY <1>4, FS_CardinalityType
<1>7. \A t, n : Tally(t, n, kind) = Cardinality(Of(t, n))
  BY DEF Tally
<1> HIDE DEF new, Of, Rest
<1>8. \A n \in Movies \ {m} : Tally(new, n, kind) = Tally(table, n, kind)
  BY <1>1, <1>7
<1>9. Tally(table, m, kind)
        = Cardinality(Rest) + (IF table[m][v] = kind THEN 1 ELSE 0)
  <2>1. CASE table[m][v] = kind
    BY <2>1, <1>2, <1>5, <1>6, <1>7
  <2>2. CASE table[m][v] # kind
    BY <2>2, <1>2, <1>6, <1>7
  <2> QED  BY <2>1, <2>2
<1>10. Tally(new, m, kind)
         = Cardinality(Rest) + (IF r = kind THEN 1 ELSE 0)
  <2>1. CASE r = kind
    BY <2>1, <1>3, <1>5, <1>6, <1>7
  <2>2. CASE r # kind
    BY <2>2, <1>3, <1>6, <1>7
  <2> QED  BY <2>1, <2>2
<1>11. Tally(new, m, kind) =
         Tally(table, m, kind)
           + (IF r = kind THEN 1 ELSE 0)
           - (IF table[m][v] = kind THEN 1 ELSE 0)
  <2> DEFINE a == IF r = kind THEN 1 ELSE 0
             b == IF table[m][v] = kind THEN 1 ELSE 0
  <2>1. a \in Nat /\ b \in Nat
    OBVIOUS
  <2> HIDE DEF a, b
  <2>2. Tally(table, m, kind) = Cardinality(Rest) + b
    BY <1>9 DEF b
  <2>3. Tally(new, m, kind) = Cardinality(Rest) + a
    BY <1>10 DEF a
  <2>4. Tally(new, m, kind) = Tally(table, m, kind) + a - b
    BY <1>6, <2>1, <2>2, <2>3
  <2> QED  BY <2>4 DEF a, b
<1> QED  BY <1>8, <1>11 DEF new

\* Nobody has voted in a table without rows.
LEMMA TallyNone ==
  ASSUME NEW table \in [Movies -> [Users -> Records]], NEW m \in Movies,
         NEW kind \in Votes, \A u \in Users : table[m][u] = "none"
  PROVE  Tally(table, m, kind) = 0
<1>1. {u \in Users : table[m][u] = kind} = {}
  BY DEF Votes
<1> QED  BY <1>1, FS_EmptySet DEF Tally

\* The increments the code chooses are what its branch does to the row.
LEMMA DeltaIsChange ==
  ASSUME NEW record \in Records, NEW vote \in Votes, NEW kind \in Votes
  PROVE  /\ Delta(kind, record, vote) \in Int
         /\ Delta(kind, record, vote) =
              (IF After(record, vote) = kind THEN 1 ELSE 0)
                - (IF record = kind THEN 1 ELSE 0)
         /\ After(record, vote) \in Records
BY DEF Delta, After, Records, Votes
(***************************************************************************)
(* Types.                                                                  *)
(***************************************************************************)
LEMMA TypeInit == Init => TypeOK
BY DEF Init, TypeOK, NoLikes, Steps, Records, Votes, Answers

LEMMA TypeNext == TypeOK /\ [Next]_vars => TypeOK'
<1> SUFFICES ASSUME TypeOK, [Next]_vars PROVE TypeOK'
  OBVIOUS
<1> USE DEF TypeOK
<1>1. ASSUME NEW c \in Clients, ClientNext(c) PROVE TypeOK'
  <2> USE DEF Steps
  <2>1. ASSUME NEW m \in Movies, NEW vote \in Votes, Toggle(c, m, vote)
        PROVE  TypeOK'
    BY <2>1 DEF Toggle, rowVars, cronVars, Answers
  <2>2. ASSUME NEW step \in Steps, Goto(c, step), seen' \in [Clients -> Records]
        PROVE  TypeOK'
    BY <2>2 DEF Goto, rowVars, cronVars
  <2>3. Fail(c) => TypeOK'
    BY <2>2 DEF Fail, Records
  <2>4. FindMovie(c) \/ FindUser(c) => TypeOK'
    BY <2>2, <2>3 DEF FindMovie, FindUser
  <2>5. FindRecord(c) => TypeOK'
    BY <2>2 DEF FindRecord
  <2>6. ChangeRecord(c) \/ CreateRecord(c) => TypeOK'
    BY <2>2, <2>3 DEF ChangeRecord, RecordThere, CreateRecord, ParentsThere
  <2>7. UpdateCounters(c) => TypeOK'
    BY <2>2, <2>3 DEF UpdateCounters
  <2>8. CASE Commit(c)
    <3> DEFINE m == req[c].movie
               r == After(seen[c], req[c].vote)
    <3>1. m \in Movies /\ r \in Records
      BY DeltaIsChange DEF Votes
    <3>2. /\ Delta("like", seen[c], req[c].vote) \in Int
          /\ Delta("dislike", seen[c], req[c].vote) \in Int
      BY DeltaIsChange DEF Votes
    <3>3. PICK answer \in {r, "unknown"} :
            told' = [told EXCEPT ![c][m] = answer]
      BY <2>8 DEF Commit, ReadBack
    <3>4. told' \in [Clients -> [Movies -> Answers]]
      BY <3>1, <3>3 DEF Answers
    <3>5. like' \in [Movies -> [Users -> Records]]
      BY <2>8, <3>1 DEF Commit, ReadBack
    <3>6. likeCount' \in [Movies -> Int] /\ dislikeCount' \in [Movies -> Int]
      BY <2>8, <3>2 DEF Commit, ReadBack
    <3>7. seen' \in [Clients -> Records]
      BY <2>8 DEF Commit, ReadBack, Records
    <3> QED  BY <2>8, <3>4, <3>5, <3>6, <3>7 DEF Commit, ReadBack, cronVars
  <2>9. Timeout(c) \/ DeadlockVictim(c) => TypeOK'
    BY <2>3 DEF Timeout, DeadlockVictim
  <2> QED
    BY <1>1, <2>1, <2>4, <2>5, <2>6, <2>7, <2>8, <2>9
       DEF ClientNext, ClientStep
<1>2. ASSUME NEW m \in Movies, RemoveNext(m) PROVE TypeOK'
  <2> USE DEF rowVars, clientVars, cronVars
  <2>1. RemoveMovie(m) => TypeOK'
    BY DEF RemoveMovie
  <2>2. LockMovie(m) => TypeOK'
    BY DEF LockMovie
  <2>3. CASE DeleteMovie(m)
    <3>1. like' \in [Movies -> [Users -> Records]]
      BY <2>3 DEF DeleteMovie, LikesFree, WithoutMovie, Records
    <3> QED  BY <2>3, <3>1 DEF DeleteMovie, LikesFree, WithoutMovie
  <2>4. RemoveFails(m) => TypeOK'
    BY DEF RemoveFails
  <2> QED  BY <1>2, <2>1, <2>2, <2>3, <2>4 DEF RemoveNext
<1>3. ASSUME NEW u \in Users, LeaveNext(u) PROVE TypeOK'
  <2> USE DEF rowVars, clientVars, cronVars
  <2>1. RemoveUser(u) => TypeOK'
    BY DEF RemoveUser
  <2>2. LockUser(u) => TypeOK'
    BY DEF LockUser
  <2>3. CASE DeleteUser(u)
    <3>1. like' \in [Movies -> [Users -> Records]]
      BY <2>3 DEF DeleteUser, LikesOfFree, Records
    <3> QED  BY <2>3, <3>1 DEF DeleteUser, LikesOfFree
  <2>4. RemoveUserFails(u) => TypeOK'
    BY DEF RemoveUserFails
  <2> QED  BY <1>3, <2>1, <2>2, <2>3, <2>4 DEF LeaveNext
<1>4. CASE CronNext
  <2>1. StartRecount => TypeOK'
    BY DEF StartRecount, rowVars, clientVars
  <2>2. ASSUME NEW m \in Movies, RecountRow(m) PROVE TypeOK'
    BY <2>2 DEF RecountRow, rowVars, clientVars
  <2>3. ASSUME NEW column \in [Movies -> Int], NEW kind
        PROVE  Recounted(column, kind) \in [Movies -> Int]
    <3>1. \A m \in Movies : Tally(snapshot, m, kind) \in Int
      BY TallyType
    <3> QED  BY <3>1, <2>3 DEF Recounted
  <2>4. CASE FinishRecount
    <3>1. likeCount' \in [Movies -> Int] /\ dislikeCount' \in [Movies -> Int]
      <4>1. CASE likeCount' = Recounted(likeCount, "like")
                   /\ UNCHANGED dislikeCount
        BY <2>3, <4>1
      <4>2. CASE dislikeCount' = Recounted(dislikeCount, "dislike")
                   /\ UNCHANGED likeCount
        BY <2>3, <4>2
      <4> QED  BY <2>4, <4>1, <4>2 DEF FinishRecount
    <3>2. cron' \in {"idle", "like", "between", "dislike"}
      BY <2>4 DEF FinishRecount
    <3>3. held' \subseteq Movies
      BY <2>4 DEF FinishRecount
    <3> QED  BY <2>4, <3>1, <3>2, <3>3 DEF FinishRecount, clientVars
  <2>5. RecountFails => TypeOK'
    BY DEF RecountFails, rowVars, clientVars
  <2> QED  BY <1>4, <2>1, <2>2, <2>4, <2>5 DEF CronNext
<1>5. CASE UNCHANGED vars
  BY <1>5 DEF vars, rowVars, clientVars, cronVars
<1> QED  BY <1>1, <1>2, <1>3, <1>4, <1>5 DEF Next, DayNext

\* Every behaviour keeps every variable in its type.
THEOREM TypeCorrect == Spec => []TypeOK
BY TypeInit, TypeNext, PTL DEF Spec
(***************************************************************************)
(* Foreign keys.  Referential alone is not inductive: a toggle that has    *)
(* written its row commits it later, so the movie and the user must be     *)
(* known to exist from the write on, which CountersHaveRow says.           *)
(***************************************************************************)
RowInv == Referential /\ CountersHaveRow

LEMMA RowInit == Init => RowInv
BY DEF Init, RowInv, Referential, CountersHaveRow, NoLikes, HoldsRecord

LEMMA RowNext == TypeOK /\ RowInv /\ [Next]_vars => RowInv'
<1> SUFFICES ASSUME TypeOK, RowInv, [Next]_vars PROVE RowInv'
  OBVIOUS
<1> USE DEF RowInv
<1>1. ASSUME UNCHANGED <<movies, users, like, pc, req>> PROVE RowInv'
  BY <1>1 DEF Referential, CountersHaveRow, HoldsRecord
<1>2. ASSUME NEW c \in Clients, ClientNext(c) PROVE RowInv'
  \* A step that leaves the rows alone and moves only c.
  <2>1. ASSUME NEW step \in Steps, Goto(c, step),
               step \in {"count", "commit"} =>
                 req[c].movie \in movies /\ UserOf[c] \in users
        PROVE  RowInv'
    BY <2>1 DEF Goto, rowVars, TypeOK, Referential, CountersHaveRow,
                HoldsRecord
  <2>2. Fail(c) => RowInv'
    BY <2>1 DEF Fail, Steps
  <2>3. ASSUME NEW m \in Movies, NEW vote \in Votes, Toggle(c, m, vote)
        PROVE  RowInv'
    BY <2>3 DEF Toggle, rowVars, TypeOK, Referential, CountersHaveRow,
                HoldsRecord
  <2>4. FindMovie(c) \/ FindUser(c) \/ FindRecord(c) => RowInv'
    BY <2>1, <2>2 DEF FindMovie, FindUser, FindRecord, Steps
  <2>5. CASE ChangeRecord(c)
    <3>1. like[req[c].movie][UserOf[c]] # "none" =>
            req[c].movie \in movies /\ UserOf[c] \in users
      BY DEF Referential, TypeOK
    <3> QED  BY <2>1, <2>2, <2>5, <3>1 DEF ChangeRecord, RecordThere, Steps
  <2>6. CreateRecord(c) => RowInv'
    BY <2>1, <2>2 DEF CreateRecord, ParentsThere, Steps
  <2>7. CASE UpdateCounters(c)
    <3>1. req[c].movie \in movies /\ UserOf[c] \in users
      BY <2>7 DEF UpdateCounters, CountersHaveRow, HoldsRecord
    <3> QED  BY <2>1, <2>2, <2>7, <3>1 DEF UpdateCounters, Steps
  <2>8. CASE Commit(c)
    <3>1. req[c].movie \in movies /\ UserOf[c] \in users
      BY <2>8 DEF Commit, ReadBack, CountersHaveRow, HoldsRecord
    <3>2. /\ like' = [like EXCEPT ![req[c].movie][UserOf[c]] =
                                     After(seen[c], req[c].vote)]
          /\ pc' = [pc EXCEPT ![c] = "idle"]
          /\ UNCHANGED <<movies, users, req>>
      BY <2>8 DEF Commit, ReadBack
    <3>3. Referential'
      BY <3>1, <3>2 DEF Referential, TypeOK
    <3>4. CountersHaveRow'
      BY <3>2 DEF CountersHaveRow, HoldsRecord, TypeOK
    <3> QED  BY <3>3, <3>4
  <2>9. Timeout(c) \/ DeadlockVictim(c) => RowInv'
    BY <2>2 DEF Timeout, DeadlockVictim
  <2> QED
    BY <1>2, <2>3, <2>4, <2>5, <2>6, <2>7, <2>8, <2>9
       DEF ClientNext, ClientStep
<1>3. ASSUME NEW m \in Movies, RemoveNext(m) PROVE RowInv'
  <2>1. RemoveMovie(m) \/ LockMovie(m) \/ RemoveFails(m) => RowInv'
    BY <1>1 DEF RemoveMovie, LockMovie, RemoveFails, rowVars, clientVars
  <2>2. CASE DeleteMovie(m)
    <3>1. Referential'
      BY <2>2 DEF DeleteMovie, LikesFree, WithoutMovie, Referential, TypeOK
    <3>2. CountersHaveRow'
      BY <2>2 DEF DeleteMovie, LikesFree, WithoutMovie, CountersHaveRow, HoldsRecord, clientVars
    <3> QED  BY <3>1, <3>2
  <2> QED  BY <1>3, <2>1, <2>2 DEF RemoveNext
<1>4. ASSUME NEW u \in Users, LeaveNext(u) PROVE RowInv'
  <2>1. RemoveUser(u) \/ LockUser(u) \/ RemoveUserFails(u) => RowInv'
    BY <1>1 DEF RemoveUser, LockUser, RemoveUserFails, rowVars, clientVars
  <2>2. CASE DeleteUser(u)
    <3>1. Referential'
      BY <2>2 DEF DeleteUser, LikesOfFree, Referential, TypeOK
    <3>2. CountersHaveRow'
      BY <2>2 DEF DeleteUser, LikesOfFree, CountersHaveRow, HoldsRecord, clientVars
    <3> QED  BY <3>1, <3>2
  <2> QED  BY <1>4, <2>1, <2>2 DEF LeaveNext
<1>5. CronNext => RowInv'
  BY <1>1 DEF CronNext, StartRecount, RecountRow, FinishRecount, RecountFails,
              rowVars, clientVars
<1>6. UNCHANGED vars => RowInv'
  BY <1>1 DEF vars, rowVars, clientVars
<1> QED  BY <1>2, <1>3, <1>4, <1>5, <1>6 DEF Next, DayNext

\* No like row outlives its movie or its user.
THEOREM LikesReferential == Spec => []Referential
<1>1. RowInv => Referential
  BY DEF RowInv
<1> QED  BY <1>1, TypeInit, TypeNext, RowInit, RowNext, PTL DEF Spec

\* A toggle that has written its like row finds its movie row.
THEOREM TogglesFindCounters == Spec => []CountersHaveRow
<1>1. RowInv => CountersHaveRow
  BY DEF RowInv
<1> QED  BY <1>1, TypeInit, TypeNext, RowInit, RowNext, PTL DEF Spec
(***************************************************************************)
(* The unlocked read.  Two tabs of one user may both read the like row     *)
(* before either writes it, and then the counters drift                    *)
(* (MCMovieLikes_double).  That is the only way: everything about the      *)
(* counters holds in every behaviour in which no toggle commits while      *)
(* another of the same user and movie is between its read and its write.   *)
(* A user with one tab has no other (OneTabCommitsUnread).                 *)
(***************************************************************************)
SameRow(c, d) == UserOf[c] = UserOf[d] /\ req[c].movie = req[d].movie

CommitsUnread ==
  \A c, d \in Clients :
    Commit(c) /\ c # d /\ SameRow(c, d) => pc[d] # "write"

LEMMA OneTabCommitsUnread ==
  ASSUME OneTabPerUser
  PROVE  CommitsUnread
BY DEF OneTabPerUser, CommitsUnread, SameRow

\* A like row is written by one transaction at a time.
LockInv ==
  \A c, d \in Clients :
    HoldsRecord(c) /\ HoldsRecord(d) /\ SameRow(c, d) => c = d

LEMMA LockInit == Init => LockInv
BY DEF Init, LockInv, HoldsRecord

LEMMA LockNext == TypeOK /\ LockInv /\ [Next]_vars => LockInv'
<1> SUFFICES ASSUME TypeOK, LockInv, [Next]_vars PROVE LockInv'
  OBVIOUS
<1>1. UNCHANGED <<pc, req>> => LockInv'
  BY DEF LockInv, HoldsRecord, SameRow
<1>2. ASSUME NEW c \in Clients, ClientNext(c) PROVE LockInv'
  <2>1. /\ \A d \in Clients \ {c} : pc'[d] = pc[d] /\ req'[d] = req[d]
        /\ \/ pc'[c] \notin {"count", "commit"}
           \/ req' = req /\ (HoldsRecord(c) \/ RecordFree(c))
    BY <1>2 DEF ClientNext, ClientStep, Toggle, FindMovie, FindUser, FindRecord,
         ChangeRecord, RecordThere, CreateRecord, UpdateCounters, Commit, Timeout,
         DeadlockVictim, Fail, Goto, HoldsRecord, TypeOK
  <2> QED  BY <2>1 DEF LockInv, HoldsRecord, RecordFree, SameRow
<1>3. ASSUME \/ \E m \in Movies : RemoveNext(m)
             \/ \E u \in Users : LeaveNext(u)
             \/ CronNext \/ UNCHANGED vars
      PROVE  UNCHANGED <<pc, req>>
  BY <1>3 DEF RemoveNext, RemoveMovie, LockMovie, DeleteMovie, RemoveFails,
       LeaveNext, RemoveUser, LockUser, DeleteUser, RemoveUserFails,
       CronNext, StartRecount, RecountRow, FinishRecount, RecountFails,
       clientVars, vars
<1> QED  BY <1>1, <1>2, <1>3 DEF Next, DayNext

LEMMA ReadInit == Init => ReadStillValid
BY DEF Init, ReadStillValid, HoldsRecord

LEMMA ReadNext ==
  TypeOK /\ LockInv /\ ReadStillValid /\ [Next]_vars /\ [CommitsUnread]_vars
    => ReadStillValid'
<1> SUFFICES ASSUME TypeOK, LockInv, ReadStillValid, [Next]_vars,
                    [CommitsUnread]_vars
             PROVE  ReadStillValid'
  OBVIOUS
<1>1. ASSUME UNCHANGED <<like, pc, req, seen>> PROVE ReadStillValid'
  BY <1>1 DEF ReadStillValid, HoldsRecord
<1>2. ASSUME NEW c \in Clients, ClientNext(c) PROVE ReadStillValid'
  \* A step that leaves the rows alone and moves only c.
  <2>1. ASSUME NEW step \in Steps, Goto(c, step),
               \A d \in Clients \ {c} : seen'[d] = seen[d],
               LET now == like[req[c].movie][UserOf[c]]
               IN /\ step = "write" => now \in {seen'[c], "none"}
                  /\ step \in {"count", "commit"} => now = seen'[c]
        PROVE  ReadStillValid'
    BY <2>1 DEF Goto, rowVars, TypeOK, ReadStillValid, HoldsRecord
  <2>2. Fail(c) => ReadStillValid'
    BY <2>1 DEF Fail, Steps, TypeOK
  <2>3. ASSUME NEW m \in Movies, NEW vote \in Votes, Toggle(c, m, vote)
        PROVE  ReadStillValid'
    BY <2>3 DEF Toggle, rowVars, TypeOK, ReadStillValid, HoldsRecord
  <2>4. FindMovie(c) \/ FindUser(c) => ReadStillValid'
    BY <2>1, <2>2 DEF FindMovie, FindUser, Steps
  <2>5. CASE FindRecord(c)
    <3>1. seen'[c] = like[req[c].movie][UserOf[c]]
      BY <2>5 DEF FindRecord, TypeOK
    <3> QED  BY <2>1, <2>5, <3>1 DEF FindRecord, Steps, TypeOK
  <2>6. CASE ChangeRecord(c)
    <3>1. like[req[c].movie][UserOf[c]] \in {seen[c], "none"}
      BY <2>6 DEF ChangeRecord, RecordThere, ReadStillValid
    <3> QED  BY <2>1, <2>2, <2>6, <3>1 DEF ChangeRecord, RecordThere, Steps
  <2>7. CreateRecord(c) => ReadStillValid'
    BY <2>1, <2>2 DEF CreateRecord, ParentsThere, Steps
  <2>8. CASE UpdateCounters(c)
    <3>1. like[req[c].movie][UserOf[c]] = seen[c]
      BY <2>8 DEF UpdateCounters, ReadStillValid, HoldsRecord
    <3> QED  BY <2>1, <2>2, <2>8, <3>1 DEF UpdateCounters, Steps
  <2>9. CASE Commit(c)
    <3>1. /\ like' = [like EXCEPT ![req[c].movie][UserOf[c]] =
                                     After(seen[c], req[c].vote)]
          /\ pc' = [pc EXCEPT ![c] = "idle"]
          /\ seen' = [seen EXCEPT ![c] = "none"]
          /\ req' = req
      BY <2>9 DEF Commit, ReadBack
    \* Nobody else is about to write the row, or has written it.
    <3>2. \A d \in Clients \ {c} :
            pc[d] = "write" \/ HoldsRecord(d) => ~SameRow(c, d)
      <4>1. vars' # vars
        BY <2>9, <3>1 DEF Commit, vars, clientVars, TypeOK
      <4> QED  BY <2>9, <4>1 DEF CommitsUnread, LockInv, HoldsRecord, Commit
    <3>3. \A d \in Clients \ {c} :
            pc[d] = "write" \/ HoldsRecord(d) =>
              like'[req[d].movie][UserOf[d]] = like[req[d].movie][UserOf[d]]
      BY <3>1, <3>2 DEF SameRow, TypeOK
    <3> QED  BY <3>1, <3>3 DEF ReadStillValid, HoldsRecord, TypeOK
  <2>10. Timeout(c) \/ DeadlockVictim(c) => ReadStillValid'
    BY <2>2 DEF Timeout, DeadlockVictim
  <2> QED
    BY <1>2, <2>3, <2>4, <2>5, <2>6, <2>7, <2>8, <2>9, <2>10
       DEF ClientNext, ClientStep
<1>3. ASSUME NEW m \in Movies, RemoveNext(m) PROVE ReadStillValid'
  <2>1. RemoveMovie(m) \/ LockMovie(m) \/ RemoveFails(m) => ReadStillValid'
    BY <1>1 DEF RemoveMovie, LockMovie, RemoveFails, rowVars, clientVars
  <2>2. DeleteMovie(m) => ReadStillValid'
    BY DEF DeleteMovie, LikesFree, WithoutMovie, ReadStillValid, HoldsRecord, clientVars, TypeOK
  <2> QED  BY <1>3, <2>1, <2>2 DEF RemoveNext
<1>4. ASSUME NEW u \in Users, LeaveNext(u) PROVE ReadStillValid'
  <2>1. RemoveUser(u) \/ LockUser(u) \/ RemoveUserFails(u) => ReadStillValid'
    BY <1>1 DEF RemoveUser, LockUser, RemoveUserFails, rowVars, clientVars
  <2>2. DeleteUser(u) => ReadStillValid'
    BY DEF DeleteUser, LikesOfFree, ReadStillValid, HoldsRecord, clientVars, TypeOK
  <2> QED  BY <1>4, <2>1, <2>2 DEF LeaveNext
<1>5. CronNext => ReadStillValid'
  BY <1>1 DEF CronNext, StartRecount, RecountRow, FinishRecount, RecountFails,
              rowVars, clientVars
<1>6. UNCHANGED vars => ReadStillValid'
  BY <1>1 DEF vars, rowVars, clientVars
<1> QED  BY <1>2, <1>3, <1>4, <1>5, <1>6 DEF Next, DayNext

\* While no toggle commits between another one's read and write of the same
\* row, the branch chosen from the unlocked read is right when it is executed.
THEOREM ReadsStayValid ==
  Spec /\ [][CommitsUnread]_vars => []ReadStillValid
BY TypeInit, TypeNext, LockInit, LockNext, ReadInit, ReadNext, PTL DEF Spec

(***************************************************************************)
(* The counters.  What a step does to those of one movie comes first: it   *)
(* tells all that can make them drift, whatever the schedule.              *)
(***************************************************************************)
Exact(m) ==
  /\ likeCount[m] = Tally(like, m, "like")
  /\ dislikeCount[m] = Tally(like, m, "dislike")

LEMMA ExactIsExact == CountersExact <=> \A m \in Movies : Exact(m)
BY DEF CountersExact, Exact

LEMMA ExactInit == Init => CountersExact
<1> SUFFICES ASSUME Init, NEW m \in Movies
             PROVE  /\ likeCount[m] = Tally(like, m, "like")
                    /\ dislikeCount[m] = Tally(like, m, "dislike")
  BY DEF CountersExact
<1>1. like \in [Movies -> [Users -> Records]] /\ \A u \in Users : like[m][u] = "none"
  BY DEF Init, NoLikes, Records
<1>2. Tally(like, m, "like") = 0 /\ Tally(like, m, "dislike") = 0
  BY <1>1, TallyNone DEF Votes
<1> QED  BY <1>2 DEF Init


LEMMA KeptExact ==
  ASSUME NEW n \in Movies, Exact(n),
         like'[n] = like[n], likeCount'[n] = likeCount[n],
         dislikeCount'[n] = dislikeCount[n]
  PROVE  Exact(n)'
BY DEF Exact, Tally

LEMMA CommitKeepsExact ==
  ASSUME TypeOK, NEW c \in Clients, Commit(c), NEW n \in Movies, Exact(n),
         n = req[c].movie => seen[c] = like[n][UserOf[c]]
  PROVE  Exact(n)'
<1> DEFINE m == req[c].movie
           old == like[m][UserOf[c]]
           new == After(seen[c], req[c].vote)
<1>1. /\ like' = Changed(like, m, UserOf[c], new)
      /\ likeCount' = [likeCount EXCEPT
                         ![m] = @ + Delta("like", seen[c], req[c].vote)]
      /\ dislikeCount' = [dislikeCount EXCEPT
                            ![m] = @ + Delta("dislike", seen[c], req[c].vote)]
  BY DEF Commit, Changed
<1>2. m \in Movies /\ UserOf[c] \in Users /\ new \in Records
  BY DeltaIsChange DEF TypeOK, Votes
<1>3. CASE n # m
  <2>1. /\ like'[n] = like[n] /\ likeCount'[n] = likeCount[n]
        /\ dislikeCount'[n] = dislikeCount[n]
    BY <1>1, <1>2, <1>3 DEF Changed, TypeOK
  <2> QED  BY <2>1, KeptExact
<1>4. CASE n = m
  <2>1. ASSUME NEW kind \in Votes
        PROVE  Tally(like', m, kind) =
                 Tally(like, m, kind) + Delta(kind, seen[c], req[c].vote)
    <3>1. /\ Delta(kind, seen[c], req[c].vote) =
               (IF new = kind THEN 1 ELSE 0) - (IF old = kind THEN 1 ELSE 0)
      BY <1>4, DeltaIsChange DEF TypeOK
    <3>2. Tally(like, m, kind) \in Int
      BY TallyType
    <3>3. like \in [Movies -> [Users -> Records]]
      BY DEF TypeOK
    <3> HIDE DEF m, new
    <3>4. Tally(like', m, kind) =
            Tally(like, m, kind) + (IF new = kind THEN 1 ELSE 0)
                                 - (IF like[m][UserOf[c]] = kind THEN 1 ELSE 0)
      BY <1>1, <1>2, <2>1, <3>3, TallyChange
    <3> QED  BY <3>1, <3>2, <3>4
  <2>2. "like" \in Votes /\ "dislike" \in Votes
    BY DEF Votes
  <2> HIDE DEF m, old, new
  <2>3. /\ Tally(like', m, "like") =
             Tally(like, m, "like") + Delta("like", seen[c], req[c].vote)
        /\ Tally(like', m, "dislike") =
             Tally(like, m, "dislike") + Delta("dislike", seen[c], req[c].vote)
    BY <2>1, <2>2
  <2>4. Exact(m)
    BY <1>4
  <2>5. /\ likeCount'[m] = Tally(like', m, "like")
        /\ dislikeCount'[m] = Tally(like', m, "dislike")
    BY <1>1, <1>2, <2>3, <2>4 DEF Exact, TypeOK
  <2> QED  BY <1>4, <2>5 DEF Exact, Tally
<1> QED  BY <1>3, <1>4

LEMMA DeleteMovieKeepsExact ==
  ASSUME TypeOK, NEW m \in Movies, DeleteMovie(m), NEW n \in Movies, Exact(n)
  PROVE  Exact(n)'
<1>1. /\ like' = [like EXCEPT ![m] = [u \in Users |-> "none"]]
      /\ likeCount' = [likeCount EXCEPT ![m] = 0]
      /\ dislikeCount' = [dislikeCount EXCEPT ![m] = 0]
  BY DEF DeleteMovie, WithoutMovie
<1>2. CASE n # m
  <2>1. /\ like'[n] = like[n] /\ likeCount'[n] = likeCount[n]
        /\ dislikeCount'[n] = dislikeCount[n]
    BY <1>1, <1>2 DEF TypeOK
  <2> QED  BY <2>1, KeptExact
<1>3. CASE n = m
  <2>1. like' \in [Movies -> [Users -> Records]]
    BY <1>1 DEF TypeOK, Records
  <2>2. \A u \in Users : like'[n][u] = "none"
    BY <1>1, <1>3 DEF TypeOK
  <2>3. Tally(like', n, "like") = 0 /\ Tally(like', n, "dislike") = 0
    BY <2>1, <2>2, TallyNone DEF Votes
  <2>4. likeCount'[n] = 0 /\ dislikeCount'[n] = 0
    BY <1>1, <1>3 DEF TypeOK
  <2> QED  BY <2>3, <2>4 DEF Exact, Tally
<1> QED  BY <1>2, <1>3

\* The column a recount has updated and the one it has left alone.
LEMMA RecountKeepsExact ==
  ASSUME TypeOK, FinishRecount, NEW n \in Movies, Exact(n),
         n \in held => snapshot[n] = like[n]
  PROVE  Exact(n)'
<1>1. like' = like
  BY DEF FinishRecount
<1>2. ASSUME n \in held, NEW kind
      PROVE  Tally(snapshot, n, kind) = Tally(like, n, kind)
  BY <1>2 DEF Tally
<1>3. /\ likeCount'[n] \in {likeCount[n], Tally(like, n, "like")}
      /\ dislikeCount'[n] \in {dislikeCount[n], Tally(like, n, "dislike")}
  <2>1. ASSUME NEW column, NEW kind
        PROVE  Recounted(column, kind)[n] \in {column[n], Tally(like, n, kind)}
    BY <1>2 DEF Recounted
  <2> QED  BY <2>1 DEF FinishRecount
<1> QED  BY <1>1, <1>3 DEF Exact, Tally

LEMMA DeleteUserKeepsExact ==
  ASSUME TypeOK, NEW u \in Users, DeleteUser(u), NEW n \in Movies, Exact(n),
         like[n][u] = "none"
  PROVE  Exact(n)'
<1>1. likeCount' = likeCount /\ dislikeCount' = dislikeCount
  BY DEF DeleteUser
<1>2. like'[n] = [like[n] EXCEPT ![u] = "none"]
  BY DEF DeleteUser, TypeOK
<1>3. like'[n] = like[n]
  BY <1>2 DEF TypeOK
<1> QED  BY <1>1, <1>3, KeptExact

\* The steps that change rows.
LEMMA RowSteps ==
  ASSUME [Next]_vars
  PROVE  \/ UNCHANGED rowVars
         \/ \E c \in Clients : Commit(c)
         \/ \E m \in Movies : DeleteMovie(m)
         \/ \E u \in Users : DeleteUser(u)
         \/ FinishRecount
<1>1. ASSUME NEW c \in Clients, ClientNext(c)
      PROVE  UNCHANGED rowVars \/ Commit(c)
  BY <1>1
     DEF ClientNext, ClientStep, Toggle, FindMovie, FindUser, FindRecord,
         ChangeRecord, RecordThere, CreateRecord, UpdateCounters, Timeout, DeadlockVictim,
         Fail, Goto
<1>2. ASSUME NEW m \in Movies, RemoveNext(m)
      PROVE  UNCHANGED rowVars \/ DeleteMovie(m)
  BY <1>2 DEF RemoveNext, RemoveMovie, LockMovie, RemoveFails
<1>3. ASSUME NEW u \in Users, LeaveNext(u)
      PROVE  UNCHANGED rowVars \/ DeleteUser(u)
  BY <1>3 DEF LeaveNext, RemoveUser, LockUser, RemoveUserFails
<1>4. CronNext => UNCHANGED rowVars \/ FinishRecount
  BY DEF CronNext, StartRecount, RecountRow, RecountFails
<1>5. UNCHANGED vars => UNCHANGED rowVars
  BY DEF vars
<1> QED  BY <1>1, <1>2, <1>3, <1>4, <1>5 DEF Next, DayNext

\* All that makes the counters of m drift: a toggle that commits on a row which
\* is no longer as it read it, the cascade of an account's removal, and the
\* recount itself, which undoes the votes committed since its snapshot.
Drifts(m) ==
  \/ \E c \in Clients : /\ Commit(c) /\ req[c].movie = m
                        /\ seen[c] # like[m][UserOf[c]]
  \/ \E u \in Users : DeleteUser(u) /\ like[m][u] # "none"
  \/ FinishRecount /\ m \in held /\ snapshot[m] # like[m]

DriftHasCause == \A m \in Movies : Exact(m) /\ ~Exact(m)' => Drifts(m)

LEMMA DriftNow == TypeOK /\ [Next]_vars => DriftHasCause
<1> SUFFICES ASSUME TypeOK, [Next]_vars, NEW n \in Movies, Exact(n), ~Drifts(n)
             PROVE  Exact(n)'
  BY DEF DriftHasCause
<1>1. CASE UNCHANGED rowVars
  BY <1>1, KeptExact DEF rowVars
<1>2. ASSUME NEW c \in Clients, Commit(c) PROVE Exact(n)'
  BY <1>2, CommitKeepsExact DEF Drifts
<1>3. ASSUME NEW m \in Movies, DeleteMovie(m) PROVE Exact(n)'
  BY <1>3, DeleteMovieKeepsExact
<1>4. ASSUME NEW u \in Users, DeleteUser(u) PROVE Exact(n)'
  BY <1>4, DeleteUserKeepsExact DEF Drifts
<1>5. CASE FinishRecount
  BY <1>5, RecountKeepsExact DEF Drifts
<1> QED  BY <1>1, <1>2, <1>3, <1>4, <1>5, RowSteps

\* Whatever the schedule, a movie's counters that were right become wrong in
\* one of these three ways only.
THEOREM DriftsHaveCause == Spec => [][DriftHasCause]_vars
BY TypeInit, TypeNext, DriftNow, PTL DEF Spec

\* The movies of a recount, and those that are gone.
RecountInv ==
  /\ cron \in {"like", "dislike"} => movies \subseteq todo \cup held
  /\ \A m \in held : m \in movies /\ removing[m] # "locked"
  /\ \A m \in Movies \ movies : likeCount[m] = 0 /\ dislikeCount[m] = 0

LEMMA RecountInit == Init => RecountInv
BY DEF Init, RecountInv

LEMMA RecountNext == TypeOK /\ RowInv /\ RecountInv /\ [Next]_vars => RecountInv'
<1> SUFFICES ASSUME TypeOK, RowInv, RecountInv, [Next]_vars PROVE RecountInv'
  OBVIOUS
<1>1. ASSUME UNCHANGED <<movies, removing, likeCount, dislikeCount, cron, todo, held>>
      PROVE  RecountInv'
  BY <1>1 DEF RecountInv
<1>2. ASSUME NEW c \in Clients, ClientNext(c) PROVE RecountInv'
  <2>1. CASE Commit(c)
    <3>1. req[c].movie \in movies
      BY <2>1 DEF Commit, RowInv, CountersHaveRow, HoldsRecord
    <3> QED  BY <2>1, <3>1 DEF Commit, cronVars, RecountInv, TypeOK
  <2>2. CASE ~Commit(c)
    BY <1>1, <1>2, <2>2
       DEF ClientNext, ClientStep, Toggle, FindMovie, FindUser, FindRecord,
           ChangeRecord, RecordThere, CreateRecord, UpdateCounters, Timeout, DeadlockVictim,
           Fail, Goto, rowVars, cronVars
  <2> QED  BY <2>1, <2>2
<1>3. ASSUME NEW m \in Movies, RemoveNext(m) PROVE RecountInv'
  <2>1. RemoveMovie(m) \/ LockMovie(m) \/ RemoveFails(m) => RecountInv'
    BY DEF RemoveMovie, LockMovie, RemoveFails, rowVars, cronVars, RecountInv, TypeOK
  <2>2. DeleteMovie(m) => RecountInv'
    BY DEF DeleteMovie, cronVars, RecountInv, TypeOK
  <2> QED  BY <1>3, <2>1, <2>2 DEF RemoveNext
<1>4. ASSUME NEW u \in Users, LeaveNext(u) PROVE RecountInv'
  BY <1>1, <1>4 DEF LeaveNext, RemoveUser, LockUser, DeleteUser, RemoveUserFails,
                    rowVars, cronVars
<1>5. ASSUME CronNext PROVE RecountInv'
  <2>1. StartRecount \/ RecountFails => RecountInv'
    BY DEF StartRecount, RecountFails, rowVars, RecountInv
  <2>2. ASSUME NEW m \in Movies, RecountRow(m) PROVE RecountInv'
    BY <2>2 DEF RecountRow, rowVars, RecountInv
  <2>3. CASE FinishRecount
    <3>1. ASSUME NEW m \in Movies \ movies
          PROVE  likeCount'[m] = likeCount[m] /\ dislikeCount'[m] = dislikeCount[m]
      <4>1. m \notin held
        BY DEF RecountInv
      <4> QED  BY <2>3, <4>1 DEF FinishRecount, Recounted
    <3> QED  BY <2>3, <3>1 DEF FinishRecount, RecountInv
  <2> QED  BY <1>5, <2>1, <2>2, <2>3 DEF CronNext
<1>6. UNCHANGED vars => RecountInv'
  BY <1>1 DEF vars, rowVars, cronVars
<1> QED  BY <1>2, <1>3, <1>4, <1>5, <1>6 DEF Next, DayNext

\* The UPDATE leaves its column right for every movie whose votes are those of
\* its snapshot.
Repairs ==
  FinishRecount => \A m \in Movies : snapshot[m] = like[m] =>
    IF cron = "like" THEN likeCount'[m] = Tally(like', m, "like")
                     ELSE dislikeCount'[m] = Tally(like', m, "dislike")

LEMMA RepairsNow == TypeOK /\ RowInv /\ RecountInv => Repairs
<1> SUFFICES ASSUME TypeOK, RowInv, RecountInv, FinishRecount, NEW m \in Movies,
                    snapshot[m] = like[m]
             PROVE  IF cron = "like" THEN likeCount'[m] = Tally(like', m, "like")
                                     ELSE dislikeCount'[m] = Tally(like', m, "dislike")
  BY DEF Repairs
<1>1. like' = like /\ todo = {} /\ movies \subseteq held
  BY DEF FinishRecount, RecountInv
<1>2. \/ cron = "like" /\ likeCount' = Recounted(likeCount, "like")
      \/ cron = "dislike" /\ dislikeCount' = Recounted(dislikeCount, "dislike")
  BY DEF FinishRecount
<1>3. \A kind : Tally(snapshot, m, kind) = Tally(like', m, kind)
  BY <1>1 DEF Tally
<1>4. CASE m \in held
  BY <1>2, <1>3, <1>4 DEF Recounted
<1>5. CASE m \notin held
  <2>1. likeCount[m] = 0 /\ dislikeCount[m] = 0
    BY <1>1, <1>5 DEF RecountInv
  <2>2. \A u \in Users : like[m][u] = "none"
    BY <1>1, <1>5 DEF RowInv, Referential
  <2>3. Tally(like, m, "like") = 0 /\ Tally(like, m, "dislike") = 0
    BY <2>2, TallyNone DEF TypeOK, Votes
  <2>4. Tally(like', m, "like") = 0 /\ Tally(like', m, "dislike") = 0
    BY <1>1, <2>3 DEF Tally
  <2> QED  BY <1>2, <1>5, <2>1, <2>4 DEF Recounted
<1> QED  BY <1>4, <1>5

\* Whatever made a counter of a movie drift, the recount repairs it, unless a
\* vote of that movie is committed, or taken away, while its UPDATE is under way.
THEOREM RecountRepairs == Spec => [][Repairs]_vars
<1> DEFINE Inv == TypeOK /\ RowInv /\ RecountInv
<1>1. Init => Inv
  BY TypeInit, RowInit, RecountInit
<1>2. Inv /\ [Next]_vars => Inv'
  BY TypeNext, RowNext, RecountNext
<1>3. Inv => Repairs
  BY RepairsNow
<1> QED  BY <1>1, <1>2, <1>3, PTL DEF Spec

LEMMA ExactNext ==
  TypeOK /\ ReadStillValid /\ CountersExact /\ [DayNext]_vars => CountersExact'
<1> SUFFICES ASSUME TypeOK, ReadStillValid, \A m \in Movies : Exact(m),
                    [DayNext]_vars, NEW n \in Movies
             PROVE  Exact(n)'
  BY DEF CountersExact, Exact
<1>1. CASE UNCHANGED rowVars
  BY <1>1, KeptExact DEF rowVars
<1>2. ASSUME NEW c \in Clients, Commit(c) PROVE Exact(n)'
  BY <1>2, CommitKeepsExact DEF ReadStillValid, HoldsRecord, Commit
<1>3. ASSUME NEW m \in Movies, DeleteMovie(m) PROVE Exact(n)'
  BY <1>3, DeleteMovieKeepsExact
<1>4. \A c \in Clients : ClientNext(c) => UNCHANGED rowVars \/ Commit(c)
  BY DEF ClientNext, ClientStep, Toggle, FindMovie, FindUser, FindRecord,
         ChangeRecord, RecordThere, CreateRecord, UpdateCounters, Timeout, DeadlockVictim,
         Fail, Goto
<1>5. \A m \in Movies : RemoveNext(m) => UNCHANGED rowVars \/ DeleteMovie(m)
  BY DEF RemoveNext, RemoveMovie, LockMovie, RemoveFails
<1> QED  BY <1>1, <1>2, <1>3, <1>4, <1>5 DEF DayNext, vars

\* No interleaving of toggles and movie removals makes a counter differ from
\* the like rows it counts, while none commits between another one's read and
\* write of the same row.
THEOREM CountersStayExact ==
  DaySpec /\ [][CommitsUnread]_vars => []CountersExact
<1>1. [DayNext]_vars => [Next]_vars
  BY DEF Next
<1> QED
  BY <1>1, TypeInit, TypeNext, LockInit, LockNext, ReadInit, ReadNext,
     ExactInit, ExactNext, PTL DEF DaySpec
(***************************************************************************)
(* The toggles implement the ledger: Commit is a vote, the deletion of a   *)
(* movie is its removal, and every other step changes nothing of it.       *)
(***************************************************************************)
\* The movie a removal is under way for is still there.
RemovalInv == \A m \in Movies : removing[m] # "no" => m \in movies

LEMMA RemovalInit == Init => RemovalInv
BY DEF Init, RemovalInv

LEMMA RemovalNext == TypeOK /\ RemovalInv /\ [Next]_vars => RemovalInv'
<1> SUFFICES ASSUME TypeOK, RemovalInv, [Next]_vars PROVE RemovalInv'
  OBVIOUS
<1>1. UNCHANGED <<movies, removing>> => RemovalInv'
  BY DEF RemovalInv
<1>2. ASSUME NEW c \in Clients, ClientNext(c) PROVE RemovalInv'
  BY <1>1, <1>2
     DEF ClientNext, ClientStep, Toggle, FindMovie, FindUser, FindRecord,
         ChangeRecord, RecordThere, CreateRecord, ParentsThere, UpdateCounters, Commit, ReadBack, Timeout,
         DeadlockVictim, Fail, Goto, rowVars
<1>3. ASSUME NEW m \in Movies, RemoveNext(m) PROVE RemovalInv'
  BY <1>3 DEF RemoveNext, RemoveMovie, LockMovie, DeleteMovie, LikesFree, WithoutMovie, RemoveFails,
              rowVars, RemovalInv, TypeOK
<1>4. ASSUME NEW u \in Users, LeaveNext(u) PROVE RemovalInv'
  BY <1>1, <1>4
     DEF LeaveNext, RemoveUser, LockUser, DeleteUser, LikesOfFree, RemoveUserFails, rowVars
<1>5. CronNext => RemovalInv'
  BY <1>1 DEF CronNext, StartRecount, RecountRow, FinishRecount, RecountFails,
              rowVars
<1>6. UNCHANGED vars => RemovalInv'
  BY <1>1 DEF vars, rowVars
<1> QED  BY <1>2, <1>3, <1>4, <1>5, <1>6 DEF Next, DayNext

LEMMA LedgerInit == Init => Ledger!Init
BY DEF Init, NoLikes, Ledger!Init

LEMMA LedgerNext ==
  /\ TypeOK /\ RowInv /\ RemovalInv /\ ReadStillValid /\ CountersExact'
  /\ [DayNext]_vars
  => [Ledger!Next]_(Ledger!ledger)
<1> SUFFICES ASSUME TypeOK, RowInv, RemovalInv, ReadStillValid, CountersExact',
                    [DayNext]_vars
             PROVE  [Ledger!Next]_(Ledger!ledger)
  OBVIOUS
<1>1. \A m \in Movies :
        /\ likeCount'[m] = Ledger!NumberOf(like', m, "like")
        /\ dislikeCount'[m] = Ledger!NumberOf(like', m, "dislike")
  <2>1. \A table, m, kind :
          Ledger!NumberOf(table, m, kind) = Tally(table, m, kind)
    BY DEF Tally, Ledger!NumberOf, Cardinality, Ledger!Cardinality
  <2>2. \A m \in Movies :
          /\ likeCount'[m] = Tally(like', m, "like")
          /\ dislikeCount'[m] = Tally(like', m, "dislike")
    BY DEF CountersExact, Tally
  <2> QED  BY <2>1, <2>2
<1>2. ASSUME NEW c \in Clients, Commit(c) PROVE Ledger!Next
  <2> DEFINE m == req[c].movie
             u == UserOf[c]
             vote == req[c].vote
  <2>1. m \in movies /\ m \in Movies /\ u \in Users /\ vote \in Votes
    BY <1>2 DEF Commit, ReadBack, RowInv, CountersHaveRow, HoldsRecord, TypeOK
  <2>2. seen[c] = like[m][u]
    BY <1>2 DEF Commit, ReadBack, ReadStillValid, HoldsRecord
  <2>3. like' = [like EXCEPT ![m][u] = IF @ = vote THEN "none" ELSE vote]
    BY <1>2, <2>2 DEF Commit, ReadBack, After
  <2>4. /\ likeCount' = [likeCount EXCEPT ![m] = likeCount'[m]]
        /\ dislikeCount' = [dislikeCount EXCEPT ![m] = dislikeCount'[m]]
    BY <1>2, <2>1 DEF Commit, ReadBack, TypeOK
  <2>5. movies' = movies
    BY <1>2 DEF Commit, ReadBack
  <2> HIDE DEF m, u, vote
  <2>6. Ledger!Counted(m, [like EXCEPT ![m][u] =
                                     IF @ = vote THEN "none" ELSE vote])
    BY <1>1, <2>1, <2>3, <2>4 DEF Ledger!Counted
  <2>7. Ledger!Vote(m, u, vote)
    BY <2>1, <2>5, <2>6 DEF Ledger!Vote
  <2> QED  BY <2>1, <2>7 DEF Ledger!Next, Votes
<1>3. ASSUME NEW m \in Movies, DeleteMovie(m) PROVE Ledger!Next
  <2>1. m \in movies
    BY <1>3 DEF DeleteMovie, LikesFree, WithoutMovie, RemovalInv
  <2>2. /\ like' = [like EXCEPT ![m] = [u \in Users |-> "none"]]
        /\ movies' = movies \ {m}
        /\ likeCount' = [likeCount EXCEPT ![m] = likeCount'[m]]
        /\ dislikeCount' = [dislikeCount EXCEPT ![m] = dislikeCount'[m]]
    BY <1>3 DEF DeleteMovie, LikesFree, WithoutMovie, TypeOK
  <2>3. Ledger!Counted(m, [like EXCEPT ![m] = [u \in Users |-> "none"]])
    BY <1>1, <2>2 DEF Ledger!Counted
  <2>4. Ledger!Remove(m)
    BY <2>1, <2>2, <2>3 DEF Ledger!Remove
  <2> QED  BY <2>4 DEF Ledger!Next
<1>4. \A c \in Clients : ClientNext(c) => UNCHANGED rowVars \/ Commit(c)
  BY DEF ClientNext, ClientStep, Toggle, FindMovie, FindUser, FindRecord,
         ChangeRecord, RecordThere, CreateRecord, ParentsThere, UpdateCounters, Timeout, DeadlockVictim,
         Fail, Goto
<1>5. \A m \in Movies : RemoveNext(m) => UNCHANGED rowVars \/ DeleteMovie(m)
  BY DEF RemoveNext, RemoveMovie, LockMovie, RemoveFails
<1>6. UNCHANGED rowVars => UNCHANGED Ledger!ledger
  BY DEF rowVars, Ledger!ledger
<1> QED  BY <1>2, <1>3, <1>4, <1>5, <1>6 DEF DayNext, vars

\* On a day without recount or account removal, while no toggle commits between
\* another one's read and write of the same row, the statements of the toggles
\* and removals, interleaved in any way, show nothing a reader could not see of
\* one-step votes.
THEOREM TogglesImplementLedger ==
  DaySpec /\ [][CommitsUnread]_vars => LedgerSpec
<1>1. [DayNext]_vars => [Next]_vars
  BY DEF Next
<1> DEFINE Inv == /\ TypeOK /\ RowInv /\ RemovalInv /\ LockInv /\ ReadStillValid
                  /\ CountersExact
<1>2. Init => Inv
  BY TypeInit, RowInit, RemovalInit, LockInit, ReadInit, ExactInit
<1>3. Inv /\ [DayNext]_vars /\ [CommitsUnread]_vars => Inv'
  BY <1>1, TypeNext, RowNext, RemovalNext, LockNext, ReadNext, ExactNext
<1> QED
  BY <1>2, <1>3, LedgerInit, LedgerNext, PTL DEF DaySpec, LedgerSpec, Ledger!Spec

\* When every user has one tab, nothing has to be assumed of the schedule: the
\* instance MCMovieLikes_day for any movies, users and number of toggles.
THEOREM OneTabIsEnough ==
  ASSUME OneTabPerUser
  PROVE  /\ Spec => []ReadStillValid
         /\ DaySpec => []CountersExact
         /\ DaySpec => LedgerSpec
<1>1. [CommitsUnread]_vars
  BY OneTabCommitsUnread
<1>2. [][CommitsUnread]_vars
  BY <1>1, PTL
<1> QED  BY <1>2, ReadsStayValid, CountersStayExact, TogglesImplementLedger

(***************************************************************************)
(* Answers.                                                                *)
(***************************************************************************)
LEMMA ToldInit == Init => ToldIsStored
BY DEF Init, ToldIsStored, NoLikes

LEMMA ToldNext ==
  ASSUME OneTabPerUser
  PROVE  TypeOK /\ ToldIsStored /\ [Next]_vars => ToldIsStored'
<1> SUFFICES ASSUME TypeOK, ToldIsStored, [Next]_vars PROVE ToldIsStored'
  OBVIOUS
<1>1. UNCHANGED <<movies, users, like, told>> => ToldIsStored'
  BY DEF ToldIsStored
<1>2. ASSUME NEW c \in Clients, ClientNext(c) PROVE ToldIsStored'
  <2>1. ASSUME NEW m \in Movies, NEW vote \in Votes, Toggle(c, m, vote)
        PROVE  ToldIsStored'
    BY <2>1 DEF Toggle, rowVars, ToldIsStored, TypeOK
  <2>2. CASE Commit(c)
    <3> DEFINE m == req[c].movie
               r == After(seen[c], req[c].vote)
    <3>1. /\ like' = [like EXCEPT ![m][UserOf[c]] = r]
          /\ UNCHANGED <<movies, users>>
      BY <2>2 DEF Commit, ReadBack
    <3>2. PICK answer \in {r, "unknown"} :
            told' = [told EXCEPT ![c][m] = answer]
      BY <2>2 DEF Commit, ReadBack
    <3>3. \A d \in Clients \ {c} : UserOf[d] # UserOf[c]
      BY DEF OneTabPerUser
    <3> HIDE DEF r
    <3> QED  BY <3>1, <3>2, <3>3 DEF ToldIsStored, TypeOK
  <2>3. UNCHANGED <<movies, users, like, told>>
          \/ Commit(c) \/ \E m \in Movies, vote \in Votes : Toggle(c, m, vote)
    BY <1>2 DEF ClientNext, ClientStep, FindMovie, FindUser, FindRecord,
                ChangeRecord, RecordThere, CreateRecord, ParentsThere, UpdateCounters, Timeout,
                DeadlockVictim, Fail, Goto, rowVars
  <2> QED  BY <1>1, <2>1, <2>2, <2>3
<1>3. ASSUME NEW m \in Movies, RemoveNext(m) PROVE ToldIsStored'
  <2>1. DeleteMovie(m) => ToldIsStored'
    BY DEF DeleteMovie, LikesFree, WithoutMovie, clientVars, ToldIsStored, TypeOK
  <2> QED  BY <1>1, <1>3, <2>1 DEF RemoveNext, RemoveMovie, LockMovie,
                                   RemoveFails, rowVars, clientVars
<1>4. ASSUME NEW u \in Users, LeaveNext(u) PROVE ToldIsStored'
  <2>1. DeleteUser(u) => ToldIsStored'
    BY DEF DeleteUser, LikesOfFree, clientVars, ToldIsStored, TypeOK
  <2> QED  BY <1>1, <1>4, <2>1 DEF LeaveNext, RemoveUser, LockUser,
                                   RemoveUserFails, rowVars, clientVars
<1>5. CronNext => ToldIsStored'
  BY <1>1 DEF CronNext, StartRecount, RecountRow, FinishRecount, RecountFails,
              rowVars, clientVars
<1>6. UNCHANGED vars => ToldIsStored'
  BY <1>1 DEF vars, rowVars, clientVars
<1> QED  BY <1>2, <1>3, <1>4, <1>5, <1>6 DEF Next, DayNext

\* A client with no request in flight that was answered, and whose movie and
\* user still exist, has the vote it was told, whatever the others do.
THEOREM AnswersHold ==
  ASSUME OneTabPerUser
  PROVE  Spec => []ToldIsStored
BY TypeInit, TypeNext, ToldInit, ToldNext, PTL DEF Spec

(***************************************************************************)
(* Waiting.  That every toggle ends takes fairness and is left to TLC; that *)
(* the locks leave somebody who can go on, without any timeout, is proved   *)
(* here.  A transaction in flight is a pair of its kind and of whose it is; *)
(* Goes is the guard of the step it is at, and s holds up t when it has a   *)
(* lock that guard waits for.                                               *)
(***************************************************************************)
Active ==
  {<<"toggle", c>> : c \in {d \in Clients : pc[d] # "idle"}}
    \cup {<<"removal", m>> : m \in {n \in Movies : removing[n] # "no"}}
    \cup {<<"leaving", u>> : u \in {v \in Users : leaving[v] # "no"}}
    \cup {<<"recount", w>> : w \in {x \in {cron} : x # "idle"}}

ToggleGoes(c) ==
  \/ pc[c] \in {"movie", "user", "record", "commit"}
  \/ /\ pc[c] = "write" /\ RecordFree(c)
     /\ seen[c] = "none" => /\ removing[req[c].movie] # "locked"
                            /\ leaving[UserOf[c]] # "locked"
  \/ /\ pc[c] = "count" /\ CountersFree(req[c].movie)
     /\ removing[req[c].movie] # "locked"
     /\ req[c].movie \notin held
  \/ Deadlocked(c)

RemovalGoes(m) ==
  \/ /\ removing[m] = "read" /\ CountersFree(m) /\ m \notin held
     /\ \A c \in Clients : HoldsKeys(c) => req[c].movie # m
  \/ removing[m] = "locked" /\ LikesFree(m)

LeavingGoes(u) ==
  \/ leaving[u] = "read" /\ \A c \in Clients : HoldsKeys(c) => UserOf[c] # u
  \/ leaving[u] = "locked" /\ LikesOfFree(u)

RecountGoes ==
  \/ cron = "between" \/ todo = {}
  \/ \E m \in todo : CountersFree(m) /\ removing[m] # "locked"

Goes(t) ==
  \/ t[1] = "toggle"  /\ ToggleGoes(t[2])
  \/ t[1] = "removal" /\ RemovalGoes(t[2])
  \/ t[1] = "leaving" /\ LeavingGoes(t[2])
  \/ t[1] = "recount" /\ RecountGoes

\* The locks of a toggle d that t waits for.
ToggleHoldsUp(d, t) ==
  \/ /\ t[1] = "toggle" /\ pc[t[2]] = "write"
     /\ d # t[2] /\ HoldsRecord(d) /\ SameRow(d, t[2])
  \/ /\ t[1] = "toggle" /\ pc[t[2]] = "count"
     /\ HoldsMovie(d) /\ req[d].movie = req[t[2]].movie
  \/ /\ t[1] = "removal" /\ req[d].movie = t[2]
     /\ IF removing[t[2]] = "locked" THEN HoldsRecord(d)
                                     ELSE HoldsMovie(d) \/ HoldsKeys(d)
  \/ /\ t[1] = "leaving" /\ UserOf[d] = t[2]
     /\ IF leaving[t[2]] = "locked" THEN HoldsRecord(d) ELSE HoldsKeys(d)
  \/ t[1] = "recount" /\ HoldsMovie(d) /\ req[d].movie \in todo

\* Those of the removal of a movie, of an account, and of the recount.
RemovalHoldsUp(m, t) ==
  /\ removing[m] = "locked"
  /\ \/ /\ t[1] = "toggle" /\ req[t[2]].movie = m
        /\ pc[t[2]] = "count" \/ (pc[t[2]] = "write" /\ seen[t[2]] = "none")
     \/ t[1] = "recount" /\ m \in todo

LeavingHoldsUp(u, t) ==
  /\ leaving[u] = "locked" /\ t[1] = "toggle" /\ UserOf[t[2]] = u
  /\ pc[t[2]] = "write" /\ seen[t[2]] = "none"

RecountHoldsUp(t) ==
  \/ t[1] = "toggle" /\ pc[t[2]] = "count" /\ req[t[2]].movie \in held
  \/ t[1] = "removal" /\ removing[t[2]] = "read" /\ t[2] \in held

HoldsUp(s, t) ==
  \/ s[1] = "toggle"  /\ ToggleHoldsUp(s[2], t)
  \/ s[1] = "removal" /\ RemovalHoldsUp(s[2], t)
  \/ s[1] = "leaving" /\ LeavingHoldsUp(s[2], t)
  \/ s[1] = "recount" /\ RecountHoldsUp(t)

\* Whoever starts with some waiting transactions and looks at what holds up
\* each of them, and what holds up that, finds one that goes on: no set of
\* waiting transactions holds up itself.  A toggle and the removal of its movie
\* may, and PostgreSQL ends it with the toggle (Deadlocked).
WaitsEnd ==
  \A W \in SUBSET Active :
    /\ W # {}
    /\ \A t \in W, s \in Active : ~Goes(t) /\ HoldsUp(s, t) => s \in W
    => \E t \in W : Goes(t)

\* Neither a lock nor a row to come outlives a statement of the recount.
CronInv == cron \in {"idle", "between"} => held = {} /\ todo = {}

LEMMA CronInit == Init => CronInv
BY DEF Init, CronInv

LEMMA CronKept == CronInv /\ [Next]_vars => CronInv'
<1> SUFFICES ASSUME CronInv, [Next]_vars PROVE CronInv'
  OBVIOUS
<1>1. CASE CronNext
  BY <1>1 DEF CronNext, StartRecount, RecountRow, FinishRecount, RecountFails, CronInv
<1>2. ASSUME \/ \E c \in Clients : ClientNext(c)
             \/ \E m \in Movies : RemoveNext(m)
             \/ \E u \in Users : LeaveNext(u)
             \/ UNCHANGED vars
      PROVE  UNCHANGED <<cron, held, todo>>
  BY <1>2 DEF ClientNext, ClientStep, Toggle, FindMovie, FindUser, FindRecord,
       ChangeRecord, RecordThere, CreateRecord, UpdateCounters, Commit, Timeout,
       DeadlockVictim, Fail, Goto, RemoveNext, RemoveMovie, LockMovie,
       DeleteMovie, RemoveFails, LeaveNext, RemoveUser, LockUser, DeleteUser,
       RemoveUserFails, vars, cronVars
<1> QED  BY <1>1, <1>2 DEF Next, DayNext, CronInv

\* The order in which locks are waited for.
Level(t) ==
  CASE t[1] = "toggle"  -> IF pc[t[2]] = "commit" \/ Deadlocked(t[2]) THEN 0
                           ELSE IF pc[t[2]] = "count" THEN 3 ELSE 5
    [] t[1] = "removal" -> IF removing[t[2]] = "locked" THEN 1 ELSE 5
    [] t[1] = "leaving" -> IF leaving[t[2]] = "locked" THEN 4 ELSE 5
    [] t[1] = "recount" -> 2

LEMMA LevelType ==
  ASSUME NEW t \in Active
  PROVE  Level(t) \in 0 .. 5
BY DEF Level, Active

\* Who cannot go on waits for a lock of somebody further down.
LEMMA HolderBelow ==
  ASSUME TypeOK, CronInv, NEW t \in Active, ~Goes(t)
  PROVE  \E s \in Active : HoldsUp(s, t) /\ Level(s) < Level(t)
<1> USE DEF TypeOK
<1>1. \A d \in Clients : HoldsRecord(d) =>
        /\ <<"toggle", d>> \in Active
        /\ Level(<<"toggle", d>>) \in {0, 3}
        /\ HoldsMovie(d) => Level(<<"toggle", d>>) = 0
  BY DEF HoldsRecord, HoldsMovie, Active, Level
<1>2. \A m \in Movies : removing[m] = "locked" =>
        <<"removal", m>> \in Active /\ Level(<<"removal", m>>) = 1
  BY DEF Active, Level
<1>3. \A u \in Users : leaving[u] = "locked" =>
        <<"leaving", u>> \in Active /\ Level(<<"leaving", u>>) = 4
  BY DEF Active, Level
<1>4. held # {} => <<"recount", cron>> \in Active /\ Level(<<"recount", cron>>) = 2
  BY DEF Active, Level, CronInv
<1>5. \A d \in Clients : HoldsMovie(d) \/ HoldsKeys(d) => HoldsRecord(d)
  BY DEF HoldsMovie, HoldsKeys, HoldsRecord
<1>6. ASSUME NEW c \in Clients, t = <<"toggle", c>>, pc[c] = "write"
      PROVE  \E s \in Active : HoldsUp(s, t) /\ Level(s) < Level(t)
  <2>1. Level(t) = 5
    BY <1>6 DEF Level, Deadlocked
  <2>2. CASE ~RecordFree(c)
    <3>1. PICK d \in Clients \ {c} : HoldsRecord(d) /\ SameRow(d, c)
      BY <2>2 DEF RecordFree, SameRow
    <3> DEFINE s == <<"toggle", d>>
    <3>2. HoldsUp(s, t)
      BY <1>6, <3>1 DEF HoldsUp, ToggleHoldsUp
    <3>3. s \in Active /\ Level(s) \in {0, 3}
      BY <1>1, <3>1
    <3> HIDE DEF s
    <3> QED  BY <2>1, <3>2, <3>3
  <2>3. CASE seen[c] = "none" /\ removing[req[c].movie] = "locked"
    <3> DEFINE s == <<"removal", req[c].movie>>
    <3>1. HoldsUp(s, t)
      BY <1>6, <2>3 DEF HoldsUp, RemovalHoldsUp
    <3> QED  BY <1>2, <2>1, <2>3, <3>1
  <2>4. CASE seen[c] = "none" /\ leaving[UserOf[c]] = "locked"
    <3> DEFINE s == <<"leaving", UserOf[c]>>
    <3>1. HoldsUp(s, t)
      BY <1>6, <2>4 DEF HoldsUp, LeavingHoldsUp
    <3> QED  BY <1>3, <2>1, <2>4, <3>1
  <2> QED  BY <1>6, <2>2, <2>3, <2>4 DEF Goes, ToggleGoes
<1>7. ASSUME NEW c \in Clients, t = <<"toggle", c>>, pc[c] = "count"
      PROVE  \E s \in Active : HoldsUp(s, t) /\ Level(s) < Level(t)
  <2>1. ~Deadlocked(c) /\ removing[req[c].movie] # "locked"
    BY <1>7 DEF Goes, ToggleGoes, Deadlocked
  <2>2. Level(t) = 3
    BY <1>7, <2>1 DEF Level
  <2>3. CASE ~CountersFree(req[c].movie)
    <3>1. PICK d \in Clients : HoldsMovie(d) /\ req[d].movie = req[c].movie
      BY <2>3 DEF CountersFree
    <3> DEFINE s == <<"toggle", d>>
    <3>2. HoldsUp(s, t)
      BY <1>7, <3>1 DEF HoldsUp, ToggleHoldsUp
    <3> QED  BY <1>1, <1>5, <2>2, <3>1, <3>2
  <2>4. CASE req[c].movie \in held
    <3> DEFINE s == <<"recount", cron>>
    <3>1. HoldsUp(s, t)
      BY <1>7, <2>4 DEF HoldsUp, RecountHoldsUp
    <3> QED  BY <1>4, <2>2, <2>4, <3>1
  <2> QED  BY <1>7, <2>1, <2>3, <2>4 DEF Goes, ToggleGoes
<1>8. ASSUME NEW m \in Movies, t = <<"removal", m>>, removing[m] = "read"
      PROVE  \E s \in Active : HoldsUp(s, t) /\ Level(s) < Level(t)
  <2>1. Level(t) = 5
    BY <1>8 DEF Level
  <2>2. CASE m \in held
    <3> DEFINE s == <<"recount", cron>>
    <3>1. HoldsUp(s, t)
      BY <1>8, <2>2 DEF HoldsUp, RecountHoldsUp
    <3> QED  BY <1>4, <2>1, <2>2, <3>1
  <2>3. CASE m \notin held
    <3>1. PICK d \in Clients : req[d].movie = m /\ (HoldsMovie(d) \/ HoldsKeys(d))
      BY <1>8, <2>3 DEF Goes, RemovalGoes, CountersFree
    <3> DEFINE s == <<"toggle", d>>
    <3>2. HoldsUp(s, t)
      BY <1>8, <3>1 DEF HoldsUp, ToggleHoldsUp
    <3> QED  BY <1>1, <1>5, <2>1, <3>1, <3>2
  <2> QED  BY <2>2, <2>3
<1>9. ASSUME NEW m \in Movies, t = <<"removal", m>>, removing[m] = "locked"
      PROVE  \E s \in Active : HoldsUp(s, t) /\ Level(s) < Level(t)
  <2>1. PICK d \in Clients : HoldsRecord(d) /\ req[d].movie = m
    BY <1>9 DEF Goes, RemovalGoes, LikesFree
  <2> DEFINE s == <<"toggle", d>>
  <2>2. HoldsUp(s, t)
    BY <1>9, <2>1 DEF HoldsUp, ToggleHoldsUp
  \* It commits, or it is the victim of the deadlock with this removal.
  <2>3. s \in Active /\ Level(s) = 0 /\ Level(t) = 1
    BY <1>1, <1>2, <1>9, <2>1 DEF HoldsRecord, Deadlocked, Level
  <2> QED  BY <2>2, <2>3
<1>10. ASSUME NEW u \in Users, t = <<"leaving", u>>, leaving[u] # "no"
       PROVE  \E s \in Active : HoldsUp(s, t) /\ Level(s) < Level(t)
  <2>1. PICK d \in Clients : /\ UserOf[d] = u
                             /\ IF leaving[u] = "locked" THEN HoldsRecord(d)
                                                         ELSE HoldsKeys(d)
    BY <1>10 DEF Goes, LeavingGoes, LikesOfFree
  <2> DEFINE s == <<"toggle", d>>
  <2>2. HoldsUp(s, t)
    BY <1>10, <2>1 DEF HoldsUp, ToggleHoldsUp
  <2>3. Level(t) \in {4, 5}
    BY <1>10 DEF Level
  <2>4. HoldsRecord(d)
    BY <1>5, <2>1
  <2>5. s \in Active /\ Level(s) \in {0, 3}
    BY <1>1, <2>4
  <2> HIDE DEF s
  <2> QED  BY <2>2, <2>3, <2>5
<1>11. ASSUME t = <<"recount", cron>>
       PROVE  \E s \in Active : HoldsUp(s, t) /\ Level(s) < Level(t)
  <2>1. PICK m \in todo : ~CountersFree(m) \/ removing[m] = "locked"
    BY <1>11 DEF Goes, RecountGoes
  <2>2. Level(t) = 2
    BY <1>11 DEF Level
  <2>3. CASE removing[m] = "locked"
    <3> DEFINE s == <<"removal", m>>
    <3>1. HoldsUp(s, t)
      BY <1>11, <2>3 DEF HoldsUp, RemovalHoldsUp
    <3> QED  BY <1>2, <2>2, <2>3, <3>1
  <2>4. CASE ~CountersFree(m)
    <3>1. PICK d \in Clients : HoldsMovie(d) /\ req[d].movie = m
      BY <2>4 DEF CountersFree
    <3> DEFINE s == <<"toggle", d>>
    <3>2. HoldsUp(s, t)
      BY <1>11, <3>1 DEF HoldsUp, ToggleHoldsUp
    <3> QED  BY <1>1, <1>5, <2>2, <3>1, <3>2
  <2> QED  BY <2>1, <2>3, <2>4
<1>12. ASSUME NEW c \in Clients, t = <<"toggle", c>>, pc[c] # "idle"
       PROVE  pc[c] \in {"write", "count"}
  BY <1>12 DEF Goes, ToggleGoes, Steps
<1> QED
  BY <1>6, <1>7, <1>8, <1>9, <1>10, <1>11, <1>12 DEF Active

LEMMA WaitsEndNow == TypeOK /\ CronInv => WaitsEnd
<1> SUFFICES ASSUME TypeOK, CronInv, NEW W \in SUBSET Active,
                    W # {},
                    \A t \in W, s \in Active : ~Goes(t) /\ HoldsUp(s, t) => s \in W,
                    \A t \in W : ~Goes(t)
             PROVE  FALSE
  BY DEF WaitsEnd
<1>1. ASSUME NEW t \in W PROVE \E s \in W : Level(s) < Level(t)
  BY <1>1, HolderBelow
<1> DEFINE None(n) == \A t \in W : Level(t) >= n
<1>2. \A t \in W : Level(t) \in 0 .. 5
  BY LevelType
<1>3. ASSUME NEW n \in 0 .. 5, None(n) PROVE None(n + 1)
  BY <1>1, <1>2, <1>3
<1>4. None(0)
  BY <1>2
<1> HIDE DEF None
<1>5. None(6)
  BY <1>3, <1>4
<1> QED  BY <1>2, <1>5 DEF None

\* However toggles, removals, account removals and the recount queue for each
\* other's row locks, nobody waits for ever for want of somebody who goes on:
\* of the waits that PostgreSQL does not end, none goes in a circle.
THEOREM NobodyWaitsInACircle == Spec => []WaitsEnd
BY TypeInit, TypeNext, CronInit, CronKept, WaitsEndNow, PTL DEF Spec
=============================================================================
