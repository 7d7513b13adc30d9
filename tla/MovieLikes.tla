----------------------------- MODULE MovieLikes -----------------------------
(***************************************************************************)
(* The like/dislike toggle of a movie (MovieService.toggleMovieLie), the   *)
(* two counters cached on the movie row, and everything else that writes   *)
(* the same rows while a toggle runs: MovieService.remove and              *)
(* UserService.remove (their ON DELETE CASCADE takes like rows away) and   *)
(* the midnight recount TasksService.calculateMovieLikeCount.              *)
(*                                                                         *)
(* PostgreSQL runs every transaction at READ COMMITTED, its default, which *)
(* the code never raises.  A statement therefore sees what is committed    *)
(* when it starts; a row it writes stays locked until the transaction      *)
(* ends; and a statement that meets a locked row waits and then acts on    *)
(* the row as it has become.  Writes are applied at Commit: until then no  *)
(* other transaction can see them, and the locks held, which pc gives,     *)
(* keep every other writer of those rows out.                              *)
(***************************************************************************)
EXTENDS Integers, FiniteSets

CONSTANTS Movies,      \* ids of movies
          Users,       \* ids of users
          Clients,     \* browser tabs: each has at most one toggle in flight
          UserOf,      \* the user each client is logged in as
          MaxToggles   \* bound: how many toggles a client issues

ASSUME MoviesAssumption  == IsFiniteSet(Movies)
ASSUME UsersAssumption   == IsFiniteSet(Users)
ASSUME UserOfAssumption  == UserOf \in [Clients -> Users]
ASSUME TogglesAssumption == MaxToggles \in Nat

Votes   == {"like", "dislike"}         \* isLike = true, isLike = false
Records == Votes \cup {"none"}         \* a movie_user_like row, or none
Answers == Records \cup {"unknown"}

VARIABLES
  movies,        \* movie rows that exist
  users,         \* user rows that exist
  like,          \* the movie_user_like table, by movie and user
  likeCount,     \* movie.likeCount (0 once the row is gone)
  dislikeCount,  \* movie.dislikeCount
  pc,            \* the next statement of each client's transaction
  req,           \* the movie and the isLike of the request in flight
  seen,          \* the likeRecord its transaction read
  told,          \* what each client was last answered about each movie
  issued,        \* how many toggles each client has issued
  removing,      \* the transaction of MovieService.remove, by movie
  leaving,       \* the DELETE of UserService.remove, by user
  cron,          \* the statement calculateMovieLikeCount is in
  snapshot,      \* the like table as that statement sees it
  todo,          \* movie rows that statement has yet to update
  held           \* movie rows it has updated and locked

rowVars    == <<movies, users, like, likeCount, dislikeCount>>
clientVars == <<pc, req, seen, told, issued>>
cronVars   == <<cron, snapshot, todo, held>>
vars == <<rowVars, clientVars, removing, leaving, cronVars>>

Steps == {"idle", "movie", "user", "record", "write", "count", "commit"}

TypeOK ==
  /\ movies \subseteq Movies
  /\ users \subseteq Users
  /\ like \in [Movies -> [Users -> Records]]
  /\ likeCount \in [Movies -> Int]
  /\ dislikeCount \in [Movies -> Int]
  /\ pc \in [Clients -> Steps]
  /\ req \in [Clients -> [movie : Movies, vote : Votes]]
  /\ seen \in [Clients -> Records]
  /\ told \in [Clients -> [Movies -> Answers]]
  /\ issued \in [Clients -> Nat]
  /\ removing \in [Movies -> {"no", "read", "locked"}]
  /\ leaving \in [Users -> {"no", "read", "locked"}]
  /\ cron \in {"idle", "like", "between", "dislike"}
  /\ snapshot \in [Movies -> [Users -> Records]]
  /\ todo \subseteq Movies
  /\ held \subseteq Movies

NoLikes == [m \in Movies |-> [u \in Users |-> "none"]]

Init ==
  /\ movies = Movies
  /\ users = Users
  /\ like = NoLikes
  /\ likeCount = [m \in Movies |-> 0]
  /\ dislikeCount = [m \in Movies |-> 0]
  /\ pc = [c \in Clients |-> "idle"]
  /\ req \in [Clients -> [movie : Movies, vote : {"like"}]]
  /\ seen = [c \in Clients |-> "none"]
  /\ told = [c \in Clients |-> [m \in Movies |-> "none"]]
  /\ issued = [c \in Clients |-> 0]
  /\ removing = [m \in Movies |-> "no"]
  /\ leaving = [u \in Users |-> "no"]
  /\ cron = "idle"
  /\ snapshot = NoLikes
  /\ todo = {}
  /\ held = {}

-----------------------------------------------------------------------------
(* Row locks, as the place of each transaction in its code implies them.   *)

\* c's transaction has written (inserted, updated or deleted) its like row.
HoldsRecord(c) == pc[c] \in {"count", "commit"}

\* It inserted the row: the foreign keys hold the movie and the user row
\* FOR KEY SHARE, which only a DELETE of those rows conflicts with.
HoldsKeys(c) == HoldsRecord(c) /\ seen[c] = "none"

\* It has incremented the counters of the movie row.
HoldsMovie(c) == pc[c] = "commit"

\* No transaction other than c's has written c's like row.
RecordFree(c) ==
  \A d \in Clients \ {c} :
    HoldsRecord(d) => \/ req[d].movie # req[c].movie
                      \/ UserOf[d] # UserOf[c]

\* No transaction other than that of MovieService.remove or the recount
\* has the movie row locked for an update.
CountersFree(m) == \A c \in Clients : HoldsMovie(c) => req[c].movie # m

-----------------------------------------------------------------------------
(* toggleMovieLie, one action for each statement of its transaction.       *)

\* A request reaches the handler.
Toggle(c, m, vote) ==
  /\ pc[c] = "idle"
  /\ issued[c] < MaxToggles
  /\ pc' = [pc EXCEPT ![c] = "movie"]
  /\ req' = [req EXCEPT ![c] = [movie |-> m, vote |-> vote]]
  /\ told' = [told EXCEPT ![c][m] = "unknown"]
  /\ issued' = [issued EXCEPT ![c] = @ + 1]
  /\ UNCHANGED <<rowVars, seen, removing, leaving, cronVars>>

Goto(c, step) ==
  /\ pc' = [pc EXCEPT ![c] = step]
  /\ UNCHANGED <<rowVars, req, told, issued, removing, leaving, cronVars>>

\* An exception leaves $transaction: everything rolls back, and the answer is
\* an error, which tells the client nothing about the row.
Fail(c) == Goto(c, "idle") /\ seen' = [seen EXCEPT ![c] = "none"]

FindMovie(c) ==
  /\ pc[c] = "movie"
  /\ IF req[c].movie \in movies
       THEN Goto(c, "user") /\ UNCHANGED seen
       ELSE Fail(c)

FindUser(c) ==
  /\ pc[c] = "user"
  /\ IF UserOf[c] \in users
       THEN Goto(c, "record") /\ UNCHANGED seen
       ELSE Fail(c)

\* The plain SELECT of likeRecord takes no lock: what it saw may be stale by
\* the time the branch it chose is executed.
FindRecord(c) ==
  /\ pc[c] = "record"
  /\ seen' = [seen EXCEPT ![c] = like[req[c].movie][UserOf[c]]]
  /\ Goto(c, "write")

\* Variant: deleteMany and updateMany, which do not mind that the row has gone.
RecordThere_Many(c) == TRUE

RecordThere(c) == like[req[c].movie][UserOf[c]] # "none"

\* delete or update of the row that was read.  It waits for a concurrent
\* writer of the row, and fails (P2025) if the row has gone meanwhile.
ChangeRecord(c) ==
  /\ pc[c] = "write"
  /\ seen[c] # "none"
  /\ RecordFree(c)
  /\ IF RecordThere(c)
       THEN Goto(c, "count") /\ UNCHANGED seen
       ELSE Fail(c)

\* Variant: the table has no foreign keys.
ParentsThere_Unchecked(c) == TRUE

ParentsThere(c) == req[c].movie \in movies /\ UserOf[c] \in users

\* create.  It waits for a concurrent writer of the same primary key and for
\* a DELETE of either parent row, then fails on the primary key (P2002) or on
\* a foreign key (P2003, P2025) if either is now violated.
CreateRecord(c) ==
  /\ pc[c] = "write"
  /\ seen[c] = "none"
  /\ RecordFree(c)
  /\ removing[req[c].movie] # "locked"
  /\ leaving[UserOf[c]] # "locked"
  /\ IF like[req[c].movie][UserOf[c]] = "none" /\ ParentsThere(c)
       THEN Goto(c, "count") /\ UNCHANGED seen
       ELSE Fail(c)

\* movie.update with { increment }: the new value is computed from the row as
\* it is once its lock is held, so it is enough to apply it at Commit.
UpdateCounters(c) ==
  /\ pc[c] = "count"
  /\ CountersFree(req[c].movie)
  /\ removing[req[c].movie] # "locked"
  /\ req[c].movie \notin held
  /\ IF req[c].movie \in movies
       THEN Goto(c, "commit") /\ UNCHANGED seen
       ELSE Fail(c)

\* Variant for a run to refute: switching a vote forgets the other counter.
Delta_OneSided(kind, record, vote) ==
  IF vote # kind THEN 0 ELSE IF record = vote THEN -1 ELSE 1

\* likeCountDelta (kind "like") and dislikeCountDelta (kind "dislike").
Delta(kind, record, vote) ==
  IF record = "none"    THEN IF vote = kind THEN 1 ELSE 0
  ELSE IF record = vote THEN IF vote = kind THEN -1 ELSE 0
  ELSE                       IF vote = kind THEN 1 ELSE -1

\* Variant: a row that is to be deleted is kept with no isLike.
After_Keeps(record, vote) == IF record = vote THEN "unknown" ELSE vote

\* The row once the branch the transaction chose is executed.
After(record, vote) == IF record = vote THEN "none" ELSE vote

\* Variant: the answer echoes the isLike of the request.
ReadBack_Echo(c) == req[c].vote

ReadBack(c) == After(seen[c], req[c].vote)

\* COMMIT, and the answer { isLike } read back from the transaction's own
\* write; or, when the request took more than a second, the 500 that
\* ResponseTimeInterceptor throws although the transaction is committed.
Commit(c) ==
  LET m == req[c].movie
  IN /\ pc[c] = "commit"
     /\ like' = [like EXCEPT ![m][UserOf[c]] = After(seen[c], req[c].vote)]
     /\ likeCount' = [likeCount EXCEPT
                        ![m] = @ + Delta("like", seen[c], req[c].vote)]
     /\ dislikeCount' = [dislikeCount EXCEPT
                        ![m] = @ + Delta("dislike", seen[c], req[c].vote)]
     /\ \E answer \in {ReadBack(c), "unknown"} :
          told' = [told EXCEPT ![c][m] = answer]
     /\ pc' = [pc EXCEPT ![c] = "idle"]
     /\ seen' = [seen EXCEPT ![c] = "none"]
     /\ UNCHANGED <<movies, users, req, issued, removing, leaving, cronVars>>

\* Prisma rolls an interactive transaction back after its timeout, and the
\* server when its connection drops.
Timeout(c) == pc[c] # "idle" /\ Fail(c)

\* c holds its like row and waits for the movie row; MovieService.remove holds
\* the movie row and its cascade waits for the like row.  PostgreSQL ends the
\* deadlock by rolling one of the two back.
Deadlocked(c) == pc[c] = "count" /\ removing[req[c].movie] = "locked"

DeadlockVictim(c) == Deadlocked(c) /\ Fail(c)

ClientStep(c) ==
  \/ FindMovie(c) \/ FindUser(c) \/ FindRecord(c)
  \/ ChangeRecord(c) \/ CreateRecord(c)
  \/ UpdateCounters(c) \/ Commit(c) \/ DeadlockVictim(c)

ClientNext(c) ==
  \/ \E m \in Movies, vote \in Votes : Toggle(c, m, vote)
  \/ ClientStep(c)
  \/ Timeout(c)

-----------------------------------------------------------------------------
(* MovieService.remove.                                                    *)

RemoveMovie(m) ==
  /\ removing[m] = "no"
  /\ m \in movies
  /\ removing' = [removing EXCEPT ![m] = "read"]
  /\ UNCHANGED <<rowVars, clientVars, leaving, cronVars>>

\* movie.delete locks the row against every other use of it.
LockMovie(m) ==
  /\ removing[m] = "read"
  /\ CountersFree(m)
  /\ \A c \in Clients : HoldsKeys(c) => req[c].movie # m
  /\ m \notin held
  /\ removing' = [removing EXCEPT ![m] = "locked"]
  /\ UNCHANGED <<rowVars, clientVars, leaving, cronVars>>

LikesFree(m) == \A c \in Clients : HoldsRecord(c) => req[c].movie # m

\* Variant: the like rows of a movie are not deleted with it.
WithoutMovie_NoCascade(m) == like

WithoutMovie(m) == [like EXCEPT ![m] = [u \in Users |-> "none"]]

\* Its cascade waits for every like row of the movie, then all of it commits.
DeleteMovie(m) ==
  /\ removing[m] = "locked"
  /\ LikesFree(m)
  /\ movies' = movies \ {m}
  /\ like' = WithoutMovie(m)
  /\ likeCount' = [likeCount EXCEPT ![m] = 0]
  /\ dislikeCount' = [dislikeCount EXCEPT ![m] = 0]
  /\ removing' = [removing EXCEPT ![m] = "no"]
  /\ UNCHANGED <<users, clientVars, leaving, cronVars>>

\* Rolled back: a timeout, a dropped connection or a deadlock's victim.
RemoveFails(m) ==
  /\ removing[m] # "no"
  /\ removing' = [removing EXCEPT ![m] = "no"]
  /\ UNCHANGED <<rowVars, clientVars, leaving, cronVars>>

RemoveNext(m) ==
  RemoveMovie(m) \/ LockMovie(m) \/ DeleteMovie(m) \/ RemoveFails(m)

-----------------------------------------------------------------------------
(* UserService.remove: findUnique, then a DELETE that commits by itself.   *)

RemoveUser(u) ==
  /\ leaving[u] = "no"
  /\ u \in users
  /\ leaving' = [leaving EXCEPT ![u] = "read"]
  /\ UNCHANGED <<rowVars, clientVars, removing, cronVars>>

LockUser(u) ==
  /\ leaving[u] = "read"
  /\ \A c \in Clients : HoldsKeys(c) => UserOf[c] # u
  /\ leaving' = [leaving EXCEPT ![u] = "locked"]
  /\ UNCHANGED <<rowVars, clientVars, removing, cronVars>>

LikesOfFree(u) == \A c \in Clients : HoldsRecord(c) => UserOf[c] # u

\* The cascade deletes the user's like rows and leaves the counters alone.
DeleteUser(u) ==
  /\ leaving[u] = "locked"
  /\ LikesOfFree(u)
  /\ users' = users \ {u}
  /\ like' = [m \in Movies |-> [like[m] EXCEPT ![u] = "none"]]
  /\ leaving' = [leaving EXCEPT ![u] = "no"]
  /\ UNCHANGED <<movies, likeCount, dislikeCount, clientVars, removing,
                 cronVars>>

\* The user still has movies or chats (NO ACTION), or the connection drops.
RemoveUserFails(u) ==
  /\ leaving[u] # "no"
  /\ leaving' = [leaving EXCEPT ![u] = "no"]
  /\ UNCHANGED <<rowVars, clientVars, removing, cronVars>>

LeaveNext(u) ==
  RemoveUser(u) \/ LockUser(u) \/ DeleteUser(u) \/ RemoveUserFails(u)

-----------------------------------------------------------------------------
(* calculateMovieLikeCount: two UPDATE statements, each a transaction of   *)
(* its own.  Each counts the like rows its snapshot shows, also for a  *)
(* movie row it had to wait for.                                           *)

Tally(table, m, kind) == Cardinality({u \in Users : table[m][u] = kind})

StartRecount ==
  /\ cron \in {"idle", "between"}
  /\ cron' = IF cron = "idle" THEN "like" ELSE "dislike"
  /\ snapshot' = like
  /\ todo' = movies
  /\ UNCHANGED <<rowVars, clientVars, removing, leaving, held>>

RecountRow(m) ==
  /\ m \in todo
  /\ CountersFree(m)
  /\ removing[m] # "locked"
  /\ todo' = todo \ {m}
  /\ held' = IF m \in movies THEN held \cup {m} ELSE held
  /\ UNCHANGED <<rowVars, clientVars, removing, leaving, cron, snapshot>>

\* Variant: the second UPDATE counts isLike = true again.
Recounted_AsLikes(column, kind) ==
  [m \in Movies |-> IF m \in held THEN Tally(snapshot, m, "like")
                                  ELSE column[m]]

\* The columns one UPDATE leaves: the movies it holds get their tally.
Recounted(column, kind) ==
  [m \in Movies |-> IF m \in held THEN Tally(snapshot, m, kind)
                                  ELSE column[m]]

\* Variant: the statement's transaction stays open.
FinishRecount_KeepsLocks ==
  /\ cron \in {"like", "dislike"}
  /\ todo = {}
  /\ likeCount' = Recounted(likeCount, "like")
  /\ dislikeCount' = Recounted(dislikeCount, "dislike")
  /\ cron' = IF cron = "like" THEN "between" ELSE "idle"
  /\ UNCHANGED <<movies, users, like, clientVars, removing, leaving,
                 snapshot, todo, held>>

FinishRecount ==
  /\ cron \in {"like", "dislike"}
  /\ todo = {}
  /\ \/ /\ cron = "like"
        /\ likeCount' = Recounted(likeCount, "like")
        /\ UNCHANGED dislikeCount
     \/ /\ cron = "dislike"
        /\ dislikeCount' = Recounted(dislikeCount, "dislike")
        /\ UNCHANGED likeCount
  /\ cron' = IF cron = "like" THEN "between" ELSE "idle"
  /\ held' = {}
  /\ UNCHANGED <<movies, users, like, clientVars, removing, leaving,
                 snapshot, todo>>

\* A statement fails: the catch logs it, and the run is over.
RecountFails ==
  /\ cron # "idle"
  /\ cron' = "idle"
  /\ todo' = {}
  /\ held' = {}
  /\ UNCHANGED <<rowVars, clientVars, removing, leaving, snapshot>>

CronNext ==
  StartRecount \/ (\E m \in Movies : RecountRow(m)) \/ FinishRecount
    \/ RecountFails

-----------------------------------------------------------------------------
\* What happens between two midnights while no account is deleted.
DayNext ==
  \/ \E c \in Clients : ClientNext(c)
  \/ \E m \in Movies : RemoveNext(m)

Next ==
  \/ DayNext
  \/ \E u \in Users : LeaveNext(u)
  \/ CronNext

DaySpec == Init /\ [][DayNext]_vars
Spec    == Init /\ [][Next]_vars

\* A transaction that can go on does; PostgreSQL queues the waiters of a row
\* lock, so a wait that can end again and again does end (SF); it resolves
\* every deadlock; and the cron fires every midnight.  No request, removal or
\* timeout ever has to happen.
Fairness ==
  /\ \A c \in Clients : SF_vars(ClientStep(c))
  /\ \A m \in Movies : SF_vars(LockMovie(m)) /\ SF_vars(DeleteMovie(m))
  /\ \A u \in Users : SF_vars(LockUser(u)) /\ SF_vars(DeleteUser(u))
  /\ \A m \in Movies : SF_vars(RecountRow(m))
  /\ WF_vars(StartRecount)
  /\ WF_vars(FinishRecount)

FairSpec == Spec /\ Fairness
-----------------------------------------------------------------------------
(* What is meant to hold.                                                  *)

\* No user has two toggles in flight at once.
OneTabPerUser == \A c, d \in Clients : UserOf[c] = UserOf[d] => c = d

\* At every committed state both counters of a movie are the number of its
\* like rows of that kind ("likeCount is reflected immediately",
\* docs/api.md): concurrent toggles lose no update, and none is counted twice.
CountersExact ==
  \A m \in Movies :
    /\ likeCount[m] = Tally(like, m, "like")
    /\ dislikeCount[m] = Tally(like, m, "dislike")

\* No like row outlives its movie or its user, however their removal
\* interleaves with a toggle that read both before it wrote the row.
Referential ==
  \A m \in Movies, u \in Users :
    like[m][u] # "none" => m \in movies /\ u \in users

\* A toggle that has written its like row finds the movie row for its
\* counters: it can only still fail by a deadlock or a timeout.
CountersHaveRow ==
  \A c \in Clients :
    HoldsRecord(c) => req[c].movie \in movies /\ UserOf[c] \in users

\* The branch chosen from the unlocked read is still the right one when its
\* statement runs: the row is as it was read, or it has gone.
ReadStillValid ==
  \A c \in Clients :
    LET now == like[req[c].movie][UserOf[c]]
    IN /\ pc[c] = "write" => now \in {seen[c], "none"}
       /\ HoldsRecord(c) => now = seen[c]

\* What a client was last told of its vote is what is stored, until it asks
\* for a change, is left without an answer, or the movie or user is removed.
ToldIsStored ==
  \A c \in Clients, m \in movies :
    UserOf[c] \in users /\ told[c][m] # "unknown" =>
      like[m][UserOf[c]] = told[c][m]

\* Every request is answered: no toggle waits forever for a row lock, of
\* another toggle, of a removal or of the recount.
EveryToggleEnds == \A c \in Clients : pc[c] # "idle" ~> pc[c] = "idle"

\* A failure of the recount that leaves something undone: FinishRecount may
\* look the same when the counters are right already.
RecountLost == RecountFails /\ ~FinishRecount

\* Whatever made the counters drift, the recount repairs it: once the
\* toggles have ended, the counters become exact and stay so, unless the
\* recount fails again and again.
EventuallyExact == []<><<RecountLost>>_vars \/ <>[]CountersExact

\* The toggles implement the ledger in which a vote and its count are one.
Ledger == INSTANCE LikeLedger WITH votes <- like
LedgerSpec == Ledger!Spec
=============================================================================
