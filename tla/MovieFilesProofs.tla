-------------------------- MODULE MovieFilesProofs --------------------------
(***************************************************************************)
(* Proofs about MovieFiles, for any uploads, any references to them and    *)
(* any number of requests.                                                 *)
(***************************************************************************)
EXTENDS MovieFiles, TLAPS

USE RefsAssumption, PlaceAssumption

(***************************************************************************)
(* Types, and what every request keeps of its own, wherever its files are. *)
(***************************************************************************)
BookOf(r) ==
  /\ phase[r] = "idle" => Named(r) = {}
  \* Before its renames start, a request has none to account for.
  /\ phase[r] \in {"idle", "check", "stat"} =>
       /\ renamed[r] = {} /\ undo[r] = {}
       /\ \A i \in Slots : task[r][i] \in {"none", "found", "missing"}
  \* Only a slot the request names has a rename.
  /\ \A i \in Slots : task[r][i] \notin {"none", "found", "missing"} => i \in Named(r)
  /\ renamed[r] \subseteq Named(r) /\ undo[r] \subseteq Named(r)
  /\ \A i \in Slots : task[r][i] \in {"listed", "rowed"} => i \in renamed[r]
  \* A rename that is not over when the request gives up was in flight then.
  /\ phase[r] \in {"undo", "failed"} =>
       \A i \in Slots : task[r][i] \in {"moving", "moved"} => lapse[r][i] # "none"
  /\ phase[r] = "commit" => \A i \in Named(r) : task[r][i] = "rowed"
  /\ rows[r] = IF phase[r] = "created" THEN Paths(r) ELSE {}

BookInv == \A r \in Requests : BookOf(r)

LEMMA NamedSlots ==
  ASSUME TypeOK, NEW r \in Requests
  PROVE  /\ Named(r) \subseteq Slots
         /\ \A i \in Named(r) : File(r, i) \in Files
         /\ \A i \in Named(r) : Folder(r, i) \in {"temp"} \cup Requests
         /\ \A i \in Named(r) :
              refs[r][i] = [folder |-> Folder(r, i), file |-> File(r, i)]
<1>1. PICK n \in 0 .. MaxRefs : refs[r] \in [1 .. n -> Refs]
  BY DEF TypeOK, RefLists
<1>2. \A i \in Named(r) : i \in Slots /\ refs[r][i] \in Refs
  BY <1>1 DEF Named, Slots
<1> QED  BY <1>2 DEF Refs, File, Folder

LEMMA TypeInit == Init => TypeOK
<1>1. [i \in 1 .. 0 |-> "nothing"] \in [1 .. 0 -> Refs]
  OBVIOUS
<1>2. [i \in 1 .. 0 |-> "nothing"] \in RefLists
  BY <1>1 DEF RefLists
<1> QED  BY <1>2 DEF Init, TypeOK, NoTasks, Phases, Tasks, Lapses

LEMMA TypeNext == TypeOK /\ BookInv /\ [Next]_vars => TypeOK'
<1> SUFFICES ASSUME TypeOK, BookInv, [Next]_vars PROVE TypeOK'
  OBVIOUS
<1> USE DEF TypeOK
<1>1. ASSUME NEW f \in Files, Upload(f) \/ Expire(f) \/ Unlink(f) PROVE TypeOK'
  BY <1>1 DEF Upload, Expire, Unlink, requestVars
<1>2. StartCleanup => TypeOK'
  BY DEF StartCleanup, Stale, requestVars
<1>3. ASSUME NEW r \in Requests, NEW list \in RefLists, Request(r, list)
      PROVE  TypeOK'
  BY <1>3 DEF Request, Become, Phases, UnderWay
<1>4. ASSUME NEW r \in Requests, CreateStep(r) PROVE TypeOK'
  <2> USE DEF Become, SetTask, Phases, UnderWay, Ended, Tasks, Lapses
  <2>1. Check(r) => TypeOK'
    BY DEF Check
  <2>2. CASE Statted(r)
    <3>1. task' \in [Requests -> [Slots -> Tasks]]
      <4>1. CASE UNCHANGED task
        BY <4>1
      <4>2. CASE task' = [task EXCEPT ![r] =
                   [i \in Slots |-> IF i \in Named(r) THEN "moving" ELSE "none"]]
        BY <4>2
      <4> QED  BY <2>2, <4>1, <4>2 DEF Statted
    <3>2. phase' \in [Requests -> Phases]
      <4>1. PICK p \in {"failed", "move"} : Become(r, p)
        BY <2>2 DEF Statted
      <4> QED  BY <4>1
    <3> QED  BY <2>2, <3>1, <3>2 DEF Statted, Settled
  <2>3. CASE Catch(r)
    <3>1. lapse' \in [Requests -> [Slots -> Lapses]]
      BY <2>3 DEF Catch
    <3> QED  BY <2>3, <3>1 DEF Catch, Undone
  <2>11. Throw(r) => TypeOK'
    BY DEF Throw
  <2>12. CASE Reread(r)
    <3>1. lapse' \in [Requests -> [Slots -> Lapses]]
      <4>1. CASE UNCHANGED lapse
        BY <4>1
      <4>2. CASE lapse' = [lapse EXCEPT ![r] =
                   [i \in Slots |-> IF i \in Named(r) THEN "unread" ELSE "none"]]
        BY <4>2
      <4> QED  BY <2>12, <4>1, <4>2 DEF Reread
    <3>2. phase' \in [Requests -> Phases]
      <4>1. PICK p \in {"failed", "commit"} : Become(r, p)
        BY <2>12 DEF Reread
      <4> QED  BY <4>1
    <3> QED  BY <2>12, <3>1, <3>2 DEF Reread
  <2>4. CASE Commit(r)
    <3>1. Paths(r) \subseteq Files
      BY NamedSlots DEF Paths
    <3> QED  BY <2>4, <3>1 DEF Commit
  <2>5. ASSUME NEW i \in Slots, Stat(r, i) PROVE TypeOK'
    BY <2>5 DEF Stat
  <2>6. ASSUME NEW i \in Slots, Rename(r, i) PROVE TypeOK'
    <3>1. where' \in [Files -> {"nowhere", "temp", "gone"} \cup Requests]
      BY <2>6 DEF Rename
    <3>2. task' \in [Requests -> [Slots -> Tasks]]
      <4>1. PICK t \in Tasks : SetTask(r, i, t)
        BY <2>6 DEF Rename
      <4> QED  BY <4>1
    <3> QED  BY <2>6, <3>1, <3>2 DEF Rename
  <2>7. ASSUME NEW i \in Slots, Listed(r, i) PROVE TypeOK'
    BY <2>7 DEF Listed
  <2>8. ASSUME NEW i \in Slots, Insert(r, i) PROVE TypeOK'
    <3>1. task' \in [Requests -> [Slots -> Tasks]]
      <4>1. PICK t \in Tasks : SetTask(r, i, t)
        BY <2>8 DEF Insert
      <4> QED  BY <4>1
    <3> QED  BY <2>8, <3>1 DEF Insert
  <2>9. ASSUME NEW i \in Slots, RenameBack(r, i) PROVE TypeOK'
    <3>1. where' \in [Files -> {"nowhere", "temp", "gone"} \cup Requests]
      <4>1. Folder(r, i) \in {"temp"} \cup Requests \/ where' = where
        BY <2>9, NamedSlots DEF RenameBack, BookInv, BookOf
      <4> QED  BY <2>9, <4>1 DEF RenameBack
    <3>2. lapse' \in [Requests -> [Slots -> Lapses]]
      <4>1. CASE UNCHANGED lapse
        BY <4>1
      <4>2. CASE lapse' = [lapse EXCEPT ![r][i] = "not back"]
        BY <4>2
      <4> QED  BY <2>9, <4>1, <4>2 DEF RenameBack
    <3> QED  BY <2>9, <3>1, <3>2 DEF RenameBack
  <2> QED
    BY <1>4, <2>1, <2>2, <2>3, <2>4, <2>5, <2>6, <2>7, <2>8, <2>9, <2>11, <2>12
       DEF CreateStep
<1>5. ASSUME NEW r \in Requests, Remove(r) \/ CommitFails(r) PROVE TypeOK'
  BY <1>5 DEF Remove, CommitFails, Become, Phases, Ended
<1>6. Crash => TypeOK'
  BY DEF Crash, NoTasks, Phases, Ended, Tasks
<1>7. UNCHANGED vars => TypeOK'
  BY DEF vars, requestVars
<1> QED  BY <1>1, <1>2, <1>3, <1>4, <1>5, <1>6, <1>7 DEF Next

\* A step of one request leaves every other as it was.
Untouched(r) ==
  /\ phase'[r] = phase[r] /\ refs'[r] = refs[r] /\ task'[r] = task[r]
  /\ renamed'[r] = renamed[r] /\ undo'[r] = undo[r]
  /\ lapse'[r] = lapse[r] /\ rows'[r] = rows[r]

LEMMA OthersUntouched ==
  ASSUME TypeOK, NEW r \in Requests,
         \/ \E list \in RefLists : Request(r, list)
         \/ CreateStep(r) \/ CommitFails(r) \/ Remove(r)
  PROVE  \A q \in Requests \ {r} : Untouched(q)
<1> USE DEF TypeOK, Untouched, Become, SetTask
<1>1. ASSUME NEW i \in Slots,
             \/ Stat(r, i) \/ Rename(r, i) \/ Listed(r, i)
             \/ Insert(r, i) \/ RenameBack(r, i)
      PROVE  \A q \in Requests \ {r} : Untouched(q)
  BY <1>1 DEF Stat, Rename, Listed, Insert, RenameBack
<1>2. \/ Check(r) \/ Statted(r) \/ Catch(r) \/ Throw(r) \/ Reread(r) \/ Commit(r)
      => \A q \in Requests \ {r} : Untouched(q)
  BY DEF Check, Statted, Catch, Throw, Reread, Commit
<1> QED
  BY <1>1, <1>2 DEF Request, CreateStep, CommitFails, Remove

\* Steps that are nobody's leave all requests as they were.
LEMMA NobodysStep ==
  ASSUME TypeOK,
         \/ \E f \in Files : Upload(f) \/ Expire(f) \/ Unlink(f)
         \/ StartCleanup \/ UNCHANGED vars
  PROVE  \A q \in Requests : Untouched(q)
BY DEF Upload, Expire, Unlink, StartCleanup, vars, requestVars, Untouched

LEMMA BookInit == Init => BookInv
BY DEF Init, BookInv, BookOf, NoTasks, Named, Paths

LEMMA UntouchedBook ==
  ASSUME NEW r \in Requests, BookOf(r), Untouched(r)
  PROVE  BookOf(r)'
BY DEF Untouched, BookOf, Named, Paths, File

LEMMA BookNext == TypeOK /\ BookInv /\ [Next]_vars => BookInv'
<1> SUFFICES ASSUME TypeOK, BookInv, [Next]_vars PROVE BookInv'
  OBVIOUS
<1>0. \A r \in Requests : BookOf(r)
  BY DEF BookInv
<1>1. ASSUME \A q \in Requests : Untouched(q) PROVE BookInv'
  BY <1>0, <1>1, UntouchedBook DEF BookInv
<1>2. ASSUME NEW r \in Requests,
             \/ \E list \in RefLists : Request(r, list)
             \/ CreateStep(r) \/ CommitFails(r) \/ Remove(r)
      PROVE  BookOf(r)'
  <2>0. BookOf(r)
    BY <1>0
  <2>14. refs'[r] = refs[r] => Named(r)' = Named(r) /\ Paths(r)' = Paths(r)
    BY DEF Named, Paths, File
  <2> USE <2>0, <2>14 DEF TypeOK, BookOf, Become, SetTask
  <2>1. ASSUME NEW list \in RefLists, Request(r, list) PROVE BookOf(r)'
    BY <2>1 DEF Request
  <2>2. Check(r) => BookOf(r)'
    BY DEF Check
  <2>3. CASE Statted(r)
    <3>1. /\ UNCHANGED <<refs, renamed, undo, rows>>
          /\ phase[r] = "stat" /\ phase'[r] \in {"failed", "move"}
          /\ \/ task'[r] = task[r]
             \/ /\ phase'[r] = "move"
                /\ \A i \in Slots :
                     task'[r][i] = IF i \in Named(r) THEN "moving" ELSE "none"
      BY <2>3 DEF Statted
    <3> QED  BY <3>1
  <2>4. CASE Catch(r)
    <3>1. \A i \in Slots : task[r][i] \in {"moving", "moved"} => lapse'[r][i] # "none"
      BY <2>4 DEF Catch
    <3> QED  BY <2>4, <3>1 DEF Catch, Undone
  <2>5. Throw(r) => BookOf(r)'
    BY DEF Throw
  <2>6. CASE Reread(r)
    <3>1. \A i \in Named(r) : task[r][i] = "rowed"
      BY <2>6 DEF Reread, AllRowed
    <3>2. /\ UNCHANGED <<refs, renamed, undo, rows, task>>
          /\ phase[r] = "move" /\ phase'[r] \in {"failed", "commit"}
      BY <2>6 DEF Reread, AllRowed
    <3> QED  BY <3>1, <3>2
  <2>7. Commit(r) => BookOf(r)'
    BY DEF Commit
  <2>8. ASSUME NEW i \in Slots, Stat(r, i) PROVE BookOf(r)'
    <3>1. /\ UNCHANGED <<phase, refs, renamed, undo, lapse, rows>>
          /\ phase[r] = "stat"
          /\ \A j \in Slots : task'[r][j] \in {"none", "found", "missing"}
      BY <2>8 DEF Stat
    <3> QED  BY <3>1
  <2>9. ASSUME NEW i \in Slots, Rename(r, i) PROVE BookOf(r)'
    <3>1. /\ UNCHANGED <<phase, refs, renamed, undo, lapse, rows>>
          /\ task[r][i] = "moving" /\ task'[r][i] \in {"moved", "broken"}
          /\ \A j \in Slots \ {i} : task'[r][j] = task[r][j]
      BY <2>9 DEF Rename
    <3> QED  BY <3>1
  <2>10. ASSUME NEW i \in Slots, Listed(r, i) PROVE BookOf(r)'
    <3>1. /\ UNCHANGED <<phase, refs, undo, lapse, rows>>
          /\ task[r][i] = "moved" /\ task'[r][i] = "listed"
          /\ renamed'[r] = renamed[r] \cup {i}
          /\ \A j \in Slots \ {i} : task'[r][j] = task[r][j]
      BY <2>10 DEF Listed
    <3>2. i \in Named(r) /\ phase[r] \notin {"idle", "check", "stat", "commit"}
      BY <3>1
    <3>3. /\ \A j \in Slots : task'[r][j] \in {"listed", "rowed"} => j \in renamed'[r]
          /\ \A j \in Slots : task'[r][j] \notin {"none", "found", "missing"}
                             => j \in Named(r)
          /\ \A j \in Slots : task'[r][j] \in {"moving", "moved"}
                             => task[r][j] \in {"moving", "moved"}
          /\ renamed'[r] \subseteq Named(r)
      BY <3>1, <3>2
    <3> QED  BY <3>1, <3>2, <3>3
  <2>11. ASSUME NEW i \in Slots, Insert(r, i) PROVE BookOf(r)'
    <3>1. /\ UNCHANGED <<phase, refs, renamed, undo, lapse, rows>>
          /\ task[r][i] = "listed" /\ task'[r][i] \in {"rowed", "broken"}
          /\ \A j \in Slots \ {i} : task'[r][j] = task[r][j]
      BY <2>11 DEF Insert
    <3> QED  BY <3>1
  <2>12. ASSUME NEW i \in Slots, RenameBack(r, i) PROVE BookOf(r)'
    <3>1. /\ UNCHANGED <<phase, refs, task, renamed, rows>>
          /\ phase[r] = "undo" /\ undo'[r] = undo[r] \ {i}
          /\ \A j \in Slots : lapse[r][j] # "none" => lapse'[r][j] # "none"
      <4>1. CASE UNCHANGED lapse
        BY <2>12, <4>1 DEF RenameBack
      <4>2. CASE lapse' = [lapse EXCEPT ![r][i] = "not back"]
        BY <2>12, <4>2 DEF RenameBack
      <4> QED  BY <2>12, <4>1, <4>2 DEF RenameBack
    <3> QED  BY <3>1
  <2>13. CommitFails(r) \/ Remove(r) => BookOf(r)'
    <3>1. CommitFails(r) => BookOf(r)'
      BY DEF CommitFails
    <3>2. CASE Remove(r)
      <4>1. /\ UNCHANGED <<refs, task, renamed, undo>>
            /\ phase'[r] = "removed" /\ rows'[r] = {}
        BY <3>2 DEF Remove
      <4> QED  BY <4>1
    <3> QED  BY <3>1, <3>2
  <2> HIDE DEF TypeOK, BookOf, Become, SetTask
  <2> QED
    BY <1>2, <2>1, <2>2, <2>3, <2>4, <2>5, <2>6, <2>7, <2>8, <2>9, <2>10, <2>11,
       <2>12, <2>13 DEF CreateStep
<1>3. CASE Crash
  <2>1. ASSUME NEW r \in Requests PROVE BookOf(r)'
    <3>1. /\ UNCHANGED <<refs, lapse, rows>>
          /\ renamed'[r] = {} /\ undo'[r] = {}
          /\ \A i \in Slots : task'[r][i] = "none"
          /\ phase'[r] = IF phase[r] \in UnderWay THEN "lost" ELSE phase[r]
      BY <1>3 DEF Crash, NoTasks
    <3>2. Named(r)' = Named(r) /\ Paths(r)' = Paths(r)
      BY <3>1 DEF Named, Paths, File
    <3> QED  BY <1>0, <3>1, <3>2 DEF BookOf, UnderWay
  <2> QED  BY <2>1 DEF BookInv
<1> QED
  BY <1>0, <1>1, <1>2, <1>3, NobodysStep, OthersUntouched, UntouchedBook
     DEF Next, BookInv

LEMMA BookInvariant == Spec => [](TypeOK /\ BookInv)
<1>1. Init => TypeOK /\ BookInv
  BY TypeInit, BookInit
<1>2. TypeOK /\ BookInv /\ [Next]_vars => TypeOK' /\ BookInv'
  BY TypeNext, BookNext
<1> QED  BY <1>1, <1>2, PTL DEF Spec

\* Every behaviour keeps every variable in its type.
THEOREM TypeCorrect == Spec => []TypeOK
BY BookInvariant, PTL

(***************************************************************************)
(* Where files are.  A file is in a movie's folder because the movie's     *)
(* request has moved it there and has not yet to give it up, or because a  *)
(* request that had named it in that folder has put it back there.  Only   *)
(* the former can take it away, or one that names it by that path.         *)
(***************************************************************************)
\* r has moved the file of slot i to its folder, and may still have to.
Reason(r, i) ==
  \/ phase[r] \in {"commit", "created", "lost", "removed"}
  \/ phase[r] = "move" /\ (\/ task[r][i] \in {"moved", "listed", "rowed"}
                           \/ i \in renamed[r])
  \/ phase[r] = "undo" /\ i \in undo[r]
  \/ phase[r] \in {"undo", "failed"} /\ lapse[r][i] # "none"

PlaceInv ==
  \A r \in Requests, f \in Files : where[f] = r =>
    \/ NamedIn(r, f)
    \/ \E i \in Named(r) : File(r, i) = f /\ Reason(r, i)

\* What a request has moved and not given up is there, or has been taken.
KeptInv ==
  \A r \in Requests : phase[r] \in {"move", "commit"} =>
    \A i \in Named(r) : task[r][i] \in {"moved", "listed", "rowed"} =>
      where[File(r, i)] = r \/ NamedIn(r, File(r, i))

FilesInv == TypeOK /\ BookInv /\ PlaceInv /\ KeptInv /\ RowsPointAtFiles

LEMMA FilesInit == Init => FilesInv
<1> SUFFICES ASSUME Init PROVE FilesInv
  OBVIOUS
<1>1. TypeOK /\ BookInv
  BY TypeInit, BookInit
<1> QED
  BY <1>1 DEF Init, FilesInv, PlaceInv, KeptInv, RowsPointAtFiles

\* A file that has been named in a folder stays so: what a request names does
\* not change.
LEMMA NamedStays ==
  ASSUME TypeOK, BookInv, [Next]_vars
  PROVE  /\ \A r \in Requests, f \in Files : NamedIn(r, f) => NamedIn(r, f)'
         /\ \A r \in Requests : Named(r) # {} => refs'[r] = refs[r]
<1>1. \A r \in Requests : Named(r) # {} => refs'[r] = refs[r]
  <2>1. ASSUME NEW r \in Requests, NEW list \in RefLists, Request(r, list)
        PROVE  \A q \in Requests : Named(q) # {} => refs'[q] = refs[q]
    BY <2>1 DEF Request, BookInv, BookOf, TypeOK
  <2>2. ASSUME NEW r \in Requests, CreateStep(r) \/ CommitFails(r) \/ Remove(r)
        PROVE  UNCHANGED refs
    BY <2>2 DEF CreateStep, Check, Statted, Catch, Throw, Reread, Commit, Stat,
                Rename, Listed, Insert, RenameBack, CommitFails, Remove
  <2> QED
    BY <2>1, <2>2 DEF Next, Upload, Expire, Unlink, StartCleanup, Crash, vars,
                      requestVars
<1>2. ASSUME NEW r \in Requests, NEW f \in Files, NamedIn(r, f)
      PROVE  NamedIn(r, f)'
  <2>1. PICK q \in Requests : \E i \in Named(q) :
          refs[q][i] = [folder |-> r, file |-> f]
    BY <1>2 DEF NamedIn
  <2>2. PICK i \in Named(q) : refs[q][i] = [folder |-> r, file |-> f]
    BY <2>1
  <2> QED  BY <1>1, <2>2 DEF NamedIn, Named
<1> QED  BY <1>1, <1>2

\* How a step may change where files are.
LEMMA Moves ==
  ASSUME TypeOK, BookInv, [Next]_vars
  PROVE  \/ UNCHANGED where
         \/ \E f \in Files : /\ where[f] \in {"nowhere", "temp"}
                             /\ \/ where' = [where EXCEPT ![f] = "temp"]
                                \/ /\ where' = [where EXCEPT ![f] = "gone"]
                                   /\ f \in targets
         \/ \E r \in Requests : \E i \in Named(r) :
              /\ Rename(r, i) /\ where[File(r, i)] = Folder(r, i)
              /\ where' = [where EXCEPT ![File(r, i)] = r]
              /\ task'[r][i] = "moved"
         \/ \E r \in Requests : \E i \in Named(r) :
              /\ RenameBack(r, i) /\ where[File(r, i)] = r
              /\ where' = [where EXCEPT ![File(r, i)] = Folder(r, i)]
<1> DEFINE Moved ==
      \/ UNCHANGED where
      \/ \E f \in Files : /\ where[f] \in {"nowhere", "temp"}
                          /\ \/ where' = [where EXCEPT ![f] = "temp"]
                             \/ /\ where' = [where EXCEPT ![f] = "gone"]
                                /\ f \in targets
      \/ \E r \in Requests : \E i \in Named(r) :
           /\ Rename(r, i) /\ where[File(r, i)] = Folder(r, i)
           /\ where' = [where EXCEPT ![File(r, i)] = r]
           /\ task'[r][i] = "moved"
      \/ \E r \in Requests : \E i \in Named(r) :
           /\ RenameBack(r, i) /\ where[File(r, i)] = r
           /\ where' = [where EXCEPT ![File(r, i)] = Folder(r, i)]
<1>1. ASSUME NEW f \in Files, Upload(f) \/ Expire(f) \/ Unlink(f) PROVE Moved
  BY <1>1 DEF Upload, Expire, Unlink, requestVars
<1>2. ASSUME NEW r \in Requests, NEW i \in Slots, Rename(r, i) PROVE Moved
  <2>1. i \in Named(r)
    BY <1>2 DEF Rename, BookInv, BookOf
  <2>2. CASE UNCHANGED where
    BY <2>2
  <2>3. CASE /\ where[File(r, i)] = Folder(r, i)
             /\ where' = [where EXCEPT ![File(r, i)] = r]
             /\ SetTask(r, i, "moved")
    <3>1. task'[r][i] = "moved"
      BY <2>1, <2>3, NamedSlots DEF SetTask, TypeOK
    <3> QED  BY <1>2, <2>1, <2>3, <3>1
  <2> HIDE DEF Moved
  <2> QED  BY <1>2, <2>2, <2>3 DEF Rename
<1>3. ASSUME NEW r \in Requests, NEW i \in Slots, RenameBack(r, i) PROVE Moved
  <2>1. i \in Named(r)
    BY <1>3 DEF RenameBack, BookInv, BookOf
  <2> QED  BY <1>3, <2>1 DEF RenameBack
<1>4. ASSUME NEW r \in Requests,
             \/ \E list \in RefLists : Request(r, list)
             \/ Check(r) \/ Statted(r) \/ Catch(r) \/ Throw(r) \/ Reread(r)
             \/ Commit(r) \/ CommitFails(r) \/ Remove(r)
             \/ \E i \in Slots : Stat(r, i) \/ Listed(r, i) \/ Insert(r, i)
      PROVE  UNCHANGED where
  BY <1>4 DEF Request, Check, Statted, Catch, Throw, Reread, Commit, CommitFails,
              Remove, Stat, Listed, Insert, Become
<1>5. StartCleanup \/ Crash \/ UNCHANGED vars => UNCHANGED where
  BY DEF StartCleanup, Crash, vars
<1> HIDE DEF Moved
<1>6. Moved
  BY <1>1, <1>2, <1>3, <1>4, <1>5 DEF Next, CreateStep, Moved
<1> QED  BY <1>6 DEF Moved

\* Nobody takes a file out of the folder of r who has not named it there, but
\* for the catch block of r.
LEMMA FileStays ==
  ASSUME TypeOK, BookInv, [Next]_vars, NEW r \in Requests, NEW f \in Files,
         where[f] = r, phase[r] # "undo"
  PROVE  where'[f] = r \/ NamedIn(r, f)
<1>1. where[f] \notin {"nowhere", "temp", "gone"}
  OBVIOUS
<1>2. ASSUME NEW q \in Requests, NEW i \in Named(q), File(q, i) = f,
             where[f] = Folder(q, i)
      PROVE  NamedIn(r, f)
  BY <1>2, NamedSlots DEF NamedIn
<1>3. ASSUME NEW q \in Requests, NEW i \in Named(q), RenameBack(q, i),
             where[File(q, i)] = q
      PROVE  File(q, i) # f
  BY <1>3 DEF RenameBack
<1> QED  BY <1>1, <1>2, <1>3, Moves, NamedSlots DEF TypeOK

\* A reason stays until the catch block has renamed the file back.
LEMMA ReasonStays ==
  ASSUME TypeOK, BookInv, [Next]_vars, NEW r \in Requests, NEW i \in Named(r),
         Reason(r, i)
  PROVE  \/ Reason(r, i)'
         \/ /\ RenameBack(r, i) /\ where[File(r, i)] = r
            /\ where' = [where EXCEPT ![File(r, i)] = Folder(r, i)]
<1>0. i \in Slots /\ BookOf(r)
  BY NamedSlots DEF BookInv
<1>1. Untouched(r) => Reason(r, i)'
  BY DEF Untouched, Reason
<1>2. Crash => Reason(r, i)'
  BY DEF Crash, Reason, UnderWay, TypeOK
<1> USE <1>0 DEF TypeOK, Reason, Become, SetTask
<1>3. ASSUME NEW list \in RefLists, Request(r, list) PROVE FALSE
  BY <1>3 DEF Request
<1>4. Check(r) \/ Throw(r) \/ Commit(r) \/ CommitFails(r) \/ Remove(r) => Reason(r, i)'
  BY DEF Check, Throw, Commit, CommitFails, Remove
<1>5. Statted(r) => Reason(r, i)'
  BY DEF Statted
<1>6. CASE Catch(r)
  <2>1. /\ phase[r] = "move" /\ phase'[r] = "undo" /\ undo'[r] = renamed[r]
        /\ task[r][i] = "moved" => lapse'[r][i] # "none"
    BY <1>6 DEF Catch, Undone
  <2> QED  BY <2>1 DEF BookOf
<1>7. CASE Reread(r)
  <2>1. \/ Become(r, "commit")
        \/ /\ Become(r, "failed")
           /\ lapse' = [lapse EXCEPT ![r] =
                [j \in Slots |-> IF j \in Named(r) THEN "unread" ELSE "none"]]
    BY <1>7 DEF Reread
  <2>2. ASSUME lapse' = [lapse EXCEPT ![r] =
                [j \in Slots |-> IF j \in Named(r) THEN "unread" ELSE "none"]]
        PROVE  lapse'[r][i] # "none"
    BY <2>2
  <2> QED  BY <2>1, <2>2
<1>8. ASSUME NEW j \in Slots,
             Stat(r, j) \/ Rename(r, j) \/ Listed(r, j) \/ Insert(r, j)
      PROVE  Reason(r, i)'
  <2>1. /\ UNCHANGED <<phase, undo, lapse>> /\ renamed[r] \subseteq renamed'[r]
        /\ j # i => task'[r][i] = task[r][i]
    BY <1>8 DEF Stat, Rename, Listed, Insert
  <2>2. /\ task[r][i] = "moved" => task'[r][i] \in {"moved", "listed"}
        /\ task[r][i] \in {"listed", "rowed"} => i \in renamed[r]
    BY <1>8 DEF Stat, Rename, Listed, Insert, BookOf
  <2> QED  BY <2>1, <2>2
<1>9. ASSUME NEW j \in Slots, RenameBack(r, j)
      PROVE  \/ Reason(r, i)'
             \/ /\ j = i /\ where[File(r, i)] = r
                /\ where' = [where EXCEPT ![File(r, i)] = Folder(r, i)]
  <2>1. phase[r] = "undo" /\ phase' = phase /\ undo'[r] = undo[r] \ {j}
    BY <1>9 DEF RenameBack
  <2>2. CASE /\ where[File(r, j)] = r
             /\ where' = [where EXCEPT ![File(r, j)] = Folder(r, j)]
             /\ UNCHANGED lapse
    <3>1. CASE j = i
      BY <2>2, <3>1
    <3>2. CASE j # i
      BY <2>1, <2>2, <3>2
    <3> QED  BY <3>1, <3>2
  <2>3. CASE lapse' = [lapse EXCEPT ![r][j] = "not back"]
    BY <2>1, <2>3
  <2> QED  BY <1>9, <2>2, <2>3 DEF RenameBack
<1> HIDE DEF TypeOK, Reason, Become, SetTask
<1>10. ASSUME NEW q \in Requests \ {r},
              \/ \E list \in RefLists : Request(q, list)
              \/ CreateStep(q) \/ CommitFails(q) \/ Remove(q)
       PROVE  Reason(r, i)'
  BY <1>1, <1>10, OthersUntouched
<1> QED
  BY <1>1, <1>2, <1>3, <1>4, <1>5, <1>6, <1>7, <1>8, <1>9, <1>10, NobodysStep
     DEF Next, CreateStep

LEMMA PlaceNext ==
  ASSUME TypeOK, BookInv, PlaceInv, BookInv', [Next]_vars
  PROVE  PlaceInv'
<1> SUFFICES ASSUME NEW r \in Requests, NEW f \in Files, where'[f] = r,
                    ~NamedIn(r, f)'
             PROVE  (\E i \in Named(r) : File(r, i) = f /\ Reason(r, i))'
  BY DEF PlaceInv
<1>1. ~NamedIn(r, f)
  BY NamedStays
<1>2. ASSUME NEW i \in Named(r), File(r, i) = f, Reason(r, i)'
      PROVE  (\E j \in Named(r) : File(r, j) = f /\ Reason(r, j))'
  <2>1. refs'[r] = refs[r]
    BY NamedStays
  <2>2. i \in Named(r)' /\ File(r, i)' = f
    BY <1>2, <2>1 DEF Named, File
  <2> QED  BY <1>2, <2>2
<1>3. ASSUME NEW q \in Requests, NEW i \in Named(q), File(q, i) = f
      PROVE  Folder(q, i) # r
  BY <1>1, <1>3, NamedSlots DEF NamedIn
<1>4. CASE where[f] = r
  <2>1. PICK i \in Named(r) : File(r, i) = f /\ Reason(r, i)
    BY <1>1, <1>4 DEF PlaceInv
  <2>2. where' # [where EXCEPT ![File(r, i)] = Folder(r, i)]
    BY <1>3, <2>1 DEF TypeOK
  <2> QED  BY <1>2, <2>1, <2>2, ReasonStays
<1>5. CASE where[f] # r
  <2>1. PICK q \in Requests : \E i \in Named(q) :
          /\ Rename(q, i) /\ task'[q][i] = "moved"
          /\ where' = [where EXCEPT ![File(q, i)] = q]
    <3>1. ASSUME NEW q \in Requests, NEW i \in Named(q), File(q, i) \in Files,
                 where' = [where EXCEPT ![File(q, i)] = Folder(q, i)]
          PROVE  FALSE
      BY <1>3, <1>5, <3>1 DEF TypeOK
    <3>2. ~UNCHANGED where
      BY <1>5
    <3>3. ASSUME NEW g \in Files, NEW p \in {"temp", "gone"},
                 where' = [where EXCEPT ![g] = p]
          PROVE  FALSE
      BY <1>5, <3>3 DEF TypeOK
    <3> QED  BY <3>1, <3>2, <3>3, Moves, NamedSlots
  <2>2. PICK i \in Named(q) : /\ Rename(q, i) /\ task'[q][i] = "moved"
                              /\ where' = [where EXCEPT ![File(q, i)] = q]
    BY <2>1
  <2>3. q = r /\ File(r, i) = f
    BY <1>5, <2>2, NamedSlots DEF TypeOK
  <2>4. Reason(r, i)'
    <3>1. BookOf(r)' /\ i \in Slots
      BY <2>3, NamedSlots DEF BookInv
    <3>2. phase'[r] \in Phases
      BY <2>2, <2>3 DEF Rename, TypeOK
    <3> QED  BY <2>2, <2>3, <3>1, <3>2 DEF BookOf, Reason, Phases, UnderWay, Ended
  <2> QED  BY <1>2, <2>3, <2>4
<1> QED  BY <1>4, <1>5

\* What a request has moved while it is under way, it has moved in this step or
\* had moved before it.
LEMMA MovedBefore ==
  ASSUME TypeOK, BookInv, [Next]_vars, NEW r \in Requests,
         phase'[r] \in {"move", "commit"}, NEW i \in Slots,
         task'[r][i] \in {"moved", "listed", "rowed"}
  PROVE  \/ Rename(r, i) /\ where' = [where EXCEPT ![File(r, i)] = r]
         \/ /\ phase[r] \in {"move", "commit"}
            /\ task[r][i] \in {"moved", "listed", "rowed"}
<1>0. BookOf(r)
  BY DEF BookInv
<1>1. ASSUME Untouched(r) \/ \E j \in Slots : Listed(r, j) \/ Insert(r, j)
      PROVE  /\ phase[r] \in {"move", "commit"}
             /\ task[r][i] \in {"moved", "listed", "rowed"}
  BY <1>1 DEF Untouched, Listed, Insert, SetTask, TypeOK
<1>2. Crash => FALSE
  BY DEF Crash, NoTasks
<1> USE DEF TypeOK, Become, SetTask
<1>3. ASSUME \/ \E list \in RefLists : Request(r, list)
             \/ Check(r) \/ Catch(r) \/ Throw(r) \/ Commit(r)
             \/ CommitFails(r) \/ Remove(r)
             \/ \E j \in Slots : Stat(r, j) \/ RenameBack(r, j)
      PROVE  FALSE
  BY <1>3 DEF Request, Check, Catch, Throw, Commit, CommitFails, Remove, Stat,
              RenameBack
<1>4. CASE Statted(r)
  <2>1. CASE UNCHANGED task
    BY <1>0, <1>4, <2>1 DEF Statted, BookOf
  <2>2. CASE task' = [task EXCEPT ![r] =
               [j \in Slots |-> IF j \in Named(r) THEN "moving" ELSE "none"]]
    BY <2>2
  <2> QED  BY <1>4, <2>1, <2>2 DEF Statted
<1>5. CASE Reread(r)
  BY <1>5 DEF Reread, AllRowed
<1>6. ASSUME NEW j \in Slots, Rename(r, j)
      PROVE  \/ Rename(r, i) /\ where' = [where EXCEPT ![File(r, i)] = r]
             \/ /\ phase[r] \in {"move", "commit"}
                /\ task[r][i] \in {"moved", "listed", "rowed"}
  <2>1. CASE j = i
    BY <1>6, <2>1 DEF Rename
  <2>2. CASE j # i
    BY <1>6, <2>2 DEF Rename
  <2> QED  BY <2>1, <2>2
<1> HIDE DEF TypeOK, Become, SetTask
<1> QED
  BY <1>1, <1>2, <1>3, <1>4, <1>5, <1>6, OthersUntouched, NobodysStep
     DEF Next, CreateStep

LEMMA KeptNext ==
  ASSUME TypeOK, BookInv, KeptInv, [Next]_vars
  PROVE  KeptInv'
<1> SUFFICES ASSUME NEW r \in Requests, phase'[r] \in {"move", "commit"},
                    NEW i \in Named(r)',
                    task'[r][i] \in {"moved", "listed", "rowed"}
             PROVE  (where[File(r, i)] = r \/ NamedIn(r, File(r, i)))'
  BY DEF KeptInv
<1>1. /\ refs'[r] = refs[r]
      /\ i \in Named(r) /\ i \in Slots /\ File(r, i) \in Files
  <2>1. Named(r) # {}
    <3>1. ASSUME NEW list \in RefLists, Request(r, list) PROVE FALSE
      BY <3>1 DEF Request, Become, TypeOK
    <3>2. refs'[r] = refs[r]
      <4>1. CreateStep(r) \/ CommitFails(r) \/ Remove(r) \/ Crash => UNCHANGED refs
        BY DEF CreateStep, Check, Statted, Catch, Throw, Reread, Commit, Stat,
               Rename, Listed, Insert, RenameBack, CommitFails, Remove, Crash
      <4>2. Untouched(r) => refs'[r] = refs[r]
        BY DEF Untouched
      <4> QED  BY <3>1, <4>1, <4>2, OthersUntouched, NobodysStep DEF Next
    <3> QED  BY <3>2 DEF Named
  <2>2. refs'[r] = refs[r]
    BY <2>1, NamedStays
  <2> QED  BY <2>2, NamedSlots DEF Named
<1>2. PICK f \in Files : f = File(r, i) /\ File(r, i)' = f
  BY <1>1 DEF File
<1>3. CASE Rename(r, i) /\ where' = [where EXCEPT ![File(r, i)] = r]
  BY <1>2, <1>3 DEF TypeOK
<1>4. CASE /\ phase[r] \in {"move", "commit"}
           /\ task[r][i] \in {"moved", "listed", "rowed"}
  <2>1. where[f] = r \/ NamedIn(r, f)
    BY <1>1, <1>2, <1>4 DEF KeptInv
  <2>2. where'[f] = r \/ NamedIn(r, f)
    BY <1>4, <2>1, FileStays
  <2>3. NamedIn(r, f) => NamedIn(r, f)'
    BY NamedStays
  <2>4. where'[f] = r \/ NamedIn(r, f)'
    BY <2>2, <2>3
  <2> QED  BY <1>2, <2>4 DEF NamedIn
<1> QED  BY <1>1, <1>3, <1>4, MovedBefore

LEMMA RowsNext ==
  ASSUME TypeOK, BookInv, KeptInv, RowsPointAtFiles, [Next]_vars
  PROVE  RowsPointAtFiles'
<1> SUFFICES ASSUME NEW r \in Requests, NEW f \in rows'[r], ~NamedIn(r, f)'
             PROVE  where'[f] = r
  BY DEF RowsPointAtFiles
<1>1. \/ rows'[r] \subseteq rows[r]
      \/ phase[r] = "commit" /\ rows'[r] = Paths(r)
  <2>1. Untouched(r) \/ Crash => rows'[r] \subseteq rows[r]
    BY DEF Untouched, Crash
  <2>2. ASSUME \/ \E list \in RefLists : Request(r, list)
               \/ Check(r) \/ Statted(r) \/ Catch(r) \/ Throw(r) \/ Reread(r)
               \/ CommitFails(r) \/ Remove(r)
               \/ \E i \in Slots : \/ Stat(r, i) \/ Rename(r, i) \/ Listed(r, i)
                                   \/ Insert(r, i) \/ RenameBack(r, i)
        PROVE  rows'[r] \subseteq rows[r]
    BY <2>2 DEF Request, Check, Statted, Catch, Throw, Reread, CommitFails,
                Remove, Stat, Rename, Listed, Insert, RenameBack, Become, TypeOK
  <2>3. Commit(r) => phase[r] = "commit" /\ rows'[r] = Paths(r)
    BY DEF Commit, TypeOK
  <2> QED
    BY <2>1, <2>2, <2>3, OthersUntouched, NobodysStep DEF Next, CreateStep
<1>2. phase[r] # "undo" /\ f \in Files /\ (where[f] = r \/ NamedIn(r, f))
  <2>1. CASE rows'[r] \subseteq rows[r]
    BY <2>1 DEF RowsPointAtFiles, BookInv, BookOf, TypeOK
  <2>2. CASE phase[r] = "commit" /\ rows'[r] = Paths(r)
    <3>1. PICK i \in Named(r) : f = File(r, i)
      BY <2>2 DEF Paths
    <3>2. task[r][i] = "rowed"
      BY <2>2 DEF BookInv, BookOf
    <3> QED  BY <2>2, <3>1, <3>2, NamedSlots DEF KeptInv
  <2> QED  BY <1>1, <2>1, <2>2
<1>3. ~NamedIn(r, f)
  BY <1>2, NamedStays
<1> QED  BY <1>2, <1>3, FileStays

LEMMA FilesNext == FilesInv /\ [Next]_vars => FilesInv'
<1> SUFFICES ASSUME FilesInv, [Next]_vars PROVE FilesInv'
  OBVIOUS
<1> USE DEF FilesInv
<1>1. TypeOK' /\ BookInv'
  BY TypeNext, BookNext
<1> QED  BY <1>1, PlaceNext, KeptNext, RowsNext

LEMMA FilesInvariant == Spec => []FilesInv
BY FilesInit, FilesNext, PTL DEF Spec

\* However clean-ups, competing requests for the same upload, failures and
\* crashes fall between the steps of a create, a committed movie_file row points
\* at a file that is there, unless a request names that file in its folder.
THEOREM RowsKeepTheirFiles == Spec => []RowsPointAtFiles
<1>1. FilesInv => RowsPointAtFiles
  BY DEF FilesInv
<1> QED  BY <1>1, FilesInvariant, PTL

(***************************************************************************)
(* What a request that has failed leaves behind.                           *)
(***************************************************************************)
\* Whatever crashes and competes for its uploads, a create request that ends
\* with an exception of its handler has left a file in the folder of its movie
\* for one of the three causes the model names and no other.
THEOREM FilesAreStrandedForCause == Spec => []StrandedForCause
<1>1. FilesInv => StrandedForCause
  <2> SUFFICES ASSUME FilesInv,
                      NEW r \in Requests, phase[r] \in {"created", "failed"},
                      NEW f \in Files, where[f] = r, ~NamedIn(r, f)
               PROVE  f \in rows[r] \/ LeftFor(r, f, Lapses \ {"none"})
    BY DEF StrandedForCause
  <2>1. PICK i \in Named(r) : File(r, i) = f /\ Reason(r, i)
    BY DEF FilesInv, PlaceInv
  <2>2. CASE phase[r] = "created"
    <3>1. f \in Paths(r)
      BY <2>1 DEF Paths
    <3>2. rows[r] = Paths(r)
      BY <2>2 DEF FilesInv, BookInv, BookOf
    <3> QED  BY <3>1, <3>2
  <2>3. CASE phase[r] = "failed"
    <3>1. lapse[r][i] \in Lapses \ {"none"}
      BY <2>1, <2>3, NamedSlots DEF Reason, FilesInv, TypeOK
    <3> QED  BY <2>1, <3>1 DEF LeftFor
  <2> QED  BY <2>2, <2>3
<1> QED  BY <1>1, FilesInvariant, PTL

\* The request whose catch block runs with a rename in flight names two files
\* at the least: with one, the slot that broke is the only one.
NoneInFlight == \A r \in Requests, i \in Slots : lapse[r][i] # "in flight"

LEMMA NoneInFlightNext ==
  ASSUME MaxRefs = 1
  PROVE  FilesInv /\ NoneInFlight /\ [Next]_vars => NoneInFlight'
<1> SUFFICES ASSUME FilesInv, NoneInFlight, [Next]_vars PROVE NoneInFlight'
  OBVIOUS
<1>0. TypeOK /\ Slots = {1}
  BY DEF FilesInv, Slots
<1>1. ASSUME NEW r \in Requests, Untouched(r), NEW i \in Slots
      PROVE  lapse'[r][i] # "in flight"
  BY <1>1 DEF Untouched, NoneInFlight
<1>2. ASSUME NEW r \in Requests,
             \/ \E list \in RefLists : Request(r, list)
             \/ CreateStep(r) \/ CommitFails(r) \/ Remove(r),
             NEW i \in Slots
      PROVE  lapse'[r][i] # "in flight"
  <2>1. CASE Catch(r)
    <3>1. task[r][i] = "broken"
      BY <1>0, <2>1, NamedSlots DEF Catch
    <3> QED  BY <1>0, <2>1, <3>1 DEF Catch, TypeOK
  <2>2. CASE Reread(r)
    <3>1. CASE UNCHANGED lapse
      BY <3>1 DEF NoneInFlight
    <3>2. CASE lapse' = [lapse EXCEPT ![r] =
                 [j \in Slots |-> IF j \in Named(r) THEN "unread" ELSE "none"]]
      BY <1>0, <3>2 DEF TypeOK
    <3> QED  BY <2>2, <3>1, <3>2 DEF Reread
  <2>3. ASSUME NEW j \in Slots, RenameBack(r, j) PROVE lapse'[r][i] # "in flight"
    <3>1. CASE UNCHANGED lapse
      BY <3>1 DEF NoneInFlight
    <3>2. CASE lapse' = [lapse EXCEPT ![r][j] = "not back"]
      BY <1>0, <3>2 DEF TypeOK, NoneInFlight
    <3> QED  BY <2>3, <3>1, <3>2 DEF RenameBack
  <2>4. ASSUME \/ \E list \in RefLists : Request(r, list)
               \/ Check(r) \/ Statted(r) \/ Throw(r) \/ Commit(r)
               \/ CommitFails(r) \/ Remove(r)
               \/ \E j \in Slots : \/ Stat(r, j) \/ Rename(r, j) \/ Listed(r, j)
                                   \/ Insert(r, j)
        PROVE  UNCHANGED lapse
    BY <2>4 DEF Request, Check, Statted, Throw, Commit, CommitFails, Remove,
                Stat, Rename, Listed, Insert
  <2> QED  BY <1>2, <2>1, <2>2, <2>3, <2>4 DEF CreateStep, NoneInFlight
<1>3. Crash => NoneInFlight'
  BY DEF Crash, NoneInFlight
<1> QED
  BY <1>0, <1>1, <1>2, <1>3, OthersUntouched, NobodysStep DEF Next, NoneInFlight

\* A create request for one file that ends with an exception of its handler has
\* left nothing in its folder, unless a rename back or the closing look-up
\* failed too, whatever crashes and competes for its upload.
THEOREM OneFileIsNotStranded ==
  ASSUME MaxRefs = 1
  PROVE  Spec => []NoStrandedFile
<1>1. Init => NoneInFlight
  BY DEF Init, NoneInFlight, NoTasks
<1>2. FilesInv /\ NoneInFlight => NoStrandedFile
  <2> SUFFICES ASSUME FilesInv, NoneInFlight,
                      NEW r \in Requests, phase[r] = "failed",
                      NEW f \in Files, where[f] = r, ~NamedIn(r, f)
               PROVE  LeftFor(r, f, {"not back", "unread"})
    BY DEF NoStrandedFile
  <2>1. PICK i \in Named(r) : File(r, i) = f /\ Reason(r, i)
    BY DEF FilesInv, PlaceInv
  <2>2. lapse[r][i] \in {"not back", "unread"}
    <3>1. i \in Slots
      BY <2>1, NamedSlots DEF FilesInv
    <3>2. lapse[r][i] # "none"
      BY <2>1 DEF Reason
    <3>3. lapse[r][i] \in Lapses
      BY <3>1 DEF FilesInv, TypeOK
    <3>4. lapse[r][i] # "in flight"
      BY <3>1 DEF NoneInFlight
    <3> QED  BY <3>2, <3>3, <3>4 DEF Lapses
  <2> QED  BY <2>1, <2>2 DEF LeftFor
<1> QED
  BY <1>1, <1>2, FilesInvariant, NoneInFlightNext, PTL DEF Spec

(***************************************************************************)
(* Create requests come to an end: EveryCreateEnds without its fairness.   *)
(* A handler that is under way always has a step to take, and each of its  *)
(* steps takes it further on a way of bounded length.                      *)
(***************************************************************************)
\* The guards of CreateStep(r): ENABLED written out.
HandlerGoes(r) ==
  \/ phase[r] \in {"check", "stat", "commit", "undo"}
  \/ \E i \in Slots : task[r][i] \in {"moving", "moved", "listed"}
  \/ phase[r] = "move" /\ \E i \in Named(r) : task[r][i] = "broken"
  \/ AllRowed(r)

HandlersGoOn == \A r \in Requests : phase[r] \in UnderWay => HandlerGoes(r)

\* Once the renames have been started, each file has its promise.
StartedInv ==
  \A r \in Requests : phase[r] = "move" =>
    \A i \in Named(r) : task[r][i] \notin {"none", "found", "missing"}

GoInv == FilesInv /\ StartedInv

LEMMA GoNext == GoInv /\ [Next]_vars => GoInv'
<1> SUFFICES ASSUME GoInv, [Next]_vars PROVE StartedInv'
  BY FilesNext DEF GoInv
<1>0. FilesInv /\ StartedInv /\ TypeOK
  BY DEF GoInv, FilesInv
<1>1. ASSUME NEW q \in Requests, Untouched(q), phase'[q] = "move",
             NEW i \in Named(q)'
      PROVE  task'[q][i] \notin {"none", "found", "missing"}
  BY <1>0, <1>1 DEF Untouched, StartedInv, Named
<1>2. ASSUME NEW r \in Requests,
             \/ \E list \in RefLists : Request(r, list)
             \/ CreateStep(r) \/ CommitFails(r) \/ Remove(r),
             phase'[r] = "move", NEW i \in Named(r)'
      PROVE  task'[r][i] \notin {"none", "found", "missing"}
  <2> USE <1>0 DEF TypeOK, Become, SetTask, Named
  <2>1. CASE Statted(r)
    BY <1>2, <2>1, NamedSlots DEF Statted
  <2>2. ASSUME NEW j \in Slots,
               \/ Stat(r, j) \/ Rename(r, j) \/ Listed(r, j) \/ Insert(r, j)
               \/ RenameBack(r, j)
        PROVE  task'[r][i] \notin {"none", "found", "missing"}
    <3>1. /\ UNCHANGED <<phase, refs>> /\ phase[r] # "stat"
          /\ \/ UNCHANGED task
             \/ \E t \in {"moved", "listed", "rowed", "broken"} : SetTask(r, j, t)
      BY <1>2, <2>2 DEF Stat, Rename, Listed, Insert, RenameBack
    <3>2. i \in Slots /\ task[r][i] \notin {"none", "found", "missing"}
      BY <1>2, <3>1, NamedSlots DEF StartedInv
    <3> QED  BY <3>1, <3>2
  <2>3. ~(\/ \E list \in RefLists : Request(r, list)
          \/ Check(r) \/ Catch(r) \/ Throw(r) \/ Reread(r) \/ Commit(r)
          \/ CommitFails(r) \/ Remove(r))
    BY <1>2 DEF Request, Check, Catch, Throw, Reread, Commit, CommitFails, Remove
  <2> QED  BY <1>2, <2>1, <2>2, <2>3 DEF CreateStep
<1>3. CASE Crash
  BY <1>0, <1>3 DEF Crash, TypeOK, StartedInv, UnderWay
<1> QED
  BY <1>0, <1>1, <1>2, <1>3, OthersUntouched, NobodysStep DEF Next, StartedInv

LEMMA GoInvariant == Spec => []GoInv
<1>1. Init => GoInv
  BY FilesInit DEF Init, GoInv, StartedInv
<1> QED  BY <1>1, GoNext, PTL DEF Spec

\* A create request is never left with nothing to wait for but what has come to
\* an end: stats, renames and INSERTs that fail, in any order, included.
THEOREM HandlersNeverHang == Spec => []HandlersGoOn
<1>1. ASSUME GoInv, NEW r \in Requests, phase[r] = "move" PROVE HandlerGoes(r)
  <2>1. ASSUME NEW i \in Named(r)
        PROVE  i \in Slots /\ task[r][i] \in
                 {"moving", "moved", "listed", "rowed", "broken"}
    BY <1>1, <2>1, NamedSlots DEF GoInv, FilesInv, TypeOK, Tasks, StartedInv
  <2> QED  BY <1>1, <2>1 DEF HandlerGoes, AllRowed
<1>2. GoInv => HandlersGoOn
  BY <1>1 DEF HandlersGoOn, UnderWay, HandlerGoes
<1> QED  BY <1>2, GoInvariant, PTL

\* How far a handler has come, and the promise of each of its files.
Order(r) == CASE phase[r] = "idle"  -> 0
              [] phase[r] = "check" -> 1
              [] phase[r] = "stat"  -> 2
              [] phase[r] = "move"  -> 3
              [] phase[r] \in {"undo", "commit"} -> 4
              [] OTHER              -> 5

Done(r, i) == CASE task[r][i] = "none"                 -> 0
                [] task[r][i] \in {"found", "missing"} -> 1
                [] task[r][i] = "moving"               -> 2
                [] task[r][i] = "moved"                -> 3
                [] task[r][i] = "listed"               -> 4
                [] OTHER                               -> 5

NoStepBack(r) ==
  /\ Order(r)' = Order(r) /\ undo'[r] \subseteq undo[r]
  /\ \A i \in Slots : Done(r, i)' >= Done(r, i)

StepForward(r) ==
  \/ Order(r)' > Order(r)
  \/ NoStepBack(r) /\ \/ undo'[r] # undo[r]
                      \/ \E i \in Slots : Done(r, i)' > Done(r, i)

CreatesGoForward ==
  \A r \in Requests :
    /\ phase[r] \in Ended => phase'[r] \in Ended
    /\ phase[r] \in UnderWay => /\ StepForward(r) \/ NoStepBack(r)
                                /\ CreateStep(r) => StepForward(r)

LEMMA CreateStepsForward ==
  ASSUME GoInv, NEW r \in Requests, CreateStep(r)
  PROVE  /\ phase[r] \in UnderWay => StepForward(r)
         /\ phase[r] \in Ended => phase'[r] \in Ended
<1>0. TypeOK
  BY DEF GoInv, FilesInv
<1> USE <1>0 DEF TypeOK, Become, SetTask, UnderWay, Ended
<1>1. \/ Check(r) \/ Statted(r) \/ Catch(r) \/ Throw(r) \/ Reread(r) \/ Commit(r)
      => phase[r] \notin Ended /\ Order(r)' > Order(r)
  <2>1. Check(r) => /\ phase[r] = "check"
                    /\ phase'[r] \in {"stat", "failed"}
    BY DEF Check
  <2>2. Statted(r) => phase[r] = "stat" /\ phase'[r] \in {"move", "failed"}
    BY DEF Statted
  <2>3. Catch(r) => phase[r] = "move" /\ phase'[r] = "undo"
    BY DEF Catch
  <2>4. Throw(r) => phase[r] = "undo" /\ phase'[r] = "failed"
    BY DEF Throw
  <2>5. Reread(r) => phase[r] = "move" /\ phase'[r] \in {"commit", "failed"}
    BY DEF Reread, AllRowed
  <2>6. Commit(r) => phase[r] = "commit" /\ phase'[r] = "created"
    BY DEF Commit
  <2> QED  BY <2>1, <2>2, <2>3, <2>4, <2>5, <2>6 DEF Order
<1>2. ASSUME NEW i \in Slots,
             Stat(r, i) \/ Rename(r, i) \/ Listed(r, i) \/ Insert(r, i)
      PROVE  phase' = phase /\ StepForward(r)
  <2>1. UNCHANGED <<phase, undo>>
    BY <1>2 DEF Stat, Rename, Listed, Insert
  <2>2. PICK t \in Tasks : SetTask(r, i, t)
    BY <1>2 DEF Stat, Rename, Listed, Insert, Tasks
  <2>3. \A j \in Slots \ {i} : task'[r][j] = task[r][j]
    BY <2>2
  <2>4. Done(r, i)' > Done(r, i)
    BY <1>2 DEF Stat, Rename, Listed, Insert, Done
  <2>5. \A j \in Slots : Done(r, j) \in Nat
    BY DEF Done
  <2>6. \A j \in Slots \ {i} : Done(r, j)' = Done(r, j)
    BY <2>3 DEF Done
  <2>7. Order(r)' = Order(r)
    BY <2>1 DEF Order
  <2>8. \A j \in Slots : Done(r, j)' >= Done(r, j)
    <3>1. Done(r, i)' \in Nat
      BY DEF Done
    <3> QED  BY <2>4, <2>5, <2>6, <3>1
  <2> QED  BY <2>1, <2>4, <2>7, <2>8 DEF StepForward, NoStepBack
<1>3. ASSUME NEW i \in Slots, RenameBack(r, i)
      PROVE  phase' = phase /\ StepForward(r)
  <2>1. /\ UNCHANGED <<phase, task>>
        /\ i \in undo[r] /\ undo'[r] = undo[r] \ {i}
    BY <1>3 DEF RenameBack
  <2>2. \A j \in Slots : Done(r, j) \in Nat /\ Done(r, j)' = Done(r, j)
    BY <2>1 DEF Done
  <2>3. Order(r)' = Order(r)
    BY <2>1 DEF Order
  <2> QED  BY <2>1, <2>2, <2>3 DEF StepForward, NoStepBack
<1> QED
  BY <1>1, <1>2, <1>3 DEF CreateStep, StepForward

LEMMA UntouchedStays ==
  ASSUME NEW r \in Requests, Untouched(r)
  PROVE  /\ NoStepBack(r) /\ ~StepForward(r)
         /\ phase[r] \in Ended => phase'[r] \in Ended
<1>1. /\ Order(r)' = Order(r) /\ Order(r) \in Nat
      /\ undo'[r] = undo[r] /\ phase'[r] = phase[r]
  BY DEF Untouched, Order
<1>2. \A i \in Slots : Done(r, i)' = Done(r, i) /\ Done(r, i) \in Nat
  BY DEF Untouched, Done
<1> QED  BY <1>1, <1>2 DEF NoStepBack, StepForward

\* Every step of create takes its request further and nothing takes a request
\* back that is under way, so that it takes a number of steps that its files
\* bound; an ended request stays ended, whatever is still in flight for it.
THEOREM CreatesWearOut == Spec => [][CreatesGoForward]_vars
<1>1. ASSUME GoInv, [Next]_vars PROVE CreatesGoForward
  <2>0. TypeOK
    BY <1>1 DEF GoInv, FilesInv
  <2>1. ASSUME NEW r \in Requests, Untouched(r)
        PROVE  /\ phase[r] \in Ended => phase'[r] \in Ended
               /\ phase[r] \in UnderWay => /\ StepForward(r) \/ NoStepBack(r)
                                           /\ CreateStep(r) => StepForward(r)
    BY <1>1, <2>1, UntouchedStays, CreateStepsForward
  <2>2. ASSUME NEW r \in Requests,
               \/ \E list \in RefLists : Request(r, list)
               \/ CommitFails(r) \/ Remove(r)
        PROVE  /\ phase[r] \in Ended => phase'[r] \in Ended
               /\ phase[r] \in UnderWay => StepForward(r)
    BY <2>0, <2>2 DEF Request, CommitFails, Remove, AllRowed, Become, TypeOK,
                      Ended, UnderWay, StepForward, Order
  <2>3. CASE Crash
    <3>1. ASSUME NEW r \in Requests
          PROVE  /\ phase[r] \in Ended => phase'[r] \in Ended
                 /\ phase[r] \in UnderWay => StepForward(r)
      BY <2>0, <2>3 DEF Crash, TypeOK, Ended, UnderWay, StepForward, Order
    <3> QED  BY <3>1 DEF CreatesGoForward
  <2>4. ASSUME NEW r \in Requests,
               \/ \E list \in RefLists : Request(r, list)
               \/ CreateStep(r) \/ CommitFails(r) \/ Remove(r)
        PROVE  CreatesGoForward
    BY <1>1, <2>0, <2>1, <2>2, <2>4, OthersUntouched, CreateStepsForward
       DEF CreatesGoForward
  <2> QED
    BY <1>1, <2>0, <2>1, <2>3, <2>4, NobodysStep DEF Next, CreatesGoForward
<1> QED  BY <1>1, GoInvariant, PTL DEF Spec
=============================================================================
