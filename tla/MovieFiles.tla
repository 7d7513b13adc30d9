----------------------------- MODULE MovieFiles -----------------------------
(***************************************************************************)
(* The life of an uploaded video file.  CommonController.createVideo puts  *)
(* it in public/temp; MovieService.create moves the files its request      *)
(* names, in public/temp or by a path in the folder of any movie, to the   *)
(* folder of the new movie, concurrently, inside the transaction that      *)
(* inserts the movie and its movie_file rows, and tries to move back what  *)
(* it has moved when one of them fails; deleteExpiredTempFiles of          *)
(* TasksService unlinks what stays in public/temp for more than a day.     *)
(* The disk takes part in no transaction.                                  *)
(*                                                                         *)
(* The id of a movie is drawn from a sequence when its row is inserted and *)
(* never used again, so a request and the movie it may create are one id.  *)
(***************************************************************************)
EXTENDS Naturals, FiniteSets

CONSTANTS Files,      \* names of uploads: a uuid and the time of the upload
          Requests,   \* create requests, and the movies they create
          Folders,    \* bound: the movies whose folders requests name
          MaxRefs     \* bound: how many files one request may name

ASSUME RefsAssumption  == MaxRefs \in Nat /\ Folders \subseteq Requests
ASSUME PlaceAssumption == Requests \cap {"nowhere", "temp", "gone"} = {}

\* What resolveSrcAbs makes of a reference: a name is one in public/temp, and a
\* path, absolute or not, is what it says, such as public/movie/<id>/<name>.
Refs == [folder : {"temp"} \cup Folders, file : Files]

\* What createMovieDto.files may hold after normalizeTempRefs: any references,
\* twice the same one included.
Slots    == 1 .. MaxRefs
RefLists == UNION {[1 .. n -> Refs] : n \in 0 .. MaxRefs}

VARIABLES
  where,     \* where each file is: "nowhere", "temp", "gone" or a movie's folder
  expired,   \* files whose name says they are more than a day old
  phase,     \* where each create request is in the handler
  refs,      \* the files it names
  task,      \* the state of the promise for each of them
  renamed,   \* create's array of that name: the renames it knows of
  undo,      \* the renames its catch block has still to take back
  lapse,     \* history: why the handler has left a file where it moved it
  rows,      \* the committed movie_file rows of each movie
  targets    \* deleteFilesTargets: what the running clean-up has to unlink

requestVars == <<phase, refs, task, renamed, undo, lapse>>
vars == <<where, expired, requestVars, rows, targets>>

UnderWay == {"check", "stat", "move", "commit", "undo"}

\* A request ends "created", "failed" by an exception of the handler, or "lost"
\* with a COMMIT or a server that failed; a "removed" movie was created before.
Ended == {"created", "failed", "lost", "removed"}

Phases == {"idle"} \cup UnderWay \cup Ended

\* found, missing: what stat said.  moving: rename is with the file system;
\* moved: it is done, but its callback has not run; listed: its entry is in
\* renamed, the INSERT of its row is under way; rowed, broken: the promise is
\* fulfilled, rejected.
Tasks == {"none", "found", "missing",
          "moving", "moved", "listed", "rowed", "broken"}

\* The rename of the file was under way when the catch block ran; the catch
\* block did not get it back; the closing look-up failed, after the try block.
Lapses == {"none", "in flight", "not back", "unread"}

TypeOK ==
  /\ where \in [Files -> {"nowhere", "temp", "gone"} \cup Requests]
  /\ expired \subseteq Files
  /\ phase \in [Requests -> Phases]
  /\ refs \in [Requests -> RefLists]
  /\ task \in [Requests -> [Slots -> Tasks]]
  /\ renamed \in [Requests -> SUBSET Slots]
  /\ undo \in [Requests -> SUBSET Slots]
  /\ lapse \in [Requests -> [Slots -> Lapses]]
  /\ rows \in [Requests -> SUBSET Files]
  /\ targets \subseteq Files

NoTasks == [i \in Slots |-> "none"]

Init ==
  /\ where = [f \in Files |-> "nowhere"]
  /\ expired = {}
  /\ phase = [r \in Requests |-> "idle"]
  /\ refs = [r \in Requests |-> [i \in 1 .. 0 |-> "nothing"]]
  /\ task = [r \in Requests |-> NoTasks]
  /\ renamed = [r \in Requests |-> {}]
  /\ undo = [r \in Requests |-> {}]
  /\ lapse = [r \in Requests |-> NoTasks]
  /\ rows = [r \in Requests |-> {}]
  /\ targets = {}

Named(r) == DOMAIN refs[r]

File(r, i)   == refs[r][i].file
Folder(r, i) == refs[r][i].folder

-----------------------------------------------------------------------------
(* Uploads and their age.                                                  *)

Upload(f) ==
  /\ where[f] = "nowhere"
  /\ where' = [where EXCEPT ![f] = "temp"]
  /\ UNCHANGED <<expired, requestVars, rows, targets>>

\* The time in the name of f is now more than a day ago.
Expire(f) ==
  /\ where[f] # "nowhere"
  /\ f \notin expired
  /\ expired' = expired \cup {f}
  /\ UNCHANGED <<where, requestVars, rows, targets>>

-----------------------------------------------------------------------------
(* MovieService.create.                                                    *)

Become(r, p) ==
  /\ phase' = [phase EXCEPT ![r] = p]
  /\ UNCHANGED <<where, expired, rows, targets>>

Request(r, list) ==
  /\ phase[r] = "idle"
  /\ refs' = [refs EXCEPT ![r] = list]
  /\ Become(r, "check")
  /\ UNCHANGED <<task, renamed, undo, lapse>>

\* The look-ups of title, director and genres, and the inserts of the detail,
\* the movie and its genres: any of them may end the request.
Check(r) ==
  /\ phase[r] = "check"
  /\ \E p \in {"stat", "failed"} : Become(r, p)
  /\ UNCHANGED <<refs, task, renamed, undo, lapse>>

SetTask(r, i, t) == task' = [task EXCEPT ![r][i] = t]

Stat(r, i) ==
  /\ phase[r] = "stat"
  /\ i \in Named(r)
  /\ task[r][i] = "none"
  /\ SetTask(r, i, IF where[File(r, i)] = Folder(r, i) THEN "found" ELSE "missing")
  /\ UNCHANGED <<where, expired, phase, refs, renamed, undo, lapse, rows, targets>>

\* Variant: create waits for files that are missing.
Settled_Waits(r) == \A i \in Named(r) : task[r][i] = "found"

Settled(r) == \A i \in Named(r) : task[r][i] # "none"

\* Every stat has settled: 400 if one failed, 500 if mkdir does.  Otherwise
\* refs.map starts every rename before the first of them is awaited.
Statted(r) ==
  /\ phase[r] = "stat"
  /\ Settled(r)
  /\ \/ Named(r) # {} /\ Become(r, "failed") /\ UNCHANGED task
     \/ /\ \A i \in Named(r) : task[r][i] = "found"
        /\ Become(r, "move")
        /\ task' = [task EXCEPT ![r] =
                      [i \in Slots |-> IF i \in Named(r) THEN "moving" ELSE "none"]]
  /\ UNCHANGED <<refs, renamed, undo, lapse>>

\* rename(srcAbs, destAbs): a file that has left its place meanwhile, for
\* another movie or by the clean-up, is ENOENT.  Nothing cancels a rename: it
\* also happens when the request has failed by now.
Rename(r, i) ==
  /\ task[r][i] = "moving"
  /\ \/ /\ where[File(r, i)] = Folder(r, i)
        /\ where' = [where EXCEPT ![File(r, i)] = r]
        /\ SetTask(r, i, "moved")
     \/ SetTask(r, i, "broken") /\ UNCHANGED where
  /\ UNCHANGED <<expired, phase, refs, renamed, undo, lapse, rows, targets>>

\* renamed.push, and the INSERT of the file's row is sent.
Listed(r, i) ==
  /\ task[r][i] = "moved"
  /\ SetTask(r, i, "listed")
  /\ renamed' = [renamed EXCEPT ![r] = @ \cup {i}]
  /\ UNCHANGED <<where, expired, phase, refs, undo, lapse, rows, targets>>

\* The INSERT succeeds only in a transaction that is still open, and may fail
\* in one that is not for long (Prisma's timeout).
Insert(r, i) ==
  /\ task[r][i] = "listed"
  /\ \/ phase[r] \in {"move", "undo"} /\ SetTask(r, i, "rowed")
     \/ SetTask(r, i, "broken")
  /\ UNCHANGED <<where, expired, phase, refs, renamed, undo, lapse, rows, targets>>

\* Variant: the catch block only rethrows.
Undone_Nothing(r) == {}

Undone(r) == renamed[r]

\* Promise.all rejects at the first rejection, whatever the others do: the
\* catch block maps over renamed as it is now.
Catch(r) ==
  /\ phase[r] = "move"
  /\ \E i \in Named(r) : task[r][i] = "broken"
  /\ undo' = [undo EXCEPT ![r] = Undone(r)]
  /\ lapse' = [lapse EXCEPT ![r] =
       [i \in Slots |-> IF task[r][i] \in {"moving", "moved"} THEN "in flight"
                                                             ELSE "none"]]
  /\ Become(r, "undo")
  /\ UNCHANGED <<refs, task, renamed>>

\* rename(destAbs, srcAbs), to where the file was.  Its failure is swallowed:
\* the file is no longer there, taken by a request that named it by that path,
\* or it stays.
RenameBack(r, i) ==
  /\ phase[r] = "undo"
  /\ i \in undo[r]
  /\ undo' = [undo EXCEPT ![r] = @ \ {i}]
  /\ \/ /\ where[File(r, i)] = r
        /\ where' = [where EXCEPT ![File(r, i)] = Folder(r, i)]
        /\ UNCHANGED lapse
     \/ lapse' = [lapse EXCEPT ![r][i] = "not back"] /\ UNCHANGED where
  /\ UNCHANGED <<expired, phase, refs, task, renamed, rows, targets>>

\* throw err: the transaction rolls back and the client is told.
Throw(r) ==
  /\ phase[r] = "undo"
  /\ undo[r] = {}
  /\ Become(r, "failed")
  /\ UNCHANGED <<refs, task, renamed, undo, lapse>>

\* Variant: the promises of refs.map are not awaited.
AllRowed_NotAwaited(r) ==
  phase[r] = "move" /\ \A i \in Named(r) : task[r][i] # "broken"

AllRowed(r) == phase[r] = "move" /\ \A i \in Named(r) : task[r][i] = "rowed"

\* The closing findUnique is behind the try block: nothing takes the moves back
\* when it fails, and the transaction rolls back.
Reread(r) ==
  /\ AllRowed(r)
  /\ \/ Become(r, "commit") /\ UNCHANGED lapse
     \/ /\ Become(r, "failed")
        /\ lapse' = [lapse EXCEPT ![r] =
             [i \in Slots |-> IF i \in Named(r) THEN "unread" ELSE "none"]]
  /\ UNCHANGED <<refs, task, renamed, undo>>

Paths(r) == {File(r, i) : i \in Named(r)}

Commit(r) ==
  /\ phase[r] = "commit"
  /\ rows' = [rows EXCEPT ![r] = Paths(r)]
  /\ phase' = [phase EXCEPT ![r] = "created"]
  /\ UNCHANGED <<where, expired, refs, task, renamed, undo, lapse, targets>>

\* COMMIT fails (the transaction's timeout, a lost connection): nothing takes
\* the moves back.
CommitFails(r) ==
  /\ phase[r] = "commit"
  /\ Become(r, "lost")
  /\ UNCHANGED <<refs, task, renamed, undo, lapse>>

\* MovieService.remove deletes the rows and leaves the files where they are.
Remove(r) ==
  /\ phase[r] = "created"
  /\ rows' = [rows EXCEPT ![r] = {}]
  /\ phase' = [phase EXCEPT ![r] = "removed"]
  /\ UNCHANGED <<where, expired, refs, task, renamed, undo, lapse, targets>>

CreateStep(r) ==
  \/ Check(r) \/ Statted(r) \/ Catch(r) \/ Throw(r) \/ Reread(r) \/ Commit(r)
  \/ \E i \in Slots : \/ Stat(r, i) \/ Rename(r, i) \/ Listed(r, i)
                      \/ Insert(r, i) \/ RenameBack(r, i)

-----------------------------------------------------------------------------
(* deleteExpiredTempFiles, every midnight.                                 *)

\* Variant: the comparison with a day is the wrong way round.
Stale_Reversed == Files \ expired

Stale == expired

StartCleanup ==
  /\ targets = {}
  /\ targets' = {f \in Stale : where[f] = "temp"}
  /\ targets' # {}
  /\ UNCHANGED <<where, expired, requestVars, rows>>

\* Every unlink is under way before one can fail: a file that was moved after
\* readdir makes the run end in the log, not the other unlinks.
Unlink(f) ==
  /\ f \in targets
  /\ targets' = targets \ {f}
  /\ where' = IF where[f] = "temp" THEN [where EXCEPT ![f] = "gone"] ELSE where
  /\ UNCHANGED <<expired, requestVars, rows>>

-----------------------------------------------------------------------------
\* The server process dies and is started again: every open transaction rolls
\* back, every promise is forgotten, the disk stays as it is.
Crash ==
  /\ phase' = [r \in Requests |-> IF phase[r] \in UnderWay THEN "lost" ELSE phase[r]]
  /\ task' = [r \in Requests |-> NoTasks]
  /\ renamed' = [r \in Requests |-> {}]
  /\ undo' = [r \in Requests |-> {}]
  /\ targets' = {}
  /\ UNCHANGED <<where, expired, refs, lapse, rows>>

Next ==
  \/ \E f \in Files : Upload(f) \/ Expire(f) \/ Unlink(f)
  \/ StartCleanup
  \/ \E r \in Requests : \/ \E list \in RefLists : Request(r, list)
                         \/ CreateStep(r)
                         \/ CommitFails(r)
                         \/ Remove(r)
  \/ Crash

Spec == Init /\ [][Next]_vars

\* Node runs what it has started, time passes, and the clean-up runs every
\* midnight.  No upload or request has to come, and nothing has to crash.
Fairness ==
  /\ \A r \in Requests : WF_vars(CreateStep(r))
  /\ \A f \in Files : WF_vars(Expire(f)) /\ WF_vars(Unlink(f))
  /\ WF_vars(StartCleanup)

FairSpec == Spec /\ Fairness

-----------------------------------------------------------------------------
(* What is meant to hold.                                                  *)

\* Some request has named f by its path in the folder of r.
NamedIn(r, f) ==
  \E q \in Requests : \E i \in Named(q) : refs[q][i] = [folder |-> r, file |-> f]

\* The path in every committed movie_file row is that of a file on the disk: no
\* clean-up, rollback or competing request for the same upload takes a file
\* away from a movie that was created with it.  Only a request that names the
\* file by its path in that movie's folder can, and nothing in create stops it.
RowsPointAtFiles ==
  \A r \in Requests : \A f \in rows[r] : where[f] = r \/ NamedIn(r, f)

LeftFor(r, f, causes) ==
  \E i \in Named(r) : File(r, i) = f /\ lapse[r][i] \in causes

\* "The transaction guarantees that movie, detail, genres and files are stored
\* atomically" (README.md), at the least when the disk and the database do what
\* they are asked after the renames: once the handler ends with an exception
\* none of the uploads it named is left in the folder of the movie that is not
\* there, unless a rename back or the closing look-up has itself failed.
NoStrandedFile ==
  \A r \in Requests : phase[r] = "failed" =>
    \A f \in Files : where[f] = r =>
      LeftFor(r, f, {"not back", "unread"}) \/ NamedIn(r, f)

\* A file in the folder of a request that is answered has its row there, or the
\* request has failed and left it for one of three causes: its rename was in
\* flight when the catch block ran, the catch block failed to rename it back,
\* or the closing look-up failed.  A request that named it in that very folder,
\* and put it back there, is the only other one.
StrandedForCause ==
  \A r \in Requests : phase[r] \in {"created", "failed"} =>
    \A f \in Files : where[f] = r =>
      \/ f \in rows[r]
      \/ LeftFor(r, f, Lapses \ {"none"})
      \/ NamedIn(r, f)

\* An upload does not stay in public/temp forever, whoever tries to use it,
\* unless the server crashes again and again.
TempIsReclaimed ==
  \/ []<><<Crash>>_vars
  \/ \A f \in Files : where[f] = "temp" ~> where[f] # "temp"

\* Every request for a movie is answered, whichever of its files fail.
EveryCreateEnds ==
  \A r \in Requests : phase[r] = "check" ~> phase[r] \in Ended
=============================================================================
