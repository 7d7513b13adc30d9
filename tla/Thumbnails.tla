----------------------------- MODULE Thumbnails -----------------------------
(***************************************************************************)
(* Uploads and their thumbnails, composed with the life of the uploaded    *)
(* files in MovieFiles.  CommonController.createVideo stores the files of  *)
(* a request, gives them their final names and adds one job for all of     *)
(* them to the queue thumbnail-generation; a process of its own, started   *)
(* with TYPE=worker, takes a picture of each file where it was uploaded.   *)
(* Meanwhile MovieService.create may move the files and the clean-up may   *)
(* delete them: nothing tells the queue.                                   *)
(***************************************************************************)
EXTENDS MovieFiles

CONSTANTS Uploads,      \* upload requests, and the jobs they add
          Videos,       \* files that ffmpeg can read: what is sent as
                        \* video/mp4 need not be one
          MaxAttempts   \* the option attempts of a job

ASSUME AttemptsAssumption == MaxAttempts \in Nat \ {0}

VARIABLES
  upload,    \* where each request is in createVideo
  batch,     \* the files it carries
  job,       \* its job: the queue is in Redis and survives both processes
  tries,     \* attempts of the job that have failed
  stalls,    \* how often the worker died at it
  shot       \* the promise for the picture of each file, in this attempt

jobVars == <<job, tries, stalls, shot>>
uploadVars == <<upload, batch>>
allVars == <<vars, uploadVars, jobVars>>

Jobs == {"none", "waiting", "active", "completed", "failed"}

ThumbTypeOK ==
  /\ TypeOK
  /\ upload \in [Uploads -> {"idle", "storing", "answered", "refused"}]
  /\ batch \in [Uploads -> SUBSET Files]
  /\ job \in [Uploads -> Jobs]
  /\ tries \in [Uploads -> 0 .. MaxAttempts]
  /\ stalls \in [Uploads -> 0 .. 2]
  /\ shot \in [Uploads -> [Files -> {"none", "started", "taken", "broken"}]]

NoShots == [f \in Files |-> "none"]

ThumbInit ==
  /\ Init
  /\ upload = [u \in Uploads |-> "idle"]
  /\ batch = [u \in Uploads |-> {}]
  /\ job = [u \in Uploads |-> "none"]
  /\ tries = [u \in Uploads |-> 0]
  /\ stalls = [u \in Uploads |-> 0]
  /\ shot = [u \in Uploads |-> NoShots]

-----------------------------------------------------------------------------
(* createVideo.                                                            *)

Receive(u, F) ==
  /\ upload[u] = "idle"
  /\ F \cap UNION {batch[v] : v \in Uploads} = {}
  /\ upload' = [upload EXCEPT ![u] = "storing"]
  /\ batch' = [batch EXCEPT ![u] = F]
  /\ UNCHANGED <<vars, jobVars>>

\* multer writes the file, and MovieFilesPipe gives it its name.
StoreFile(u, f) ==
  /\ upload[u] = "storing"
  /\ f \in batch[u]
  /\ Upload(f)
  /\ UNCHANGED <<uploadVars, jobVars>>

\* The pipe throws 400 for a size or mime type, or Redis cannot be reached:
\* what multer stored stays.
RefuseUpload(u) ==
  /\ upload[u] = "storing"
  /\ upload' = [upload EXCEPT ![u] = "refused"]
  /\ UNCHANGED <<vars, batch, jobVars>>

\* Variant for a run to refute: the renames of the pipe are not awaited.
AllStored_NotAwaited(u) == upload[u] = "storing"

AllStored(u) ==
  upload[u] = "storing" /\ \A f \in batch[u] : where[f] # "nowhere"

Enqueue(u) ==
  /\ AllStored(u)
  /\ upload' = [upload EXCEPT ![u] = "answered"]
  /\ job' = [job EXCEPT ![u] = "waiting"]
  /\ UNCHANGED <<vars, batch, tries, stalls, shot>>

\* The server dies: its uploads end, the jobs it has added stay.
ServerCrash ==
  /\ Crash
  /\ upload' = [u \in Uploads |-> IF upload[u] = "storing" THEN "refused"
                                                          ELSE upload[u]]
  /\ UNCHANGED <<batch, jobVars>>

-----------------------------------------------------------------------------
(* ThumbnailGenerationProcessor.process, one job at a time.                *)

\* One ffmpeg is started for each path before any of them is awaited.
Process(u) ==
  /\ job[u] = "waiting"
  /\ \A v \in Uploads : job[v] # "active"
  /\ job' = [job EXCEPT ![u] = "active"]
  /\ shot' = [shot EXCEPT ![u] = [f \in Files |->
                IF f \in batch[u] THEN "started" ELSE "none"]]
  /\ UNCHANGED <<vars, uploadVars, tries, stalls>>

\* ffmpeg opens the path in public/temp the job was given.  It goes on also
\* when the promise of another file has been rejected.
Screenshot(u, f) ==
  /\ shot[u][f] = "started"
  /\ shot' = [shot EXCEPT ![u][f] =
                IF where[f] = "temp" /\ f \in Videos THEN "taken" ELSE "broken"]
  /\ UNCHANGED <<vars, uploadVars, job, tries, stalls>>

Complete(u) ==
  /\ job[u] = "active"
  /\ \A f \in batch[u] : shot[u][f] = "taken"
  /\ job' = [job EXCEPT ![u] = "completed"]
  /\ UNCHANGED <<vars, uploadVars, tries, stalls, shot>>

\* Variant: failures are not counted.
Failures_Forgotten(u) == tries[u]

Failures(u) == tries[u] + 1

\* Variant: one attempt more.
Retries_OneMore(u) == Failures(u) <= MaxAttempts

Retries(u) == Failures(u) < MaxAttempts

\* Promise.all rejects at the first error.  The job is tried again, all its
\* files included, until it has used up its attempts.
AttemptFails(u) ==
  /\ job[u] = "active"
  /\ \E f \in batch[u] : shot[u][f] = "broken"
  /\ tries' = [tries EXCEPT ![u] = Failures(u)]
  /\ job' = [job EXCEPT ![u] = IF Retries(u) THEN "waiting" ELSE "failed"]
  /\ UNCHANGED <<vars, uploadVars, stalls, shot>>

\* The worker process dies.  The queue hands a stalled job out once more, not
\* twice (maxStalledCount).
WorkerDies ==
  \E u \in Uploads :
    /\ job[u] = "active"
    /\ stalls' = [stalls EXCEPT ![u] = @ + 1]
    /\ job' = [job EXCEPT ![u] = IF stalls[u] = 0 THEN "waiting" ELSE "failed"]
    /\ shot' = [v \in Uploads |-> NoShots]
    /\ UNCHANGED <<vars, uploadVars, tries>>

Work(u) ==
  \/ Process(u) \/ Complete(u) \/ AttemptFails(u)
  \/ \E f \in Files : Screenshot(u, f)

-----------------------------------------------------------------------------
\* The names hold a uuid: a client knows those that it was answered.
Answered == UNION {batch[u] : u \in {v \in Uploads : upload[v] = "answered"}}

FilesStep ==
  \/ \E f \in Files : Expire(f) \/ Unlink(f)
  \/ StartCleanup
  \/ \E r \in Requests : \/ \E list \in RefLists :
                               /\ \A i \in DOMAIN list : list[i].file \in Answered
                               /\ Request(r, list)
                         \/ CreateStep(r)
                         \/ CommitFails(r)
                         \/ Remove(r)

ThumbNext ==
  \/ FilesStep /\ UNCHANGED <<uploadVars, jobVars>>
  \/ \E u \in Uploads :
       \/ \E F \in SUBSET Files : Receive(u, F)
       \/ \E f \in Files : StoreFile(u, f)
       \/ RefuseUpload(u)
       \/ Enqueue(u)
       \/ Work(u)
  \/ ServerCrash
  \/ WorkerDies

ThumbSpec == ThumbInit /\ [][ThumbNext]_allVars

\* Both processes run what they have started and are started again.
ThumbFairSpec ==
  /\ ThumbSpec
  /\ Fairness
  /\ \A u \in Uploads : WF_allVars(Work(u))

-----------------------------------------------------------------------------
(* What is meant to hold.                                                  *)

\* A client that waits with its create request gets its thumbnails: a job the
\* worker survives is given up only for a file that is no video, that a create
\* request has named meanwhile, or that is older than a day.
GivenUpForCause ==
  \A u \in Uploads : job[u] = "failed" /\ stalls[u] < 2 =>
    \E f \in batch[u] :
      \/ f \notin Videos
      \/ f \in expired
      \/ \E r \in Requests : \E i \in Named(r) : File(r, i) = f

\* Every job leaves the queue, also when its files are gone for good and
\* whenever the worker dies.
JobsEnd ==
  \A u \in Uploads : job[u] = "waiting" ~> job[u] \in {"completed", "failed"}
=============================================================================
