-------------------------- MODULE ThumbnailsProofs --------------------------
(***************************************************************************)
(* Proofs about Thumbnails, for any files, create requests, uploads and    *)
(* number of attempts.                                                     *)
(***************************************************************************)
EXTENDS Thumbnails, MovieFilesProofs

USE AttemptsAssumption

(***************************************************************************)
(* Seen from the files, uploads and the worker add nothing to MovieFiles.  *)
(***************************************************************************)
LEMMA ThumbStepIsFilesStep == [ThumbNext]_allVars => [Next]_vars
<1> SUFFICES ASSUME [ThumbNext]_allVars PROVE [Next]_vars
  OBVIOUS
<1>1. CASE UNCHANGED allVars
  BY <1>1 DEF allVars
<1>2. CASE FilesStep
  BY <1>2 DEF FilesStep, Next
<1>3. ASSUME NEW u \in Uploads, NEW f \in Files, StoreFile(u, f)
      PROVE  Next
  BY <1>3 DEF StoreFile, Next
<1>4. ASSUME NEW u \in Uploads,
             \/ \E F \in SUBSET Files : Receive(u, F)
             \/ RefuseUpload(u)
             \/ Enqueue(u)
             \/ Work(u)
      PROVE  UNCHANGED vars
  BY <1>4 DEF Receive, RefuseUpload, Enqueue, Work, Process, Screenshot,
              Complete, AttemptFails
<1>5. CASE ServerCrash
  BY <1>5 DEF ServerCrash, Next
<1>6. CASE WorkerDies
  BY <1>6 DEF WorkerDies
<1> QED
  BY <1>1, <1>2, <1>3, <1>4, <1>5, <1>6 DEF ThumbNext

\* The composition implements MovieFiles, so that what is proved of every
\* behaviour of the files holds with uploads, queue and worker around them.
THEOREM ThumbnailsImplementFiles == ThumbSpec => Spec
<1>1. ThumbInit => Init
  BY DEF ThumbInit
<1> QED
  BY <1>1, ThumbStepIsFilesStep, PTL DEF ThumbSpec, Spec

(***************************************************************************)
(* How a file leaves public/temp.                                          *)
(***************************************************************************)
\* A create request has named f, or f is more than a day old.
Used(f) ==
  \/ f \in expired
  \/ \E r \in Requests : \E i \in Named(r) : File(r, i) = f

LeftInv == \A f \in Files : where[f] \notin {"nowhere", "temp"} => Used(f)

TargetsInv == targets \subseteq expired

LeaveInv == FilesInv /\ LeftInv /\ TargetsInv

LEMMA LeaveInit == Init => LeaveInv
<1> SUFFICES ASSUME Init PROVE LeaveInv
  OBVIOUS
<1>1. FilesInv
  BY FilesInit
<1> QED
  BY <1>1 DEF Init, LeaveInv, LeftInv, TargetsInv

\* What has been used stays used, what has been stored is never unknown again.
LEMMA LeaveNext ==
  ASSUME LeaveInv, [Next]_vars
  PROVE  /\ LeaveInv'
         /\ \A f \in Files : /\ Used(f) => Used(f)'
                             /\ where[f] # "nowhere" => where'[f] # "nowhere"
<1> USE DEF LeaveInv
<1>0. FilesInv' /\ TypeOK /\ BookInv
  BY FilesNext DEF FilesInv
<1>1. UNCHANGED expired \/ \E f \in Files : Expire(f)
  BY DEF Next, Upload, Unlink, StartCleanup, Request, CreateStep, Check, Statted,
         Catch, Throw, Reread, Commit, Stat, Rename, Listed, Insert, RenameBack,
         CommitFails, Remove, Crash, Become, vars
<1>2. ASSUME NEW f \in Files, Used(f) PROVE Used(f)'
  <2>1. CASE f \in expired
    BY <1>1, <2>1 DEF Expire, Used
  <2>2. ASSUME NEW r \in Requests, NEW i \in Named(r), File(r, i) = f
        PROVE  Used(f)'
    <3>1. refs'[r] = refs[r]
      BY <1>0, NamedStays
    <3> QED  BY <2>2, <3>1 DEF Used, Named, File
  <2> QED  BY <1>2, <2>1, <2>2 DEF Used
<1>3. TargetsInv'
  <2>1. CASE targets' \subseteq targets
    BY <1>1, <2>1 DEF TargetsInv, Expire
  <2>2. CASE StartCleanup
    BY <2>2 DEF StartCleanup, Stale, TargetsInv
  <2>3. targets' \subseteq targets \/ StartCleanup
    BY DEF Next, Upload, Expire, Unlink, Request, CreateStep, Check, Statted,
           Catch, Throw, Reread, Commit, Stat, Rename, Listed, Insert, RenameBack,
           CommitFails, Remove, Crash, Become, vars
  <2> QED  BY <2>1, <2>2, <2>3
<1>4. ASSUME NEW f \in Files, where[f] # "nowhere" PROVE where'[f] # "nowhere"
  <2>1. ASSUME NEW g \in Files, NEW p \in {"temp", "gone"} \cup Requests,
               where' = [where EXCEPT ![g] = p]
        PROVE  where'[f] # "nowhere"
    <3>1. p # "nowhere"
      BY PlaceAssumption
    <3>2. TypeOK
      BY <1>0
    <3> QED  BY <1>4, <2>1, <3>1, <3>2 DEF TypeOK
  <2>2. UNCHANGED where => where'[f] # "nowhere"
    BY <1>4
  <2> QED  BY <1>0, <2>1, <2>2, Moves, NamedSlots
<1>5. ASSUME NEW f \in Files, where'[f] \notin {"nowhere", "temp"} PROVE Used(f)'
  <2>1. CASE where'[f] = where[f]
    BY <1>2, <1>5, <2>1 DEF LeftInv
  <2>2. ASSUME NEW r \in Requests, NEW i \in Named(r), File(r, i) \in Files,
               NEW p, where' = [where EXCEPT ![File(r, i)] = p]
        PROVE  Used(f)'
    <3>1. CASE File(r, i) = f
      BY <1>2, <3>1 DEF Used
    <3>2. CASE File(r, i) # f
      BY <1>0, <2>1, <2>2, <3>2 DEF TypeOK
    <3> QED  BY <3>1, <3>2
  <2>3. ASSUME NEW g \in targets, g \in Files, where' = [where EXCEPT ![g] = "gone"]
        PROVE  Used(f)'
    <3>1. CASE g = f
      BY <1>2, <3>1 DEF TargetsInv, Used
    <3>2. CASE g # f
      BY <1>0, <2>1, <2>3, <3>2 DEF TypeOK
    <3> QED  BY <3>1, <3>2
  <2>4. ASSUME NEW g \in Files, where' = [where EXCEPT ![g] = "temp"]
        PROVE  Used(f)'
    BY <1>0, <1>5, <2>1, <2>4 DEF TypeOK
  <2>5. UNCHANGED where => Used(f)'
    BY <2>1
  <2> QED  BY <1>0, <2>2, <2>3, <2>4, <2>5, Moves, NamedSlots
<1> QED  BY <1>0, <1>2, <1>3, <1>4, <1>5 DEF LeftInv

(***************************************************************************)
(* Jobs.                                                                   *)
(***************************************************************************)
UploadsTyped ==
  /\ upload \in [Uploads -> {"idle", "storing", "answered", "refused"}]
  /\ batch \in [Uploads -> SUBSET Files]
  /\ job \in [Uploads -> Jobs]
  /\ tries \in [Uploads -> 0 .. MaxAttempts]
  /\ stalls \in [Uploads -> 0 .. 2]
  /\ shot \in [Uploads -> [Files -> {"none", "started", "taken", "broken"}]]

\* A job that is still to be handed out has attempts left.
CountInv ==
  \A u \in Uploads : job[u] \in {"none", "waiting", "active"} =>
    tries[u] < MaxAttempts /\ stalls[u] < 2

\* Only an answered upload has a job, and its files have been stored.
StoredInv ==
  \A u \in Uploads :
    IF upload[u] = "answered"
      THEN \A f \in batch[u] : where[f] # "nowhere"
      ELSE job[u] = "none" /\ \A f \in Files : shot[u][f] = "none"

ShotInv ==
  \A u \in Uploads, f \in Files :
    /\ shot[u][f] # "none" => f \in batch[u]
    /\ shot[u][f] = "broken" => f \notin Videos \/ Used(f)

CauseInv ==
  \A u \in Uploads : job[u] = "failed" /\ stalls[u] < 2 =>
    \E f \in batch[u] : f \notin Videos \/ Used(f)

JobInv == UploadsTyped /\ CountInv /\ StoredInv /\ ShotInv /\ CauseInv

LEMMA JobInit == ThumbInit => JobInv
BY DEF ThumbInit, JobInv, UploadsTyped, Jobs, CountInv, StoredInv, ShotInv,
       CauseInv, NoShots

\* Whatever happens to the files, what the jobs rely on stays true.
LEMMA FilesKeepJobs ==
  ASSUME LeaveInv, JobInv, [Next]_vars, UNCHANGED <<uploadVars, jobVars>>
  PROVE  JobInv'
BY LeaveNext DEF JobInv, UploadsTyped, CountInv, StoredInv, ShotInv, CauseInv,
                 uploadVars, jobVars

LEMMA JobNext ==
  ASSUME LeaveInv, JobInv, [ThumbNext]_allVars
  PROVE  JobInv'
<1> USE DEF JobInv
<1>1. CASE UNCHANGED <<uploadVars, jobVars>>
  BY <1>1, ThumbStepIsFilesStep, FilesKeepJobs
<1>2. ASSUME NEW u \in Uploads, NEW F \in SUBSET Files, Receive(u, F)
      PROVE  JobInv'
  <2> USE <1>2 DEF Receive, jobVars, UploadsTyped, StoredInv
  <2>1. UNCHANGED vars /\ \A f \in Files : Used(f)' = Used(f)
    BY DEF vars, requestVars, Used, Named, File
  <2>2. UploadsTyped' /\ CountInv' /\ StoredInv'
    BY <2>1 DEF CountInv, vars
  <2>3. ShotInv' /\ CauseInv'
    BY <2>1 DEF ShotInv, CauseInv
  <2> QED
    BY <2>2, <2>3
<1>3. ASSUME NEW u \in Uploads,
             \/ RefuseUpload(u) \/ Enqueue(u)
             \/ Process(u) \/ Complete(u) \/ AttemptFails(u)
      PROVE  JobInv'
  <2>1. UNCHANGED vars /\ \A f \in Files : Used(f)' = Used(f)
    BY <1>3 DEF vars, requestVars, Used, Named, File, RefuseUpload, Enqueue, Process,
                Complete, AttemptFails
  <2> USE <2>1 DEF JobInv, UploadsTyped, Jobs, CountInv, StoredInv, ShotInv,
                   CauseInv, vars
  <2>2. CASE RefuseUpload(u)
    BY <2>2 DEF RefuseUpload, jobVars
  <2>3. CASE Enqueue(u)
    BY <2>3 DEF Enqueue, AllStored
  <2>4. CASE Process(u)
    BY <2>4 DEF Process, uploadVars
  <2>5. CASE Complete(u)
    BY <2>5 DEF Complete, uploadVars
  <2>6. CASE AttemptFails(u)
    BY <2>6 DEF AttemptFails, Failures, Retries, uploadVars
  <2> QED
    BY <1>3, <2>2, <2>3, <2>4, <2>5, <2>6
<1>4. ASSUME NEW u \in Uploads, NEW f \in Files, Screenshot(u, f)
      PROVE  JobInv'
  <2> USE <1>4 DEF Screenshot, uploadVars
  <2>1. UNCHANGED vars /\ \A g \in Files : Used(g)' = Used(g)
    BY DEF vars, requestVars, Used, Named, File
  <2>2. f \in batch[u] /\ where[f] # "nowhere"
    BY DEF StoredInv, ShotInv
  <2>3. where[f] # "temp" => Used(f)
    BY <2>2 DEF LeaveInv, LeftInv
  <2>4. UploadsTyped' /\ CountInv' /\ CauseInv'
    BY <2>1 DEF UploadsTyped, CountInv, CauseInv
  <2>5. StoredInv'
    BY <2>1 DEF UploadsTyped, StoredInv, vars
  <2>6. ShotInv'
    BY <2>1, <2>2, <2>3 DEF UploadsTyped, ShotInv
  <2> QED
    BY <2>4, <2>5, <2>6
<1>5. CASE ServerCrash
  <2>1. \A f \in Files : /\ Used(f) => Used(f)'
                         /\ where[f] # "nowhere" => where'[f] # "nowhere"
    BY <1>5, LeaveNext, ThumbStepIsFilesStep
  <2> QED
    BY <1>5, <2>1 DEF ServerCrash, jobVars, UploadsTyped, CountInv, StoredInv,
                      ShotInv, CauseInv
<1>6. CASE WorkerDies
  <2>1. UNCHANGED vars /\ \A f \in Files : Used(f)' = Used(f)
    BY <1>6 DEF vars, requestVars, Used, Named, File, WorkerDies
  <2> QED
    BY <1>6, <2>1 DEF WorkerDies, NoShots, uploadVars, UploadsTyped, Jobs,
                      CountInv, StoredInv, ShotInv, CauseInv, vars
<1> QED
  BY <1>1, <1>2, <1>3, <1>4, <1>5, <1>6
     DEF ThumbNext, StoreFile, Work, allVars

LEMMA ThumbInvariant == ThumbSpec => [](LeaveInv /\ JobInv)
<1>1. ThumbInit => LeaveInv /\ JobInv
  BY LeaveInit, JobInit DEF ThumbInit
<1>2. LeaveInv /\ JobInv /\ [ThumbNext]_allVars => LeaveInv' /\ JobInv'
  BY LeaveNext, JobNext, ThumbStepIsFilesStep
<1> QED
  BY <1>1, <1>2, PTL DEF ThumbSpec

\* Every behaviour of uploads, queue and worker keeps its type: no job is
\* tried more often than it may be, or handed out after its second stall.
THEOREM ThumbTypeCorrect == ThumbSpec => []ThumbTypeOK
<1>1. LeaveInv /\ JobInv => ThumbTypeOK
  BY DEF LeaveInv, FilesInv, JobInv, UploadsTyped, ThumbTypeOK
<1> QED
  BY <1>1, ThumbInvariant, PTL

\* A job the worker survives is given up only for a file that is no video,
\* that a create request has named, or that is older than a day.
THEOREM JobsFailForCause == ThumbSpec => []GivenUpForCause
<1>1. JobInv => GivenUpForCause
  BY DEF JobInv, CauseInv, Used, GivenUpForCause
<1> QED
  BY <1>1, ThumbInvariant, PTL
(***************************************************************************)
(* The worker does not stop at a job, and no job goes round for ever.      *)
(* JobsEnd follows when the worker does what it can; that part is          *)
(* liveness, and these are its two halves without fairness.                *)
(***************************************************************************)
\* The guards of Work(u): ENABLED written out.
Goes(u) ==
  \/ job[u] = "waiting" /\ \A v \in Uploads : job[v] # "active"
  \/ job[u] = "active" /\ \A f \in batch[u] : shot[u][f] = "taken"
  \/ job[u] = "active" /\ \E f \in batch[u] : shot[u][f] = "broken"
  \/ \E f \in Files : shot[u][f] = "started"

\* The active job can go on, and a waiting one has its turn or an active one
\* before it.
QueueGoesOn ==
  \A u \in Uploads :
    /\ job[u] = "active" => Goes(u)
    /\ job[u] = "waiting" => Goes(u) \/ \E v \in Uploads : job[v] = "active"

\* One job at a time: a worker that dies takes no other job's pictures along.
OneActive ==
  \A u, v \in Uploads : job[u] = "active" /\ job[v] = "active" => u = v

\* The active job has a promise for each of its files.
Promised ==
  \A u \in Uploads : job[u] = "active" =>
    \A f \in batch[u] : shot[u][f] \in {"started", "taken", "broken"}

TurnInv == JobInv /\ OneActive /\ Promised

LEMMA TurnNext ==
  ASSUME LeaveInv, TurnInv, [ThumbNext]_allVars
  PROVE  TurnInv'
<1> USE DEF TurnInv, OneActive, Promised
<1>0. JobInv' /\ UploadsTyped
  BY JobNext DEF JobInv
<1> SUFFICES OneActive' /\ Promised'
  BY <1>0
<1>1. CASE UNCHANGED <<uploadVars, jobVars>>
  BY <1>1 DEF uploadVars, jobVars
<1>2. ASSUME NEW u \in Uploads, NEW F \in SUBSET Files, Receive(u, F)
      PROVE  OneActive' /\ Promised'
  <2>1. job[u] = "none"
    BY <1>2 DEF Receive, JobInv, StoredInv
  <2> QED
    BY <1>0, <1>2, <2>1 DEF Receive, jobVars, UploadsTyped
<1>3. ASSUME NEW u \in Uploads,
             \/ RefuseUpload(u) \/ Enqueue(u)
             \/ Process(u) \/ Complete(u) \/ AttemptFails(u)
      PROVE  OneActive' /\ Promised'
  <2> USE <1>0 DEF UploadsTyped
  <2>1. CASE RefuseUpload(u) \/ Enqueue(u)
    BY <2>1 DEF RefuseUpload, Enqueue, jobVars
  <2>2. CASE Process(u)
    BY <2>2 DEF Process, uploadVars
  <2>3. CASE Complete(u)
    BY <2>3 DEF Complete, uploadVars
  <2>4. CASE AttemptFails(u)
    BY <2>4 DEF AttemptFails, uploadVars
  <2> QED
    BY <1>3, <2>1, <2>2, <2>3, <2>4
<1>4. ASSUME NEW u \in Uploads, NEW f \in Files, Screenshot(u, f)
      PROVE  OneActive' /\ Promised'
  BY <1>0, <1>4 DEF Screenshot, uploadVars, UploadsTyped
<1>5. CASE ServerCrash
  BY <1>5 DEF ServerCrash, jobVars
<1>6. CASE WorkerDies
  BY <1>0, <1>6 DEF WorkerDies, uploadVars, UploadsTyped
<1> QED
  BY <1>1, <1>2, <1>3, <1>4, <1>5, <1>6
     DEF ThumbNext, StoreFile, Work, allVars

LEMMA TurnInvariant == ThumbSpec => [](LeaveInv /\ TurnInv)
<1>1. ThumbInit => LeaveInv /\ TurnInv
  BY LeaveInit, JobInit DEF ThumbInit, TurnInv, OneActive, Promised
<1>2. LeaveInv /\ TurnInv /\ [ThumbNext]_allVars => LeaveInv' /\ TurnInv'
  BY LeaveNext, TurnNext, ThumbStepIsFilesStep
<1> QED
  BY <1>1, <1>2, PTL DEF ThumbSpec

\* Whatever has happened to its files and to the worker before, the job that
\* is being processed can be completed, failed or carried on, so that the jobs
\* behind it get their turn.
THEOREM WorkerNeverStops == ThumbSpec => []QueueGoesOn
<1>1. TurnInv => QueueGoesOn
  BY DEF TurnInv, Promised, JobInv, UploadsTyped, QueueGoesOn, Goes
<1> QED
  BY <1>1, TurnInvariant, PTL

\* Pictures of the job that ffmpeg has still to open.
Running(u) == {f \in Files : shot[u][f] = "started"}

Stage(u) == CASE job[u] = "none"    -> 0
              [] job[u] = "waiting" -> 1
              [] job[u] = "active"  -> 2
              [] OTHER              -> 3

\* One step further on a way that tries, stalls, the stages of an attempt and
\* the files of the job bound ...
Further(u) ==
  \/ tries'[u] + stalls'[u] > tries[u] + stalls[u]
  \/ /\ tries'[u] = tries[u] /\ stalls'[u] = stalls[u]
     /\ \/ Stage(u)' > Stage(u)
        \/ Stage(u)' = Stage(u) /\ Running(u)' \subseteq Running(u)
                                /\ Running(u)' # Running(u)

\* ... or no step back on it.
NotBack(u) ==
  /\ tries'[u] = tries[u] /\ stalls'[u] = stalls[u]
  /\ Stage(u)' = Stage(u) /\ Running(u)' \subseteq Running(u)

JobsGoForward ==
  \A u \in Uploads : /\ Further(u) \/ NotBack(u)
                     /\ Work(u) => Further(u)

\* No step has touched the job.
Still(u) ==
  /\ tries'[u] = tries[u] /\ stalls'[u] = stalls[u]
  /\ job'[u] = job[u] /\ shot'[u] = shot[u]

LEMMA WorkGoesFurther ==
  ASSUME TurnInv, NEW u \in Uploads, Work(u)
  PROVE  /\ Further(u)
         /\ \A v \in Uploads \ {u} : Still(v)
<1> USE DEF TurnInv, JobInv, UploadsTyped, Further, Still, Stage, Running
<1>1. CASE Process(u)
  BY <1>1 DEF Process
<1>2. CASE Complete(u)
  BY <1>2 DEF Complete
<1>3. CASE AttemptFails(u)
  <2>1. /\ tries'[u] = tries[u] + 1 /\ stalls'[u] = stalls[u]
        /\ tries[u] \in Nat /\ stalls[u] \in Nat
    BY <1>3 DEF AttemptFails, Failures
  <2>2. \A v \in Uploads \ {u} : Still(v)
    BY <1>3 DEF AttemptFails
  <2> QED
    BY <2>1, <2>2
<1>4. ASSUME NEW f \in Files, Screenshot(u, f)
      PROVE  Further(u) /\ \A v \in Uploads \ {u} : Still(v)
  <2>1. f \in Running(u) /\ Running(u)' = Running(u) \ {f}
    BY <1>4 DEF Screenshot
  <2>2. /\ UNCHANGED <<job, tries, stalls>>
        /\ \A v \in Uploads \ {u} : shot'[v] = shot[v]
    BY <1>4 DEF Screenshot
  <2> QED
    BY <2>1, <2>2
<1> QED
  BY <1>1, <1>2, <1>3, <1>4 DEF Work

LEMMA StillIsNotBack ==
  ASSUME NEW u \in Uploads, Still(u)
  PROVE  NotBack(u)
BY DEF Still, NotBack, Stage, Running

LEMMA StillIsNoWork ==
  ASSUME TurnInv, NEW u \in Uploads, Still(u)
  PROVE  ~Work(u)
<1>1. tries[u] + stalls[u] \in Nat /\ Stage(u) \in Nat
  BY DEF TurnInv, JobInv, UploadsTyped, Stage
<1>2. Stage(u)' = Stage(u) /\ Running(u)' = Running(u)
  BY DEF Still, Stage, Running
<1>3. ~Further(u)
  BY <1>1, <1>2 DEF Still, Further
<1> QED
  BY <1>3, WorkGoesFurther

\* Every step of the worker takes its job further, and no step of anybody takes
\* a job back: an attempt that is handed out again after a death or an error
\* counts, so that no job is worked at for ever.
THEOREM JobsWearOut == ThumbSpec => [][JobsGoForward]_allVars
<1>1. ASSUME TurnInv, [ThumbNext]_allVars PROVE [JobsGoForward]_allVars
  <2> USE <1>1
  <2>1. CASE UNCHANGED jobVars
    <3>1. \A u \in Uploads : Still(u)
      BY <2>1 DEF jobVars, Still
    <3> QED
      BY <3>1, StillIsNotBack, StillIsNoWork DEF JobsGoForward
  <2>2. ASSUME NEW u \in Uploads, Work(u) PROVE JobsGoForward
    <3>1. Further(u) /\ \A v \in Uploads \ {u} : Still(v)
      BY <2>2, WorkGoesFurther
    <3> QED
      BY <3>1, StillIsNotBack, StillIsNoWork DEF JobsGoForward
  <2>3. ASSUME NEW u \in Uploads, Enqueue(u) PROVE JobsGoForward
    <3>1. job[u] = "none"
      BY <2>3 DEF Enqueue, AllStored, TurnInv, JobInv, StoredInv
    <3>2. /\ job' = [job EXCEPT ![u] = "waiting"]
          /\ UNCHANGED <<tries, stalls, shot>>
      BY <2>3 DEF Enqueue
    <3>3. \A v \in Uploads : ~Work(v)
      BY <3>1, <3>2 DEF Work, Process, Complete, AttemptFails, Screenshot,
                        TurnInv, JobInv, UploadsTyped
    <3>4. Further(u) /\ \A v \in Uploads \ {u} : NotBack(v)
      BY <3>1, <3>2 DEF Further, NotBack, Stage, Running, TurnInv, JobInv,
                        UploadsTyped
    <3> QED
      BY <3>3, <3>4 DEF JobsGoForward
  <2>4. CASE WorkerDies
    <3>1. PICK u \in Uploads :
            /\ job[u] = "active"
            /\ stalls' = [stalls EXCEPT ![u] = @ + 1]
            /\ job' = [job EXCEPT ![u] = IF stalls[u] = 0 THEN "waiting" ELSE "failed"]
            /\ shot' = [v \in Uploads |-> NoShots]
            /\ tries' = tries
      BY <2>4 DEF WorkerDies
    <3>2. tries[u] \in Nat /\ stalls[u] \in Nat /\ stalls'[u] = stalls[u] + 1
      BY <3>1 DEF TurnInv, JobInv, UploadsTyped
    <3>3. Further(u)
      BY <3>1, <3>2 DEF Further
    <3>4. \A v \in Uploads \ {u} : NotBack(v)
      BY <3>1 DEF NotBack, Stage, Running, NoShots, TurnInv, JobInv,
                  UploadsTyped
    <3>5. \A v \in Uploads : ~Work(v)
      BY <3>2 DEF Work, Process, Complete, AttemptFails, Screenshot
    <3> QED
      BY <3>3, <3>4, <3>5 DEF JobsGoForward
  <2> QED
    BY <2>1, <2>2, <2>3, <2>4
       DEF ThumbNext, Receive, StoreFile, RefuseUpload, ServerCrash, allVars
<1> QED
  BY <1>1, TurnInvariant, PTL DEF ThumbSpec
=============================================================================
