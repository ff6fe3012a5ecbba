----------------------------- MODULE RecordActor -----------------------------
(***************************************************************************)
(* actor/RecordActor.go: the table of record jobs, and the goroutine that  *)
(* each accepted job starts.  The actor handles requests and the messages  *)
(* of the goroutines one at a time; a goroutine looks the body camera up,  *)
(* opens the go2rtc stream, makes the bucket and uploads, and every call   *)
(* it makes may fail.  Its context and the HTTP client bound each call.    *)
(***************************************************************************)
EXTENDS Naturals, Sequences, FiniteSets, Futures

CONSTANTS
  JobIds,             \* bound: the identifiers newRecordJobID may draw
  Places,             \* where a recording may go: a bucket and an object key
  BucketOf(_),        \* the bucket of a place
  NoPlace,
  NoJob,
  MaxConcurrentJobs,  \* record.max_concurrent_jobs
  JobRetention        \* record.job_retention, in ticks of the clock

(* config.Load refuses limits that are not greater than zero.              *)
ASSUME RecordAssumption ==
  /\ MaxConcurrentJobs \in Nat \ {0}
  /\ JobRetention \in Nat \ {0}
  /\ NoPlace \notin Places
  /\ NoJob \notin JobIds

VARIABLES
  jobs,        \* a.jobs
  recordBox,   \* the actor's mailbox
  worker,      \* the goroutine of each identifier
  since,       \* the time that has passed since the goroutine's CompletedAt
  store,       \* MinIO: its buckets, and whose recording each place holds
  initError,   \* a.initError # ""
  recordUp     \* the actor is not stopped, its MongoDB client not closed

recordVars ==
  <<jobs, recordBox, worker, since, store, initError, recordUp, reply>>

-----------------------------------------------------------------------------
ActiveStatus   == {"accepted", "running"}
FinishedStatus == {"completed", "failed"}

(* recordJob: its status, whether CompletedAt is set, and where the        *)
(* recording is.  The fields copied from the request are left out.         *)
RecordJob ==
  [status : ActiveStatus \cup FinishedStatus, ended : BOOLEAN,
   place : Places \cup {NoPlace}]

(* A goroutine is at the call it makes next: lookup, fetch, exists and     *)
(* make (the two calls of EnsureBucket), put.  Once the lookup has told the *)
(* place it keeps it.  "killed": the process ended.                        *)
LiveStages == {"spawned", "lookup", "fetch", "exists", "make", "put"}
Worker ==
  [stage : {"none", "spawned", "lookup"}, place : {NoPlace}]
    \cup [stage : {"fetch", "exists", "make", "put"}, place : Places]
    \cup [stage : {"done", "killed"}, place : Places \cup {NoPlace}]

Idle(stage) == [stage |-> stage, place |-> NoPlace]
Live(j) == worker[j].stage \in LiveStages

StartRecordRequest(c)     == [type |-> "start", caller |-> c]
GetRecordJobRequest(c, j) == [type |-> "get", caller |-> c, job |-> j]
recordJobRunning(j)       == [type |-> "running", job |-> j]
recordJobCompleted(j, p)  == [type |-> "completed", job |-> j, place |-> p]
recordJobFailed(j)        == [type |-> "failed", job |-> j]

RecordRequests ==
  {StartRecordRequest(c) : c \in Callers}
    \cup {GetRecordJobRequest(c, j) : c \in Callers, j \in JobIds}
RecordNotes ==
  {recordJobRunning(j) : j \in JobIds} \cup {recordJobFailed(j) : j \in JobIds}
    \cup {recordJobCompleted(j, p) : j \in JobIds, p \in Places}

(* The results have the type of the request that they answer, the status   *)
(* code, the job they are about and its status.                            *)
StartRecordResult(code, j, status) ==
  [type |-> "start", code |-> code, job |-> j, status |-> status]
RecordJobStatusResult(code, j, status) ==
  [type |-> "get", code |-> code, job |-> j, status |-> status]
RecordResults ==
  [type : {"start"}, code : {202, 429, 500}, job : JobIds \cup {NoJob},
   status : {"accepted", "none"}]
    \cup [type : {"get"}, code : {200, 404}, job : JobIds,
          status : ActiveStatus \cup FinishedStatus \cup {"none"}]

RecordInit ==
  /\ jobs = [j \in {} |-> [status |-> "accepted", ended |-> FALSE, place |-> NoPlace]]
  /\ recordBox = <<>>
  /\ worker = [j \in JobIds |-> Idle("none")]
  /\ since = [j \in JobIds |-> 0]
  /\ store = [buckets |-> {}, holds |-> [p \in Places |-> NoJob]]
  /\ initError \in BOOLEAN
  /\ recordUp = TRUE
  /\ reply = [c \in Callers |-> NoReply]

-----------------------------------------------------------------------------
(* Helpers of the handlers.                                                *)
RecordMsg == Head(recordBox)
RecordGets(type) == recordUp /\ recordBox # <<>> /\ RecordMsg.type = type
RecordTakes == recordBox' = Tail(recordBox)

(* Mutant: a job expires when its retention is reached, not after it.      *)
Expired_Early(j) ==
  jobs[j].status \in FinishedStatus /\ jobs[j].ended /\ since[j] >= JobRetention

(* pruneExpiredJobs: both request handlers call it before anything else.   *)
Expired(j) ==
  jobs[j].status \in FinishedStatus /\ jobs[j].ended /\ since[j] > JobRetention
Kept == [j \in {i \in DOMAIN jobs : ~Expired(i)} |-> jobs[j]]

(* Mutant: only jobs that run already are counted.                         *)
ActiveJobs_RunningOnly(table) == {j \in DOMAIN table : table[j].status = "running"}

(* activeRecordJobs.                                                       *)
ActiveJobs(table) == {j \in DOMAIN table : table[j].status \in ActiveStatus}

-----------------------------------------------------------------------------
(* handleStartRecord: an actor without its clients refuses every job, ...  *)
StartHasNoClients ==
  /\ RecordGets("start")
  /\ initError
  /\ jobs' = Kept
  /\ RecordTakes
  /\ Respond(RecordMsg.caller, StartRecordResult(500, NoJob, "none"))
  /\ UNCHANGED <<worker, since, store, initError, recordUp>>

(* ... one whose slots are all taken refuses this one, ...                 *)
StartIsTooMany ==
  /\ RecordGets("start")
  /\ ~initError
  /\ Cardinality(ActiveJobs(Kept)) >= MaxConcurrentJobs
  /\ jobs' = Kept
  /\ RecordTakes
  /\ Respond(RecordMsg.caller, StartRecordResult(429, NoJob, "none"))
  /\ UNCHANGED <<worker, since, store, initError, recordUp>>

StartHasSlot ==
  /\ RecordGets("start")
  /\ ~initError
  /\ Cardinality(ActiveJobs(Kept)) < MaxConcurrentJobs

(* ... no identifier can be made, ...                                      *)
StartHasNoId ==
  /\ StartHasSlot
  /\ jobs' = Kept
  /\ RecordTakes
  /\ Respond(RecordMsg.caller, StartRecordResult(500, NoJob, "none"))
  /\ UNCHANGED <<worker, since, store, initError, recordUp>>

(* ... or the job is stored, its goroutine started and the caller told.    *)
(* An identifier holds the second and 32 random bits and is taken as new.  *)
StartAccepts ==
  /\ StartHasSlot
  /\ \E j \in JobIds :
       /\ worker[j].stage = "none"
       /\ jobs' = [i \in DOMAIN Kept \cup {j} |->
                     IF i = j
                       THEN [status |-> "accepted", ended |-> FALSE, place |-> NoPlace]
                       ELSE jobs[i]]
       /\ worker' = [worker EXCEPT ![j] = Idle("spawned")]
       /\ Respond(RecordMsg.caller, StartRecordResult(202, j, "accepted"))
  /\ RecordTakes
  /\ UNCHANGED <<since, store, initError, recordUp>>

(* handleGetRecordJob.                                                     *)
GetAnswers ==
  /\ RecordGets("get")
  /\ LET j == RecordMsg.job
     IN Respond(RecordMsg.caller,
                IF j \in DOMAIN Kept THEN RecordJobStatusResult(200, j, jobs[j].status)
                                     ELSE RecordJobStatusResult(404, j, "none"))
  /\ jobs' = Kept
  /\ RecordTakes
  /\ UNCHANGED <<worker, since, store, initError, recordUp>>

(* The three messages of a goroutine change its job if it is still known.  *)
JobIsRunning ==
  /\ RecordGets("running")
  /\ jobs' = [j \in DOMAIN jobs |->
                IF j = RecordMsg.job THEN [jobs[j] EXCEPT !.status = "running"]
                                     ELSE jobs[j]]
  /\ RecordTakes
  /\ UNCHANGED <<worker, since, store, initError, recordUp, reply>>

JobIsCompleted ==
  /\ RecordGets("completed")
  /\ jobs' = [j \in DOMAIN jobs |->
                IF j = RecordMsg.job
                  THEN [status |-> "completed", ended |-> TRUE, place |-> RecordMsg.place]
                  ELSE jobs[j]]
  /\ RecordTakes
  /\ UNCHANGED <<worker, since, store, initError, recordUp, reply>>

(* Mutant: a failed job stays as it was, for ever.                         *)
JobIsFailed_Unnoticed ==
  /\ RecordGets("failed")
  /\ RecordTakes
  /\ UNCHANGED <<jobs, worker, since, store, initError, recordUp, reply>>

JobIsFailed ==
  /\ RecordGets("failed")
  /\ jobs' = [j \in DOMAIN jobs |->
                IF j = RecordMsg.job
                  THEN [jobs[j] EXCEPT !.status = "failed", !.ended = TRUE]
                  ELSE jobs[j]]
  /\ RecordTakes
  /\ UNCHANGED <<worker, since, store, initError, recordUp, reply>>

RecordActorStep ==
  \/ StartHasNoClients
  \/ StartIsTooMany
  \/ StartHasNoId
  \/ StartAccepts
  \/ GetAnswers
  \/ JobIsRunning
  \/ JobIsCompleted
  \/ JobIsFailed

-----------------------------------------------------------------------------
(* executeRecord, the goroutine of job j.                                  *)
RecordSends(msg) == recordBox' = Append(recordBox, msg)

WorkerAt(j, stage) == worker[j].stage = stage
WorkerGoes(j, stage, p) ==
  worker' = [worker EXCEPT ![j] = [stage |-> stage, place |-> p]]

WorkerBegins(j) ==
  /\ WorkerAt(j, "spawned")
  /\ RecordSends(recordJobRunning(j))
  /\ WorkerGoes(j, "lookup", NoPlace)
  /\ UNCHANGED <<jobs, since, store, initError, recordUp, reply>>

(* LookupBodycamInfo finds the camera, and its fields make a bucket name   *)
(* and an object key.                                                      *)
WorkerFindsPlace(j) ==
  /\ WorkerAt(j, "lookup")
  /\ recordUp
  /\ \E p \in Places : WorkerGoes(j, "fetch", p)
  /\ UNCHANGED <<jobs, recordBox, since, store, initError, recordUp, reply>>

(* fetchRecordStream: go2rtc answers with the beginning of the stream.     *)
WorkerOpensStream(j) ==
  /\ WorkerAt(j, "fetch")
  /\ WorkerGoes(j, "exists", worker[j].place)
  /\ UNCHANGED <<jobs, recordBox, since, store, initError, recordUp, reply>>

(* EnsureBucket, its first call: BucketExists.                             *)
WorkerAsksForBucket(j) ==
  /\ WorkerAt(j, "exists")
  /\ WorkerGoes(j, IF BucketOf(worker[j].place) \in store.buckets THEN "put" ELSE "make",
                worker[j].place)
  /\ UNCHANGED <<jobs, recordBox, since, store, initError, recordUp, reply>>

(* ... and its second: MakeBucket, which refuses a bucket that exists.     *)
WorkerMakesBucket(j) ==
  /\ WorkerAt(j, "make")
  /\ BucketOf(worker[j].place) \notin store.buckets
  /\ store' = [store EXCEPT !.buckets = @ \cup {BucketOf(worker[j].place)}]
  /\ WorkerGoes(j, "put", worker[j].place)
  /\ UNCHANGED <<jobs, recordBox, since, initError, recordUp, reply>>

(* Mutant: the upload is reported before it is made.                       *)
WorkerUploads_ReportsFirst(j) ==
  /\ WorkerAt(j, "put")
  /\ RecordSends(recordJobCompleted(j, worker[j].place))
  /\ WorkerGoes(j, "done", worker[j].place)
  /\ UNCHANGED <<jobs, since, store, initError, recordUp, reply>>

(* Mutant: the actor is told of the upload, but not of its place.          *)
WorkerUploads_ForgetsPlace(j) ==
  /\ WorkerAt(j, "put")
  /\ store' = [store EXCEPT !.holds[worker[j].place] = j]
  /\ RecordSends(recordJobCompleted(j, NoPlace))
  /\ WorkerGoes(j, "done", worker[j].place)
  /\ UNCHANGED <<jobs, since, initError, recordUp, reply>>

(* PutObject replaces what is stored in that place.                        *)
WorkerUploads(j) ==
  /\ WorkerAt(j, "put")
  /\ store' = [store EXCEPT !.holds[worker[j].place] = j]
  /\ RecordSends(recordJobCompleted(j, worker[j].place))
  /\ WorkerGoes(j, "done", worker[j].place)
  /\ UNCHANGED <<jobs, since, initError, recordUp, reply>>

(* Mutant: the goroutine goes on after it has reported its failure.        *)
WorkerFails_GoesOn(j) ==
  /\ worker[j].stage \in LiveStages \ {"spawned"}
  /\ RecordSends(recordJobFailed(j))
  /\ IF WorkerAt(j, "exists") THEN WorkerGoes(j, "put", worker[j].place)
                              ELSE WorkerGoes(j, "done", worker[j].place)
  /\ UNCHANGED <<jobs, since, store, initError, recordUp, reply>>

(* Any call fails or times out.  MakeBucket and PutObject may have taken   *)
(* effect nevertheless.                                                    *)
WorkerFails(j) ==
  /\ worker[j].stage \in LiveStages \ {"spawned"}
  /\ RecordSends(recordJobFailed(j))
  /\ WorkerGoes(j, "done", worker[j].place)
  /\ \/ UNCHANGED store
     \/ /\ WorkerAt(j, "make")
        /\ store' = [store EXCEPT !.buckets = @ \cup {BucketOf(worker[j].place)}]
     \/ /\ WorkerAt(j, "put")
        /\ store' = [store EXCEPT !.holds[worker[j].place] = j]
  /\ UNCHANGED <<jobs, since, initError, recordUp, reply>>

WorkerStep(j) ==
  \/ WorkerBegins(j)
  \/ WorkerFindsPlace(j)
  \/ WorkerOpensStream(j)
  \/ WorkerAsksForBucket(j)
  \/ WorkerMakesBucket(j)
  \/ WorkerUploads(j)
  \/ WorkerFails(j)

(* Time passes.  It is only compared with the retention, so the clock of a *)
(* finished job stops once it is past it.                                  *)
RecordTime ==
  since' = [j \in JobIds |->
              IF worker[j].stage = "done" /\ since[j] <= JobRetention
                THEN since[j] + 1 ELSE since[j]]

(* Stopping closes the MongoDB client.  A stopped actor handles nothing:   *)
(* what its goroutines, which go on, still send is lost.                   *)
RecordStopping ==
  /\ recordUp
  /\ recordUp' = FALSE
  /\ UNCHANGED <<jobs, recordBox, worker, since, store, initError, reply>>

(* The process ends and is started again: the table, the mailbox and the   *)
(* goroutines are gone, what MinIO holds stays.                            *)
RecordRestarts ==
  /\ jobs' = [j \in {} |-> [status |-> "accepted", ended |-> FALSE, place |-> NoPlace]]
  /\ recordBox' = <<>>
  /\ worker' = [j \in JobIds |-> IF WorkerAt(j, "none") THEN worker[j]
                                   ELSE [worker[j] EXCEPT !.stage = "killed"]]
  /\ since' = [j \in JobIds |-> 0]
  /\ initError' \in BOOLEAN
  /\ recordUp' = TRUE
  /\ UNCHANGED <<store, reply>>
===============================================================================
