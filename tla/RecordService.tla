---------------------------- MODULE RecordService ----------------------------
(***************************************************************************)
(* The record actor with its goroutines, the clock, and callers that ask   *)
(* for recordings and for the state of jobs, one request at a time each.   *)
(***************************************************************************)
EXTENDS RecordActor

CONSTANT RestartCap   \* bound: how often the process is restarted

ASSUME RestartAssumption == RestartCap \in Nat

VARIABLE restarts     \* how often it has been restarted

vars == <<recordVars, restarts>>

Init == RecordInit /\ restarts = 0

-----------------------------------------------------------------------------
Waiting(c) == \E i \in DOMAIN recordBox :
                recordBox[i].type \in {"start", "get"} /\ recordBox[i].caller = c

(* External: a caller that does not wait for an answer sends a request.    *)
Calls(c, request) ==
  /\ ~Waiting(c)
  /\ RecordSends(request)
  /\ Respond(c, NoReply)
  /\ UNCHANGED <<jobs, worker, since, store, initError, recordUp, restarts>>

CallsStart(c) == Calls(c, StartRecordRequest(c))
CallsGet(c) == \E j \in JobIds : Calls(c, GetRecordJobRequest(c, j))

ActorActs == RecordActorStep /\ UNCHANGED restarts
WorkerActs(j) == WorkerStep(j) /\ UNCHANGED restarts
TimePasses ==
  /\ RecordTime
  /\ UNCHANGED <<jobs, recordBox, worker, store, initError, recordUp, reply, restarts>>
Stops == RecordStopping /\ restarts < RestartCap /\ UNCHANGED restarts
Restarts ==
  /\ restarts < RestartCap
  /\ RecordRestarts
  /\ restarts' = restarts + 1

Next ==
  \/ \E c \in Callers : CallsStart(c) \/ CallsGet(c)
  \/ ActorActs
  \/ \E j \in JobIds : WorkerActs(j)
  \/ TimePasses
  \/ Stops
  \/ Restarts

Spec == Init /\ [][Next]_vars

(* The actor is scheduled while its mailbox is not empty, every call of a  *)
(* goroutine ends (context and HTTP client have timeouts) and time passes. *)
(* main returns once it has stopped the actors.  Nobody has to ask for     *)
(* anything.                                                               *)
Fairness ==
  /\ WF_vars(ActorActs)
  /\ \A j \in JobIds : WF_vars(WorkerActs(j))
  /\ WF_vars(TimePasses)
  /\ WF_vars(~recordUp /\ Restarts)

FairSpec == Spec /\ Fairness

-----------------------------------------------------------------------------
Replies == RecordResults \cup {NoReply}

(* Type invariant.                                                         *)
TypeOK ==
  /\ DOMAIN jobs \subseteq JobIds
  /\ jobs \in [DOMAIN jobs -> RecordJob]
  /\ recordBox \in Seq(RecordRequests \cup RecordNotes)
  /\ worker \in [JobIds -> Worker]
  /\ since \in [JobIds -> Nat]
  /\ store \in [buckets : SUBSET {BucketOf(p) : p \in Places},
                holds : [Places -> JobIds \cup {NoJob}]]
  /\ initError \in BOOLEAN
  /\ recordUp \in BOOLEAN
  /\ reply \in [Callers -> Replies]
  /\ restarts \in Nat

(* No more recordings are made at a time than record.max_concurrent_jobs   *)
(* allows, although the actor counts the jobs in its table and learns of   *)
(* the end of a goroutine by a message only.                               *)
WorkersWithinLimit == Cardinality({j \in JobIds : Live(j)}) <= MaxConcurrentJobs

(* A job that was accepted is known to the actor until its retention has   *)
(* passed since the end of its goroutine, wherever the messages of that    *)
(* goroutine are: GET /record/{job_id} does not answer 404 before.         *)
KnownUntilRetention ==
  \A j \in JobIds :
    (Live(j) \/ (WorkerAt(j, "done") /\ since[j] <= JobRetention)) => j \in DOMAIN jobs

(* The status of a completed job names a place in a bucket that exists,    *)
(* and the place holds the recording of this job, unless a job with the    *)
(* same place (same camera, type and second) has replaced it.              *)
CompletedIsStored ==
  \A j \in DOMAIN jobs :
    jobs[j].status = "completed" =>
      LET p == jobs[j].place
      IN /\ p \in Places
         /\ BucketOf(p) \in store.buckets
         /\ \/ store.holds[p] = j
            \/ \E i \in JobIds : worker[i].place = p /\ store.holds[p] = i

(* What every job is to an observer of the table: the mapping to the       *)
(* abstract service.                                                       *)
JobState ==
  [j \in JobIds |->
     IF j \in DOMAIN jobs THEN jobs[j].status
     ELSE IF worker[j].stage = "none" THEN "unused" ELSE "gone"]

Service == INSTANCE RecordJobs
             WITH Jobs <- JobIds, Slots <- MaxConcurrentJobs, state <- JobState

(* The actor with its goroutines implements the abstract service: a job    *)
(* takes a free slot, runs, finishes once, never starts again, and is      *)
(* forgotten only when it is finished.                                     *)
ImplementsRecordJobs == Service!Spec

(* Every job that is accepted is reported as completed or failed, or is    *)
(* lost with the process, whatever MongoDB, go2rtc and MinIO do.           *)
JobsFinish ==
  \A j \in JobIds :
    worker[j].stage = "spawned" ~> JobState[j] \in {"completed", "failed", "gone"}
===============================================================================
