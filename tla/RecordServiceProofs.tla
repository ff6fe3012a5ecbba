-------------------------- MODULE RecordServiceProofs --------------------------
(***************************************************************************)
(* For any number of callers, identifiers, places and slots, and however   *)
(* often the process is restarted: the types, the limit on recordings, the *)
(* retention of jobs, that the actor with its goroutines implements the    *)
(* abstract service, and that a completed job can be found in MinIO,       *)
(* however many jobs share a place and whichever calls fail halfway.       *)
(***************************************************************************)
EXTENDS RecordService, FiniteSetTheorems, TLAPS

(* What the mailbox b holds of job j, and where.                           *)
RunAt(b, i, j) == i \in DOMAIN b /\ b[i] = recordJobRunning(j)
EndAt(b, i, j) ==
  i \in DOMAIN b /\ b[i].type \in {"completed", "failed"} /\ b[i].job = j

ActiveJob(j) == j \in DOMAIN jobs /\ jobs[j].status \in ActiveStatus

(* Its first message is under way for an accepted job only, ...            *)
RunIsDue ==
  \A j \in JobIds : \A i \in Nat : RunAt(recordBox, i, j) =>
    /\ j \in DOMAIN jobs
    /\ jobs[j].status = "accepted"
    /\ worker[j].stage \notin {"none", "spawned"}

(* ... its last one only after the goroutine has ended, for an active job. *)
EndIsDue ==
  \A j \in JobIds : \A i \in Nat : EndAt(recordBox, i, j) =>
    ActiveJob(j) /\ WorkerAt(j, "done")

(* There is one of each at most, in this order.                            *)
NotesInOrder ==
  \A j \in JobIds : \A i, k \in Nat :
    /\ RunAt(recordBox, i, j) /\ RunAt(recordBox, k, j) => i = k
    /\ EndAt(recordBox, i, j) /\ EndAt(recordBox, k, j) => i = k
    /\ RunAt(recordBox, i, j) /\ EndAt(recordBox, k, j) => i < k

(* A job stays accepted until its first message arrives.                   *)
AcceptedAwaitsRun ==
  \A j \in JobIds : j \in DOMAIN jobs /\ jobs[j].status = "accepted" =>
    WorkerAt(j, "spawned") \/ \E i \in Nat : RunAt(recordBox, i, j)

LiveIsActive ==
  \A j \in JobIds :
    /\ Live(j) => ActiveJob(j)
    /\ WorkerAt(j, "spawned") => jobs[j].status = "accepted"
KnownIsStarted == \A j \in JobIds : j \in DOMAIN jobs => ~WorkerAt(j, "none")
DoneIsKept ==
  \A j \in JobIds : WorkerAt(j, "done") /\ since[j] <= JobRetention => j \in DOMAIN jobs

SlotsSuffice ==
  /\ IsFiniteSet(ActiveJobs(jobs))
  /\ Cardinality(ActiveJobs(jobs)) <= MaxConcurrentJobs

(* The inductive invariant.  The limit alone is not inductive: a goroutine *)
(* could be alive for a job that the table does not count, or a late first *)
(* message could reopen a finished job while its slot is taken.            *)
Inv ==
  /\ TypeOK
  /\ RunIsDue
  /\ EndIsDue
  /\ NotesInOrder
  /\ AcceptedAwaitsRun
  /\ LiveIsActive
  /\ KnownIsStarted
  /\ DoneIsKept
  /\ SlotsSuffice

-----------------------------------------------------------------------------
(* Messages and mailboxes.                                                 *)
Messages == RecordRequests \cup RecordNotes

(* Taking the head shifts the notes of every job by one, ...               *)
LEMMA TakenNotes ==
  ASSUME NEW S, NEW b \in Seq(S), b # <<>>, NEW i \in Nat, NEW j
  PROVE  /\ RunAt(Tail(b), i, j) <=> i # 0 /\ RunAt(b, i + 1, j)
         /\ EndAt(Tail(b), i, j) <=> i # 0 /\ EndAt(b, i + 1, j)
<1>1. Len(b) \in Nat \ {0} /\ DOMAIN b = 1 .. Len(b)
  OBVIOUS
<1>2. DOMAIN Tail(b) = 1 .. (Len(b) - 1)
  BY <1>1
<1>3. \A k \in 1 .. (Len(b) - 1) : Tail(b)[k] = b[k + 1]
  BY <1>1
<1>4. i \in DOMAIN Tail(b) <=> i # 0 /\ i + 1 \in DOMAIN b
  BY <1>1, <1>2
<1>5. i \in DOMAIN Tail(b) => Tail(b)[i] = b[i + 1]
  BY <1>2, <1>3
<1> QED
  BY <1>4, <1>5 DEF RunAt, EndAt

(* ... and a message sent comes behind all others.                         *)
LEMMA SentNotes ==
  ASSUME NEW S, NEW b \in Seq(S), NEW m \in S, NEW i \in Nat, NEW j
  PROVE  /\ RunAt(Append(b, m), i, j) <=>
              RunAt(b, i, j) \/ (i = Len(b) + 1 /\ m = recordJobRunning(j))
         /\ EndAt(Append(b, m), i, j) <=>
              \/ EndAt(b, i, j)
              \/ i = Len(b) + 1 /\ m.type \in {"completed", "failed"} /\ m.job = j
         /\ (RunAt(b, i, j) \/ EndAt(b, i, j)) => i < Len(b) + 1
<1>1. Len(b) \in Nat /\ DOMAIN b = 1 .. Len(b)
  OBVIOUS
<1>2. DOMAIN Append(b, m) = 1 .. (Len(b) + 1)
  BY <1>1
<1>3. \A k \in 1 .. Len(b) : Append(b, m)[k] = b[k]
  BY <1>1
<1>4. Append(b, m)[Len(b) + 1] = m
  BY <1>1
<1>5. i \in DOMAIN Append(b, m) <=> i \in DOMAIN b \/ i = Len(b) + 1
  BY <1>1, <1>2
<1>6. i \in DOMAIN b => i < Len(b) + 1 /\ Append(b, m)[i] = b[i]
  BY <1>1, <1>3
<1> QED
  BY <1>4, <1>5, <1>6 DEF RunAt, EndAt

(* A note at the head is the first one.                                    *)
LEMMA HeadNotes ==
  ASSUME TypeOK, recordBox # <<>>
  PROVE  /\ RecordMsg \in Messages
         /\ recordBox \in Seq(Messages)
         /\ Tail(recordBox) \in Seq(Messages)
         /\ \A j : RunAt(recordBox, 1, j) <=> RecordMsg = recordJobRunning(j)
         /\ \A j : EndAt(recordBox, 1, j) <=>
              RecordMsg.type \in {"completed", "failed"} /\ RecordMsg.job = j
<1>1. recordBox \in Seq(Messages)
  BY DEF TypeOK, Messages
<1>2. RecordMsg = recordBox[1] /\ 1 \in DOMAIN recordBox /\ RecordMsg \in Messages
  BY <1>1 DEF RecordMsg
<1>3. Tail(recordBox) \in Seq(Messages)
  BY <1>1
<1> QED
  BY <1>1, <1>2, <1>3 DEF RunAt, EndAt

(* What a message of each type is.                                         *)
LEMMA KindsOfMessages ==
  ASSUME NEW m \in Messages
  PROVE  /\ m.type = "start" => m.caller \in Callers
         /\ m.type = "get" => m.caller \in Callers /\ m.job \in JobIds
         /\ m.type = "running" => m.job \in JobIds /\ m = recordJobRunning(m.job)
         /\ m.type = "completed" => m.job \in JobIds /\ m.place \in Places
         /\ m.type = "failed" => m.job \in JobIds
         /\ m.type \in {"start", "get", "running", "completed", "failed"}
         /\ m.type \in {"start", "get"} => \A j : m # recordJobRunning(j)
<1>1. CASE m \in RecordRequests
  BY <1>1 DEF RecordRequests, StartRecordRequest, GetRecordJobRequest, recordJobRunning
<1>2. CASE m \in RecordNotes
  BY <1>2 DEF RecordNotes, recordJobRunning, recordJobCompleted, recordJobFailed
<1> QED
  BY <1>1, <1>2 DEF Messages

(* The notes a goroutine sends are messages.                               *)
LEMMA NotesAreMessages ==
  ASSUME NEW j \in JobIds
  PROVE  /\ recordJobRunning(j) \in Messages
         /\ recordJobFailed(j) \in Messages
         /\ \A p \in Places : recordJobCompleted(j, p) \in Messages
  BY DEF Messages, RecordNotes

(* Taking a request from the mailbox moves no note past another.           *)
LEMMA RequestTaken ==
  ASSUME TypeOK, RecordGets("start") \/ RecordGets("get"), RecordTakes
  PROVE  \A j : \A i \in Nat :
           /\ RunAt(recordBox', i, j) <=> i # 0 /\ RunAt(recordBox, i + 1, j)
           /\ EndAt(recordBox', i, j) <=> i # 0 /\ EndAt(recordBox, i + 1, j)
  BY HeadNotes, TakenNotes DEF RecordGets, RecordTakes

-----------------------------------------------------------------------------
(* Pruning the table.                                                      *)
LEMMA KeptJobs ==
  ASSUME TypeOK
  PROVE  /\ DOMAIN Kept \subseteq DOMAIN jobs
         /\ \A j \in DOMAIN Kept : Kept[j] = jobs[j]
         /\ \A j \in DOMAIN jobs : j \notin DOMAIN Kept =>
              jobs[j].status \in FinishedStatus /\ since[j] > JobRetention
         /\ Kept \in [DOMAIN Kept -> RecordJob]
         /\ ActiveJobs(Kept) = ActiveJobs(jobs)
<1>1. DOMAIN Kept = {j \in DOMAIN jobs : ~Expired(j)}
  BY DEF Kept
<1>2. \A j \in DOMAIN Kept : Kept[j] = jobs[j]
  BY DEF Kept
<1>3. \A j \in DOMAIN jobs : Expired(j) =>
        jobs[j].status \in FinishedStatus /\ since[j] > JobRetention
  BY DEF Expired
<1>4. \A j \in DOMAIN jobs : jobs[j].status \in FinishedStatus => jobs[j].status \notin ActiveStatus
  BY DEF FinishedStatus, ActiveStatus
<1>5. Kept \in [DOMAIN Kept -> RecordJob]
  BY <1>1, <1>2 DEF Kept, TypeOK
<1>6. ActiveJobs(Kept) = ActiveJobs(jobs)
  BY <1>1, <1>2, <1>3, <1>4 DEF ActiveJobs
<1> QED
  BY <1>1, <1>2, <1>3, <1>5, <1>6

(* A handler that answers a request and starts no job.                     *)
LEMMA PrunedInv ==
  ASSUME Inv, RecordGets("start") \/ RecordGets("get"), RecordTakes, jobs' = Kept,
         UNCHANGED <<worker, since, store, initError, recordUp, restarts>>,
         reply' \in [Callers -> Replies]
  PROVE  Inv'
<1> USE RecordAssumption
<1>1. TypeOK
  BY DEF Inv
<1>2. recordBox' \in Seq(Messages)
  BY <1>1, HeadNotes DEF RecordGets, RecordTakes
<1>3. TypeOK'
  BY <1>1, <1>2, KeptJobs DEF TypeOK, Messages
<1>4. \A j : \A i \in Nat :
        /\ RunAt(recordBox', i, j) => RunAt(recordBox, i + 1, j)
        /\ EndAt(recordBox', i, j) => EndAt(recordBox, i + 1, j)
  BY <1>1, RequestTaken
<1>5. \A j : ActiveJob(j)' <=> ActiveJob(j)
  BY <1>1, KeptJobs DEF ActiveJob, FinishedStatus, ActiveStatus
<1>6. \A j : j \in DOMAIN jobs' => j \in DOMAIN jobs /\ jobs'[j] = jobs[j]
  BY <1>1, KeptJobs
<1>7. \A j : j \in DOMAIN jobs /\ jobs[j].status = "accepted" => j \in DOMAIN jobs'
  BY <1>1, KeptJobs DEF FinishedStatus
<1>8. RunIsDue'
  BY <1>4, <1>6, <1>7 DEF RunIsDue, Inv
<1>9. EndIsDue'
  BY <1>4, <1>5 DEF EndIsDue, WorkerAt, Inv
<1>10. NotesInOrder'
  <2> SUFFICES ASSUME NEW j \in JobIds, NEW i \in Nat, NEW k \in Nat
               PROVE  /\ RunAt(recordBox', i, j) /\ RunAt(recordBox', k, j) => i = k
                      /\ EndAt(recordBox', i, j) /\ EndAt(recordBox', k, j) => i = k
                      /\ RunAt(recordBox', i, j) /\ EndAt(recordBox', k, j) => i < k
    BY DEF NotesInOrder
  <2> QED
    BY <1>4 DEF NotesInOrder, Inv
<1>11. AcceptedAwaitsRun'
  <2> SUFFICES ASSUME NEW j \in JobIds, j \in DOMAIN jobs', jobs'[j].status = "accepted",
                      ~WorkerAt(j, "spawned")'
               PROVE  \E i \in Nat : RunAt(recordBox', i, j)
    BY DEF AcceptedAwaitsRun
  <2>1. PICK i \in Nat : RunAt(recordBox, i, j)
    BY <1>6 DEF AcceptedAwaitsRun, WorkerAt, Inv
  <2>2. i # 0 /\ i # 1
    BY <1>1, <2>1, HeadNotes, KindsOfMessages
    DEF RecordGets, RunAt, TypeOK, recordJobRunning
  <2>3. RunAt(recordBox', i - 1, j) /\ i - 1 \in Nat
    BY <1>1, <2>1, <2>2, RequestTaken
  <2> QED
    BY <2>3
<1>12. LiveIsActive'
  BY <1>5, <1>6, <1>7 DEF LiveIsActive, Live, LiveStages, ActiveJob, WorkerAt, Inv
<1>13. KnownIsStarted'
  BY <1>6 DEF KnownIsStarted, WorkerAt, Inv
<1>14. DoneIsKept'
  BY <1>1, KeptJobs DEF DoneIsKept, WorkerAt, Inv, TypeOK
<1>15. SlotsSuffice'
  BY <1>1, KeptJobs DEF SlotsSuffice, Inv
<1> QED
  BY <1>3, <1>8, <1>9, <1>10, <1>11, <1>12, <1>13, <1>14, <1>15 DEF Inv

(* The handler that accepts a job.                                         *)
LEMMA StartAcceptsInv == Inv /\ StartAccepts /\ UNCHANGED restarts => Inv'
<1> SUFFICES ASSUME Inv, StartAccepts, UNCHANGED restarts PROVE Inv'
  OBVIOUS
<1> USE RecordAssumption
<1>1. TypeOK
  BY DEF Inv
<1>2. /\ RecordGets("start") /\ RecordTakes
      /\ Cardinality(ActiveJobs(Kept)) < MaxConcurrentJobs
      /\ UNCHANGED <<since, store, initError, recordUp>>
  BY DEF StartAccepts, StartHasSlot
<1>3. PICK j \in JobIds :
        /\ WorkerAt(j, "none")
        /\ jobs' = [i \in DOMAIN Kept \cup {j} |->
                      IF i = j
                        THEN [status |-> "accepted", ended |-> FALSE, place |-> NoPlace]
                        ELSE jobs[i]]
        /\ worker' = [worker EXCEPT ![j] = Idle("spawned")]
        /\ Respond(RecordMsg.caller, StartRecordResult(202, j, "accepted"))
  BY DEF StartAccepts, WorkerAt
<1>4. j \notin DOMAIN jobs /\ \A i \in Nat : ~RunAt(recordBox, i, j) /\ ~EndAt(recordBox, i, j)
  BY <1>3 DEF Inv, KnownIsStarted, RunIsDue, EndIsDue, WorkerAt
<1>5. /\ DOMAIN jobs' = DOMAIN Kept \cup {j}
      /\ jobs'[j] = [status |-> "accepted", ended |-> FALSE, place |-> NoPlace]
      /\ \A i \in DOMAIN Kept : i # j /\ jobs'[i] = jobs[i]
  BY <1>1, <1>3, <1>4, KeptJobs
<1>6. /\ worker'[j].stage = "spawned"
      /\ \A i \in JobIds \ {j} : worker'[i] = worker[i]
  BY <1>1, <1>3 DEF TypeOK, Idle
<1>7. RecordMsg.caller \in Callers /\ recordBox' \in Seq(Messages)
  BY <1>1, <1>2, HeadNotes, KindsOfMessages DEF RecordGets, RecordTakes
<1>8. TypeOK'
  <2>1. jobs' \in [DOMAIN jobs' -> RecordJob] /\ DOMAIN jobs' \subseteq JobIds
    <3>1. jobs'[j] \in RecordJob
      BY <1>5 DEF RecordJob, ActiveStatus
    <3>2. \A i \in DOMAIN Kept : jobs'[i] \in RecordJob
      BY <1>1, <1>5, KeptJobs DEF TypeOK
    <3>3. jobs' = [i \in DOMAIN jobs' |-> jobs'[i]]
      BY <1>3
    <3>4. DOMAIN jobs' \subseteq JobIds
      BY <1>1, <1>5, KeptJobs DEF TypeOK
    <3> QED
      BY <1>5, <3>1, <3>2, <3>3, <3>4
  <2>2. worker' \in [JobIds -> Worker]
    BY <1>1, <1>3 DEF TypeOK, Worker, Idle, LiveStages
  <2>3. reply' \in [Callers -> Replies]
    BY <1>1, <1>3, <1>7 DEF TypeOK, Respond, StartRecordResult, RecordResults, Replies
  <2> QED
    BY <1>1, <1>2, <1>7, <2>1, <2>2, <2>3 DEF TypeOK, Messages
<1>9. \A i : \A n \in Nat :
        /\ RunAt(recordBox', n, i) => RunAt(recordBox, n + 1, i)
        /\ EndAt(recordBox', n, i) => EndAt(recordBox, n + 1, i)
  BY <1>1, <1>2, RequestTaken
<1>10. \A i \in JobIds \ {j} : ActiveJob(i)' <=> ActiveJob(i)
  BY <1>1, <1>5, KeptJobs DEF ActiveJob, FinishedStatus, ActiveStatus
<1>11. \A i \in JobIds \ {j} : i \in DOMAIN jobs' => i \in DOMAIN jobs /\ jobs'[i] = jobs[i]
  BY <1>1, <1>5, KeptJobs
<1>12. \A i \in DOMAIN jobs : jobs[i].status = "accepted" =>
         i \in DOMAIN jobs' /\ jobs'[i] = jobs[i]
  BY <1>1, <1>5, KeptJobs DEF FinishedStatus
<1>13. ActiveJob(j)'
  BY <1>5 DEF ActiveJob, ActiveStatus
<1>14. RunIsDue'
  BY <1>4, <1>6, <1>9, <1>12 DEF RunIsDue, Inv
<1>15. EndIsDue'
  BY <1>4, <1>6, <1>9, <1>10 DEF EndIsDue, WorkerAt, Inv
<1>16. NotesInOrder'
  <2> SUFFICES ASSUME NEW i \in JobIds, NEW n \in Nat, NEW k \in Nat
               PROVE  /\ RunAt(recordBox', n, i) /\ RunAt(recordBox', k, i) => n = k
                      /\ EndAt(recordBox', n, i) /\ EndAt(recordBox', k, i) => n = k
                      /\ RunAt(recordBox', n, i) /\ EndAt(recordBox', k, i) => n < k
    BY DEF NotesInOrder
  <2> QED
    BY <1>9 DEF NotesInOrder, Inv
<1>17. AcceptedAwaitsRun'
  <2> SUFFICES ASSUME NEW i \in JobIds, i \in DOMAIN jobs', jobs'[i].status = "accepted",
                      ~WorkerAt(i, "spawned")'
               PROVE  \E n \in Nat : RunAt(recordBox', n, i)
    BY DEF AcceptedAwaitsRun
  <2>1. i # j
    BY <1>6 DEF WorkerAt
  <2>2. PICK n \in Nat : RunAt(recordBox, n, i)
    BY <1>6, <1>11, <2>1 DEF AcceptedAwaitsRun, WorkerAt, Inv
  <2>3. n # 0 /\ n # 1
    BY <1>1, <1>2, <2>2, HeadNotes, KindsOfMessages
    DEF RecordGets, RunAt, TypeOK, recordJobRunning
  <2>4. RunAt(recordBox', n - 1, i) /\ n - 1 \in Nat
    BY <1>1, <1>2, <2>2, <2>3, RequestTaken
  <2> QED
    BY <2>4
<1>18. LiveIsActive'
  <2> SUFFICES ASSUME NEW i \in JobIds
               PROVE  /\ Live(i)' => ActiveJob(i)'
                      /\ WorkerAt(i, "spawned")' => jobs'[i].status = "accepted"
    BY DEF LiveIsActive
  <2>1. CASE i = j
    BY <1>5, <1>13, <2>1
  <2>2. CASE i # j
    BY <1>6, <1>10, <1>12, <2>2
    DEF LiveIsActive, Live, LiveStages, ActiveJob, WorkerAt, Inv
  <2> QED
    BY <2>1, <2>2
<1>19. KnownIsStarted'
  BY <1>6, <1>11 DEF KnownIsStarted, WorkerAt, Inv
<1>20. DoneIsKept'
  BY <1>1, <1>2, <1>5, <1>6, KeptJobs DEF DoneIsKept, WorkerAt, Inv, TypeOK
<1>21. SlotsSuffice'
  <2>1. ActiveJobs(jobs)' = ActiveJobs(Kept) \cup {j} /\ j \notin ActiveJobs(Kept)
    BY <1>1, <1>4, <1>5, KeptJobs DEF ActiveJobs, ActiveStatus
  <2>2. IsFiniteSet(ActiveJobs(Kept))
    BY <1>1, KeptJobs DEF Inv, SlotsSuffice
  <2>3. /\ IsFiniteSet(ActiveJobs(jobs)')
        /\ Cardinality(ActiveJobs(jobs)') = Cardinality(ActiveJobs(Kept)) + 1
        /\ Cardinality(ActiveJobs(Kept)) \in Nat
    BY <2>1, <2>2, FS_AddElement, FS_CardinalityType
  <2> QED
    BY <1>2, <2>3 DEF SlotsSuffice
<1> QED
  BY <1>8, <1>14, <1>15, <1>16, <1>17, <1>18, <1>19, <1>20, <1>21 DEF Inv

(* A goroutine's first message is handled.                                 *)
LEMMA JobIsRunningInv == Inv /\ JobIsRunning /\ UNCHANGED restarts => Inv'
<1> SUFFICES ASSUME Inv, JobIsRunning, UNCHANGED restarts PROVE Inv'
  OBVIOUS
<1> USE RecordAssumption
<1> DEFINE j == RecordMsg.job
<1>1. TypeOK /\ recordBox # <<>>
  BY DEF Inv, JobIsRunning, RecordGets
<1>2. /\ j \in JobIds /\ RunAt(recordBox, 1, j)
      /\ recordBox' = Tail(recordBox) /\ recordBox \in Seq(Messages)
      /\ recordBox' \in Seq(Messages)
  BY <1>1, HeadNotes, KindsOfMessages DEF JobIsRunning, RecordGets, RecordTakes
<1>3. j \in DOMAIN jobs /\ jobs[j].status = "accepted" /\ worker[j].stage \notin {"none", "spawned"}
  BY <1>2 DEF Inv, RunIsDue
<1>4. /\ DOMAIN jobs' = DOMAIN jobs
      /\ jobs'[j] = [jobs[j] EXCEPT !.status = "running"]
      /\ \A i \in DOMAIN jobs : i # j => jobs'[i] = jobs[i]
      /\ UNCHANGED <<worker, since, store, initError, recordUp, reply>>
  BY <1>3 DEF JobIsRunning
<1>5. jobs'[j].status = "running" /\ jobs'[j] \in RecordJob
  <2>1. jobs[j] \in RecordJob
    BY <1>1, <1>3 DEF TypeOK
  <2>2. \A r \in RecordJob : /\ [r EXCEPT !.status = "running"].status = "running"
                             /\ [r EXCEPT !.status = "running"] \in RecordJob
    BY DEF RecordJob, ActiveStatus
  <2> QED
    BY <1>4, <2>1, <2>2
<1>6. TypeOK'
  BY <1>1, <1>2, <1>4, <1>5 DEF TypeOK, JobIsRunning, Messages
<1>7. \A i : \A n \in Nat :
        /\ RunAt(recordBox', n, i) <=> n # 0 /\ RunAt(recordBox, n + 1, i)
        /\ EndAt(recordBox', n, i) <=> n # 0 /\ EndAt(recordBox, n + 1, i)
  BY <1>1, <1>2, TakenNotes
<1>8. \A n \in Nat : ~RunAt(recordBox', n, j)
  <2> SUFFICES ASSUME NEW n \in Nat, RunAt(recordBox', n, j) PROVE FALSE
    OBVIOUS
  <2>1. RunAt(recordBox, n + 1, j) /\ n + 1 # 1
    BY <1>7
  <2> QED
    BY <1>2, <2>1 DEF Inv, NotesInOrder
<1>9. \A i : ActiveJob(i)' <=> ActiveJob(i)
  BY <1>3, <1>4, <1>5 DEF ActiveJob, ActiveStatus
<1>10. RunIsDue'
  BY <1>4, <1>7, <1>8 DEF RunIsDue, Inv
<1>11. EndIsDue'
  BY <1>4, <1>7, <1>9 DEF EndIsDue, WorkerAt, Inv
<1>12. NotesInOrder'
  <2> SUFFICES ASSUME NEW i \in JobIds, NEW n \in Nat, NEW k \in Nat
               PROVE  /\ RunAt(recordBox', n, i) /\ RunAt(recordBox', k, i) => n = k
                      /\ EndAt(recordBox', n, i) /\ EndAt(recordBox', k, i) => n = k
                      /\ RunAt(recordBox', n, i) /\ EndAt(recordBox', k, i) => n < k
    BY DEF NotesInOrder
  <2> QED
    BY <1>7 DEF NotesInOrder, Inv
<1>13. AcceptedAwaitsRun'
  <2> SUFFICES ASSUME NEW i \in JobIds, i \in DOMAIN jobs', jobs'[i].status = "accepted",
                      ~WorkerAt(i, "spawned")'
               PROVE  \E n \in Nat : RunAt(recordBox', n, i)
    BY DEF AcceptedAwaitsRun
  <2>1. i # j
    BY <1>5
  <2>2. PICK n \in Nat : RunAt(recordBox, n, i)
    BY <1>4, <2>1 DEF AcceptedAwaitsRun, WorkerAt, Inv
  <2>3. n # 0 /\ n # 1
    BY <1>2, <2>1, <2>2 DEF RunAt, recordJobRunning
  <2>4. RunAt(recordBox', n - 1, i) /\ n - 1 \in Nat
    BY <1>7, <2>2, <2>3
  <2> QED
    BY <2>4
<1>14. LiveIsActive'
  BY <1>3, <1>4, <1>9 DEF LiveIsActive, Live, LiveStages, ActiveJob, WorkerAt, Inv
<1>15. KnownIsStarted'
  BY <1>4 DEF KnownIsStarted, WorkerAt, Inv
<1>16. DoneIsKept'
  BY <1>4 DEF DoneIsKept, WorkerAt, Inv
<1>17. SlotsSuffice'
  <2>1. ActiveJobs(jobs)' = ActiveJobs(jobs)
    BY <1>4, <1>9 DEF ActiveJobs, ActiveJob
  <2> QED
    BY <2>1 DEF SlotsSuffice, Inv
<1> QED
  BY <1>6, <1>10, <1>11, <1>12, <1>13, <1>14, <1>15, <1>16, <1>17 DEF Inv

(* Its last message is handled.                                            *)
LEMMA JobEndsInv == Inv /\ (JobIsCompleted \/ JobIsFailed) /\ UNCHANGED restarts => Inv'
<1> SUFFICES ASSUME Inv, JobIsCompleted \/ JobIsFailed, UNCHANGED restarts PROVE Inv'
  OBVIOUS
<1> USE RecordAssumption
<1> DEFINE j == RecordMsg.job
<1>1. TypeOK /\ recordBox # <<>> /\ RecordTakes
  BY DEF Inv, JobIsCompleted, JobIsFailed, RecordGets
<1>2. /\ j \in JobIds /\ EndAt(recordBox, 1, j)
      /\ recordBox' = Tail(recordBox) /\ recordBox \in Seq(Messages)
      /\ recordBox' \in Seq(Messages)
  BY <1>1, HeadNotes, KindsOfMessages
  DEF JobIsCompleted, JobIsFailed, RecordGets, RecordTakes
<1>3. ActiveJob(j) /\ WorkerAt(j, "done")
  BY <1>2 DEF Inv, EndIsDue
<1>4. /\ DOMAIN jobs' = DOMAIN jobs
      /\ \A i \in DOMAIN jobs : i # j => jobs'[i] = jobs[i]
      /\ UNCHANGED <<worker, since, store, initError, recordUp, reply>>
      /\ jobs' = [i \in DOMAIN jobs' |-> jobs'[i]]
  BY <1>3 DEF JobIsCompleted, JobIsFailed, ActiveJob
<1>5. jobs'[j].status \in FinishedStatus /\ jobs'[j] \in RecordJob
  <2>1. j \in DOMAIN jobs /\ jobs[j] \in RecordJob
    BY <1>1, <1>3 DEF TypeOK, ActiveJob
  <2>2. CASE JobIsCompleted
    <3>1. RecordMsg.place \in Places
      BY <1>1, <2>2, HeadNotes, KindsOfMessages DEF JobIsCompleted, RecordGets
    <3>2. jobs'[j] = [status |-> "completed", ended |-> TRUE, place |-> RecordMsg.place]
      BY <2>1, <2>2 DEF JobIsCompleted
    <3> QED
      BY <3>1, <3>2 DEF RecordJob, FinishedStatus
  <2>3. CASE JobIsFailed
    <3>1. jobs'[j] = [jobs[j] EXCEPT !.status = "failed", !.ended = TRUE]
      BY <2>1, <2>3 DEF JobIsFailed
    <3>2. \A r \in RecordJob :
            /\ [r EXCEPT !.status = "failed", !.ended = TRUE].status = "failed"
            /\ [r EXCEPT !.status = "failed", !.ended = TRUE] \in RecordJob
      BY DEF RecordJob, FinishedStatus
    <3> QED
      BY <2>1, <3>1, <3>2 DEF FinishedStatus
  <2> QED
    BY <2>2, <2>3
<1>6. TypeOK'
  <2>1. jobs' \in [DOMAIN jobs' -> RecordJob]
    BY <1>1, <1>4, <1>5 DEF TypeOK
  <2> QED
    BY <1>1, <1>2, <1>4, <2>1 DEF TypeOK, Messages
<1>7. \A i : \A n \in Nat :
        /\ RunAt(recordBox', n, i) <=> n # 0 /\ RunAt(recordBox, n + 1, i)
        /\ EndAt(recordBox', n, i) <=> n # 0 /\ EndAt(recordBox, n + 1, i)
  BY <1>1, <1>2, TakenNotes
<1>8. \A n \in Nat : ~RunAt(recordBox', n, j) /\ ~EndAt(recordBox', n, j)
  <2> SUFFICES ASSUME NEW n \in Nat, RunAt(recordBox', n, j) \/ EndAt(recordBox', n, j)
               PROVE  FALSE
    OBVIOUS
  <2>1. RunAt(recordBox, n + 1, j) \/ EndAt(recordBox, n + 1, j)
    BY <1>7
  <2>2. n + 1 \in Nat /\ n + 1 # 1 /\ ~(n + 1 < 1)
    BY <1>7
  <2> QED
    BY <1>2, <2>1, <2>2 DEF Inv, NotesInOrder
<1>9. \A i \in JobIds \ {j} : ActiveJob(i)' <=> ActiveJob(i)
  BY <1>4 DEF ActiveJob
<1>10. RunIsDue'
  BY <1>4, <1>7, <1>8 DEF RunIsDue, Inv
<1>11. EndIsDue'
  BY <1>4, <1>7, <1>8, <1>9 DEF EndIsDue, WorkerAt, Inv
<1>12. NotesInOrder'
  <2> SUFFICES ASSUME NEW i \in JobIds, NEW n \in Nat, NEW k \in Nat
               PROVE  /\ RunAt(recordBox', n, i) /\ RunAt(recordBox', k, i) => n = k
                      /\ EndAt(recordBox', n, i) /\ EndAt(recordBox', k, i) => n = k
                      /\ RunAt(recordBox', n, i) /\ EndAt(recordBox', k, i) => n < k
    BY DEF NotesInOrder
  <2> QED
    BY <1>7 DEF NotesInOrder, Inv
<1>13. AcceptedAwaitsRun'
  <2> SUFFICES ASSUME NEW i \in JobIds, i \in DOMAIN jobs', jobs'[i].status = "accepted",
                      ~WorkerAt(i, "spawned")'
               PROVE  \E n \in Nat : RunAt(recordBox', n, i)
    BY DEF AcceptedAwaitsRun
  <2>1. i # j
    BY <1>5 DEF FinishedStatus
  <2>2. PICK n \in Nat : RunAt(recordBox, n, i)
    BY <1>4, <2>1 DEF AcceptedAwaitsRun, WorkerAt, Inv
  <2>3. n # 0 /\ n # 1
    BY <1>2, <2>1, <2>2 DEF RunAt, EndAt, recordJobRunning
  <2>4. RunAt(recordBox', n - 1, i) /\ n - 1 \in Nat
    BY <1>7, <2>2, <2>3
  <2> QED
    BY <2>4
<1>14. LiveIsActive'
  BY <1>3, <1>4, <1>9 DEF LiveIsActive, Live, LiveStages, ActiveJob, WorkerAt, Inv
<1>15. KnownIsStarted'
  BY <1>4 DEF KnownIsStarted, WorkerAt, Inv
<1>16. DoneIsKept'
  BY <1>4 DEF DoneIsKept, WorkerAt, Inv
<1>17. SlotsSuffice'
  <2>1. ActiveJobs(jobs)' \subseteq ActiveJobs(jobs)
    BY <1>4, <1>5 DEF ActiveJobs, ActiveStatus, FinishedStatus
  <2>2. /\ IsFiniteSet(ActiveJobs(jobs)')
        /\ Cardinality(ActiveJobs(jobs)') <= Cardinality(ActiveJobs(jobs))
        /\ Cardinality(ActiveJobs(jobs)') \in Nat
        /\ Cardinality(ActiveJobs(jobs)) \in Nat
    BY <2>1, FS_Subset, FS_CardinalityType DEF Inv, SlotsSuffice
  <2> QED
    BY <2>2 DEF SlotsSuffice, Inv
<1> QED
  BY <1>6, <1>10, <1>11, <1>12, <1>13, <1>14, <1>15, <1>16, <1>17 DEF Inv

-----------------------------------------------------------------------------
(* The goroutines.  What a step may change besides its own stage is the    *)
(* storage, and the mailbox by one note.                                   *)
WorkerFrame(j) ==
  /\ UNCHANGED <<jobs, since, initError, recordUp, reply, restarts>>
  /\ worker' \in [JobIds -> Worker]
  /\ \A i \in JobIds \ {j} : worker'[i] = worker[i]
  /\ store' \in [buckets : SUBSET {BucketOf(p) : p \in Places},
                 holds : [Places -> JobIds \cup {NoJob}]]

LEMMA WorkerBeginsInv ==
  ASSUME Inv, NEW j \in JobIds, WorkerAt(j, "spawned"), WorkerFrame(j),
         worker'[j].stage = "lookup", RecordSends(recordJobRunning(j))
  PROVE  Inv'
<1> USE RecordAssumption
<1>1. TypeOK /\ recordBox \in Seq(Messages) /\ recordJobRunning(j) \in Messages
  BY NotesAreMessages DEF Inv, TypeOK, Messages
<1>2. /\ recordBox' = Append(recordBox, recordJobRunning(j))
      /\ recordBox' \in Seq(Messages) /\ Len(recordBox) \in Nat
  BY <1>1 DEF RecordSends
<1>3. TypeOK'
  BY <1>1, <1>2 DEF TypeOK, WorkerFrame, Messages
<1>4. \A i : \A n \in Nat :
        /\ RunAt(recordBox', n, i) <=>
             RunAt(recordBox, n, i) \/ (n = Len(recordBox) + 1 /\ i = j)
        /\ EndAt(recordBox', n, i) <=> EndAt(recordBox, n, i)
  <2> SUFFICES ASSUME NEW i, NEW n \in Nat
               PROVE  /\ RunAt(recordBox', n, i) <=>
                           RunAt(recordBox, n, i) \/ (n = Len(recordBox) + 1 /\ i = j)
                      /\ EndAt(recordBox', n, i) <=> EndAt(recordBox, n, i)
    OBVIOUS
  <2>1. /\ recordJobRunning(j).type = "running"
        /\ recordJobRunning(j) = recordJobRunning(i) <=> i = j
    BY DEF recordJobRunning
  <2> QED
    BY <1>1, <1>2, <2>1, SentNotes
<1>5. ActiveJob(j) /\ jobs[j].status = "accepted"
  BY DEF Inv, LiveIsActive, Live, LiveStages, WorkerAt
<1>6. \A n \in Nat : ~RunAt(recordBox, n, j) /\ ~EndAt(recordBox, n, j)
  BY DEF Inv, RunIsDue, EndIsDue, WorkerAt
<1>7. UNCHANGED <<jobs, since>> /\ \A i \in JobIds : ActiveJob(i)' <=> ActiveJob(i)
  BY DEF WorkerFrame, ActiveJob
<1>8. \A i \in JobIds \ {j} : worker'[i] = worker[i]
  BY DEF WorkerFrame
<1>9. RunIsDue'
  BY <1>4, <1>5, <1>7, <1>8 DEF RunIsDue, ActiveJob, Inv
<1>10. EndIsDue'
  BY <1>4, <1>6, <1>7, <1>8 DEF EndIsDue, WorkerAt, Inv
<1>11. NotesInOrder'
  <2> SUFFICES ASSUME NEW i \in JobIds, NEW n \in Nat, NEW k \in Nat
               PROVE  /\ RunAt(recordBox', n, i) /\ RunAt(recordBox', k, i) => n = k
                      /\ EndAt(recordBox', n, i) /\ EndAt(recordBox', k, i) => n = k
                      /\ RunAt(recordBox', n, i) /\ EndAt(recordBox', k, i) => n < k
    BY DEF NotesInOrder
  <2> QED
    BY <1>4, <1>6 DEF NotesInOrder, Inv
<1>12. AcceptedAwaitsRun'
  <2> SUFFICES ASSUME NEW i \in JobIds, i \in DOMAIN jobs, jobs[i].status = "accepted",
                      ~WorkerAt(i, "spawned")'
               PROVE  \E n \in Nat : RunAt(recordBox', n, i)
    BY <1>7 DEF AcceptedAwaitsRun
  <2>1. CASE i = j
    BY <1>2, <1>4, <2>1
  <2>2. CASE i # j
    BY <1>4, <1>8, <2>2 DEF AcceptedAwaitsRun, WorkerAt, Inv
  <2> QED
    BY <2>1, <2>2
<1>13. LiveIsActive'
  BY <1>5, <1>7, <1>8 DEF LiveIsActive, Live, WorkerAt, Inv
<1>14. KnownIsStarted' /\ DoneIsKept'
  BY <1>5, <1>7, <1>8 DEF KnownIsStarted, DoneIsKept, WorkerAt, Inv
<1>15. SlotsSuffice'
  BY <1>7 DEF SlotsSuffice, ActiveJobs, Inv
<1> QED
  BY <1>3, <1>9, <1>10, <1>11, <1>12, <1>13, <1>14, <1>15 DEF Inv

(* A call has succeeded and the goroutine goes on to the next.             *)
LEMMA WorkerMovesInv ==
  ASSUME Inv, NEW j \in JobIds, Live(j), ~WorkerAt(j, "spawned"), WorkerFrame(j),
         worker'[j].stage \in LiveStages \ {"spawned"}, UNCHANGED recordBox
  PROVE  Inv'
<1> USE RecordAssumption
<1>1. TypeOK'
  BY DEF Inv, TypeOK, WorkerFrame
<1>2. UNCHANGED <<jobs, since, recordBox>> /\ \A i \in JobIds : ActiveJob(i)' <=> ActiveJob(i)
  BY DEF WorkerFrame, ActiveJob
<1>3. \A i \in JobIds \ {j} : worker'[i] = worker[i]
  BY DEF WorkerFrame
<1>4. \A i \in JobIds : /\ WorkerAt(i, "spawned")' <=> WorkerAt(i, "spawned")
                        /\ WorkerAt(i, "none")' <=> WorkerAt(i, "none")
                        /\ WorkerAt(i, "done")' <=> WorkerAt(i, "done")
                        /\ Live(i)' <=> Live(i)
  BY <1>3 DEF WorkerAt, Live, LiveStages
<1>5. RunIsDue' /\ EndIsDue' /\ NotesInOrder'
  BY <1>2, <1>4 DEF RunIsDue, EndIsDue, NotesInOrder, WorkerAt, Inv
<1>6. AcceptedAwaitsRun' /\ LiveIsActive' /\ KnownIsStarted' /\ DoneIsKept'
  BY <1>2, <1>4 DEF AcceptedAwaitsRun, LiveIsActive, KnownIsStarted, DoneIsKept, Inv
<1>7. SlotsSuffice'
  BY <1>2 DEF SlotsSuffice, ActiveJobs, Inv
<1> QED
  BY <1>1, <1>5, <1>6, <1>7 DEF Inv

(* It has come to its end, well or not, and says so.                       *)
LEMMA WorkerEndsInv ==
  ASSUME Inv, NEW j \in JobIds, Live(j), ~WorkerAt(j, "spawned"), WorkerFrame(j),
         worker'[j].stage = "done", NEW m \in Messages, RecordSends(m),
         m.type \in {"completed", "failed"}, m.job = j
  PROVE  Inv'
<1> USE RecordAssumption
<1>1. TypeOK /\ recordBox \in Seq(Messages)
  BY DEF Inv, TypeOK, Messages
<1>2. /\ recordBox' = Append(recordBox, m)
      /\ recordBox' \in Seq(Messages) /\ Len(recordBox) \in Nat
  BY <1>1 DEF RecordSends
<1>3. TypeOK'
  BY <1>1, <1>2 DEF TypeOK, WorkerFrame, Messages
<1>4. \A i : \A n \in Nat :
        /\ RunAt(recordBox', n, i) <=> RunAt(recordBox, n, i)
        /\ EndAt(recordBox', n, i) <=>
             EndAt(recordBox, n, i) \/ (n = Len(recordBox) + 1 /\ i = j)
        /\ RunAt(recordBox, n, i) => n < Len(recordBox) + 1
  <2> SUFFICES ASSUME NEW i, NEW n \in Nat
               PROVE  /\ RunAt(recordBox', n, i) <=> RunAt(recordBox, n, i)
                      /\ EndAt(recordBox', n, i) <=>
                           EndAt(recordBox, n, i) \/ (n = Len(recordBox) + 1 /\ i = j)
                      /\ RunAt(recordBox, n, i) => n < Len(recordBox) + 1
    OBVIOUS
  <2>1. m # recordJobRunning(i)
    BY DEF recordJobRunning
  <2> QED
    BY <1>1, <1>2, <2>1, SentNotes
<1>5. ActiveJob(j)
  BY DEF Inv, LiveIsActive
<1>6. \A n \in Nat : ~EndAt(recordBox, n, j)
  BY DEF Inv, EndIsDue, WorkerAt, Live, LiveStages
<1>7. UNCHANGED <<jobs, since>> /\ \A i \in JobIds : ActiveJob(i)' <=> ActiveJob(i)
  BY DEF WorkerFrame, ActiveJob
<1>8. \A i \in JobIds \ {j} : worker'[i] = worker[i]
  BY DEF WorkerFrame
<1>9. RunIsDue'
  BY <1>4, <1>7, <1>8 DEF RunIsDue, Inv
<1>10. EndIsDue'
  BY <1>4, <1>5, <1>7, <1>8 DEF EndIsDue, WorkerAt, Inv
<1>11. NotesInOrder'
  <2> SUFFICES ASSUME NEW i \in JobIds, NEW n \in Nat, NEW k \in Nat
               PROVE  /\ RunAt(recordBox', n, i) /\ RunAt(recordBox', k, i) => n = k
                      /\ EndAt(recordBox', n, i) /\ EndAt(recordBox', k, i) => n = k
                      /\ RunAt(recordBox', n, i) /\ EndAt(recordBox', k, i) => n < k
    BY DEF NotesInOrder
  <2> QED
    BY <1>4, <1>6 DEF NotesInOrder, Inv
<1>12. AcceptedAwaitsRun'
  BY <1>4, <1>7, <1>8 DEF AcceptedAwaitsRun, WorkerAt, Inv
<1>13. LiveIsActive'
  BY <1>7, <1>8 DEF LiveIsActive, Live, LiveStages, WorkerAt, Inv
<1>14. KnownIsStarted' /\ DoneIsKept'
  BY <1>5, <1>7, <1>8 DEF KnownIsStarted, DoneIsKept, ActiveJob, WorkerAt, Inv
<1>15. SlotsSuffice'
  BY <1>7 DEF SlotsSuffice, ActiveJobs, Inv
<1> QED
  BY <1>3, <1>9, <1>10, <1>11, <1>12, <1>13, <1>14, <1>15 DEF Inv

(* A place in the storage, and the stage of a goroutine, may be set.       *)
LEMMA StoreKeepsType ==
  ASSUME TypeOK, NEW j \in JobIds, NEW p \in Places
  PROVE  /\ [store EXCEPT !.holds[p] = j]
              \in [buckets : SUBSET {BucketOf(q) : q \in Places},
                   holds : [Places -> JobIds \cup {NoJob}]]
         /\ [store EXCEPT !.buckets = store.buckets \cup {BucketOf(p)}]
              \in [buckets : SUBSET {BucketOf(q) : q \in Places},
                   holds : [Places -> JobIds \cup {NoJob}]]
<1> DEFINE Buckets == {BucketOf(q) : q \in Places}
<1> DEFINE Holds == [Places -> JobIds \cup {NoJob}]
<1>1. store \in [buckets : SUBSET Buckets, holds : Holds]
  BY DEF TypeOK
<1>2. BucketOf(p) \in Buckets
  OBVIOUS
<1>3. \A h \in Holds : [h EXCEPT ![p] = j] \in Holds
  OBVIOUS
<1>4. \A b \in SUBSET Buckets : b \cup {BucketOf(p)} \in SUBSET Buckets
  BY <1>2
<1> HIDE DEF Buckets, Holds
<1>5. store.holds \in Holds /\ store.buckets \in SUBSET Buckets
  BY <1>1
<1>6. [store EXCEPT !.holds = [store.holds EXCEPT ![p] = j]]
        \in [buckets : SUBSET Buckets, holds : Holds]
  BY <1>1, <1>3, <1>5
<1>7. [store EXCEPT !.buckets = store.buckets \cup {BucketOf(p)}]
        \in [buckets : SUBSET Buckets, holds : Holds]
  BY <1>1, <1>4, <1>5
<1> QED
  BY <1>6, <1>7 DEF Buckets, Holds

LEMMA WorkerGoesOn ==
  ASSUME TypeOK, NEW j \in JobIds, NEW stage, NEW p,
         [stage |-> stage, place |-> p] \in Worker, WorkerGoes(j, stage, p)
  PROVE  /\ worker' \in [JobIds -> Worker]
         /\ worker'[j].stage = stage
         /\ \A i \in JobIds \ {j} : worker'[i] = worker[i]
<1>1. worker \in [JobIds -> Worker]
  BY DEF TypeOK
<1> QED
  BY <1>1 DEF WorkerGoes

(* What a goroutine can be at each stage.                                  *)
LEMMA StagesOfWorkers ==
  ASSUME NEW w \in Worker
  PROVE  /\ w.stage \in {"fetch", "exists", "make", "put"} => w.place \in Places
         /\ w.stage \in LiveStages => [stage |-> "done", place |-> w.place] \in Worker
         /\ \A p \in Places : \A s \in {"fetch", "exists", "make", "put", "done"} :
              [stage |-> s, place |-> p] \in Worker
         /\ [stage |-> "lookup", place |-> NoPlace] \in Worker
  BY DEF Worker, LiveStages

(* Every step of a goroutine.                                              *)
LEMMA WorkerInv == ASSUME Inv, NEW j \in JobIds, WorkerActs(j) PROVE Inv'
<1> USE RecordAssumption
<1> DEFINE place == worker[j].place
<1>1. /\ TypeOK /\ worker[j] \in Worker
      /\ store \in [buckets : SUBSET {BucketOf(p) : p \in Places},
                    holds : [Places -> JobIds \cup {NoJob}]]
  BY DEF Inv, TypeOK
<1>2. CASE WorkerBegins(j)
  <2>1. WorkerFrame(j) /\ worker'[j].stage = "lookup"
    BY <1>1, <1>2, WorkerGoesOn, StagesOfWorkers
    DEF WorkerActs, WorkerBegins, WorkerFrame
  <2> QED
    BY <1>2, <2>1, WorkerBeginsInv DEF WorkerBegins
<1>3. CASE WorkerFindsPlace(j)
  <2>1. PICK p \in Places : WorkerGoes(j, "fetch", p)
    BY <1>3 DEF WorkerFindsPlace
  <2>2. WorkerFrame(j) /\ worker'[j].stage = "fetch"
    BY <1>1, <1>3, <2>1, WorkerGoesOn, StagesOfWorkers
    DEF WorkerActs, WorkerFindsPlace, WorkerFrame
  <2> QED
    BY <1>3, <2>2, WorkerMovesInv DEF WorkerFindsPlace, WorkerAt, Live, LiveStages
<1>4. CASE WorkerOpensStream(j)
  <2>1. WorkerFrame(j) /\ worker'[j].stage = "exists"
    BY <1>1, <1>4, WorkerGoesOn, StagesOfWorkers
    DEF WorkerActs, WorkerOpensStream, WorkerFrame, WorkerAt
  <2> QED
    BY <1>4, <2>1, WorkerMovesInv DEF WorkerOpensStream, WorkerAt, Live, LiveStages
<1>5. CASE WorkerAsksForBucket(j)
  <2>1. PICK stage \in {"put", "make"} : WorkerGoes(j, stage, place)
    BY <1>5 DEF WorkerAsksForBucket
  <2>2. WorkerFrame(j) /\ worker'[j].stage = stage
    BY <1>1, <1>5, <2>1, WorkerGoesOn, StagesOfWorkers
    DEF WorkerActs, WorkerAsksForBucket, WorkerFrame, WorkerAt
  <2> QED
    BY <1>5, <2>2, WorkerMovesInv DEF WorkerAsksForBucket, WorkerAt, Live, LiveStages
<1>6. WorkerAt(j, "make") \/ WorkerAt(j, "put") => place \in Places
  BY <1>1, StagesOfWorkers DEF WorkerAt
<1>7. CASE WorkerMakesBucket(j)
  <2>1. WorkerFrame(j) /\ worker'[j].stage = "put"
    BY <1>1, <1>6, <1>7, WorkerGoesOn, StagesOfWorkers, StoreKeepsType
    DEF WorkerActs, WorkerMakesBucket, WorkerFrame
  <2> QED
    BY <1>7, <2>1, WorkerMovesInv DEF WorkerMakesBucket, WorkerAt, Live, LiveStages
<1>8. CASE WorkerUploads(j)
  <2>1. WorkerFrame(j) /\ worker'[j].stage = "done"
    BY <1>1, <1>6, <1>8, WorkerGoesOn, StagesOfWorkers, StoreKeepsType
    DEF WorkerActs, WorkerUploads, WorkerFrame
  <2>2. recordJobCompleted(j, place) \in Messages /\ RecordSends(recordJobCompleted(j, place))
    BY <1>6, <1>8, NotesAreMessages DEF WorkerUploads
  <2> QED
    BY <1>8, <2>1, <2>2, WorkerEndsInv
    DEF WorkerUploads, WorkerAt, Live, LiveStages, recordJobCompleted
<1>9. CASE WorkerFails(j)
  <2>1. /\ Live(j) /\ ~WorkerAt(j, "spawned")
        /\ WorkerGoes(j, "done", place) /\ RecordSends(recordJobFailed(j))
        /\ UNCHANGED <<jobs, since, initError, recordUp, reply, restarts>>
    BY <1>9 DEF WorkerActs, WorkerFails, WorkerAt, Live
  <2>2. store' \in [buckets : SUBSET {BucketOf(p) : p \in Places},
                   holds : [Places -> JobIds \cup {NoJob}]]
    BY <1>1, <1>6, <1>9, StoreKeepsType DEF WorkerFails
  <2>3. WorkerFrame(j) /\ worker'[j].stage = "done"
    BY <1>1, <2>1, <2>2, WorkerGoesOn, StagesOfWorkers DEF WorkerFrame, Live
  <2>4. recordJobFailed(j) \in Messages
    BY NotesAreMessages
  <2> QED
    BY <2>1, <2>3, <2>4, WorkerEndsInv DEF recordJobFailed
<1> QED
  BY <1>2, <1>3, <1>4, <1>5, <1>7, <1>8, <1>9 DEF WorkerActs, WorkerStep

-----------------------------------------------------------------------------
(* A request arrives: behind all notes, and none of them.                  *)
LEMMA CallsInv ==
  ASSUME Inv, NEW c \in Callers, NEW m \in RecordRequests, Calls(c, m)
  PROVE  Inv'
<1> USE RecordAssumption
<1>1. TypeOK /\ recordBox \in Seq(Messages) /\ m \in Messages
  BY DEF Inv, TypeOK, Messages
<1>2. /\ recordBox' = Append(recordBox, m) /\ recordBox' \in Seq(Messages)
      /\ UNCHANGED <<jobs, worker, since, store, initError, recordUp, restarts>>
  BY <1>1 DEF Calls, RecordSends
<1>3. \A i : \A n \in Nat :
        /\ (RunAt(recordBox', n, i) => RunAt(recordBox, n, i))
        /\ (RunAt(recordBox, n, i) => RunAt(recordBox', n, i))
        /\ (EndAt(recordBox', n, i) => EndAt(recordBox, n, i))
  <2> SUFFICES ASSUME NEW i, NEW n \in Nat
               PROVE  /\ (RunAt(recordBox', n, i) => RunAt(recordBox, n, i))
                      /\ (RunAt(recordBox, n, i) => RunAt(recordBox', n, i))
                      /\ (EndAt(recordBox', n, i) => EndAt(recordBox, n, i))
    OBVIOUS
  <2>1. m # recordJobRunning(i) /\ m.type \notin {"completed", "failed"}
    BY DEF recordJobRunning, RecordRequests, StartRecordRequest, GetRecordJobRequest
  <2> QED
    BY <1>1, <1>2, <2>1, SentNotes
<1>4. reply' \in [Callers -> Replies]
  BY <1>1 DEF TypeOK, Calls, Respond, Replies
<1>5. TypeOK'
  BY <1>1, <1>2, <1>4 DEF TypeOK, Messages
<1>6. RunIsDue' /\ EndIsDue'
  BY <1>2, <1>3 DEF Inv, RunIsDue, EndIsDue, ActiveJob, WorkerAt
<1>7. NotesInOrder'
  <2> SUFFICES ASSUME NEW i \in JobIds, NEW n \in Nat, NEW k \in Nat
               PROVE  /\ RunAt(recordBox', n, i) /\ RunAt(recordBox', k, i) => n = k
                      /\ EndAt(recordBox', n, i) /\ EndAt(recordBox', k, i) => n = k
                      /\ RunAt(recordBox', n, i) /\ EndAt(recordBox', k, i) => n < k
    BY DEF NotesInOrder
  <2> QED
    BY <1>3 DEF NotesInOrder, Inv
<1>8. AcceptedAwaitsRun'
  BY <1>2, <1>3 DEF AcceptedAwaitsRun, WorkerAt, Inv
<1>9. LiveIsActive' /\ KnownIsStarted' /\ DoneIsKept' /\ SlotsSuffice'
  BY <1>2
  DEF Inv, LiveIsActive, KnownIsStarted, DoneIsKept, SlotsSuffice, Live, ActiveJob,
      ActiveJobs, WorkerAt
<1> QED
  BY <1>5, <1>6, <1>7, <1>8, <1>9 DEF Inv

(* Time passes: what was past its retention stays so.                      *)
LEMMA TimeInv == Inv /\ TimePasses => Inv'
<1> SUFFICES ASSUME Inv, TimePasses PROVE Inv'
  OBVIOUS
<1> USE RecordAssumption
<1>1. UNCHANGED <<jobs, recordBox, worker, store, initError, recordUp, reply, restarts>>
  BY DEF TimePasses
<1>2. since' \in [JobIds -> Nat] /\ \A j \in JobIds : since'[j] >= since[j]
  BY DEF TimePasses, RecordTime, Inv, TypeOK
<1>3. TypeOK'
  BY <1>1, <1>2 DEF Inv, TypeOK
<1>4. RunIsDue' /\ EndIsDue' /\ NotesInOrder' /\ AcceptedAwaitsRun' /\ LiveIsActive'
      /\ KnownIsStarted' /\ SlotsSuffice'
  BY <1>1
  DEF Inv, RunIsDue, EndIsDue, NotesInOrder, AcceptedAwaitsRun, LiveIsActive,
      KnownIsStarted, SlotsSuffice, Live, ActiveJob, ActiveJobs, WorkerAt
<1>5. DoneIsKept'
  BY <1>1, <1>2 DEF Inv, TypeOK, DoneIsKept, WorkerAt
<1> QED
  BY <1>3, <1>4, <1>5 DEF Inv

(* A process that has just started knows and does nothing.                 *)
Empty ==
  /\ TypeOK
  /\ DOMAIN jobs = {}
  /\ recordBox = <<>>
  /\ \A j \in JobIds : ~Live(j) /\ ~WorkerAt(j, "done")

LEMMA EmptyInv == Empty => Inv
<1> SUFFICES ASSUME Empty PROVE Inv
  OBVIOUS
<1> USE DEF Empty
<1> USE RecordAssumption
<1>1. \A j : \A i \in Nat : ~RunAt(recordBox, i, j) /\ ~EndAt(recordBox, i, j)
  BY DEF RunAt, EndAt
<1>2. ActiveJobs(jobs) = {}
  BY DEF ActiveJobs
<1>3. IsFiniteSet(ActiveJobs(jobs)) /\ Cardinality(ActiveJobs(jobs)) = 0
  BY <1>2, FS_EmptySet
<1>4. RunIsDue /\ EndIsDue /\ NotesInOrder /\ AcceptedAwaitsRun
  BY <1>1 DEF RunIsDue, EndIsDue, NotesInOrder, AcceptedAwaitsRun
<1>5. LiveIsActive /\ KnownIsStarted /\ DoneIsKept
  BY DEF LiveIsActive, KnownIsStarted, DoneIsKept, Live, LiveStages, WorkerAt
<1>6. SlotsSuffice
  BY <1>3 DEF SlotsSuffice
<1> QED
  BY <1>4, <1>5, <1>6 DEF Inv

(* The requests that start nothing.                                        *)
LEMMA RequestsInv ==
  ASSUME Inv, StartHasNoClients \/ StartIsTooMany \/ StartHasNoId \/ GetAnswers,
         UNCHANGED restarts
  PROVE  Inv'
<1>1. TypeOK /\ RecordTakes /\ jobs' = Kept
      /\ UNCHANGED <<worker, since, store, initError, recordUp>>
  BY DEF Inv, StartHasNoClients, StartIsTooMany, StartHasNoId, GetAnswers
<1>2. RecordGets("start") \/ RecordGets("get")
  BY DEF StartHasNoClients, StartIsTooMany, StartHasNoId, StartHasSlot, GetAnswers
<1>3. recordBox # <<>> /\ RecordMsg.type \in {"start", "get"}
  BY <1>2 DEF RecordGets
<1>4. /\ RecordMsg.caller \in Callers
      /\ RecordMsg.type = "get" => RecordMsg.job \in JobIds
  BY <1>1, <1>3, HeadNotes, KindsOfMessages
<1>5. PICK result \in Replies : Respond(RecordMsg.caller, result)
  <2>1. CASE GetAnswers
    <3> DEFINE job == RecordMsg.job
    <3>1. job \in JobIds /\ RecordJobStatusResult(404, job, "none") \in Replies
      BY <1>4, <2>1 DEF GetAnswers, RecordGets, RecordJobStatusResult, RecordResults, Replies
    <3>2. job \in DOMAIN Kept => RecordJobStatusResult(200, job, jobs[job].status) \in Replies
      <4> SUFFICES ASSUME job \in DOMAIN Kept
                   PROVE  RecordJobStatusResult(200, job, jobs[job].status) \in Replies
        OBVIOUS
      <4>1. jobs[job] \in RecordJob
        BY <1>1, KeptJobs DEF TypeOK
      <4>2. jobs[job].status \in ActiveStatus \cup FinishedStatus
        BY <4>1 DEF RecordJob
      <4> QED
        BY <3>1, <4>2 DEF RecordJobStatusResult, RecordResults, Replies
    <3> QED
      BY <2>1, <3>1, <3>2 DEF GetAnswers
  <2>2. /\ StartRecordResult(500, NoJob, "none") \in Replies
        /\ StartRecordResult(429, NoJob, "none") \in Replies
    BY DEF StartRecordResult, RecordResults, Replies
  <2> QED
    BY <2>1, <2>2 DEF StartHasNoClients, StartIsTooMany, StartHasNoId
<1>6. reply' \in [Callers -> Replies]
  BY <1>1, <1>4, <1>5 DEF TypeOK, Respond
<1> QED
  BY <1>1, <1>2, <1>6, PrunedInv

(* The process is started again.                                           *)
LEMMA RestartInv == Inv /\ Restarts => Inv'
<1> SUFFICES ASSUME Inv, Restarts PROVE Inv'
  OBVIOUS
<1> USE RecordAssumption
<1>1. /\ DOMAIN jobs' = {} /\ recordBox' = <<>>
      /\ jobs' \in [{} -> RecordJob]
  BY DEF Restarts, RecordRestarts
<1>2. worker' \in [JobIds -> Worker]
      /\ \A j \in JobIds : worker'[j].stage \in {"none", "killed"}
  <2>1. \A w \in Worker : [w EXCEPT !.stage = "killed"].stage = "killed"
                          /\ [w EXCEPT !.stage = "killed"] \in Worker
    BY DEF Worker
  <2> QED
    BY <2>1 DEF Inv, TypeOK, Restarts, RecordRestarts, WorkerAt
<1>3. since' \in [JobIds -> Nat] /\ restarts' \in Nat
  BY DEF Inv, TypeOK, Restarts, RecordRestarts
<1>4. /\ initError' \in BOOLEAN /\ recordUp' \in BOOLEAN
      /\ UNCHANGED <<store, reply>>
  BY DEF Restarts, RecordRestarts
<1>5. recordBox' \in Seq(Messages)
  BY <1>1
<1>6. TypeOK'
  BY <1>1, <1>2, <1>3, <1>4, <1>5 DEF Inv, TypeOK, Messages
<1>7. Empty'
  BY <1>1, <1>2, <1>6 DEF Empty, Live, LiveStages, WorkerAt
<1> QED
  BY <1>7, EmptyInv, PTL

LEMMA InitInv == Init => Inv
<1> SUFFICES ASSUME Init PROVE Inv
  OBVIOUS
<1> USE RecordAssumption
<1>1. /\ DOMAIN jobs = {} /\ recordBox = <<>> /\ jobs \in [{} -> RecordJob]
      /\ \A j \in JobIds : worker[j].stage = "none"
      /\ worker \in [JobIds -> Worker]
  BY DEF Init, RecordInit, Idle, Worker
<1>2. /\ since \in [JobIds -> Nat] /\ restarts \in Nat
      /\ initError \in BOOLEAN /\ recordUp \in BOOLEAN
  BY DEF Init, RecordInit
<1>3. store \in [buckets : SUBSET {BucketOf(p) : p \in Places},
                 holds : [Places -> JobIds \cup {NoJob}]]
  BY DEF Init, RecordInit
<1>4. reply \in [Callers -> Replies]
  BY DEF Init, RecordInit, Replies
<1>5. TypeOK
  BY <1>1, <1>2, <1>3, <1>4 DEF TypeOK
<1> QED
  BY <1>1, <1>5, EmptyInv DEF Empty, Live, LiveStages, WorkerAt

LEMMA NextInv == Inv /\ [Next]_vars => Inv'
<1> SUFFICES ASSUME Inv, [Next]_vars PROVE Inv'
  OBVIOUS
<1>1. CASE \E c \in Callers : CallsStart(c) \/ CallsGet(c)
  <2>1. PICK c \in Callers, m \in RecordRequests : Calls(c, m)
    BY <1>1 DEF CallsStart, CallsGet, RecordRequests
  <2> QED
    BY <2>1, CallsInv
<1>2. CASE ActorActs
  <2>1. CASE StartHasNoClients \/ StartIsTooMany \/ StartHasNoId \/ GetAnswers
    BY <1>2, <2>1, RequestsInv DEF ActorActs
  <2>2. CASE StartAccepts
    BY <1>2, <2>2, StartAcceptsInv DEF ActorActs
  <2>3. CASE JobIsRunning
    BY <1>2, <2>3, JobIsRunningInv DEF ActorActs
  <2>4. CASE JobIsCompleted \/ JobIsFailed
    BY <1>2, <2>4, JobEndsInv DEF ActorActs
  <2> QED
    BY <1>2, <2>1, <2>2, <2>3, <2>4 DEF ActorActs, RecordActorStep
<1>3. CASE \E j \in JobIds : WorkerActs(j)
  BY <1>3, WorkerInv
<1>4. CASE TimePasses
  BY <1>4, TimeInv
<1>5. CASE Stops
  <2>1. UNCHANGED <<jobs, recordBox, worker, since, store, initError, reply, restarts>>
        /\ recordUp' \in BOOLEAN
    BY <1>5 DEF Stops, RecordStopping
  <2> QED
    BY <2>1
    DEF Inv, TypeOK, RunIsDue, EndIsDue, NotesInOrder, AcceptedAwaitsRun, LiveIsActive,
        KnownIsStarted, DoneIsKept, SlotsSuffice, Live, ActiveJob, ActiveJobs, WorkerAt
<1>6. CASE Restarts
  BY <1>6, RestartInv
<1>7. CASE UNCHANGED vars
  BY <1>7
  DEF Inv, TypeOK, RunIsDue, EndIsDue, NotesInOrder, AcceptedAwaitsRun, LiveIsActive,
      KnownIsStarted, DoneIsKept, SlotsSuffice, Live, ActiveJob, ActiveJobs, WorkerAt,
      vars, recordVars
<1> QED
  BY <1>1, <1>2, <1>3, <1>4, <1>5, <1>6, <1>7 DEF Next

LEMMA Invariance == Spec => []Inv
BY InitInv, NextInv, PTL DEF Spec

-----------------------------------------------------------------------------
(* Jobs, messages, goroutines and storage keep their types.                *)
THEOREM RecordTypeCorrect == Spec => []TypeOK
<1>1. Inv => TypeOK
  BY DEF Inv
<1> QED
  BY <1>1, Invariance, PTL

(* The goroutines alive are among the jobs the table counts as active.     *)
THEOREM RecordingsAreLimited == Spec => []WorkersWithinLimit
<1>1. Inv => WorkersWithinLimit
  <2> SUFFICES ASSUME Inv PROVE WorkersWithinLimit
    OBVIOUS
  <2>1. {j \in JobIds : Live(j)} \subseteq ActiveJobs(jobs)
    BY DEF Inv, LiveIsActive, ActiveJob, ActiveJobs
  <2>2. /\ Cardinality({j \in JobIds : Live(j)}) <= Cardinality(ActiveJobs(jobs))
        /\ Cardinality({j \in JobIds : Live(j)}) \in Nat
        /\ Cardinality(ActiveJobs(jobs)) \in Nat
    BY <2>1, FS_Subset, FS_CardinalityType DEF Inv, SlotsSuffice
  <2> QED
    BY <2>2, RecordAssumption DEF Inv, SlotsSuffice, WorkersWithinLimit
<1> QED
  BY <1>1, Invariance, PTL

(* A job is known while its goroutine lives and as long after as its       *)
(* retention.                                                              *)
THEOREM JobsAreRetained == Spec => []KnownUntilRetention
<1>1. Inv => KnownUntilRetention
  BY DEF Inv, LiveIsActive, ActiveJob, DoneIsKept, KnownUntilRetention
<1> QED
  BY <1>1, Invariance, PTL

-----------------------------------------------------------------------------
(***************************************************************************)
(* The record actor with its goroutines implements RecordJobs: every step  *)
(* of theirs accepts, runs, finishes or forgets jobs as the service may,   *)
(* loses them all, or changes nothing an observer of the table sees.       *)
(***************************************************************************)

Waits(j) == worker[j].stage = "none"

(* What the service's state is in terms of the table and the goroutines.   *)
LEMMA StateOfJobs ==
  ASSUME NEW j \in JobIds
  PROVE  /\ j \in DOMAIN jobs => JobState[j] = jobs[j].status
         /\ j \notin DOMAIN jobs /\ Waits(j) => JobState[j] = "unused"
         /\ j \notin DOMAIN jobs /\ ~Waits(j) => JobState[j] = "gone"
  BY DEF JobState, Waits

LEMMA StateOfJobsNext ==
  ASSUME NEW j \in JobIds
  PROVE  /\ j \in DOMAIN jobs' => JobState'[j] = jobs'[j].status
         /\ j \notin DOMAIN jobs' /\ Waits(j)' => JobState'[j] = "unused"
         /\ j \notin DOMAIN jobs' /\ ~Waits(j)' => JobState'[j] = "gone"
  BY DEF JobState, Waits

(* A step that moves the jobs of one set and forgets those of another.     *)
LEMMA MovesJobs ==
  ASSUME NEW old \in SUBSET Service!Finished, NEW moved, NEW to,
         \A j \in JobIds : /\ j \in moved => JobState'[j] = to
                           /\ j \notin moved /\ j \in old => JobState'[j] = "gone"
                           /\ j \notin moved /\ j \notin old => JobState'[j] = JobState[j]
  PROVE  Service!Moves(old, moved, to)
<1>1. JobState' = [j \in JobIds |-> JobState'[j]]
  BY DEF JobState
<1>2. \A j \in JobIds : JobState'[j] = IF j \in moved THEN to
                                       ELSE IF j \in old THEN "gone" ELSE JobState[j]
  OBVIOUS
<1> QED
  BY <1>1, <1>2 DEF Service!Moves

(* A step that leaves the table, and starts no goroutine.                  *)
LEMMA StutterOfService ==
  ASSUME UNCHANGED jobs, \A j \in JobIds : Waits(j)' <=> Waits(j)
  PROVE  JobState' = JobState
<1>1. \A j \in JobIds : JobState'[j] = JobState[j]
  BY StateOfJobs, StateOfJobsNext
<1> QED
  BY <1>1 DEF JobState

(* The jobs that pruning removes are finished ones.                        *)
PrunedJobs == DOMAIN jobs \ DOMAIN Kept

LEMMA PrunedAreFinished ==
  ASSUME Inv PROVE PrunedJobs \in SUBSET Service!Finished
<1>1. TypeOK
  BY DEF Inv
<1>2. \A j \in PrunedJobs : j \in JobIds /\ jobs[j].status \in FinishedStatus
  BY <1>1, KeptJobs DEF PrunedJobs, TypeOK
<1>3. \A j \in PrunedJobs : JobState[j] \in FinishedStatus
  BY <1>2, StateOfJobs DEF PrunedJobs
<1> QED
  BY <1>2, <1>3 DEF Service!Finished, FinishedStatus

LEMMA RequestForgets ==
  ASSUME Inv, jobs' = Kept, UNCHANGED worker
  PROVE  Service!Forget(PrunedJobs)
<1>1. TypeOK
  BY DEF Inv
<1>2. \A j \in JobIds : Waits(j)' <=> Waits(j)
  BY DEF Waits
<1>3. \A j \in JobIds :
        /\ j \in PrunedJobs => JobState'[j] = "gone"
        /\ j \notin PrunedJobs => JobState'[j] = JobState[j]
  <2> SUFFICES ASSUME NEW j \in JobIds
               PROVE  /\ j \in PrunedJobs => JobState'[j] = "gone"
                      /\ j \notin PrunedJobs => JobState'[j] = JobState[j]
    OBVIOUS
  <2>1. CASE j \in PrunedJobs
    <3>1. j \notin DOMAIN jobs' /\ ~Waits(j)
      BY <2>1 DEF PrunedJobs, Inv, KnownIsStarted, WorkerAt, Waits
    <3> QED
      BY <1>2, <2>1, <3>1, StateOfJobsNext
  <2>2. CASE j \notin PrunedJobs
    <3>1. j \in DOMAIN jobs' <=> j \in DOMAIN jobs
      BY <1>1, <2>2, KeptJobs DEF PrunedJobs
    <3>2. j \in DOMAIN jobs' => jobs'[j] = jobs[j]
      BY <1>1, KeptJobs
    <3> QED
      BY <1>2, <2>2, <3>1, <3>2, StateOfJobs, StateOfJobsNext
  <2> QED
    BY <2>1, <2>2
<1> QED
  BY <1>3, PrunedAreFinished, MovesJobs DEF Service!Forget

(* Accepting a job takes a free slot.                                      *)
LEMMA ActiveInService == ASSUME Inv PROVE Service!Active = ActiveJobs(jobs)
<1>1. DOMAIN jobs \subseteq JobIds
  BY DEF Inv, TypeOK
<1>2. \A j \in JobIds : JobState[j] \in ActiveStatus <=> j \in ActiveJobs(jobs)
  BY StateOfJobs DEF ActiveJobs, ActiveStatus
<1> QED
  BY <1>1, <1>2 DEF Service!Active, ActiveStatus, ActiveJobs

LEMMA StartAcceptsInService ==
  ASSUME Inv, StartAccepts
  PROVE  \E j \in JobIds : Service!Accept(j, PrunedJobs)
<1>1. TypeOK
  BY DEF Inv
<1>2. PICK j \in JobIds :
        /\ worker[j].stage = "none"
        /\ jobs' = [i \in DOMAIN Kept \cup {j} |->
                      IF i = j
                        THEN [status |-> "accepted", ended |-> FALSE, place |-> NoPlace]
                        ELSE jobs[i]]
        /\ worker' = [worker EXCEPT ![j] = Idle("spawned")]
  BY DEF StartAccepts
<1>3. Waits(j) /\ j \notin DOMAIN jobs /\ j \notin PrunedJobs
  BY <1>2 DEF Inv, KnownIsStarted, WorkerAt, Waits, PrunedJobs
<1>4. /\ DOMAIN jobs' = DOMAIN Kept \cup {j}
      /\ jobs'[j].status = "accepted"
      /\ \A i \in DOMAIN Kept : i # j => jobs'[i] = jobs[i]
  BY <1>2
<1>5. \A i \in JobIds \ {j} : Waits(i)' <=> Waits(i)
  BY <1>1, <1>2 DEF Waits, TypeOK
<1>6. \A i \in JobIds :
        /\ i = j => JobState'[i] = "accepted"
        /\ i # j /\ i \in PrunedJobs => JobState'[i] = "gone"
        /\ i # j /\ i \notin PrunedJobs => JobState'[i] = JobState[i]
  <2> SUFFICES ASSUME NEW i \in JobIds
               PROVE  /\ i = j => JobState'[i] = "accepted"
                      /\ i # j /\ i \in PrunedJobs => JobState'[i] = "gone"
                      /\ i # j /\ i \notin PrunedJobs => JobState'[i] = JobState[i]
    OBVIOUS
  <2>1. CASE i = j
    BY <1>4, <2>1, StateOfJobsNext
  <2>2. CASE i # j /\ i \in PrunedJobs
    <3>1. i \notin DOMAIN jobs' /\ ~Waits(i)
      BY <1>4, <2>2 DEF PrunedJobs, Inv, KnownIsStarted, WorkerAt, Waits
    <3> QED
      BY <1>5, <2>2, <3>1, StateOfJobsNext
  <2>3. CASE i # j /\ i \notin PrunedJobs
    <3>1. i \in DOMAIN jobs' <=> i \in DOMAIN jobs
      BY <1>1, <1>4, <2>3, KeptJobs DEF PrunedJobs
    <3>2. i \in DOMAIN jobs' => jobs'[i] = jobs[i]
      BY <1>1, <1>4, <2>3, KeptJobs
    <3> QED
      BY <1>5, <2>3, <3>1, <3>2, StateOfJobs, StateOfJobsNext
  <2> QED
    BY <2>1, <2>2, <2>3
<1>7. Service!Moves(PrunedJobs, {j}, "accepted")
  BY <1>6, PrunedAreFinished, MovesJobs
<1>8. JobState[j] = "unused"
  BY <1>3, StateOfJobs
<1>9. Cardinality(Service!Active) < MaxConcurrentJobs
  BY <1>1, ActiveInService, KeptJobs DEF StartAccepts, StartHasSlot
<1>10. Service!Cardinality(Service!Active) = Cardinality(Service!Active)
  BY Zenon DEF Cardinality, Service!Cardinality
<1>11. Service!Accept(j, PrunedJobs)
  BY <1>7, <1>8, <1>9, <1>10 DEF Service!Accept
<1> QED
  BY <1>11

(* The messages of a goroutine move its job, each from one status only.    *)
LEMMA NoteMovesJob ==
  ASSUME Inv, NEW j \in DOMAIN jobs, NEW to, DOMAIN jobs' = DOMAIN jobs,
         jobs'[j].status = to, \A i \in DOMAIN jobs : i # j => jobs'[i] = jobs[i],
         UNCHANGED worker
  PROVE  Service!Moves({}, {j}, to)
<1>1. j \in JobIds /\ \A i \in JobIds : Waits(i)' <=> Waits(i)
  BY DEF Inv, TypeOK, Waits
<1>2. \A i \in JobIds : /\ i = j => JobState'[i] = to
                        /\ i # j => JobState'[i] = JobState[i]
  BY <1>1, StateOfJobs, StateOfJobsNext
<1> QED
  BY <1>2, MovesJobs

LEMMA RunningInService ==
  ASSUME Inv, JobIsRunning PROVE \E j \in JobIds : Service!Run(j)
<1> DEFINE j == RecordMsg.job
<1>1. TypeOK /\ recordBox # <<>>
  BY DEF Inv, JobIsRunning, RecordGets
<1>2. j \in JobIds /\ RunAt(recordBox, 1, j)
  BY <1>1, HeadNotes, KindsOfMessages DEF JobIsRunning, RecordGets
<1>3. j \in DOMAIN jobs /\ jobs[j].status = "accepted" /\ jobs[j] \in RecordJob
  BY <1>1, <1>2 DEF Inv, RunIsDue, TypeOK
<1>4. /\ DOMAIN jobs' = DOMAIN jobs
      /\ jobs'[j] = [jobs[j] EXCEPT !.status = "running"]
      /\ \A i \in DOMAIN jobs : i # j => jobs'[i] = jobs[i]
      /\ UNCHANGED worker
  BY <1>3 DEF JobIsRunning
<1>5. \A r \in RecordJob : [r EXCEPT !.status = "running"].status = "running"
  BY DEF RecordJob
<1>6. jobs'[j].status = "running"
  BY <1>3, <1>4, <1>5
<1>7. Service!Moves({}, {j}, "running")
  BY <1>3, <1>4, <1>6, NoteMovesJob
<1>8. JobState[j] = "accepted"
  BY <1>2, <1>3, StateOfJobs
<1> QED
  BY <1>2, <1>7, <1>8 DEF Service!Run

LEMMA FinishedInService ==
  ASSUME Inv, JobIsCompleted \/ JobIsFailed PROVE \E j \in JobIds : Service!Finish(j)
<1> DEFINE j == RecordMsg.job
<1>1. TypeOK /\ recordBox # <<>>
  BY DEF Inv, JobIsCompleted, JobIsFailed, RecordGets
<1>2. j \in JobIds /\ EndAt(recordBox, 1, j) /\ recordBox \in Seq(Messages)
  BY <1>1, HeadNotes, KindsOfMessages DEF JobIsCompleted, JobIsFailed, RecordGets
<1>3. j \in DOMAIN jobs /\ jobs[j].status \in ActiveStatus /\ WorkerAt(j, "done")
  BY <1>2 DEF Inv, EndIsDue, ActiveJob
<1>4. jobs[j].status # "accepted"
  <2> SUFFICES ASSUME jobs[j].status = "accepted" PROVE FALSE
    OBVIOUS
  <2>1. PICK i \in Nat : RunAt(recordBox, i, j)
    BY <1>2, <1>3 DEF Inv, AcceptedAwaitsRun, WorkerAt
  <2>2. i < 1
    BY <1>2, <2>1 DEF Inv, NotesInOrder
  <2>3. i \in DOMAIN recordBox
    BY <2>1 DEF RunAt
  <2> QED
    BY <1>2, <2>2, <2>3
<1>5. JobState[j] = "running"
  BY <1>2, <1>3, <1>4, StateOfJobs DEF ActiveStatus
<1>6. /\ DOMAIN jobs' = DOMAIN jobs
      /\ \A i \in DOMAIN jobs : i # j => jobs'[i] = jobs[i]
      /\ UNCHANGED worker
  BY <1>3 DEF JobIsCompleted, JobIsFailed
<1>7. jobs'[j].status = "completed" \/ jobs'[j].status = "failed"
  <2>1. \A r \in RecordJob : [r EXCEPT !.status = "failed", !.ended = TRUE].status = "failed"
    BY DEF RecordJob
  <2>2. jobs[j] \in RecordJob
    BY <1>1, <1>3 DEF TypeOK
  <2>3. CASE JobIsCompleted
    BY <1>3, <2>3 DEF JobIsCompleted
  <2>4. CASE JobIsFailed
    <3>1. jobs'[j] = [jobs[j] EXCEPT !.status = "failed", !.ended = TRUE]
      BY <1>3, <2>4 DEF JobIsFailed
    <3> QED
      BY <2>1, <2>2, <3>1
  <2> QED
    BY <2>3, <2>4
<1>8. Service!Moves({}, {j}, "completed") \/ Service!Moves({}, {j}, "failed")
  BY <1>3, <1>6, <1>7, NoteMovesJob
<1> QED
  BY <1>2, <1>5, <1>8 DEF Service!Finish

(* The steps of goroutines, callers and the clock.                         *)
LEMMA WorkerStutters ==
  ASSUME Inv, NEW j \in JobIds, WorkerActs(j) PROVE JobState' = JobState
<1>1. worker \in [JobIds -> Worker]
  BY DEF Inv, TypeOK
<1>2. /\ UNCHANGED jobs /\ worker[j].stage # "none"
      /\ \E stage, p : stage # "none" /\ WorkerGoes(j, stage, p)
  BY DEF WorkerActs, WorkerStep, WorkerBegins, WorkerFindsPlace, WorkerOpensStream,
         WorkerAsksForBucket, WorkerMakesBucket, WorkerUploads, WorkerFails, WorkerAt,
         LiveStages
<1>3. \A i \in JobIds : Waits(i)' <=> Waits(i)
  BY <1>1, <1>2 DEF WorkerGoes, Waits
<1> QED
  BY <1>2, <1>3, StutterOfService

LEMMA RestartLosesAll == ASSUME Inv, Restarts PROVE Service!LoseAll
<1>1. DOMAIN jobs' = {} /\ worker \in [JobIds -> Worker]
  BY DEF Restarts, RecordRestarts, Inv, TypeOK
<1>2. \A j \in JobIds : Waits(j)' <=> Waits(j)
  <2>1. \A w \in Worker : [w EXCEPT !.stage = "killed"].stage # "none"
    BY DEF Worker
  <2> QED
    BY <1>1, <2>1 DEF Restarts, RecordRestarts, WorkerAt, Waits
<1>3. \A j \in JobIds : JobState[j] = "unused" <=> Waits(j)
  <2> SUFFICES ASSUME NEW j \in JobIds PROVE JobState[j] = "unused" <=> Waits(j)
    OBVIOUS
  <2>1. j \in DOMAIN jobs => ~Waits(j) /\ jobs[j].status # "unused"
    BY DEF Inv, KnownIsStarted, WorkerAt, Waits, TypeOK, RecordJob, ActiveStatus,
           FinishedStatus
  <2> QED
    BY <2>1, StateOfJobs
<1>4. \A j \in JobIds :
        JobState'[j] = IF JobState[j] = "unused" THEN "unused" ELSE "gone"
  BY <1>1, <1>2, <1>3, StateOfJobsNext
<1>5. JobState' = [j \in JobIds |-> JobState'[j]]
  BY DEF JobState
<1> QED
  BY <1>4, <1>5 DEF Service!LoseAll

-----------------------------------------------------------------------------
(* A process that has started knows no job and has used no identifier.     *)
LEMMA InitImplements == Init => Service!Init
  BY DEF Init, RecordInit, JobState, Idle, Service!Init

(* Every step is one of the service or changes nothing of its state.       *)
LEMMA StepImplements == Inv /\ [Next]_vars => [Service!Next]_JobState
<1> SUFFICES ASSUME Inv, [Next]_vars PROVE Service!Next \/ JobState' = JobState
  OBVIOUS
<1>1. CASE \E c \in Callers : CallsStart(c) \/ CallsGet(c)
  <2>1. UNCHANGED <<jobs, worker>>
    BY <1>1 DEF CallsStart, CallsGet, Calls
  <2> QED
    BY <2>1, StutterOfService DEF Waits
<1>2. CASE ActorActs
  <2>1. CASE StartHasNoClients \/ StartIsTooMany \/ StartHasNoId \/ GetAnswers
    <3>1. jobs' = Kept /\ UNCHANGED worker
      BY <2>1 DEF StartHasNoClients, StartIsTooMany, StartHasNoId, GetAnswers
    <3> QED
      BY <3>1, RequestForgets, PrunedAreFinished DEF Service!Next
  <2>2. CASE StartAccepts
    BY <2>2, StartAcceptsInService, PrunedAreFinished DEF Service!Next
  <2>3. CASE JobIsRunning
    BY <2>3, RunningInService DEF Service!Next
  <2>4. CASE JobIsCompleted \/ JobIsFailed
    BY <2>4, FinishedInService DEF Service!Next
  <2> QED
    BY <1>2, <2>1, <2>2, <2>3, <2>4 DEF ActorActs, RecordActorStep
<1>3. CASE \E j \in JobIds : WorkerActs(j)
  BY <1>3, WorkerStutters
<1>4. CASE TimePasses \/ Stops \/ UNCHANGED vars
  <2>1. UNCHANGED <<jobs, worker>>
    BY <1>4 DEF TimePasses, Stops, RecordStopping, vars, recordVars
  <2> QED
    BY <2>1, StutterOfService DEF Waits
<1>5. CASE Restarts
  BY <1>5, RestartLosesAll DEF Service!Next
<1> QED
  BY <1>1, <1>2, <1>3, <1>4, <1>5 DEF Next

(* A job takes a free slot, runs, finishes once and never starts again; it *)
(* is forgotten only when it is finished, or with all others.              *)
THEOREM RecordJobsImplemented == Spec => ImplementsRecordJobs
BY InitImplements, StepImplements, Invariance, PTL DEF Spec, Service!Spec, ImplementsRecordJobs

-----------------------------------------------------------------------------
(* A recording has been stored in place p, of this job or of another.      *)
Stored(p) ==
  /\ p \in Places
  /\ BucketOf(p) \in store.buckets
  /\ store.holds[p] # NoJob

(* Whoever a place belongs to has been sent there, ...                     *)
HoldersWent ==
  \A p \in Places : store.holds[p] # NoJob => worker[store.holds[p]].place = p

(* ... a goroutine uploads only when its bucket exists, ...                *)
BucketIsThere ==
  \A j \in JobIds : WorkerAt(j, "put") => BucketOf(worker[j].place) \in store.buckets

(* ... what it reports has been stored, ...                                *)
ReportIsStored ==
  \A i \in DOMAIN recordBox :
    recordBox[i].type = "completed" => Stored(recordBox[i].place)

(* ... and so has what the table says.                                     *)
CompletedHasPlace ==
  \A j \in DOMAIN jobs : jobs[j].status = "completed" => Stored(jobs[j].place)

(* The inductive invariant, beside that of the service.  What the table    *)
(* says would not be inductive without the messages under way, nor they    *)
(* without the goroutines.                                                 *)
StoreInv == HoldersWent /\ BucketIsThere /\ ReportIsStored /\ CompletedHasPlace

-----------------------------------------------------------------------------
(* MinIO loses neither buckets nor recordings.                             *)
LEMMA StoredRemains ==
  ASSUME store.buckets \subseteq store'.buckets,
         \A p \in Places : store.holds[p] # NoJob => store'.holds[p] # NoJob
  PROVE  \A p : Stored(p) => Stored(p)'
  BY DEF Stored

LEMMA BoxShrinks ==
  ASSUME TypeOK, recordBox # <<>>, RecordTakes
  PROVE  \A i \in DOMAIN recordBox' : \E k \in DOMAIN recordBox : recordBox'[i] = recordBox[k]
<1>1. /\ recordBox \in Seq(Messages) /\ recordBox' = Tail(recordBox)
      /\ Len(recordBox) \in Nat \ {0} /\ DOMAIN recordBox = 1 .. Len(recordBox)
  BY DEF TypeOK, Messages, RecordTakes
<1>2. DOMAIN recordBox' = 1 .. (Len(recordBox) - 1)
  BY <1>1
<1>3. \A i \in DOMAIN recordBox' : recordBox'[i] = recordBox[i + 1] /\ i + 1 \in DOMAIN recordBox
  BY <1>1, <1>2
<1> QED
  BY <1>3

LEMMA BoxGrows ==
  ASSUME TypeOK, NEW m \in Messages, RecordSends(m)
  PROVE  \A i \in DOMAIN recordBox' :
           recordBox'[i] = m \/ \E k \in DOMAIN recordBox : recordBox'[i] = recordBox[k]
<1>1. /\ recordBox \in Seq(Messages) /\ recordBox' = Append(recordBox, m)
      /\ Len(recordBox) \in Nat /\ DOMAIN recordBox = 1 .. Len(recordBox)
  BY DEF TypeOK, Messages, RecordSends
<1>2. DOMAIN recordBox' = 1 .. (Len(recordBox) + 1)
  BY <1>1
<1>3. \A i \in 1 .. Len(recordBox) : recordBox'[i] = recordBox[i]
  BY <1>1
<1>4. recordBox'[Len(recordBox) + 1] = m
  BY <1>1
<1> QED
  BY <1>1, <1>2, <1>3, <1>4

-----------------------------------------------------------------------------
(* The steps of the actor.                                                 *)
LEMMA ActorStores ==
  ASSUME Inv, StoreInv, RecordActorStep
  PROVE  StoreInv'
<1> USE RecordAssumption
<1>1. /\ TypeOK /\ UNCHANGED store /\ RecordTakes /\ recordBox # <<>>
  BY DEF Inv, RecordActorStep, StartHasNoClients, StartIsTooMany, StartHasNoId, StartHasSlot,
         StartAccepts, GetAnswers, JobIsRunning, JobIsCompleted, JobIsFailed, RecordGets
<1>2. \A p : Stored(p) <=> Stored(p)'
  BY <1>1 DEF Stored
<1>3. ReportIsStored'
  BY <1>1, <1>2, BoxShrinks DEF ReportIsStored, StoreInv
<1>4. HoldersWent' /\ BucketIsThere'
  <2>1. CASE UNCHANGED worker
    BY <1>1, <2>1 DEF HoldersWent, BucketIsThere, WorkerAt, StoreInv
  <2>2. CASE StartAccepts
    <3>1. PICK j \in JobIds : worker[j].stage = "none"
                              /\ worker' = [worker EXCEPT ![j] = Idle("spawned")]
      BY <2>2 DEF StartAccepts
    <3>2. /\ worker \in [JobIds -> Worker] /\ worker[j].place = NoPlace
          /\ store.holds \in [Places -> JobIds \cup {NoJob}]
      BY <1>1, <3>1 DEF TypeOK, Worker
    <3>3. /\ \A i \in JobIds : worker'[i].place = worker[i].place
          /\ \A i \in JobIds : worker'[i].stage = "put" => worker[i].stage = "put"
      BY <3>1, <3>2 DEF Idle
    <3> QED
      BY <1>1, <3>2, <3>3 DEF HoldersWent, BucketIsThere, WorkerAt, StoreInv
  <2> QED
    BY <2>1, <2>2
    DEF RecordActorStep, StartHasNoClients, StartIsTooMany, StartHasNoId, GetAnswers,
        JobIsRunning, JobIsCompleted, JobIsFailed
<1>5. CompletedHasPlace'
  <2>1. CASE jobs' = Kept
    BY <1>1, <1>2, <2>1, KeptJobs DEF CompletedHasPlace, StoreInv
  <2>2. CASE StartAccepts
    <3>1. PICK j \in JobIds :
            jobs' = [i \in DOMAIN Kept \cup {j} |->
                       IF i = j
                         THEN [status |-> "accepted", ended |-> FALSE, place |-> NoPlace]
                         ELSE jobs[i]]
      BY <2>2 DEF StartAccepts
    <3>2. /\ DOMAIN Kept \subseteq DOMAIN jobs
          /\ \A i \in DOMAIN jobs' : \/ jobs'[i].status = "accepted"
                                     \/ i \in DOMAIN jobs /\ jobs'[i] = jobs[i]
      BY <1>1, <3>1, KeptJobs
    <3>3. \A i \in DOMAIN jobs' : jobs'[i].status = "completed" => Stored(jobs'[i].place)
      BY <3>2 DEF CompletedHasPlace, StoreInv
    <3> QED
      BY <1>2, <3>3 DEF CompletedHasPlace
  <2>3. CASE JobIsRunning \/ JobIsFailed
    <3>1. \A old \in RecordJob :
            /\ [old EXCEPT !.status = "running"].status = "running"
            /\ [old EXCEPT !.status = "failed", !.ended = TRUE].status = "failed"
      BY DEF RecordJob
    <3>2. \A j \in DOMAIN jobs : jobs[j] \in RecordJob
      BY <1>1 DEF TypeOK
    <3>3. /\ DOMAIN jobs' = DOMAIN jobs
          /\ \A j \in DOMAIN jobs :
               \/ jobs'[j] = [jobs[j] EXCEPT !.status = "running"]
               \/ jobs'[j] = [jobs[j] EXCEPT !.status = "failed", !.ended = TRUE]
               \/ jobs'[j] = jobs[j]
      BY <2>3 DEF JobIsRunning, JobIsFailed
    <3>4. \A j \in DOMAIN jobs : jobs'[j].status \in {"running", "failed"} \/ jobs'[j] = jobs[j]
      <4> SUFFICES ASSUME NEW j \in DOMAIN jobs
                   PROVE  jobs'[j].status \in {"running", "failed"} \/ jobs'[j] = jobs[j]
        OBVIOUS
      <4>1. jobs[j] \in RecordJob
        BY <3>2
      <4>2. CASE jobs'[j] = [jobs[j] EXCEPT !.status = "running"]
        BY <3>1, <4>1, <4>2
      <4>3. CASE jobs'[j] = [jobs[j] EXCEPT !.status = "failed", !.ended = TRUE]
        BY <3>1, <4>1, <4>3
      <4> QED
        BY <3>3, <4>2, <4>3
    <3> QED
      BY <1>2, <3>3, <3>4 DEF CompletedHasPlace, StoreInv
  <2>4. CASE JobIsCompleted
    <3>1. RecordMsg = recordBox[1] /\ 1 \in DOMAIN recordBox /\ RecordMsg.type = "completed"
      <4>1. recordBox \in Seq(Messages)
        BY <1>1, HeadNotes
      <4>2. Head(recordBox) = recordBox[1] /\ 1 \in DOMAIN recordBox
        BY <1>1, <4>1
      <4> QED
        BY <2>4, <4>2 DEF JobIsCompleted, RecordGets, RecordMsg
    <3>2. Stored(RecordMsg.place)
      BY <3>1 DEF StoreInv, ReportIsStored
    <3>3. /\ DOMAIN jobs' = DOMAIN jobs
          /\ \A j \in DOMAIN jobs : jobs'[j].place = RecordMsg.place \/ jobs'[j] = jobs[j]
      BY <2>4 DEF JobIsCompleted
    <3> QED
      BY <1>2, <3>2, <3>3 DEF CompletedHasPlace, StoreInv
  <2> QED
    BY <2>1, <2>2, <2>3, <2>4
    DEF RecordActorStep, StartHasNoClients, StartIsTooMany, StartHasNoId, GetAnswers
<1> QED
  BY <1>3, <1>4, <1>5 DEF StoreInv

(* The steps of a goroutine.                                               *)
LEMMA WorkerStores ==
  ASSUME Inv, StoreInv, NEW j \in JobIds, WorkerActs(j)
  PROVE  StoreInv'
<1> USE RecordAssumption
<1> DEFINE p == worker[j].place
<1>1. /\ TypeOK /\ UNCHANGED jobs
      /\ worker \in [JobIds -> Worker]
      /\ store \in [buckets : SUBSET {BucketOf(q) : q \in Places},
                    holds : [Places -> JobIds \cup {NoJob}]]
  BY DEF Inv, TypeOK, WorkerActs, WorkerStep, WorkerBegins, WorkerFindsPlace,
         WorkerOpensStream, WorkerAsksForBucket, WorkerMakesBucket, WorkerUploads, WorkerFails
<1>2. /\ worker[j] \in Worker
      /\ WorkerAt(j, "make") \/ WorkerAt(j, "put") => p \in Places
      /\ WorkerAt(j, "spawned") \/ WorkerAt(j, "lookup") => p = NoPlace
  BY <1>1 DEF WorkerAt, Worker
(* MinIO is as it was, has a new bucket, or another recording.             *)
<1>3. \/ store' = store
      \/ /\ WorkerAt(j, "make") /\ p \in Places
         /\ store' = [store EXCEPT !.buckets = store.buckets \cup {BucketOf(p)}]
      \/ /\ WorkerAt(j, "put") /\ p \in Places
         /\ store' = [store EXCEPT !.holds[p] = j]
  BY <1>2 DEF WorkerActs, WorkerStep, WorkerBegins, WorkerFindsPlace, WorkerOpensStream,
              WorkerAsksForBucket, WorkerMakesBucket, WorkerUploads, WorkerFails
<1>4. /\ store.buckets \subseteq store'.buckets
      /\ \A q \in Places : \/ store'.holds[q] = store.holds[q]
                           \/ q = p /\ store'.holds[q] = j
  BY <1>1, <1>3
<1>5. \A q : Stored(q) => Stored(q)'
  BY <1>4, StoredRemains
<1>6. CompletedHasPlace'
  BY <1>1, <1>5 DEF CompletedHasPlace, StoreInv
(* A goroutine keeps its place once it has one.                            *)
<1>7. /\ \A i \in JobIds \ {j} : worker'[i] = worker[i]
      /\ p \in Places => worker'[j].place = p
  <2>1. PICK stage, q : WorkerGoes(j, stage, q) /\ (q = p \/ p = NoPlace)
    BY <1>2 DEF WorkerActs, WorkerStep, WorkerBegins, WorkerFindsPlace, WorkerOpensStream,
                WorkerAsksForBucket, WorkerMakesBucket, WorkerUploads, WorkerFails, WorkerAt
  <2> QED
    BY <1>1, <2>1 DEF WorkerGoes
<1>8. HoldersWent'
  <2> SUFFICES ASSUME NEW q \in Places, store'.holds[q] # NoJob
               PROVE  worker'[store'.holds[q]].place = q
    BY DEF HoldersWent
  <2>1. CASE q = p /\ store'.holds[q] = j
    BY <1>7, <2>1
  <2>2. CASE store'.holds[q] = store.holds[q]
    <3>1. store.holds[q] \in JobIds /\ worker[store.holds[q]].place = q
      BY <1>1, <2>2 DEF HoldersWent, StoreInv
    <3> QED
      BY <1>7, <2>2, <3>1
  <2> QED
    BY <1>4, <2>1, <2>2
<1>9. BucketIsThere'
  <2> SUFFICES ASSUME NEW i \in JobIds, worker'[i].stage = "put"
               PROVE  BucketOf(worker'[i].place) \in store'.buckets
    BY DEF BucketIsThere, WorkerAt
  <2>1. CASE i # j
    BY <1>4, <1>7, <2>1 DEF BucketIsThere, WorkerAt, StoreInv
  <2>2. CASE i = j
    <3>1. CASE WorkerAsksForBucket(j)
      <4>1. PICK stage \in {"put", "make"} :
              /\ WorkerGoes(j, stage, p)
              /\ stage = "put" => BucketOf(p) \in store.buckets
        BY <3>1 DEF WorkerAsksForBucket
      <4> QED
        BY <1>1, <1>4, <2>2, <4>1 DEF WorkerGoes
    <3>2. CASE WorkerMakesBucket(j)
      <4>1. BucketOf(p) \in store'.buckets /\ WorkerGoes(j, "put", p)
        BY <1>1, <3>2 DEF WorkerMakesBucket
      <4> QED
        BY <1>1, <2>2, <4>1 DEF WorkerGoes
    <3>3. CASE ~WorkerAsksForBucket(j) /\ ~WorkerMakesBucket(j)
      <4>1. PICK stage, q : WorkerGoes(j, stage, q) /\ stage # "put"
        BY <3>3 DEF WorkerActs, WorkerStep, WorkerBegins, WorkerFindsPlace,
                    WorkerOpensStream, WorkerUploads, WorkerFails
      <4> QED
        BY <1>1, <2>2, <4>1 DEF WorkerGoes
    <3> QED
      BY <3>1, <3>2, <3>3
  <2> QED
    BY <2>1, <2>2
<1>10. ReportIsStored'
  <2>1. CASE UNCHANGED recordBox
    BY <1>5, <2>1 DEF ReportIsStored, StoreInv
  <2>2. CASE RecordSends(recordJobRunning(j)) \/ RecordSends(recordJobFailed(j))
    <3>1. PICK m \in Messages : RecordSends(m) /\ m.type # "completed"
      BY <2>2, NotesAreMessages DEF recordJobRunning, recordJobFailed
    <3> QED
      BY <1>1, <1>5, <3>1, BoxGrows DEF ReportIsStored, StoreInv
  <2>3. CASE WorkerUploads(j)
    <3>1. PICK q \in Places : q = p
      BY <1>2, <2>3 DEF WorkerUploads
    <3>2. /\ RecordSends(recordJobCompleted(j, q)) /\ recordJobCompleted(j, q) \in Messages
          /\ recordJobCompleted(j, q).place = q
      BY <2>3, <3>1, NotesAreMessages DEF WorkerUploads, recordJobCompleted
    <3>3. /\ BucketOf(q) \in store.buckets
          /\ store' = [store EXCEPT !.holds[q] = j]
      BY <2>3, <3>1 DEF WorkerUploads, BucketIsThere, StoreInv
    <3>4. store'.holds[q] = j /\ store'.buckets = store.buckets
      BY <1>1, <3>3
    <3>5. Stored(q)'
      BY <3>3, <3>4 DEF Stored
    <3>6. \A i \in DOMAIN recordBox' :
            recordBox'[i].type = "completed" =>
              recordBox'[i].place = q \/ Stored(recordBox'[i].place)
      BY <1>1, <3>2, BoxGrows DEF ReportIsStored, StoreInv
    <3> QED
      BY <1>5, <3>5, <3>6 DEF ReportIsStored
  <2> QED
    BY <2>1, <2>2, <2>3
    DEF WorkerActs, WorkerStep, WorkerBegins, WorkerFindsPlace, WorkerOpensStream,
        WorkerAsksForBucket, WorkerMakesBucket, WorkerFails
<1> QED
  BY <1>6, <1>8, <1>9, <1>10 DEF StoreInv

-----------------------------------------------------------------------------
LEMMA InitStores == Init => StoreInv
<1> SUFFICES ASSUME Init PROVE StoreInv
  OBVIOUS
<1> USE DEF Init, RecordInit
<1>1. \A p \in Places : store.holds[p] = NoJob
  OBVIOUS
<1>2. \A j \in JobIds : ~WorkerAt(j, "put")
  BY DEF WorkerAt, Idle
<1>3. DOMAIN recordBox = {} /\ DOMAIN jobs = {}
  OBVIOUS
<1> QED
  BY <1>1, <1>2, <1>3
  DEF StoreInv, HoldersWent, BucketIsThere, ReportIsStored, CompletedHasPlace

LEMMA NextStores == Inv /\ StoreInv /\ [Next]_vars => StoreInv'
<1> SUFFICES ASSUME Inv, StoreInv, [Next]_vars PROVE StoreInv'
  OBVIOUS
<1> USE RecordAssumption
<1>1. CASE ActorActs
  BY <1>1, ActorStores DEF ActorActs
<1>2. CASE \E j \in JobIds : WorkerActs(j)
  BY <1>2, WorkerStores
<1>3. CASE \E c \in Callers : CallsStart(c) \/ CallsGet(c)
  <2>1. PICK c \in Callers, m \in RecordRequests : Calls(c, m)
    BY <1>3 DEF CallsStart, CallsGet, RecordRequests
  <2>2. /\ TypeOK /\ m \in Messages /\ m.type # "completed" /\ RecordSends(m)
        /\ UNCHANGED <<jobs, worker, store>>
    BY <2>1 DEF Inv, Calls, Messages, RecordRequests, StartRecordRequest, GetRecordJobRequest
  <2>3. \A p : Stored(p) <=> Stored(p)'
    BY <2>2 DEF Stored
  <2>4. ReportIsStored'
    BY <2>2, <2>3, BoxGrows DEF ReportIsStored, StoreInv
  <2> QED
    BY <2>2, <2>3, <2>4
    DEF StoreInv, HoldersWent, BucketIsThere, CompletedHasPlace, WorkerAt
<1>4. CASE Restarts
  <2>1. /\ DOMAIN jobs' = {} /\ DOMAIN recordBox' = {} /\ UNCHANGED store
        /\ worker \in [JobIds -> Worker]
        /\ store.holds \in [Places -> JobIds \cup {NoJob}]
    BY <1>4 DEF Restarts, RecordRestarts, Inv, TypeOK
  <2>2. \A w \in Worker : [w EXCEPT !.stage = "killed"].stage = "killed"
                          /\ [w EXCEPT !.stage = "killed"].place = w.place
    BY DEF Worker
  <2>3. \A j \in JobIds : worker'[j].place = worker[j].place
                          /\ worker'[j].stage \in {"none", "killed"}
    BY <1>4, <2>1, <2>2 DEF Restarts, RecordRestarts, WorkerAt
  <2> QED
    BY <2>1, <2>3
    DEF StoreInv, HoldersWent, BucketIsThere, ReportIsStored, CompletedHasPlace, WorkerAt
<1>5. CASE TimePasses \/ Stops \/ UNCHANGED vars
  <2>1. UNCHANGED <<jobs, recordBox, worker, store>>
    BY <1>5 DEF TimePasses, Stops, RecordStopping, vars, recordVars
  <2>2. \A p : Stored(p) <=> Stored(p)'
    BY <2>1 DEF Stored
  <2> QED
    BY <2>1, <2>2
    DEF StoreInv, HoldersWent, BucketIsThere, ReportIsStored, CompletedHasPlace, WorkerAt
<1> QED
  BY <1>1, <1>2, <1>3, <1>4, <1>5 DEF Next

(* What GET reports as completed is in a bucket that exists, under a key   *)
(* that holds its recording or that of a job with the same key.            *)
THEOREM CompletedJobsAreStored == Spec => []CompletedIsStored
<1>1. Inv /\ StoreInv => CompletedIsStored
  <2> SUFFICES ASSUME Inv, StoreInv, NEW j \in DOMAIN jobs, jobs[j].status = "completed"
               PROVE  LET p == jobs[j].place
                      IN /\ p \in Places
                         /\ BucketOf(p) \in store.buckets
                         /\ \/ store.holds[p] = j
                            \/ \E i \in JobIds : worker[i].place = p /\ store.holds[p] = i
    BY DEF CompletedIsStored
  <2> DEFINE p == jobs[j].place
  <2>1. Stored(p)
    BY DEF StoreInv, CompletedHasPlace
  <2>2. store.holds[p] \in JobIds /\ worker[store.holds[p]].place = p
    BY <2>1 DEF Stored, Inv, TypeOK, StoreInv, HoldersWent
  <2> QED
    BY <2>1, <2>2 DEF Stored
<1>2. Spec => []StoreInv
  BY Invariance, InitStores, NextStores, PTL DEF Spec
<1> QED
  BY <1>1, <1>2, Invariance, PTL
===============================================================================
