-------------------------------- MODULE Gateway --------------------------------
(***************************************************************************)
(* main.go with everything a client of the HTTP server can reach: the      *)
(* server, the master that forwards its requests, the snapshot and the     *)
(* record actor, and the end of the process.                               *)
(***************************************************************************)
EXTENDS RecordActor, SnapshotActor, HttpServer

(* What requests name, and that a file that does not exist shows nothing.  *)
ASSUME GatewayAssumption ==
  /\ "none" \notin Cameras
  /\ \A r \in Requests : /\ r.kind = "snapshot" => r.cam \in Cameras
                         /\ r.kind = "get" => r.job \in JobIds

VARIABLES
  main,        \* where main is: serving, draining, stopping or exited
  masterUp     \* the master has not been stopped

vars == <<recordVars, snapVars, httpVars, main, masterUp>>
actors == <<jobs, recordBox, worker, since, store, initError, recordUp, snapVars>>

Init ==
  /\ RecordInit
  /\ SnapInit
  /\ HttpInit
  /\ main = "serving"
  /\ masterUp = TRUE

-----------------------------------------------------------------------------
(* The master's cases for requests that came through HTTP.  Forward keeps  *)
(* the future as the sender.                                               *)
MasterTakes(kinds) ==
  /\ masterUp
  /\ masterBox # <<>>
  /\ call[Head(masterBox)].request.kind \in kinds
  /\ masterBox' = Tail(masterBox)
  /\ UNCHANGED <<jobs, worker, since, store, initError, recordUp, capturing, files, reply,
                 call, main, masterUp>>

MasterForwardsSnapshot ==
  /\ MasterTakes({"snapshot"})
  /\ LET c == Head(masterBox)
     IN snapBox' = Append(snapBox, CaptureSnapshotRequest(c, call[c].request.cam))
  /\ UNCHANGED recordBox

(* Mutant: both cases forward a request to start.                          *)
MasterForwardsRecord_AlwaysStarts ==
  /\ MasterTakes({"start", "get"})
  /\ RecordSends(StartRecordRequest(Head(masterBox)))
  /\ UNCHANGED snapBox

MasterForwardsRecord ==
  /\ MasterTakes({"start", "get"})
  /\ LET c == Head(masterBox)
     IN RecordSends(IF call[c].request.kind = "start" THEN StartRecordRequest(c)
                    ELSE GetRecordJobRequest(c, call[c].request.job))
  /\ UNCHANGED snapBox

(* Mutant: the master keeps its queue until the snapshot actor is free.    *)
MasterForwards_Waits ==
  /\ capturing = Nothing
  /\ MasterForwardsSnapshot \/ MasterForwardsRecord

MasterForwards == MasterForwardsSnapshot \/ MasterForwardsRecord

RecordActs ==
  /\ RecordActorStep
  /\ UNCHANGED <<snapVars, httpVars, main, masterUp>>
WorkerActs(j) ==
  /\ WorkerStep(j)
  /\ UNCHANGED <<snapVars, httpVars, main, masterUp>>

(* The actor's children are stopped after it, so it may still be at work.  *)
SnapshotActs ==
  /\ SnapshotStep
  /\ UNCHANGED <<jobs, recordBox, worker, since, store, initError, recordUp, httpVars, main,
                 masterUp>>

Arrives(c) ==
  /\ main \in {"serving", "draining"}
  /\ CallArrives(c)
  /\ UNCHANGED <<actors, main, masterUp>>
Handles(c) == HandlerStep(c) /\ UNCHANGED <<actors, main, masterUp>>

Tick ==
  /\ HttpTime
  /\ RecordTime
  /\ UNCHANGED <<jobs, recordBox, worker, store, initError, recordUp, snapVars, masterBox,
                 reply, main, masterUp>>

-----------------------------------------------------------------------------
(* main after a signal: Shutdown returns when no call is in progress, Stop *)
(* tells the master to stop and returns at once, and the process ends.     *)
Moves(from, to) ==
  /\ main = from
  /\ main' = to
  /\ UNCHANGED <<actors, httpVars, reply, masterUp>>

Signal == Moves("serving", "draining")

ShutdownReturns ==
  /\ \A c \in Callers : call[c].at \notin InProgress
  /\ Moves("draining", "stopping")

(* Mutant: main waits until the actors are stopped.                        *)
MainReturns_AfterStop ==
  /\ ~masterUp /\ ~recordUp
  /\ Moves("stopping", "exited")

MainReturns == Moves("stopping", "exited")

(* Stopping of the master, which then stops its children.                  *)
MasterStops ==
  /\ main = "stopping"
  /\ masterUp
  /\ masterUp' = FALSE
  /\ UNCHANGED <<actors, httpVars, reply, main>>
RecordStops ==
  /\ ~masterUp
  /\ RecordStopping
  /\ UNCHANGED <<snapVars, httpVars, main, masterUp>>

Main == ShutdownReturns \/ MainReturns

Next ==
  /\ main # "exited"
  /\ \/ \E c \in Callers : Arrives(c) \/ Handles(c)
     \/ MasterForwards
     \/ RecordActs
     \/ \E j \in JobIds : WorkerActs(j)
     \/ SnapshotActs
     \/ Tick
     \/ Signal
     \/ Main
     \/ MasterStops
     \/ RecordStops

Spec == Init /\ [][Next]_vars

(* The clock runs, net/http runs its goroutines and reads what has been    *)
(* sent or gives up after http.read_timeout, and main is scheduled.  The   *)
(* actors owe nothing.                                                     *)
ServerFairness ==
  /\ WF_vars(main # "exited" /\ Tick)
  /\ \A c \in Callers : WF_vars(main # "exited" /\ Handles(c))
  /\ WF_vars(Main)
ServerFairSpec == Spec /\ ServerFairness

(* The master and the record actor are scheduled; the snapshot actor may   *)
(* hang in a call.                                                         *)
RoutingFairness ==
  /\ WF_vars(main # "exited" /\ MasterForwards)
  /\ WF_vars(main # "exited" /\ RecordActs)

-----------------------------------------------------------------------------
(* Type invariant.                                                         *)
TypeOK ==
  /\ call \in [Callers -> Call]
  /\ \A c \in Callers : reply[c] = NoReply \/ IsExpected(call[c].request.kind, reply[c])
  /\ masterBox \in Seq(Callers)
  /\ snapBox \in Seq(SnapshotRequests)
  /\ capturing \in SnapshotRequests \cup {Nothing}
  /\ files \in [Files -> Cameras \cup {"none", "torn"}]
  /\ main \in {"serving", "draining", "stopping", "exited"}
  /\ masterUp \in BOOLEAN

(* An answer is about what its call asked for, and no two calls are given  *)
(* the same job.                                                           *)
AnswersBelongToCalls ==
  \A c \in Callers : reply[c] # NoReply =>
    LET r == call[c].request
    IN CASE r.kind = "snapshot" -> reply[c].cam = r.cam
         [] r.kind = "get" -> reply[c].job = r.job
         [] r.kind = "start" ->
              \A d \in Callers \ {c} :
                /\ call[c].code = 202 /\ call[d].code = 202
                => reply[c].job # reply[d].job

(* The file that a 201 names exists.  It shows the camera or another one   *)
(* with the same file name, unless a later capture could not be written.   *)
SavedFileExists ==
  \A c \in Callers : call[c].code = 201 =>
    LET f == FileOf(call[c].request.cam)
    IN \/ files[f] = "torn"
       \/ files[f] \in Cameras /\ FileOf(files[f]) = f

(* The job that a 202 names is one that GET will find, until its retention *)
(* has passed.                                                             *)
AcceptedIsKnown ==
  \A c \in Callers : call[c].code = 202 =>
    LET j == reply[c].job
    IN j \in DOMAIN jobs \/ since[j] > JobRetention

(* Every recording was asked for by a call, and no call has two of them:   *)
(* a future that has timed out, which makes its caller believe that there  *)
(* is none, leaves at most one behind.                                     *)
OneRecordingPerCall ==
  \A j \in JobIds : worker[j].stage # "none" =>
    \E c \in Callers : /\ reply[c].code = 202 /\ reply[c].job = j
                       /\ call[c].request.kind = "start"

(* Every call ends, whatever the actors do.                                *)
CallEnds == \A c \in Callers : At(c, "reading") ~> call[c].at \in Ended

(* The process ends after a signal, whatever the actors do.                *)
ShutdownEnds == main = "draining" ~> main = "exited"

(* A snapshot that hangs stops neither recordings nor questions about      *)
(* them: as long as the master and the record actor are scheduled, the     *)
(* record actor answers.                                                   *)
RecordsAreAnswered ==
  RoutingFairness =>
    \A c \in Callers :
      At(c, "waiting") /\ call[c].request.kind # "snapshot"
        ~> reply[c] # NoReply \/ main \in {"stopping", "exited"}

(* What the callers' futures hold of the answers of the record actor, and  *)
(* the service it is for them.  Nothing restarts the process here.         *)
RecordReply ==
  [c \in Callers |-> IF "saved" \in DOMAIN reply[c] THEN NoReply ELSE reply[c]]

Recording == INSTANCE RecordService WITH restarts <- 0, RestartCap <- 1,
                                         reply <- RecordReply

(* The server, the master and the snapshot actor use the record actor as   *)
(* the record service lets its callers: whatever times out and whoever     *)
(* hangs, no caller asks again while a request of its own is under way,    *)
(* and nobody else touches the table, the goroutines or what they hold.    *)
ImplementsRecordService == Recording!Spec

(* README.md:337: a request that times out is answered with 504.           *)
TimeoutIsAnswered504 ==
  \A c \in Callers : call[c].code = 504 /\ call[c].at \in Ended => At(c, "sent")
===============================================================================
