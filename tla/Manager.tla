-------------------------------- MODULE Manager --------------------------------
(***************************************************************************)
(* The stream management side of go2rtc-manager: the actor tree that       *)
(* MasterActor.spawnChildren builds, its schedulers and the cameras.       *)
(*                                                                         *)
(* A step is one message handled by one actor, one goroutine that wakes    *)
(* up, one scheduler that fires, or one camera that comes or goes.         *)
(***************************************************************************)
EXTENDS MasterActor, RedisActor

vars == <<box, sleeping, status, cleaner, count, redis>>

Init ==
  /\ MasterInit
  /\ Go2RTCInit
  /\ CleanerInit
  /\ CountInit
  /\ RedisInit

(* ActionActor.Receive: the request is logged and that is all.             *)
ActionExecutes ==
  /\ Gets("action", "ExecuteAction")
  /\ box' = Taken("action")
  /\ UNCHANGED sleeping

-----------------------------------------------------------------------------
MasterStep  == MasterNext /\ UNCHANGED <<status, cleaner, count, redis>>
CleanerStep == CleanerNext /\ UNCHANGED <<count, redis>>
CountStep   == CountNext /\ UNCHANGED <<cleaner, redis>>
Go2RTCStep  == Go2RTCNext /\ UNCHANGED <<cleaner, count, redis>>
RedisStep   == RedisNext /\ UNCHANGED <<status, cleaner, count>>
ActionStep  == ActionExecutes /\ UNCHANGED <<status, cleaner, count, redis>>
WakeUp(check) ==
  ConfirmationElapsed(check) /\ UNCHANGED <<status, cleaner, count, redis>>

CronFires == CleanupCron /\ UNCHANGED <<status, cleaner, count, redis>>

(* The publish scheduler only exists when Redis is configured.             *)
TickFires ==
  /\ RedisEnabled
  /\ PublishTick
  /\ UNCHANGED <<status, cleaner, count, redis>>

CameraChanges ==
  /\ \E s \in Moving : StreamChanges(s)
  /\ UNCHANGED <<cleaner, count, redis>>

Next ==
  \/ MasterStep
  \/ CleanerStep
  \/ CountStep
  \/ Go2RTCStep
  \/ RedisStep
  \/ ActionStep
  \/ \E check \in sleeping : WakeUp(check)
  \/ CronFires
  \/ TickFires
  \/ CameraChanges

Spec == Init /\ [][Next]_vars

(* A file has a limited size, so one of the lists is the longest.          *)
ASSUME ManagerAssumption ==
  StreamLists # {} => \E l \in StreamLists : \A k \in StreamLists : Len(k) <= Len(l)

LongestList == CHOOSE n \in {Len(l) : l \in StreamLists} :
                 \A l \in StreamLists : Len(l) <= n

(* The second checks that a goroutine may be holding.                      *)
SecondChecks ==
  {CheckStreamHealth(s, e, t, 2, r) :
     s \in Streams, e \in 1 .. LongestList, t \in Times, r \in Requesters}

(* Every actor whose mailbox is not empty is scheduled and every handler   *)
(* returns (the HTTP calls have timeouts), every goroutine wakes up, and   *)
(* the ticker keeps firing.  Fairness of the ticker is strong because the  *)
(* bounds of PublishTick, which the program does not have, disable it now  *)
(* and then.  Nothing is assumed of cron, of the cameras, nor of which     *)
(* outcome a call has.                                                     *)
Fairness ==
  /\ WF_vars(MasterStep)
  /\ WF_vars(CleanerStep)
  /\ WF_vars(CountStep)
  /\ WF_vars(Go2RTCStep)
  /\ WF_vars(RedisStep)
  /\ WF_vars(ActionStep)
  /\ \A check \in SecondChecks : WF_vars(WakeUp(check))
  /\ SF_vars(TickFires)

FairSpec == Spec /\ Fairness

-----------------------------------------------------------------------------
(* The messages in transit that carry the work of requester r's run t.     *)
WorkTypes == {"FetchStreamList", "StreamListFetched", "CheckStreamHealth",
              "StreamHealthChecked", "RemoveStream", "StreamRemovalCompleted"}

WorkOf(r, t) == {m \in InTransit(r) : m.type \in WorkTypes /\ m.triggeredAt = t}

Listed(r, t) == {m \in WorkOf(r, t) : m.type \notin {"FetchStreamList", "StreamListFetched"}}

-----------------------------------------------------------------------------
(* The structs of common/message.go.                                       *)
RunStarts == [type : {"CleanupCycleStarted", "CountAliveStreamsStarted"},
              triggeredAt : Times]

ListRequests == [type : {"FetchStreamList"}, triggeredAt : Times,
                 requestedBy : Requesters]

ListAnswers == [type : {"StreamListFetched"}, triggeredAt : Times,
                requestedBy : Requesters, streams : StreamLists \cup {<<>>},
                error : BOOLEAN]

Checks == [type : {"CheckStreamHealth"}, stream : Streams, entry : Nat \ {0},
           triggeredAt : Times, attempt : Attempts, requestedBy : Requesters]

CheckAnswers == [type : {"StreamHealthChecked"}, stream : Streams,
                 entry : Nat \ {0}, triggeredAt : Times, attempt : Attempts,
                 requestedBy : Requesters, hasProducer : BOOLEAN, error : BOOLEAN]

Removals == [type : {"RemoveStream"}, stream : Streams, entry : Nat \ {0},
             triggeredAt : Times]

RemovalAnswers == [type : {"StreamRemovalCompleted"}, stream : Streams,
                   entry : Nat \ {0}, triggeredAt : Times, removed : BOOLEAN,
                   error : BOOLEAN]

Notices == [type : {"StreamRemoved", "ExecuteAction"}, stream : Streams]

Reports ==
       [type : {"CleanupCycleFinished"}, aliveStreams : Nat, removedStreams : Nat]
  \cup [type : {"AliveStreamCountCalculated"}, aliveStreams : Nat, error : BOOLEAN]
  \cup [type : {"UpdateStreamCount"}, aliveStreams : Nat]

Message ==
  {TriggerCleanup} \cup RunStarts \cup ListRequests \cup ListAnswers \cup Checks
    \cup CheckAnswers \cup Removals \cup RemovalAnswers \cup Notices \cup Reports

(* The values of the actor structs.                                        *)
CleanerStates == [running : BOOLEAN, outstanding : Nat, pending : SUBSET Streams,
                  triggeredAt : Times \cup {ZeroTime}, aliveCount : Nat,
                  removedCount : Nat]

CounterStates == [running : BOOLEAN, outstanding : Nat, pending : SUBSET Streams,
                  triggeredAt : Times \cup {ZeroTime}, aliveCount : Nat]

(* Type invariant: what the Go types say, counters that do not go negative *)
(* and goroutines that only ever hold second checks.                       *)
TypeOK ==
  /\ box \in [Actors -> Seq(Message)]
  /\ sleeping \subseteq {check \in Checks : check.attempt = 2}
  /\ cleaner \in CleanerStates
  /\ count \in CounterStates
  /\ status \in [Streams -> StreamStatus]
  /\ redis \in [connected : BOOLEAN, key : Nat \cup {NoValue}]

(* The counter of the cleaner is the number of list entries whose checks   *)
(* or removal are still under way; before the list arrives it is zero and  *)
(* exactly one request or answer for it is under way.  Were it larger the  *)
(* cycle would never end, were it smaller it would report too early.       *)
CleanerCountsItsWork ==
  cleaner.running =>
    LET work == WorkOf("cleaner", cleaner.triggeredAt)
    IN \/ /\ cleaner.outstanding = 0
          /\ Cardinality(work) = 1
          /\ \A m \in work : m.type \in {"FetchStreamList", "StreamListFetched"}
       \/ /\ cleaner.outstanding > 0
          /\ Cardinality(work) = cleaner.outstanding
          /\ work = Listed("cleaner", cleaner.triggeredAt)
          /\ Cardinality({m.entry : m \in work}) = cleaner.outstanding

(* Once a cleanup cycle is over nothing of it is under way: no check, no   *)
(* waiting goroutine, and above all no DELETE that would still be made     *)
(* after the number of removed streams was reported.                       *)
NothingOutlivesTheCycle ==
  \A t \in Times :
    WorkOf("cleaner", t) # {} => cleaner.running /\ cleaner.triggeredAt = t

(* The same bookkeeping in the count actor, for the run in progress; the   *)
(* remains of aborted runs are not part of it.                             *)
CounterCountsItsWork ==
  count.running =>
    LET work == WorkOf("count", count.triggeredAt)
    IN \/ /\ count.outstanding = 0
          /\ Cardinality(work) = 1
          /\ \A m \in work : m.type \in {"FetchStreamList", "StreamListFetched"}
       \/ /\ count.outstanding > 0
          /\ Cardinality(work) = count.outstanding
          /\ work = Listed("count", count.triggeredAt)
          /\ Cardinality({m.entry : m \in work}) = count.outstanding

-----------------------------------------------------------------------------
(* The refinement mapping: an entry is open while a message about it is    *)
(* under way, and the message tells its stage.                             *)
Stage(m) ==
  CASE m.type \in {"RemoveStream", "StreamRemovalCompleted"} -> "removal"
    [] m.type \in {"CheckStreamHealth", "StreamHealthChecked"} ->
         IF m.attempt = 1 THEN "first" ELSE "second"

Entries(listed) == {m.entry : m \in listed}

Opened(listed) ==
  [e \in Entries(listed) |-> Stage(CHOOSE m \in listed : m.entry = e)]

OpenEntries(r, actor) ==
  Opened(IF actor.running THEN Listed(r, actor.triggeredAt) ELSE {})

Phase(actor) ==
  IF ~actor.running THEN "idle"
  ELSE IF actor.outstanding = 0 THEN "listing" ELSE "checking"

CleanerRun == INSTANCE CheckRun WITH
  MaxEntries <- LongestList,
  Removes    <- TRUE,
  Aborts     <- FALSE,
  phase      <- Phase(cleaner),
  open       <- OpenEntries("cleaner", cleaner),
  alive      <- cleaner.aliveCount,
  removed    <- cleaner.removedCount

CounterRun == INSTANCE CheckRun WITH
  MaxEntries <- LongestList,
  Removes    <- FALSE,
  Aborts     <- TRUE,
  phase      <- Phase(count),
  open       <- OpenEntries("count", count),
  alive      <- count.aliveCount,
  removed    <- 0

(* The cleaner with its mailboxes, goroutines and stamps implements the    *)
(* abstract run: no entry is lost, checked out of order, counted twice or  *)
(* removed after a single miss.                                            *)
CleanerImplementsCheckRun == CleanerRun!Spec

(* The count actor implements a run that removes nothing and may abort.    *)
CounterImplementsCheckRun == CounterRun!Spec

-----------------------------------------------------------------------------
(* The number that the master passes on when it handles a message.         *)
NumberIn(m) ==
  IF \/ m.type = "CleanupCycleFinished" /\ m.removedStreams # 0
     \/ m.type = "AliveStreamCountCalculated" /\ ~m.error
  THEN m.aliveStreams ELSE NoValue

(* The numbers on their way to Redis: those that have been passed on come  *)
(* before those that the master has yet to pass on.                        *)
OnTheWay(queue, inbox) ==
  [i \in 1 .. Len(queue) |-> queue[i].aliveStreams]
    \o [i \in 1 .. Len(inbox) |-> NumberIn(inbox[i])]

Published == INSTANCE Publication WITH
  Runners <- Requesters,
  busy    <- {r \in Requesters : IF r = "cleaner" THEN cleaner.running ELSE count.running},
  total   <- [r \in Requesters |->
                IF r = "cleaner" THEN cleaner.aliveCount ELSE count.aliveCount],
  line    <- OnTheWay(box["redis"], box["master"]),
  key     <- redis.key

(* The numbers that the cleaner and the count actor reach get to Redis in  *)
(* the order in which their runs ended, through both mailboxes: some are   *)
(* lost, but no older number ever replaces a newer one, and Redis is given *)
(* none that is not the result of a run.                                   *)
ImplementsPublication == Published!Spec

-----------------------------------------------------------------------------
(* Every cleanup cycle ends, so that the next trigger is not ignored.      *)
CycleEnds == cleaner.running ~> ~cleaner.running

(* Every count ends.                                                       *)
CountEnds == count.running ~> ~count.running

(* A step in which nothing outside of the program fails or changes.        *)
Calm ==
  /\ ~Go2RTCFails
  /\ ~RedisPingFails
  /\ ~RedisSetFails
  /\ ~CameraChanges

===============================================================================
