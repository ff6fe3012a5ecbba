----------------------------- MODULE MasterActor -----------------------------
(***************************************************************************)
(* actor/MasterActor.go: the parent of all actors.  It receives what the   *)
(* schedulers and the children send and routes it; answers of the Go2RTC   *)
(* actor go to both the cleaner and the count actor, which sort out whose  *)
(* they are.                                                               *)
(***************************************************************************)
EXTENDS StreamCleanerActor, StreamCountActor

CONSTANTS
  RunOnStart,    \* schedule.run_on_start
  TriggerCap,    \* bound: triggers waiting at the master and at the cleaner
  TickCap,       \* bound: count requests waiting at the master and the counter
  QueueCap       \* bound: messages waiting at one requester when the scheduler
                 \* of the other one fires

(* With as many instants the master never waits for one (its triggers and  *)
(* the one running cycle hold at most TriggerCap others).                  *)
ASSUME MasterAssumption ==
  /\ RunOnStart \in BOOLEAN
  /\ TriggerCap \in Nat
  /\ TickCap \in Nat
  /\ QueueCap \in Nat
  /\ IsFiniteSet(Times) => Cardinality(Times) > TriggerCap

(* Started has run: the children exist and, with schedule.run_on_start, a  *)
(* first trigger is in the master's own mailbox.                           *)
MasterInit ==
  /\ sleeping = {}
  /\ box = [a \in Actors |->
              IF a = "master" /\ RunOnStart THEN <<TriggerCleanup>> ELSE <<>>]

-----------------------------------------------------------------------------
(* time.Now() never returns the same instant for two runs of a requester.  *)
(* Instants are only ever compared for equality, so an instant that neither *)
(* the requester nor a message of its own holds any more stands for a new  *)
(* one; the size of Times bounds how many runs may be in progress or stale *)
(* at once.                                                                *)
Fresh(t, r) ==
  /\ t # (IF r = "cleaner" THEN cleaner.triggeredAt ELSE count.triggeredAt)
  /\ \A m \in InTransit(r) : m.triggeredAt # t

Queued(type, a) == Len(SelectSeq(box[a], LAMBDA m : m.type = type))

(* startCleanupScheduler: a cron entry fires, whatever the actors do.      *)
CleanupCron ==
  /\ Queued("TriggerCleanup", "master") + Queued("CleanupCycleStarted", "cleaner")
       < TriggerCap
  /\ Len(box["count"]) < QueueCap
  /\ box' = Post(box, "master", <<TriggerCleanup>>)
  /\ UNCHANGED sleeping

(* startRedisPublishScheduler: the goroutine's first message or a tick.    *)
PublishTick ==
  /\ Queued("CountAliveStreamsStarted", "master")
       + Queued("CountAliveStreamsStarted", "count") < TickCap
  /\ Len(box["cleaner"]) < QueueCap
  /\ \E t \in Times :
       /\ Fresh(t, "count")
       /\ box' = Post(box, "master", <<CountAliveStreamsStarted(t)>>)
  /\ UNCHANGED sleeping

-----------------------------------------------------------------------------
MasterStartsCleanup ==
  /\ Gets("master", "TriggerCleanup")
  /\ \E t \in Times :
       /\ Fresh(t, "cleaner")
       /\ box' = Post(Taken("master"), "cleaner", <<CleanupCycleStarted(t)>>)

MasterStartsCount ==
  /\ Gets("master", "CountAliveStreamsStarted")
  /\ box' = Post(Taken("master"), "count", <<Msg("master")>>)

MasterForwardsAnswer ==
  /\ \E type \in {"StreamListFetched", "StreamHealthChecked"} : Gets("master", type)
  /\ box' = Post(Post(Taken("master"), "cleaner", <<Msg("master")>>),
                 "count", <<Msg("master")>>)

MasterForwardsRemoval ==
  /\ Gets("master", "StreamRemovalCompleted")
  /\ box' = Post(Taken("master"), "cleaner", <<Msg("master")>>)

MasterRequestsAction ==
  /\ Gets("master", "StreamRemoved")
  /\ box' = Post(Taken("master"), "action", <<ExecuteAction(Msg("master").stream)>>)

(* A cleanup that removed nothing is not published.                        *)
MasterDropsReport ==
  /\ Gets("master", "CleanupCycleFinished")
  /\ Msg("master").removedStreams = 0
  /\ box' = Taken("master")

MasterPublishesReport ==
  /\ Gets("master", "CleanupCycleFinished")
  /\ Msg("master").removedStreams # 0
  /\ box' = Post(Taken("master"), "redis",
                 <<UpdateStreamCount(Msg("master").aliveStreams)>>)

MasterDropsCount ==
  /\ Gets("master", "AliveStreamCountCalculated")
  /\ Msg("master").error
  /\ box' = Taken("master")

MasterPublishesCount ==
  /\ Gets("master", "AliveStreamCountCalculated")
  /\ ~Msg("master").error
  /\ box' = Post(Taken("master"), "redis",
                 <<UpdateStreamCount(Msg("master").aliveStreams)>>)

MasterNext ==
  /\ \/ MasterStartsCleanup
     \/ MasterStartsCount
     \/ MasterForwardsAnswer
     \/ MasterForwardsRemoval
     \/ MasterRequestsAction
     \/ MasterDropsReport
     \/ MasterPublishesReport
     \/ MasterDropsCount
     \/ MasterPublishesCount
  /\ UNCHANGED sleeping
===============================================================================
