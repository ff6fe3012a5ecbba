------------------------------- MODULE Messages -------------------------------
(***************************************************************************)
(* The message contracts of common/message.go, one constructor per Go      *)
(* struct, and the in-memory mailboxes that carry them between the actors. *)
(*                                                                         *)
(* Log texts (Reason, CheckedAt, RemovedAt) are left out.  ConfirmAfter is *)
(* always schedule.confirmation_delay and is left out too; the wait itself *)
(* is the life of a confirmation in `sleeping'.  Error strings are         *)
(* represented by whether they are empty.                                  *)
(*                                                                         *)
(* Messages about one stream carry `entry', the position of that stream in *)
(* the fetched list.  It is an auxiliary field: no handler reads it.  It   *)
(* tells apart the checks of a name that the list holds twice, which are   *)
(* otherwise equal records.                                                *)
(***************************************************************************)
EXTENDS Naturals, Sequences, FiniteSets

CONSTANTS
  Streams,       \* the stream names that occur in go2rtc's YAML file
  StreamLists,   \* the lists of names that the file may hold when it is read
  Times,         \* the instants time.Now() returns for TriggeredAt
  ZeroTime       \* time.Time{}, the TriggeredAt of an actor that never ran

ASSUME MessagesAssumption ==
  /\ IsFiniteSet(Streams)
  /\ StreamLists \subseteq Seq(Streams)
  /\ ZeroTime \notin Times

VARIABLES
  box,           \* the mailbox of every actor, oldest message first
  sleeping       \* the goroutines that sleep before a second check; each is
                 \* the CheckStreamHealth message it will send

Actors == {"master", "cleaner", "count", "go2rtc", "redis", "action"}

(* The actors whose ctx.Self().String() occurs in RequestedBy. *)
Requesters == {"cleaner", "count"}

Attempts == {1, 2}

-----------------------------------------------------------------------------
TriggerCleanup == [type |-> "TriggerCleanup"]

CleanupCycleStarted(t) == [type |-> "CleanupCycleStarted", triggeredAt |-> t]

CountAliveStreamsStarted(t) ==
  [type |-> "CountAliveStreamsStarted", triggeredAt |-> t]

FetchStreamList(t, r) ==
  [type |-> "FetchStreamList", triggeredAt |-> t, requestedBy |-> r]

StreamListFetched(t, r, list, failed) ==
  [type |-> "StreamListFetched", triggeredAt |-> t, requestedBy |-> r,
   streams |-> list, error |-> failed]

CheckStreamHealth(s, e, t, n, r) ==
  [type |-> "CheckStreamHealth", stream |-> s, entry |-> e,
   triggeredAt |-> t, attempt |-> n, requestedBy |-> r]

StreamHealthChecked(m, producing, failed) ==
  [type |-> "StreamHealthChecked", stream |-> m.stream, entry |-> m.entry,
   triggeredAt |-> m.triggeredAt, attempt |-> m.attempt,
   requestedBy |-> m.requestedBy, hasProducer |-> producing, error |-> failed]

RemoveStream(m) ==
  [type |-> "RemoveStream", stream |-> m.stream, entry |-> m.entry,
   triggeredAt |-> m.triggeredAt]

StreamRemoved(s) == [type |-> "StreamRemoved", stream |-> s]

StreamRemovalCompleted(m, done, failed) ==
  [type |-> "StreamRemovalCompleted", stream |-> m.stream, entry |-> m.entry,
   triggeredAt |-> m.triggeredAt, removed |-> done, error |-> failed]

ExecuteAction(s) == [type |-> "ExecuteAction", stream |-> s]

CleanupCycleFinished(alive, removed) ==
  [type |-> "CleanupCycleFinished", aliveStreams |-> alive,
   removedStreams |-> removed]

AliveStreamCountCalculated(alive, failed) ==
  [type |-> "AliveStreamCountCalculated", aliveStreams |-> alive,
   error |-> failed]

UpdateStreamCount(alive) == [type |-> "UpdateStreamCount", aliveStreams |-> alive]

-----------------------------------------------------------------------------
(* Mailboxes.  An actor handles one message at a time, in the order of     *)
(* arrival; ctx.Send appends to the mailbox of the receiver.               *)

Msg(self) == Head(box[self])

Gets(self, type) == box[self] # <<>> /\ Msg(self).type = type

Taken(self) == [box EXCEPT ![self] = Tail(@)]

Post(boxes, to, msgs) == [boxes EXCEPT ![to] = @ \o msgs]

(* One first check for every entry of the fetched list, in its order.      *)
FirstChecks(m) ==
  [e \in 1 .. Len(m.streams) |->
     CheckStreamHealth(m.streams[e], e, m.triggeredAt, 1, m.requestedBy)]

(* Mutant: the second check says it is a first one.                        *)
SecondCheck_AsFirst(m) ==
  CheckStreamHealth(m.stream, m.entry, m.triggeredAt, 1, m.requestedBy)

(* What the goroutine started for a first check without producer sends.    *)
SecondCheck(m) ==
  CheckStreamHealth(m.stream, m.entry, m.triggeredAt, 2, m.requestedBy)

(* time.Sleep(confirmAfter) returns and the second check is sent.          *)
ConfirmationElapsed(check) ==
  /\ check \in sleeping
  /\ sleeping' = sleeping \ {check}
  /\ box' = Post(box, "go2rtc", <<check>>)

-----------------------------------------------------------------------------
(* The requester on whose behalf a message travels.                        *)
OnBehalfOf(m, r) ==
  \/ /\ m.type \in {"FetchStreamList", "StreamListFetched",
                    "CheckStreamHealth", "StreamHealthChecked"}
     /\ m.requestedBy = r
  \/ /\ m.type \in {"CleanupCycleStarted", "RemoveStream", "StreamRemovalCompleted"}
     /\ r = "cleaner"
  \/ m.type = "CountAliveStreamsStarted" /\ r = "count"

(* The messages of requester r that have been sent and not yet handled.    *)
(* The copy of an answer that the master sends to the other requester, for *)
(* which it is not meant, does not count.                                  *)
InTransit(r) ==
  {m \in sleeping \union
          UNION { {box[a][i] : i \in 1 .. Len(box[a])} : a \in {"master", "go2rtc", r} } :
     OnBehalfOf(m, r)}
===============================================================================
