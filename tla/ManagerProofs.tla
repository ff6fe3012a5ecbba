---------------------------- MODULE ManagerProofs ----------------------------
(* Theorems about Manager, for any streams, lists, instants and bounds.    *)
EXTENDS Manager, TLAPS

(***************************************************************************)
(* Mailboxes keep well-typed messages.                                     *)
(***************************************************************************)
BoxOK(b) == b \in [Actors -> Seq(Message)]

(* Sending well-typed messages to an actor keeps all mailboxes typed.      *)
LEMMA PostOK ==
  ASSUME NEW b, BoxOK(b), NEW to \in Actors, NEW msgs \in Seq(Message)
  PROVE  BoxOK(Post(b, to, msgs))
BY DEF BoxOK, Post

(* A single message is a sequence of messages.                             *)
LEMMA OneMessage == \A m \in Message : <<m>> \in Seq(Message)
OBVIOUS

(* Taking the oldest message yields a message and keeps the types.         *)
LEMMA TakenOK ==
  ASSUME NEW self \in Actors, BoxOK(box), box[self] # <<>>
  PROVE  /\ Msg(self) \in Message
         /\ BoxOK(Taken(self))
<1>1. box[self] \in Seq(Message) /\ box[self] # <<>>
  BY DEF BoxOK
<1>2. Head(box[self]) \in Message /\ Tail(box[self]) \in Seq(Message)
  BY <1>1
<1> QED
  BY <1>2 DEF BoxOK, Taken, Msg

(* The fields of a message that a handler reads.                           *)
LEMMA FieldsOfMessages ==
  ASSUME NEW m \in Message
  PROVE  /\ m.type \in {"CleanupCycleStarted", "CountAliveStreamsStarted"} =>
              m.triggeredAt \in Times
         /\ m.type = "FetchStreamList" =>
              m.triggeredAt \in Times /\ m.requestedBy \in Requesters
         /\ m.type = "StreamListFetched" =>
              /\ m.triggeredAt \in Times /\ m.requestedBy \in Requesters
              /\ m.streams \in Seq(Streams)
         /\ m.type \in {"CheckStreamHealth", "StreamHealthChecked"} =>
              /\ m.stream \in Streams /\ m.entry \in Nat \ {0}
              /\ m.triggeredAt \in Times /\ m.requestedBy \in Requesters
              /\ m.attempt \in Attempts
         /\ m.type \in {"RemoveStream", "StreamRemovalCompleted"} =>
              /\ m.stream \in Streams /\ m.entry \in Nat \ {0}
              /\ m.triggeredAt \in Times
         /\ m.type \in {"StreamRemoved", "ExecuteAction"} => m.stream \in Streams
         /\ m.type \in {"CleanupCycleFinished", "AliveStreamCountCalculated",
                        "UpdateStreamCount"} => m.aliveStreams \in Nat
<1>1. CASE m \in {TriggerCleanup} \cup RunStarts \cup ListRequests
  BY <1>1 DEF TriggerCleanup, RunStarts, ListRequests
<1>2. CASE m \in ListAnswers
  <2>1. StreamLists \cup {<<>>} \subseteq Seq(Streams)
    <3>1. << >> \in Seq(Streams)
      OBVIOUS
    <3> QED
      BY <3>1, MessagesAssumption
  <2> QED
    BY <1>2, <2>1 DEF ListAnswers
<1>3. CASE m \in Checks
  BY <1>3 DEF Checks
<1>4. CASE m \in CheckAnswers
  BY <1>4 DEF CheckAnswers
<1>5. CASE m \in Removals \cup RemovalAnswers
  BY <1>5 DEF Removals, RemovalAnswers
<1>6. CASE m \in Notices
  BY <1>6 DEF Notices
<1>7. CASE m \in Reports
  BY <1>7 DEF Reports
<1> QED
  BY <1>1, <1>2, <1>3, <1>4, <1>5, <1>6, <1>7 DEF Message

(* The messages that handlers make.                                        *)
LEMMA StartsAreMessages ==
  ASSUME NEW t \in Times, NEW r \in Requesters, NEW list \in StreamLists \cup {<<>>},
         NEW failed \in BOOLEAN
  PROVE  /\ TriggerCleanup \in Message
         /\ CleanupCycleStarted(t) \in Message
         /\ CountAliveStreamsStarted(t) \in Message
         /\ FetchStreamList(t, r) \in Message
         /\ StreamListFetched(t, r, list, failed) \in Message
BY DEF Message, RunStarts, ListRequests, ListAnswers, CleanupCycleStarted,
       CountAliveStreamsStarted, FetchStreamList, StreamListFetched

(* CheckStreamHealth of a stream, entry, instant, attempt, requester.      *)
LEMMA ChecksAreMessages ==
  ASSUME NEW s \in Streams, NEW e \in Nat \ {0}, NEW t \in Times, NEW n \in Attempts,
         NEW r \in Requesters
  PROVE  CheckStreamHealth(s, e, t, n, r) \in Message
BY DEF Message, Checks, CheckStreamHealth

(* The answer to a check is a message.                                     *)
LEMMA CheckAnswersAreMessages ==
  ASSUME NEW m \in Message, m.type = "CheckStreamHealth",
         NEW producing \in BOOLEAN, NEW failed \in BOOLEAN
  PROVE  StreamHealthChecked(m, producing, failed) \in Message
BY FieldsOfMessages DEF Message, CheckAnswers, StreamHealthChecked

(* The removal of a checked stream and its answers are messages.           *)
LEMMA RemovalsAreMessages ==
  ASSUME NEW m \in Message, m.type \in {"StreamHealthChecked", "RemoveStream"},
         NEW done \in BOOLEAN, NEW failed \in BOOLEAN
  PROVE  /\ RemoveStream(m) \in Message
         /\ StreamRemovalCompleted(m, done, failed) \in Message
         /\ StreamRemoved(m.stream) \in Message
BY FieldsOfMessages
DEF Message, Removals, RemovalAnswers, Notices, RemoveStream, StreamRemovalCompleted,
    StreamRemoved

(* The reports of both requesters and the Redis update are messages.       *)
LEMMA ReportsAreMessages ==
  ASSUME NEW a \in Nat, NEW n \in Nat, NEW failed \in BOOLEAN
  PROVE  /\ CleanupCycleFinished(a, n) \in Message
         /\ AliveStreamCountCalculated(a, failed) \in Message
         /\ UpdateStreamCount(a) \in Message
BY DEF Message, Reports, CleanupCycleFinished, AliveStreamCountCalculated,
       UpdateStreamCount

(* The fan-out of a fetched list is a sequence of messages.                *)
LEMMA FirstChecksAreMessages ==
  ASSUME NEW m \in Message, m.type = "StreamListFetched"
  PROVE  FirstChecks(m) \in Seq(Message) /\ Len(m.streams) \in Nat
<1>1. /\ m.streams \in Seq(Streams) /\ m.triggeredAt \in Times
      /\ m.requestedBy \in Requesters
  BY FieldsOfMessages
<1>2. ASSUME NEW e \in 1 .. Len(m.streams)
      PROVE  CheckStreamHealth(m.streams[e], e, m.triggeredAt, 1, m.requestedBy)
               \in Message
  <2>1. m.streams[e] \in Streams /\ e \in Nat \ {0} /\ 1 \in Attempts
    BY <1>1 DEF Attempts
  <2> QED
    BY <1>1, <2>1, ChecksAreMessages
<1>3. Len(m.streams) \in Nat
  BY <1>1
<1> QED
  BY <1>2, <1>3 DEF FirstChecks

(***************************************************************************)
(* Every step keeps the types.                                             *)
(***************************************************************************)
(* The actors start well typed.                                            *)
LEMMA InitTypeOK == Init => TypeOK
<1> SUFFICES ASSUME Init PROVE TypeOK
  OBVIOUS
<1>1. box \in [Actors -> Seq(Message)]
  <2>1. TriggerCleanup \in Message
    BY DEF Message
  <2>2. << >> \in Seq(Message) /\ <<TriggerCleanup>> \in Seq(Message)
    BY <2>1
  <2> QED
    BY <2>2 DEF Init, MasterInit
<1>2. sleeping \subseteq {check \in Checks : check.attempt = 2}
  BY DEF Init, MasterInit
<1>3. status \in [Streams -> StreamStatus]
  BY DEF Init, Go2RTCInit, StreamStatus
<1>4. cleaner \in CleanerStates
  BY DEF Init, CleanerInit, CleanerStates
<1>5. count \in CounterStates
  BY DEF Init, CountInit, CounterStates
<1>6. redis \in [connected : BOOLEAN, key : Nat \cup {NoValue}]
  BY DEF Init, RedisInit
<1> QED
  BY <1>1, <1>2, <1>3, <1>4, <1>5, <1>6 DEF TypeOK

(* Whatever the master routes, drops or starts keeps the types.            *)
LEMMA MasterTypeOK == TypeOK /\ MasterStep => TypeOK'
<1> SUFFICES ASSUME TypeOK, MasterStep PROVE TypeOK'
  OBVIOUS
<1> DEFINE m == Msg("master")
<1>1. BoxOK(box) /\ UNCHANGED <<sleeping, status, cleaner, count, redis>>
  BY DEF TypeOK, BoxOK, MasterStep, MasterNext
<1>2. box["master"] # <<>>
  BY DEF MasterStep, MasterNext, MasterStartsCleanup, MasterStartsCount,
         MasterForwardsAnswer, MasterForwardsRemoval, MasterRequestsAction,
         MasterDropsReport, MasterPublishesReport, MasterDropsCount,
         MasterPublishesCount, Gets
<1>3. m \in Message /\ BoxOK(Taken("master"))
  BY <1>1, <1>2, TakenOK DEF Actors
<1>4. ASSUME NEW to \in Actors, NEW msg \in Message, NEW b, BoxOK(b)
      PROVE  BoxOK(Post(b, to, <<msg>>))
  BY <1>4, PostOK
<1>5. {"master", "cleaner", "count", "redis", "action"} \subseteq Actors
  BY DEF Actors
<1>6. CASE MasterStartsCleanup
  <2>1. PICK t \in Times : box' = Post(Taken("master"), "cleaner", <<CleanupCycleStarted(t)>>)
    BY <1>6 DEF MasterStartsCleanup
  <2>2. CleanupCycleStarted(t) \in Message
    BY StartsAreMessages DEF Requesters
  <2>3. BoxOK(box')
    BY <1>3, <1>4, <1>5, <2>1, <2>2
  <2> QED
    BY <1>1, <2>3 DEF TypeOK, BoxOK
<1>7. CASE MasterStartsCount \/ MasterForwardsRemoval
  <2>1. BoxOK(box')
    BY <1>3, <1>4, <1>5, <1>7 DEF MasterStartsCount, MasterForwardsRemoval
  <2> QED
    BY <1>1, <2>1 DEF TypeOK, BoxOK
<1>8. CASE MasterForwardsAnswer
  <2>1. BoxOK(Post(Taken("master"), "cleaner", <<m>>))
    BY <1>3, <1>4, <1>5
  <2>2. BoxOK(box')
    BY <1>3, <1>4, <1>5, <1>8, <2>1 DEF MasterForwardsAnswer
  <2> QED
    BY <1>1, <2>2 DEF TypeOK, BoxOK
<1>9. CASE MasterRequestsAction
  <2>1. ExecuteAction(m.stream) \in Message
    BY <1>3, <1>9, FieldsOfMessages
    DEF MasterRequestsAction, Gets, ExecuteAction, Message, Notices
  <2>2. BoxOK(box')
    BY <1>3, <1>4, <1>5, <1>9, <2>1 DEF MasterRequestsAction
  <2> QED
    BY <1>1, <2>2 DEF TypeOK, BoxOK
<1>10. CASE MasterPublishesReport \/ MasterPublishesCount
  <2>1. m.aliveStreams \in Nat
    BY <1>3, <1>10, FieldsOfMessages DEF MasterPublishesReport, MasterPublishesCount, Gets
  <2>2. UpdateStreamCount(m.aliveStreams) \in Message
    BY <2>1, ReportsAreMessages
  <2>3. BoxOK(box')
    BY <1>3, <1>4, <1>5, <1>10, <2>2 DEF MasterPublishesReport, MasterPublishesCount
  <2> QED
    BY <1>1, <2>3 DEF TypeOK, BoxOK
<1>11. CASE MasterDropsReport \/ MasterDropsCount
  BY <1>1, <1>3, <1>11 DEF MasterDropsReport, MasterDropsCount, TypeOK, BoxOK
<1> QED
  BY <1>6, <1>7, <1>8, <1>9, <1>10, <1>11 DEF MasterStep, MasterNext

(* Every outcome of a call to go2rtc keeps the types.                      *)
LEMMA Go2RTCTypeOK == TypeOK /\ Go2RTCStep => TypeOK'
<1> SUFFICES ASSUME TypeOK, Go2RTCStep PROVE TypeOK'
  OBVIOUS
<1> DEFINE m == Msg("go2rtc")
<1>1. BoxOK(box) /\ UNCHANGED <<sleeping, cleaner, count, redis>>
  BY DEF TypeOK, BoxOK, Go2RTCStep, Go2RTCNext, Go2RTCFails, Go2RTCFetchFails,
         Go2RTCCheckFails, Go2RTCRemoveFails, Go2RTCFetches, Go2RTCChecks,
         Go2RTCRemoveUnknown, Go2RTCRemoves
<1>2. box["go2rtc"] # <<>>
  BY DEF Go2RTCStep, Go2RTCNext, Go2RTCFails, Go2RTCFetchFails,
         Go2RTCCheckFails, Go2RTCRemoveFails, Go2RTCFetches, Go2RTCChecks,
         Go2RTCRemoveUnknown, Go2RTCRemoves, Gets
<1>3. m \in Message /\ BoxOK(Taken("go2rtc"))
  BY <1>1, <1>2, TakenOK DEF Actors
<1>4. ASSUME NEW first \in Message, NEW second \in Message,
             Replies(<<first>>) \/ Replies(<<first, second>>)
      PROVE  BoxOK(box')
  <2>1. "master" \in Actors
    BY DEF Actors
  <2>2. <<first>> \in Seq(Message) /\ <<first, second>> \in Seq(Message)
    OBVIOUS
  <2> QED
    BY <1>3, <1>4, <2>1, <2>2, PostOK DEF Replies
<1>5. status' \in [Streams -> StreamStatus]
  BY DEF TypeOK, Go2RTCStep, Go2RTCNext, Go2RTCFails, Go2RTCFetchFails,
         Go2RTCCheckFails, Go2RTCRemoveFails, Go2RTCFetches, Go2RTCChecks,
         Go2RTCRemoveUnknown, Go2RTCRemoves, StreamStatus
<1>6. BoxOK(box')
  <2>1. CASE Go2RTCFetchFails
    <3>1. StreamListFetched(m.triggeredAt, m.requestedBy, <<>>, TRUE) \in Message
      BY <1>3, <2>1, FieldsOfMessages, StartsAreMessages DEF Go2RTCFetchFails, Gets
    <3> QED
      BY <1>4, <2>1, <3>1 DEF Go2RTCFetchFails
  <2>2. CASE Go2RTCFetches
    <3>1. PICK list \in StreamLists :
            Replies(<<StreamListFetched(m.triggeredAt, m.requestedBy, list, FALSE)>>)
      BY <2>2 DEF Go2RTCFetches
    <3>2. StreamListFetched(m.triggeredAt, m.requestedBy, list, FALSE) \in Message
      BY <1>3, <2>2, FieldsOfMessages, StartsAreMessages DEF Go2RTCFetches, Gets
    <3> QED
      BY <1>4, <3>1, <3>2
  <2>3. CASE Go2RTCCheckFails \/ Go2RTCChecks
    <3>1. \A producing, failed \in BOOLEAN :
            StreamHealthChecked(m, producing, failed) \in Message
      BY <1>3, <2>3, CheckAnswersAreMessages DEF Go2RTCCheckFails, Go2RTCChecks, Gets
    <3>2. (status[m.stream] = "live") \in BOOLEAN
      OBVIOUS
    <3> QED
      BY <1>4, <2>3, <3>1, <3>2 DEF Go2RTCCheckFails, Go2RTCChecks
  <2>4. CASE Go2RTCRemoveFails \/ Go2RTCRemoveUnknown \/ Go2RTCRemoves
    <3>1. /\ \A done, failed \in BOOLEAN : StreamRemovalCompleted(m, done, failed) \in Message
          /\ StreamRemoved(m.stream) \in Message
      BY <1>3, <2>4, RemovalsAreMessages
      DEF Go2RTCRemoveFails, Go2RTCRemoveUnknown, Go2RTCRemoves, Gets
    <3> QED
      BY <1>4, <2>4, <3>1 DEF Go2RTCRemoveFails, Go2RTCRemoveUnknown, Go2RTCRemoves
  <2> QED
    BY <2>1, <2>2, <2>3, <2>4 DEF Go2RTCStep, Go2RTCNext, Go2RTCFails
<1> QED
  BY <1>1, <1>5, <1>6 DEF TypeOK, BoxOK

(* markStreamCompleted keeps the types of the cleaner and the mailboxes.  *)
LEMMA CompleteStreamOK ==
  ASSUME BoxOK(box), box["cleaner"] # <<>>, NEW c \in CleanerStates, CompleteStream(c)
  PROVE  cleaner' \in CleanerStates /\ BoxOK(box')
<1> DEFINE left == IF c.outstanding > 0 THEN c.outstanding - 1 ELSE 0
           report == CleanupCycleFinished(c.aliveCount, c.removedCount)
<1>1. BoxOK(Taken("cleaner")) /\ "master" \in Actors
  BY TakenOK DEF Actors
<1>2. <<report>> \in Seq(Message)
  <2>1. report \in Message
    BY ReportsAreMessages DEF CleanerStates
  <2> QED
    BY <2>1
<1>3. BoxOK(Post(Taken("cleaner"), "master", <<report>>))
  BY <1>1, <1>2, PostOK
<1>4. BoxOK(box')
  BY <1>1, <1>3 DEF CompleteStream
<1>5. left \in Nat
  BY DEF CleanerStates
<1>6. PICK still \in BOOLEAN :
        cleaner' = [c EXCEPT !.outstanding = left, !.running = still]
  BY DEF CompleteStream
<1>7. cleaner' \in CleanerStates
  BY <1>5, <1>6 DEF CleanerStates
<1> QED
  BY <1>4, <1>7

(* Every handler of StreamCleanerActor keeps the types.                    *)
LEMMA CleanerTypeOK == TypeOK /\ CleanerStep => TypeOK'
<1> SUFFICES ASSUME TypeOK, CleanerStep PROVE TypeOK'
  OBVIOUS
<1> DEFINE m == Msg("cleaner")
<1>1. BoxOK(box) /\ cleaner \in CleanerStates /\ UNCHANGED <<count, redis, status>>
  BY DEF TypeOK, BoxOK, CleanerStep, CleanerNext, CleanerIgnores, CleanerBegins,
         CleanerListFailed, CleanerListEmpty, CleanerListReceived,
         CleanerHealthFailed, CleanerHealthAlive, CleanerSuspects, CleanerRemoves,
         CleanerSkips, CleanerRemovalCompleted
<1>2. box["cleaner"] # <<>>
  BY DEF CleanerStep, CleanerNext, CleanerIgnores, CleanerBegins,
         CleanerListFailed, CleanerListEmpty, CleanerListReceived,
         CleanerHealthFailed, CleanerHealthAlive, CleanerSuspects, CleanerRemoves,
         CleanerSkips, CleanerRemovalCompleted, CleanerMissing, CleanerHandles, Gets
<1>3. m \in Message /\ BoxOK(Taken("cleaner"))
  BY <1>1, <1>2, TakenOK DEF Actors
<1>4. ASSUME NEW to \in Actors, NEW msgs \in Seq(Message)
      PROVE  BoxOK(Post(Taken("cleaner"), to, msgs))
  BY <1>3, PostOK
<1>5. {"master", "go2rtc"} \subseteq Actors
  BY DEF Actors
<1>6. ASSUME BoxOK(box'), cleaner' \in CleanerStates, UNCHANGED sleeping
      PROVE  TypeOK'
  BY <1>1, <1>6 DEF TypeOK, BoxOK
<1>7. CASE CleanerIgnores
  BY <1>1, <1>3, <1>6, <1>7 DEF CleanerIgnores
<1>8. CASE CleanerBegins
  <2>1. m.triggeredAt \in Times
    BY <1>3, <1>8, FieldsOfMessages DEF CleanerBegins, CleanerHandles, Gets
  <2>2. FetchStreamList(m.triggeredAt, "cleaner") \in Message
    BY <2>1, StartsAreMessages DEF Requesters
  <2>3. <<FetchStreamList(m.triggeredAt, "cleaner")>> \in Seq(Message)
    BY <2>2
  <2>4. BoxOK(box')
    BY <1>4, <1>5, <1>8, <2>3 DEF CleanerBegins
  <2>5. cleaner' \in CleanerStates
    BY <1>8, <2>1 DEF CleanerBegins, CleanerStates
  <2> QED
    BY <1>6, <1>8, <2>4, <2>5 DEF CleanerBegins
<1>9. CASE CleanerListFailed
  <2>1. cleaner' \in CleanerStates
    BY <1>1, <1>9 DEF CleanerListFailed, CleanerStates
  <2> QED
    BY <1>3, <1>6, <1>9, <2>1 DEF CleanerListFailed
<1>10. CASE CleanerListEmpty
  <2>1. cleaner' \in CleanerStates
    BY <1>1, <1>10 DEF CleanerListEmpty, CleanerStates
  <2>2. <<CleanupCycleFinished(0, 0)>> \in Seq(Message)
    <3>1. CleanupCycleFinished(0, 0) \in Message
      BY ReportsAreMessages
    <3> QED
      BY <3>1
  <2>3. BoxOK(box')
    BY <1>4, <1>5, <1>10, <2>2 DEF CleanerListEmpty
  <2> QED
    BY <1>6, <1>10, <2>1, <2>3 DEF CleanerListEmpty
<1>11. CASE CleanerListReceived
  <2>1. FirstChecks(m) \in Seq(Message) /\ Len(m.streams) \in Nat
    BY <1>3, <1>11, FirstChecksAreMessages DEF CleanerListReceived, CleanerHandles, Gets
  <2>2. cleaner' \in CleanerStates
    BY <1>1, <1>11, <2>1 DEF CleanerListReceived, CleanerStates
  <2>3. BoxOK(box')
    BY <1>4, <1>5, <1>11, <2>1 DEF CleanerListReceived
  <2> QED
    BY <1>6, <1>11, <2>2, <2>3 DEF CleanerListReceived
<1>12. CASE CleanerHealthFailed
  <2>1. [cleaner EXCEPT !.pending = @ \ {m.stream}] \in CleanerStates
    BY <1>1 DEF CleanerStates
  <2> QED
    BY <1>1, <1>2, <1>6, <1>12, <2>1, CompleteStreamOK DEF CleanerHealthFailed
<1>13. CASE CleanerHealthAlive
  <2>1. [cleaner EXCEPT !.pending = @ \ {m.stream}, !.aliveCount = @ + 1]
          \in CleanerStates
    <3>1. cleaner.pending \ {m.stream} \in SUBSET Streams
      BY <1>1 DEF CleanerStates
    <3>2. cleaner.aliveCount + 1 \in Nat
      BY <1>1 DEF CleanerStates
    <3> QED
      BY <1>1, <3>1, <3>2 DEF CleanerStates
  <2> QED
    BY <1>1, <1>2, <1>6, <1>13, <2>1, CompleteStreamOK DEF CleanerHealthAlive
<1>14. CASE CleanerSuspects
  <2>1. /\ m.stream \in Streams /\ m.entry \in Nat \ {0} /\ m.triggeredAt \in Times
        /\ m.requestedBy \in Requesters
    BY <1>3, <1>14, FieldsOfMessages
    DEF CleanerSuspects, CleanerMissing, CleanerHandles, Gets
  <2>2. SecondCheck(m) \in {check \in Checks : check.attempt = 2}
    BY <2>1 DEF SecondCheck, CheckStreamHealth, Checks, Attempts
  <2>3. sleeping' \subseteq {check \in Checks : check.attempt = 2}
    BY <1>14, <2>2 DEF CleanerSuspects, TypeOK
  <2>4. cleaner' \in CleanerStates
    BY <1>1, <1>14, <2>1 DEF CleanerSuspects, CleanerStates
  <2>5. BoxOK(box')
    BY <1>3, <1>14 DEF CleanerSuspects
  <2> QED
    BY <1>1, <2>3, <2>4, <2>5 DEF TypeOK, BoxOK
<1>15. CASE CleanerRemoves
  <2>1. RemoveStream(m) \in Message
    BY <1>3, <1>15, RemovalsAreMessages
    DEF CleanerRemoves, CleanerMissing, CleanerHandles, Gets
  <2>2. <<RemoveStream(m)>> \in Seq(Message)
    BY <2>1
  <2>3. BoxOK(box')
    BY <1>4, <1>5, <1>15, <2>2 DEF CleanerRemoves
  <2>4. cleaner' \in CleanerStates
    BY <1>1, <1>15 DEF CleanerRemoves, CleanerStates
  <2> QED
    BY <1>6, <1>15, <2>3, <2>4 DEF CleanerRemoves
<1>16. CASE CleanerSkips
  BY <1>1, <1>2, <1>6, <1>16, CompleteStreamOK DEF CleanerSkips
<1>17. CASE CleanerRemovalCompleted
  <2>1. [cleaner EXCEPT !.removedCount = @ + 1] \in CleanerStates
    BY <1>1 DEF CleanerStates
  <2> QED
    BY <1>1, <1>2, <1>6, <1>17, <2>1, CompleteStreamOK DEF CleanerRemovalCompleted
<1> QED
  BY <1>7, <1>8, <1>9, <1>10, <1>11, <1>12, <1>13, <1>14, <1>15, <1>16, <1>17
  DEF CleanerStep, CleanerNext

(* finish keeps the types of the count actor and of the mailboxes.         *)
LEMMA FinishCountOK ==
  ASSUME BoxOK(box), box["count"] # <<>>, NEW c \in CounterStates, FinishCount(c)
  PROVE  count' \in CounterStates /\ BoxOK(box')
<1> DEFINE report == AliveStreamCountCalculated(c.aliveCount, FALSE)
<1>1. BoxOK(Taken("count")) /\ "master" \in Actors
  BY TakenOK DEF Actors
<1>2. <<report>> \in Seq(Message)
  <2>1. report \in Message
    <3>1. c.aliveCount \in Nat /\ FALSE \in BOOLEAN
      BY DEF CounterStates
    <3> QED
      BY <3>1, ReportsAreMessages
  <2> QED
    BY <2>1, OneMessage
<1>3. BoxOK(box')
  BY <1>1, <1>2, PostOK DEF FinishCount
<1>4. count' \in CounterStates
  BY DEF FinishCount, CounterStates
<1> QED
  BY <1>3, <1>4

(* So does finishWithError, ...                                            *)
LEMMA FinishCountWithErrorOK ==
  ASSUME BoxOK(box), box["count"] # <<>>, count \in CounterStates, FinishCountWithError
  PROVE  count' \in CounterStates /\ BoxOK(box')
<1>1. BoxOK(Taken("count")) /\ "master" \in Actors
  BY TakenOK DEF Actors
<1>2. <<AliveStreamCountCalculated(0, TRUE)>> \in Seq(Message)
  <2>1. AliveStreamCountCalculated(0, TRUE) \in Message
    <3>1. 0 \in Nat /\ TRUE \in BOOLEAN
      OBVIOUS
    <3> QED
      BY <3>1, ReportsAreMessages
  <2> QED
    BY <2>1, OneMessage
<1>3. BoxOK(box')
  BY <1>1, <1>2, PostOK DEF FinishCountWithError
<1>4. count' \in CounterStates
  BY DEF FinishCountWithError, CounterStates
<1> QED
  BY <1>3, <1>4

(* ... and markStreamCompleted.                                            *)
LEMMA CompleteCheckOK ==
  ASSUME BoxOK(box), box["count"] # <<>>, NEW c \in CounterStates, CompleteCheck(c)
  PROVE  count' \in CounterStates /\ BoxOK(box')
<1> DEFINE left == IF c.outstanding > 0 THEN c.outstanding - 1 ELSE 0
           settled == [c EXCEPT !.outstanding = left]
<1>1. left \in Nat
  BY DEF CounterStates
<1>2. settled \in CounterStates
  BY <1>1 DEF CounterStates
<1>3. CASE FinishCount(settled)
  BY <1>2, <1>3, FinishCountOK
<1>4. CASE count' = settled /\ box' = Taken("count")
  BY <1>2, <1>4, TakenOK DEF Actors
<1> QED
  BY <1>3, <1>4 DEF CompleteCheck

(* Every handler of StreamCountActor keeps the types.                      *)
LEMMA CountTypeOK == TypeOK /\ CountStep => TypeOK'
<1> SUFFICES ASSUME TypeOK, CountStep PROVE TypeOK'
  OBVIOUS
<1> DEFINE m == Msg("count")
<1>1. BoxOK(box) /\ count \in CounterStates /\ UNCHANGED <<cleaner, redis, status>>
  BY DEF TypeOK, BoxOK, CountStep, CountNext, CountIgnores, CountBegins,
         CountListFailed, CountListEmpty, CountListReceived, CountHealthFailed,
         CountHealthAlive, CountSuspects, CountConfirmsDead
<1>2. box["count"] # <<>>
  BY DEF CountStep, CountNext, CountIgnores, CountBegins, CountListFailed,
         CountListEmpty, CountListReceived, CountHealthFailed, CountHealthAlive,
         CountSuspects, CountConfirmsDead, CountMissing, CountHandles, Gets
<1>3. m \in Message /\ BoxOK(Taken("count"))
  BY <1>1, <1>2, TakenOK DEF Actors
<1>4. ASSUME NEW msgs \in Seq(Message)
      PROVE  BoxOK(Post(Taken("count"), "go2rtc", msgs))
  BY <1>3, PostOK DEF Actors
<1>5. ASSUME BoxOK(box'), count' \in CounterStates, UNCHANGED sleeping
      PROVE  TypeOK'
  BY <1>1, <1>5 DEF TypeOK, BoxOK
<1>6. CASE CountIgnores
  BY <1>1, <1>3, <1>5, <1>6 DEF CountIgnores
<1>7. CASE CountBegins
  <2>1. m.triggeredAt \in Times
    BY <1>3, <1>7, FieldsOfMessages DEF CountBegins, CountHandles, Gets
  <2>2. FetchStreamList(m.triggeredAt, "count") \in Message
    BY <2>1, StartsAreMessages DEF Requesters
  <2>3. <<FetchStreamList(m.triggeredAt, "count")>> \in Seq(Message)
    BY <2>2
  <2>4. BoxOK(box')
    BY <1>4, <1>7, <2>3 DEF CountBegins
  <2>5. count' \in CounterStates
    BY <1>7, <2>1 DEF CountBegins, CounterStates
  <2> QED
    BY <1>5, <1>7, <2>4, <2>5 DEF CountBegins
<1>8. CASE CountListFailed \/ CountHealthFailed
  BY <1>1, <1>2, <1>5, <1>8, FinishCountWithErrorOK
  DEF CountListFailed, CountHealthFailed
<1>9. CASE CountListEmpty
  BY <1>1, <1>2, <1>5, <1>9, FinishCountOK DEF CountListEmpty
<1>10. CASE CountListReceived
  <2>1. FirstChecks(m) \in Seq(Message) /\ Len(m.streams) \in Nat
    BY <1>3, <1>10, FirstChecksAreMessages DEF CountListReceived, CountHandles, Gets
  <2>2. count' \in CounterStates
    BY <1>1, <1>10, <2>1 DEF CountListReceived, CounterStates
  <2>3. BoxOK(box')
    BY <1>4, <1>10, <2>1 DEF CountListReceived
  <2> QED
    BY <1>5, <1>10, <2>2, <2>3 DEF CountListReceived
<1>11. CASE CountHealthAlive
  <2>1. [count EXCEPT !.pending = @ \ {m.stream}, !.aliveCount = @ + 1]
          \in CounterStates
    <3>1. count.pending \ {m.stream} \in SUBSET Streams
      BY <1>1 DEF CounterStates
    <3>2. count.aliveCount + 1 \in Nat
      BY <1>1 DEF CounterStates
    <3> QED
      BY <1>1, <3>1, <3>2 DEF CounterStates
  <2> QED
    BY <1>1, <1>2, <1>5, <1>11, <2>1, CompleteCheckOK DEF CountHealthAlive
<1>12. CASE CountSuspects
  <2>1. /\ m.stream \in Streams /\ m.entry \in Nat \ {0} /\ m.triggeredAt \in Times
        /\ m.requestedBy \in Requesters
    BY <1>3, <1>12, FieldsOfMessages DEF CountSuspects, CountMissing, CountHandles, Gets
  <2>2. SecondCheck(m) \in {check \in Checks : check.attempt = 2}
    BY <2>1 DEF SecondCheck, CheckStreamHealth, Checks, Attempts
  <2>3. sleeping' \subseteq {check \in Checks : check.attempt = 2}
    BY <1>12, <2>2 DEF CountSuspects, TypeOK
  <2>4. count' \in CounterStates
    BY <1>1, <1>12, <2>1 DEF CountSuspects, CounterStates
  <2>5. BoxOK(box')
    BY <1>3, <1>12 DEF CountSuspects
  <2> QED
    BY <1>1, <2>3, <2>4, <2>5 DEF TypeOK, BoxOK
<1>13. CASE CountConfirmsDead
  <2>1. [count EXCEPT !.pending = @ \ {m.stream}] \in CounterStates
    BY <1>1 DEF CounterStates
  <2> QED
    BY <1>1, <1>2, <1>5, <1>13, <2>1, CompleteCheckOK DEF CountConfirmsDead
<1> QED
  BY <1>6, <1>7, <1>8, <1>9, <1>10, <1>11, <1>12, <1>13 DEF CountStep, CountNext

(* Every outcome of an update of the Redis key keeps the types.            *)
LEMMA RedisTypeOK == TypeOK /\ RedisStep => TypeOK'
<1> SUFFICES ASSUME TypeOK, RedisStep PROVE TypeOK'
  OBVIOUS
<1>1. /\ BoxOK(box) /\ Gets("redis", "UpdateStreamCount") /\ box' = Taken("redis")
      /\ UNCHANGED <<sleeping, status, cleaner, count>>
  BY DEF TypeOK, BoxOK, RedisStep, RedisNext, RedisDisabled, RedisPingFails,
         RedisSetFails, RedisSets, RedisUpdates
<1>2. Msg("redis") \in Message /\ BoxOK(box')
  BY <1>1, TakenOK DEF Actors, Gets
<1>3. Msg("redis").aliveStreams \in Nat
  BY <1>1, <1>2, FieldsOfMessages DEF Gets
<1>4. redis' \in [connected : BOOLEAN, key : Nat \cup {NoValue}]
  <2>1. redis \in [connected : BOOLEAN, key : Nat \cup {NoValue}]
    BY DEF TypeOK
  <2>2. CASE redis' = redis
    BY <2>1, <2>2
  <2>3. CASE redis' = [redis EXCEPT !.connected = TRUE]
    BY <2>1, <2>3
  <2>4. CASE redis' = [connected |-> TRUE, key |-> Msg("redis").aliveStreams]
    BY <1>3, <2>4
  <2> QED
    BY <2>2, <2>3, <2>4
    DEF RedisStep, RedisNext, RedisDisabled, RedisPingFails, RedisSetFails, RedisSets
<1> QED
  BY <1>1, <1>2, <1>4 DEF TypeOK, BoxOK

(* Cron and the ticker only send well-typed messages.                      *)
LEMMA SchedulersTypeOK == TypeOK /\ (CronFires \/ TickFires) => TypeOK'
<1> SUFFICES ASSUME TypeOK, CronFires \/ TickFires PROVE TypeOK'
  OBVIOUS
<1>1. BoxOK(box) /\ "master" \in Actors
  BY DEF TypeOK, BoxOK, Actors
<1>2. PICK msg \in Message : box' = Post(box, "master", <<msg>>)
  <2>1. TriggerCleanup \in Message
    BY DEF Message
  <2>2. \A t \in Times : CountAliveStreamsStarted(t) \in Message
    BY DEF CountAliveStreamsStarted, RunStarts, Message
  <2> QED
    BY <2>1, <2>2 DEF CronFires, TickFires, CleanupCron, PublishTick
<1>3. BoxOK(box')
  <2>1. <<msg>> \in Seq(Message)
    OBVIOUS
  <2> QED
    BY <1>1, <1>2, <2>1, PostOK
<1> QED
  BY <1>3 DEF CronFires, TickFires, CleanupCron, PublishTick, TypeOK, BoxOK

(* ActionActor, the cameras and the goroutines keep the types.             *)
LEMMA OthersTypeOK ==
  ASSUME TypeOK,
         ActionStep \/ CameraChanges \/ \E check \in sleeping : WakeUp(check)
  PROVE  TypeOK'
<1>1. CASE ActionStep
  <2>1. BoxOK(box')
    BY <1>1, TakenOK DEF TypeOK, BoxOK, ActionStep, ActionExecutes, Gets, Actors
  <2> QED
    BY <1>1, <2>1 DEF TypeOK, BoxOK, ActionStep, ActionExecutes
<1>2. CASE CameraChanges
  <2>1. PICK s \in Moving, v \in StreamStatus : status' = [status EXCEPT ![s] = v]
    BY <1>2 DEF CameraChanges, StreamChanges
  <2>2. status' \in [Streams -> StreamStatus]
    BY <2>1 DEF TypeOK
  <2>3. UNCHANGED <<box, sleeping, cleaner, count, redis>>
    BY <1>2 DEF CameraChanges, StreamChanges
  <2> QED
    BY <2>2, <2>3 DEF TypeOK
<1>3. ASSUME NEW check \in sleeping, WakeUp(check) PROVE TypeOK'
  <2>1. <<check>> \in Seq(Message)
    <3>1. check \in Message
      BY DEF TypeOK, Message
    <3> QED
      BY <3>1
  <2>2. BoxOK(box')
    BY <1>3, <2>1, PostOK DEF TypeOK, BoxOK, WakeUp, ConfirmationElapsed, Actors
  <2> QED
    BY <1>3, <2>2 DEF TypeOK, BoxOK, WakeUp, ConfirmationElapsed
<1> QED
  BY <1>1, <1>2, <1>3

(* Every reachable state is well typed: mailboxes hold only the messages   *)
(* of common/message.go, goroutines only second checks, and the counters   *)
(* of the two requesters never go below zero.                              *)
THEOREM TypeCorrect == Spec => []TypeOK
<1>1. TypeOK /\ [Next]_vars => TypeOK'
  <2> SUFFICES ASSUME TypeOK, [Next]_vars PROVE TypeOK'
    OBVIOUS
  <2>1. CASE UNCHANGED vars
    BY <2>1 DEF vars, TypeOK
  <2> QED
    BY <2>1, MasterTypeOK, CleanerTypeOK, CountTypeOK, Go2RTCTypeOK, RedisTypeOK,
       SchedulersTypeOK, OthersTypeOK DEF Next
<1> QED
  BY <1>1, InitTypeOK, PTL DEF Spec

-----------------------------------------------------------------------------
(***************************************************************************)
(* What sending, taking, sleeping and waking up do to the messages in      *)
(* transit of one requester.  The messages are a set, while mailboxes are  *)
(* sequences: taking one copy of a message takes it out of the set only    *)
(* if no other message of the same run and entry is anywhere else, which   *)
(* is what Apart says and every lemma preserves.                           *)
(***************************************************************************)

(* InTransit(r), for any mailboxes b and goroutines s.                     *)
Carriers(r) == {"master", "go2rtc", r}

Carried(b, s, r) ==
  {m \in s \union UNION { {b[a][i] : i \in 1 .. Len(b[a])} : a \in Carriers(r) } :
     OnBehalfOf(m, r)}

(* A message about a whole run, not about one entry of its list.           *)
Single(m) == m.type \in {"CleanupCycleStarted", "CountAliveStreamsStarted",
                         "FetchStreamList", "StreamListFetched"}

(* Two messages that must not be under way at the same time.               *)
Clash(m, n) ==
  m.triggeredAt = n.triggeredAt /\ (Single(m) \/ Single(n) \/ m.entry = n.entry)

(* No two messages of r clash, wherever they are.                          *)
Apart(b, s, r) ==
  /\ \A a, c \in Carriers(r) : \A i \in 1 .. Len(b[a]), j \in 1 .. Len(b[c]) :
       OnBehalfOf(b[a][i], r) /\ OnBehalfOf(b[c][j], r) /\ Clash(b[a][i], b[c][j])
         => a = c /\ i = j
  /\ \A a \in Carriers(r) : \A i \in 1 .. Len(b[a]), m \in s :
       OnBehalfOf(b[a][i], r) /\ OnBehalfOf(m, r) => ~Clash(b[a][i], m)
  /\ \A m, n \in s :
       OnBehalfOf(m, r) /\ OnBehalfOf(n, r) /\ Clash(m, n) => m = n

-----------------------------------------------------------------------------
(* Clash does not depend on the order.                                     *)
LEMMA ClashCommutes == \A m, n : Clash(m, n) <=> Clash(n, m)
BY DEF Clash

(* A message clashes with itself.                                          *)
LEMMA ClashesWithItself == \A m : Clash(m, m)
BY DEF Clash

(* Carried, element by element.                                            *)
LEMMA CarriedIs ==
  ASSUME NEW b, NEW s, NEW r, NEW m
  PROVE  m \in Carried(b, s, r) <=>
           /\ OnBehalfOf(m, r)
           /\ \/ m \in s
              \/ \E a \in Carriers(r) : \E i \in 1 .. Len(b[a]) : m = b[a][i]
BY DEF Carried

(* As a set, the messages of r are free of clashes.                        *)
LEMMA CarriedApart ==
  ASSUME NEW b, NEW s, NEW r, Apart(b, s, r),
         NEW m \in Carried(b, s, r), NEW n \in Carried(b, s, r), Clash(m, n)
  PROVE  m = n
<1>1. Clash(n, m)
  BY ClashCommutes
<1>2. CASE m \in s /\ n \in s
  BY <1>2, CarriedIs DEF Apart
<1>3. CASE m \in s /\ n \notin s
  BY <1>1, <1>3, CarriedIs DEF Apart
<1>4. CASE m \notin s /\ n \in s
  BY <1>4, CarriedIs DEF Apart
<1>5. CASE m \notin s /\ n \notin s
  BY <1>5, CarriedIs DEF Apart
<1> QED
  BY <1>2, <1>3, <1>4, <1>5

-----------------------------------------------------------------------------
(* d is b without the oldest message of self's mailbox.                    *)
Shorter(b, d, self) ==
  /\ \A a \in Actors : a # self => d[a] = b[a]
  /\ Len(b[self]) \in Nat \ {0}
  /\ Len(d[self]) = Len(b[self]) - 1
  /\ \A i \in 1 .. Len(d[self]) : d[self][i] = b[self][i + 1]

LEMMA TakenIsShorter ==
  ASSUME NEW self \in Actors, BoxOK(box), box[self] # <<>>
  PROVE  Shorter(box, Taken(self), self) /\ Msg(self) = box[self][1]
<1>1. PICK q \in Seq(Message) : q = box[self]
  BY DEF BoxOK
<1>2. /\ q # <<>> /\ Len(q) \in Nat \ {0} /\ Len(Tail(q)) = Len(q) - 1
      /\ \A i \in 1 .. Len(Tail(q)) : Tail(q)[i] = q[i + 1]
      /\ Head(q) = q[1]
  BY <1>1
<1>3. Taken(self)[self] = Tail(q) /\ \A a \in Actors : a # self => Taken(self)[a] = box[a]
  BY <1>1 DEF BoxOK, Taken
<1>4. Shorter(box, Taken(self), self)
  BY <1>1, <1>2, <1>3 DEF Shorter
<1> QED
  BY <1>1, <1>2, <1>4 DEF Msg

(* Taking a message leaves the others apart.                               *)
LEMMA TakeApart ==
  ASSUME NEW r \in Requesters, NEW b, NEW d, NEW s, NEW self \in Actors,
         Shorter(b, d, self), Apart(b, s, r)
  PROVE  Apart(d, s, r)
<1> DEFINE From(a, i) == IF a = self THEN i + 1 ELSE i
<1>1. Carriers(r) \subseteq Actors
  BY DEF Carriers, Actors, Requesters
<1>2. ASSUME NEW a \in Carriers(r), NEW i \in 1 .. Len(d[a])
      PROVE  From(a, i) \in 1 .. Len(b[a]) /\ d[a][i] = b[a][From(a, i)]
  BY <1>1 DEF Shorter
<1>3. ASSUME NEW a \in Carriers(r), NEW c \in Carriers(r),
             NEW i \in 1 .. Len(d[a]), NEW j \in 1 .. Len(d[c]),
             OnBehalfOf(d[a][i], r), OnBehalfOf(d[c][j], r), Clash(d[a][i], d[c][j])
      PROVE  a = c /\ i = j
  <2>1. PICK x \in 1 .. Len(b[a]) : x = From(a, i) /\ d[a][i] = b[a][x]
    BY <1>2
  <2>2. PICK y \in 1 .. Len(b[c]) : y = From(c, j) /\ d[c][j] = b[c][y]
    BY <1>2
  <2>3. OnBehalfOf(b[a][x], r) /\ OnBehalfOf(b[c][y], r) /\ Clash(b[a][x], b[c][y])
    BY <1>3, <2>1, <2>2
  <2>4. a = c /\ x = y
    BY <2>3 DEF Apart
  <2> QED
    BY <2>1, <2>2, <2>4
<1>4. ASSUME NEW a \in Carriers(r), NEW i \in 1 .. Len(d[a]), NEW m \in s,
             OnBehalfOf(d[a][i], r), OnBehalfOf(m, r)
      PROVE  ~Clash(d[a][i], m)
  <2>1. From(a, i) \in 1 .. Len(b[a]) /\ d[a][i] = b[a][From(a, i)]
    BY <1>2
  <2> QED
    BY <1>4, <2>1 DEF Apart
<1>5. \A m, n \in s :
       OnBehalfOf(m, r) /\ OnBehalfOf(n, r) /\ Clash(m, n) => m = n
  BY DEF Apart
<1> HIDE DEF From
<1> QED
  BY <1>3, <1>4, <1>5 DEF Apart

(* What is still in transit was so before; what was is, or is taken.       *)
LEMMA TakeCells ==
  ASSUME NEW r \in Requesters, NEW b, NEW d, NEW s, NEW self \in Actors,
         Shorter(b, d, self)
  PROVE  /\ Carried(d, s, r) \subseteq Carried(b, s, r)
         /\ \A m \in Carried(b, s, r) :
              m \in Carried(d, s, r) \/ (self \in Carriers(r) /\ m = b[self][1])
<1>1. Carriers(r) \subseteq Actors
  BY DEF Carriers, Actors, Requesters
<1>2. ASSUME NEW m \in Carried(d, s, r)
      PROVE  m \in Carried(b, s, r)
  <2>1. /\ OnBehalfOf(m, r)
        /\ m \in s \/ \E a \in Carriers(r) : \E i \in 1 .. Len(d[a]) : m = d[a][i]
    BY <1>2, CarriedIs
  <2>2. ASSUME NEW a \in Carriers(r), NEW i \in 1 .. Len(d[a])
        PROVE  \E j \in 1 .. Len(b[a]) : d[a][i] = b[a][j]
    <3>1. CASE a = self
      BY <3>1 DEF Shorter
    <3>2. CASE a # self
      BY <1>1, <3>2 DEF Shorter
    <3> QED
      BY <3>1, <3>2
  <2>3. m \in s \/ \E a \in Carriers(r) : \E i \in 1 .. Len(b[a]) : m = b[a][i]
    BY <2>1, <2>2
  <2> QED
    BY <2>1, <2>3, CarriedIs
<1>3. ASSUME NEW m \in Carried(b, s, r),
             ~(self \in Carriers(r) /\ m = b[self][1])
      PROVE  m \in Carried(d, s, r)
  <2>1. /\ OnBehalfOf(m, r)
        /\ m \in s \/ \E a \in Carriers(r) : \E i \in 1 .. Len(b[a]) : m = b[a][i]
    BY <1>3, CarriedIs
  <2>2. ASSUME NEW a \in Carriers(r), NEW i \in 1 .. Len(b[a]), m = b[a][i]
        PROVE  \E j \in 1 .. Len(d[a]) : m = d[a][j]
    <3>1. CASE a = self
      <4>1. i # 1
        BY <1>3, <2>2, <3>1
      <4>2. i - 1 \in 1 .. Len(d[self]) /\ (i - 1) + 1 = i
        BY <3>1, <4>1 DEF Shorter
      <4>3. d[self][i - 1] = b[self][i]
        BY <4>2 DEF Shorter
      <4> QED
        BY <2>2, <3>1, <4>2, <4>3
    <3>2. CASE a # self
      BY <1>1, <2>2, <3>2 DEF Shorter
    <3> QED
      BY <3>1, <3>2
  <2>3. m \in s \/ \E a \in Carriers(r) : \E i \in 1 .. Len(d[a]) : m = d[a][i]
    BY <2>1, <2>2
  <2> QED
    BY <2>1, <2>3, CarriedIs
<1> QED
  BY <1>2, <1>3

(* A message of r that is taken is no longer in transit.                   *)
LEMMA TakeOwn ==
  ASSUME NEW r \in Requesters, NEW b, NEW d, NEW s, NEW self \in Carriers(r),
         Shorter(b, d, self), Apart(b, s, r), NEW h, h = b[self][1], OnBehalfOf(h, r)
  PROVE  h \in Carried(b, s, r) /\ Carried(d, s, r) = Carried(b, s, r) \ {h}
<1>1. Carriers(r) \subseteq Actors /\ self \in Actors
  BY DEF Carriers, Actors, Requesters
<1>2. 1 \in 1 .. Len(b[self]) /\ Clash(h, h)
  BY ClashesWithItself DEF Shorter
<1>3. h \in Carried(b, s, r)
  BY <1>2, CarriedIs
<1>4. h \notin Carried(d, s, r)
  <2> SUFFICES ASSUME h \in Carried(d, s, r) PROVE FALSE
    OBVIOUS
  <2>1. h \in s \/ \E a \in Carriers(r) : \E i \in 1 .. Len(d[a]) : h = d[a][i]
    BY CarriedIs
  <2>2. h \notin s
    BY <1>2 DEF Apart
  <2>3. ASSUME NEW a \in Carriers(r), NEW i \in 1 .. Len(d[a]), h = d[a][i]
        PROVE  FALSE
    <3>1. CASE a = self
      <4>1. i + 1 \in 1 .. Len(b[self]) /\ h = b[self][i + 1] /\ i + 1 # 1
        BY <2>3, <3>1 DEF Shorter
      <4>2. OnBehalfOf(b[self][i + 1], r) /\ Clash(b[self][1], b[self][i + 1])
        BY <1>2, <4>1
      <4> QED
        BY <1>2, <4>1, <4>2 DEF Apart
    <3>2. CASE a # self
      <4>1. i \in 1 .. Len(b[a]) /\ h = b[a][i]
        BY <1>1, <2>3, <3>2 DEF Shorter
      <4>2. OnBehalfOf(b[a][i], r) /\ Clash(b[self][1], b[a][i])
        BY <1>2, <4>1
      <4> QED
        BY <1>2, <3>2, <4>1, <4>2 DEF Apart
    <3> QED
      BY <3>1, <3>2
  <2> QED
    BY <2>1, <2>2, <2>3
<1> QED
  BY <1>1, <1>3, <1>4, TakeCells

(* Taking a message that is not r's, or is not in transit for r, takes     *)
(* nothing from r.                                                         *)
LEMMA TakeForeign ==
  ASSUME NEW r \in Requesters, NEW b, NEW d, NEW s, NEW self \in Actors,
         Shorter(b, d, self), self \notin Carriers(r) \/ ~OnBehalfOf(b[self][1], r)
  PROVE  Carried(d, s, r) = Carried(b, s, r)
<1>1. \A m \in Carried(b, s, r) : OnBehalfOf(m, r)
  BY CarriedIs
<1> QED
  BY <1>1, TakeCells

-----------------------------------------------------------------------------
(* d is b with msgs at the end of the mailbox of `to'.                     *)
Longer(b, d, to, msgs) ==
  /\ \A a \in Actors : a # to => d[a] = b[a]
  /\ Len(b[to]) \in Nat /\ Len(msgs) \in Nat
  /\ Len(d[to]) = Len(b[to]) + Len(msgs)
  /\ \A i \in 1 .. Len(b[to]) : d[to][i] = b[to][i]
  /\ \A i \in 1 .. Len(msgs) : d[to][Len(b[to]) + i] = msgs[i]

LEMMA PostIsLonger ==
  ASSUME NEW b, BoxOK(b), NEW to \in Actors, NEW msgs \in Seq(Message)
  PROVE  Longer(b, Post(b, to, msgs), to, msgs)
<1>1. PICK q \in Seq(Message) : q = b[to]
  BY DEF BoxOK
<1>2. /\ Len(q) \in Nat /\ Len(msgs) \in Nat
      /\ Len(q \o msgs) = Len(q) + Len(msgs)
      /\ \A i \in 1 .. Len(q) : (q \o msgs)[i] = q[i]
      /\ \A i \in 1 .. Len(msgs) : (q \o msgs)[Len(q) + i] = msgs[i]
  OBVIOUS
<1>3. /\ Post(b, to, msgs)[to] = q \o msgs
      /\ \A a \in Actors : a # to => Post(b, to, msgs)[a] = b[a]
  BY <1>1 DEF BoxOK, Post
<1> QED
  BY <1>1, <1>2, <1>3 DEF Longer

(* The messages of r in a sequence.                                        *)
OwnOf(msgs, r) == {i \in 1 .. Len(msgs) : OnBehalfOf(msgs[i], r)}

(* A message of the longer mailboxes was there before or has been posted.  *)
LEMMA PostCell ==
  ASSUME NEW b, NEW d, NEW to, NEW msgs, Longer(b, d, to, msgs)
  PROVE  \A a \in Actors : \A i \in 1 .. Len(d[a]) :
           \/ i \in 1 .. Len(b[a]) /\ d[a][i] = b[a][i]
           \/ /\ a = to
              /\ i - Len(b[to]) \in 1 .. Len(msgs)
              /\ d[a][i] = msgs[i - Len(b[to])]
<1> SUFFICES ASSUME NEW a \in Actors, NEW i \in 1 .. Len(d[a])
             PROVE  \/ i \in 1 .. Len(b[a]) /\ d[a][i] = b[a][i]
                    \/ /\ a = to
                       /\ i - Len(b[to]) \in 1 .. Len(msgs)
                       /\ d[a][i] = msgs[i - Len(b[to])]
  OBVIOUS
<1>1. CASE a # to
  BY <1>1 DEF Longer
<1>2. CASE a = to /\ i \in 1 .. Len(b[to])
  BY <1>2 DEF Longer
<1>3. CASE a = to /\ i \notin 1 .. Len(b[to])
  <2>1. PICK k \in 1 .. Len(msgs) : i = Len(b[to]) + k
    <3>1. i - Len(b[to]) \in 1 .. Len(msgs) /\ i = Len(b[to]) + (i - Len(b[to]))
      BY <1>3 DEF Longer
    <3> QED
      BY <3>1
  <2>2. i - Len(b[to]) = k
    BY <1>3, <2>1 DEF Longer
  <2>3. d[to][Len(b[to]) + k] = msgs[k]
    BY <2>1 DEF Longer
  <2> QED
    BY <1>3, <2>1, <2>2, <2>3
<1> QED
  BY <1>1, <1>2, <1>3

(* What r's messages in transit become.                                    *)
LEMMA PostCells ==
  ASSUME NEW r \in Requesters, NEW b, NEW d, NEW s, NEW to \in Actors, NEW msgs,
         Longer(b, d, to, msgs)
  PROVE  \A m : m \in Carried(d, s, r) <=>
                \/ m \in Carried(b, s, r)
                \/ to \in Carriers(r) /\ \E i \in OwnOf(msgs, r) : m = msgs[i]
<1>1. Carriers(r) \subseteq Actors
  BY DEF Carriers, Actors, Requesters
<1>5. \A a \in Actors : \A i \in 1 .. Len(d[a]) :
        \/ i \in 1 .. Len(b[a]) /\ d[a][i] = b[a][i]
        \/ /\ a = to
           /\ i - Len(b[to]) \in 1 .. Len(msgs)
           /\ d[a][i] = msgs[i - Len(b[to])]
  BY PostCell
<1>2. ASSUME NEW m \in Carried(d, s, r)
      PROVE  m \in Carried(b, s, r) \/
               (to \in Carriers(r) /\ \E i \in OwnOf(msgs, r) : m = msgs[i])
  <2>1. /\ OnBehalfOf(m, r)
        /\ m \in s \/ \E a \in Carriers(r) : \E i \in 1 .. Len(d[a]) : m = d[a][i]
    BY <1>2, CarriedIs
  <2>2. ASSUME NEW a \in Carriers(r), NEW i \in 1 .. Len(d[a]), m = d[a][i]
        PROVE  m \in Carried(b, s, r) \/
                 (to \in Carriers(r) /\ \E j \in OwnOf(msgs, r) : m = msgs[j])
    <3>1. CASE i \in 1 .. Len(b[a]) /\ d[a][i] = b[a][i]
      BY <2>1, <2>2, <3>1, CarriedIs
    <3>2. CASE /\ a = to
               /\ i - Len(b[to]) \in 1 .. Len(msgs)
               /\ d[a][i] = msgs[i - Len(b[to])]
      BY <2>1, <2>2, <3>2 DEF OwnOf
    <3>3. \/ i \in 1 .. Len(b[a]) /\ d[a][i] = b[a][i]
          \/ /\ a = to
             /\ i - Len(b[to]) \in 1 .. Len(msgs)
             /\ d[a][i] = msgs[i - Len(b[to])]
      BY <1>1, <1>5
    <3> QED
      BY <3>1, <3>2, <3>3
  <2>3. m \in s => m \in Carried(b, s, r)
    BY <2>1, CarriedIs
  <2> QED
    BY <2>1, <2>2, <2>3
<1>3. ASSUME NEW m \in Carried(b, s, r)
      PROVE  m \in Carried(d, s, r)
  <2>1. /\ OnBehalfOf(m, r)
        /\ m \in s \/ \E a \in Carriers(r) : \E i \in 1 .. Len(b[a]) : m = b[a][i]
    BY <1>3, CarriedIs
  <2>2. ASSUME NEW a \in Carriers(r), NEW i \in 1 .. Len(b[a])
        PROVE  i \in 1 .. Len(d[a]) /\ d[a][i] = b[a][i]
    <3>1. CASE a = to
      BY <3>1 DEF Longer
    <3>2. CASE a # to
      BY <1>1, <3>2 DEF Longer
    <3> QED
      BY <3>1, <3>2
  <2>3. m \in s \/ \E a \in Carriers(r) : \E i \in 1 .. Len(d[a]) : m = d[a][i]
    BY <2>1, <2>2
  <2> QED
    BY <2>1, <2>3, CarriedIs
<1>4. ASSUME to \in Carriers(r), NEW i \in OwnOf(msgs, r)
      PROVE  msgs[i] \in Carried(d, s, r)
  <2>1. i \in 1 .. Len(msgs) /\ OnBehalfOf(msgs[i], r)
    BY DEF OwnOf
  <2>2. Len(b[to]) + i \in 1 .. Len(d[to]) /\ msgs[i] = d[to][Len(b[to]) + i]
    BY <2>1 DEF Longer
  <2>3. \E a \in Carriers(r) : \E j \in 1 .. Len(d[a]) : msgs[i] = d[a][j]
    BY <1>4, <2>2
  <2> QED
    BY <2>1, <2>3, CarriedIs
<1> QED
  BY <1>2, <1>3, <1>4

(* Messages that clash neither with each other nor with what is under way  *)
(* may be posted.                                                          *)
LEMMA PostApart ==
  ASSUME NEW r \in Requesters, NEW b, NEW d, NEW s, NEW to \in Actors, NEW msgs,
         Longer(b, d, to, msgs), Apart(b, s, r),
         to \in Carriers(r) =>
           /\ \A i \in OwnOf(msgs, r), w \in Carried(b, s, r) : ~Clash(w, msgs[i])
           /\ \A i, j \in OwnOf(msgs, r) : Clash(msgs[i], msgs[j]) => i = j
  PROVE  Apart(d, s, r)
<1> DEFINE New(a, i) == /\ a = to
                        /\ i - Len(b[to]) \in OwnOf(msgs, r)
                        /\ d[a][i] = msgs[i - Len(b[to])]
           Old(a, i) == /\ i \in 1 .. Len(b[a])
                        /\ d[a][i] = b[a][i]
                        /\ d[a][i] \in Carried(b, s, r)
<1>1. Carriers(r) \subseteq Actors
  BY DEF Carriers, Actors, Requesters
<1>2. ASSUME NEW a \in Carriers(r), NEW i \in 1 .. Len(d[a]), OnBehalfOf(d[a][i], r)
      PROVE  Old(a, i) \/ New(a, i)
  <2>1. CASE i \in 1 .. Len(b[a]) /\ d[a][i] = b[a][i]
    BY <1>2, <2>1, CarriedIs
  <2>2. CASE /\ a = to
             /\ i - Len(b[to]) \in 1 .. Len(msgs)
             /\ d[a][i] = msgs[i - Len(b[to])]
    BY <1>2, <2>2 DEF OwnOf
  <2>3. \/ i \in 1 .. Len(b[a]) /\ d[a][i] = b[a][i]
        \/ /\ a = to
           /\ i - Len(b[to]) \in 1 .. Len(msgs)
           /\ d[a][i] = msgs[i - Len(b[to])]
    <3> a \in Actors
      BY <1>1
    <3> QED
      BY PostCell
  <2> QED
    BY <2>1, <2>2, <2>3
<1>3. \A m \in s : OnBehalfOf(m, r) => m \in Carried(b, s, r)
  BY CarriedIs
<1>4. ASSUME NEW a \in Carriers(r), NEW i \in 1 .. Len(d[a]), New(a, i),
             NEW w \in Carried(b, s, r)
      PROVE  ~Clash(d[a][i], w) /\ ~Clash(w, d[a][i])
  <2>1. PICK k \in OwnOf(msgs, r) : d[a][i] = msgs[k] /\ to \in Carriers(r)
    BY <1>4
  <2>2. ~Clash(w, msgs[k])
    BY <2>1
  <2> QED
    BY <2>1, <2>2, ClashCommutes
<1>5. ASSUME NEW a \in Carriers(r), NEW c \in Carriers(r),
             NEW i \in 1 .. Len(d[a]), NEW j \in 1 .. Len(d[c]),
             OnBehalfOf(d[a][i], r), OnBehalfOf(d[c][j], r), Clash(d[a][i], d[c][j])
      PROVE  a = c /\ i = j
  <2>1. CASE Old(a, i) /\ Old(c, j)
    BY <1>5, <2>1 DEF Apart
  <2>2. CASE New(a, i) /\ Old(c, j)
    <3>1. ~Clash(d[a][i], d[c][j])
      BY <1>4, <2>2
    <3> QED
      BY <1>5, <3>1
  <2>3. CASE Old(a, i) /\ New(c, j)
    <3>1. ~Clash(d[a][i], d[c][j])
      BY <1>4, <2>3
    <3> QED
      BY <1>5, <3>1
  <2>4. CASE New(a, i) /\ New(c, j)
    <3>1. a = to /\ c = to /\ i - Len(b[to]) = j - Len(b[to])
      BY <1>5, <2>4
    <3>2. i = j
      BY <3>1 DEF Longer
    <3> QED
      BY <3>1, <3>2
  <2> QED
    BY <1>2, <1>5, <2>1, <2>2, <2>3, <2>4
<1>6. ASSUME NEW a \in Carriers(r), NEW i \in 1 .. Len(d[a]), NEW m \in s,
             OnBehalfOf(d[a][i], r), OnBehalfOf(m, r)
      PROVE  ~Clash(d[a][i], m)
  <2>1. CASE Old(a, i)
    BY <1>6, <2>1 DEF Apart
  <2>2. CASE New(a, i)
    BY <1>3, <1>4, <1>6, <2>2
  <2> QED
    BY <1>2, <1>6, <2>1, <2>2
<1>7. \A m, n \in s :
       OnBehalfOf(m, r) /\ OnBehalfOf(n, r) /\ Clash(m, n) => m = n
  BY DEF Apart
<1> HIDE DEF New, Old
<1> QED
  BY <1>5, <1>6, <1>7 DEF Apart

-----------------------------------------------------------------------------
(* A goroutine starts to sleep, ...                                        *)
LEMMA SleepOwn ==
  ASSUME NEW r \in Requesters, NEW b, NEW s, NEW n, Apart(b, s, r), OnBehalfOf(n, r),
         \A w \in Carried(b, s, r) : ~Clash(w, n)
  PROVE  Apart(b, s \union {n}, r) /\ Carried(b, s \union {n}, r) = Carried(b, s, r) \cup {n}
<1>1. Carried(b, s \union {n}, r) = Carried(b, s, r) \cup {n}
  BY CarriedIs
<1>2. ASSUME NEW a \in Carriers(r), NEW i \in 1 .. Len(b[a]), NEW m \in s \union {n},
             OnBehalfOf(b[a][i], r), OnBehalfOf(m, r)
      PROVE  ~Clash(b[a][i], m)
  <2>1. b[a][i] \in Carried(b, s, r)
    BY <1>2, CarriedIs
  <2> QED
    BY <1>2, <2>1 DEF Apart
<1>3. ASSUME NEW m \in s \union {n}, NEW k \in s \union {n},
             OnBehalfOf(m, r), OnBehalfOf(k, r), Clash(m, k)
      PROVE  m = k
  <2>1. (m \in s => m \in Carried(b, s, r)) /\ (k \in s => k \in Carried(b, s, r))
    BY <1>3, CarriedIs
  <2> QED
    BY <1>3, <2>1, ClashCommutes DEF Apart
<1> QED
  BY <1>1, <1>2, <1>3 DEF Apart

(* ... and another one of another requester.                               *)
LEMMA SleepForeign ==
  ASSUME NEW r \in Requesters, NEW b, NEW s, NEW n, Apart(b, s, r), ~OnBehalfOf(n, r)
  PROVE  Apart(b, s \union {n}, r) /\ Carried(b, s \union {n}, r) = Carried(b, s, r)
<1>1. \A m : m \in Carried(b, s \union {n}, r) <=> m \in Carried(b, s, r)
  BY CarriedIs
<1> QED
  BY <1>1 DEF Apart, Carried

(* t is s without the goroutine that holds n.                              *)
WakesUp(s, t, n) == n \in s /\ t = s \ {n}

(* A goroutine wakes up: its message is on its way somewhere else.         *)
LEMMA Woken ==
  ASSUME NEW r \in Requesters, NEW b, NEW s, NEW t, NEW n, WakesUp(s, t, n),
         Apart(b, s, r)
  PROVE  /\ Apart(b, t, r)
         /\ OnBehalfOf(n, r) => /\ n \in Carried(b, s, r)
                                /\ Carried(b, t, r) = Carried(b, s, r) \ {n}
         /\ ~OnBehalfOf(n, r) => Carried(b, t, r) = Carried(b, s, r)
<1> n \in s /\ t = s \ {n}
  BY DEF WakesUp
<1>1. Apart(b, t, r)
  BY DEF Apart
<1>2. ASSUME OnBehalfOf(n, r)
      PROVE  n \in Carried(b, s, r) /\ n \notin Carried(b, t, r)
  <2>1. n \in Carried(b, s, r)
    BY <1>2, CarriedIs
  <2>2. \A a \in Carriers(r) : \A i \in 1 .. Len(b[a]) : b[a][i] # n
    BY <1>2, ClashesWithItself DEF Apart
  <2>3. n \notin Carried(b, t, r)
    BY <2>2, CarriedIs
  <2> QED
    BY <2>1, <2>3
<1>3. \A m : m # n => (m \in Carried(b, t, r) <=> m \in Carried(b, s, r))
  BY CarriedIs
<1>4. ~OnBehalfOf(n, r) => n \notin Carried(b, s, r) /\ n \notin Carried(b, t, r)
  BY CarriedIs
<1> QED
  BY <1>1, <1>2, <1>3, <1>4

-----------------------------------------------------------------------------
(* n may take the place of h: it clashes with nothing that h did not.      *)
Heir(h, n) == \A w : Clash(w, n) => Clash(w, h)

(* A handler takes a message of r and sends its heirs to where they are    *)
(* in transit again.                                                       *)
LEMMA ExchangeOwn ==
  ASSUME NEW r \in Requesters, BoxOK(box), NEW self \in Carriers(r), box[self] # <<>>,
         NEW to \in Carriers(r), NEW msgs \in Seq(Message),
         Apart(box, sleeping, r), OnBehalfOf(Msg(self), r),
         \A i \in OwnOf(msgs, r) : Heir(Msg(self), msgs[i]),
         \A i, j \in OwnOf(msgs, r) : Clash(msgs[i], msgs[j]) => i = j
  PROVE  /\ Apart(Post(Taken(self), to, msgs), sleeping, r)
         /\ Msg(self) \in Carried(box, sleeping, r)
         /\ Carried(Post(Taken(self), to, msgs), sleeping, r) =
              (Carried(box, sleeping, r) \ {Msg(self)}) \cup {msgs[i] : i \in OwnOf(msgs, r)}
<1> DEFINE h == Msg(self)
           d == Taken(self)
           e == Post(d, to, msgs)
<1>1. self \in Actors /\ to \in Actors
  BY DEF Carriers, Actors, Requesters
<1>2. Shorter(box, d, self) /\ h = box[self][1] /\ BoxOK(d)
  BY <1>1, TakenIsShorter, TakenOK
<1>3. Longer(d, e, to, msgs)
  BY <1>1, <1>2, PostIsLonger
<1> HIDE DEF d, e, h
<1>4. Apart(d, sleeping, r)
  BY <1>1, <1>2, TakeApart
<1>5. h \in Carried(box, sleeping, r) /\ Carried(d, sleeping, r) = Carried(box, sleeping, r) \ {h}
  <2>1. OnBehalfOf(h, r)
    BY DEF h
  <2> QED
    BY <1>2, <2>1, TakeOwn
<1>6. \A i \in OwnOf(msgs, r), w \in Carried(d, sleeping, r) : ~Clash(w, msgs[i])
  <2> SUFFICES ASSUME NEW i \in OwnOf(msgs, r), NEW w \in Carried(d, sleeping, r),
                      Clash(w, msgs[i])
               PROVE  FALSE
    OBVIOUS
  <2>1. Clash(w, h)
    BY DEF Heir, h
  <2>2. w \in Carried(box, sleeping, r) /\ w # h
    BY <1>5
  <2> QED
    BY <1>5, <2>1, <2>2, CarriedApart
<1>7. Apart(e, sleeping, r)
  BY <1>1, <1>3, <1>4, <1>6, PostApart
<1>8. Carried(e, sleeping, r) = Carried(d, sleeping, r) \cup {msgs[i] : i \in OwnOf(msgs, r)}
  <2>1. \A m : m \in Carried(e, sleeping, r) <=>
               \/ m \in Carried(d, sleeping, r)
               \/ to \in Carriers(r) /\ \E i \in OwnOf(msgs, r) : m = msgs[i]
    BY <1>1, <1>3, PostCells
  <2> QED
    BY <2>1
<1> QED
  BY <1>5, <1>7, <1>8 DEF h, d, e

(* A handler takes a message of r and sends nothing on behalf of r.        *)
LEMMA DropOwn ==
  ASSUME NEW r \in Requesters, BoxOK(box), NEW self \in Carriers(r), box[self] # <<>>,
         Apart(box, sleeping, r), OnBehalfOf(Msg(self), r)
  PROVE  /\ Apart(Taken(self), sleeping, r)
         /\ Msg(self) \in Carried(box, sleeping, r)
         /\ Carried(Taken(self), sleeping, r) = Carried(box, sleeping, r) \ {Msg(self)}
<1>1. self \in Actors
  BY DEF Carriers, Actors, Requesters
<1>2. Shorter(box, Taken(self), self) /\ Msg(self) = box[self][1]
  BY <1>1, TakenIsShorter
<1> DEFINE h == Msg(self)
           d == Taken(self)
<1>3. OnBehalfOf(h, r) /\ h = box[self][1] /\ Shorter(box, d, self)
  BY <1>2
<1> HIDE DEF h, d
<1>4. h \in Carried(box, sleeping, r) /\ Carried(d, sleeping, r) = Carried(box, sleeping, r) \ {h}
  BY <1>3, TakeOwn
<1>5. Apart(d, sleeping, r)
  BY <1>1, <1>3, TakeApart
<1> QED
  BY <1>4, <1>5 DEF h, d

(* A handler takes a message that is not r's.                              *)
LEMMA DropForeign ==
  ASSUME NEW r \in Requesters, BoxOK(box), NEW self \in Actors, box[self] # <<>>,
         Apart(box, sleeping, r), self \notin Carriers(r) \/ ~OnBehalfOf(Msg(self), r)
  PROVE  /\ Apart(Taken(self), sleeping, r)
         /\ Carried(Taken(self), sleeping, r) = Carried(box, sleeping, r)
<1>1. Shorter(box, Taken(self), self) /\ Msg(self) = box[self][1]
  BY TakenIsShorter
<1>2. self \notin Carriers(r) \/ ~OnBehalfOf(box[self][1], r)
  BY <1>1
<1> QED
  BY <1>1, <1>2, TakeApart, TakeForeign

(* Something is sent that is not r's, or to where it is not in transit.    *)
LEMMA PostForeign ==
  ASSUME NEW r \in Requesters, NEW b, BoxOK(b), NEW to \in Actors, NEW msgs \in Seq(Message),
         NEW s, Apart(b, s, r),
         to \notin Carriers(r) \/ \A i \in 1 .. Len(msgs) : ~OnBehalfOf(msgs[i], r)
  PROVE  /\ Apart(Post(b, to, msgs), s, r)
         /\ Carried(Post(b, to, msgs), s, r) = Carried(b, s, r)
<1>1. Longer(b, Post(b, to, msgs), to, msgs)
  BY PostIsLonger
<1>2. to \in Carriers(r) => OwnOf(msgs, r) = {}
  BY DEF OwnOf
<1> DEFINE e == Post(b, to, msgs)
<1> HIDE DEF e
<1>3. Longer(b, e, to, msgs)
  BY <1>1 DEF e
<1>4. Apart(e, s, r)
  BY <1>2, <1>3, PostApart
<1>5. Carried(e, s, r) = Carried(b, s, r)
  <2>1. \A m : m \in Carried(e, s, r) <=> m \in Carried(b, s, r)
    BY <1>2, <1>3, PostCells
  <2>2. \A S, T : (\A m : m \in S <=> m \in T) => S = T
    OBVIOUS
  <2> QED
    BY <2>1, <2>2
<1> QED
  BY <1>4, <1>5 DEF e

(* One message of r is sent that clashes with nothing in transit.          *)
LEMMA PostOwn ==
  ASSUME NEW r \in Requesters, NEW b, BoxOK(b), NEW to \in Carriers(r), NEW n \in Message,
         NEW s, Apart(b, s, r), OnBehalfOf(n, r),
         \A w \in Carried(b, s, r) : ~Clash(w, n)
  PROVE  /\ Apart(Post(b, to, <<n>>), s, r)
         /\ Carried(Post(b, to, <<n>>), s, r) = Carried(b, s, r) \cup {n}
<1>1. to \in Actors
  BY DEF Carriers, Actors, Requesters
<1>2. PICK q \in Seq(Message) : q = <<n>>
  BY OneMessage
<1> DEFINE e == Post(b, to, q)
<1>3. Longer(b, e, to, q)
  BY <1>1, PostIsLonger
<1>4. OwnOf(q, r) = {1} /\ q[1] = n
  BY <1>2 DEF OwnOf
<1> HIDE DEF e
<1>5. Apart(e, s, r)
  BY <1>1, <1>3, <1>4, PostApart
<1>6. \A m : m \in Carried(e, s, r) <=> m \in Carried(b, s, r) \/ m = n
  <2>1. \A m : m \in Carried(e, s, r) <=>
               \/ m \in Carried(b, s, r)
               \/ to \in Carriers(r) /\ \E i \in OwnOf(q, r) : m = q[i]
    BY <1>1, <1>3, PostCells
  <2> QED
    BY <1>4, <2>1
<1>7. Carried(e, s, r) = Carried(b, s, r) \cup {n}
  BY <1>6
<1> QED
  BY <1>2, <1>5, <1>7 DEF e
===============================================================================
