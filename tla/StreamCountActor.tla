--------------------------- MODULE StreamCountActor ---------------------------
(***************************************************************************)
(* actor/StreamCountActor.go: counts the streams that have a producer, with *)
(* the same double check as the cleaner but without removing anything.  One *)
(* failed check aborts the whole count; the checks that are still under way *)
(* then come back to a run that is over, or to a later run.                 *)
(***************************************************************************)
EXTENDS Go2RTCActor

VARIABLE count     \* the fields of the StreamCountActor struct; `pending' is
                   \* written there and never read

CountInit ==
  count = [running |-> FALSE, outstanding |-> 0, pending |-> {},
           triggeredAt |-> ZeroTime, aliveCount |-> 0]

-----------------------------------------------------------------------------
(* Mutant: answers to an aborted run are taken for answers to this one.    *)
CountAccepts_AnyRun(m) ==
  CASE m.type = "CountAliveStreamsStarted" -> ~count.running
    [] m.type \in {"StreamListFetched", "StreamHealthChecked"} ->
         count.running /\ m.requestedBy = "count"

(* Mutant: answers to the cleaner are taken for answers to this actor.     *)
CountAccepts_AnyRequester(m) ==
  CASE m.type = "CountAliveStreamsStarted" -> ~count.running
    [] m.type \in {"StreamListFetched", "StreamHealthChecked"} ->
         count.running /\ m.triggeredAt = count.triggeredAt

CountAccepts(m) ==
  CASE m.type = "CountAliveStreamsStarted" -> ~count.running
    [] m.type \in {"StreamListFetched", "StreamHealthChecked"} ->
         /\ count.running
         /\ m.requestedBy = "count"
         /\ m.triggeredAt = count.triggeredAt

CountHandles(type) == Gets("count", type) /\ CountAccepts(Msg("count"))

CountIgnores ==
  /\ box["count"] # <<>>
  /\ ~CountAccepts(Msg("count"))
  /\ box' = Taken("count")
  /\ UNCHANGED <<sleeping, count, status>>

(* finish, for the struct value c that the handler has reached.            *)
FinishCount(c) ==
  /\ count' = [c EXCEPT !.running = FALSE]
  /\ box' = Post(Taken("count"), "master",
                 <<AliveStreamCountCalculated(c.aliveCount, FALSE)>>)


FinishCountWithError ==
  /\ count' = [count EXCEPT !.running = FALSE, !.pending = {}, !.outstanding = 0]
  /\ box' = Post(Taken("count"), "master", <<AliveStreamCountCalculated(0, TRUE)>>)

(* markStreamCompleted *)
CompleteCheck(c) ==
  LET left == IF c.outstanding > 0 THEN c.outstanding - 1 ELSE 0
      settled == [c EXCEPT !.outstanding = left]
  IN IF left = 0 /\ c.running
     THEN FinishCount(settled)
     ELSE count' = settled /\ box' = Taken("count")

-----------------------------------------------------------------------------
(* Mutant: the alive streams of the previous run are not forgotten.        *)
CountBegins_KeepsAlive ==
  /\ CountHandles("CountAliveStreamsStarted")
  /\ LET t == Msg("count").triggeredAt
     IN /\ count' = [count EXCEPT !.running = TRUE, !.outstanding = 0,
                                  !.pending = {}, !.triggeredAt = t]
        /\ box' = Post(Taken("count"), "go2rtc", <<FetchStreamList(t, "count")>>)
  /\ UNCHANGED <<sleeping, status>>

CountBegins ==
  /\ CountHandles("CountAliveStreamsStarted")
  /\ LET t == Msg("count").triggeredAt
     IN /\ count' = [running |-> TRUE, outstanding |-> 0, pending |-> {},
                     triggeredAt |-> t, aliveCount |-> 0]
        /\ box' = Post(Taken("count"), "go2rtc", <<FetchStreamList(t, "count")>>)
  /\ UNCHANGED <<sleeping, status>>

CountListFailed ==
  /\ CountHandles("StreamListFetched")
  /\ Msg("count").error
  /\ FinishCountWithError
  /\ UNCHANGED <<sleeping, status>>

CountListEmpty ==
  /\ CountHandles("StreamListFetched")
  /\ ~Msg("count").error
  /\ Msg("count").streams = <<>>
  /\ FinishCount(count)
  /\ UNCHANGED <<sleeping, status>>

CountListReceived ==
  /\ CountHandles("StreamListFetched")
  /\ LET m == Msg("count")
     IN /\ ~m.error
        /\ m.streams # <<>>
        /\ count' = [count EXCEPT !.outstanding = Len(m.streams)]
        /\ box' = Post(Taken("count"), "go2rtc", FirstChecks(m))
  /\ UNCHANGED <<sleeping, status>>

(* Mutant: a failed check is only not counted, as in the cleaner.          *)
CountHealthFailed_Continues ==
  /\ CountHandles("StreamHealthChecked")
  /\ Msg("count").error
  /\ CompleteCheck([count EXCEPT !.pending = @ \ {Msg("count").stream}])
  /\ UNCHANGED <<sleeping, status>>

(* One failed check aborts the run.                                        *)
CountHealthFailed ==
  /\ CountHandles("StreamHealthChecked")
  /\ Msg("count").error
  /\ FinishCountWithError
  /\ UNCHANGED <<sleeping, status>>

CountHealthAlive ==
  /\ CountHandles("StreamHealthChecked")
  /\ LET m == Msg("count")
     IN /\ ~m.error
        /\ m.hasProducer
        /\ CompleteCheck([count EXCEPT !.pending = @ \ {m.stream},
                                       !.aliveCount = @ + 1])
  /\ UNCHANGED <<sleeping, status>>

CountMissing(n) ==
  /\ CountHandles("StreamHealthChecked")
  /\ LET m == Msg("count") IN ~m.error /\ ~m.hasProducer /\ m.attempt = n

(* First attempt: a goroutine starts to wait for the second one.           *)
CountSuspects ==
  /\ CountMissing(1)
  /\ LET m == Msg("count")
     IN /\ count' = [count EXCEPT !.pending = @ \union {m.stream}]
        /\ sleeping' = sleeping \union {SecondCheck(m)}
  /\ box' = Taken("count")
  /\ UNCHANGED status

(* Mutant: a stream that is dead for good is not completed.                *)
CountConfirmsDead_Forgets ==
  /\ CountMissing(2)
  /\ count' = [count EXCEPT !.pending = @ \ {Msg("count").stream}]
  /\ box' = Taken("count")
  /\ UNCHANGED <<sleeping, status>>

(* Second attempt: the stream is settled and not counted.                  *)
CountConfirmsDead ==
  /\ CountMissing(2)
  /\ CompleteCheck([count EXCEPT !.pending = @ \ {Msg("count").stream}])
  /\ UNCHANGED <<sleeping, status>>

CountNext ==
  \/ CountIgnores
  \/ CountBegins
  \/ CountListFailed
  \/ CountListEmpty
  \/ CountListReceived
  \/ CountHealthFailed
  \/ CountHealthAlive
  \/ CountSuspects
  \/ CountConfirmsDead
===============================================================================
