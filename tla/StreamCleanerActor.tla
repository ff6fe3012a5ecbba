-------------------------- MODULE StreamCleanerActor --------------------------
(***************************************************************************)
(* actor/StreamCleanerActor.go: one cleanup cycle at a time.  Every stream *)
(* of the fetched list is checked once; a stream without producer is       *)
(* checked again after the confirmation delay and, if it still has none,   *)
(* removed.  The cycle ends when every entry of the list is accounted for. *)
(***************************************************************************)
EXTENDS Go2RTCActor

VARIABLE cleaner   \* the fields of the StreamCleanerActor struct

CleanerInit ==
  cleaner = [running |-> FALSE, outstanding |-> 0, pending |-> {},
             triggeredAt |-> ZeroTime, aliveCount |-> 0, removedCount |-> 0]

-----------------------------------------------------------------------------
(* Mutant: answers to the count actor are taken for answers to this one.   *)
CleanerAccepts_AnyRequester(m) ==
  CASE m.type = "CleanupCycleStarted" -> ~cleaner.running
    [] m.type \in {"StreamListFetched", "StreamHealthChecked", "StreamRemovalCompleted"} ->
         cleaner.running /\ m.triggeredAt = cleaner.triggeredAt

(* The guards at the head of the four cases of Receive.                    *)
CleanerAccepts(m) ==
  CASE m.type = "CleanupCycleStarted" -> ~cleaner.running
    [] m.type \in {"StreamListFetched", "StreamHealthChecked"} ->
         /\ cleaner.running
         /\ m.requestedBy = "cleaner"
         /\ m.triggeredAt = cleaner.triggeredAt
    [] m.type = "StreamRemovalCompleted" ->
         /\ cleaner.running
         /\ m.triggeredAt = cleaner.triggeredAt

CleanerHandles(type) == Gets("cleaner", type) /\ CleanerAccepts(Msg("cleaner"))

CleanerIgnores ==
  /\ box["cleaner"] # <<>>
  /\ ~CleanerAccepts(Msg("cleaner"))
  /\ box' = Taken("cleaner")
  /\ UNCHANGED <<sleeping, cleaner, status>>

(* markStreamCompleted and finishCycleIfDone, for the struct value c that  *)
(* the handler has reached: one entry less, and the report if it was the   *)
(* last one.                                                               *)
CompleteStream(c) ==
  LET left == IF c.outstanding > 0 THEN c.outstanding - 1 ELSE 0
      done == left = 0 /\ c.running
  IN /\ cleaner' = [c EXCEPT !.outstanding = left, !.running = c.running /\ ~done]
     /\ box' = IF done
               THEN Post(Taken("cleaner"), "master",
                         <<CleanupCycleFinished(c.aliveCount, c.removedCount)>>)
               ELSE Taken("cleaner")

-----------------------------------------------------------------------------
(* Mutant: the alive streams of the previous cycle are not forgotten.      *)
CleanerBegins_KeepsAlive ==
  /\ CleanerHandles("CleanupCycleStarted")
  /\ LET t == Msg("cleaner").triggeredAt
     IN /\ cleaner' = [cleaner EXCEPT !.running = TRUE, !.outstanding = 0,
                                      !.pending = {}, !.triggeredAt = t,
                                      !.removedCount = 0]
        /\ box' = Post(Taken("cleaner"), "go2rtc", <<FetchStreamList(t, "cleaner")>>)
  /\ UNCHANGED <<sleeping, status>>

CleanerBegins ==
  /\ CleanerHandles("CleanupCycleStarted")
  /\ LET t == Msg("cleaner").triggeredAt
     IN /\ cleaner' = [running |-> TRUE, outstanding |-> 0, pending |-> {},
                       triggeredAt |-> t, aliveCount |-> 0, removedCount |-> 0]
        /\ box' = Post(Taken("cleaner"), "go2rtc", <<FetchStreamList(t, "cleaner")>>)
  /\ UNCHANGED <<sleeping, status>>

(* The list could not be fetched: the cycle is dropped without a report.   *)
CleanerListFailed ==
  /\ CleanerHandles("StreamListFetched")
  /\ Msg("cleaner").error
  /\ cleaner' = [cleaner EXCEPT !.running = FALSE, !.outstanding = 0]
  /\ box' = Taken("cleaner")
  /\ UNCHANGED <<sleeping, status>>

CleanerListEmpty ==
  /\ CleanerHandles("StreamListFetched")
  /\ ~Msg("cleaner").error
  /\ Msg("cleaner").streams = <<>>
  /\ cleaner' = [cleaner EXCEPT !.running = FALSE, !.outstanding = 0]
  /\ box' = Post(Taken("cleaner"), "master", <<CleanupCycleFinished(0, 0)>>)
  /\ UNCHANGED <<sleeping, status>>

CleanerListReceived ==
  /\ CleanerHandles("StreamListFetched")
  /\ LET m == Msg("cleaner")
     IN /\ ~m.error
        /\ m.streams # <<>>
        /\ cleaner' = [cleaner EXCEPT !.outstanding = Len(m.streams)]
        /\ box' = Post(Taken("cleaner"), "go2rtc", FirstChecks(m))
  /\ UNCHANGED <<sleeping, status>>

(* Mutant: a failed check does not complete its stream.                    *)
CleanerHealthFailed_Forgets ==
  /\ CleanerHandles("StreamHealthChecked")
  /\ LET m == Msg("cleaner")
     IN /\ m.error
        /\ cleaner' = [cleaner EXCEPT !.pending = @ \ {m.stream}]
  /\ box' = Taken("cleaner")
  /\ UNCHANGED <<sleeping, status>>

CleanerHealthFailed ==
  /\ CleanerHandles("StreamHealthChecked")
  /\ LET m == Msg("cleaner")
     IN /\ m.error
        /\ CompleteStream([cleaner EXCEPT !.pending = @ \ {m.stream}])
  /\ UNCHANGED <<sleeping, status>>

CleanerHealthAlive ==
  /\ CleanerHandles("StreamHealthChecked")
  /\ LET m == Msg("cleaner")
     IN /\ ~m.error
        /\ m.hasProducer
        /\ CompleteStream([cleaner EXCEPT !.pending = @ \ {m.stream},
                                          !.aliveCount = @ + 1])
  /\ UNCHANGED <<sleeping, status>>

(* Mutant: the attempt is not looked at.                                   *)
CleanerMissing_AnyAttempt(n) ==
  /\ CleanerHandles("StreamHealthChecked")
  /\ LET m == Msg("cleaner") IN ~m.error /\ ~m.hasProducer

CleanerMissing(n) ==
  /\ CleanerHandles("StreamHealthChecked")
  /\ LET m == Msg("cleaner") IN ~m.error /\ ~m.hasProducer /\ m.attempt = n

(* Mutant: the first miss already completes the stream.                    *)
CleanerSuspects_Completes ==
  /\ CleanerMissing(1)
  /\ LET m == Msg("cleaner")
     IN /\ CompleteStream([cleaner EXCEPT !.pending = @ \union {m.stream}])
        /\ sleeping' = sleeping \union {SecondCheck(m)}
  /\ UNCHANGED status

(* First attempt: the stream is suspected and a goroutine starts to wait.  *)
CleanerSuspects ==
  /\ CleanerMissing(1)
  /\ LET m == Msg("cleaner")
     IN /\ cleaner' = [cleaner EXCEPT !.pending = @ \union {m.stream}]
        /\ sleeping' = sleeping \union {SecondCheck(m)}
  /\ box' = Taken("cleaner")
  /\ UNCHANGED status

(* Mutant: the stream stays suspected when its removal is requested.       *)
CleanerRemoves_StaysSuspected ==
  /\ CleanerMissing(2)
  /\ LET m == Msg("cleaner")
     IN /\ m.stream \in cleaner.pending
        /\ box' = Post(Taken("cleaner"), "go2rtc", <<RemoveStream(m)>>)
  /\ UNCHANGED <<sleeping, cleaner, status>>

(* Second attempt: a stream that is still suspected is removed.            *)
CleanerRemoves ==
  /\ CleanerMissing(2)
  /\ LET m == Msg("cleaner")
     IN /\ m.stream \in cleaner.pending
        /\ cleaner' = [cleaner EXCEPT !.pending = @ \ {m.stream}]
        /\ box' = Post(Taken("cleaner"), "go2rtc", <<RemoveStream(m)>>)
  /\ UNCHANGED <<sleeping, status>>

(* Mutant: the second entry of a settled name is not completed.            *)
CleanerSkips_Forgets ==
  /\ CleanerMissing(2)
  /\ Msg("cleaner").stream \notin cleaner.pending
  /\ box' = Taken("cleaner")
  /\ UNCHANGED <<sleeping, cleaner, status>>

(* Another entry of the list with the same name has settled the stream.    *)
CleanerSkips ==
  /\ CleanerMissing(2)
  /\ Msg("cleaner").stream \notin cleaner.pending
  /\ CompleteStream(cleaner)
  /\ UNCHANGED <<sleeping, status>>

(* Mutant: failed removals and streams already absent count as removed.    *)
CleanerRemovalCompleted_CountsAll ==
  /\ CleanerHandles("StreamRemovalCompleted")
  /\ CompleteStream([cleaner EXCEPT !.removedCount = @ + 1])
  /\ UNCHANGED <<sleeping, status>>

CleanerRemovalCompleted ==
  /\ CleanerHandles("StreamRemovalCompleted")
  /\ LET m == Msg("cleaner")
     IN CompleteStream(IF ~m.error /\ m.removed
                       THEN [cleaner EXCEPT !.removedCount = @ + 1] ELSE cleaner)
  /\ UNCHANGED <<sleeping, status>>

CleanerNext ==
  \/ CleanerIgnores
  \/ CleanerBegins
  \/ CleanerListFailed
  \/ CleanerListEmpty
  \/ CleanerListReceived
  \/ CleanerHealthFailed
  \/ CleanerHealthAlive
  \/ CleanerSuspects
  \/ CleanerRemoves
  \/ CleanerSkips
  \/ CleanerRemovalCompleted
===============================================================================
