----------------------------- MODULE ManagerAudit -----------------------------
(***************************************************************************)
(* Manager with a history variable: what go2rtc answered to the checks and *)
(* removals of the current run of each requester.  The properties compare  *)
(* what the actors do and report with what was really observed.            *)
(***************************************************************************)
EXTENDS Manager

VARIABLE audit

auditVars == <<vars, audit>>

(* missed[s]  the attempts that found no producer for s                    *)
(* alive      the entries for which a check found a producer               *)
(* failed     the entries for which a check failed                         *)
(* removals   how often the removal of s was asked for                     *)
(* deleted    the streams that go2rtc deleted                              *)
NewAudit ==
  [missed |-> [s \in Streams |-> {}], alive |-> {}, failed |-> {},
   removals |-> [s \in Streams |-> 0], deleted |-> {}]

LastPosted(a) == box'[a][Len(box'[a])]

(* A check that go2rtc has answered in this step.                          *)
CheckObserved(m, seen) ==
  IF LastPosted("master").error
  THEN [seen EXCEPT !.failed = @ \union {m.entry}]
  ELSE IF LastPosted("master").hasProducer
  THEN [seen EXCEPT !.alive = @ \union {m.entry}]
  ELSE [seen EXCEPT !.missed[m.stream] = @ \union {m.attempt}]

RemovalObserved(m, seen) ==
  [seen EXCEPT !.removals[m.stream] = @ + 1,
               !.deleted = @ \union {s \in {m.stream} : status'[s] # status[s]}]

Observed(m) ==
  IF m.type = "CheckStreamHealth"
  THEN LET actor == IF m.requestedBy = "cleaner" THEN cleaner ELSE count
       IN IF actor.triggeredAt = m.triggeredAt
          THEN [audit EXCEPT ![m.requestedBy] = CheckObserved(m, @)] ELSE audit
  ELSE IF m.type = "RemoveStream"
  THEN [audit EXCEPT !["cleaner"] = RemovalObserved(m, @)]
  ELSE audit

AuditInit == Init /\ audit = [r \in Requesters |-> NewAudit]

AuditStep ==
  audit' = IF Len(box'["go2rtc"]) < Len(box["go2rtc"]) THEN Observed(Msg("go2rtc"))
           ELSE [audit EXCEPT
                  !["cleaner"] = IF cleaner'.running /\ ~cleaner.running
                                 THEN NewAudit ELSE @,
                  !["count"]   = IF count'.running /\ ~count.running
                                 THEN NewAudit ELSE @]

AuditNext == Next /\ AuditStep

AuditSpec == AuditInit /\ [][AuditNext]_auditVars

-----------------------------------------------------------------------------
(* A stream is removed only if two different checks of the running cycle   *)
(* found no producer for it (the double check of the README).              *)
RemovedAfterTwoMisses ==
  \A s \in Streams :
    audit["cleaner"].removals[s] > 0 => audit["cleaner"].missed[s] = Attempts

(* A cycle asks go2rtc at most once to remove a stream, even if the file   *)
(* lists the stream twice.                                                 *)
OneRemovalPerCycle == \A s \in Streams : audit["cleaner"].removals[s] <= 1

(* The cycle ends with a report, not because the list could not be had.    *)
CycleReports ==
  /\ cleaner.running /\ ~cleaner'.running
  /\ box'["master"] # box["master"]

(* The report of a cycle says how many entries of the list were seen with  *)
(* a producer, and never more removals than streams were deleted.          *)
ReportIsWhatWasSeen ==
  [][CycleReports =>
       LET report == LastPosted("master")
       IN /\ report.aliveStreams = Cardinality(audit["cleaner"].alive)
          /\ report.removedStreams <= Cardinality(audit["cleaner"].deleted)]_auditVars

(* A count is published only when no check of that run failed, and it is   *)
(* the number of entries that this run, not an earlier one, saw alive.     *)
CountIsComplete ==
  [][count.running /\ ~count'.running /\ ~LastPosted("master").error =>
       /\ audit["count"].failed = {}
       /\ LastPosted("master").aliveStreams = Cardinality(audit["count"].alive)]_auditVars

(* README: a cleanup that really deletes a stream writes the number of     *)
(* alive streams to Redis at once.  Only a report that counts the deletion *)
(* makes the master do that.                                               *)
DeletionIsPublished ==
  [][CycleReports /\ audit["cleaner"].deleted # {} =>
       LastPosted("master").removedStreams > 0]_auditVars

(* README: what a cleanup that deleted a stream writes to Redis is the     *)
(* number of alive streams.  Stated for cameras that stay as they are and  *)
(* a file that lists all of them.                                          *)
CleanupPublishesAliveCount ==
  [][CycleReports /\ LastPosted("master").removedStreams > 0 =>
       LastPosted("master").aliveStreams = Cardinality(Live)]_auditVars
=============================================================================
