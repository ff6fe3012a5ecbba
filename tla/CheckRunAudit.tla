----------------------------- MODULE CheckRunAudit -----------------------------
(* CheckRun with a history variable: the length of the list of the run in  *)
(* progress, or of the last one.  The run itself keeps no more of its list *)
(* than the entries that are still open.                                   *)
EXTENDS CheckRun

VARIABLE listed     \* the length of the list, 0 while there is none

auditVars == <<runVars, listed>>

AuditInit == Init /\ listed = 0

AuditNext ==
  \/ Begin /\ listed' = 0
  \/ \E n \in 0 .. MaxEntries : List(n) /\ listed' = n
  \/ /\ UNCHANGED listed
     /\ \/ GiveUp
        \/ \E e \in DOMAIN open :
             \/ CloseAlive(e) \/ CloseRemoved(e) \/ CloseUncounted(e)
             \/ Confirm(e) \/ Condemn(e)
        \/ Abort

AuditSpec == AuditInit /\ [][AuditNext]_auditVars

-----------------------------------------------------------------------------
(* No entry is counted twice: what a run reports as alive and as removed,  *)
(* together with what is still open, never exceeds its own list, however   *)
(* much longer other lists are.                                            *)
NoEntryCountedTwice ==
  alive + removed + Cardinality(DOMAIN open) <= listed

===============================================================================
