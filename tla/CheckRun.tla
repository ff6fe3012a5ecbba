------------------------------- MODULE CheckRun -------------------------------
(***************************************************************************)
(* What one run of the double check promises, without messages, mailboxes, *)
(* goroutines or stamps.  A run lists the streams, opens one entry for     *)
(* each, moves every entry through its checks in order and is over when    *)
(* the last entry is closed.  Both StreamCleanerActor (which removes) and  *)
(* StreamCountActor (which aborts on a failed check) implement it.         *)
(***************************************************************************)
EXTENDS Naturals, FiniteSets

CONSTANTS
  MaxEntries,    \* the length of the longest list
  Removes,       \* a stream that fails both checks is removed
  Aborts         \* a failed check ends the whole run

ASSUME CheckRunAssumption ==
  /\ MaxEntries \in Nat
  /\ Removes \in BOOLEAN
  /\ Aborts \in BOOLEAN

VARIABLES
  phase,         \* what the run is doing
  open,          \* the stage of every entry that is not closed yet
  alive,         \* entries closed because a producer was seen
  removed        \* entries closed because the stream was removed

runVars == <<phase, open, alive, removed>>

Stages == {"first", "second", "removal"}

NoEntry == [e \in {} |-> "first"]

Init ==
  /\ phase = "idle"
  /\ open = NoEntry
  /\ alive = 0
  /\ removed = 0

-----------------------------------------------------------------------------
Begin ==
  /\ phase = "idle"
  /\ phase' = "listing"
  /\ alive' = 0
  /\ removed' = 0
  /\ UNCHANGED open

(* There is no list: the run is over.                                      *)
GiveUp ==
  /\ phase = "listing"
  /\ phase' = "idle"
  /\ UNCHANGED <<open, alive, removed>>

(* Mutant: entries are numbered from zero.                                 *)
List_FromZero(n) ==
  /\ phase = "listing"
  /\ phase' = IF n = 0 THEN "idle" ELSE "checking"
  /\ open' = [e \in 0 .. n |-> "first"]
  /\ UNCHANGED <<alive, removed>>

List(n) ==
  /\ phase = "listing"
  /\ phase' = IF n = 0 THEN "idle" ELSE "checking"
  /\ open' = [e \in 1 .. n |-> "first"]
  /\ UNCHANGED <<alive, removed>>

(* Mutant: the end of the run is not noticed.                              *)
Close_NeverEnds(e) ==
  /\ open' = [f \in DOMAIN open \ {e} |-> open[f]]
  /\ UNCHANGED phase

(* Entry e is accounted for, and the run is over if it was the last one.   *)
Close(e) ==
  /\ open' = [f \in DOMAIN open \ {e} |-> open[f]]
  /\ phase' = IF DOMAIN open = {e} THEN "idle" ELSE phase

(* Mutant: the entry is counted and stays open.                            *)
CloseAlive_StaysOpen(e) ==
  /\ open[e] \in {"first", "second"}
  /\ alive' = alive + 1
  /\ UNCHANGED <<phase, open, removed>>

CloseAlive(e) ==
  /\ open[e] \in {"first", "second"}
  /\ Close(e)
  /\ alive' = alive + 1
  /\ UNCHANGED removed

CloseRemoved(e) ==
  /\ open[e] = "removal"
  /\ Close(e)
  /\ removed' = removed + 1
  /\ UNCHANGED alive

(* A failed check or removal, a stream that is gone, or one that another   *)
(* entry has dealt with.                                                   *)
CloseUncounted(e) ==
  /\ Close(e)
  /\ UNCHANGED <<alive, removed>>

(* A first check without producer asks for a second one, ...               *)
Confirm(e) ==
  /\ open[e] = "first"
  /\ open' = [open EXCEPT ![e] = "second"]
  /\ UNCHANGED <<phase, alive, removed>>

(* ... and only a second one for the removal.                              *)
Condemn(e) ==
  /\ Removes
  /\ open[e] = "second"
  /\ open' = [open EXCEPT ![e] = "removal"]
  /\ UNCHANGED <<phase, alive, removed>>

Abort ==
  /\ Aborts
  /\ phase = "checking"
  /\ phase' = "idle"
  /\ open' = NoEntry
  /\ UNCHANGED <<alive, removed>>

Next ==
  \/ Begin
  \/ GiveUp
  \/ \E n \in 0 .. MaxEntries : List(n)
  \/ \E e \in DOMAIN open :
       \/ CloseAlive(e)
       \/ CloseRemoved(e)
       \/ CloseUncounted(e)
       \/ Confirm(e)
       \/ Condemn(e)
  \/ Abort

Spec == Init /\ [][Next]_runVars

-----------------------------------------------------------------------------
(* Type invariant.  No list is longer than MaxEntries, so neither counter  *)
(* gets beyond it.                                                         *)
TypeOK ==
  /\ phase \in {"idle", "listing", "checking"}
  /\ DOMAIN open \subseteq 1 .. MaxEntries
  /\ open \in [DOMAIN open -> Stages]
  /\ alive \in 0 .. MaxEntries
  /\ removed \in 0 .. MaxEntries

(* The run is busy with checks exactly while entries are open: when it is  *)
(* over nothing is left to do, and it is never busy with nothing.          *)
BusyIffOpen == phase = "checking" <=> DOMAIN open # {}

===============================================================================
