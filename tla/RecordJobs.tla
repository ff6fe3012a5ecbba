------------------------------ MODULE RecordJobs ------------------------------
(***************************************************************************)
(* What the record service promises of its jobs, without mailboxes,        *)
(* goroutines or storage: a job is accepted while there is a free slot,    *)
(* runs, completes or fails once and for all, and is forgotten only after  *)
(* that, unless the process ends.                                          *)
(***************************************************************************)
EXTENDS Naturals, FiniteSets

CONSTANTS
  Jobs,
  Slots          \* how many jobs may be active at a time

VARIABLE state   \* the state of every job

Active   == {j \in Jobs : state[j] \in {"accepted", "running"}}
Finished == {j \in Jobs : state[j] \in {"completed", "failed"}}

Init == state = [j \in Jobs |-> "unused"]

(* Some finished jobs are forgotten, and some jobs, if any, are moved on.  *)
Moves(old, moved, to) ==
  /\ old \subseteq Finished
  /\ state' = [j \in Jobs |-> IF j \in moved THEN to
                              ELSE IF j \in old THEN "gone" ELSE state[j]]

Forget(old) == Moves(old, {}, "gone")

Accept(j, old) ==
  /\ state[j] = "unused"
  /\ Cardinality(Active) < Slots
  /\ Moves(old, {j}, "accepted")

Run(j) ==
  /\ state[j] = "accepted"
  /\ Moves({}, {j}, "running")

Finish(j) ==
  /\ state[j] = "running"
  /\ \/ Moves({}, {j}, "completed")
     \/ Moves({}, {j}, "failed")

(* The process ends: nothing that was accepted is known any more.          *)
LoseAll == state' = [j \in Jobs |-> IF state[j] = "unused" THEN "unused" ELSE "gone"]

Next ==
  \/ \E old \in SUBSET Finished : Forget(old) \/ \E j \in Jobs : Accept(j, old)
  \/ \E j \in Jobs : Run(j) \/ Finish(j)
  \/ LoseAll

Spec == Init /\ [][Next]_state
===============================================================================
