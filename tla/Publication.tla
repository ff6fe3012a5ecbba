----------------------------- MODULE Publication -----------------------------
(***************************************************************************)
(* What the manager promises of the numbers it publishes, whatever actors, *)
(* mailboxes and messages carry them: runs count alive streams one by one, *)
(* and when one ends its number joins the line of those on their way.  A   *)
(* number may be withdrawn or lost; otherwise they are written in the      *)
(* order of the line, so that an older one never replaces a newer one, and *)
(* none is written twice or made up.                                       *)
(***************************************************************************)
EXTENDS Naturals, Sequences

CONSTANTS
  Runners,       \* who counts
  NoValue        \* nothing: no value yet, or a place in the line without number

VARIABLES
  busy,          \* the runners that are counting
  total,         \* the number that each of them has reached
  line,          \* the numbers on their way, the oldest first
  key            \* the value that was written last

Init ==
  /\ busy = {}
  /\ total = [r \in Runners |-> 0]
  /\ line \in {<<>>, <<NoValue>>}
  /\ key = NoValue

Begin(r) ==
  /\ r \notin busy
  /\ busy' = busy \union {r}
  /\ total' = [total EXCEPT ![r] = 0]
  /\ UNCHANGED <<line, key>>

CountOne(r) ==
  /\ r \in busy
  /\ total' = [total EXCEPT ![r] = @ + 1]
  /\ UNCHANGED <<busy, line, key>>

(* A run ends, maybe with one more stream counted, and is published with   *)
(* the number that it has reached, or not at all.                          *)
End(r) ==
  /\ r \in busy
  /\ busy' = busy \ {r}
  /\ total' = total \/ total' = [total EXCEPT ![r] = @ + 1]
  /\ line' \in {line, Append(line, NoValue), Append(line, total'[r])}
  /\ UNCHANGED key

(* Other things take places in the line, ...                               *)
Pass ==
  /\ line' \in {Append(line, NoValue), Append(Append(line, NoValue), NoValue)}
  /\ UNCHANGED <<busy, total, key>>

(* ... and leave it.                                                       *)
Leave ==
  /\ \E i \in DOMAIN line :
       /\ line[i] = NoValue
       /\ line' = [j \in 1 .. Len(line) - 1 |-> IF j < i THEN line[j] ELSE line[j + 1]]
  /\ UNCHANGED <<busy, total, key>>

Write ==
  /\ line # <<>> /\ Head(line) # NoValue
  /\ line' = Tail(line)
  /\ key' = Head(line)
  /\ UNCHANGED <<busy, total>>

Lose ==
  /\ line # <<>>
  /\ line' = Tail(line)
  /\ UNCHANGED <<busy, total, key>>

Next ==
  \/ \E r \in Runners : Begin(r) \/ CountOne(r) \/ End(r)
  \/ Pass
  \/ Leave
  \/ Write
  \/ Lose

numbers == <<busy, total, line, key>>

Spec == Init /\ [][Next]_numbers
===============================================================================
