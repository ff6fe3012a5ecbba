---------------------------- MODULE CheckRunProofs ----------------------------
(* What every run of the abstract double check satisfies, for lists of any *)
(* length, with and without removals and aborts.                           *)
EXTENDS CheckRunAudit, FiniteSetTheorems, TLAPS

(* A run that still waits for its list has counted nothing.                *)
ListingCountsNothing == phase = "listing" => alive = 0 /\ removed = 0

(* What is counted and what is open fit into the longest list.             *)
WithinBound == alive + removed + Cardinality(DOMAIN open) <= MaxEntries

(* The inductive invariant.  Without its last part a list could arrive at  *)
(* a run that has counted something already, and fill it beyond its bound. *)
Inv == TypeOK /\ BusyIffOpen /\ WithinBound /\ ListingCountsNothing

(* The open entries are finitely many.                                     *)
LEMMA OpenIsFinite ==
  ASSUME TypeOK
  PROVE  IsFiniteSet(DOMAIN open) /\ Cardinality(DOMAIN open) \in Nat
<1>1. IsFiniteSet(1 .. MaxEntries)
  BY FS_Interval, CheckRunAssumption
<1>2. IsFiniteSet(DOMAIN open)
  BY <1>1, FS_Subset DEF TypeOK
<1> QED
  BY <1>2, FS_CardinalityType

(* Closing an entry leaves one open entry less.                            *)
LEMMA CloseRemovesOne ==
  ASSUME TypeOK, NEW e \in DOMAIN open, Close(e)
  PROVE  /\ DOMAIN open' = DOMAIN open \ {e}
         /\ IsFiniteSet(DOMAIN open)
         /\ Cardinality(DOMAIN open') \in Nat
         /\ Cardinality(DOMAIN open) = Cardinality(DOMAIN open') + 1
<1>2. IsFiniteSet(DOMAIN open)
  BY OpenIsFinite
<1>3. DOMAIN open' = DOMAIN open \ {e}
  BY DEF Close
<1>4. /\ Cardinality(DOMAIN open \ {e}) = Cardinality(DOMAIN open) - 1
      /\ IsFiniteSet(DOMAIN open \ {e})
  BY <1>2, FS_RemoveElement
<1>5. Cardinality(DOMAIN open) \in Nat /\ Cardinality(DOMAIN open \ {e}) \in Nat
  BY <1>2, <1>4, FS_CardinalityType
<1> QED
  BY <1>2, <1>3, <1>4, <1>5

(* The inductive invariant holds before the first run, ...                 *)
LEMMA InitInv == Init => Inv
<1> SUFFICES ASSUME Init PROVE Inv
  OBVIOUS
<1>1. DOMAIN open = {}
  BY DEF Init, NoEntry
<1>2. Cardinality(DOMAIN open) = 0
  BY <1>1, FS_EmptySet
<1> QED
  BY <1>1, <1>2, CheckRunAssumption
  DEF Init, Inv, TypeOK, BusyIffOpen, WithinBound, ListingCountsNothing,
      NoEntry, Stages

(* ... and every step of a run keeps it.                                   *)
LEMMA NextInv == Inv /\ [Next]_runVars => Inv'
<1> SUFFICES ASSUME Inv, [Next]_runVars PROVE Inv'
  OBVIOUS
<1> USE CheckRunAssumption
<1>1. CASE Begin
  BY <1>1, FS_EmptySet
  DEF Begin, Inv, TypeOK, BusyIffOpen, WithinBound, ListingCountsNothing
<1>2. CASE GiveUp
  BY <1>2
  DEF GiveUp, Inv, TypeOK, BusyIffOpen, WithinBound, ListingCountsNothing
<1>3. ASSUME NEW n \in 0 .. MaxEntries, List(n) PROVE Inv'
  <2>1. n \in Nat /\ n <= MaxEntries
    OBVIOUS
  <2>2. open' = [e \in 1 .. n |-> "first"] /\ DOMAIN open' = 1 .. n
    BY <1>3 DEF List
  <2>3. Cardinality(1 .. n) = n
    BY <2>1, FS_Interval
  <2>4. alive' = 0 /\ removed' = 0
    BY <1>3 DEF List, Inv, ListingCountsNothing
  <2>5. TypeOK'
    BY <1>3, <2>1, <2>2, <2>4 DEF List, TypeOK, Stages
  <2>6. BusyIffOpen'
    BY <1>3, <2>1, <2>2, SMTT(30) DEF List, BusyIffOpen
  <2>7. WithinBound'
    BY <2>1, <2>2, <2>3, <2>4 DEF WithinBound
  <2> QED
    BY <2>4, <2>5, <2>6, <2>7 DEF Inv, ListingCountsNothing
<1>4. ASSUME NEW e \in DOMAIN open, Close(e),
             alive' + removed' <= alive + removed + 1,
             alive' \in Nat, removed' \in Nat
      PROVE  Inv'
  <2>1. /\ DOMAIN open' = DOMAIN open \ {e}
        /\ Cardinality(DOMAIN open') \in Nat
        /\ Cardinality(DOMAIN open) = Cardinality(DOMAIN open') + 1
    BY <1>4, CloseRemovesOne DEF Inv
  <2>2. phase = "checking"
    BY <1>4 DEF Inv, BusyIffOpen
  <2>3. WithinBound'
    BY <1>4, <2>1 DEF Inv, TypeOK, WithinBound
  <2>4. BusyIffOpen'
    BY <1>4, <2>1, <2>2 DEF Close, BusyIffOpen
  <2>5. TypeOK'
    <3>1. alive' \in 0 .. MaxEntries /\ removed' \in 0 .. MaxEntries
      BY <1>4, <2>1, <2>3 DEF WithinBound
    <3> QED
      BY <1>4, <2>2, <3>1 DEF Close, Inv, TypeOK
  <2>6. ListingCountsNothing'
    BY <1>4, <2>2 DEF Close, ListingCountsNothing
  <2> QED
    BY <2>3, <2>4, <2>5, <2>6 DEF Inv
<1>5. ASSUME NEW e \in DOMAIN open,
             CloseAlive(e) \/ CloseRemoved(e) \/ CloseUncounted(e)
      PROVE  Inv'
  <2>1. Close(e)
    BY <1>5 DEF CloseAlive, CloseRemoved, CloseUncounted
  <2>2. /\ alive' + removed' <= alive + removed + 1
        /\ alive' \in Nat /\ removed' \in Nat
    BY <1>5 DEF CloseAlive, CloseRemoved, CloseUncounted, Inv, TypeOK
  <2> QED
    BY <1>4, <2>1, <2>2
<1>6. ASSUME NEW e \in DOMAIN open, Confirm(e) \/ Condemn(e) PROVE Inv'
  <2>1. DOMAIN open' = DOMAIN open
    BY <1>6 DEF Confirm, Condemn
  <2>2. TypeOK'
    BY <1>6, <2>1 DEF Confirm, Condemn, Inv, TypeOK, Stages
  <2> QED
    BY <1>6, <2>1, <2>2
    DEF Confirm, Condemn, Inv, BusyIffOpen, WithinBound, ListingCountsNothing
<1>7. CASE Abort
  <2>1. DOMAIN open' = {} /\ Cardinality(DOMAIN open') = 0
    BY <1>7, FS_EmptySet DEF Abort, NoEntry
  <2>2. TypeOK' /\ BusyIffOpen' /\ ListingCountsNothing'
    BY <1>7, <2>1
    DEF Abort, NoEntry, Inv, TypeOK, BusyIffOpen, ListingCountsNothing, Stages
  <2>3. Cardinality(DOMAIN open) \in Nat
    BY OpenIsFinite DEF Inv
  <2>4. WithinBound'
    BY <1>7, <2>1, <2>3 DEF Abort, Inv, TypeOK, WithinBound
  <2> QED
    BY <2>2, <2>4 DEF Inv
<1>8. CASE UNCHANGED runVars
  BY <1>8
  DEF runVars, Inv, TypeOK, BusyIffOpen, WithinBound, ListingCountsNothing
<1> QED
  BY <1>1, <1>2, <1>3, <1>5, <1>6, <1>7, <1>8 DEF Next

LEMMA Invariance == Spec => []Inv
  BY InitInv, NextInv, PTL DEF Spec

(* CheckRun.TypeOK: the fields of a run, the stages of its entries         *)
(* included, always have their types, and no counter gets beyond the       *)
(* longest list.                                                           *)
THEOREM RunTypeCorrect == Spec => []TypeOK
<1>1. Inv => TypeOK
  BY DEF Inv
<1> QED
  BY <1>1, Invariance, PTL

(* No run is busy with nothing, and none is over with work left.           *)
THEOREM RunIsBusyIffOpen == Spec => []BusyIffOpen
<1>1. Inv => BusyIffOpen
  BY DEF Inv
<1> QED
  BY <1>1, Invariance, PTL

-----------------------------------------------------------------------------
(* A run that remembers its list is a run.                                 *)
LEMMA AuditIsRun == AuditNext => Next
BY DEF AuditNext, Next

(* With the list in hand the bound is that of the run itself.  Only the    *)
(* steps that close an entry change what is counted, and each makes one    *)
(* entry less of what is open.                                             *)
AuditInv == Inv /\ listed \in Nat /\ NoEntryCountedTwice

LEMMA AuditNextInv == AuditInv /\ [AuditNext]_auditVars => AuditInv'
<1> SUFFICES ASSUME AuditInv, [AuditNext]_auditVars PROVE AuditInv'
  OBVIOUS
<1> USE CheckRunAssumption
<1>1. [Next]_runVars
  BY AuditIsRun DEF auditVars
<1>2. Inv'
  BY <1>1, NextInv DEF AuditInv
<1>3. /\ alive \in Nat /\ removed \in Nat /\ listed \in Nat
      /\ Cardinality(DOMAIN open) \in Nat
      /\ alive + removed + Cardinality(DOMAIN open) <= listed
  BY OpenIsFinite DEF AuditInv, Inv, TypeOK, NoEntryCountedTwice
<1>4. CASE Begin /\ listed' = 0
  <2>1. DOMAIN open = {} /\ UNCHANGED open
    BY <1>4 DEF Begin, AuditInv, Inv, BusyIffOpen
  <2> QED
    BY <1>2, <1>4, <2>1, FS_EmptySet DEF Begin, AuditInv, NoEntryCountedTwice
<1>5. ASSUME NEW n \in 0 .. MaxEntries, List(n), listed' = n
      PROVE  AuditInv'
  <2>1. n \in Nat /\ DOMAIN open' = 1 .. n
    BY <1>5 DEF List
  <2>2. Cardinality(1 .. n) = n
    BY <2>1, FS_Interval
  <2>3. alive' = 0 /\ removed' = 0
    BY <1>5 DEF List, AuditInv, Inv, ListingCountsNothing
  <2> QED
    BY <1>2, <1>5, <2>1, <2>2, <2>3 DEF AuditInv, NoEntryCountedTwice
<1>6. ASSUME NEW e \in DOMAIN open, UNCHANGED listed,
             CloseAlive(e) \/ CloseRemoved(e) \/ CloseUncounted(e)
      PROVE  AuditInv'
  <2>1. /\ Close(e)
        /\ alive' + removed' <= alive + removed + 1
        /\ alive' \in Nat /\ removed' \in Nat
    BY <1>3, <1>6 DEF CloseAlive, CloseRemoved, CloseUncounted
  <2>2. /\ Cardinality(DOMAIN open') \in Nat
        /\ Cardinality(DOMAIN open) = Cardinality(DOMAIN open') + 1
    BY <2>1, CloseRemovesOne DEF AuditInv, Inv
  <2>3. alive' + removed' + Cardinality(DOMAIN open') <= listed
    <3>1. PICK a, b, k : a = alive' /\ b = removed' /\ k = Cardinality(DOMAIN open')
      OBVIOUS
    <3>2. /\ a \in Nat /\ b \in Nat /\ k \in Nat /\ a + b <= alive + removed + 1
          /\ Cardinality(DOMAIN open) = k + 1
      BY <2>1, <2>2, <3>1, Zenon
    <3>3. alive + removed + (k + 1) <= listed
      BY <1>3, <3>2
    <3>4. a + b + k <= listed
      BY <1>3, <3>2, <3>3
    <3> QED
      BY <3>1, <3>4, Zenon
  <2> QED
    BY <1>2, <1>3, <1>6, <2>3 DEF AuditInv, NoEntryCountedTwice
<1>7. ASSUME UNCHANGED <<alive, removed, listed>>,
             Cardinality(DOMAIN open') \in Nat,
             Cardinality(DOMAIN open') <= Cardinality(DOMAIN open)
      PROVE  AuditInv'
  BY <1>2, <1>3, <1>7 DEF AuditInv, NoEntryCountedTwice
<1>8. ASSUME UNCHANGED listed, GiveUp \/ UNCHANGED runVars \/
               \E e \in DOMAIN open : Confirm(e) \/ Condemn(e)
      PROVE  AuditInv'
  <2>1. DOMAIN open' = DOMAIN open /\ UNCHANGED <<alive, removed>>
    BY <1>8 DEF GiveUp, runVars, Confirm, Condemn
  <2> QED
    BY <1>3, <1>7, <1>8, <2>1
<1>9. CASE Abort /\ UNCHANGED listed
  <2>1. Cardinality(DOMAIN open') = 0 /\ UNCHANGED <<alive, removed>>
    BY <1>9, FS_EmptySet DEF Abort, NoEntry
  <2> QED
    BY <1>3, <1>7, <1>9, <2>1
<1> QED
  BY <1>4, <1>5, <1>6, <1>8, <1>9 DEF AuditNext, auditVars

(* CheckRunAudit.NoEntryCountedTwice: no run reports more entries as alive *)
(* or removed than its own list has, and what is open still fits as well.  *)
THEOREM RunIsAccountedFor == AuditSpec => []NoEntryCountedTwice
<1>1. AuditInit => AuditInv
  <2> SUFFICES ASSUME AuditInit PROVE AuditInv
    OBVIOUS
  <2>1. Inv
    BY InitInv DEF AuditInit
  <2>2. Cardinality(DOMAIN open) = 0
    BY FS_EmptySet DEF AuditInit, Init, NoEntry
  <2> QED
    BY <2>1, <2>2 DEF AuditInit, Init, AuditInv, NoEntryCountedTwice
<1>2. AuditInv => NoEntryCountedTwice
  BY DEF AuditInv
<1> QED
  BY <1>1, <1>2, AuditNextInv, PTL DEF AuditSpec
===============================================================================
