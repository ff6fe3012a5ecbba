------------------------------ MODULE AuditProofs ------------------------------
(***************************************************************************)
(* What the requesters remove and report is what go2rtc really answered.   *)
(* The audit of the running cycle or count is tied to the messages still   *)
(* in transit: each answer that is on its way is accounted for in the      *)
(* audit and not yet in the fields of the requester.  That no stream is    *)
(* removed twice in a cycle moreover needs the order in which first and    *)
(* second checks pass through the mailboxes.                               *)
(***************************************************************************)
EXTENDS ManagerAudit, RunProofs

AuditStates ==
  [missed : [Streams -> SUBSET Attempts], alive : SUBSET Nat, failed : SUBSET Nat,
   removals : [Streams -> Nat], deleted : SUBSET Streams]

IsRemoval(m) == m.type \in {"RemoveStream", "StreamRemovalCompleted"}

IsCheck(m) == m.type \in {"CheckStreamHealth", "StreamHealthChecked"}

(* The first checks of the cleaner, and what comes after them.             *)
Early(m) == IsCheck(m) /\ m.requestedBy = "cleaner" /\ m.attempt = 1

Late(m) == IsRemoval(m) \/ (IsCheck(m) /\ m.requestedBy = "cleaner" /\ m.attempt = 2)

-----------------------------------------------------------------------------
(* The entries that were seen alive are those for which an answer that     *)
(* says so is on its way in R, and n others.                               *)
Tallied(seen, n, R) ==
  /\ IsFiniteSet(seen)
  /\ \A m \in R : m.entry \in seen <=> FoundAlive(m)
  /\ n = Cardinality(seen \ Entries(R))

(* The fields c of requester r, its work V and the audit a of its run.     *)
Counted(r, c, V, a) ==
  c.running =>
    /\ Tallied(a.alive, c.aliveCount, RunOf(c, V))
    /\ c.outstanding = 0 => a = NewAudit
    /\ r = "count" =>
         \A e \in a.failed :
           \E m \in RunOf(c, V) : m.type = "StreamHealthChecked" /\ m.error /\ m.entry = e

(* A stream is suspected, and condemned, after the misses that this takes. *)
Careful(c, V, a) ==
  /\ \A m \in V : FoundNothing(m) => m.attempt \in a.missed[m.stream]
  /\ \A s \in c.pending : 1 \in a.missed[s]
  /\ \A m \in V : m.type = "RemoveStream" => a.missed[m.stream] = Attempts
  /\ \A s \in Streams : a.removals[s] > 0 => a.missed[s] = Attempts

(* A removal is asked for once, and only when all first checks are over.   *)
Once(c, V, a) ==
  /\ \A s \in Streams : a.removals[s] \in {0, 1}
  /\ \A m \in V : m.type = "RemoveStream" => a.removals[m.stream] = 0
  /\ \A m \in V : m.type = "StreamRemovalCompleted" => a.removals[m.stream] = 1
  /\ \A m, n \in V : IsRemoval(m) /\ IsRemoval(n) /\ m.stream = n.stream => m = n
  /\ \A m \in V : IsRemoval(m) => m.stream \notin c.pending
  /\ \A s \in Streams : a.removals[s] > 0 => s \notin c.pending
  /\ (\E m \in V : IsRemoval(m)) \/ (\E s \in Streams : a.removals[s] > 0) =>
       \A m \in V : ~Early(m)

(* The deletions that answers on their way report.                         *)
Reported(V) == {m.stream : m \in {n \in V : Deleted(n)}}

(* They are not yet counted, and no deletion is counted twice.             *)
Honest(c, V, a) ==
  /\ \A s \in a.deleted : a.removals[s] > 0
  /\ Reported(V) \subseteq a.deleted
  /\ c.running => c.removedCount <= Cardinality(a.deleted \ Reported(V))

CleanerAudited(c, V, a) == Careful(c, V, a) /\ Once(c, V, a) /\ Honest(c, V, a)

-----------------------------------------------------------------------------
(* What the audit a of r becomes when go2rtc serves h with the answer n.   *)
Seen(r, h, n, c, a, z) ==
  LET checked  == h.type = "CheckStreamHealth" /\ h.requestedBy = r
                    /\ h.triggeredAt = c.triggeredAt
      removing == h.type = "RemoveStream" /\ r = "cleaner"
  IN /\ ~checked /\ ~removing => z = a
     /\ z.alive = IF checked /\ FoundAlive(n) THEN a.alive \cup {h.entry} ELSE a.alive
     /\ z.failed = IF checked /\ n.error THEN a.failed \cup {h.entry} ELSE a.failed
     /\ \A s \in Streams :
          /\ z.missed[s] = IF checked /\ FoundNothing(n) /\ s = h.stream
                           THEN a.missed[s] \cup {h.attempt} ELSE a.missed[s]
          /\ z.removals[s] = IF removing /\ s = h.stream
                             THEN a.removals[s] + 1 ELSE a.removals[s]
     /\ a.deleted \subseteq z.deleted
     /\ z.deleted \subseteq a.deleted \cup (IF removing THEN {h.stream} ELSE {})
     /\ removing /\ Deleted(n) => h.stream \in z.deleted

(* The two ways in which a requester's run and its audit move on together. *)
Served(r, h, n, c, V, X, a, z) ==
  /\ h \in Message /\ Reply(h, n) /\ Answered(h, n, V, X)
  /\ h \in V <=> OnBehalfOf(h, r)
  /\ Seen(r, h, n, c, a, z)

Works(r, h, c, V, d, X, a, z) ==
  /\ Handled(r, h, c, V, d, X)
  /\ z = IF d.running /\ ~c.running THEN NewAudit ELSE a

(* All the work of the cleaner belongs to its running cycle.               *)
Owns(c, V) == \A m \in V : c.running /\ m.triggeredAt = c.triggeredAt

-----------------------------------------------------------------------------
LEMMA NewAuditIs ==
  /\ NewAudit \in AuditStates
  /\ NewAudit.alive = {} /\ NewAudit.failed = {} /\ NewAudit.deleted = {}
  /\ \A s \in Streams : NewAudit.missed[s] = {} /\ NewAudit.removals[s] = 0
BY DEF NewAudit, AuditStates

LEMMA NothingTallied == ASSUME NEW R, \A m \in R : ~FoundAlive(m) PROVE Tallied({}, 0, R)
<1>1. {} \ Entries(R) = {}
  OBVIOUS
<1> QED
  BY <1>1, FS_EmptySet DEF Tallied

(* The entry of h is seen alive, or not, and its message becomes n.        *)
LEMMA TallySeen ==
  ASSUME NEW R, OneEach(R), NEW h \in R, NEW n, n.entry = h.entry, NEW seen, NEW k,
         Tallied(seen, k, R), ~FoundAlive(h), NEW now,
         now = IF FoundAlive(n) THEN seen \cup {h.entry} ELSE seen
  PROVE  Tallied(now, k, (R \ {h}) \cup {n})
<1>1. PICK Q : Q = (R \ {h}) \cup {n}
  OBVIOUS
<1>2. Entries(Q) = Entries(R) /\ h.entry \in Entries(R)
  BY <1>1 DEF Entries
<1>3. IsFiniteSet(now)
  BY FS_AddElement DEF Tallied
<1>4. now \ Entries(Q) = seen \ Entries(R)
  BY <1>2
<1>5. h.entry \notin seen
  BY DEF Tallied
<1>6. \A m \in Q : m.entry \in now <=> FoundAlive(m)
  <2>1. n.entry \in now <=> FoundAlive(n)
    BY <1>5
  <2>2. ASSUME NEW m \in R, m # h
        PROVE  m.entry \in now <=> FoundAlive(m)
    <3>1. m.entry # h.entry
      BY <2>2 DEF OneEach
    <3>2. m.entry \in seen <=> FoundAlive(m)
      BY DEF Tallied
    <3> QED
      BY <3>1, <3>2
  <2> QED
    BY <1>1, <2>1, <2>2
<1> QED
  BY <1>1, <1>3, <1>4, <1>6 DEF Tallied

(* The entry of h is closed.                                               *)
LEMMA TallyClosed ==
  ASSUME NEW R, OneEach(R), NEW h \in R, NEW seen, NEW k, Tallied(seen, k, R), NEW l,
         l = IF FoundAlive(h) THEN k + 1 ELSE k
  PROVE  Tallied(seen, l, R \ {h})
<1>1. PICK E, F : E = Entries(R) /\ F = Entries(R \ {h})
  OBVIOUS
<1>2. F = E \ {h.entry} /\ h.entry \in E
  BY <1>1, OpenedWithout DEF Entries
<1>3. \A m \in R \ {h} : m.entry \in seen <=> FoundAlive(m)
  BY DEF Tallied
<1>4. /\ IsFiniteSet(seen) /\ k = Cardinality(seen \ E)
      /\ h.entry \in seen <=> FoundAlive(h)
  BY <1>1 DEF Tallied
<1>5. IsFiniteSet(seen \ E)
  BY <1>4, FS_Difference
<1>6. l = Cardinality(seen \ F)
  <2>1. CASE FoundAlive(h)
    <3>1. seen \ F = (seen \ E) \cup {h.entry} /\ h.entry \notin seen \ E
      BY <1>2, <1>4, <2>1
    <3> QED
      BY <1>4, <1>5, <2>1, <3>1, FS_AddElement
  <2>2. CASE ~FoundAlive(h)
    <3>1. seen \ F = seen \ E
      BY <1>2, <1>4, <2>2
    <3> QED
      BY <1>4, <2>2, <3>1
  <2> QED
    BY <2>1, <2>2
<1> QED
  BY <1>1, <1>3, <1>4, <1>6 DEF Tallied

(* When only one entry is left, the tally is complete.                     *)
LEMMA TallyComplete ==
  ASSUME NEW seen, NEW k, Tallied(seen, k, {})
  PROVE  k = Cardinality(seen)
<1>1. Entries({}) = {}
  BY DEF Entries
<1>2. seen \ {} = seen
  OBVIOUS
<1> QED
  BY <1>1, <1>2 DEF Tallied

-----------------------------------------------------------------------------
(* go2rtc answers: what is seen is tied to the answer that is on its way.  *)
LEMMA ServedCounted ==
  ASSUME NEW r \in Requesters, NEW c, NEW V, Sound(r, c, V), r = "cleaner" => Owns(c, V),
         NEW a, Counted(r, c, V, a), NEW h, NEW n, NEW X, NEW z,
         Served(r, h, n, c, V, X, a, z)
  PROVE  Counted(r, c, X, z)
<1> SUFFICES ASSUME c.running
             PROVE  /\ Tallied(z.alive, c.aliveCount, RunOf(c, X))
                    /\ c.outstanding = 0 => z = NewAudit
                    /\ r = "count" =>
                         \A e \in z.failed :
                           \E m \in RunOf(c, X) :
                             m.type = "StreamHealthChecked" /\ m.error /\ m.entry = e
  BY DEF Counted
<1>1. PICK R, Q : R = RunOf(c, V) /\ Q = RunOf(c, X)
  OBVIOUS
<1>2. /\ Tallied(a.alive, c.aliveCount, R) /\ (c.outstanding = 0 => a = NewAudit)
      /\ r = "count" => \A e \in a.failed :
           \E m \in R : m.type = "StreamHealthChecked" /\ m.error /\ m.entry = e
  BY <1>1 DEF Counted
<1>3. /\ OneEach(R) /\ (c.outstanding = 0 => R = {})
  BY <1>1 DEF Sound, Runs
<1>4. /\ n.triggeredAt = h.triggeredAt /\ (Asks(n) <=> Asks(h))
      /\ ~Asks(h) => n.entry = h.entry
      /\ ~FoundAlive(h) /\ h.type # "StreamHealthChecked"
      /\ h.type = "CheckStreamHealth" => n.type = "StreamHealthChecked"
      /\ h.type # "CheckStreamHealth" => ~FoundAlive(n)
  BY DEF Served, Reply, StreamHealthChecked, StreamRemovalCompleted, Asks, FoundAlive
<1>5. CASE h \in R
  <2>1. h \in V /\ h.triggeredAt = c.triggeredAt /\ ~Asks(h) /\ OnBehalfOf(h, r)
    BY <1>1, <1>5 DEF RunOf, Served
  <2>2. Q = (R \ {h}) \cup {n}
    <3>1. X = (V \ {h}) \cup {n}
      BY <2>1 DEF Served, Answered
    <3> QED
      BY <1>1, <1>4, <2>1, <3>1 DEF RunOf
  <2>3. h.type = "CheckStreamHealth" => h.requestedBy = r
    BY <2>1 DEF OnBehalfOf
  <2>4. /\ z.alive = IF FoundAlive(n) THEN a.alive \cup {h.entry} ELSE a.alive
        /\ z.failed = IF h.type = "CheckStreamHealth" /\ n.error
                      THEN a.failed \cup {h.entry} ELSE a.failed
    BY <1>4, <2>1, <2>3 DEF Served, Seen
  <2>5. Tallied(z.alive, c.aliveCount, Q)
    BY <1>2, <1>3, <1>4, <1>5, <2>1, <2>2, <2>4, TallySeen
  <2>6. ASSUME r = "count", NEW e \in z.failed
        PROVE  \E m \in Q : m.type = "StreamHealthChecked" /\ m.error /\ m.entry = e
    <3>1. CASE e \in a.failed
      <4>1. PICK m \in R : m.type = "StreamHealthChecked" /\ m.error /\ m.entry = e
        BY <1>2, <2>6, <3>1
      <4>2. m \in Q
        BY <1>4, <2>2, <4>1
      <4> QED
        BY <4>1, <4>2
    <3>2. CASE e \notin a.failed
      <4>1. h.type = "CheckStreamHealth" /\ n.error /\ e = h.entry
        BY <2>4, <2>6, <3>2
      <4> QED
        BY <1>4, <2>1, <2>2, <4>1
    <3> QED
      BY <3>1, <3>2
  <2> QED
    BY <1>1, <1>3, <1>5, <2>5, <2>6
<1>6. CASE h \notin R
  <2>1. z = a
    <3>1. ~(h.type = "CheckStreamHealth" /\ h.requestedBy = r
              /\ h.triggeredAt = c.triggeredAt)
      <4>1. h.type = "CheckStreamHealth" /\ h.requestedBy = r => OnBehalfOf(h, r)
        BY DEF OnBehalfOf
      <4> QED
        BY <1>1, <1>6, <4>1 DEF Served, RunOf, Asks
    <3>2. ~(h.type = "RemoveStream" /\ r = "cleaner")
      <4>1. h.type = "RemoveStream" /\ r = "cleaner" => OnBehalfOf(h, r)
        BY DEF OnBehalfOf
      <4> QED
        BY <1>1, <1>6, <4>1 DEF Served, RunOf, Asks, Owns
    <3> QED
      BY <3>1, <3>2 DEF Served, Seen
  <2>2. Q = R
    BY <1>1, <1>4, <1>6 DEF Served, Answered, RunOf
  <2> QED
    BY <1>1, <1>2, <2>1, <2>2
<1> QED
  BY <1>5, <1>6

(* A handled miss is followed by the second check or by the removal.       *)
Advanced(r, h, c, V, d, X, n) ==
  /\ h \in RunOf(c, V) /\ FoundNothing(h) /\ c.running
  /\ X = (V \ {h}) \cup {n} /\ RunOf(c, X) = (RunOf(c, V) \ {h}) \cup {n}
  /\ n.entry = h.entry /\ n.stream = h.stream /\ n.triggeredAt = h.triggeredAt
  /\ d.running = c.running /\ d.outstanding = c.outstanding
  /\ d.triggeredAt = c.triggeredAt /\ d.aliveCount = c.aliveCount
  /\ RemovedBy(r, d) = RemovedBy(r, c)
  /\ \/ /\ h.attempt = 1 /\ n = SecondCheck(h)
        /\ d.pending = c.pending \cup {h.stream}
     \/ /\ r = "cleaner" /\ h.attempt = 2 /\ n = RemoveStream(h)
        /\ h.stream \in c.pending /\ d.pending = c.pending \ {h.stream}

LEMMA AdvancedIs ==
  ASSUME NEW r \in Requesters, NEW c, NEW V, Sound(r, c, V), NEW h, NEW d, NEW X,
         \/ Suspected(h, c, V, d, X)
         \/ Condemned(r, h, c, V, d, X)
  PROVE  \E n : Advanced(r, h, c, V, d, X, n)
<1>1. PICK n, v :
        /\ h \in V /\ FoundNothing(h) /\ Current(c, h)
        /\ d = [c EXCEPT !.pending = v]
        /\ X = (V \ {h}) \cup {n}
        /\ \/ h.attempt = 1 /\ n = SecondCheck(h) /\ v = c.pending \cup {h.stream}
           \/ /\ r = "cleaner" /\ h.attempt = 2 /\ n = RemoveStream(h)
              /\ h.stream \in c.pending /\ v = c.pending \ {h.stream}
  <2>1. CASE Suspected(h, c, V, d, X)
    BY <2>1 DEF Suspected
  <2>2. CASE Condemned(r, h, c, V, d, X)
    BY <2>2 DEF Condemned
  <2> QED
    BY <2>1, <2>2
<1>2. c \in StatesOf(r)
  BY DEF Sound
<1>3. /\ d.outstanding = c.outstanding /\ d.running = c.running
      /\ d.triggeredAt = c.triggeredAt /\ d.pending = v
      /\ d.aliveCount = c.aliveCount /\ RemovedBy(r, d) = RemovedBy(r, c)
  <2>1. CASE r = "cleaner"
    BY <1>1, <1>2, <2>1 DEF StatesOf, CleanerStates, RemovedBy
  <2>2. CASE r # "cleaner"
    BY <1>1, <1>2, <2>2 DEF StatesOf, CounterStates, RemovedBy
  <2> QED
    BY <2>1, <2>2
<1>4. /\ n.entry = h.entry /\ n.stream = h.stream /\ n.triggeredAt = h.triggeredAt
      /\ ~Asks(h) /\ ~Asks(n)
  BY <1>1 DEF FoundNothing, Asks, SecondCheck, RemoveStream, CheckStreamHealth
<1>5. h \in RunOf(c, V) /\ c.running /\ RunOf(c, X) = (RunOf(c, V) \ {h}) \cup {n}
  BY <1>1, <1>4 DEF RunOf, Current
<1> QED
  BY <1>1, <1>3, <1>4, <1>5 DEF Advanced

(* The last entry is closed: everything that was seen is counted.          *)
LEMMA ClosedCounted ==
  ASSUME NEW r \in Requesters, NEW c, NEW V, Sound(r, c, V),
         NEW a, Counted(r, c, V, a), NEW h, NEW d, NEW X, Closed(r, h, c, V, d, X)
  PROVE  /\ c.running /\ c.outstanding \in Nat \ {0}
         /\ Tallied(a.alive, d.aliveCount, RunOf(c, X))
         /\ r = "count" => \A e \in a.failed :
              \E m \in RunOf(c, X) : m.type = "StreamHealthChecked" /\ m.error /\ m.entry = e
         /\ ~d.running => RunOf(c, X) = {}
<1>1. PICK R, Q : R = RunOf(c, V) /\ Q = RunOf(c, X)
  OBVIOUS
<1>2. /\ h \in R /\ OneEach(R) /\ c.running
      /\ h.type \in {"StreamHealthChecked", "StreamRemovalCompleted"}
      /\ r = "count" => ~h.error
      /\ X = V \ {h} /\ Q = R \ {h}
  BY <1>1 DEF Closed, Runs, RunOf, Sound, Current, Asks
<1>3. /\ c.outstanding \in Nat /\ c.outstanding > 0
      /\ IsFiniteSet(R) /\ Cardinality(R) = c.outstanding
  <2>1. c.outstanding \in Nat
    BY DEF Sound, StatesOf, CleanerStates, CounterStates
  <2> QED
    BY <1>1, <1>2, <2>1 DEF Sound, Runs
<1>4. Tallied(a.alive, d.aliveCount, Q)
  <2>1. Tallied(a.alive, c.aliveCount, R)
    BY <1>1, <1>2 DEF Counted
  <2>2. d.aliveCount = IF FoundAlive(h) THEN c.aliveCount + 1 ELSE c.aliveCount
    BY DEF Closed
  <2> QED
    BY <1>2, <2>1, <2>2, TallyClosed
<1>5. ASSUME r = "count", NEW e \in a.failed
      PROVE  \E m \in Q : m.type = "StreamHealthChecked" /\ m.error /\ m.entry = e
  <2>1. PICK m \in R : m.type = "StreamHealthChecked" /\ m.error /\ m.entry = e
    BY <1>1, <1>2, <1>5 DEF Counted
  <2> QED
    BY <1>2, <1>5, <2>1
<1>6. ASSUME ~d.running
      PROVE  Q = {}
  <2>1. IsFiniteSet(Q) /\ Cardinality(Q) = c.outstanding - 1
    BY <1>2, <1>3, FS_RemoveElement
  <2>2. c.outstanding - 1 = 0
    BY <1>3, <1>6 DEF Closed
  <2> QED
    BY <2>1, <2>2, FS_EmptySet
<1> QED
  BY <1>1, <1>2, <1>3, <1>4, <1>5, <1>6

(* The requester moves on.                                                 *)
LEMMA WorksCounted ==
  ASSUME NEW r \in Requesters, NEW c, NEW V, Sound(r, c, V),
         NEW a, Counted(r, c, V, a), NEW h, NEW d, NEW X, NEW z,
         Works(r, h, c, V, d, X, a, z)
  PROVE  Counted(r, d, X, z)
<1> SUFFICES ASSUME d.running
             PROVE  /\ Tallied(z.alive, d.aliveCount, RunOf(d, X))
                    /\ d.outstanding = 0 => z = NewAudit
                    /\ r = "count" =>
                         \A e \in z.failed :
                           \E m \in RunOf(d, X) :
                             m.type = "StreamHealthChecked" /\ m.error /\ m.entry = e
  BY DEF Counted
<1>1. PICK R, Q : R = RunOf(c, V) /\ Q = RunOf(d, X)
  OBVIOUS
<1>2. ASSUME c.running
      PROVE  /\ z = a /\ Tallied(a.alive, c.aliveCount, R)
             /\ c.outstanding = 0 => a = NewAudit
             /\ r = "count" => \A e \in a.failed :
                  \E m \in R : m.type = "StreamHealthChecked" /\ m.error /\ m.entry = e
             /\ OneEach(R)
  BY <1>1, <1>2 DEF Counted, Works, Sound, Runs
<1>3. CASE Ignored(h, c, V, d, X)
  <2>1. d = c /\ Q = R
    BY <1>1, <1>3 DEF Ignored, RunOf, Current
  <2> QED
    BY <1>1, <1>2, <2>1
<1>4. CASE Begun(r, h, c, V, d, X)
  <2>1. z = NewAudit /\ d.aliveCount = 0
    BY <1>4 DEF Begun, Works
  <2>2. Q = {}
    BY <1>1, <1>4 DEF Begun, RunOf, Asks
  <2> QED
    BY <1>1, <2>1, <2>2, NewAuditIs, NothingTallied
<1>5. CASE NoList(r, h, c, V, d, X) \/ Aborted(r, h, c, V, d, X)
  BY <1>5 DEF NoList, Aborted
<1>6. CASE ListArrived(r, h, c, V, d, X)
  <2>1. /\ h \in V /\ h.type = "StreamListFetched" /\ Current(c, h)
        /\ Len(h.streams) \in Nat \ {0}
        /\ d = [c EXCEPT !.outstanding = Len(h.streams)]
        /\ X = (V \ {h}) \cup ChecksOf(h, r)
    BY <1>6 DEF ListArrived
  <2>2. c.outstanding = 0 /\ R = {} /\ c.running /\ h.triggeredAt = c.triggeredAt
    BY <1>1, <2>1 DEF Sound, Runs, Current, Asks
  <2>3. PICK k \in Nat \ {0} : k = Len(h.streams)
    BY <2>1
  <2>4. /\ d.outstanding = k /\ d.triggeredAt = c.triggeredAt
        /\ d.aliveCount = c.aliveCount
    <3>1. d = [c EXCEPT !.outstanding = k] /\ c \in StatesOf(r)
      BY <2>1, <2>3 DEF Sound
    <3>2. CASE r = "cleaner"
      BY <3>1, <3>2 DEF StatesOf, CleanerStates
    <3>3. CASE r # "cleaner"
      BY <3>1, <3>3 DEF StatesOf, CounterStates
    <3> QED
      BY <3>2, <3>3
  <2>5. \A m \in Q : ~FoundAlive(m)
    <3>1. \A m \in ChecksOf(h, r) : ~FoundAlive(m)
      BY DEF ChecksOf, CheckStreamHealth, FoundAlive
    <3>2. \A m \in V : Asks(m) \/ m.triggeredAt # c.triggeredAt
      BY <1>1, <2>2 DEF RunOf
    <3> QED
      BY <1>1, <2>1, <2>4, <3>1, <3>2 DEF RunOf
  <2>6. z = NewAudit /\ c.aliveCount = 0
    <3>1. z = NewAudit /\ a = NewAudit /\ Tallied({}, c.aliveCount, {})
      BY <1>2, <2>2, NewAuditIs
    <3> QED
      BY <3>1, TallyComplete, FS_EmptySet
  <2> QED
    BY <1>1, <2>4, <2>5, <2>6, NewAuditIs, NothingTallied
<1>7. CASE Suspected(h, c, V, d, X) \/ Condemned(r, h, c, V, d, X)
  <2>0. PICK n : Advanced(r, h, c, V, d, X, n)
    BY <1>7, AdvancedIs
  <2>1. /\ h \in R /\ RunOf(c, X) = (R \ {h}) \cup {n} /\ FoundNothing(h)
        /\ n = SecondCheck(h) \/ n = RemoveStream(h)
        /\ c.running /\ n.entry = h.entry /\ d.outstanding = c.outstanding
        /\ d.triggeredAt = c.triggeredAt /\ d.aliveCount = c.aliveCount
    BY <1>1, <2>0 DEF Advanced
  <2>2. Q = (R \ {h}) \cup {n} /\ ~FoundAlive(h) /\ ~FoundAlive(n) /\ ~h.error
    BY <1>1, <2>1 DEF RunOf, FoundAlive, FoundNothing, SecondCheck, CheckStreamHealth,
         RemoveStream
  <2>3. Tallied(a.alive, c.aliveCount, Q)
    BY <1>2, <2>1, <2>2, TallySeen
  <2>4. ASSUME r = "count", NEW e \in a.failed
        PROVE  \E m \in Q : m.type = "StreamHealthChecked" /\ m.error /\ m.entry = e
    <3>1. PICK m \in R : m.type = "StreamHealthChecked" /\ m.error /\ m.entry = e
      BY <1>2, <2>1, <2>4
    <3> QED
      BY <2>2, <3>1
  <2> QED
    BY <1>1, <1>2, <2>1, <2>3, <2>4
<1>8. CASE Closed(r, h, c, V, d, X)
  <2>1. d.triggeredAt = c.triggeredAt /\ d.outstanding # 0
    BY <1>8 DEF Closed
  <2>2. RunOf(d, X) = RunOf(c, X)
    BY <2>1 DEF RunOf
  <2> QED
    BY <1>2, <1>8, <2>1, <2>2, ClosedCounted
<1> QED
  BY <1>3, <1>4, <1>5, <1>6, <1>7, <1>8 DEF Works, Handled

-----------------------------------------------------------------------------
(* What the answer n to a check h, or to a removal, adds to the audit.     *)
CheckSeen(h, n, a, z) ==
  /\ h.type = "CheckStreamHealth" /\ n.type = "StreamHealthChecked"
  /\ h.stream \in Streams /\ n.stream = h.stream /\ n.attempt = h.attempt
  /\ n.requestedBy = h.requestedBy
  /\ FoundNothing(n) => h.attempt \in z.missed[h.stream]
  /\ z.removals = a.removals /\ z.deleted = a.deleted
  /\ \A s \in Streams : a.missed[s] \subseteq z.missed[s] /\ z.missed[s] \subseteq Attempts

RemovalSeen(h, n, a, z) ==
  /\ h.type = "RemoveStream" /\ n.type = "StreamRemovalCompleted"
  /\ h.stream \in Streams /\ n.stream = h.stream
  /\ z.missed = a.missed
  /\ \A s \in Streams : z.removals[s] = IF s = h.stream THEN a.removals[s] + 1
                                        ELSE a.removals[s]
  /\ a.deleted \subseteq z.deleted /\ z.deleted \subseteq a.deleted \cup {h.stream}
  /\ Deleted(n) => h.stream \in z.deleted

(* What go2rtc does is on the cleaner's account if the message is.         *)
LEMMA SeenOf ==
  ASSUME NEW c, NEW V, Sound("cleaner", c, V), Owns(c, V),
         NEW a \in AuditStates, NEW z \in AuditStates, NEW h, NEW n, NEW X,
         Served("cleaner", h, n, c, V, X, a, z)
  PROVE  \/ X = V /\ z = a
         \/ /\ h \in V /\ X = (V \ {h}) \cup {n}
            /\ \/ Asks(h) /\ Asks(n) /\ z = a
               \/ CheckSeen(h, n, a, z)
               \/ RemovalSeen(h, n, a, z)
<1>1. /\ h \in Message /\ Reply(h, n)
      /\ X = IF h \in V THEN (V \ {h}) \cup {n} ELSE V
      /\ h \in V <=> OnBehalfOf(h, "cleaner")
      /\ Seen("cleaner", h, n, c, a, z)
  BY DEF Served, Answered
<1>2. /\ a.missed \in [Streams -> SUBSET Attempts] /\ z.missed \in [Streams -> SUBSET Attempts]
      /\ a.removals \in [Streams -> Nat] /\ z.removals \in [Streams -> Nat]
  BY DEF AuditStates
<1>3. CASE h.type = "FetchStreamList"
  <2>1. z = a
    BY <1>1, <1>3 DEF Seen
  <2>2. Asks(h) /\ Asks(n)
    BY <1>1, <1>3 DEF Asks, Reply
  <2> QED
    BY <1>1, <2>1, <2>2
<1>4. CASE h.type = "CheckStreamHealth"
  <2>1. CASE h \in V
    <3>1. h.requestedBy = "cleaner" /\ h.triggeredAt = c.triggeredAt
      BY <1>1, <1>4, <2>1 DEF OnBehalfOf, Owns
    <3>2. h.stream \in Streams
      BY <1>1, <1>4, FieldsOfMessages
    <3>3. /\ n.type = "StreamHealthChecked" /\ n.stream = h.stream
          /\ n.attempt = h.attempt /\ n.requestedBy = h.requestedBy
      BY <1>1, <1>4 DEF Reply, StreamHealthChecked
    <3>4. \A s \in Streams :
            /\ z.missed[s] = IF FoundNothing(n) /\ s = h.stream
                             THEN a.missed[s] \cup {h.attempt} ELSE a.missed[s]
            /\ z.removals[s] = a.removals[s]
      <4> SUFFICES ASSUME NEW s \in Streams
                   PROVE  /\ z.missed[s] = IF FoundNothing(n) /\ s = h.stream
                                           THEN a.missed[s] \cup {h.attempt}
                                           ELSE a.missed[s]
                          /\ z.removals[s] = a.removals[s]
        OBVIOUS
      <4>1. z.removals[s] = a.removals[s]
        BY <1>1, <1>4 DEF Seen
      <4>2. CASE FoundNothing(n) /\ s = h.stream
        BY <1>1, <1>4, <3>1, <4>1, <4>2 DEF Seen
      <4>3. CASE ~(FoundNothing(n) /\ s = h.stream)
        BY <1>1, <1>4, <3>1, <4>1, <4>3 DEF Seen
      <4> QED
        BY <4>2, <4>3
    <3>5. z.removals = a.removals /\ z.deleted = a.deleted
      <4>1. PICK f, g : f = z.removals /\ g = a.removals
        OBVIOUS
      <4>2. f \in [Streams -> Nat] /\ g \in [Streams -> Nat] /\ \A s \in Streams : f[s] = g[s]
        BY <1>2, <3>4, <4>1
      <4>3. f = g
        BY <4>2
      <4>4. a.deleted \subseteq z.deleted /\ z.deleted \subseteq a.deleted \cup {}
        BY <1>1, <1>4 DEF Seen
      <4> QED
        BY <4>1, <4>3, <4>4
    <3>6. FoundNothing(n) => h.attempt \in z.missed[h.stream]
      BY <3>2, <3>4
    <3>7. \A s \in Streams : a.missed[s] \subseteq z.missed[s] /\ z.missed[s] \subseteq Attempts
      BY <1>2, <3>4
    <3>8. CheckSeen(h, n, a, z)
      BY <1>4, <3>2, <3>3, <3>5, <3>6, <3>7 DEF CheckSeen
    <3> QED
      BY <1>1, <2>1, <3>8
  <2>2. CASE h \notin V
    <3>1. h.requestedBy # "cleaner"
      BY <1>1, <1>4, <2>2 DEF OnBehalfOf
    <3>2. z = a
      BY <1>1, <1>4, <3>1 DEF Seen
    <3> QED
      BY <1>1, <2>2, <3>2
  <2> QED
    BY <2>1, <2>2
<1>5. CASE h.type = "RemoveStream"
  <2>1. h \in V
    BY <1>1, <1>5 DEF OnBehalfOf
  <2>2. h.stream \in Streams
    BY <1>1, <1>5, FieldsOfMessages
  <2>3. n.type = "StreamRemovalCompleted" /\ n.stream = h.stream
    BY <1>1, <1>5 DEF Reply, StreamRemovalCompleted
  <2>4. /\ \A s \in Streams :
             /\ z.missed[s] = a.missed[s]
             /\ z.removals[s] = IF s = h.stream THEN a.removals[s] + 1 ELSE a.removals[s]
        /\ a.deleted \subseteq z.deleted /\ z.deleted \subseteq a.deleted \cup {h.stream}
        /\ Deleted(n) => h.stream \in z.deleted
    BY <1>1, <1>5 DEF Seen
  <2>5. z.missed = a.missed
    BY <1>2, <2>4
  <2>6. RemovalSeen(h, n, a, z)
    BY <1>5, <2>2, <2>3, <2>4, <2>5 DEF RemovalSeen
  <2> QED
    BY <1>1, <2>1, <2>6
<1> QED
  BY <1>1, <1>3, <1>4, <1>5 DEF Reply

(* The streams of the cleaner's work and fields.                           *)
LEMMA WorkStreams ==
  ASSUME NEW c, NEW V, Sound("cleaner", c, V)
  PROVE  /\ c.pending \subseteq Streams
         /\ \A m \in V : IsRemoval(m) \/ IsCheck(m) => m.stream \in Streams
         /\ \A m \in V : IsCheck(m) => m.requestedBy = "cleaner" /\ m.attempt \in Attempts
<1>1. c.pending \subseteq Streams
  BY DEF Sound, StatesOf, CleanerStates
<1>2. \A m \in V : m \in Message /\ OnBehalfOf(m, "cleaner")
  BY DEF Sound
<1> QED
  BY <1>1, <1>2, FieldsOfMessages DEF IsRemoval, IsCheck, OnBehalfOf

LEMMA ServedCareful ==
  ASSUME NEW c, NEW V, Sound("cleaner", c, V), Owns(c, V),
         NEW a \in AuditStates, NEW z \in AuditStates, Careful(c, V, a),
         NEW h, NEW n, NEW X, Served("cleaner", h, n, c, V, X, a, z)
  PROVE  Careful(c, X, z)
<1>1. CASE X = V /\ z = a
  BY <1>1
<1>2. CASE h \in V /\ X = (V \ {h}) \cup {n} /\ Asks(h) /\ Asks(n) /\ z = a
  BY <1>2 DEF Careful, FoundNothing, Asks
<1>3. CASE h \in V /\ X = (V \ {h}) \cup {n} /\ CheckSeen(h, n, a, z)
  <2>1. \A m \in X : FoundNothing(m) => m.attempt \in z.missed[m.stream]
    <3>1. \A m \in V : FoundNothing(m) => m.attempt \in z.missed[m.stream]
      BY <1>3, WorkStreams DEF Careful, CheckSeen, FoundNothing, IsCheck
    <3>2. FoundNothing(n) => n.attempt \in z.missed[n.stream]
      BY <1>3 DEF CheckSeen
    <3> QED
      BY <1>3, <3>1, <3>2
  <2>2. \A s \in c.pending : 1 \in z.missed[s]
    <3>1. ASSUME NEW s \in c.pending
          PROVE  1 \in z.missed[s]
      <4>1. s \in Streams /\ 1 \in a.missed[s]
        BY WorkStreams DEF Careful
      <4> QED
        BY <1>3, <4>1 DEF CheckSeen
    <3> QED
      BY <3>1
  <2>3. \A m \in X : m.type = "RemoveStream" => z.missed[m.stream] = Attempts
    <3> SUFFICES ASSUME NEW m \in X, m.type = "RemoveStream"
                 PROVE  z.missed[m.stream] = Attempts
      OBVIOUS
    <3>1. m \in V
      BY <1>3 DEF CheckSeen
    <3>2. m.stream \in Streams /\ a.missed[m.stream] = Attempts
      BY <3>1, WorkStreams DEF Careful, IsRemoval
    <3> QED
      BY <1>3, <3>2 DEF CheckSeen
  <2>4. \A s \in Streams : z.removals[s] > 0 => z.missed[s] = Attempts
    <3> SUFFICES ASSUME NEW s \in Streams, z.removals[s] > 0
                 PROVE  z.missed[s] = Attempts
      OBVIOUS
    <3>1. a.missed[s] = Attempts
      BY <1>3 DEF Careful, CheckSeen
    <3> QED
      BY <1>3, <3>1 DEF CheckSeen
  <2> QED
    BY <2>1, <2>2, <2>3, <2>4 DEF Careful
<1>4. CASE h \in V /\ X = (V \ {h}) \cup {n} /\ RemovalSeen(h, n, a, z)
  <2>1. \A m \in X : m \in V \/ m = n
    BY <1>4
  <2>2. n.type = "StreamRemovalCompleted" /\ z.missed = a.missed
    BY <1>4 DEF RemovalSeen
  <2>3. \A s \in Streams : z.removals[s] > 0 => a.missed[s] = Attempts
    BY <1>4 DEF RemovalSeen, Careful
  <2> QED
    BY <2>1, <2>2, <2>3 DEF Careful, FoundNothing
<1> QED
  BY <1>1, <1>2, <1>3, <1>4, SeenOf

LEMMA ServedOnce ==
  ASSUME NEW c, NEW V, Sound("cleaner", c, V), Owns(c, V),
         NEW a \in AuditStates, NEW z \in AuditStates, Once(c, V, a),
         NEW h, NEW n, NEW X, Served("cleaner", h, n, c, V, X, a, z)
  PROVE  Once(c, X, z)
<1>1. CASE X = V /\ z = a
  BY <1>1
<1>2. CASE h \in V /\ X = (V \ {h}) \cup {n} /\ Asks(h) /\ Asks(n) /\ z = a
  <2>1. ~IsRemoval(n) /\ ~Early(n)
    BY <1>2 DEF IsRemoval, Early, IsCheck, Asks
  <2>2. \A m \in X : m \in V \/ m = n
    BY <1>2
  <2> QED
    BY <1>2, <2>1, <2>2 DEF Once, IsRemoval
<1>3. CASE h \in V /\ X = (V \ {h}) \cup {n} /\ CheckSeen(h, n, a, z)
  <2>1. ~IsRemoval(n) /\ (Early(n) => Early(h))
    BY <1>3 DEF CheckSeen, IsRemoval, Early, IsCheck
  <2>2. \A m \in X : m \in V \/ m = n
    BY <1>3
  <2>3. z.removals = a.removals
    BY <1>3 DEF CheckSeen
  <2> QED
    BY <1>3, <2>1, <2>2, <2>3 DEF Once, IsRemoval
<1>4. CASE h \in V /\ X = (V \ {h}) \cup {n} /\ RemovalSeen(h, n, a, z)
  <2>1. /\ IsRemoval(h) /\ n.type = "StreamRemovalCompleted" /\ n.stream = h.stream
        /\ h.stream \in Streams /\ IsRemoval(n) /\ ~Early(n) /\ a.removals[h.stream] = 0
        /\ h.type = "RemoveStream"
    BY <1>4 DEF RemovalSeen, IsRemoval, Early, IsCheck, Once
  <2>2. /\ \A m \in X : m = n \/ (m \in V /\ m # h)
        /\ \A m \in X : m # n /\ IsRemoval(m) => m.stream # h.stream
    <3>1. h.type # "StreamRemovalCompleted"
      BY <2>1
    <3> QED
      BY <1>4, <2>1, <3>1 DEF Once
  <2>3. \A s \in Streams : z.removals[s] = IF s = h.stream THEN 1 ELSE a.removals[s]
    BY <1>4, <2>1 DEF RemovalSeen
  <2>4. \A s \in Streams : z.removals[s] \in {0, 1}
    BY <2>3 DEF Once
  <2>5. \A m \in X : m.type = "RemoveStream" => z.removals[m.stream] = 0
    BY <2>1, <2>2, <2>3, WorkStreams DEF Once, IsRemoval
  <2>6. \A m \in X : m.type = "StreamRemovalCompleted" => z.removals[m.stream] = 1
    BY <2>1, <2>2, <2>3, WorkStreams DEF Once, IsRemoval
  <2>7. \A m, k \in X : IsRemoval(m) /\ IsRemoval(k) /\ m.stream = k.stream => m = k
    BY <2>1, <2>2 DEF Once
  <2>8. \A m \in X : IsRemoval(m) => m.stream \notin c.pending
    BY <1>4, <2>1, <2>2 DEF Once
  <2>9. \A s \in Streams : z.removals[s] > 0 => s \notin c.pending
    BY <1>4, <2>1, <2>3 DEF Once
  <2>10. \A m \in X : ~Early(m)
    BY <1>4, <2>1, <2>2 DEF Once
  <2> QED
    BY <2>4, <2>5, <2>6, <2>7, <2>8, <2>9, <2>10 DEF Once
<1> QED
  BY <1>1, <1>2, <1>3, <1>4, SeenOf

(* The streams in an audit are finitely many.                              *)
LEMMA DeletedIsFinite ==
  ASSUME NEW a \in AuditStates, NEW D, D \subseteq a.deleted
  PROVE  IsFiniteSet(D) /\ Cardinality(D) \in Nat
<1>1. D \subseteq Streams
  BY DEF AuditStates
<1> QED
  BY <1>1, MessagesAssumption, FS_Subset, FS_CardinalityType

LEMMA ServedHonest ==
  ASSUME NEW c, NEW V, Sound("cleaner", c, V), Owns(c, V),
         NEW a \in AuditStates, NEW z \in AuditStates, Once(c, V, a), Honest(c, V, a),
         NEW h, NEW n, NEW X, Served("cleaner", h, n, c, V, X, a, z)
  PROVE  Honest(c, X, z)
<1>1. CASE X = V /\ z = a
  BY <1>1
<1>2. CASE h \in V /\ X = (V \ {h}) \cup {n} /\ ((Asks(h) /\ Asks(n) /\ z = a) \/ CheckSeen(h, n, a, z))
  <2>1. ~Deleted(n) /\ ~Deleted(h)
    BY <1>2 DEF CheckSeen, Deleted, Asks
  <2>2. Reported(X) = Reported(V)
    BY <1>2, <2>1 DEF Reported
  <2>3. z.removals = a.removals /\ z.deleted = a.deleted
    BY <1>2 DEF CheckSeen
  <2> QED
    BY <2>2, <2>3 DEF Honest
<1>3. CASE h \in V /\ X = (V \ {h}) \cup {n} /\ RemovalSeen(h, n, a, z)
  <2>1. /\ ~Deleted(h) /\ h.stream \in Streams /\ a.removals[h.stream] = 0
        /\ h.stream \notin a.deleted /\ n.stream = h.stream
        /\ a.deleted \subseteq z.deleted /\ z.deleted \subseteq a.deleted \cup {h.stream}
        /\ a.deleted \subseteq Streams
    BY <1>3 DEF RemovalSeen, Deleted, Once, Honest, AuditStates
  <2>2. \A s \in z.deleted : z.removals[s] > 0
    <3>1. \A s \in a.deleted : a.removals[s] \in Nat /\ a.removals[s] > 0
      BY <2>1 DEF Honest, AuditStates
    <3> QED
      BY <1>3, <2>1, <3>1 DEF RemovalSeen
  <2>3. Reported(X) \subseteq Reported(V) \cup {h.stream}
    BY <1>3, <2>1 DEF Reported
  <2>4. Reported(X) \subseteq z.deleted
    <3>1. Reported(V) \subseteq z.deleted
      BY <2>1 DEF Honest
    <3>2. Deleted(n) => h.stream \in z.deleted
      BY <1>3 DEF RemovalSeen
    <3>3. ~Deleted(n) => Reported(X) \subseteq Reported(V)
      BY <1>3 DEF Reported
    <3> QED
      BY <2>3, <3>1, <3>2, <3>3
  <2>5. ASSUME c.running
        PROVE  c.removedCount <= Cardinality(z.deleted \ Reported(X))
    <3>1. PICK D, E : D = a.deleted \ Reported(V) /\ E = z.deleted \ Reported(X)
      OBVIOUS
    <3>2. D \subseteq E
      BY <2>1, <2>3, <3>1
    <3>3. IsFiniteSet(E) /\ Cardinality(E) \in Nat /\ Cardinality(D) \in Nat
      BY <3>1, DeletedIsFinite
    <3>4. Cardinality(D) <= Cardinality(E)
      BY <3>2, <3>3, FS_Subset
    <3>5. c.removedCount \in Nat /\ c.removedCount <= Cardinality(D)
      BY <2>5, <3>1 DEF Honest, Sound, StatesOf, CleanerStates
    <3> QED
      BY <3>1, <3>3, <3>4, <3>5
  <2> QED
    BY <2>2, <2>4, <2>5 DEF Honest
<1> QED
  BY <1>1, <1>2, <1>3, SeenOf

-----------------------------------------------------------------------------
(* The cleaner handles a message: its audit only changes with the cycle.   *)

(* The work of the cleaner while the list is under way.                    *)
LEMMA ListingWork ==
  ASSUME NEW c, NEW V, Sound("cleaner", c, V), Owns(c, V), NEW h, NEW d, NEW X,
         ListArrived("cleaner", h, c, V, d, X)
  PROVE  /\ c.running /\ d.running /\ c.outstanding = 0
         /\ d.pending = c.pending /\ d.removedCount = c.removedCount
         /\ \A m \in X : /\ m.type \notin {"StreamHealthChecked", "RemoveStream"}
                         /\ ~IsRemoval(m) /\ ~Deleted(m)
<1>1. /\ h \in V /\ Current(c, h) /\ h.type = "StreamListFetched"
      /\ d = [c EXCEPT !.outstanding = Len(h.streams)]
      /\ X = (V \ {h}) \cup ChecksOf(h, "cleaner")
  BY DEF ListArrived
<1>2. c.outstanding = 0 /\ Runs(c, V) = {} /\ c.running
  BY <1>1 DEF Sound, Current, Asks
<1>3. /\ d.running = c.running /\ d.pending = c.pending
      /\ d.removedCount = c.removedCount
  BY <1>1 DEF Sound, StatesOf, CleanerStates
<1>4. \A m \in V : Asks(m)
  BY <1>2 DEF Owns, Runs, RunOf
<1>5. \A m \in ChecksOf(h, "cleaner") : m.type = "CheckStreamHealth"
  BY DEF ChecksOf, CheckStreamHealth
<1> QED
  BY <1>1, <1>2, <1>3, <1>4, <1>5 DEF Asks, IsRemoval, Deleted

(* Either nothing is asked for, no work is left over and the audit begins  *)
(* anew, or the audit stays as it is.                                      *)
LEMMA WorksAre ==
  ASSUME NEW c, NEW V, Sound("cleaner", c, V), Owns(c, V), NEW a, Counted("cleaner", c, V, a),
         NEW h, NEW d, NEW X, NEW z, Works("cleaner", h, c, V, d, X, a, z)
  PROVE  \/ X = V /\ z = a /\ d = c
         \/ /\ z = NewAudit /\ d.pending \subseteq c.pending
            /\ \A m \in X : /\ m.type \notin {"StreamHealthChecked", "RemoveStream"}
                            /\ ~IsRemoval(m) /\ ~Deleted(m)
            /\ \/ Begun("cleaner", h, c, V, d, X)
               \/ c.running /\ a = NewAudit /\ d.removedCount = c.removedCount
         \/ z = a /\ NoList("cleaner", h, c, V, d, X)
         \/ z = a /\ \E n : Advanced("cleaner", h, c, V, d, X, n)
         \/ z = a /\ Closed("cleaner", h, c, V, d, X)
<1>1. z = IF d.running /\ ~c.running THEN NewAudit ELSE a
  BY DEF Works
<1>2. CASE Ignored(h, c, V, d, X)
  BY <1>1, <1>2 DEF Ignored, Owns, Current
<1>3. CASE Begun("cleaner", h, c, V, d, X)
  <2>1. d.running /\ ~c.running /\ d.pending = {}
    BY <1>3 DEF Begun
  <2>2. V = {}
    BY <2>1 DEF Owns
  <2>3. \A m \in X : m.type = "FetchStreamList"
    BY <1>3, <2>2 DEF Begun
  <2>4. \A m \in X : /\ m.type \notin {"StreamHealthChecked", "RemoveStream"}
                      /\ ~IsRemoval(m) /\ ~Deleted(m)
    BY <2>3 DEF IsRemoval, Deleted
  <2>5. z = NewAudit /\ d.pending \subseteq c.pending
    BY <1>1, <2>1
  <2> QED
    BY <1>3, <2>4, <2>5, Zenon
<1>4. CASE NoList("cleaner", h, c, V, d, X)
  BY <1>1, <1>4 DEF NoList
<1>5. CASE ListArrived("cleaner", h, c, V, d, X)
  BY <1>1, <1>5, ListingWork DEF Counted
<1>6. CASE Suspected(h, c, V, d, X) \/ Condemned("cleaner", h, c, V, d, X)
  <2>1. PICK n : Advanced("cleaner", h, c, V, d, X, n)
    BY <1>6, AdvancedIs DEF Requesters
  <2> QED
    BY <1>1, <2>1 DEF Advanced
<1>7. CASE Closed("cleaner", h, c, V, d, X)
  BY <1>1, <1>7 DEF Closed, Current
<1> QED
  BY <1>2, <1>3, <1>4, <1>5, <1>6, <1>7 DEF Works, Handled, Aborted

LEMMA WorksCareful ==
  ASSUME NEW c, NEW V, Sound("cleaner", c, V), Owns(c, V), NEW a \in AuditStates,
         Counted("cleaner", c, V, a), Careful(c, V, a),
         NEW h, NEW d, NEW X, NEW z, Works("cleaner", h, c, V, d, X, a, z)
  PROVE  Careful(d, X, z)
<1>1. CASE X = V /\ z = a /\ d = c
  BY <1>1
<1>2. CASE /\ z = NewAudit /\ d.pending \subseteq c.pending
           /\ \A m \in X : /\ m.type \notin {"StreamHealthChecked", "RemoveStream"}
                           /\ ~IsRemoval(m) /\ ~Deleted(m)
           /\ \/ Begun("cleaner", h, c, V, d, X)
              \/ c.running /\ a = NewAudit /\ d.removedCount = c.removedCount
  <2>1. d.pending = {}
    <3>1. CASE a = NewAudit
      <4>1. \A s \in c.pending : s \in Streams /\ 1 \in NewAudit.missed[s]
        BY <3>1, WorkStreams DEF Careful
      <4> QED
        BY <1>2, <4>1, NewAuditIs
    <3> QED
      BY <1>2, <3>1 DEF Begun
  <2> QED
    BY <1>2, <2>1, NewAuditIs DEF Careful, FoundNothing
<1>3. CASE z = a /\ (NoList("cleaner", h, c, V, d, X) \/ Closed("cleaner", h, c, V, d, X))
  BY <1>3 DEF NoList, Closed, Careful
<1>4. CASE z = a /\ \E n : Advanced("cleaner", h, c, V, d, X, n)
  <2>1. PICK n : Advanced("cleaner", h, c, V, d, X, n)
    BY <1>4
  <2>2. /\ h \in V /\ X = (V \ {h}) \cup {n} /\ n.stream = h.stream
        /\ h.attempt \in a.missed[h.stream] /\ h.stream \in Streams
        /\ ~FoundNothing(n)
    BY <2>1, WorkStreams
    DEF Advanced, Careful, RunOf, FoundNothing, IsCheck, SecondCheck, CheckStreamHealth,
        RemoveStream
  <2>3. CASE h.attempt = 1 /\ n = SecondCheck(h) /\ d.pending = c.pending \cup {h.stream}
    <3>1. n.type # "RemoveStream"
      BY <2>3 DEF SecondCheck, CheckStreamHealth
    <3> QED
      BY <1>4, <2>2, <2>3, <3>1 DEF Careful
  <2>4. CASE /\ h.attempt = 2 /\ n = RemoveStream(h)
             /\ h.stream \in c.pending /\ d.pending = c.pending \ {h.stream}
    <3>1. 1 \in a.missed[h.stream] /\ 2 \in a.missed[h.stream]
      BY <2>2, <2>4 DEF Careful
    <3>2. a.missed[h.stream] \subseteq {1, 2}
      BY <2>2 DEF AuditStates, Attempts
    <3>3. a.missed[n.stream] = Attempts
      BY <2>2, <3>1, <3>2 DEF Attempts
    <3> QED
      BY <1>4, <2>2, <2>4, <3>3 DEF Careful
  <2> QED
    BY <2>1, <2>3, <2>4 DEF Advanced
<1> QED
  BY <1>1, <1>2, <1>3, <1>4, WorksAre

LEMMA WorksOnce ==
  ASSUME NEW c, NEW V, Sound("cleaner", c, V), Owns(c, V), NEW a \in AuditStates,
         Counted("cleaner", c, V, a), Once(c, V, a),
         NEW h, NEW d, NEW X, NEW z, Works("cleaner", h, c, V, d, X, a, z),
         h \in V /\ Late(h) => \A m \in V : ~Early(m)
  PROVE  Once(d, X, z)
<1>1. CASE X = V /\ z = a /\ d = c
  BY <1>1
<1>2. CASE /\ z = NewAudit /\ d.pending \subseteq c.pending
           /\ \A m \in X : /\ m.type \notin {"StreamHealthChecked", "RemoveStream"}
                           /\ ~IsRemoval(m) /\ ~Deleted(m)
  BY <1>2, NewAuditIs DEF Once, IsRemoval
<1>3. CASE z = a /\ (NoList("cleaner", h, c, V, d, X) \/ Closed("cleaner", h, c, V, d, X))
  BY <1>3 DEF NoList, Closed, Once
<1>4. CASE z = a /\ \E n : Advanced("cleaner", h, c, V, d, X, n)
  <2>1. PICK n : Advanced("cleaner", h, c, V, d, X, n)
    BY <1>4
  <2>2. /\ h \in V /\ X = (V \ {h}) \cup {n} /\ n.stream = h.stream /\ FoundNothing(h)
        /\ h.stream \in Streams /\ IsCheck(h) /\ h.requestedBy = "cleaner"
    BY <2>1, WorkStreams DEF Advanced, RunOf, FoundNothing, IsCheck
  <2>3. \A m \in X : m = n \/ m \in V
    BY <2>2
  <2>4. CASE h.attempt = 1 /\ n = SecondCheck(h) /\ d.pending = c.pending \cup {h.stream}
    <3>1. ~IsRemoval(n) /\ ~Early(n)
      BY <2>4 DEF SecondCheck, CheckStreamHealth, IsRemoval, Early
    <3>2. Early(h)
      BY <2>2, <2>4 DEF Early
    <3>3. (\A m \in V : ~IsRemoval(m)) /\ \A s \in Streams : ~(a.removals[s] > 0)
      BY <2>2, <3>2 DEF Once
    <3>4. \A m \in X : ~IsRemoval(m)
      BY <2>3, <3>1, <3>3
    <3> QED
      BY <1>4, <3>3, <3>4 DEF Once, IsRemoval
  <2>5. CASE /\ h.attempt = 2 /\ n = RemoveStream(h)
             /\ h.stream \in c.pending /\ d.pending = c.pending \ {h.stream}
    <3>1. /\ n.type = "RemoveStream" /\ IsRemoval(n) /\ ~Early(n)
      BY <2>5 DEF RemoveStream, IsRemoval, Early, IsCheck
    <3>2. \A m \in V : ~Early(m)
      BY <2>2, <2>5 DEF Late
    <3>3. a.removals[h.stream] = 0
      BY <2>2, <2>5 DEF Once
    <3>4. \A m \in V : IsRemoval(m) => m.stream # h.stream
      BY <2>5 DEF Once
    <3>5. \A m \in X : m.type = "RemoveStream" => a.removals[m.stream] = 0
      BY <2>2, <2>3, <3>3 DEF Once
    <3>6. \A m \in X : m.type = "StreamRemovalCompleted" => a.removals[m.stream] = 1
      BY <2>3, <3>1 DEF Once
    <3>7. \A m, k \in X : IsRemoval(m) /\ IsRemoval(k) /\ m.stream = k.stream => m = k
      BY <2>2, <2>3, <3>4 DEF Once
    <3>8. \A m \in X : IsRemoval(m) => m.stream \notin d.pending
      BY <2>2, <2>3, <2>5 DEF Once
    <3>9. \A m \in X : ~Early(m)
      BY <2>3, <3>1, <3>2
    <3> QED
      BY <1>4, <2>5, <3>5, <3>6, <3>7, <3>8, <3>9 DEF Once
  <2> QED
    BY <2>1, <2>4, <2>5 DEF Advanced
<1> QED
  BY <1>1, <1>2, <1>3, <1>4, WorksAre

(* A deletion is counted when its answer is handled, and not before.       *)
LEMMA ClosedHonest ==
  ASSUME NEW c, NEW V, Sound("cleaner", c, V), NEW a \in AuditStates,
         Once(c, V, a), Honest(c, V, a),
         NEW h, NEW d, NEW X, Closed("cleaner", h, c, V, d, X)
  PROVE  /\ Reported(X) \subseteq a.deleted
         /\ d.removedCount <= Cardinality(a.deleted \ Reported(X))
<1>1. PICK A, P, Q : A = a.deleted /\ P = Reported(V) /\ Q = Reported(X)
  OBVIOUS
<1>2. /\ h \in V /\ c.running /\ X = V \ {h}
      /\ d.removedCount = IF Deleted(h) THEN c.removedCount + 1 ELSE c.removedCount
  BY DEF Closed, Current
<1>3. P \subseteq A /\ c.removedCount <= Cardinality(A \ P)
  BY <1>1, <1>2 DEF Honest
<1>4. c.removedCount \in Nat
  BY DEF Sound, StatesOf, CleanerStates
<1>5. IsFiniteSet(A \ P) /\ Cardinality(A \ P) \in Nat
  BY <1>1, DeletedIsFinite
<1>6. CASE Deleted(h)
  <2>1. h.stream \in P
    BY <1>1, <1>2, <1>6 DEF Reported
  <2>2. Q = P \ {h.stream}
    <3>1. \A m \in X : Deleted(m) => m.stream # h.stream
      BY <1>2, <1>6 DEF Once, Deleted, IsRemoval
    <3> QED
      BY <1>1, <1>2, <3>1 DEF Reported
  <2>3. A \ Q = (A \ P) \cup {h.stream} /\ h.stream \notin A \ P
    BY <1>3, <2>1, <2>2
  <2>4. Cardinality(A \ Q) = Cardinality(A \ P) + 1
    BY <1>5, <2>3, FS_AddElement
  <2>5. Q \subseteq A
    BY <1>3, <2>2
  <2>6. c.removedCount + 1 <= Cardinality(A \ Q)
    BY <1>3, <1>4, <1>5, <2>4
  <2> QED
    BY <1>1, <1>2, <1>6, <2>5, <2>6
<1>7. CASE ~Deleted(h)
  <2>1. Q = P
    BY <1>1, <1>2, <1>7 DEF Reported
  <2> QED
    BY <1>1, <1>2, <1>3, <1>7, <2>1
<1> QED
  BY <1>6, <1>7

LEMMA WorksHonest ==
  ASSUME NEW c, NEW V, Sound("cleaner", c, V), Owns(c, V), NEW a \in AuditStates,
         Counted("cleaner", c, V, a), Once(c, V, a), Honest(c, V, a),
         NEW h, NEW d, NEW X, NEW z, Works("cleaner", h, c, V, d, X, a, z)
  PROVE  Honest(d, X, z)
<1>1. CASE X = V /\ z = a /\ d = c
  BY <1>1
<1>2. CASE /\ z = NewAudit
           /\ \A m \in X : ~Deleted(m)
           /\ \/ Begun("cleaner", h, c, V, d, X)
              \/ c.running /\ a = NewAudit /\ d.removedCount = c.removedCount
  <2>1. Reported(X) = {} /\ z.deleted = {} /\ z.deleted \ Reported(X) = {}
    BY <1>2, NewAuditIs DEF Reported
  <2>2. d.removedCount <= 0
    <3>1. CASE Begun("cleaner", h, c, V, d, X)
      BY <3>1 DEF Begun
    <3>2. CASE c.running /\ a = NewAudit /\ d.removedCount = c.removedCount
      <4>1. NewAudit.deleted \ Reported(V) = {}
        BY NewAuditIs
      <4> QED
        BY <3>2, <4>1, FS_EmptySet DEF Honest
    <3> QED
      BY <1>2, <3>1, <3>2
  <2> QED
    BY <2>1, <2>2, FS_EmptySet DEF Honest
<1>3. CASE z = a /\ NoList("cleaner", h, c, V, d, X)
  <2>1. /\ X = V \ {h} /\ ~Deleted(h) /\ ~d.running
    BY <1>3 DEF NoList, Deleted
  <2>2. Reported(X) = Reported(V)
    BY <2>1 DEF Reported
  <2> QED
    BY <1>3, <2>1, <2>2 DEF Honest
<1>4. CASE z = a /\ \E n : Advanced("cleaner", h, c, V, d, X, n)
  <2>1. PICK n : Advanced("cleaner", h, c, V, d, X, n)
    BY <1>4
  <2>2. /\ X = (V \ {h}) \cup {n} /\ ~Deleted(h) /\ ~Deleted(n)
        /\ d.running = c.running /\ d.removedCount = c.removedCount
    BY <2>1 DEF Advanced, FoundNothing, Deleted, RemovedBy, SecondCheck, CheckStreamHealth,
         RemoveStream
  <2>3. Reported(X) = Reported(V)
    BY <2>2 DEF Reported
  <2> QED
    BY <1>4, <2>2, <2>3 DEF Honest
<1>5. CASE z = a /\ Closed("cleaner", h, c, V, d, X)
  BY <1>5, ClosedHonest DEF Honest
<1> QED
  BY <1>1, <1>2, <1>3, <1>4, <1>5, WorksAre

-----------------------------------------------------------------------------
(* What the audit notes of the answer n to a check, or to a removal.       *)
CheckNoted(m, n, a, z) ==
  /\ z \in AuditStates /\ z.removals = a.removals /\ z.deleted = a.deleted
  /\ z.alive = IF ~n.error /\ n.hasProducer THEN a.alive \cup {m.entry} ELSE a.alive
  /\ z.failed = IF n.error THEN a.failed \cup {m.entry} ELSE a.failed
  /\ \A s \in Streams :
       z.missed[s] = IF ~n.error /\ ~n.hasProducer /\ s = m.stream
                     THEN a.missed[s] \cup {m.attempt} ELSE a.missed[s]

RemovalNoted(m, a, z) ==
  /\ z \in AuditStates /\ z.missed = a.missed
  /\ z.alive = a.alive /\ z.failed = a.failed
  /\ \A s \in Streams :
       z.removals[s] = IF s = m.stream THEN a.removals[s] + 1 ELSE a.removals[s]
  /\ a.deleted \subseteq z.deleted /\ z.deleted \subseteq a.deleted \cup {m.stream}
  /\ status'[m.stream] # status[m.stream] => m.stream \in z.deleted

LEMMA CheckObservedIs ==
  ASSUME NEW m \in Message, m.type = "CheckStreamHealth", NEW a \in AuditStates,
         NEW n, n = LastPosted("master"), NEW z, z = CheckObserved(m, a)
  PROVE  CheckNoted(m, n, a, z)
<1>1. PICK s, e, t : /\ s = m.stream /\ e = m.entry /\ t = m.attempt
                     /\ s \in Streams /\ e \in Nat /\ t \in Attempts
  BY FieldsOfMessages
<1>2. CASE n.error
  <2>1. z = [a EXCEPT !.failed = @ \union {e}]
    BY <1>1, <1>2 DEF CheckObserved
  <2> QED
    BY <1>1, <1>2, <2>1 DEF AuditStates, CheckNoted
<1>3. CASE ~n.error /\ n.hasProducer
  <2>1. z = [a EXCEPT !.alive = @ \union {e}]
    BY <1>1, <1>3 DEF CheckObserved
  <2> QED
    BY <1>1, <1>3, <2>1 DEF AuditStates, CheckNoted
<1>4. CASE ~n.error /\ ~n.hasProducer
  <2>1. z = [a EXCEPT !.missed[s] = @ \union {t}]
    BY <1>1, <1>4 DEF CheckObserved
  <2>2. a.missed[s] \cup {t} \in SUBSET Attempts
    BY <1>1 DEF AuditStates
  <2>3. PICK f : f = [a.missed EXCEPT ![s] = @ \union {t}]
    OBVIOUS
  <2>4. /\ f \in [Streams -> SUBSET Attempts]
        /\ \A x \in Streams : f[x] = IF x = s THEN a.missed[x] \cup {t} ELSE a.missed[x]
    BY <1>1, <2>2, <2>3 DEF AuditStates
  <2>5. z = [a EXCEPT !.missed = f]
    BY <2>1, <2>3
  <2> QED
    BY <1>1, <1>4, <2>4, <2>5 DEF AuditStates, CheckNoted
<1> QED
  BY <1>2, <1>3, <1>4

LEMMA RemovalObservedIs ==
  ASSUME NEW m \in Message, m.type = "RemoveStream", NEW a \in AuditStates,
         NEW z, z = RemovalObserved(m, a)
  PROVE  RemovalNoted(m, a, z)
<1>1. PICK s, D : /\ s = m.stream /\ s \in Streams
                  /\ D = {x \in {m.stream} : status'[x] # status[x]}
  BY FieldsOfMessages
<1>2. D \subseteq {s} /\ (status'[s] # status[s] => s \in D)
  BY <1>1
<1>3. PICK f : f = [a.removals EXCEPT ![s] = @ + 1]
  OBVIOUS
<1>4. /\ f \in [Streams -> Nat]
      /\ \A x \in Streams : f[x] = IF x = s THEN a.removals[x] + 1 ELSE a.removals[x]
  BY <1>1, <1>3 DEF AuditStates
<1>5. z = [a EXCEPT !.removals = f, !.deleted = @ \union D]
  BY <1>1, <1>3 DEF RemovalObserved
<1>6. PICK E \in SUBSET Streams : E = a.deleted \cup D
  BY <1>1, <1>2 DEF AuditStates
<1>7. z = [a EXCEPT !.removals = f, !.deleted = E]
  BY <1>5, <1>6
<1>8. /\ z \in AuditStates /\ z.missed = a.missed /\ z.removals = f
      /\ z.alive = a.alive /\ z.failed = a.failed /\ z.deleted = E
  BY <1>4, <1>7 DEF AuditStates
<1> QED
  BY <1>1, <1>2, <1>4, <1>6, <1>8 DEF RemovalNoted

(* The audits of both requesters.                                          *)
AuditOK == audit \in [Requesters -> AuditStates]

(* A step in which go2rtc answers, as the audit of r sees it.              *)
LEMMA ServesSeen ==
  ASSUME BooksInv, AuditOK, AuditStep, NEW n, NEW msgs, Serves(n, msgs),
         NEW r \in Requesters, NEW a, a = audit[r], NEW z, z = audit'[r]
  PROVE  z \in AuditStates /\ Seen(r, Msg("go2rtc"), n, Actor(r), a, z)
<1>1. PICK h : h = Msg("go2rtc")
  OBVIOUS
<1>2. h \in Message /\ Reply(h, n) /\ audit' = Observed(h) /\ a \in AuditStates
  <2>1. h \in Message
    <3>1. PICK q \in Seq(Message) : q = box["go2rtc"]
      BY DEF BooksInv, TypeOK, Actors
    <3> QED
      BY <1>1, <3>1 DEF Serves, Msg
  <2> QED
    BY <1>1, <2>1 DEF Serves, Unserved, AuditStep, AuditOK
<1>3. n = LastPosted("master")
  <2>1. PICK b, q, k : b = Taken("go2rtc") /\ q = b["master"] /\ k = msgs
    OBVIOUS
  <2>2. q \in Seq(Message) /\ k \in Seq(Message) /\ Len(k) \in Nat \ {0} /\ k[Len(k)] = n
    <3>1. BoxOK(b)
      BY <2>1, TakenOK DEF BooksInv, TypeOK, BoxOK, Actors, Serves
    <3> QED
      BY <2>1, <3>1 DEF BoxOK, Actors, Serves
  <2>3. box'["master"] = q \o k
    <3>1. BoxOK(b)
      BY <2>1, TakenOK DEF BooksInv, TypeOK, BoxOK, Actors, Serves
    <3>2. box' = Post(b, "master", k)
      BY <2>1 DEF Serves
    <3> QED
      BY <2>1, <3>1, <3>2 DEF Post, BoxOK, Actors
  <2>4. PICK p : p = q \o k
    OBVIOUS
  <2>5. p[Len(p)] = n
    BY <2>2, <2>4
  <2> QED
    BY <2>3, <2>4, <2>5 DEF LastPosted
<1>4. CASE h.type = "CheckStreamHealth"
  <2>1. n.type = "StreamHealthChecked"
    BY <1>2, <1>4 DEF Reply, StreamHealthChecked
  <2>2. CASE h.requestedBy = r /\ h.triggeredAt = Actor(r).triggeredAt
    <3>1. audit' = [audit EXCEPT ![r] = CheckObserved(h, @)]
      BY <1>2, <1>4, <2>2 DEF Observed, Actor
    <3>2. z = CheckObserved(h, a)
      BY <3>1 DEF AuditOK
    <3>3. CheckNoted(h, n, a, z)
      BY <1>2, <1>3, <1>4, <3>2, CheckObservedIs
    <3> QED
      BY <1>1, <1>4, <2>1, <2>2, <3>3 DEF Seen, FoundAlive, FoundNothing, CheckNoted
  <2>3. CASE ~(h.requestedBy = r /\ h.triggeredAt = Actor(r).triggeredAt)
    <3>1. h.requestedBy \in Requesters
      BY <1>2, <1>4, FieldsOfMessages
    <3>2. z = a
      <4>1. \/ audit' = audit
            \/ /\ h.requestedBy # r
               /\ audit' = [audit EXCEPT ![h.requestedBy] = CheckObserved(h, @)]
        BY <1>2, <1>4, <2>3 DEF Observed, Actor
      <4> QED
        BY <4>1 DEF AuditOK
    <3> QED
      BY <1>1, <1>2, <1>4, <2>3, <3>2 DEF Seen
  <2> QED
    BY <2>2, <2>3
<1>5. CASE h.type = "RemoveStream"
  <2>1. audit' = [audit EXCEPT !["cleaner"] = RemovalObserved(h, @)]
    BY <1>2, <1>5 DEF Observed
  <2>2. CASE r = "cleaner"
    <3>1. z = RemovalObserved(h, a)
      BY <2>1, <2>2 DEF AuditOK
    <3>2. RemovalNoted(h, a, z)
      BY <1>2, <1>5, <3>1, RemovalObservedIs
    <3>3. Deleted(n) => h.stream \in z.deleted
      <4>1. n.stream = h.stream
        BY <1>2, <1>5 DEF Reply, StreamRemovalCompleted
      <4> QED
        BY <3>2, <4>1 DEF Serves, RemovalNoted
    <3> QED
      BY <1>1, <1>5, <2>2, <3>2, <3>3 DEF Seen, RemovalNoted
  <2>3. CASE r # "cleaner"
    <3>1. z = a
      BY <2>1, <2>3 DEF AuditOK
    <3> QED
      BY <1>1, <1>2, <1>5, <2>3, <3>1 DEF Seen
  <2> QED
    BY <2>2, <2>3
<1>6. CASE h.type \notin {"CheckStreamHealth", "RemoveStream"}
  <2>1. z = a
    BY <1>2, <1>6 DEF Observed
  <2> QED
    BY <1>1, <1>2, <1>6, <2>1 DEF Seen
<1> QED
  BY <1>4, <1>5, <1>6

(* When nobody is served, the audit of a requester changes with its run.   *)
LEMMA UnservedAudit ==
  ASSUME AuditOK, Unserved, AuditStep, NEW r \in Requesters,
         NEW d, d = IF r = "cleaner" THEN cleaner' ELSE count'
  PROVE  audit'[r] = IF d.running /\ ~Actor(r).running THEN NewAudit ELSE audit[r]
<1>1. PICK u, v :
        /\ u = IF cleaner'.running /\ ~cleaner.running THEN NewAudit ELSE audit["cleaner"]
        /\ v = IF count'.running /\ ~count.running THEN NewAudit ELSE audit["count"]
  OBVIOUS
<1>2. audit' = [audit EXCEPT !["cleaner"] = u, !["count"] = v]
  BY <1>1 DEF AuditStep, Unserved
<1>3. audit'["cleaner"] = u /\ audit'["count"] = v
  BY <1>2 DEF AuditOK, Requesters
<1> QED
  BY <1>1, <1>3 DEF Requesters, Actor

(* All the work of the cleaner belongs to its running cycle.               *)
LEMMA CleanerOwns ==
  ASSUME BooksInv
  PROVE  Owns(cleaner, WorkInTransit("cleaner"))
<1>1. Owned(cleaner, Carried(box, sleeping, "cleaner"))
  BY DEF BooksInv, Books, Kept, Actor, Requesters
<1> QED
  BY <1>1 DEF Owned, Owns, WorkInTransit, Work

(* The ways in which a step moves on r's fields c, its work V and the      *)
(* audit a of its run.                                                     *)
Moves(r, c, V, d, X, a, z) ==
  \/ d = c /\ X = V /\ z = a
  \/ d = c /\ \E n : Served(r, Msg("go2rtc"), n, c, V, X, a, z)
  \/ /\ IF r = "cleaner" THEN CleanerStep ELSE CountStep
     /\ Unserved
     /\ Works(r, Msg(r), c, V, d, X, a, z)

LEMMA StepMoves ==
  ASSUME BooksInv, AuditOK, [AuditNext]_auditVars, NEW r \in Requesters,
         NEW c, c = Actor(r), NEW d, d = IF r = "cleaner" THEN cleaner' ELSE count',
         NEW V, V = WorkInTransit(r), NEW X, X = WorkInTransit(r)',
         NEW a, a = audit[r], NEW z, z = audit'[r]
  PROVE  z \in AuditStates /\ Moves(r, c, V, d, X, a, z)
<1>1. a \in AuditStates /\ NewAudit \in AuditStates
  BY NewAuditIs DEF AuditOK
<1>2. ASSUME Quiet(r), AuditStep
      PROVE  z \in AuditStates /\ Moves(r, c, V, d, X, a, z)
  <2>1. d = c /\ X = V /\ Unserved
    BY <1>2 DEF Quiet, Actor
  <2>2. z = a
    BY <1>2, <2>1, UnservedAudit
  <2> QED
    BY <1>1, <2>1, <2>2 DEF Moves
<1>3. ASSUME NEW self \in Requesters, self # r, box[self] # <<>>, Sends(self), d = c,
             AuditStep
      PROVE  z \in AuditStates /\ Moves(r, c, V, d, X, a, z)
  <2>1. BoxOK(box) /\ Books(r)
    BY DEF BooksInv, TypeOK, BoxOK
  <2>2. WorkInTransit(r)' = WorkInTransit(r) /\ Unserved
    BY <1>3, <2>1, SendsWork, SendsUnserved
  <2>3. z = a
    BY <1>3, <2>2, UnservedAudit
  <2> QED
    BY <1>1, <1>3, <2>2, <2>3 DEF Moves
<1>4. CASE (MasterStep \/ CronFires \/ TickFires) /\ AuditStep
  BY <1>2, <1>4, MasterQuiet, SchedulersQuiet
<1>5. CASE (RedisStep \/ ActionStep \/ CameraChanges) /\ AuditStep
  BY <1>2, <1>5, OthersQuiet
<1>6. CASE (\E check \in sleeping : WakeUp(check)) /\ AuditStep
  BY <1>2, <1>6, WakeUpQuiet
<1>7. CASE UNCHANGED auditVars
  <2>1. UNCHANGED vars /\ z = a
    BY <1>7 DEF auditVars
  <2>2. Quiet(r)
    BY <2>1, OthersQuiet
  <2> QED
    BY <1>1, <2>1, <2>2 DEF Quiet, Actor, Moves
<1>8. CASE Go2RTCStep /\ AuditStep
  <2>1. PICK n, msgs : Serves(n, msgs)
    BY <1>8, Go2RTCServes
  <2>2. PICK h : h = Msg("go2rtc")
    OBVIOUS
  <2>3. Answered(h, n, V, X)
    <3>1. Answered(Msg("go2rtc"), n, WorkInTransit(r), WorkInTransit(r)')
      BY <2>1, ServedWork
    <3> QED
      BY <2>2, <3>1
  <2>4. z \in AuditStates /\ Seen(r, h, n, c, a, z)
    BY <1>8, <2>1, <2>2, ServesSeen
  <2>5. d = c /\ Reply(h, n) /\ box["go2rtc"] # <<>>
    BY <2>1, <2>2 DEF Serves, Actor
  <2>6. h \in Message /\ (h \in V <=> OnBehalfOf(h, r))
    <3>1. BoxOK(box) /\ Books(r) /\ "go2rtc" \in Carriers(r)
      BY DEF BooksInv, TypeOK, BoxOK, Carriers
    <3>2. h \in V <=> OnBehalfOf(h, r) /\ h.type \in WorkTypes
      BY <2>2, <2>5, <3>1, HeadOfWork
    <3>3. h.type \in WorkTypes
      BY <2>5, ReplyIsAlike
    <3>4. h \in Message
      <4>1. PICK q \in Seq(Message) : q = box["go2rtc"]
        BY <3>1 DEF BoxOK, Actors
      <4> QED
        BY <2>2, <2>5, <4>1 DEF Msg
    <3> QED
      BY <3>2, <3>3, <3>4
  <2>7. Served(r, h, n, c, V, X, a, z)
    BY <2>3, <2>4, <2>5, <2>6 DEF Served
  <2> QED
    BY <2>2, <2>4, <2>5, <2>7 DEF Moves
<1>9. CASE CleanerStep /\ AuditStep
  <2>1. box["cleaner"] # <<>> /\ Sends("cleaner") /\ "cleaner" \in Requesters
    BY <1>9, CleanerSends DEF Requesters
  <2>2. CASE r = "cleaner"
    <3>1. Handled(r, Msg(r), cleaner, WorkInTransit(r), cleaner', WorkInTransit(r)')
      BY <1>9, <2>2, CleanerHandlesWork
    <3>2. Handled(r, Msg(r), c, V, d, X)
      BY <2>2, <3>1 DEF Actor
    <3>3. Unserved
      BY <2>1, SendsUnserved DEF BooksInv, TypeOK, BoxOK
    <3>4. z = IF d.running /\ ~c.running THEN NewAudit ELSE a
      BY <1>9, <3>3, UnservedAudit
    <3>5. Works(r, Msg(r), c, V, d, X, a, z)
      BY <3>2, <3>4 DEF Works
    <3> QED
      BY <1>1, <1>9, <2>2, <3>3, <3>4, <3>5 DEF Moves
  <2>3. CASE r = "count"
    <3>1. d = c /\ "cleaner" # r
      BY <1>9, <2>3 DEF CleanerStep, Actor
    <3> QED
      BY <1>3, <1>9, <2>1, <3>1
  <2> QED
    BY <2>2, <2>3 DEF Requesters
<1>10. CASE CountStep /\ AuditStep
  <2>1. box["count"] # <<>> /\ Sends("count") /\ "count" \in Requesters
    BY <1>10, CountGuarded, CountSends DEF Requesters
  <2>2. CASE r = "count"
    <3>1. Handled(r, Msg(r), count, WorkInTransit(r), count', WorkInTransit(r)')
      BY <1>10, <2>2, CountHandlesWork
    <3>2. Handled(r, Msg(r), c, V, d, X)
      BY <2>2, <3>1 DEF Actor
    <3>3. Unserved
      BY <2>1, SendsUnserved DEF BooksInv, TypeOK, BoxOK
    <3>4. z = IF d.running /\ ~c.running THEN NewAudit ELSE a
      BY <1>10, <3>3, UnservedAudit
    <3>5. Works(r, Msg(r), c, V, d, X, a, z)
      BY <3>2, <3>4 DEF Works
    <3> QED
      BY <1>1, <1>10, <2>2, <3>3, <3>4, <3>5 DEF Moves
  <2>3. CASE r = "cleaner"
    <3>1. d = c /\ "count" # r
      BY <1>10, <2>3 DEF CountStep, Actor
    <3> QED
      BY <1>3, <1>10, <2>1, <3>1
  <2> QED
    BY <2>2, <2>3 DEF Requesters
<1> QED
  BY <1>4, <1>5, <1>6, <1>7, <1>8, <1>9, <1>10 DEF AuditNext, Next

-----------------------------------------------------------------------------
(* The order of the messages of the cleaner's checks: on their way from    *)
(* go2rtc through the master to the cleaner, the first checks of a cycle   *)
(* stay ahead of what comes after them.                                    *)
HasEarly(q) == \E i \in 1 .. Len(q) : Early(q[i])

HasLate(q) == \E i \in 1 .. Len(q) : Late(q[i])

InOrder(q) == \A i, j \in 1 .. Len(q) : Late(q[i]) /\ Early(q[j]) => j < i

InLine(b) ==
  /\ InOrder(b["cleaner"]) /\ InOrder(b["master"]) /\ InOrder(b["go2rtc"])
  /\ HasLate(b["cleaner"]) => ~HasEarly(b["master"]) /\ ~HasEarly(b["go2rtc"])
  /\ HasLate(b["master"]) => ~HasEarly(b["go2rtc"])

(* The messages k may be sent to actor `to'.                               *)
Fits(b, to, k) ==
  /\ InOrder(k)
  /\ to = "cleaner" =>
       /\ HasEarly(k) => ~HasLate(b["cleaner"])
       /\ HasLate(k) => ~HasEarly(b["master"]) /\ ~HasEarly(b["go2rtc"])
  /\ to = "master" =>
       /\ HasEarly(k) => ~HasLate(b["cleaner"]) /\ ~HasLate(b["master"])
       /\ HasLate(k) => ~HasEarly(b["go2rtc"])
  /\ to = "go2rtc" =>
       /\ HasEarly(k) => /\ ~HasLate(b["cleaner"])
                         /\ ~HasLate(b["master"])
                         /\ ~HasLate(b["go2rtc"])

LEMMA TailInOrder ==
  ASSUME NEW q \in Seq(Message), q # <<>>
  PROVE  /\ HasEarly(Tail(q)) => HasEarly(q)
         /\ HasLate(Tail(q)) => HasLate(q)
         /\ Early(Head(q)) => HasEarly(q)
         /\ Late(Head(q)) => HasLate(q)
         /\ InOrder(q) => InOrder(Tail(q))
         /\ InOrder(q) /\ Late(Head(q)) => ~HasEarly(q)
<1>1. PICK p, h : p = Tail(q) /\ h = Head(q)
  OBVIOUS
<1>2. /\ Len(q) \in Nat \ {0} /\ Len(p) = Len(q) - 1 /\ h = q[1]
      /\ \A i \in 1 .. Len(p) : p[i] = q[i + 1] /\ i + 1 \in 1 .. Len(q)
  BY <1>1
<1>3. (HasEarly(p) => HasEarly(q)) /\ (HasLate(p) => HasLate(q))
  BY <1>2 DEF HasEarly, HasLate
<1>4. (Early(h) => HasEarly(q)) /\ (Late(h) => HasLate(q))
  BY <1>2 DEF HasEarly, HasLate
<1>5. ASSUME InOrder(q), NEW i \in 1 .. Len(p), NEW j \in 1 .. Len(p), Late(p[i]), Early(p[j])
      PROVE  j < i
  <2>1. j + 1 < i + 1
    BY <1>2, <1>5 DEF InOrder
  <2> QED
    BY <1>2, <2>1
<1>6. InOrder(q) /\ Late(h) => ~HasEarly(q)
  BY <1>2 DEF InOrder, HasEarly
<1> QED
  BY <1>1, <1>3, <1>4, <1>5, <1>6 DEF InOrder

LEMMA JoinInOrder ==
  ASSUME NEW q \in Seq(Message), NEW k \in Seq(Message)
  PROVE  /\ HasEarly(q \o k) <=> HasEarly(q) \/ HasEarly(k)
         /\ HasLate(q \o k) <=> HasLate(q) \/ HasLate(k)
         /\ InOrder(q) /\ InOrder(k) /\ ~(HasLate(q) /\ HasEarly(k)) => InOrder(q \o k)
<1>1. PICK p, m, n : p = q \o k /\ m = Len(q) /\ n = Len(k)
  OBVIOUS
<1>2. /\ m \in Nat /\ n \in Nat /\ Len(p) = m + n
      /\ \A i \in 1 .. m : i \in 1 .. m + n /\ p[i] = q[i]
      /\ \A i \in 1 .. n : m + i \in 1 .. m + n /\ p[m + i] = k[i]
  BY <1>1
<1>3. \A i \in 1 .. m + n : i \in 1 .. m \/ \E j \in 1 .. n : i = m + j
  <2>1. \A i \in 1 .. m + n : i \in 1 .. m \/ i - m \in 1 .. n
    BY <1>2
  <2>2. \A i \in 1 .. m + n : i = m + (i - m)
    BY <1>2
  <2> QED
    BY <2>1, <2>2
<1>4. /\ \A i \in 1 .. m + n : (\E j \in 1 .. m : p[i] = q[j]) \/ \E j \in 1 .. n : p[i] = k[j]
      /\ \A j \in 1 .. m : \E i \in 1 .. m + n : p[i] = q[j]
      /\ \A j \in 1 .. n : \E i \in 1 .. m + n : p[i] = k[j]
  <2>1. ASSUME NEW i \in 1 .. m + n
        PROVE  (\E j \in 1 .. m : p[i] = q[j]) \/ \E j \in 1 .. n : p[i] = k[j]
    <3>1. CASE i \in 1 .. m
      BY <1>2, <3>1
    <3>2. ASSUME NEW j \in 1 .. n, i = m + j
          PROVE  p[i] = k[j]
      BY <1>2, <3>2
    <3> QED
      BY <1>3, <3>1, <3>2
  <2>2. \A j \in 1 .. m : \E i \in 1 .. m + n : p[i] = q[j]
    BY <1>2
  <2>3. \A j \in 1 .. n : \E i \in 1 .. m + n : p[i] = k[j]
    BY <1>2
  <2> QED
    BY <2>1, <2>2, <2>3
<1>5. 1 .. Len(p) = 1 .. m + n /\ 1 .. Len(q) = 1 .. m /\ 1 .. Len(k) = 1 .. n
  BY <1>1, <1>2
<1>6. HasEarly(p) <=> HasEarly(q) \/ HasEarly(k)
  BY <1>4, <1>5, Zenon DEF HasEarly
<1>7. HasLate(p) <=> HasLate(q) \/ HasLate(k)
  BY <1>4, <1>5, Zenon DEF HasLate
<1>8. ASSUME InOrder(q), InOrder(k), ~(HasLate(q) /\ HasEarly(k)),
             NEW i \in 1 .. m + n, NEW j \in 1 .. m + n, Late(p[i]), Early(p[j])
      PROVE  j < i
  <2>1. CASE i \in 1 .. m /\ j \in 1 .. m
    BY <1>1, <1>2, <1>8, <2>1 DEF InOrder
  <2>2. ASSUME NEW e \in 1 .. n, NEW f \in 1 .. n, i = m + e, j = m + f
        PROVE  j < i
    <3>1. f < e
      BY <1>1, <1>2, <1>8, <2>2 DEF InOrder
    <3> QED
      BY <1>2, <2>2, <3>1
  <2>3. ASSUME i \in 1 .. m, NEW f \in 1 .. n, j = m + f
        PROVE  FALSE
    BY <1>1, <1>2, <1>8, <2>3 DEF HasLate, HasEarly
  <2>4. ASSUME NEW e \in 1 .. n, i = m + e, j \in 1 .. m
        PROVE  j < i
    BY <1>2, <2>4
  <2> QED
    BY <1>3, <2>1, <2>2, <2>3, <2>4
<1> QED
  BY <1>1, <1>2, <1>6, <1>7, <1>8 DEF InOrder

(* A message is taken.                                                     *)
LEMMA TakenInLine ==
  ASSUME BoxOK(box), InLine(box), NEW self \in Actors, box[self] # <<>>,
         NEW b, b = Taken(self)
  PROVE  /\ InLine(b)
         /\ \A a \in {"cleaner", "master", "go2rtc"} :
              /\ HasEarly(b[a]) => HasEarly(box[a])
              /\ HasLate(b[a]) => HasLate(box[a])
<1>1. ASSUME NEW a \in {"cleaner", "master", "go2rtc"}
      PROVE  /\ HasEarly(b[a]) => HasEarly(box[a])
             /\ HasLate(b[a]) => HasLate(box[a])
             /\ InOrder(box[a]) => InOrder(b[a])
  <2>1. a \in Actors
    BY DEF Actors
  <2>2. b[a] = IF a = self THEN Tail(box[a]) ELSE box[a]
    BY <2>1, TakenFrom
  <2>3. CASE a = self
    <3>1. PICK q \in Seq(Message) : q = box[a]
      BY <2>1 DEF BoxOK
    <3> QED
      BY <2>2, <2>3, <3>1, TailInOrder
  <2>4. CASE a # self
    BY <2>2, <2>4
  <2> QED
    BY <2>3, <2>4
<1> QED
  BY <1>1 DEF InLine

(* Messages are sent.                                                      *)
LEMMA PostInLine ==
  ASSUME NEW b, BoxOK(b), InLine(b), NEW to \in Actors, NEW k \in Seq(Message),
         Fits(b, to, k), NEW e, e = Post(b, to, k)
  PROVE  InLine(e)
<1>1. ASSUME NEW a \in {"cleaner", "master", "go2rtc"}
      PROVE  /\ a # to => e[a] = b[a]
             /\ a = to =>
                  /\ HasEarly(e[a]) <=> HasEarly(b[a]) \/ HasEarly(k)
                  /\ HasLate(e[a]) <=> HasLate(b[a]) \/ HasLate(k)
                  /\ InOrder(b[a]) /\ ~(HasLate(b[a]) /\ HasEarly(k)) => InOrder(e[a])
  <2>1. a \in Actors
    BY DEF Actors
  <2>2. CASE a # to
    BY <2>1, <2>2, PostElsewhere
  <2>3. CASE a = to
    <3>1. PICK q \in Seq(Message) : q = b[a]
      BY <2>1 DEF BoxOK
    <3>2. e[a] = q \o k
      BY <2>1, <2>3, <3>1 DEF Post, BoxOK
    <3> QED
      BY <2>3, <3>1, <3>2, JoinInOrder DEF Fits
  <2> QED
    BY <2>2, <2>3
<1>2. CASE to \notin {"cleaner", "master", "go2rtc"}
  BY <1>1, <1>2 DEF InLine
<1>3. CASE to = "cleaner"
  BY <1>1, <1>3 DEF InLine, Fits
<1>4. CASE to = "master"
  BY <1>1, <1>4 DEF InLine, Fits
<1>5. CASE to = "go2rtc"
  BY <1>1, <1>5 DEF InLine, Fits
<1> QED
  BY <1>2, <1>3, <1>4, <1>5

(* A single message that is no first check may always be sent to go2rtc,   *)
(* and one that has nothing to do with checks to everybody.                *)
LEMMA OneFits ==
  ASSUME NEW b, NEW to, NEW n, NEW k, k = <<n>>, ~Early(n), to = "go2rtc" \/ ~Late(n)
  PROVE  Fits(b, to, k)
<1>1. ~HasEarly(k) /\ InOrder(k) /\ (~Late(n) => ~HasLate(k))
  BY DEF HasEarly, HasLate, InOrder
<1> QED
  BY <1>1 DEF Fits

(* A handler that only sends such messages.                                *)
LEMMA HandlerInLine ==
  ASSUME BoxOK(box), InLine(box), NEW self \in Actors, box[self] # <<>>,
         NEW to \in Actors, NEW n \in Message, ~Early(n), to = "go2rtc" \/ ~Late(n),
         box' = Taken(self) \/ box' = Post(Taken(self), to, <<n>>)
  PROVE  InLine(box)'
<1>1. PICK b, k, e : b = Taken(self) /\ k = <<n>> /\ e = box'
  OBVIOUS
<1>2. InLine(b) /\ BoxOK(b) /\ k \in Seq(Message)
  BY <1>1, TakenInLine, TakenOK, OneMessage
<1>3. Fits(b, to, k)
  BY <1>1, OneFits
<1>4. e = b \/ e = Post(b, to, k)
  BY <1>1
<1>5. InLine(e)
  BY <1>2, <1>3, <1>4, PostInLine
<1> QED
  BY <1>1, <1>5 DEF InLine

(* First checks and what comes after them is work of the cleaner.          *)
LEMMA InLineAre ==
  ASSUME NEW m
  PROVE  /\ ~(Early(m) /\ Late(m))
         /\ ~IsCheck(m) => ~Early(m)
         /\ ~IsCheck(m) /\ ~IsRemoval(m) => ~Late(m)
         /\ OnBehalfOf(m, "count") => ~Early(m) /\ ~Late(m)
         /\ Early(m) \/ Late(m) =>
              OnBehalfOf(m, "cleaner") /\ m.type \in WorkTypes /\ ~Asks(m)
BY DEF Early, Late, IsCheck, IsRemoval, OnBehalfOf, WorkTypes, Asks

(* The master passes on what it receives, in its order.                    *)
LEMMA MasterInLine ==
  ASSUME BooksInv, InLine(box), MasterStep
  PROVE  InLine(box)'
<1> DEFINE h == Msg("master")
<1>1. BoxOK(box) /\ {"master", "cleaner", "count", "redis", "action"} \subseteq Actors
  BY DEF BooksInv, TypeOK, BoxOK, Actors
<1>2. box["master"] # <<>>
  BY DEF MasterStep, MasterNext, MasterStartsCleanup, MasterStartsCount,
         MasterForwardsAnswer, MasterForwardsRemoval, MasterRequestsAction,
         MasterDropsReport, MasterPublishesReport, MasterDropsCount,
         MasterPublishesCount, Gets
<1>3. h \in Message
  BY <1>1, <1>2, TakenOK
<1>4. ASSUME NEW to \in Actors, NEW n \in Message, ~IsCheck(n), ~IsRemoval(n),
             box' = Taken("master") \/ box' = Post(Taken("master"), to, <<n>>)
      PROVE  InLine(box)'
  BY <1>1, <1>2, <1>4, InLineAre, HandlerInLine
<1>5. PICK b, k, e : b = Taken("master") /\ k = <<h>> /\ e = Post(b, "cleaner", k)
  OBVIOUS
<1>6. /\ BoxOK(b) /\ InLine(b) /\ k \in Seq(Message)
      /\ \A a \in {"cleaner", "master", "go2rtc"} :
           (HasEarly(b[a]) => HasEarly(box[a])) /\ (HasLate(b[a]) => HasLate(box[a]))
  BY <1>1, <1>2, <1>3, <1>5, TakenOK, TakenInLine, OneMessage
<1>7. /\ InOrder(k) /\ (HasEarly(k) => Early(h)) /\ (HasLate(k) => Late(h))
  BY <1>5, InLineAre DEF InOrder, HasEarly, HasLate
<1>8. Fits(b, "cleaner", k)
  <2>1. PICK q \in Seq(Message) : q = box["master"]
    BY <1>1 DEF BoxOK
  <2>2. /\ Early(h) => HasEarly(q)
        /\ Late(h) => HasLate(q) /\ ~HasEarly(q)
    BY <1>2, <2>1, TailInOrder DEF InLine, Msg
  <2>3. /\ Early(h) => ~HasLate(box["cleaner"])
        /\ Late(h) => ~HasEarly(box["master"]) /\ ~HasEarly(box["go2rtc"])
    BY <2>1, <2>2 DEF InLine
  <2> QED
    BY <1>6, <1>7, <2>3 DEF Fits
<1>9. BoxOK(e) /\ InLine(e)
  BY <1>1, <1>5, <1>6, <1>8, PostInLine, PostOK
<1>10. CASE MasterForwardsAnswer
  <2>1. PICK f : f = Post(e, "count", k)
    OBVIOUS
  <2>2. Fits(e, "count", k)
    BY <1>7 DEF Fits
  <2>3. InLine(f)
    BY <1>1, <1>6, <1>9, <2>1, <2>2, PostInLine
  <2>4. box' = f
    BY <1>5, <1>10, <2>1 DEF MasterForwardsAnswer
  <2> QED
    BY <2>3, <2>4 DEF InLine
<1>11. CASE MasterForwardsRemoval
  <2>1. box' = e
    BY <1>5, <1>11 DEF MasterForwardsRemoval
  <2> QED
    BY <1>9, <2>1 DEF InLine
<1>12. CASE MasterStartsCleanup
  <2>1. PICK t \in Times : box' = Post(Taken("master"), "cleaner", <<CleanupCycleStarted(t)>>)
    BY <1>12 DEF MasterStartsCleanup
  <2>2. PICK n \in Message : n = CleanupCycleStarted(t)
    BY StartsAreMessages DEF Requesters
  <2>3. ~IsCheck(n) /\ ~IsRemoval(n)
    BY <2>2 DEF CleanupCycleStarted, IsCheck, IsRemoval
  <2> QED
    BY <1>1, <1>4, <2>1, <2>2, <2>3
<1>13. CASE MasterStartsCount
  <2>1. h.type = "CountAliveStreamsStarted" /\ box' = Post(Taken("master"), "count", <<h>>)
    BY <1>13 DEF MasterStartsCount, Gets
  <2> QED
    BY <1>1, <1>3, <1>4, <2>1 DEF IsCheck, IsRemoval
<1>14. CASE \/ MasterRequestsAction \/ MasterPublishesReport \/ MasterPublishesCount
            \/ MasterDropsReport \/ MasterDropsCount
  <2>1. PICK n \in Message, to \in {"action", "redis"} :
          /\ n.type \in {"ExecuteAction", "UpdateStreamCount"}
          /\ box' = Taken("master") \/ box' = Post(Taken("master"), to, <<n>>)
    <3>1. h.type \in {"StreamRemoved", "CleanupCycleFinished", "AliveStreamCountCalculated"}
      BY <1>14 DEF MasterRequestsAction, MasterPublishesReport, MasterPublishesCount,
                   MasterDropsReport, MasterDropsCount, Gets
    <3>2. CASE h.type = "StreamRemoved"
      <4>1. PICK n \in Message : n = ExecuteAction(h.stream)
        BY <1>3, <3>2, FieldsOfMessages DEF ExecuteAction, Message, Notices
      <4>2. n.type = "ExecuteAction" /\ box' = Post(Taken("master"), "action", <<n>>)
        BY <1>14, <3>2, <4>1
        DEF ExecuteAction, MasterRequestsAction, MasterPublishesReport, MasterPublishesCount,
            MasterDropsReport, MasterDropsCount, Gets
      <4> QED
        BY <4>2
    <3>3. CASE h.type # "StreamRemoved"
      <4>1. PICK n \in Message : n = UpdateStreamCount(h.aliveStreams)
        BY <1>3, <3>1, <3>3, FieldsOfMessages, ReportsAreMessages
      <4>2. /\ n.type = "UpdateStreamCount"
            /\ box' = Taken("master") \/ box' = Post(Taken("master"), "redis", <<n>>)
        BY <1>14, <3>3, <4>1
        DEF UpdateStreamCount, MasterRequestsAction, MasterPublishesReport,
            MasterPublishesCount, MasterDropsReport, MasterDropsCount, Gets
      <4> QED
        BY <4>2
    <3> QED
      BY <3>2, <3>3
  <2> QED
    BY <1>1, <1>4, <2>1 DEF IsCheck, IsRemoval
<1> QED
  BY <1>10, <1>11, <1>12, <1>13, <1>14 DEF MasterStep, MasterNext

(* go2rtc answers in the order of the requests.                            *)
LEMMA Go2RTCInLine ==
  ASSUME BooksInv, InLine(box), Go2RTCStep
  PROVE  InLine(box)'
<1>1. PICK n, k : Serves(n, k)
  BY Go2RTCServes
<1>2. PICK h, b, e : h = Msg("go2rtc") /\ b = Taken("go2rtc") /\ e = box'
  OBVIOUS
<1>3. /\ BoxOK(box) /\ box["go2rtc"] # <<>> /\ {"master", "go2rtc"} \subseteq Actors
      /\ k \in Seq(Message) /\ Len(k) \in Nat \ {0} /\ k[Len(k)] = n
      /\ \A i \in 1 .. Len(k) : i # Len(k) => k[i].type = "StreamRemoved"
      /\ e = Post(b, "master", k) /\ Reply(h, n)
  BY <1>1, <1>2 DEF Serves, BooksInv, TypeOK, BoxOK, Actors
<1>4. /\ BoxOK(b) /\ InLine(b)
      /\ \A a \in {"cleaner", "master", "go2rtc"} :
           (HasEarly(b[a]) => HasEarly(box[a])) /\ (HasLate(b[a]) => HasLate(box[a]))
  BY <1>2, <1>3, TakenOK, TakenInLine
<1>5. (Early(n) => Early(h)) /\ (Late(n) => Late(h))
  <2>1. CASE h.type = "FetchStreamList" /\ n.type = "StreamListFetched"
    BY <2>1, InLineAre DEF IsCheck, IsRemoval
  <2>2. ASSUME h.type = "CheckStreamHealth", NEW p, NEW f, n = StreamHealthChecked(h, p, f)
        PROVE  (Early(n) => Early(h)) /\ (Late(n) => Late(h))
    BY <2>2 DEF StreamHealthChecked, Early, Late, IsCheck, IsRemoval
  <2>3. ASSUME h.type = "RemoveStream", NEW p, NEW f, n = StreamRemovalCompleted(h, p, f)
        PROVE  (Early(n) => Early(h)) /\ (Late(n) => Late(h))
    BY <2>3 DEF StreamRemovalCompleted, Early, Late, IsCheck, IsRemoval
  <2> QED
    BY <1>3, <2>1, <2>2, <2>3 DEF Reply
<1>6. \A i \in 1 .. Len(k) : Early(k[i]) \/ Late(k[i]) => i = Len(k)
  BY <1>3, InLineAre DEF IsCheck, IsRemoval
<1>7. InOrder(k) /\ (HasEarly(k) => Early(h)) /\ (HasLate(k) => Late(h))
  BY <1>3, <1>5, <1>6, InLineAre DEF InOrder, HasEarly, HasLate
<1>8. Fits(b, "master", k)
  <2>1. PICK q \in Seq(Message) : q = box["go2rtc"]
    BY <1>3 DEF BoxOK
  <2>2. /\ Early(h) => HasEarly(q)
        /\ Late(h) => HasLate(q) /\ ~HasEarly(q)
    BY <1>2, <1>3, <2>1, TailInOrder DEF InLine, Msg
  <2>3. /\ Early(h) => ~HasLate(box["cleaner"]) /\ ~HasLate(box["master"])
        /\ Late(h) => ~HasEarly(box["go2rtc"])
    BY <2>1, <2>2 DEF InLine
  <2> QED
    BY <1>4, <1>7, <2>3 DEF Fits
<1>9. InLine(e)
  BY <1>3, <1>4, <1>8, PostInLine
<1> QED
  BY <1>2, <1>9 DEF InLine

(* Whatever order matters for in a mailbox is work of the cleaner.         *)
LEMMA InLineIsWork ==
  ASSUME NEW a \in {"cleaner", "master", "go2rtc"}, HasEarly(box[a]) \/ HasLate(box[a])
  PROVE  \E m \in WorkInTransit("cleaner") : ~Asks(m)
<1>1. PICK i \in 1 .. Len(box[a]) : Early(box[a][i]) \/ Late(box[a][i])
  BY DEF HasEarly, HasLate
<1>2. PICK m : m = box[a][i]
  OBVIOUS
<1>3. OnBehalfOf(m, "cleaner") /\ m.type \in WorkTypes /\ ~Asks(m)
  BY <1>1, <1>2, InLineAre
<1>4. a \in Carriers("cleaner")
  BY DEF Carriers
<1>5. m \in Carried(box, sleeping, "cleaner")
  BY <1>1, <1>2, <1>3, <1>4, CarriedIs
<1> QED
  BY <1>3, <1>5 DEF WorkInTransit, Work

(* The first checks of a cycle are sent when nothing else is under way.    *)
LEMMA CleanerInLine ==
  ASSUME BooksInv, InLine(box), CleanerStep
  PROVE  InLine(box)'
<1> DEFINE h == Msg("cleaner")
<1>1. /\ BoxOK(box) /\ cleaner \in CleanerStates /\ box["cleaner"] # <<>> /\ h \in Message
      /\ {"cleaner", "master", "go2rtc"} \subseteq Actors /\ "cleaner" \in Requesters
  BY CleanerGuarded DEF BooksInv, TypeOK, BoxOK, Actors, Requesters
<1>2. ASSUME NEW to \in {"master", "go2rtc"}, NEW n \in Message, ~Early(n),
             to = "go2rtc" \/ ~Late(n),
             box' = Taken("cleaner") \/ box' = Post(Taken("cleaner"), to, <<n>>)
      PROVE  InLine(box)'
  BY <1>1, <1>2, HandlerInLine
<1>3. ASSUME NEW n \in Message, n.type = "CleanupCycleFinished",
             box' = Taken("cleaner") \/ box' = Post(Taken("cleaner"), "master", <<n>>)
      PROVE  InLine(box)'
  BY <1>2, <1>3, InLineAre DEF IsCheck, IsRemoval
<1>4. \A x, y \in Nat : \E n \in Message :
        n = CleanupCycleFinished(x, y) /\ n.type = "CleanupCycleFinished"
  BY ReportsAreMessages DEF CleanupCycleFinished
<1>5. CASE CleanerIgnores \/ CleanerListFailed \/ CleanerSuspects
  <2>1. box' = Taken("cleaner")
    BY <1>5 DEF CleanerIgnores, CleanerListFailed, CleanerSuspects
  <2> QED
    BY <1>3, <1>4, <2>1
<1>6. CASE CleanerBegins
  <2>1. h.triggeredAt \in Times
    BY <1>1, <1>6, FieldsOfMessages DEF CleanerBegins, CleanerHandles, Gets
  <2>2. PICK n \in Message : n = FetchStreamList(h.triggeredAt, "cleaner")
    BY <1>1, <2>1, StartsAreMessages
  <2>3. ~Early(n) /\ box' = Post(Taken("cleaner"), "go2rtc", <<n>>)
    BY <1>6, <2>2, InLineAre DEF CleanerBegins, FetchStreamList, IsCheck
  <2> QED
    BY <1>2, <2>3
<1>7. CASE CleanerListEmpty
  <2>1. PICK n \in Message : n = CleanupCycleFinished(0, 0) /\ n.type = "CleanupCycleFinished"
    BY <1>4
  <2> QED
    BY <1>3, <1>7, <2>1 DEF CleanerListEmpty
<1>8. CASE CleanerListReceived
  <2>1. PICK c, V : c = Actor("cleaner") /\ c = cleaner /\ V = WorkInTransit("cleaner")
    BY DEF Actor
  <2>2. h.type = "StreamListFetched" /\ h.requestedBy = "cleaner" /\ Current(c, h)
    BY <1>8, <2>1, CleanerGuards DEF CleanerListReceived, CleanerHandles, Gets, Current
  <2>3. Asks(h) /\ h \in V
    <3>1. h.type \in WorkTypes /\ OnBehalfOf(h, "cleaner") /\ Asks(h)
      BY <2>2 DEF WorkTypes, OnBehalfOf, Asks
    <3>2. Books("cleaner") /\ "cleaner" \in Carriers("cleaner")
      BY <1>1 DEF BooksInv, Carriers
    <3> QED
      BY <1>1, <2>1, <3>1, <3>2, HeadOfWork
  <2>4. RunOf(c, V) = {}
    BY <1>1, <2>1, <2>2, <2>3, OneList DEF BooksInv
  <2>5. \A m \in V : Asks(m)
    BY <2>1, <2>4, CleanerOwns DEF Owns, RunOf
  <2>6. \A a \in {"cleaner", "master", "go2rtc"} : ~HasLate(box[a])
    BY <2>1, <2>5, InLineIsWork
  <2>7. PICK b, k, e : b = Taken("cleaner") /\ k = FirstChecks(h) /\ e = Post(b, "go2rtc", k)
    OBVIOUS
  <2>8. k \in Seq(Message) /\ \A i \in 1 .. Len(k) : ~Late(k[i])
    <3>1. k \in Seq(Message) /\ Len(k) = Len(h.streams)
      BY <1>1, <2>2, <2>7, FirstChecksAreMessages, FirstChecksAre
    <3>2. \A i \in 1 .. Len(h.streams) : k[i].type = "CheckStreamHealth" /\ k[i].attempt = 1
      BY <2>7 DEF FirstChecks, CheckStreamHealth
    <3> QED
      BY <3>1, <3>2 DEF Late, IsRemoval
  <2>9. /\ BoxOK(b) /\ InLine(b)
        /\ \A a \in {"cleaner", "master", "go2rtc"} : ~HasLate(b[a])
    BY <1>1, <2>6, <2>7, TakenOK, TakenInLine
  <2>10. Fits(b, "go2rtc", k)
    BY <2>8, <2>9 DEF Fits, InOrder
  <2>11. InLine(e)
    BY <1>1, <2>7, <2>8, <2>9, <2>10, PostInLine
  <2>12. box' = e
    BY <1>8, <2>7 DEF CleanerListReceived
  <2> QED
    BY <2>11, <2>12 DEF InLine
<1>9. CASE CleanerHealthFailed \/ CleanerHealthAlive \/ CleanerSkips \/ CleanerRemovalCompleted
  <2>1. CleanerAccepts(h) /\ h.type \in {"StreamHealthChecked", "StreamRemovalCompleted"}
    BY <1>1, <1>9, CleanerSettles
  <2>2. PICK x \in CleanerStates : CompleteStream(x) /\ x.running = cleaner.running
    BY <1>1, <1>9, CleanerSettles
  <2>3. x.running
    BY <2>1, <2>2, CleanerGuards
  <2>4. PICK i \in Nat, j \in Nat :
          \/ box' = Taken("cleaner")
          \/ box' = Post(Taken("cleaner"), "master", <<CleanupCycleFinished(i, j)>>)
    BY <2>2, <2>3, CompleteStreamIs
  <2>5. PICK n \in Message : n = CleanupCycleFinished(i, j) /\ n.type = "CleanupCycleFinished"
    BY <1>4
  <2> QED
    BY <1>3, <2>4, <2>5
<1>10. CASE CleanerRemoves
  <2>1. h.type = "StreamHealthChecked"
    BY <1>10 DEF CleanerRemoves, CleanerMissing, CleanerHandles, Gets
  <2>2. PICK n \in Message : n = RemoveStream(h)
    BY <1>1, <2>1, RemovalsAreMessages
  <2>3. ~Early(n) /\ box' = Post(Taken("cleaner"), "go2rtc", <<n>>)
    BY <1>10, <2>2, InLineAre DEF CleanerRemoves, RemoveStream, IsCheck
  <2> QED
    BY <1>2, <2>3
<1> QED
  BY <1>5, <1>6, <1>7, <1>8, <1>9, <1>10 DEF CleanerStep, CleanerNext

(* The count actor has no part in the order.                               *)
LEMMA CountInLine ==
  ASSUME BooksInv, InLine(box), CountStep
  PROVE  InLine(box)'
<1>1. /\ BoxOK(box) /\ box["count"] # <<>> /\ Sends("count")
      /\ {"count", "master", "go2rtc"} \subseteq Actors
  BY CountGuarded, CountSends DEF BooksInv, TypeOK, BoxOK, Actors
<1>2. PICK b, e : b = Taken("count") /\ e = box'
  OBVIOUS
<1>3. BoxOK(b) /\ InLine(b)
  BY <1>1, <1>2, TakenOK, TakenInLine
<1>4. PICK to \in {"master", "go2rtc"}, k \in Seq(Message) :
        /\ \A i \in 1 .. Len(k) : ~Early(k[i]) /\ ~Late(k[i])
        /\ e = b \/ e = Post(b, to, k)
  <2>1. CASE box' = Taken("count")
    <3>1. << >> \in Seq(Message) /\ \A i \in 1 .. Len(<< >>) : ~Early(<< >>[i]) /\ ~Late(<< >>[i])
      OBVIOUS
    <3> QED
      BY <1>2, <2>1, <3>1
  <2>2. ASSUME NEW n \in Message,
               n.type \in {"CleanupCycleFinished", "AliveStreamCountCalculated"},
               box' = Post(Taken("count"), "master", <<n>>)
        PROVE  \E to \in {"master", "go2rtc"}, k \in Seq(Message) :
                 /\ \A i \in 1 .. Len(k) : ~Early(k[i]) /\ ~Late(k[i])
                 /\ e = b \/ e = Post(b, to, k)
    <3>1. PICK k \in Seq(Message) : k = <<n>>
      BY OneMessage
    <3>2. ~Early(n) /\ ~Late(n)
      BY <2>2, InLineAre DEF IsCheck, IsRemoval
    <3>3. (\A i \in 1 .. Len(k) : ~Early(k[i]) /\ ~Late(k[i])) /\ e = Post(b, "master", k)
      BY <1>2, <2>2, <3>1, <3>2
    <3> QED
      BY <3>3
  <2>3. ASSUME NEW k \in Seq(Message), \A i \in 1 .. Len(k) : OnBehalfOf(k[i], "count"),
               box' = Post(Taken("count"), "go2rtc", k)
        PROVE  (\A i \in 1 .. Len(k) : ~Early(k[i]) /\ ~Late(k[i])) /\ e = Post(b, "go2rtc", k)
    BY <1>2, <2>3, InLineAre
  <2> QED
    BY <1>1, <2>1, <2>2, <2>3 DEF Sends
<1>5. Fits(b, to, k)
  BY <1>4 DEF Fits, InOrder, HasEarly, HasLate
<1>6. InLine(e)
  BY <1>1, <1>3, <1>4, <1>5, PostInLine
<1> QED
  BY <1>2, <1>6 DEF InLine

(* A second check that wakes up goes to the end of the line.               *)
LEMMA WakeUpInLine ==
  ASSUME BooksInv, InLine(box), NEW check \in sleeping, WakeUp(check)
  PROVE  InLine(box)'
<1>1. /\ BoxOK(box) /\ check \in Message /\ check.attempt = 2 /\ "go2rtc" \in Actors
      /\ box' = Post(box, "go2rtc", <<check>>)
  BY DEF BooksInv, TypeOK, BoxOK, Message, WakeUp, ConfirmationElapsed, Actors
<1>2. PICK b, k, e : b = box /\ k = <<check>> /\ e = Post(b, "go2rtc", k)
  OBVIOUS
<1>3. Fits(b, "go2rtc", k) /\ k \in Seq(Message)
  BY <1>1, <1>2, OneFits, OneMessage DEF Early
<1>4. InLine(e)
  BY <1>1, <1>2, <1>3, PostInLine
<1> QED
  BY <1>1, <1>2, <1>4 DEF InLine

(* Nor do the schedulers and the other actors disturb it.                  *)
LEMMA OthersInLine ==
  ASSUME BooksInv, InLine(box),
         \/ CronFires \/ TickFires \/ ActionStep \/ RedisStep \/ CameraChanges
         \/ UNCHANGED vars
  PROVE  InLine(box)'
<1>1. BoxOK(box) /\ {"master", "action", "redis"} \subseteq Actors
  BY DEF BooksInv, TypeOK, BoxOK, Actors
<1>2. CASE CronFires \/ TickFires
  <2>1. PICK n \in Message : /\ n.type \in {"TriggerCleanup", "CountAliveStreamsStarted"}
                             /\ box' = Post(box, "master", <<n>>)
    <3>1. CASE CronFires
      <4>1. PICK n \in Message : n = TriggerCleanup
        BY DEF Message
      <4>2. n.type = "TriggerCleanup" /\ box' = Post(box, "master", <<n>>)
        BY <3>1, <4>1 DEF CronFires, CleanupCron, TriggerCleanup
      <4> QED
        BY <4>2
    <3>2. CASE TickFires
      <4>1. PICK t \in Times : box' = Post(box, "master", <<CountAliveStreamsStarted(t)>>)
        BY <3>2 DEF TickFires, PublishTick
      <4>2. PICK n \in Message : n = CountAliveStreamsStarted(t)
        BY StartsAreMessages DEF Requesters
      <4>3. n.type = "CountAliveStreamsStarted" /\ box' = Post(box, "master", <<n>>)
        BY <4>1, <4>2 DEF CountAliveStreamsStarted
      <4> QED
        BY <4>3
    <3> QED
      BY <1>2, <3>1, <3>2
  <2>2. PICK b, k, e : b = box /\ k = <<n>> /\ e = Post(b, "master", k)
    OBVIOUS
  <2>3. Fits(b, "master", k) /\ k \in Seq(Message)
    BY <2>1, <2>2, InLineAre, OneFits, OneMessage DEF IsCheck, IsRemoval
  <2>4. InLine(e)
    BY <1>1, <2>2, <2>3, PostInLine
  <2> QED
    BY <2>1, <2>2, <2>4 DEF InLine
<1>3. CASE ActionStep \/ RedisStep
  <2>1. PICK self \in {"action", "redis"} : box[self] # <<>> /\ box' = Taken(self)
    BY <1>3 DEF ActionStep, ActionExecutes, RedisStep, RedisNext, RedisDisabled,
                RedisPingFails, RedisSetFails, RedisSets, RedisUpdates, Gets
  <2>2. PICK e : e = Taken(self)
    OBVIOUS
  <2>3. InLine(e)
    BY <1>1, <2>1, <2>2, TakenInLine
  <2> QED
    BY <2>1, <2>2, <2>3 DEF InLine
<1>4. CASE CameraChanges \/ UNCHANGED vars
  <2>1. box' = box
    BY <1>4 DEF CameraChanges, StreamChanges, vars
  <2> QED
    BY <2>1 DEF InLine
<1> QED
  BY <1>2, <1>3, <1>4

(* Every step keeps the order.                                             *)
LEMMA StepInLine ==
  ASSUME BooksInv, InLine(box), [Next]_vars
  PROVE  InLine(box)'
BY MasterInLine, CleanerInLine, CountInLine, Go2RTCInLine, WakeUpInLine, OthersInLine
DEF Next

(* When the cleaner turns to a second check or a removal, all first checks *)
(* of the cycle are over.                                                  *)
LEMMA LateIsLast ==
  ASSUME BooksInv, InLine(box), box["cleaner"] # <<>>, Late(Msg("cleaner"))
  PROVE  \A m \in WorkInTransit("cleaner") : ~Early(m)
<1>1. PICK q \in Seq(Message) : q = box["cleaner"]
  BY DEF BooksInv, TypeOK, Actors
<1>2. HasLate(q) /\ ~HasEarly(q)
  BY <1>1, TailInOrder DEF InLine, Msg
<1>3. \A a \in {"cleaner", "master", "go2rtc"} : ~HasEarly(box[a])
  BY <1>1, <1>2 DEF InLine
<1>4. ASSUME NEW m \in Carried(box, sleeping, "cleaner"), Early(m)
      PROVE  FALSE
  <2>1. CASE m \in sleeping
    BY <1>4, <2>1 DEF BooksInv, TypeOK, Early
  <2>2. ASSUME NEW a \in Carriers("cleaner"), NEW i \in 1 .. Len(box[a]), m = box[a][i]
        PROVE  FALSE
    BY <1>3, <1>4, <2>2 DEF Carriers, HasEarly
  <2> QED
    BY <2>1, <2>2, CarriedIs
<1> QED
  BY <1>4 DEF WorkInTransit, Work

-----------------------------------------------------------------------------
(* The audit a of r's run is right for the fields c of r and its work V.   *)
Audited(r, c, V, a) ==
  Counted(r, c, V, a) /\ (r = "cleaner" => CleanerAudited(c, V, a))

(* The inductive invariant: the audits are right, and the messages of the  *)
(* cleaner's checks are in order.                                          *)
AuditInv ==
  /\ AuditOK
  /\ InLine(box)
  /\ \A r \in Requesters : \A c, V, a :
       c = Actor(r) /\ V = WorkInTransit(r) /\ a = audit[r] => Audited(r, c, V, a)

LEMMA InitAudited == AuditInit => AuditInv
<1> SUFFICES ASSUME AuditInit
             PROVE  AuditInv
  OBVIOUS
<1>1. Init /\ BooksInv /\ NewAudit \in AuditStates
  BY InitBooks, NewAuditIs DEF AuditInit
<1>2. AuditOK
  BY <1>1 DEF AuditInit, AuditOK
<1>3. InLine(box)
  <2>1. /\ box["cleaner"] = <<>> /\ box["go2rtc"] = <<>>
        /\ box["master"] \in {<<>>, <<TriggerCleanup>>}
    BY <1>1 DEF Init, MasterInit, Actors
  <2>2. \A q \in {<<>>, <<TriggerCleanup>>} : ~HasEarly(q) /\ ~HasLate(q) /\ InOrder(q)
    <3>1. ~Early(TriggerCleanup) /\ ~Late(TriggerCleanup)
      BY InLineAre DEF TriggerCleanup, IsCheck, IsRemoval
    <3> QED
      BY <3>1 DEF HasEarly, HasLate, InOrder
  <2> QED
    BY <2>1, <2>2 DEF InLine
<1>4. ASSUME NEW r \in Requesters, NEW c, NEW V, NEW a,
             c = Actor(r), V = WorkInTransit(r), a = audit[r]
      PROVE  Audited(r, c, V, a)
  <2>1. ~c.running /\ a = NewAudit
    BY <1>1, <1>4 DEF Init, CleanerInit, CountInit, Actor, AuditInit
  <2>2. Counted(r, c, V, a)
    BY <2>1 DEF Counted
  <2>3. ASSUME r = "cleaner"
        PROVE  CleanerAudited(c, V, a)
    <3>1. V = {}
      BY <1>1, <1>4, <2>1, <2>3, CleanerOwns DEF Owns, Actor
    <3>2. c.pending = {}
      BY <1>1, <1>4, <2>3 DEF Init, CleanerInit, Actor
    <3>3. /\ a.deleted = {} /\ \A s \in Streams : a.removals[s] = 0
      BY <2>1 DEF NewAudit
    <3> QED
      BY <2>1, <3>1, <3>2, <3>3 DEF CleanerAudited, Careful, Once, Honest, Reported
  <2> QED
    BY <2>2, <2>3 DEF Audited
<1> QED
  BY <1>2, <1>3, <1>4 DEF AuditInv

(* Every step keeps the audits right.                                      *)
LEMMA StepAudited == BooksInv /\ AuditInv /\ [AuditNext]_auditVars => AuditInv'
<1> SUFFICES ASSUME BooksInv, AuditInv, [AuditNext]_auditVars
             PROVE  AuditInv'
  OBVIOUS
<1>1. AuditOK /\ InLine(box) /\ [Next]_vars
  BY DEF AuditInv, AuditNext, auditVars
<1>2. InLine(box)'
  BY <1>1, StepInLine
<1>3. ASSUME NEW r \in Requesters, NEW d, NEW X, NEW z,
             d = Actor(r)', X = WorkInTransit(r)', z = audit'[r]
      PROVE  z \in AuditStates /\ Audited(r, d, X, z)
  <2>1. PICK c, V, a, h, m :
          /\ c = Actor(r) /\ V = WorkInTransit(r) /\ a = audit[r]
          /\ h = Msg(r) /\ m = Msg("go2rtc")
    OBVIOUS
  <2>2. d = IF r = "cleaner" THEN cleaner' ELSE count'
    BY <1>3 DEF Actor
  <2>3. z \in AuditStates /\ Moves(r, c, V, d, X, a, z)
    BY <1>1, <1>3, <2>1, <2>2, StepMoves
  <2>4. /\ Sound(r, c, V) /\ Audited(r, c, V, a) /\ Counted(r, c, V, a) /\ a \in AuditStates
        /\ r = "cleaner" => Owns(c, V) /\ Careful(c, V, a) /\ Once(c, V, a) /\ Honest(c, V, a)
    BY <1>1, <2>1, SoundBooks, CleanerOwns DEF AuditInv, AuditOK, Audited, CleanerAudited, Actor
  <2>5. CASE d = c /\ X = V /\ z = a
    BY <2>3, <2>4, <2>5
  <2>6. ASSUME d = c, NEW n, Served(r, m, n, c, V, X, a, z)
        PROVE  Audited(r, d, X, z)
    <3>1. Counted(r, d, X, z)
      BY <2>4, <2>6, ServedCounted
    <3>2. ASSUME r = "cleaner"
          PROVE  CleanerAudited(d, X, z)
      BY <2>3, <2>4, <2>6, <3>2, ServedCareful, ServedOnce, ServedHonest DEF CleanerAudited
    <3> QED
      BY <3>1, <3>2 DEF Audited
  <2>7. ASSUME IF r = "cleaner" THEN CleanerStep ELSE CountStep,
               Works(r, h, c, V, d, X, a, z)
        PROVE  Audited(r, d, X, z)
    <3>1. Counted(r, d, X, z)
      BY <2>4, <2>7, WorksCounted
    <3>2. ASSUME r = "cleaner"
          PROVE  CleanerAudited(d, X, z)
      <4>1. Late(h) => \A n \in V : ~Early(n)
        BY <1>1, <2>1, <2>7, <3>2, CleanerGuarded, LateIsLast
      <4> QED
        BY <2>3, <2>4, <2>7, <3>2, <4>1, WorksCareful, WorksOnce, WorksHonest
        DEF CleanerAudited
    <3> QED
      BY <3>1, <3>2 DEF Audited
  <2> QED
    BY <2>1, <2>3, <2>5, <2>6, <2>7 DEF Moves
<1>4. AuditOK'
  <2>1. DOMAIN audit' = Requesters /\ audit' = [r \in Requesters |-> audit'[r]]
    <3>1. CASE UNCHANGED auditVars
      BY <1>1, <3>1 DEF auditVars, AuditOK
    <3>2. CASE AuditStep
      BY <1>1, <3>2 DEF AuditStep, Observed, AuditOK
    <3> QED
      BY <3>1, <3>2 DEF AuditNext
  <2> QED
    BY <1>3, <2>1 DEF AuditOK
<1> QED
  BY <1>2, <1>3, <1>4 DEF AuditInv

(* The invariant holds in every reachable state.                           *)
LEMMA AuditCorrect == AuditSpec => []BooksInv /\ []AuditInv
<1>1. AuditInit => Init
  BY DEF AuditInit
<1>2. [AuditNext]_auditVars => [Next]_vars
  BY DEF AuditNext, auditVars
<1>3. AuditSpec => Spec
  BY <1>1, <1>2, PTL DEF AuditSpec, Spec
<1> QED
  BY <1>3, BooksCorrect, InitAudited, StepAudited, PTL DEF AuditSpec

(* No DELETE is sent before two different checks of the running cycle have *)
(* found no producer for the stream, whatever order the answers come in,   *)
(* also when the file lists a stream twice and when a cycle was started    *)
(* while answers of an earlier one were still on their way.                *)
THEOREM RemovedCarefully == AuditSpec => []RemovedAfterTwoMisses
<1>1. AuditInv => RemovedAfterTwoMisses
  BY DEF AuditInv, Audited, CleanerAudited, Careful, Actor, Requesters, RemovedAfterTwoMisses
<1> QED
  BY <1>1, AuditCorrect, PTL

(* StreamCleanerActor asks at most once per cycle to remove a stream, even *)
(* if the file lists it twice: the second entry finds it no longer         *)
(* suspected, since all first checks are answered before any second one.   *)
THEOREM RemovedOnce == AuditSpec => []OneRemovalPerCycle
<1>1. AuditInv => OneRemovalPerCycle
  BY DEF AuditInv, Audited, CleanerAudited, Once, Actor, Requesters, OneRemovalPerCycle
<1> QED
  BY <1>1, AuditCorrect, PTL

-----------------------------------------------------------------------------
(* The message that a handler of a requester sends to the master.          *)
LEMMA ReportIs ==
  ASSUME BoxOK(box), NEW self \in Requesters, box[self] # <<>>, NEW n \in Message,
         box' = Post(Taken(self), "master", <<n>>)
  PROVE  LastPosted("master") = n
<1>1. BoxOK(Taken(self)) /\ "master" \in Actors
  BY TakenOK DEF Actors, Requesters
<1>2. PICK q \in Seq(Message) : q = Taken(self)["master"]
  BY <1>1 DEF BoxOK
<1>3. box'["master"] = q \o <<n>>
  BY <1>1, <1>2 DEF Post, BoxOK
<1>4. PICK p : p = q \o <<n>>
  OBVIOUS
<1>5. p[Len(p)] = n
  BY <1>2, <1>4
<1> QED
  BY <1>3, <1>4, <1>5 DEF LastPosted

(* A run that ends with the list has seen nothing.                         *)
LEMMA NothingListed ==
  ASSUME BooksInv, AuditInv, NEW r \in Requesters, NEW h, h = Msg(r), box[r] # <<>>,
         h.type = "StreamListFetched", h.requestedBy = r, Current(Actor(r), h)
  PROVE  audit[r] = NewAudit /\ Tallied({}, Actor(r).aliveCount, {})
<1>1. PICK c, V, a : c = Actor(r) /\ V = WorkInTransit(r) /\ a = audit[r]
  OBVIOUS
<1>2. h \in V
  <2>1. BoxOK(box) /\ Books(r) /\ r \in Carriers(r)
    BY DEF BooksInv, TypeOK, BoxOK, Carriers
  <2>2. OnBehalfOf(h, r) /\ h.type \in WorkTypes
    BY DEF OnBehalfOf, WorkTypes
  <2> QED
    BY <1>1, <2>1, <2>2, HeadOfWork
<1>3. c.outstanding = 0 /\ RunOf(c, V) = {} /\ c.running
  BY <1>1, <1>2, OneList DEF BooksInv, Asks, Current
<1>4. Counted(r, c, V, a)
  BY <1>1 DEF AuditInv, Audited
<1> QED
  BY <1>1, <1>3, <1>4, NewAuditIs DEF Counted

(* A handler that settles the last entry of a run closes it.               *)
LEMMA RunCloses ==
  ASSUME NEW r \in Requesters, NEW h, NEW c \in StatesOf(r), NEW V, NEW d, NEW X,
         Handled(r, h, c, V, d, X), c.running, ~d.running,
         h.type \in {"StreamHealthChecked", "StreamRemovalCompleted"},
         r = "count" => ~h.error
  PROVE  Closed(r, h, c, V, d, X)
<1>1. \A v : [c EXCEPT !.pending = v].running = c.running
  BY DEF StatesOf, CleanerStates, CounterStates
<1> QED
  BY <1>1 DEF Handled, Ignored, Begun, NoList, ListArrived, Suspected, Condemned, Aborted

(* The report of a cycle says how many entries of the list were seen with  *)
(* a producer by this cycle, and never more removals than streams were     *)
(* deleted in it (finishCycleIfDone and the empty list).                   *)
THEOREM CycleReportIsTrue == AuditSpec => ReportIsWhatWasSeen
<1> DEFINE Report == LastPosted("master")
           Right  == /\ Report.aliveStreams = Cardinality(audit["cleaner"].alive)
                     /\ Report.removedStreams <= Cardinality(audit["cleaner"].deleted)
<1>1. ASSUME BooksInv, AuditInv, AuditNext, CycleReports
      PROVE  Right
  <2> DEFINE h == Msg("cleaner")
  <2>1. cleaner.running /\ ~cleaner'.running /\ box'["master"] # box["master"]
    BY <1>1 DEF CycleReports
  <2>2. CleanerStep
    BY <1>1, <2>1 DEF AuditNext, Next, MasterStep, CountStep, Go2RTCStep, RedisStep,
                      ActionStep, WakeUp, CronFires, TickFires, CameraChanges
  <2>3. /\ BoxOK(box) /\ cleaner \in CleanerStates /\ "cleaner" \in Requesters
        /\ {"cleaner", "master"} \subseteq Actors
        /\ box["cleaner"] # <<>> /\ h \in Message
    BY <1>1, <2>2, CleanerGuarded DEF BooksInv, TypeOK, BoxOK, Requesters, Actors
  <2>4. ASSUME NEW x \in Nat, NEW y \in Nat,
               box' = Post(Taken("cleaner"), "master", <<CleanupCycleFinished(x, y)>>)
        PROVE  Report.aliveStreams = x /\ Report.removedStreams = y
    <3>1. PICK n \in Message : n = CleanupCycleFinished(x, y)
      BY ReportsAreMessages
    <3>2. Report = n
      BY <2>3, <2>4, <3>1, ReportIs
    <3> QED
      BY <3>1, <3>2 DEF CleanupCycleFinished
  <2>5. CASE CleanerIgnores \/ CleanerListFailed
    <3>1. box' = Taken("cleaner")
      BY <2>5 DEF CleanerIgnores, CleanerListFailed
    <3> QED
      BY <2>1, <2>3, <3>1, TakenFrom
  <2>6. CASE CleanerListEmpty
    <3>1. h.type = "StreamListFetched" /\ h.requestedBy = "cleaner" /\ Current(cleaner, h)
      BY <2>6, CleanerGuards DEF CleanerListEmpty, CleanerHandles, Gets, Current
    <3>2. audit["cleaner"] = NewAudit
      BY <1>1, <2>3, <3>1, NothingListed DEF Actor
    <3>3. Report.aliveStreams = 0 /\ Report.removedStreams = 0
      BY <2>4, <2>6 DEF CleanerListEmpty
    <3> QED
      BY <3>2, <3>3, NewAuditIs, FS_EmptySet
  <2>7. CASE CleanerBegins \/ CleanerListReceived \/ CleanerSuspects \/ CleanerRemoves
    <3>1. CASE CleanerBegins
      BY <2>1, <3>1 DEF CleanerBegins
    <3>2. ASSUME CleanerListReceived \/ CleanerSuspects \/ CleanerRemoves
          PROVE  cleaner'.running = cleaner.running
      BY <2>3, <3>2 DEF CleanerListReceived, CleanerSuspects, CleanerRemoves, CleanerStates
    <3> QED
      BY <2>1, <2>7, <3>1, <3>2
  <2>8. CASE CleanerHealthFailed \/ CleanerHealthAlive \/ CleanerSkips \/ CleanerRemovalCompleted
    <3>1. h.type \in {"StreamHealthChecked", "StreamRemovalCompleted"}
      BY <2>3, <2>8, CleanerSettles
    <3>2. PICK x \in CleanerStates : CompleteStream(x) /\ x.running = cleaner.running
      BY <2>3, <2>8, CleanerSettles
    <3>3. /\ x.aliveCount \in Nat /\ x.removedCount \in Nat
          /\ x.aliveCount = cleaner'.aliveCount /\ x.removedCount = cleaner'.removedCount
          /\ box' = Post(Taken("cleaner"), "master",
                      <<CleanupCycleFinished(x.aliveCount, x.removedCount)>>)
      BY <2>1, <3>2, CompleteStreamLeaves DEF CleanerStates
    <3>4. PICK r, c, V, d, X, a :
            /\ r = "cleaner" /\ c = cleaner /\ V = WorkInTransit(r) /\ d = cleaner'
            /\ X = WorkInTransit(r)' /\ a = audit["cleaner"]
      OBVIOUS
    <3>5. /\ r \in Requesters /\ Sound(r, c, V) /\ Audited(r, c, V, a) /\ a \in AuditStates
          /\ c \in StatesOf(r)
      BY <1>1, <2>3, <3>4, SoundBooks DEF AuditInv, AuditOK, Actor, StatesOf
    <3>6. Closed(r, h, c, V, d, X)
      <4>1. Handled(r, Msg(r), cleaner, WorkInTransit(r), cleaner', WorkInTransit(r)')
        BY <1>1, <2>2, <3>4, <3>5, CleanerHandlesWork
      <4>2. Handled(r, h, c, V, d, X)
        BY <3>4, <4>1
      <4> QED
        BY <2>1, <3>1, <3>4, <3>5, <4>2, RunCloses
    <3>7. d.aliveCount = Cardinality(a.alive)
      <4>1. Tallied(a.alive, d.aliveCount, RunOf(c, X)) /\ RunOf(c, X) = {}
        BY <2>1, <3>4, <3>5, <3>6, ClosedCounted DEF Audited
      <4> QED
        BY <4>1, TallyComplete
    <3>8. d.removedCount <= Cardinality(a.deleted)
      <4>1. d.removedCount <= Cardinality(a.deleted \ Reported(X))
        BY <3>4, <3>5, <3>6, ClosedHonest DEF Audited, CleanerAudited
      <4>2. Cardinality(a.deleted \ Reported(X)) <= Cardinality(a.deleted)
        BY <3>5, DeletedIsFinite, FS_Subset
      <4>3. /\ d.removedCount \in Nat /\ Cardinality(a.deleted) \in Nat
            /\ Cardinality(a.deleted \ Reported(X)) \in Nat
        BY <3>3, <3>4, <3>5, DeletedIsFinite
      <4> QED
        BY <4>1, <4>2, <4>3
    <3> QED
      BY <2>4, <3>3, <3>4, <3>7, <3>8
  <2> QED
    BY <2>2, <2>5, <2>6, <2>7, <2>8 DEF CleanerStep, CleanerNext
<1>2. BooksInv /\ AuditInv /\ [AuditNext]_auditVars => [CycleReports => Right]_auditVars
  BY <1>1
<1> QED
  BY <1>2, AuditCorrect, PTL DEF AuditSpec, ReportIsWhatWasSeen

(* A count is published only if no check of that very run failed, and it   *)
(* is the number of entries that this run, not an aborted earlier one, saw *)
(* alive (finish and finishWithError of StreamCountActor).                 *)
THEOREM CountIsTrue == AuditSpec => CountIsComplete
<1> DEFINE Report == LastPosted("master")
           Right  == /\ audit["count"].failed = {}
                     /\ Report.aliveStreams = Cardinality(audit["count"].alive)
<1>1. ASSUME BooksInv, AuditInv, AuditNext, count.running, ~count'.running, ~Report.error
      PROVE  Right
  <2> DEFINE h == Msg("count")
  <2>1. CountStep
    BY <1>1 DEF AuditNext, Next, MasterStep, CleanerStep, Go2RTCStep, RedisStep,
                ActionStep, WakeUp, CronFires, TickFires, CameraChanges
  <2>2. /\ BoxOK(box) /\ count \in CounterStates /\ "count" \in Requesters
        /\ box["count"] # <<>> /\ h \in Message
    BY <1>1, <2>1, CountGuarded DEF BooksInv, TypeOK, BoxOK, Requesters
  <2>3. ASSUME NEW x \in Nat, NEW e \in BOOLEAN,
               box' = Post(Taken("count"), "master", <<AliveStreamCountCalculated(x, e)>>)
        PROVE  Report.aliveStreams = x /\ ~e
    <3>1. PICK n \in Message : n = AliveStreamCountCalculated(x, e)
      BY ReportsAreMessages
    <3>2. Report = n
      BY <2>2, <2>3, <3>1, ReportIs
    <3> QED
      BY <1>1, <3>1, <3>2 DEF AliveStreamCountCalculated
  <2>4. CASE CountListFailed \/ CountHealthFailed
    <3>1. box' = Post(Taken("count"), "master", <<AliveStreamCountCalculated(0, TRUE)>>)
      BY <2>2, <2>4, FinishWithErrorLeaves DEF CountListFailed, CountHealthFailed
    <3> QED
      BY <2>3, <3>1
  <2>5. CASE CountListEmpty
    <3>1. h.type = "StreamListFetched" /\ h.requestedBy = "count" /\ Current(count, h)
      BY <2>5, CountGuards DEF CountListEmpty, CountHandles, Gets, Current
    <3>2. audit["count"] = NewAudit /\ Tallied({}, count.aliveCount, {})
      BY <1>1, <2>2, <3>1, NothingListed DEF Actor
    <3>3. box' = Post(Taken("count"), "master",
                   <<AliveStreamCountCalculated(count.aliveCount, FALSE)>>)
      BY <2>2, <2>5, FinishLeaves DEF CountListEmpty
    <3>4. Report.aliveStreams = count.aliveCount
      BY <2>2, <2>3, <3>3 DEF CounterStates
    <3> QED
      BY <3>2, <3>4, NewAuditIs, TallyComplete
  <2>6. CASE CountIgnores \/ CountBegins \/ CountListReceived \/ CountSuspects
    <3>1. CASE CountIgnores \/ CountBegins
      BY <1>1, <3>1 DEF CountIgnores, CountBegins
    <3>2. ASSUME CountListReceived \/ CountSuspects
          PROVE  count'.running = count.running
      BY <2>2, <3>2 DEF CountListReceived, CountSuspects, CounterStates
    <3> QED
      BY <1>1, <2>6, <3>1, <3>2
  <2>7. CASE CountHealthAlive \/ CountConfirmsDead
    <3>1. h.type = "StreamHealthChecked" /\ ~h.error
      BY <2>2, <2>7, CountSettles
    <3>2. PICK x \in CounterStates : CompleteCheck(x) /\ x.running = count.running
      BY <2>2, <2>7, CountSettles
    <3>3. /\ x.aliveCount \in Nat /\ x.aliveCount = count'.aliveCount
          /\ box' = Post(Taken("count"), "master",
                      <<AliveStreamCountCalculated(x.aliveCount, FALSE)>>)
      BY <1>1, <3>2, CompleteCheckLeaves DEF CounterStates
    <3>4. PICK r, c, V, d, X, a :
            /\ r = "count" /\ c = count /\ V = WorkInTransit(r) /\ d = count'
            /\ X = WorkInTransit(r)' /\ a = audit["count"]
      OBVIOUS
    <3>5. /\ r \in Requesters /\ Sound(r, c, V) /\ Counted(r, c, V, a)
          /\ c \in StatesOf(r)
      BY <1>1, <2>2, <3>4, SoundBooks DEF AuditInv, Audited, Actor, StatesOf
    <3>6. Closed(r, h, c, V, d, X)
      <4>1. Handled(r, Msg(r), count, WorkInTransit(r), count', WorkInTransit(r)')
        BY <1>1, <2>1, <3>4, <3>5, CountHandlesWork
      <4>2. Handled(r, h, c, V, d, X)
        BY <3>4, <4>1
      <4> QED
        BY <1>1, <3>1, <3>4, <3>5, <4>2, RunCloses
    <3>7. RunOf(c, X) = {} /\ Tallied(a.alive, d.aliveCount, {})
      BY <1>1, <3>4, <3>5, <3>6, ClosedCounted
    <3>8. a.failed = {}
      BY <3>4, <3>5, <3>6, <3>7, ClosedCounted
    <3> QED
      BY <2>3, <3>3, <3>4, <3>7, <3>8, TallyComplete
  <2> QED
    BY <2>1, <2>4, <2>5, <2>6, <2>7 DEF CountStep, CountNext
<1>2. BooksInv /\ AuditInv /\ [AuditNext]_auditVars =>
        [count.running /\ ~count'.running /\ ~Report.error => Right]_auditVars
  BY <1>1
<1> QED
  BY <1>2, AuditCorrect, PTL DEF AuditSpec, CountIsComplete
===============================================================================
