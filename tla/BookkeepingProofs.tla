-------------------------- MODULE BookkeepingProofs --------------------------
(***************************************************************************)
(* The counters of the cleaner and of the count actor agree with the       *)
(* messages in transit, for any streams, lists, instants and bounds.       *)
(*                                                                         *)
(* The invariant has two layers.  ManagerProofs keeps the messages of a    *)
(* requester apart from each other, wherever they are; on top of it, Kept  *)
(* relates the fields of the requester to the set of these messages.       *)
(***************************************************************************)
EXTENDS ManagerProofs, FiniteSetTheorems

(* The fields of requester r.                                              *)
Actor(r) == IF r = "cleaner" THEN cleaner ELSE count

(* The work of run t among the messages in S.                              *)
WorkIn(S, t) == {m \in S : m.type \in WorkTypes /\ m.triggeredAt = t}

(* The messages of a run whose list is not there yet.                      *)
Asks(m) == m.type \in {"FetchStreamList", "StreamListFetched"}

(* The counter of the requester c is the number of its messages in S, all  *)
(* of them about an entry; it is zero while there is only the one request  *)
(* or answer for the list.                                                 *)
Tally(c, S) ==
  c.running =>
    LET W == WorkIn(S, c.triggeredAt)
    IN \/ /\ c.outstanding = 0
          /\ \E m \in S : Asks(m) /\ W = {m}
       \/ /\ c.outstanding > 0
          /\ IsFiniteSet(W)
          /\ Cardinality(W) = c.outstanding
          /\ \A m \in W : ~Asks(m)

(* All work in S belongs to the run in progress.                           *)
Owned(c, S) ==
  \A m \in S : m.type \in WorkTypes => c.running /\ m.triggeredAt = c.triggeredAt

(* A count may abort and leave work behind, a cleanup cycle may not.       *)
Kept(r, c, S) == Tally(c, S) /\ (r = "cleaner" => Owned(c, S))

(* No two messages of a set clash.                                         *)
Distinct(S) == \A m, n \in S : Clash(m, n) => m = n

(* The fields that Kept reads are the same.                                *)
SameRun(c, d) ==
  d.running = c.running /\ d.outstanding = c.outstanding /\ d.triggeredAt = c.triggeredAt

-----------------------------------------------------------------------------
(* A requester that does not run has nothing to account for, ...           *)
LEMMA StoppedKept ==
  ASSUME NEW r, NEW d, NEW S, ~d.running,
         r = "cleaner" => \A m \in S : m.type \notin WorkTypes
  PROVE  Kept(r, d, S)
BY DEF Kept, Tally, Owned

(* ... and one whose work does not change keeps its books.                 *)
LEMMA SameWorkKept ==
  ASSUME NEW r, NEW c, NEW d, NEW S, NEW T, Kept(r, c, S), SameRun(c, d),
         c.running => WorkIn(T, c.triggeredAt) = WorkIn(S, c.triggeredAt),
         \A m \in T : m.type \in WorkTypes => m \in S
  PROVE  Kept(r, d, T)
<1>1. Tally(d, T)
  <2> SUFFICES ASSUME d.running
               PROVE  Tally(d, T)
    BY DEF Tally
  <2>1. /\ c.running /\ d.outstanding = c.outstanding /\ d.triggeredAt = c.triggeredAt
        /\ WorkIn(T, d.triggeredAt) = WorkIn(S, c.triggeredAt)
    BY DEF SameRun
  <2>2. ASSUME NEW m \in S, WorkIn(S, c.triggeredAt) = {m}
        PROVE  m \in T
    BY <2>1, <2>2 DEF WorkIn
  <2> QED
    BY <2>1, <2>2 DEF Kept, Tally
<1>2. r = "cleaner" => Owned(d, T)
  BY DEF Kept, Owned, SameRun
<1> QED
  BY <1>1, <1>2 DEF Kept

(* A message of the same kind takes the place of another one.              *)
SameKind(h, n) ==
  /\ n.triggeredAt = h.triggeredAt
  /\ n.type \in WorkTypes <=> h.type \in WorkTypes
  /\ Asks(n) <=> Asks(h)
  /\ Single(n) <=> Single(h)
  /\ ~Single(h) => n.entry = h.entry

LEMMA ReplacedKept ==
  ASSUME NEW r, NEW c, NEW d, NEW S, NEW h \in S, NEW n,
         Kept(r, c, S), Distinct(S), SameRun(c, d), SameKind(h, n)
  PROVE  Kept(r, d, (S \ {h}) \cup {n})
<1> DEFINE T == (S \ {h}) \cup {n}
           W == WorkIn(S, c.triggeredAt)
           V == WorkIn(T, c.triggeredAt)
<1>1. n = h \/ n \notin S
  BY DEF Distinct, SameKind, Clash
<1>2. CASE n = h
  <2>1. T = S
    BY <1>2
  <2> QED
    BY <1>2, <2>1, SameWorkKept
<1>3. CASE n \notin S
  <2>1. r = "cleaner" => Owned(d, T)
    BY DEF Kept, Owned, SameRun, SameKind
  <2>2. CASE ~d.running
    BY <2>1, <2>2 DEF Kept, Tally
  <2>3. CASE h \notin W /\ d.running
    <3>1. V = W
      BY <1>3, <2>3 DEF WorkIn, SameKind
    <3>2. Tally(d, T)
      BY <2>3, <3>1 DEF Kept, Tally, SameRun, WorkIn
    <3> QED
      BY <2>1, <3>2 DEF Kept
  <2>4. CASE h \in W /\ d.running
    <3>1. V = (W \ {h}) \cup {n} /\ n \notin W
      BY <1>3, <2>4 DEF WorkIn, SameKind
    <3>2. /\ c.running /\ d.outstanding = c.outstanding /\ d.triggeredAt = c.triggeredAt
      BY <2>4 DEF SameRun
    <3>3. CASE c.outstanding = 0 /\ \E m \in S : Asks(m) /\ W = {m}
      <4>1. W = {h} /\ Asks(h)
        BY <2>4, <3>3
      <4>2. V = {n} /\ Asks(n)
        BY <3>1, <4>1 DEF SameKind
      <4> QED
        BY <2>1, <3>2, <3>3, <4>2 DEF Kept, Tally
    <3>4. CASE /\ c.outstanding > 0
               /\ IsFiniteSet(W)
               /\ Cardinality(W) = c.outstanding
               /\ \A m \in W : ~Asks(m)
      <4>1. IsFiniteSet(W \ {h}) /\ Cardinality(W \ {h}) = Cardinality(W) - 1
        BY <2>4, <3>4, FS_RemoveElement
      <4>2. Cardinality(W) \in Nat
        BY <3>4, FS_CardinalityType
      <4>3. IsFiniteSet(V) /\ Cardinality(V) = (Cardinality(W) - 1) + 1
        <5>1. n \notin W \ {h}
          BY <3>1
        <5>2. /\ IsFiniteSet((W \ {h}) \cup {n})
              /\ Cardinality((W \ {h}) \cup {n}) = Cardinality(W \ {h}) + 1
          <6> HIDE DEF W
          <6> QED
            BY <4>1, <5>1, FS_AddElement
        <5> QED
          BY <3>1, <4>1, <5>2
      <4>4. Cardinality(V) = Cardinality(W)
        BY <4>2, <4>3
      <4>5. \A m \in V : ~Asks(m)
        BY <2>4, <3>1, <3>4 DEF SameKind
      <4>6. d.outstanding > 0 /\ Cardinality(V) = d.outstanding /\ V = WorkIn(T, d.triggeredAt)
        BY <3>2, <3>4, <4>4
      <4>7. Tally(d, T)
        <5> HIDE DEF T, V, W
        <5> QED
          BY <4>3, <4>5, <4>6 DEF Tally
      <4> QED
        BY <2>1, <4>7 DEF Kept
    <3> QED
      BY <3>2, <3>3, <3>4 DEF Kept, Tally
  <2> QED
    BY <2>2, <2>3, <2>4
<1> QED
  BY <1>1, <1>2, <1>3

(* A message that is not work of the run in progress is dropped.           *)
LEMMA DroppedKept ==
  ASSUME NEW r, NEW c, NEW d, NEW S, NEW h, Kept(r, c, S), SameRun(c, d),
         ~(c.running /\ h.type \in WorkTypes /\ h.triggeredAt = c.triggeredAt)
  PROVE  Kept(r, d, S \ {h})
<1>1. c.running => WorkIn(S \ {h}, c.triggeredAt) = WorkIn(S, c.triggeredAt)
  BY DEF WorkIn
<1> QED
  BY <1>1, SameWorkKept

(* A run is announced.                                                     *)
LEMMA AnnouncedKept ==
  ASSUME NEW r, NEW c, NEW d, NEW S, NEW n, Kept(r, c, S), SameRun(c, d),
         n.type \notin WorkTypes
  PROVE  Kept(r, d, S \cup {n})
<1>1. c.running => WorkIn(S \cup {n}, c.triggeredAt) = WorkIn(S, c.triggeredAt)
  BY DEF WorkIn
<1> QED
  BY <1>1, SameWorkKept

(* A run begins: nothing of it is under way but the request for the list.  *)
LEMMA BegunKept ==
  ASSUME NEW r, NEW c, NEW d, NEW S, NEW h \in S, NEW n,
         Kept(r, c, S), Distinct(S), ~c.running,
         Single(h), h.type \notin WorkTypes,
         Asks(n), n.type \in WorkTypes, n.triggeredAt = h.triggeredAt,
         d.running, d.outstanding = 0, d.triggeredAt = h.triggeredAt
  PROVE  Kept(r, d, (S \ {h}) \cup {n})
<1> DEFINE T == (S \ {h}) \cup {n}
<1>1. \A m \in S : m.triggeredAt = h.triggeredAt => m = h
  BY DEF Distinct, Clash
<1>2. WorkIn(T, d.triggeredAt) = {n}
  BY <1>1 DEF WorkIn
<1>3. Tally(d, T)
  BY <1>2 DEF Tally
<1>4. r = "cleaner" => Owned(d, T)
  BY DEF Kept, Owned
<1> QED
  BY <1>3, <1>4 DEF Kept

(* The list is there: the answer gives way to one check per entry.         *)
LEMMA ListedKept ==
  ASSUME NEW r, NEW c, NEW d, NEW S, NEW h \in S, NEW k \in Nat \ {0}, NEW msgs,
         Kept(r, c, S), c.running, Asks(h), h.type \in WorkTypes,
         h.triggeredAt = c.triggeredAt,
         \A i \in 1 .. k : /\ msgs[i].type \in WorkTypes /\ ~Asks(msgs[i])
                           /\ msgs[i].triggeredAt = h.triggeredAt
                           /\ msgs[i].entry = i,
         d.running, d.outstanding = k, d.triggeredAt = c.triggeredAt
  PROVE  Kept(r, d, (S \ {h}) \cup {msgs[i] : i \in 1 .. k})
<1> DEFINE N == {msgs[i] : i \in 1 .. k}
           T == (S \ {h}) \cup N
<1>1. h \in WorkIn(S, c.triggeredAt)
  BY DEF WorkIn
<1>2. WorkIn(S, c.triggeredAt) = {h}
  BY <1>1 DEF Kept, Tally
<1>3. WorkIn(T, d.triggeredAt) = N
  BY <1>2 DEF WorkIn
<1>4. IsFiniteSet(N) /\ Cardinality(N) = k
  <2> DEFINE f == [i \in 1 .. k |-> msgs[i]]
  <2>1. f \in Bijection(1 .. k, N)
    <3>1. \A i, j \in 1 .. k : f[i] = f[j] => i = j
      OBVIOUS
    <3>2. f \in [1 .. k -> N] /\ \A m \in N : \E i \in 1 .. k : f[i] = m
      OBVIOUS
    <3> QED
      BY <3>1, <3>2 DEF Bijection, Injection, Surjection, IsInjective
  <2>2. ExistsBijection(1 .. k, N)
    BY <2>1 DEF ExistsBijection
  <2> QED
    BY <2>2, FS_CountingElements, FS_NatBijection
<1>5. \A m \in N : ~Asks(m)
  OBVIOUS
<1>6. Tally(d, T)
  BY <1>3, <1>4, <1>5 DEF Tally
<1>7. r = "cleaner" => Owned(d, T)
  BY DEF Kept, Owned
<1> QED
  BY <1>6, <1>7 DEF Kept

(* The last message about an entry is handled: if it was the last entry of *)
(* the run, the run is over.                                               *)
LEMMA CompletedKept ==
  ASSUME NEW r, NEW c, NEW d, NEW S, NEW h \in S,
         Kept(r, c, S), c.running, ~Asks(h), h.type \in WorkTypes,
         h.triggeredAt = c.triggeredAt,
         c.outstanding \in Nat, d.triggeredAt = c.triggeredAt,
         d.outstanding = IF c.outstanding > 0 THEN c.outstanding - 1 ELSE 0,
         d.running <=> d.outstanding # 0
  PROVE  Kept(r, d, S \ {h})
<1> DEFINE W == WorkIn(S, c.triggeredAt)
           V == WorkIn(S \ {h}, c.triggeredAt)
<1>1. h \in W /\ V = W \ {h}
  BY DEF WorkIn
<1>2. /\ c.outstanding > 0 /\ IsFiniteSet(W) /\ Cardinality(W) = c.outstanding
      /\ \A m \in W : ~Asks(m)
  BY <1>1 DEF Kept, Tally
<1>3. IsFiniteSet(V) /\ Cardinality(V) = c.outstanding - 1
  <2>1. IsFiniteSet(W \ {h}) /\ Cardinality(W \ {h}) = Cardinality(W) - 1
    BY <1>1, <1>2, FS_RemoveElement
  <2> QED
    BY <1>1, <1>2, <2>1
<1>4. d.outstanding = c.outstanding - 1
  BY <1>2
<1>5. CASE d.running
  <2>1. V = WorkIn(S \ {h}, d.triggeredAt) /\ \A m \in V : ~Asks(m)
    BY <1>1, <1>2
  <2>2. d.outstanding > 0 /\ Cardinality(V) = d.outstanding
    BY <1>2, <1>3, <1>4, <1>5
  <2>3. Tally(d, S \ {h})
    <3> HIDE DEF V, W
    <3> QED
      BY <1>3, <2>1, <2>2 DEF Tally
  <2>4. r = "cleaner" => Owned(d, S \ {h})
    BY <1>5 DEF Kept, Owned
  <2> QED
    BY <2>3, <2>4 DEF Kept
<1>6. CASE ~d.running
  <2>1. Cardinality(V) = 0
    BY <1>3, <1>4, <1>6
  <2>2. V = {}
    BY <1>3, <2>1, FS_EmptySet
  <2>3. r = "cleaner" => \A m \in S \ {h} : m.type \notin WorkTypes
    BY <2>2 DEF Kept, Owned, WorkIn
  <2> QED
    BY <1>6, <2>3, StoppedKept
<1> QED
  BY <1>5, <1>6

-----------------------------------------------------------------------------
(* The books of requester r.                                               *)
Books(r) ==
  /\ Apart(box, sleeping, r)
  /\ Kept(r, Actor(r), Carried(box, sleeping, r))

(* What the master sends to the two requesters.                            *)
Inbox(r) ==
  IF r = "cleaner"
  THEN {"CleanupCycleStarted", "StreamListFetched", "StreamHealthChecked",
        "StreamRemovalCompleted"}
  ELSE {"CountAliveStreamsStarted", "StreamListFetched", "StreamHealthChecked"}

Routed(b) == \A r \in Requesters : \A i \in 1 .. Len(b[r]) : b[r][i].type \in Inbox(r)

BooksInv == TypeOK /\ Routed(box) /\ \A r \in Requesters : Books(r)

-----------------------------------------------------------------------------
(* A requester whose mailbox stays or loses a message gets no other one.   *)
LEMMA RoutedLess ==
  ASSUME BoxOK(box), Routed(box), NEW b,
         \A a \in Requesters : b[a] = box[a] \/ (box[a] # <<>> /\ b[a] = Tail(box[a]))
  PROVE  Routed(b)
<1> SUFFICES ASSUME NEW a \in Requesters, NEW i \in 1 .. Len(b[a])
             PROVE  b[a][i].type \in Inbox(a)
  BY DEF Routed
<1>1. CASE b[a] = box[a]
  BY <1>1 DEF Routed
<1>2. CASE box[a] # <<>> /\ b[a] = Tail(box[a])
  <2>1. PICK q \in Seq(Message) : q = box[a]
    BY DEF BoxOK, Actors, Requesters
  <2>2. q # <<>> /\ i \in 1 .. Len(Tail(q))
    BY <1>2, <2>1
  <2>3. i + 1 \in 1 .. Len(q) /\ Tail(q)[i] = q[i + 1]
    BY <2>2
  <2> QED
    BY <1>2, <2>1, <2>3 DEF Routed
<1> QED
  BY <1>1, <1>2

(* Sending to somebody else leaves a mailbox as it is.                     *)
LEMMA PostElsewhere ==
  ASSUME NEW b, BoxOK(b), NEW to, NEW msgs, NEW a \in Actors, a # to
  PROVE  Post(b, to, msgs)[a] = b[a]
BY DEF BoxOK, Post

(* What is left after one message has been taken.                          *)
LEMMA TakenFrom ==
  ASSUME BoxOK(box), NEW self \in Actors, NEW a \in Actors
  PROVE  Taken(self)[a] = IF a = self THEN Tail(box[a]) ELSE box[a]
BY DEF BoxOK, Taken

(* A handler that sends to nobody but the master, go2rtc, redis or action. *)
LEMMA RoutedHandler ==
  ASSUME BoxOK(box), Routed(box), NEW self \in Actors, box[self] # <<>>,
         NEW to, to \notin Requesters, NEW msgs,
         box' = Taken(self) \/ box' = Post(Taken(self), to, msgs)
  PROVE  Routed(box')
<1>1. PICK b : b = box'
  OBVIOUS
<1>2. Requesters \subseteq Actors /\ BoxOK(Taken(self))
  BY TakenOK DEF Requesters, Actors
<1>3. \A a \in Requesters : b[a] = Taken(self)[a]
  BY <1>1, <1>2, PostElsewhere
<1>4. \A a \in Requesters : b[a] = box[a] \/ (box[a] # <<>> /\ b[a] = Tail(box[a]))
  BY <1>2, <1>3, TakenFrom
<1> QED
  BY <1>1, <1>4, RoutedLess

(* The master hands a message to a requester.                              *)
LEMMA RoutedPost ==
  ASSUME NEW b, BoxOK(b), Routed(b), NEW to \in Requesters, NEW n \in Message,
         n.type \in Inbox(to)
  PROVE  Routed(Post(b, to, <<n>>))
<1>1. PICK q \in Seq(Message) : q = <<n>>
  BY OneMessage
<1>2. to \in Actors /\ Requesters \subseteq Actors
  BY DEF Requesters, Actors
<1> DEFINE d == Post(b, to, q)
<1>3. Longer(b, d, to, q)
  BY <1>2, PostIsLonger
<1> HIDE DEF d
<1>4. Len(q) = 1 /\ q[1] = n
  BY <1>1
<1>5. ASSUME NEW a \in Requesters, NEW i \in 1 .. Len(d[a])
      PROVE  d[a][i].type \in Inbox(a)
  <2>1. \/ i \in 1 .. Len(b[a]) /\ d[a][i] = b[a][i]
        \/ a = to /\ i - Len(b[to]) \in 1 .. Len(q) /\ d[a][i] = q[i - Len(b[to])]
    BY <1>2, <1>3, PostCell
  <2>2. CASE i \in 1 .. Len(b[a]) /\ d[a][i] = b[a][i]
    BY <2>2 DEF Routed
  <2>3. CASE a = to /\ i - Len(b[to]) \in 1 .. Len(q) /\ d[a][i] = q[i - Len(b[to])]
    <3>1. i - Len(b[to]) = 1
      BY <1>4, <2>3
    <3> QED
      BY <1>4, <2>3, <3>1
  <2> QED
    BY <2>1, <2>2, <2>3
<1>6. Routed(d)
  BY <1>5 DEF Routed
<1> QED
  BY <1>1, <1>6 DEF d

-----------------------------------------------------------------------------
(* The books after a step, from the books of the values after it.          *)
LEMMA BooksNext ==
  ASSUME NEW r \in Requesters, NEW b, NEW s, NEW d, b = box', s = sleeping',
         d = IF r = "cleaner" THEN cleaner' ELSE count',
         Apart(b, s, r), Kept(r, d, Carried(b, s, r))
  PROVE  Books(r)'
BY DEF Books, Actor, Apart, Carried, Kept, Tally, Owned, WorkIn, Requesters

(* A step that does not touch r's messages, nor the fields of r.           *)
LEMMA UntouchedBooks ==
  ASSUME NEW r \in Requesters, Books(r), NEW b, NEW s, NEW d, b = box', s = sleeping',
         d = IF r = "cleaner" THEN cleaner' ELSE count',
         SameRun(Actor(r), d),
         Apart(b, s, r), Carried(b, s, r) = Carried(box, sleeping, r)
  PROVE  Books(r)'
<1>1. PICK c : c = Actor(r)
  OBVIOUS
<1>2. PICK S : S = Carried(box, sleeping, r)
  OBVIOUS
<1>3. Kept(r, c, S) /\ SameRun(c, d)
  BY <1>1, <1>2 DEF Books
<1>4. Kept(r, d, S)
  BY <1>3, SameWorkKept
<1>5. Kept(r, d, Carried(b, s, r))
  BY <1>2, <1>4
<1> QED
  BY <1>5, BooksNext

(* A handler that takes nothing from r and sends nothing on its behalf.    *)
LEMMA ForeignBooks ==
  ASSUME NEW r \in Requesters, BoxOK(box), Books(r), NEW d,
         d = IF r = "cleaner" THEN cleaner' ELSE count', SameRun(Actor(r), d),
         NEW self \in Actors, box[self] # <<>>,
         self \notin Carriers(r) \/ ~OnBehalfOf(Msg(self), r),
         NEW to \in Actors, NEW msgs \in Seq(Message),
         to \notin Carriers(r) \/ \A i \in 1 .. Len(msgs) : ~OnBehalfOf(msgs[i], r),
         box' = Taken(self) \/ box' = Post(Taken(self), to, msgs),
         sleeping' = sleeping
  PROVE  Books(r)'
<1>1. PICK b, s : b = Taken(self) /\ s = sleeping
  OBVIOUS
<1>2. BoxOK(b) /\ Apart(b, s, r) /\ Carried(b, s, r) = Carried(box, sleeping, r)
  BY <1>1, TakenOK, DropForeign DEF Books
<1>3. CASE box' = Taken(self)
  BY <1>1, <1>2, <1>3, UntouchedBooks
<1>4. CASE box' = Post(Taken(self), to, msgs)
  <2>1. PICK e : e = Post(b, to, msgs)
    OBVIOUS
  <2>2. Apart(e, s, r) /\ Carried(e, s, r) = Carried(b, s, r)
    BY <1>2, <2>1, PostForeign
  <2> QED
    BY <1>1, <1>2, <1>4, <2>1, <2>2, UntouchedBooks
<1> QED
  BY <1>3, <1>4

(* The same for a single message.                                          *)
LEMMA ForeignMessage ==
  ASSUME NEW r \in Requesters, BoxOK(box), Books(r), NEW d,
         d = IF r = "cleaner" THEN cleaner' ELSE count', SameRun(Actor(r), d),
         NEW self \in Actors, box[self] # <<>>,
         self \notin Carriers(r) \/ ~OnBehalfOf(Msg(self), r),
         NEW to \in Actors, NEW n \in Message,
         to \notin Carriers(r) \/ ~OnBehalfOf(n, r),
         box' = Taken(self) \/ box' = Post(Taken(self), to, <<n>>),
         sleeping' = sleeping
  PROVE  Books(r)'
<1>1. PICK q \in Seq(Message) : q = <<n>>
  BY OneMessage
<1>2. \A i \in 1 .. Len(q) : q[i] = n
  BY <1>1
<1> QED
  BY <1>1, <1>2, ForeignBooks

(* A handler takes a message of r and sends its heirs.                     *)
LEMMA ExchangedBooks ==
  ASSUME NEW r \in Requesters, BoxOK(box), Books(r), NEW d,
         d = IF r = "cleaner" THEN cleaner' ELSE count',
         NEW self \in Carriers(r), box[self] # <<>>, OnBehalfOf(Msg(self), r),
         NEW to \in Carriers(r), NEW msgs \in Seq(Message),
         \A i \in OwnOf(msgs, r) : Heir(Msg(self), msgs[i]),
         \A i, j \in OwnOf(msgs, r) : Clash(msgs[i], msgs[j]) => i = j,
         box' = Post(Taken(self), to, msgs), sleeping' = sleeping,
         Kept(r, d, (Carried(box, sleeping, r) \ {Msg(self)})
                      \cup {msgs[i] : i \in OwnOf(msgs, r)})
  PROVE  Books(r)'
<1>1. PICK b, s : b = Post(Taken(self), to, msgs) /\ s = sleeping
  OBVIOUS
<1>2. /\ Apart(b, s, r)
      /\ Carried(b, s, r) = (Carried(box, sleeping, r) \ {Msg(self)})
                              \cup {msgs[i] : i \in OwnOf(msgs, r)}
  BY <1>1, ExchangeOwn DEF Books
<1>3. Kept(r, d, Carried(b, s, r))
  BY <1>2
<1> QED
  BY <1>1, <1>2, <1>3, BooksNext

(* A handler takes a message of r and sends nothing on its behalf.         *)
LEMMA DroppedBooks ==
  ASSUME NEW r \in Requesters, BoxOK(box), Books(r), NEW d,
         d = IF r = "cleaner" THEN cleaner' ELSE count',
         NEW self \in Carriers(r), box[self] # <<>>, OnBehalfOf(Msg(self), r),
         NEW n \in Message, ~OnBehalfOf(n, r),
         box' = Taken(self) \/ box' = Post(Taken(self), "master", <<n>>),
         sleeping' = sleeping,
         Kept(r, d, Carried(box, sleeping, r) \ {Msg(self)})
  PROVE  Books(r)'
<1>1. PICK b, s : b = Taken(self) /\ s = sleeping
  OBVIOUS
<1>2. self \in Actors /\ "master" \in Actors
  BY DEF Carriers, Actors, Requesters
<1>3. BoxOK(b)
  BY <1>1, <1>2, TakenOK
<1>4. Apart(b, s, r) /\ Carried(b, s, r) = Carried(box, sleeping, r) \ {Msg(self)}
  BY <1>1, DropOwn DEF Books
<1>5. CASE box' = Taken(self)
  <2>1. Kept(r, d, Carried(b, s, r))
    BY <1>4
  <2> QED
    BY <1>1, <1>4, <1>5, <2>1, BooksNext
<1>6. CASE box' = Post(Taken(self), "master", <<n>>)
  <2>1. PICK q \in Seq(Message) : q = <<n>>
    BY OneMessage
  <2>2. \A i \in 1 .. Len(q) : ~OnBehalfOf(q[i], r)
    BY <2>1
  <2>3. PICK e : e = Post(b, "master", q)
    OBVIOUS
  <2>4. Apart(e, s, r) /\ Carried(e, s, r) = Carried(b, s, r)
    BY <1>2, <1>3, <1>4, <2>2, <2>3, PostForeign
  <2>5. Kept(r, d, Carried(e, s, r))
    BY <1>4, <2>4
  <2>6. e = box' /\ s = sleeping'
    BY <1>1, <1>6, <2>1, <2>3
  <2> QED
    BY <2>4, <2>5, <2>6, BooksNext
<1> QED
  BY <1>5, <1>6

(* As a set, the messages of r are distinct.                               *)
LEMMA BooksDistinct ==
  ASSUME NEW r, Books(r)
  PROVE  Distinct(Carried(box, sleeping, r))
BY CarriedApart DEF Books, Distinct

(* The oldest message of a mailbox is in transit.                          *)
LEMMA BooksInTransit ==
  ASSUME NEW r \in Requesters, BoxOK(box), Books(r), NEW self \in Carriers(r),
         box[self] # <<>>, OnBehalfOf(Msg(self), r)
  PROVE  Msg(self) \in Carried(box, sleeping, r)
BY DropOwn DEF Books

(* A message of the same kind may take another one's place.                *)
LEMMA SameKindHeir == \A h, n : SameKind(h, n) => Heir(h, n)
BY DEF SameKind, Heir, Clash

(* A handler answers or passes on a message of r by one of the same kind.  *)
LEMMA AnsweredBooks ==
  ASSUME NEW r \in Requesters, BoxOK(box), Books(r), NEW d,
         d = IF r = "cleaner" THEN cleaner' ELSE count', SameRun(Actor(r), d),
         NEW self \in Carriers(r), box[self] # <<>>, OnBehalfOf(Msg(self), r),
         NEW to \in Carriers(r), NEW msgs \in Seq(Message), NEW k, OwnOf(msgs, r) = {k},
         SameKind(Msg(self), msgs[k]),
         box' = Post(Taken(self), to, msgs), sleeping' = sleeping
  PROVE  Books(r)'
<1>1. PICK S, c, h, n : /\ S = Carried(box, sleeping, r) /\ c = Actor(r)
                        /\ h = Msg(self) /\ n = msgs[k]
  OBVIOUS
<1>2. Kept(r, c, S) /\ Distinct(S) /\ SameRun(c, d) /\ SameKind(h, n)
  BY <1>1, BooksDistinct DEF Books
<1>3. h \in S
  BY <1>1, BooksInTransit
<1>4. Kept(r, d, (S \ {h}) \cup {n})
  BY <1>2, <1>3, ReplacedKept
<1>5. {msgs[i] : i \in OwnOf(msgs, r)} = {n}
  BY <1>1
<1>6. Kept(r, d, (Carried(box, sleeping, r) \ {Msg(self)}) \cup {msgs[i] : i \in OwnOf(msgs, r)})
  BY <1>1, <1>4, <1>5
<1>7. /\ \A i \in OwnOf(msgs, r) : Heir(Msg(self), msgs[i])
      /\ \A i, j \in OwnOf(msgs, r) : Clash(msgs[i], msgs[j]) => i = j
  BY <1>1, <1>2, SameKindHeir
<1> QED
  BY <1>6, <1>7, ExchangedBooks

(* The same for a single message.                                          *)
LEMMA PassedBooks ==
  ASSUME NEW r \in Requesters, BoxOK(box), Books(r), NEW d,
         d = IF r = "cleaner" THEN cleaner' ELSE count', SameRun(Actor(r), d),
         NEW self \in Carriers(r), box[self] # <<>>, OnBehalfOf(Msg(self), r),
         NEW to \in Carriers(r), NEW n \in Message, OnBehalfOf(n, r),
         SameKind(Msg(self), n),
         box' = Post(Taken(self), to, <<n>>), sleeping' = sleeping
  PROVE  Books(r)'
<1>1. PICK q \in Seq(Message) : q = <<n>>
  BY OneMessage
<1>2. q[1] = n /\ OwnOf(q, r) = {1}
  BY <1>1 DEF OwnOf
<1> QED
  BY <1>1, <1>2, AnsweredBooks

(* A message travels for one requester only.                               *)
LEMMA OneRequester ==
  ASSUME NEW m, NEW r \in Requesters, NEW q \in Requesters, OnBehalfOf(m, r), q # r
  PROVE  ~OnBehalfOf(m, q)
BY DEF OnBehalfOf, Requesters

(* On whose behalf the messages of each type travel.                       *)
LEMMA Behalf ==
  ASSUME NEW m, NEW r \in Requesters
  PROVE  /\ m.type \in {"FetchStreamList", "StreamListFetched",
                        "CheckStreamHealth", "StreamHealthChecked"} =>
              (OnBehalfOf(m, r) <=> m.requestedBy = r)
         /\ m.type \in {"CleanupCycleStarted", "RemoveStream", "StreamRemovalCompleted"} =>
              (OnBehalfOf(m, r) <=> r = "cleaner")
         /\ m.type = "CountAliveStreamsStarted" => (OnBehalfOf(m, r) <=> r = "count")
         /\ m.type \in {"TriggerCleanup", "StreamRemoved", "ExecuteAction",
                        "CleanupCycleFinished", "AliveStreamCountCalculated",
                        "UpdateStreamCount"} => ~OnBehalfOf(m, r)
BY DEF OnBehalfOf, Requesters

(* A message is of its own kind.                                           *)
LEMMA OwnKind == \A m : SameKind(m, m)
BY DEF SameKind

-----------------------------------------------------------------------------
(* What the master forwards to both requesters arrives in either order.    *)
LEMMA PostsCommute ==
  ASSUME NEW b, BoxOK(b), NEW msgs
  PROVE  Post(Post(b, "cleaner", msgs), "count", msgs) =
           Post(Post(b, "count", msgs), "cleaner", msgs)
BY DEF BoxOK, Post, Actors

(* MasterActor.Receive keeps the books of both requesters.                 *)
LEMMA MasterBooks ==
  ASSUME BooksInv, MasterStep, NEW r \in Requesters
  PROVE  Books(r)'
<1> DEFINE h == Msg("master")
<1>1. /\ BoxOK(box) /\ Books(r) /\ sleeping' = sleeping
      /\ UNCHANGED <<status, cleaner, count, redis>>
  BY DEF BooksInv, TypeOK, BoxOK, MasterStep, MasterNext
<1>2. box["master"] # <<>>
  BY DEF MasterStep, MasterNext, MasterStartsCleanup, MasterStartsCount,
         MasterForwardsAnswer, MasterForwardsRemoval, MasterRequestsAction,
         MasterDropsReport, MasterPublishesReport, MasterDropsCount,
         MasterPublishesCount, Gets
<1>3. h \in Message /\ BoxOK(Taken("master"))
  BY <1>1, <1>2, TakenOK DEF Actors
<1>4. PICK d : /\ d = IF r = "cleaner" THEN cleaner' ELSE count'
               /\ SameRun(Actor(r), d)
  BY <1>1 DEF Actor, SameRun
<1>5. /\ {"master", "cleaner", "count", "redis", "action", "go2rtc"} \subseteq Actors
      /\ "master" \in Carriers(r) /\ r \in Carriers(r)
      /\ "redis" \notin Carriers(r) /\ "action" \notin Carriers(r)
      /\ \A a \in Requesters : a # r => a \notin Carriers(r)
  BY DEF Actors, Carriers, Requesters
<1>6. CASE MasterStartsCleanup
  <2>1. PICK t \in Times : /\ Fresh(t, "cleaner")
                           /\ box' = Post(Taken("master"), "cleaner", <<CleanupCycleStarted(t)>>)
    BY <1>6 DEF MasterStartsCleanup
  <2>2. PICK n \in Message : n = CleanupCycleStarted(t)
    BY StartsAreMessages DEF Requesters
  <2>3. ~OnBehalfOf(h, r)
    BY <1>6, Behalf DEF MasterStartsCleanup, Gets
  <2>4. CASE r = "count"
    <3>1. ~OnBehalfOf(n, r)
      BY <2>2, <2>4, Behalf DEF CleanupCycleStarted
    <3> QED
      BY <1>1, <1>2, <1>4, <1>5, <2>1, <2>2, <2>3, <3>1, ForeignMessage
  <2>5. CASE r = "cleaner"
    <3>1. n.type = "CleanupCycleStarted" /\ n.triggeredAt = t /\ OnBehalfOf(n, r)
      BY <2>2, <2>5 DEF CleanupCycleStarted, OnBehalfOf
    <3>2. PICK b, s : b = Taken("master") /\ s = sleeping
      OBVIOUS
    <3>3. BoxOK(b) /\ Apart(b, s, r) /\ Carried(b, s, r) = Carried(box, sleeping, r)
      BY <1>1, <1>2, <1>3, <1>5, <2>3, <3>2, DropForeign DEF Books
    <3>4. \A w \in Carried(b, s, r) : ~Clash(w, n)
      <4>1. Carried(box, sleeping, r) = InTransit("cleaner")
        BY <2>5 DEF Carried, InTransit, Carriers
      <4>2. \A w \in InTransit("cleaner") : w.triggeredAt # t
        BY <2>1 DEF Fresh
      <4> QED
        BY <3>1, <3>3, <4>1, <4>2 DEF Clash
    <3>5. PICK e : e = Post(b, "cleaner", <<n>>)
      OBVIOUS
    <3>6. Apart(e, s, r) /\ Carried(e, s, r) = Carried(b, s, r) \cup {n}
      BY <1>5, <2>5, <3>1, <3>3, <3>4, <3>5, PostOwn
    <3>7. PICK c, S : c = Actor(r) /\ S = Carried(box, sleeping, r)
      OBVIOUS
    <3>8. Kept(r, d, S \cup {n})
      <4>1. Kept(r, c, S) /\ SameRun(c, d) /\ n.type \notin WorkTypes
        BY <1>1, <1>4, <3>1, <3>7 DEF Books, WorkTypes
      <4> QED
        BY <4>1, AnnouncedKept
    <3>9. Kept(r, d, Carried(e, s, r))
      BY <3>3, <3>6, <3>7, <3>8
    <3>10. e = box' /\ s = sleeping'
      BY <1>1, <2>1, <2>2, <3>2, <3>5
    <3> QED
      BY <1>4, <3>6, <3>9, <3>10, BooksNext
  <2> QED
    BY <2>4, <2>5 DEF Requesters
<1>7. CASE MasterStartsCount
  <2>1. h.type = "CountAliveStreamsStarted" /\ box' = Post(Taken("master"), "count", <<h>>)
    BY <1>7 DEF MasterStartsCount, Gets
  <2>2. CASE r = "count"
    <3>1. OnBehalfOf(h, r)
      BY <2>1, <2>2, Behalf
    <3> QED
      BY <1>1, <1>2, <1>3, <1>4, <1>5, <2>1, <2>2, <3>1, OwnKind, PassedBooks
  <2>3. CASE r # "count"
    <3>1. ~OnBehalfOf(h, r)
      BY <2>1, <2>3, Behalf
    <3> QED
      BY <1>1, <1>2, <1>3, <1>4, <1>5, <2>1, <3>1, ForeignMessage
  <2> QED
    BY <2>2, <2>3
<1>8. CASE MasterForwardsAnswer
  <2>1. PICK n \in Message, q \in Seq(Message) :
          /\ n = h /\ q = <<n>>
          /\ box' = Post(Post(Taken("master"), "cleaner", q), "count", q)
    BY <1>3, <1>8, OneMessage DEF MasterForwardsAnswer
  <2>2. PICK o \in Requesters : o # r
    BY DEF Requesters
  <2>3. PICK b, s : b = Taken("master") /\ s = sleeping
    OBVIOUS
  <2>4. PICK e, f : e = Post(b, r, q) /\ f = Post(e, o, q)
    OBVIOUS
  <2>5. BoxOK(b) /\ BoxOK(e) /\ r \in Actors /\ o \in Actors /\ o \notin Carriers(r)
    BY <1>3, <1>5, <2>2, <2>3, <2>4, PostOK DEF Requesters
  <2>6. f = box' /\ s = sleeping'
    <3>1. CASE r = "cleaner"
      BY <1>1, <2>1, <2>2, <2>3, <2>4, <3>1 DEF Requesters
    <3>2. CASE r = "count"
      BY <1>1, <2>1, <2>2, <2>3, <2>4, <2>5, <3>2, PostsCommute DEF Requesters
    <3> QED
      BY <3>1, <3>2 DEF Requesters
  <2>7. /\ Len(q) = 1 /\ q[1] = h
        /\ OnBehalfOf(h, r) => OwnOf(q, r) = {1}
    BY <2>1 DEF OwnOf
  <2>8. Apart(e, s, r) /\ Carried(e, s, r) = Carried(box, sleeping, r)
    <3>1. CASE OnBehalfOf(h, r)
      <4>1. /\ \A i \in OwnOf(q, r) : Heir(h, q[i])
            /\ \A i, j \in OwnOf(q, r) : Clash(q[i], q[j]) => i = j
        BY <2>7, <3>1, OwnKind, SameKindHeir
      <4>2. /\ Apart(e, s, r) /\ h \in Carried(box, sleeping, r)
            /\ Carried(e, s, r) = (Carried(box, sleeping, r) \ {h}) \cup {q[i] : i \in OwnOf(q, r)}
        BY <1>1, <1>2, <1>5, <2>3, <2>4, <3>1, <4>1, ExchangeOwn DEF Books
      <4>3. {q[i] : i \in OwnOf(q, r)} = {h}
        BY <2>7, <3>1
      <4> QED
        BY <4>2, <4>3
    <3>2. CASE ~OnBehalfOf(h, r)
      <4>1. Apart(b, s, r) /\ Carried(b, s, r) = Carried(box, sleeping, r)
        BY <1>1, <1>2, <1>5, <2>3, <3>2, DropForeign DEF Books
      <4>2. \A i \in 1 .. Len(q) : ~OnBehalfOf(q[i], r)
        BY <2>7, <3>2
      <4> QED
        BY <2>4, <2>5, <4>1, <4>2, PostForeign
    <3> QED
      BY <3>1, <3>2
  <2>9. Apart(f, s, r) /\ Carried(f, s, r) = Carried(e, s, r)
    BY <2>4, <2>5, <2>8, PostForeign
  <2> QED
    BY <1>1, <1>4, <2>6, <2>8, <2>9, UntouchedBooks
<1>9. CASE MasterForwardsRemoval
  <2>1. h.type = "StreamRemovalCompleted" /\ box' = Post(Taken("master"), "cleaner", <<h>>)
    BY <1>9 DEF MasterForwardsRemoval, Gets
  <2>2. CASE r = "cleaner"
    <3>1. OnBehalfOf(h, r)
      BY <2>1, <2>2, Behalf
    <3> QED
      BY <1>1, <1>2, <1>3, <1>4, <1>5, <2>1, <2>2, <3>1, OwnKind, PassedBooks
  <2>3. CASE r # "cleaner"
    <3>1. ~OnBehalfOf(h, r)
      BY <2>1, <2>3, Behalf
    <3> QED
      BY <1>1, <1>2, <1>3, <1>4, <1>5, <2>1, <3>1, ForeignMessage
  <2> QED
    BY <2>2, <2>3
<1>10. CASE \/ MasterRequestsAction \/ MasterPublishesReport \/ MasterPublishesCount
            \/ MasterDropsReport \/ MasterDropsCount
  <2>1. h.type \in {"StreamRemoved", "CleanupCycleFinished", "AliveStreamCountCalculated"}
    BY <1>10 DEF MasterRequestsAction, MasterPublishesReport, MasterPublishesCount,
                 MasterDropsReport, MasterDropsCount, Gets
  <2>2. ~OnBehalfOf(h, r)
    BY <2>1, Behalf
  <2>3. ExecuteAction(h.stream) \in Message \/ h.type # "StreamRemoved"
    BY <1>3, FieldsOfMessages DEF ExecuteAction, Message, Notices
  <2>4. UpdateStreamCount(h.aliveStreams) \in Message \/ h.type = "StreamRemoved"
    BY <1>3, <2>1, FieldsOfMessages, ReportsAreMessages
  <2>5. PICK n \in Message, to \in {"action", "redis"} :
          box' = Taken("master") \/ box' = Post(Taken("master"), to, <<n>>)
    BY <1>3, <1>10, <2>3, <2>4
    DEF MasterRequestsAction, MasterPublishesReport, MasterPublishesCount,
        MasterDropsReport, MasterDropsCount, Gets
  <2> QED
    BY <1>1, <1>2, <1>4, <1>5, <2>2, <2>5, ForeignMessage
<1> QED
  BY <1>6, <1>7, <1>8, <1>9, <1>10 DEF MasterStep, MasterNext

(* Every outcome of a call to go2rtc keeps the books.                      *)
LEMMA Go2RTCBooks ==
  ASSUME BooksInv, Go2RTCStep, NEW r \in Requesters
  PROVE  Books(r)'
<1> DEFINE h == Msg("go2rtc")
<1>1. /\ BoxOK(box) /\ Books(r) /\ sleeping' = sleeping
      /\ UNCHANGED <<cleaner, count, redis>>
  BY DEF BooksInv, TypeOK, BoxOK, Go2RTCStep, Go2RTCNext, Go2RTCFails,
         Go2RTCFetchFails, Go2RTCCheckFails, Go2RTCRemoveFails, Go2RTCFetches,
         Go2RTCChecks, Go2RTCRemoveUnknown, Go2RTCRemoves
<1>2. box["go2rtc"] # <<>>
  BY DEF Go2RTCStep, Go2RTCNext, Go2RTCFails, Go2RTCFetchFails, Go2RTCCheckFails,
         Go2RTCRemoveFails, Go2RTCFetches, Go2RTCChecks, Go2RTCRemoveUnknown,
         Go2RTCRemoves, Gets
<1>3. h \in Message /\ BoxOK(Taken("go2rtc"))
  BY <1>1, <1>2, TakenOK DEF Actors
<1>4. PICK d : /\ d = IF r = "cleaner" THEN cleaner' ELSE count'
               /\ SameRun(Actor(r), d)
  BY <1>1 DEF Actor, SameRun
<1>5. {"master", "go2rtc"} \subseteq Actors /\ {"master", "go2rtc"} \subseteq Carriers(r)
  BY DEF Actors, Carriers
<1>6. ASSUME NEW n \in Message, SameKind(h, n), Replies(<<n>>),
             \A q \in Requesters : OnBehalfOf(n, q) <=> OnBehalfOf(h, q)
      PROVE  Books(r)'
  <2>1. box' = Post(Taken("go2rtc"), "master", <<n>>)
    BY <1>6 DEF Replies
  <2>2. CASE OnBehalfOf(h, r)
    BY <1>1, <1>2, <1>4, <1>5, <1>6, <2>1, <2>2, PassedBooks
  <2>3. CASE ~OnBehalfOf(h, r)
    BY <1>1, <1>2, <1>4, <1>5, <1>6, <2>1, <2>3, ForeignMessage
  <2> QED
    BY <2>2, <2>3
<1>7. CASE Go2RTCFetchFails \/ Go2RTCFetches
  <2>1. PICK list \in StreamLists \cup {<<>>}, failed \in BOOLEAN :
          Replies(<<StreamListFetched(h.triggeredAt, h.requestedBy, list, failed)>>)
    BY <1>7 DEF Go2RTCFetchFails, Go2RTCFetches
  <2>2. h.type = "FetchStreamList"
    BY <1>7 DEF Go2RTCFetchFails, Go2RTCFetches, Gets
  <2>3. h.triggeredAt \in Times /\ h.requestedBy \in Requesters
    BY <1>3, <2>2, FieldsOfMessages
  <2>4. PICK n \in Message : n = StreamListFetched(h.triggeredAt, h.requestedBy, list, failed)
    BY <2>3, StartsAreMessages
  <2>5. SameKind(h, n) /\ \A q \in Requesters : OnBehalfOf(n, q) <=> OnBehalfOf(h, q)
    BY <2>2, <2>4
    DEF StreamListFetched, SameKind, Asks, Single, WorkTypes, OnBehalfOf
  <2> QED
    BY <1>6, <2>1, <2>4, <2>5
<1>8. CASE Go2RTCCheckFails \/ Go2RTCChecks
  <2>1. PICK producing \in BOOLEAN, failed \in BOOLEAN :
          Replies(<<StreamHealthChecked(h, producing, failed)>>)
    <3>1. (status[h.stream] = "live") \in BOOLEAN
      OBVIOUS
    <3> QED
      BY <1>8, <3>1 DEF Go2RTCCheckFails, Go2RTCChecks
  <2>2. h.type = "CheckStreamHealth"
    BY <1>8 DEF Go2RTCCheckFails, Go2RTCChecks, Gets
  <2>3. PICK n \in Message : n = StreamHealthChecked(h, producing, failed)
    BY <1>3, <2>2, CheckAnswersAreMessages
  <2>4. SameKind(h, n) /\ \A q \in Requesters : OnBehalfOf(n, q) <=> OnBehalfOf(h, q)
    BY <2>2, <2>3
    DEF StreamHealthChecked, SameKind, Asks, Single, WorkTypes, OnBehalfOf
  <2> QED
    BY <1>6, <2>1, <2>3, <2>4
<1>9. CASE Go2RTCRemoveFails \/ Go2RTCRemoveUnknown \/ Go2RTCRemoves
  <2>1. h.type = "RemoveStream"
    BY <1>9 DEF Go2RTCRemoveFails, Go2RTCRemoveUnknown, Go2RTCRemoves, Gets
  <2>2. PICK done \in BOOLEAN, failed \in BOOLEAN :
          \/ Replies(<<StreamRemovalCompleted(h, done, failed)>>)
          \/ Replies(<<StreamRemoved(h.stream), StreamRemovalCompleted(h, done, failed)>>)
    BY <1>9 DEF Go2RTCRemoveFails, Go2RTCRemoveUnknown, Go2RTCRemoves
  <2>3. PICK n \in Message, x \in Message :
          n = StreamRemovalCompleted(h, done, failed) /\ x = StreamRemoved(h.stream)
    BY <1>3, <2>1, RemovalsAreMessages
  <2>4. SameKind(h, n) /\ \A q \in Requesters : OnBehalfOf(n, q) <=> OnBehalfOf(h, q)
    BY <2>1, <2>3
    DEF StreamRemovalCompleted, SameKind, Asks, Single, WorkTypes, OnBehalfOf
  <2>5. CASE Replies(<<n>>)
    BY <1>6, <2>4, <2>5
  <2>6. CASE Replies(<<x, n>>)
    <3>1. PICK msgs \in Seq(Message) : msgs = <<x, n>>
      <4>1. <<x, n>> \in Seq(Message)
        OBVIOUS
      <4> QED
        BY <4>1
    <3>2. ~OnBehalfOf(x, r) /\ (OnBehalfOf(n, r) <=> OnBehalfOf(h, r))
      BY <2>3, <2>4, Behalf DEF StreamRemoved
    <3>3. Len(msgs) = 2 /\ msgs[1] = x /\ msgs[2] = n
      BY <3>1
    <3>4. box' = Post(Taken("go2rtc"), "master", msgs)
      BY <2>6, <3>1 DEF Replies
    <3>5. CASE OnBehalfOf(h, r)
      <4>1. OwnOf(msgs, r) = {2}
        BY <3>2, <3>3, <3>5 DEF OwnOf
      <4>2. SameKind(h, msgs[2])
        BY <2>4, <3>3
      <4> QED
        BY <1>1, <1>2, <1>4, <1>5, <3>4, <3>5, <4>1, <4>2, AnsweredBooks
    <3>6. CASE ~OnBehalfOf(h, r)
      <4>1. \A i \in 1 .. Len(msgs) : ~OnBehalfOf(msgs[i], r)
        BY <3>2, <3>3, <3>6
      <4> QED
        BY <1>1, <1>2, <1>4, <1>5, <3>4, <3>6, <4>1, ForeignBooks
    <3> QED
      BY <3>5, <3>6
  <2> QED
    BY <2>2, <2>3, <2>5, <2>6
<1> QED
  BY <1>7, <1>8, <1>9 DEF Go2RTCStep, Go2RTCNext, Go2RTCFails

(* A goroutine wakes up and sends the second check it has held.            *)
LEMMA WakeUpBooks ==
  ASSUME BooksInv, NEW check \in sleeping, WakeUp(check), NEW r \in Requesters
  PROVE  Books(r)'
<1>1. /\ BoxOK(box) /\ Books(r) /\ check \in Message
      /\ sleeping' = sleeping \ {check} /\ box' = Post(box, "go2rtc", <<check>>)
      /\ UNCHANGED <<cleaner, count>>
  BY DEF BooksInv, TypeOK, BoxOK, Message, WakeUp, ConfirmationElapsed
<1>2. PICK d : /\ d = IF r = "cleaner" THEN cleaner' ELSE count'
               /\ SameRun(Actor(r), d)
  BY <1>1 DEF Actor, SameRun
<1>3. "go2rtc" \in Actors /\ "go2rtc" \in Carriers(r)
  BY DEF Actors, Carriers
<1>4. PICK s, S : s = sleeping \ {check} /\ S = Carried(box, sleeping, r)
  OBVIOUS
<1>5. /\ Apart(box, s, r)
      /\ OnBehalfOf(check, r) => check \in S /\ Carried(box, s, r) = S \ {check}
      /\ ~OnBehalfOf(check, r) => Carried(box, s, r) = S
  <2>1. PICK z : z = sleeping
    OBVIOUS
  <2>2. WakesUp(z, s, check) /\ Apart(box, z, r) /\ S = Carried(box, z, r)
    BY <1>1, <1>4, <2>1 DEF Books, WakesUp
  <2>3. Apart(box, s, r)
    BY <2>2, Woken
  <2>4. ASSUME OnBehalfOf(check, r)
        PROVE  check \in S /\ Carried(box, s, r) = S \ {check}
    BY <2>2, <2>4, Woken
  <2>5. ASSUME ~OnBehalfOf(check, r)
        PROVE  Carried(box, s, r) = S
    BY <2>2, <2>5, Woken
  <2> QED
    BY <2>3, <2>4, <2>5
<1>6. PICK e : e = Post(box, "go2rtc", <<check>>)
  OBVIOUS
<1>7. Apart(e, s, r) /\ Carried(e, s, r) = S
  <2>1. CASE OnBehalfOf(check, r)
    <3>1. \A w \in Carried(box, s, r) : ~Clash(w, check)
      <4>1. Distinct(S)
        BY <1>1, <1>4, BooksDistinct
      <4> QED
        BY <1>5, <2>1, <4>1 DEF Distinct
    <3>2. Apart(e, s, r) /\ Carried(e, s, r) = Carried(box, s, r) \cup {check}
      BY <1>1, <1>3, <1>5, <1>6, <2>1, <3>1, PostOwn
    <3> QED
      BY <1>5, <2>1, <3>2
  <2>2. CASE ~OnBehalfOf(check, r)
    <3>1. PICK q \in Seq(Message) : q = <<check>>
      BY <1>1, OneMessage
    <3>2. \A i \in 1 .. Len(q) : ~OnBehalfOf(q[i], r)
      BY <2>2, <3>1
    <3> QED
      BY <1>1, <1>3, <1>5, <1>6, <2>2, <3>1, <3>2, PostForeign
  <2> QED
    BY <2>1, <2>2
<1> QED
  BY <1>1, <1>2, <1>4, <1>6, <1>7, UntouchedBooks

(* Cron and the ticker only announce runs.                                 *)
LEMMA SchedulersBooks ==
  ASSUME BooksInv, CronFires \/ TickFires, NEW r \in Requesters
  PROVE  Books(r)'
<1>1. /\ BoxOK(box) /\ Books(r) /\ UNCHANGED <<sleeping, cleaner, count>>
  BY DEF BooksInv, TypeOK, BoxOK, CronFires, TickFires, CleanupCron, PublishTick
<1>2. PICK d : /\ d = IF r = "cleaner" THEN cleaner' ELSE count'
               /\ SameRun(Actor(r), d)
  BY <1>1 DEF Actor, SameRun
<1>3. "master" \in Actors /\ "master" \in Carriers(r)
  BY DEF Actors, Carriers
<1>4. PICK s, S : s = sleeping /\ S = Carried(box, sleeping, r)
  OBVIOUS
<1>5. ASSUME NEW n \in Message, ~OnBehalfOf(n, r), box' = Post(box, "master", <<n>>)
      PROVE  Books(r)'
  <2>1. PICK q \in Seq(Message) : q = <<n>>
    BY OneMessage
  <2>2. \A i \in 1 .. Len(q) : ~OnBehalfOf(q[i], r)
    BY <1>5, <2>1
  <2>3. PICK e : e = Post(box, "master", q)
    OBVIOUS
  <2>4. Apart(e, s, r) /\ Carried(e, s, r) = Carried(box, s, r)
    BY <1>1, <1>3, <1>4, <2>2, <2>3, PostForeign DEF Books
  <2> QED
    BY <1>1, <1>2, <1>4, <1>5, <2>1, <2>3, <2>4, UntouchedBooks
<1>6. CASE CronFires
  <2>1. TriggerCleanup \in Message /\ ~OnBehalfOf(TriggerCleanup, r)
    BY Behalf DEF TriggerCleanup, Message
  <2> QED
    BY <1>5, <1>6, <2>1 DEF CronFires, CleanupCron
<1>7. CASE TickFires
  <2>1. PICK t \in Times : /\ Fresh(t, "count")
                           /\ box' = Post(box, "master", <<CountAliveStreamsStarted(t)>>)
    BY <1>7 DEF TickFires, PublishTick
  <2>2. PICK n \in Message : n = CountAliveStreamsStarted(t)
    BY StartsAreMessages DEF Requesters
  <2>3. n.type = "CountAliveStreamsStarted" /\ n.triggeredAt = t
    BY <2>2 DEF CountAliveStreamsStarted
  <2>4. CASE r # "count"
    <3>1. ~OnBehalfOf(n, r)
      BY <2>3, <2>4, Behalf
    <3> QED
      BY <1>5, <2>1, <2>2, <3>1
  <2>5. CASE r = "count"
    <3>1. OnBehalfOf(n, r)
      BY <2>3, <2>5, Behalf
    <3>2. \A w \in S : ~Clash(w, n)
      <4>1. S = InTransit("count")
        BY <1>4, <2>5 DEF Carried, InTransit, Carriers
      <4>2. \A w \in InTransit("count") : w.triggeredAt # t
        BY <2>1 DEF Fresh
      <4> QED
        BY <2>3, <4>1, <4>2 DEF Clash
    <3>3. PICK e : e = Post(box, "master", <<n>>)
      OBVIOUS
    <3>4. Apart(box, s, r) /\ Carried(box, s, r) = S
      BY <1>1, <1>4 DEF Books
    <3>5. Apart(e, s, r) /\ Carried(e, s, r) = Carried(box, s, r) \cup {n}
      BY <1>1, <1>3, <3>1, <3>2, <3>3, <3>4, PostOwn
    <3>6. PICK c : c = Actor(r)
      OBVIOUS
    <3>7. Kept(r, c, S) /\ SameRun(c, d) /\ n.type \notin WorkTypes
      BY <1>1, <1>2, <1>4, <2>3, <3>6 DEF Books, WorkTypes
    <3>8. Kept(r, d, S \cup {n})
      BY <3>7, AnnouncedKept
    <3>9. Kept(r, d, Carried(e, s, r))
      BY <3>4, <3>5, <3>8
    <3> QED
      BY <1>1, <1>2, <1>4, <2>1, <2>2, <3>3, <3>5, <3>9, BooksNext
  <2> QED
    BY <2>4, <2>5
<1> QED
  BY <1>6, <1>7

(* ActionActor, RedisActor and the cameras have no part in the books.      *)
LEMMA OthersBooks ==
  ASSUME BooksInv, ActionStep \/ RedisStep \/ CameraChanges \/ UNCHANGED vars,
         NEW r \in Requesters
  PROVE  Books(r)'
<1>1. BoxOK(box) /\ Books(r) /\ UNCHANGED <<sleeping, cleaner, count>>
  BY DEF BooksInv, TypeOK, BoxOK, ActionStep, ActionExecutes, RedisStep, RedisNext,
         RedisDisabled, RedisPingFails, RedisSetFails, RedisSets, CameraChanges,
         StreamChanges, vars
<1>2. PICK d : /\ d = IF r = "cleaner" THEN cleaner' ELSE count'
               /\ SameRun(Actor(r), d)
  BY <1>1 DEF Actor, SameRun
<1>3. CASE CameraChanges \/ UNCHANGED vars
  <2>1. PICK b, s : b = box /\ s = sleeping
    OBVIOUS
  <2>2. b = box' /\ s = sleeping'
    BY <1>1, <1>3, <2>1 DEF CameraChanges, StreamChanges, vars
  <2>3. Apart(b, s, r) /\ Carried(b, s, r) = Carried(box, sleeping, r)
    BY <1>1, <2>1 DEF Books
  <2> QED
    BY <1>1, <1>2, <2>2, <2>3, UntouchedBooks
<1>4. CASE ActionStep \/ RedisStep
  <2>1. PICK self \in {"action", "redis"} : box[self] # <<>> /\ box' = Taken(self)
    BY <1>4 DEF ActionStep, ActionExecutes, RedisStep, RedisNext, RedisDisabled,
                RedisPingFails, RedisSetFails, RedisSets, RedisUpdates, Gets
  <2>2. self \in Actors /\ self \notin Carriers(r)
    BY DEF Actors, Carriers, Requesters
  <2>3. << >> \in Seq(Message)
    OBVIOUS
  <2> QED
    BY <1>1, <1>2, <2>1, <2>2, <2>3, ForeignBooks
<1> QED
  BY <1>3, <1>4

-----------------------------------------------------------------------------
(* The handlers of the two requesters, for the one or the other.           *)

(* A message is ignored: it is not work of the run in progress.            *)
LEMMA IgnoresBooks ==
  ASSUME NEW r \in Requesters, BoxOK(box), Books(r), NEW d,
         d = IF r = "cleaner" THEN cleaner' ELSE count', SameRun(Actor(r), d),
         box[r] # <<>>,
         ~ /\ Actor(r).running /\ OnBehalfOf(Msg(r), r) /\ Msg(r).type \in WorkTypes
           /\ Msg(r).triggeredAt = Actor(r).triggeredAt,
         box' = Taken(r), sleeping' = sleeping
  PROVE  Books(r)'
<1>1. r \in Actors /\ r \in Carriers(r)
  BY DEF Actors, Requesters, Carriers
<1>2. CASE OnBehalfOf(Msg(r), r)
  <2>1. PICK S, c, h : S = Carried(box, sleeping, r) /\ c = Actor(r) /\ h = Msg(r)
    OBVIOUS
  <2>2. /\ Kept(r, c, S) /\ SameRun(c, d)
        /\ ~(c.running /\ h.type \in WorkTypes /\ h.triggeredAt = c.triggeredAt)
    BY <1>2, <2>1 DEF Books
  <2>3. Kept(r, d, S \ {h})
    BY <2>2, DroppedKept
  <2>4. TriggerCleanup \in Message /\ ~OnBehalfOf(TriggerCleanup, r)
    BY Behalf DEF TriggerCleanup, Message
  <2>5. Kept(r, d, Carried(box, sleeping, r) \ {Msg(r)})
    BY <2>1, <2>3
  <2> QED
    BY <1>1, <1>2, <2>4, <2>5, DroppedBooks
<1>3. CASE ~OnBehalfOf(Msg(r), r)
  <2>1. << >> \in Seq(Message)
    OBVIOUS
  <2>2. \A i \in 1 .. Len(<<>>) : ~OnBehalfOf(<<>>[i], r)
    OBVIOUS
  <2> QED
    BY <1>1, <1>3, <2>1, <2>2, ForeignBooks
<1> QED
  BY <1>2, <1>3

(* A run begins and asks for the list.                                     *)
LEMMA BeginsBooks ==
  ASSUME NEW r \in Requesters, BoxOK(box), Books(r), NEW d,
         d = IF r = "cleaner" THEN cleaner' ELSE count', ~Actor(r).running,
         box[r] # <<>>, OnBehalfOf(Msg(r), r),
         Msg(r).type \in {"CleanupCycleStarted", "CountAliveStreamsStarted"},
         d.running, d.outstanding = 0, d.triggeredAt = Msg(r).triggeredAt,
         box' = Post(Taken(r), "go2rtc", <<FetchStreamList(Msg(r).triggeredAt, r)>>),
         sleeping' = sleeping
  PROVE  Books(r)'
<1>1. r \in Actors /\ r \in Carriers(r) /\ "go2rtc" \in Carriers(r)
  BY DEF Actors, Requesters, Carriers
<1>2. PICK S, c, h : S = Carried(box, sleeping, r) /\ c = Actor(r) /\ h = Msg(r)
  OBVIOUS
<1>3. h \in Message /\ h.triggeredAt \in Times
  BY <1>1, <1>2, TakenOK, FieldsOfMessages
<1>4. PICK n \in Message : n = FetchStreamList(h.triggeredAt, r)
  BY <1>3, StartsAreMessages
<1>5. /\ n.type = "FetchStreamList" /\ n.triggeredAt = h.triggeredAt /\ OnBehalfOf(n, r)
      /\ Asks(n) /\ n.type \in WorkTypes
  BY <1>4 DEF FetchStreamList, OnBehalfOf, Asks, WorkTypes
<1>6. Single(h) /\ h.type \notin WorkTypes
  BY <1>2 DEF Single, WorkTypes
<1>7. Heir(h, n)
  BY <1>5, <1>6 DEF Heir, Clash
<1>8. PICK q \in Seq(Message) : q = <<n>>
  BY OneMessage
<1>9. q[1] = n /\ OwnOf(q, r) = {1}
  BY <1>5, <1>8 DEF OwnOf
<1>10. Kept(r, d, (S \ {h}) \cup {n})
  <2>1. Kept(r, c, S) /\ Distinct(S) /\ h \in S /\ ~c.running
    BY <1>1, <1>2, BooksDistinct, BooksInTransit DEF Books
  <2>2. d.triggeredAt = h.triggeredAt
    BY <1>2
  <2> QED
    BY <1>5, <1>6, <2>1, <2>2, BegunKept
<1>11. {q[i] : i \in OwnOf(q, r)} = {n}
  BY <1>9
<1>12. Kept(r, d, (Carried(box, sleeping, r) \ {Msg(r)}) \cup {q[i] : i \in OwnOf(q, r)})
  BY <1>2, <1>10, <1>11
<1>13. /\ \A i \in OwnOf(q, r) : Heir(Msg(r), q[i])
       /\ \A i, j \in OwnOf(q, r) : Clash(q[i], q[j]) => i = j
  BY <1>2, <1>7, <1>9
<1>14. box' = Post(Taken(r), "go2rtc", q)
  BY <1>2, <1>4, <1>8
<1> QED
  BY <1>1, <1>12, <1>13, <1>14, ExchangedBooks

(* The checks of a fetched list, one by one.                               *)
LEMMA FirstChecksAre ==
  ASSUME NEW m \in Message, m.type = "StreamListFetched", NEW q, q = FirstChecks(m)
  PROVE  /\ Len(q) = Len(m.streams)
         /\ \A i \in 1 .. Len(m.streams) :
              /\ q[i].type = "CheckStreamHealth" /\ q[i].entry = i
              /\ q[i].triggeredAt = m.triggeredAt /\ q[i].requestedBy = m.requestedBy
<1>1. Len(m.streams) \in Nat
  BY FieldsOfMessages
<1> QED
  BY <1>1 DEF FirstChecks, CheckStreamHealth

(* The list arrives and its entries are checked.                           *)
LEMMA ListedBooks ==
  ASSUME NEW r \in Requesters, BoxOK(box), Books(r), NEW d,
         d = IF r = "cleaner" THEN cleaner' ELSE count', Actor(r).running,
         box[r] # <<>>, OnBehalfOf(Msg(r), r), Msg(r).type = "StreamListFetched",
         Msg(r).triggeredAt = Actor(r).triggeredAt, Msg(r).streams # <<>>,
         d.running, d.outstanding = Len(Msg(r).streams),
         d.triggeredAt = Actor(r).triggeredAt,
         box' = Post(Taken(r), "go2rtc", FirstChecks(Msg(r))), sleeping' = sleeping
  PROVE  Books(r)'
<1>1. r \in Actors /\ r \in Carriers(r) /\ "go2rtc" \in Carriers(r)
  BY DEF Actors, Requesters, Carriers
<1>2. PICK S, c, h : S = Carried(box, sleeping, r) /\ c = Actor(r) /\ h = Msg(r)
  OBVIOUS
<1>3. h \in Message /\ h.streams \in Seq(Streams) /\ h.requestedBy = r
  BY <1>1, <1>2, TakenOK, FieldsOfMessages, Behalf
<1>4. PICK k \in Nat \ {0} : k = Len(h.streams)
  BY <1>2, <1>3
<1>5. PICK q \in Seq(Message) : q = FirstChecks(h)
  BY <1>2, <1>3, FirstChecksAreMessages
<1>6. /\ Len(q) = k
      /\ \A i \in 1 .. k : /\ q[i].type = "CheckStreamHealth" /\ q[i].entry = i
                           /\ q[i].triggeredAt = h.triggeredAt /\ q[i].requestedBy = r
  BY <1>2, <1>3, <1>4, <1>5, FirstChecksAre
<1>7. OwnOf(q, r) = 1 .. k
  BY <1>6 DEF OwnOf, OnBehalfOf
<1>8. /\ Single(h) /\ Asks(h) /\ h.type \in WorkTypes
      /\ \A i \in 1 .. k : /\ ~Single(q[i]) /\ ~Asks(q[i]) /\ q[i].type \in WorkTypes
  BY <1>2, <1>6 DEF Single, Asks, WorkTypes
<1>9. /\ \A i \in OwnOf(q, r) : Heir(Msg(r), q[i])
      /\ \A i, j \in OwnOf(q, r) : Clash(q[i], q[j]) => i = j
  BY <1>2, <1>6, <1>7, <1>8 DEF Heir, Clash
<1>10. Kept(r, d, (S \ {h}) \cup {q[i] : i \in 1 .. k})
  <2>1. /\ Kept(r, c, S) /\ h \in S /\ c.running /\ h.triggeredAt = c.triggeredAt
        /\ d.outstanding = k /\ d.triggeredAt = c.triggeredAt
    BY <1>1, <1>2, <1>4, BooksInTransit DEF Books
  <2>2. \A i \in 1 .. k : /\ q[i].type \in WorkTypes /\ ~Asks(q[i])
                          /\ q[i].triggeredAt = h.triggeredAt
                          /\ q[i].entry = i
    BY <1>6, <1>8
  <2> QED
    BY <1>8, <2>1, <2>2, ListedKept, SMTT(30)
<1>11. Kept(r, d, (Carried(box, sleeping, r) \ {Msg(r)}) \cup {q[i] : i \in OwnOf(q, r)})
  BY <1>2, <1>7, <1>10
<1>12. box' = Post(Taken(r), "go2rtc", q)
  BY <1>2, <1>5
<1> QED
  BY <1>1, <1>9, <1>11, <1>12, ExchangedBooks

(* An entry is settled and nothing more is asked about it.                 *)
LEMMA CompletesBooks ==
  ASSUME NEW r \in Requesters, BoxOK(box), Books(r), NEW d,
         d = IF r = "cleaner" THEN cleaner' ELSE count', Actor(r).running,
         box[r] # <<>>, OnBehalfOf(Msg(r), r),
         Msg(r).type \in {"StreamHealthChecked", "StreamRemovalCompleted"},
         Msg(r).triggeredAt = Actor(r).triggeredAt,
         Actor(r).outstanding \in Nat, d.triggeredAt = Actor(r).triggeredAt,
         d.outstanding =
           IF Actor(r).outstanding > 0 THEN Actor(r).outstanding - 1 ELSE 0,
         d.running <=> d.outstanding # 0,
         NEW n \in Message, ~OnBehalfOf(n, r),
         box' = Taken(r) \/ box' = Post(Taken(r), "master", <<n>>),
         sleeping' = sleeping
  PROVE  Books(r)'
<1>1. r \in Carriers(r)
  BY DEF Carriers
<1>2. PICK S, c, h : S = Carried(box, sleeping, r) /\ c = Actor(r) /\ h = Msg(r)
  OBVIOUS
<1>3. Kept(r, c, S) /\ h \in S /\ ~Asks(h) /\ h.type \in WorkTypes
  BY <1>1, <1>2, BooksInTransit DEF Books, Asks, WorkTypes
<1>4. /\ c.running /\ h.triggeredAt = c.triggeredAt /\ c.outstanding \in Nat
      /\ d.triggeredAt = c.triggeredAt
      /\ d.outstanding = IF c.outstanding > 0 THEN c.outstanding - 1 ELSE 0
  BY <1>2
<1>5. Kept(r, d, S \ {h})
  BY <1>3, <1>4, CompletedKept
<1>6. Kept(r, d, Carried(box, sleeping, r) \ {Msg(r)})
  BY <1>2, <1>5
<1> QED
  BY <1>1, <1>6, DroppedBooks

(* A first miss: a goroutine starts to hold the second check.              *)
LEMMA SuspectsBooks ==
  ASSUME NEW r \in Requesters, BoxOK(box), Books(r), NEW d,
         d = IF r = "cleaner" THEN cleaner' ELSE count', SameRun(Actor(r), d),
         box[r] # <<>>, OnBehalfOf(Msg(r), r), Msg(r).type = "StreamHealthChecked",
         box' = Taken(r), sleeping' = sleeping \union {SecondCheck(Msg(r))}
  PROVE  Books(r)'
<1>1. r \in Actors /\ r \in Carriers(r)
  BY DEF Actors, Requesters, Carriers
<1>2. PICK S, c, h, n : /\ S = Carried(box, sleeping, r) /\ c = Actor(r)
                        /\ h = Msg(r) /\ n = SecondCheck(h)
  OBVIOUS
<1>3. SameKind(h, n) /\ OnBehalfOf(n, r)
  BY <1>2 DEF SecondCheck, CheckStreamHealth, SameKind, Asks, Single, WorkTypes, OnBehalfOf
<1>4. PICK b, z : b = Taken(r) /\ z = sleeping
  OBVIOUS
<1>5. Apart(b, z, r) /\ h \in S /\ Carried(b, z, r) = S \ {h}
  BY <1>1, <1>2, <1>4, DropOwn DEF Books
<1>6. Kept(r, c, S) /\ Distinct(S) /\ SameRun(c, d)
  BY <1>2, BooksDistinct DEF Books
<1>7. \A w \in Carried(b, z, r) : ~Clash(w, n)
  BY <1>3, <1>5, <1>6, SameKindHeir DEF Distinct, Heir
<1>8. PICK s : s = z \union {n}
  OBVIOUS
<1>9. Apart(b, s, r) /\ Carried(b, s, r) = Carried(b, z, r) \cup {n}
  BY <1>3, <1>5, <1>7, <1>8, SleepOwn, SMTT(30)
<1>10. Kept(r, d, (S \ {h}) \cup {n})
  BY <1>3, <1>5, <1>6, ReplacedKept
<1>11. Kept(r, d, Carried(b, s, r))
  BY <1>5, <1>9, <1>10
<1>12. b = box' /\ s = sleeping'
  BY <1>2, <1>4, <1>8
<1> QED
  BY <1>9, <1>11, <1>12, BooksNext

(* A goroutine of the other requester starts to sleep.                     *)
LEMMA OtherSuspects ==
  ASSUME NEW r \in Requesters, BoxOK(box), Books(r), NEW d,
         d = IF r = "cleaner" THEN cleaner' ELSE count', SameRun(Actor(r), d),
         NEW self \in Requesters, self # r, box[self] # <<>>,
         NEW n, ~OnBehalfOf(n, r),
         box' = Taken(self), sleeping' = sleeping \union {n}
  PROVE  Books(r)'
<1>1. self \in Actors /\ self \notin Carriers(r)
  BY DEF Actors, Requesters, Carriers
<1>2. PICK b, z, s : b = Taken(self) /\ z = sleeping /\ s = z \union {n}
  OBVIOUS
<1>3. Apart(b, z, r) /\ Carried(b, z, r) = Carried(box, sleeping, r)
  BY <1>1, <1>2, DropForeign DEF Books
<1>4. Apart(b, s, r) /\ Carried(b, s, r) = Carried(b, z, r)
  BY <1>2, <1>3, SleepForeign
<1> QED
  BY <1>2, <1>3, <1>4, UntouchedBooks

-----------------------------------------------------------------------------
(* The guards of the cleaner, type by type.                                *)
LEMMA CleanerGuards ==
  ASSUME NEW m
  PROVE  /\ m.type = "CleanupCycleStarted" => (CleanerAccepts(m) <=> ~cleaner.running)
         /\ m.type \in {"StreamListFetched", "StreamHealthChecked"} =>
              (CleanerAccepts(m) <=> /\ cleaner.running
                                     /\ m.requestedBy = "cleaner"
                                     /\ m.triggeredAt = cleaner.triggeredAt)
         /\ m.type = "StreamRemovalCompleted" =>
              (CleanerAccepts(m) <=> /\ cleaner.running
                                     /\ m.triggeredAt = cleaner.triggeredAt)
BY DEF CleanerAccepts

(* markStreamCompleted and finishCycleIfDone, as the books see them.       *)
LEMMA CompleteStreamIs ==
  ASSUME NEW c \in CleanerStates, c.running, CompleteStream(c)
  PROVE  /\ cleaner'.triggeredAt = c.triggeredAt
         /\ cleaner'.outstanding = IF c.outstanding > 0 THEN c.outstanding - 1 ELSE 0
         /\ cleaner'.running <=> cleaner'.outstanding # 0
         /\ \E a, k \in Nat :
              \/ box' = Taken("cleaner")
              \/ box' = Post(Taken("cleaner"), "master", <<CleanupCycleFinished(a, k)>>)
<1> DEFINE left == IF c.outstanding > 0 THEN c.outstanding - 1 ELSE 0
<1>1. left \in Nat /\ c.running \in BOOLEAN /\ c.aliveCount \in Nat /\ c.removedCount \in Nat
  BY DEF CleanerStates
<1>2. PICK still \in BOOLEAN :
        /\ still <=> left # 0
        /\ cleaner' = [c EXCEPT !.outstanding = left, !.running = still]
  BY DEF CompleteStream
<1>3. \A x \in CleanerStates : \A l, b :
        /\ [x EXCEPT !.outstanding = l, !.running = b].outstanding = l
        /\ [x EXCEPT !.outstanding = l, !.running = b].running = b
        /\ [x EXCEPT !.outstanding = l, !.running = b].triggeredAt = x.triggeredAt
  BY DEF CleanerStates
<1>4. /\ cleaner'.outstanding = left /\ cleaner'.running = still
      /\ cleaner'.triggeredAt = c.triggeredAt
  BY <1>2, <1>3
<1>5. \E a, k \in Nat :
        \/ box' = Taken("cleaner")
        \/ box' = Post(Taken("cleaner"), "master", <<CleanupCycleFinished(a, k)>>)
  BY <1>1 DEF CompleteStream
<1> QED
  BY <1>2, <1>4, <1>5

(* Every handler of StreamCleanerActor keeps the cleaner's books.          *)
LEMMA CleanerOwnBooks ==
  ASSUME BooksInv, CleanerStep
  PROVE  Books("cleaner")'
<1> DEFINE h == Msg("cleaner")
<1>1. /\ BoxOK(box) /\ Books("cleaner") /\ Routed(box) /\ cleaner \in CleanerStates
      /\ "cleaner" \in Requesters /\ "cleaner" \in Actors
  BY DEF BooksInv, TypeOK, BoxOK, Requesters, Actors
<1>2. box["cleaner"] # <<>>
  BY DEF CleanerStep, CleanerNext, CleanerIgnores, CleanerBegins,
         CleanerListFailed, CleanerListEmpty, CleanerListReceived,
         CleanerHealthFailed, CleanerHealthAlive, CleanerSuspects, CleanerRemoves,
         CleanerSkips, CleanerRemovalCompleted, CleanerMissing, CleanerHandles, Gets
<1>3. h \in Message /\ h.type \in Inbox("cleaner")
  <2>1. h \in Message
    BY <1>1, <1>2, TakenOK
  <2>2. PICK q \in Seq(Message) : q = box["cleaner"]
    BY <1>1 DEF BoxOK
  <2>3. 1 \in 1 .. Len(q) /\ h = q[1]
    BY <1>2, <2>2 DEF Msg
  <2> QED
    BY <1>1, <2>1, <2>2, <2>3 DEF Routed
<1>0. PICK r \in Requesters : r = "cleaner"
  BY <1>1
<1>4. PICK c, d : r = "cleaner" /\ c = cleaner /\ d = cleaner'
  BY <1>0
<1>5. /\ Books(r) /\ box[r] # <<>> /\ h = Msg(r) /\ c = Actor(r)
      /\ d = IF r = "cleaner" THEN cleaner' ELSE count'
  BY <1>1, <1>2, <1>4 DEF Actor
<1>7. ASSUME CompleteStream(cleaner) \/ \E x \in CleanerStates :
                 /\ CompleteStream(x)
                 /\ x.running = cleaner.running /\ x.outstanding = cleaner.outstanding
                 /\ x.triggeredAt = cleaner.triggeredAt,
             CleanerAccepts(h), sleeping' = sleeping,
             h.type \in {"StreamHealthChecked", "StreamRemovalCompleted"}
      PROVE  Books("cleaner")'
  <2>1. PICK x \in CleanerStates :
          /\ CompleteStream(x)
          /\ x.running = c.running /\ x.outstanding = c.outstanding
          /\ x.triggeredAt = c.triggeredAt
    BY <1>1, <1>4, <1>7
  <2>2. c.running /\ h.triggeredAt = c.triggeredAt /\ OnBehalfOf(h, r)
    BY <1>4, <1>7, CleanerGuards, Behalf
  <2>3. /\ d.triggeredAt = c.triggeredAt
        /\ d.outstanding = IF c.outstanding > 0 THEN c.outstanding - 1 ELSE 0
        /\ d.running <=> d.outstanding # 0
    BY <1>4, <2>1, <2>2, CompleteStreamIs
  <2>4. PICK a \in Nat, k \in Nat :
          \/ box' = Taken("cleaner")
          \/ box' = Post(Taken("cleaner"), "master", <<CleanupCycleFinished(a, k)>>)
    BY <2>1, <2>2, CompleteStreamIs
  <2>5. PICK n \in Message : n = CleanupCycleFinished(a, k)
    BY ReportsAreMessages
  <2>6. ~OnBehalfOf(n, r)
    BY <2>5, Behalf DEF CleanupCycleFinished
  <2>7. c.outstanding \in Nat
    BY <1>1, <1>4 DEF CleanerStates
  <2>8. box' = Taken(r) \/ box' = Post(Taken(r), "master", <<n>>)
    BY <1>4, <2>4, <2>5
  <2>9. Books(r)'
    BY <1>1, <1>5, <1>7, <2>2, <2>3, <2>6, <2>7, <2>8, CompletesBooks
  <2> QED
    BY <1>4, <2>9
<1>8. CASE CleanerIgnores
  <2>1. SameRun(c, d)
    BY <1>4, <1>8 DEF SameRun, CleanerIgnores
  <2>2. ~ /\ c.running /\ OnBehalfOf(h, r) /\ h.type \in WorkTypes
          /\ h.triggeredAt = c.triggeredAt
    <3>1. ~CleanerAccepts(h)
      BY <1>8 DEF CleanerIgnores
    <3> QED
      BY <1>3, <1>4, <3>1, CleanerGuards, Behalf DEF Inbox, WorkTypes
  <2>3. box' = Taken(r) /\ sleeping' = sleeping
    BY <1>4, <1>8 DEF CleanerIgnores
  <2>4. Books(r)'
    BY <1>1, <1>5, <2>1, <2>2, <2>3, IgnoresBooks
  <2> QED
    BY <1>4, <2>4
<1>9. CASE CleanerBegins
  <2>1. /\ h.type = "CleanupCycleStarted" /\ ~c.running /\ OnBehalfOf(h, r)
    BY <1>4, <1>9, CleanerGuards, Behalf DEF CleanerBegins, CleanerHandles, Gets
  <2>2. d.running /\ d.outstanding = 0 /\ d.triggeredAt = h.triggeredAt
    BY <1>4, <1>9 DEF CleanerBegins
  <2>3. /\ box' = Post(Taken(r), "go2rtc", <<FetchStreamList(h.triggeredAt, r)>>)
        /\ sleeping' = sleeping
    BY <1>4, <1>9 DEF CleanerBegins
  <2>4. Books(r)'
    BY <1>1, <1>5, <2>1, <2>2, <2>3, BeginsBooks
  <2> QED
    BY <1>4, <2>4
<1>10. CASE CleanerListFailed \/ CleanerListEmpty
  <2>1. h.type = "StreamListFetched" /\ c.running /\ h.triggeredAt = c.triggeredAt
        /\ OnBehalfOf(h, r)
    BY <1>4, <1>10, CleanerGuards, Behalf
    DEF CleanerListFailed, CleanerListEmpty, CleanerHandles, Gets
  <2>2. ~d.running
    BY <1>1, <1>4, <1>10 DEF CleanerListFailed, CleanerListEmpty, CleanerStates
  <2>3. PICK S : S = Carried(box, sleeping, r)
    OBVIOUS
  <2>4. Kept(r, c, S) /\ h \in S /\ r \in Carriers(r)
    BY <1>1, <1>5, <2>1, <2>3, BooksInTransit DEF Books, Carriers
  <2>5. Kept(r, d, S \ {h})
    <3>1. h \in WorkIn(S, c.triggeredAt) /\ Asks(h)
      BY <2>1, <2>4 DEF WorkIn, WorkTypes, Asks
    <3>2. WorkIn(S, c.triggeredAt) = {h}
      BY <2>1, <2>4, <3>1 DEF Kept, Tally
    <3>3. \A m \in S \ {h} : m.type \notin WorkTypes
      BY <1>4, <2>4, <3>2 DEF Kept, Owned, WorkIn
    <3> QED
      BY <2>2, <3>3, StoppedKept
  <2>6. PICK n \in Message : n = CleanupCycleFinished(0, 0)
    BY ReportsAreMessages
  <2>7. ~OnBehalfOf(n, r)
    BY <2>6, Behalf DEF CleanupCycleFinished
  <2>8. /\ box' = Taken(r) \/ box' = Post(Taken(r), "master", <<n>>)
        /\ sleeping' = sleeping
    BY <1>4, <1>10, <2>6 DEF CleanerListFailed, CleanerListEmpty
  <2>9. Books(r)'
    BY <1>1, <1>5, <2>1, <2>3, <2>4, <2>5, <2>7, <2>8, DroppedBooks
  <2> QED
    BY <1>4, <2>9
<1>11. CASE CleanerListReceived
  <2>1. h.type = "StreamListFetched" /\ c.running /\ h.triggeredAt = c.triggeredAt
        /\ OnBehalfOf(h, r) /\ h.streams # <<>>
    BY <1>4, <1>11, CleanerGuards, Behalf DEF CleanerListReceived, CleanerHandles, Gets
  <2>2. d.running /\ d.outstanding = Len(h.streams) /\ d.triggeredAt = c.triggeredAt
    BY <1>1, <1>4, <1>11, <2>1 DEF CleanerListReceived, CleanerStates
  <2>3. box' = Post(Taken(r), "go2rtc", FirstChecks(h)) /\ sleeping' = sleeping
    BY <1>4, <1>11 DEF CleanerListReceived
  <2>4. Books(r)'
    BY <1>1, <1>5, <2>1, <2>2, <2>3, ListedBooks
  <2> QED
    BY <1>4, <2>4
<1>12. CASE CleanerHealthFailed \/ CleanerHealthAlive \/ CleanerSkips \/ CleanerRemovalCompleted
  <2>1. /\ CleanerAccepts(h) /\ sleeping' = sleeping
        /\ h.type \in {"StreamHealthChecked", "StreamRemovalCompleted"}
    BY <1>12 DEF CleanerHealthFailed, CleanerHealthAlive, CleanerSkips,
                 CleanerRemovalCompleted, CleanerMissing, CleanerHandles, Gets
  <2>2. PICK p \in SUBSET Streams, a \in Nat, k \in Nat :
          \/ CompleteStream(cleaner)
          \/ CompleteStream([cleaner EXCEPT !.pending = p])
          \/ CompleteStream([cleaner EXCEPT !.pending = p, !.aliveCount = a])
          \/ CompleteStream([cleaner EXCEPT !.removedCount = k])
    <3>1. /\ cleaner.pending \ {h.stream} \in SUBSET Streams
          /\ cleaner.aliveCount + 1 \in Nat /\ cleaner.removedCount + 1 \in Nat
      BY <1>1 DEF CleanerStates
    <3> QED
      BY <1>12, <3>1 DEF CleanerHealthFailed, CleanerHealthAlive, CleanerSkips,
                         CleanerRemovalCompleted
  <2>3. \A x \in CleanerStates :
          LET y == [x EXCEPT !.pending = p]
              z == [x EXCEPT !.pending = p, !.aliveCount = a]
              w == [x EXCEPT !.removedCount = k]
          IN /\ y \in CleanerStates /\ y.running = x.running
             /\ y.outstanding = x.outstanding /\ y.triggeredAt = x.triggeredAt
             /\ z \in CleanerStates /\ z.running = x.running
             /\ z.outstanding = x.outstanding /\ z.triggeredAt = x.triggeredAt
             /\ w \in CleanerStates /\ w.running = x.running
             /\ w.outstanding = x.outstanding /\ w.triggeredAt = x.triggeredAt
    BY DEF CleanerStates
  <2>4. CompleteStream(cleaner) \/ \E x \in CleanerStates :
          /\ CompleteStream(x)
          /\ x.running = cleaner.running /\ x.outstanding = cleaner.outstanding
          /\ x.triggeredAt = cleaner.triggeredAt
    BY <1>1, <2>2, <2>3
  <2> QED
    BY <1>7, <2>1, <2>4
<1>13. CASE CleanerSuspects
  <2>1. h.type = "StreamHealthChecked" /\ OnBehalfOf(h, r)
    BY <1>4, <1>13, CleanerGuards, Behalf
    DEF CleanerSuspects, CleanerMissing, CleanerHandles, Gets
  <2>2. SameRun(c, d)
    BY <1>1, <1>4, <1>13 DEF CleanerSuspects, CleanerStates, SameRun
  <2>3. box' = Taken(r) /\ sleeping' = sleeping \union {SecondCheck(h)}
    BY <1>4, <1>13 DEF CleanerSuspects
  <2>4. Books(r)'
    BY <1>1, <1>5, <2>1, <2>2, <2>3, SuspectsBooks
  <2> QED
    BY <1>4, <2>4
<1>14. CASE CleanerRemoves
  <2>1. h.type = "StreamHealthChecked" /\ OnBehalfOf(h, r)
    BY <1>4, <1>14, CleanerGuards, Behalf
    DEF CleanerRemoves, CleanerMissing, CleanerHandles, Gets
  <2>2. SameRun(c, d)
    BY <1>1, <1>4, <1>14 DEF CleanerRemoves, CleanerStates, SameRun
  <2>3. PICK n \in Message : n = RemoveStream(h)
    BY <1>3, <2>1, RemovalsAreMessages
  <2>4. SameKind(h, n) /\ OnBehalfOf(n, r)
    BY <1>4, <2>1, <2>3 DEF RemoveStream, SameKind, Asks, Single, WorkTypes, OnBehalfOf
  <2>5. box' = Post(Taken(r), "go2rtc", <<n>>) /\ sleeping' = sleeping
    BY <1>4, <1>14, <2>3 DEF CleanerRemoves
  <2>6. r \in Carriers(r) /\ "go2rtc" \in Carriers(r)
    BY DEF Carriers
  <2>7. Books(r)'
    BY <1>1, <1>5, <2>1, <2>2, <2>4, <2>5, <2>6, PassedBooks
  <2> QED
    BY <1>4, <2>7
<1> QED
  BY <1>8, <1>9, <1>10, <1>11, <1>12, <1>13, <1>14 DEF CleanerStep, CleanerNext

-----------------------------------------------------------------------------
(* What the handlers of requester r send: nothing, a report, requests of   *)
(* its own, or a second check that a goroutine holds first.                *)
Sends(r) ==
  \/ box' = Taken(r) /\ sleeping' = sleeping
  \/ \E n \in Message :
       /\ n.type \in {"CleanupCycleFinished", "AliveStreamCountCalculated"}
       /\ box' = Post(Taken(r), "master", <<n>>) /\ sleeping' = sleeping
  \/ \E q \in Seq(Message) :
       /\ \A i \in 1 .. Len(q) : OnBehalfOf(q[i], r)
       /\ box' = Post(Taken(r), "go2rtc", q) /\ sleeping' = sleeping
  \/ \E n : /\ OnBehalfOf(n, r)
            /\ box' = Taken(r) /\ sleeping' = sleeping \union {n}

(* None of it concerns the other requester, ...                            *)
LEMMA SendsBooks ==
  ASSUME NEW r \in Requesters, BoxOK(box), Books(r), NEW d,
         d = IF r = "cleaner" THEN cleaner' ELSE count', SameRun(Actor(r), d),
         NEW self \in Requesters, self # r, box[self] # <<>>, Sends(self)
  PROVE  Books(r)'
<1>1. self \in Actors /\ self \notin Carriers(r) /\ {"master", "go2rtc"} \subseteq Actors
  BY DEF Actors, Requesters, Carriers
<1>2. CASE box' = Taken(self) /\ sleeping' = sleeping
  <2>1. << >> \in Seq(Message) /\ \A i \in 1 .. Len(<< >>) : ~OnBehalfOf(<< >>[i], r)
    OBVIOUS
  <2> QED
    BY <1>1, <1>2, <2>1, ForeignBooks
<1>3. ASSUME NEW n \in Message,
             n.type \in {"CleanupCycleFinished", "AliveStreamCountCalculated"},
             box' = Post(Taken(self), "master", <<n>>), sleeping' = sleeping
      PROVE  Books(r)'
  <2>1. ~OnBehalfOf(n, r)
    BY <1>3, Behalf
  <2> QED
    BY <1>1, <1>3, <2>1, ForeignMessage
<1>4. ASSUME NEW q \in Seq(Message), \A i \in 1 .. Len(q) : OnBehalfOf(q[i], self),
             box' = Post(Taken(self), "go2rtc", q), sleeping' = sleeping
      PROVE  Books(r)'
  <2>1. \A i \in 1 .. Len(q) : ~OnBehalfOf(q[i], r)
    BY <1>4, OneRequester
  <2> QED
    BY <1>1, <1>4, <2>1, ForeignBooks
<1>5. ASSUME NEW n, OnBehalfOf(n, self), box' = Taken(self),
             sleeping' = sleeping \union {n}
      PROVE  Books(r)'
  <2>1. ~OnBehalfOf(n, r)
    BY <1>5, OneRequester
  <2> QED
    BY <1>5, <2>1, OtherSuspects
<1> QED
  BY <1>2, <1>3, <1>4, <1>5 DEF Sends

(* ... and none of it goes to a requester.                                 *)
LEMMA SendsRouted ==
  ASSUME BoxOK(box), Routed(box), NEW self \in Requesters, box[self] # <<>>, Sends(self)
  PROVE  Routed(box')
<1>1. self \in Actors /\ "master" \notin Requesters /\ "go2rtc" \notin Requesters
  BY DEF Requesters, Actors
<1>2. CASE box' = Taken(self)
  BY <1>1, <1>2, RoutedHandler
<1>3. ASSUME NEW n \in Message, box' = Post(Taken(self), "master", <<n>>)
      PROVE  Routed(box')
  <2>1. PICK q \in Seq(Message) : q = <<n>>
    BY OneMessage
  <2>2. box' = Post(Taken(self), "master", q)
    BY <1>3, <2>1
  <2> QED
    BY <1>1, <2>2, RoutedHandler
<1>4. ASSUME NEW q \in Seq(Message), box' = Post(Taken(self), "go2rtc", q)
      PROVE  Routed(box')
  BY <1>1, <1>4, RoutedHandler
<1> QED
  BY <1>2, <1>3, <1>4 DEF Sends

(* One request of r's own.                                                 *)
LEMMA SendsOne ==
  ASSUME NEW r, NEW n \in Message, OnBehalfOf(n, r),
         box' = Post(Taken(r), "go2rtc", <<n>>), sleeping' = sleeping
  PROVE  Sends(r)
<1>1. PICK q \in Seq(Message) : q = <<n>>
  BY OneMessage
<1>2. \A i \in 1 .. Len(q) : OnBehalfOf(q[i], r)
  BY <1>1
<1> QED
  BY <1>1, <1>2 DEF Sends

(* The checks of a whole list.                                             *)
LEMMA SendsChecks ==
  ASSUME NEW r \in Requesters, NEW h \in Message, h.type = "StreamListFetched",
         h.requestedBy = r, box' = Post(Taken(r), "go2rtc", FirstChecks(h)),
         sleeping' = sleeping
  PROVE  Sends(r)
<1>1. PICK q \in Seq(Message) : q = FirstChecks(h)
  BY FirstChecksAreMessages
<1>2. \A i \in 1 .. Len(q) : OnBehalfOf(q[i], r)
  BY <1>1, FirstChecksAre DEF OnBehalfOf
<1> QED
  BY <1>1, <1>2 DEF Sends

(* The second check of one entry.                                          *)
LEMMA SendsSecondCheck ==
  ASSUME NEW r, NEW h, h.requestedBy = r, box' = Taken(r),
         sleeping' = sleeping \union {SecondCheck(h)}
  PROVE  Sends(r)
<1>1. OnBehalfOf(SecondCheck(h), r)
  BY DEF SecondCheck, CheckStreamHealth, OnBehalfOf
<1> QED
  BY <1>1 DEF Sends

(* What the cleaner sends.                                                 *)
LEMMA CleanerSends ==
  ASSUME BooksInv, CleanerStep
  PROVE  box["cleaner"] # <<>> /\ Sends("cleaner")
<1> DEFINE h == Msg("cleaner")
<1>1. BoxOK(box) /\ cleaner \in CleanerStates /\ "cleaner" \in Actors
  BY DEF BooksInv, TypeOK, BoxOK, Actors
<1>2. box["cleaner"] # <<>>
  BY DEF CleanerStep, CleanerNext, CleanerIgnores, CleanerBegins,
         CleanerListFailed, CleanerListEmpty, CleanerListReceived,
         CleanerHealthFailed, CleanerHealthAlive, CleanerSuspects, CleanerRemoves,
         CleanerSkips, CleanerRemovalCompleted, CleanerMissing, CleanerHandles, Gets
<1>3. h \in Message
  BY <1>1, <1>2, TakenOK
<1>4. PICK r \in Requesters : r = "cleaner"
  BY DEF Requesters
<1>5. CASE CleanerIgnores \/ CleanerListFailed
  BY <1>2, <1>5 DEF CleanerIgnores, CleanerListFailed, Sends
<1>6. CASE CleanerBegins
  <2>1. h.triggeredAt \in Times
    BY <1>3, <1>6, FieldsOfMessages DEF CleanerBegins, CleanerHandles, Gets
  <2>2. PICK n \in Message : n = FetchStreamList(h.triggeredAt, r)
    BY <2>1, StartsAreMessages
  <2>3. OnBehalfOf(n, r)
    BY <2>2 DEF FetchStreamList, OnBehalfOf
  <2>4. box' = Post(Taken(r), "go2rtc", <<n>>) /\ sleeping' = sleeping
    BY <1>4, <1>6, <2>2 DEF CleanerBegins
  <2>5. Sends(r)
    BY <2>3, <2>4, SendsOne
  <2> QED
    BY <1>2, <1>4, <2>5
<1>7. CASE CleanerListEmpty
  <2>1. PICK n \in Message : n = CleanupCycleFinished(0, 0)
    BY ReportsAreMessages
  <2>2. n.type = "CleanupCycleFinished"
    BY <2>1 DEF CleanupCycleFinished
  <2> QED
    BY <1>2, <1>7, <2>1, <2>2 DEF CleanerListEmpty, Sends
<1>8. CASE CleanerListReceived
  <2>1. h.type = "StreamListFetched" /\ h.requestedBy = r
    BY <1>4, <1>8, CleanerGuards DEF CleanerListReceived, CleanerHandles, Gets
  <2>2. box' = Post(Taken(r), "go2rtc", FirstChecks(h)) /\ sleeping' = sleeping
    BY <1>4, <1>8 DEF CleanerListReceived
  <2>3. Sends(r)
    BY <1>3, <2>1, <2>2, SendsChecks
  <2> QED
    BY <1>2, <1>4, <2>3
<1>9. ASSUME NEW x \in CleanerStates, x.running, CompleteStream(x), sleeping' = sleeping
      PROVE  Sends("cleaner")
  <2>1. PICK a \in Nat, k \in Nat :
          \/ box' = Taken("cleaner")
          \/ box' = Post(Taken("cleaner"), "master", <<CleanupCycleFinished(a, k)>>)
    BY <1>9, CompleteStreamIs
  <2>2. PICK n \in Message : n = CleanupCycleFinished(a, k)
    BY ReportsAreMessages
  <2>3. n.type = "CleanupCycleFinished"
    BY <2>2 DEF CleanupCycleFinished
  <2> QED
    BY <1>9, <2>1, <2>2, <2>3 DEF Sends
<1>10. CASE CleanerHealthFailed \/ CleanerHealthAlive \/ CleanerSkips \/ CleanerRemovalCompleted
  <2>1. sleeping' = sleeping /\ cleaner.running
    BY <1>10, CleanerGuards DEF CleanerHealthFailed, CleanerHealthAlive, CleanerSkips,
                 CleanerRemovalCompleted, CleanerMissing, CleanerHandles, Gets
  <2>2. PICK p \in SUBSET Streams, a \in Nat, k \in Nat :
          \/ CompleteStream(cleaner)
          \/ CompleteStream([cleaner EXCEPT !.pending = p])
          \/ CompleteStream([cleaner EXCEPT !.pending = p, !.aliveCount = a])
          \/ CompleteStream([cleaner EXCEPT !.removedCount = k])
    <3>1. /\ cleaner.pending \ {h.stream} \in SUBSET Streams
          /\ cleaner.aliveCount + 1 \in Nat /\ cleaner.removedCount + 1 \in Nat
      BY <1>1 DEF CleanerStates
    <3> QED
      BY <1>10, <3>1 DEF CleanerHealthFailed, CleanerHealthAlive, CleanerSkips,
                         CleanerRemovalCompleted
  <2>3. \A x \in CleanerStates :
          LET y == [x EXCEPT !.pending = p]
              z == [x EXCEPT !.pending = p, !.aliveCount = a]
              w == [x EXCEPT !.removedCount = k]
          IN /\ y \in CleanerStates /\ y.running = x.running
             /\ z \in CleanerStates /\ z.running = x.running
             /\ w \in CleanerStates /\ w.running = x.running
    BY DEF CleanerStates
  <2> QED
    BY <1>1, <1>2, <1>9, <2>1, <2>2, <2>3
<1>11. CASE CleanerSuspects
  <2>1. h.requestedBy = r
    BY <1>4, <1>11, CleanerGuards DEF CleanerSuspects, CleanerMissing, CleanerHandles, Gets
  <2>2. box' = Taken(r) /\ sleeping' = sleeping \union {SecondCheck(h)}
    BY <1>4, <1>11 DEF CleanerSuspects
  <2>3. Sends(r)
    BY <2>1, <2>2, SendsSecondCheck
  <2> QED
    BY <1>2, <1>4, <2>3
<1>12. CASE CleanerRemoves
  <2>1. h.type = "StreamHealthChecked"
    BY <1>12 DEF CleanerRemoves, CleanerMissing, CleanerHandles, Gets
  <2>2. PICK n \in Message : n = RemoveStream(h)
    BY <1>3, <2>1, RemovalsAreMessages
  <2>3. OnBehalfOf(n, r)
    BY <1>4, <2>2 DEF RemoveStream, OnBehalfOf
  <2>4. box' = Post(Taken(r), "go2rtc", <<n>>) /\ sleeping' = sleeping
    BY <1>4, <1>12, <2>2 DEF CleanerRemoves
  <2>5. Sends(r)
    BY <2>3, <2>4, SendsOne
  <2> QED
    BY <1>2, <1>4, <2>5
<1> QED
  BY <1>5, <1>6, <1>7, <1>8, <1>10, <1>11, <1>12 DEF CleanerStep, CleanerNext

(* Every handler of the cleaner keeps the books of both requesters.        *)
LEMMA CleanerBooks ==
  ASSUME BooksInv, CleanerStep, NEW r \in Requesters
  PROVE  Books(r)'
<1>1. CASE r = "cleaner"
  BY <1>1, CleanerOwnBooks
<1>2. CASE r # "cleaner"
  <2>1. PICK d : d = IF r = "cleaner" THEN cleaner' ELSE count'
    OBVIOUS
  <2>2. SameRun(Actor(r), d)
    BY <1>2, <2>1 DEF CleanerStep, Actor, SameRun
  <2>3. BoxOK(box) /\ Books(r) /\ "cleaner" \in Requesters
    BY DEF BooksInv, TypeOK, BoxOK, Requesters
  <2> QED
    BY <1>2, <2>1, <2>2, <2>3, CleanerSends, SendsBooks
<1> QED
  BY <1>1, <1>2

-----------------------------------------------------------------------------
(* The guards of the count actor, type by type.                            *)
LEMMA CountGuards ==
  ASSUME NEW m
  PROVE  /\ m.type = "CountAliveStreamsStarted" => (CountAccepts(m) <=> ~count.running)
         /\ m.type \in {"StreamListFetched", "StreamHealthChecked"} =>
              (CountAccepts(m) <=> /\ count.running
                                   /\ m.requestedBy = "count"
                                   /\ m.triggeredAt = count.triggeredAt)
BY DEF CountAccepts

(* What finish and finishWithError leave and send.                         *)
LEMMA FinishIs ==
  ASSUME count \in CounterStates,
         NEW c \in CounterStates, FinishCountWithError \/ FinishCount(c)
  PROVE  /\ ~count'.running
         /\ FinishCount(c) =>
              count'.outstanding = c.outstanding /\ count'.triggeredAt = c.triggeredAt
         /\ \E n \in Message :
              /\ n.type = "AliveStreamCountCalculated"
              /\ box' = Post(Taken("count"), "master", <<n>>)
<1>1. PICK a \in Nat, e \in BOOLEAN :
        box' = Post(Taken("count"), "master", <<AliveStreamCountCalculated(a, e)>>)
  BY DEF FinishCountWithError, FinishCount, CounterStates
<1>2. PICK n \in Message : n = AliveStreamCountCalculated(a, e)
  BY ReportsAreMessages
<1>3. n.type = "AliveStreamCountCalculated"
  BY <1>2 DEF AliveStreamCountCalculated
<1>4. ~count'.running
  BY DEF FinishCountWithError, FinishCount, CounterStates
<1>5. FinishCount(c) =>
        count'.outstanding = c.outstanding /\ count'.triggeredAt = c.triggeredAt
  BY DEF FinishCount, CounterStates
<1> QED
  BY <1>1, <1>2, <1>3, <1>4, <1>5

(* markStreamCompleted, as the books see it.                               *)
LEMMA CompleteCheckIs ==
  ASSUME count \in CounterStates, NEW c \in CounterStates, c.running, CompleteCheck(c)
  PROVE  /\ count'.triggeredAt = c.triggeredAt
         /\ count'.outstanding = IF c.outstanding > 0 THEN c.outstanding - 1 ELSE 0
         /\ count'.running <=> count'.outstanding # 0
         /\ \E n \in Message :
              /\ n.type = "AliveStreamCountCalculated"
              /\ box' = Taken("count") \/ box' = Post(Taken("count"), "master", <<n>>)
<1>1. PICK left \in Nat : left = IF c.outstanding > 0 THEN c.outstanding - 1 ELSE 0
  BY DEF CounterStates
<1>2. PICK x \in CounterStates :
        /\ x = [c EXCEPT !.outstanding = left]
        /\ x.outstanding = left /\ x.running = c.running /\ x.triggeredAt = c.triggeredAt
  <2>1. \A y \in CounterStates : \A l \in Nat :
          /\ [y EXCEPT !.outstanding = l] \in CounterStates
          /\ [y EXCEPT !.outstanding = l].outstanding = l
          /\ [y EXCEPT !.outstanding = l].running = y.running
          /\ [y EXCEPT !.outstanding = l].triggeredAt = y.triggeredAt
    BY DEF CounterStates
  <2> QED
    BY <2>1
<1>3. CASE left = 0
  <2>1. FinishCount(x)
    BY <1>1, <1>2, <1>3 DEF CompleteCheck
  <2> QED
    BY <1>1, <1>2, <1>3, <2>1, FinishIs
<1>4. CASE left # 0
  <2>1. count' = x /\ box' = Taken("count")
    BY <1>1, <1>2, <1>4 DEF CompleteCheck
  <2>2. PICK n \in Message : n = AliveStreamCountCalculated(0, TRUE)
    BY ReportsAreMessages
  <2>3. n.type = "AliveStreamCountCalculated"
    BY <2>2 DEF AliveStreamCountCalculated
  <2> QED
    BY <1>1, <1>2, <1>4, <2>1, <2>3
<1> QED
  BY <1>3, <1>4

(* The two handlers that settle an entry.                                  *)
LEMMA CountCompletes ==
  ASSUME count \in CounterStates, CountHealthAlive \/ CountConfirmsDead
  PROVE  /\ Msg("count").type = "StreamHealthChecked" /\ CountAccepts(Msg("count"))
         /\ sleeping' = sleeping
         /\ \E x \in CounterStates :
              /\ CompleteCheck(x)
              /\ x.running = count.running /\ x.outstanding = count.outstanding
              /\ x.triggeredAt = count.triggeredAt
<1> DEFINE h == Msg("count")
<1>1. /\ h.type = "StreamHealthChecked" /\ CountAccepts(h)
      /\ sleeping' = sleeping
  BY DEF CountHealthAlive, CountConfirmsDead, CountMissing, CountHandles, Gets
<1>2. PICK p \in SUBSET Streams, a \in Nat :
        \/ CompleteCheck([count EXCEPT !.pending = p])
        \/ CompleteCheck([count EXCEPT !.pending = p, !.aliveCount = a])
  <2>1. count.pending \ {h.stream} \in SUBSET Streams /\ count.aliveCount + 1 \in Nat
    BY DEF CounterStates
  <2> QED
    BY <2>1 DEF CountHealthAlive, CountConfirmsDead
<1>3. \A x \in CounterStates :
        LET y == [x EXCEPT !.pending = p]
            z == [x EXCEPT !.pending = p, !.aliveCount = a]
        IN /\ y \in CounterStates /\ y.running = x.running
           /\ y.outstanding = x.outstanding /\ y.triggeredAt = x.triggeredAt
           /\ z \in CounterStates /\ z.running = x.running
           /\ z.outstanding = x.outstanding /\ z.triggeredAt = x.triggeredAt
  BY DEF CounterStates
<1> QED
  BY <1>1, <1>2, <1>3

(* The oldest message of the count actor.                                  *)
LEMMA CountGuarded ==
  ASSUME BooksInv, CountStep
  PROVE  /\ box["count"] # <<>>
         /\ Msg("count") \in Message /\ Msg("count").type \in Inbox("count")
<1>1. BoxOK(box) /\ Routed(box) /\ "count" \in Requesters /\ "count" \in Actors
  BY DEF BooksInv, TypeOK, BoxOK, Requesters, Actors
<1>2. box["count"] # <<>>
  BY DEF CountStep, CountNext, CountIgnores, CountBegins, CountListFailed,
         CountListEmpty, CountListReceived, CountHealthFailed, CountHealthAlive,
         CountSuspects, CountConfirmsDead, CountMissing, CountHandles, Gets
<1>3. Msg("count") \in Message
  BY <1>1, <1>2, TakenOK
<1>4. PICK q \in Seq(Message) : q = box["count"]
  BY <1>1 DEF BoxOK
<1>5. 1 \in 1 .. Len(q) /\ Msg("count") = q[1]
  BY <1>2, <1>4 DEF Msg
<1> QED
  BY <1>1, <1>2, <1>3, <1>4, <1>5 DEF Routed

(* Every handler of StreamCountActor keeps the count actor's books.        *)
LEMMA CountOwnBooks ==
  ASSUME BooksInv, CountStep
  PROVE  Books("count")'
<1> DEFINE h == Msg("count")
<1>1. /\ BoxOK(box) /\ Books("count") /\ count \in CounterStates
      /\ "count" \in Requesters /\ "count" \in Actors
  BY DEF BooksInv, TypeOK, BoxOK, Requesters, Actors
<1>2. box["count"] # <<>> /\ h \in Message /\ h.type \in Inbox("count")
  BY CountGuarded
<1>0. PICK r \in Requesters : r = "count"
  BY <1>1
<1>3. PICK c, d : r = "count" /\ c = count /\ d = count'
  BY <1>0
<1>4. /\ Books(r) /\ box[r] # <<>> /\ h = Msg(r) /\ c = Actor(r)
      /\ d = IF r = "cleaner" THEN cleaner' ELSE count'
  BY <1>1, <1>2, <1>3 DEF Actor
<1>5. CASE CountIgnores
  <2>1. SameRun(c, d)
    BY <1>3, <1>5 DEF SameRun, CountIgnores
  <2>2. ~ /\ c.running /\ OnBehalfOf(h, r) /\ h.type \in WorkTypes
          /\ h.triggeredAt = c.triggeredAt
    <3>1. ~CountAccepts(h)
      BY <1>5 DEF CountIgnores
    <3> QED
      BY <1>2, <1>3, <3>1, CountGuards, Behalf DEF Inbox, WorkTypes
  <2>3. box' = Taken(r) /\ sleeping' = sleeping
    BY <1>3, <1>5 DEF CountIgnores
  <2>4. Books(r)'
    BY <1>1, <1>4, <2>1, <2>2, <2>3, IgnoresBooks
  <2> QED
    BY <1>3, <2>4
<1>6. CASE CountBegins
  <2>1. /\ h.type = "CountAliveStreamsStarted" /\ ~c.running /\ OnBehalfOf(h, r)
    BY <1>3, <1>6, CountGuards, Behalf DEF CountBegins, CountHandles, Gets
  <2>2. d.running /\ d.outstanding = 0 /\ d.triggeredAt = h.triggeredAt
    BY <1>3, <1>6 DEF CountBegins
  <2>3. /\ box' = Post(Taken(r), "go2rtc", <<FetchStreamList(h.triggeredAt, r)>>)
        /\ sleeping' = sleeping
    BY <1>3, <1>6 DEF CountBegins
  <2>4. Books(r)'
    BY <1>1, <1>4, <2>1, <2>2, <2>3, BeginsBooks
  <2> QED
    BY <1>3, <2>4
<1>7. CASE CountListFailed \/ CountListEmpty \/ CountHealthFailed
  <2>1. OnBehalfOf(h, r) /\ sleeping' = sleeping
    BY <1>3, <1>7, CountGuards, Behalf
    DEF CountListFailed, CountListEmpty, CountHealthFailed, CountHandles, Gets
  <2>2. FinishCountWithError \/ FinishCount(count)
    BY <1>7 DEF CountListFailed, CountListEmpty, CountHealthFailed
  <2>3. /\ ~d.running
        /\ \E n \in Message :
             /\ n.type = "AliveStreamCountCalculated"
             /\ box' = Post(Taken(r), "master", <<n>>)
    BY <1>1, <1>3, <2>2, FinishIs
  <2>4. PICK n \in Message : /\ n.type = "AliveStreamCountCalculated"
                             /\ box' = Post(Taken(r), "master", <<n>>)
    BY <2>3
  <2>5. ~OnBehalfOf(n, r) /\ r \in Carriers(r)
    BY <2>4, Behalf DEF Carriers
  <2>6. Kept(r, d, Carried(box, sleeping, r) \ {Msg(r)})
    BY <1>3, <2>3, StoppedKept
  <2>7. Books(r)'
    BY <1>1, <1>4, <2>1, <2>4, <2>5, <2>6, DroppedBooks
  <2> QED
    BY <1>3, <2>7
<1>8. CASE CountListReceived
  <2>1. h.type = "StreamListFetched" /\ c.running /\ h.triggeredAt = c.triggeredAt
        /\ OnBehalfOf(h, r) /\ h.streams # <<>>
    BY <1>3, <1>8, CountGuards, Behalf DEF CountListReceived, CountHandles, Gets
  <2>2. d.running /\ d.outstanding = Len(h.streams) /\ d.triggeredAt = c.triggeredAt
    BY <1>1, <1>3, <1>8, <2>1 DEF CountListReceived, CounterStates
  <2>3. box' = Post(Taken(r), "go2rtc", FirstChecks(h)) /\ sleeping' = sleeping
    BY <1>3, <1>8 DEF CountListReceived
  <2>4. Books(r)'
    BY <1>1, <1>4, <2>1, <2>2, <2>3, ListedBooks
  <2> QED
    BY <1>3, <2>4
<1>9. CASE CountHealthAlive \/ CountConfirmsDead
  <2>1. /\ h.type = "StreamHealthChecked" /\ CountAccepts(h) /\ sleeping' = sleeping
        /\ \E x \in CounterStates :
             /\ CompleteCheck(x)
             /\ x.running = c.running /\ x.outstanding = c.outstanding
             /\ x.triggeredAt = c.triggeredAt
    BY <1>1, <1>3, <1>9, CountCompletes
  <2>2. PICK x \in CounterStates :
             /\ CompleteCheck(x)
             /\ x.running = c.running /\ x.outstanding = c.outstanding
             /\ x.triggeredAt = c.triggeredAt
    BY <2>1
  <2>3. c.running /\ h.triggeredAt = c.triggeredAt /\ OnBehalfOf(h, r)
    BY <1>3, <2>1, CountGuards, Behalf
  <2>4. /\ d.triggeredAt = c.triggeredAt
        /\ d.outstanding = IF c.outstanding > 0 THEN c.outstanding - 1 ELSE 0
        /\ d.running <=> d.outstanding # 0
    BY <1>1, <1>3, <2>2, <2>3, CompleteCheckIs
  <2>5. PICK n \in Message :
          /\ n.type = "AliveStreamCountCalculated"
          /\ box' = Taken(r) \/ box' = Post(Taken(r), "master", <<n>>)
    BY <1>1, <1>3, <2>2, <2>3, CompleteCheckIs
  <2>6. ~OnBehalfOf(n, r)
    BY <2>5, Behalf
  <2>7. c.outstanding \in Nat
    BY <1>1, <1>3 DEF CounterStates
  <2>8. Books(r)'
    BY <1>1, <1>4, <2>1, <2>3, <2>4, <2>5, <2>6, <2>7, CompletesBooks
  <2> QED
    BY <1>3, <2>8
<1>10. CASE CountSuspects
  <2>1. h.type = "StreamHealthChecked" /\ OnBehalfOf(h, r)
    BY <1>3, <1>10, CountGuards, Behalf
    DEF CountSuspects, CountMissing, CountHandles, Gets
  <2>2. SameRun(c, d)
    BY <1>1, <1>3, <1>10 DEF CountSuspects, CounterStates, SameRun
  <2>3. box' = Taken(r) /\ sleeping' = sleeping \union {SecondCheck(h)}
    BY <1>3, <1>10 DEF CountSuspects
  <2>4. Books(r)'
    BY <1>1, <1>4, <2>1, <2>2, <2>3, SuspectsBooks
  <2> QED
    BY <1>3, <2>4
<1> QED
  BY <1>5, <1>6, <1>7, <1>8, <1>9, <1>10 DEF CountStep, CountNext

(* What the count actor sends.                                             *)
LEMMA CountSends ==
  ASSUME BooksInv, CountStep
  PROVE  Sends("count")
<1> DEFINE h == Msg("count")
<1>1. BoxOK(box) /\ count \in CounterStates
  BY DEF BooksInv, TypeOK, BoxOK
<1>2. h \in Message
  BY CountGuarded
<1>3. PICK r \in Requesters : r = "count"
  BY DEF Requesters
<1>4. CASE CountIgnores
  BY <1>4 DEF CountIgnores, Sends
<1>5. CASE CountBegins
  <2>1. h.triggeredAt \in Times
    BY <1>2, <1>5, FieldsOfMessages DEF CountBegins, CountHandles, Gets
  <2>2. PICK n \in Message : n = FetchStreamList(h.triggeredAt, r)
    BY <2>1, StartsAreMessages
  <2>3. OnBehalfOf(n, r)
    BY <2>2 DEF FetchStreamList, OnBehalfOf
  <2>4. box' = Post(Taken(r), "go2rtc", <<n>>) /\ sleeping' = sleeping
    BY <1>3, <1>5, <2>2 DEF CountBegins
  <2>5. Sends(r)
    BY <2>3, <2>4, SendsOne
  <2> QED
    BY <1>3, <2>5
<1>6. CASE CountListFailed \/ CountListEmpty \/ CountHealthFailed
  <2>1. (FinishCountWithError \/ FinishCount(count)) /\ sleeping' = sleeping
    BY <1>6 DEF CountListFailed, CountListEmpty, CountHealthFailed
  <2> QED
    BY <1>1, <2>1, FinishIs DEF Sends
<1>7. CASE CountListReceived
  <2>1. h.type = "StreamListFetched" /\ h.requestedBy = r
    BY <1>3, <1>7, CountGuards DEF CountListReceived, CountHandles, Gets
  <2>2. box' = Post(Taken(r), "go2rtc", FirstChecks(h)) /\ sleeping' = sleeping
    BY <1>3, <1>7 DEF CountListReceived
  <2>3. Sends(r)
    BY <1>2, <2>1, <2>2, SendsChecks
  <2> QED
    BY <1>3, <2>3
<1>8. CASE CountHealthAlive \/ CountConfirmsDead
  <2>1. /\ h.type = "StreamHealthChecked" /\ CountAccepts(h) /\ sleeping' = sleeping
        /\ \E x \in CounterStates : CompleteCheck(x) /\ x.running = count.running
    BY <1>1, <1>8, CountCompletes
  <2>2. count.running
    BY <2>1, CountGuards
  <2>3. PICK n \in Message :
          /\ n.type = "AliveStreamCountCalculated"
          /\ box' = Taken("count") \/ box' = Post(Taken("count"), "master", <<n>>)
    BY <1>1, <2>1, <2>2, CompleteCheckIs
  <2> QED
    BY <2>1, <2>3 DEF Sends
<1>9. CASE CountSuspects
  <2>1. h.requestedBy = r
    BY <1>3, <1>9, CountGuards DEF CountSuspects, CountMissing, CountHandles, Gets
  <2>2. box' = Taken(r) /\ sleeping' = sleeping \union {SecondCheck(h)}
    BY <1>3, <1>9 DEF CountSuspects
  <2>3. Sends(r)
    BY <2>1, <2>2, SendsSecondCheck
  <2> QED
    BY <1>3, <2>3
<1> QED
  BY <1>4, <1>5, <1>6, <1>7, <1>8, <1>9 DEF CountStep, CountNext

(* Every handler of the count actor keeps the books of both requesters.    *)
LEMMA CountBooks ==
  ASSUME BooksInv, CountStep, NEW r \in Requesters
  PROVE  Books(r)'
<1>1. CASE r = "count"
  BY <1>1, CountOwnBooks
<1>2. CASE r # "count"
  <2>1. PICK d : d = IF r = "cleaner" THEN cleaner' ELSE count'
    OBVIOUS
  <2>2. r = "cleaner" /\ SameRun(Actor(r), d)
    BY <1>2, <2>1 DEF CountStep, Actor, SameRun, Requesters
  <2>3. BoxOK(box) /\ Books(r) /\ "count" \in Requesters
    BY DEF BooksInv, TypeOK, BoxOK, Requesters
  <2> QED
    BY <1>2, <2>1, <2>2, <2>3, CountGuarded, CountSends, SendsBooks
<1> QED
  BY <1>1, <1>2

-----------------------------------------------------------------------------
(* The master sends each requester only what is routed to it.              *)
LEMMA MasterRouted ==
  ASSUME BooksInv, MasterStep
  PROVE  Routed(box')
<1> DEFINE h == Msg("master")
<1>1. BoxOK(box) /\ Routed(box) /\ Requesters \subseteq Actors /\ "master" \in Actors
  BY DEF BooksInv, TypeOK, BoxOK, Requesters, Actors
<1>2. box["master"] # <<>>
  BY DEF MasterStep, MasterNext, MasterStartsCleanup, MasterStartsCount,
         MasterForwardsAnswer, MasterForwardsRemoval, MasterRequestsAction,
         MasterDropsReport, MasterPublishesReport, MasterDropsCount,
         MasterPublishesCount, Gets
<1>3. PICK b : b = Taken("master")
  OBVIOUS
<1>4. h \in Message /\ BoxOK(b)
  BY <1>1, <1>2, <1>3, TakenOK
<1>5. Routed(b)
  <2>1. \A a \in Requesters : b[a] = box[a]
    BY <1>1, <1>3, TakenFrom DEF Requesters
  <2> QED
    BY <1>1, <2>1, RoutedLess
<1>6. CASE MasterStartsCleanup
  <2>1. PICK t \in Times : box' = Post(Taken("master"), "cleaner", <<CleanupCycleStarted(t)>>)
    BY <1>6 DEF MasterStartsCleanup
  <2>2. PICK n \in Message : n = CleanupCycleStarted(t)
    BY StartsAreMessages DEF Requesters
  <2>3. n.type \in Inbox("cleaner") /\ "cleaner" \in Requesters
    BY <2>2 DEF CleanupCycleStarted, Inbox, Requesters
  <2>4. Routed(Post(b, "cleaner", <<n>>))
    BY <1>4, <1>5, <2>3, RoutedPost
  <2> QED
    BY <1>3, <2>1, <2>2, <2>4
<1>7. CASE MasterStartsCount
  <2>1. h.type \in Inbox("count") /\ "count" \in Requesters
    BY <1>7 DEF MasterStartsCount, Gets, Inbox, Requesters
  <2>2. Routed(Post(b, "count", <<h>>))
    BY <1>4, <1>5, <2>1, RoutedPost
  <2> QED
    BY <1>3, <1>7, <2>2 DEF MasterStartsCount
<1>8. CASE MasterForwardsAnswer
  <2>1. /\ h.type \in Inbox("cleaner") /\ h.type \in Inbox("count")
        /\ "cleaner" \in Requesters /\ "count" \in Requesters
    BY <1>8 DEF MasterForwardsAnswer, Gets, Inbox, Requesters
  <2>2. PICK e : e = Post(b, "cleaner", <<h>>)
    OBVIOUS
  <2>3. BoxOK(e)
    <3>1. PICK q \in Seq(Message) : q = <<h>>
      BY <1>4, OneMessage
    <3> QED
      BY <1>1, <1>4, <2>1, <2>2, <3>1, PostOK
  <2>4. Routed(e)
    BY <1>4, <1>5, <2>1, <2>2, RoutedPost
  <2>5. Routed(Post(e, "count", <<h>>))
    BY <1>4, <2>1, <2>3, <2>4, RoutedPost
  <2> QED
    BY <1>3, <1>8, <2>2, <2>5 DEF MasterForwardsAnswer
<1>9. CASE MasterForwardsRemoval
  <2>1. h.type \in Inbox("cleaner") /\ "cleaner" \in Requesters
    BY <1>9 DEF MasterForwardsRemoval, Gets, Inbox, Requesters
  <2>2. Routed(Post(b, "cleaner", <<h>>))
    BY <1>4, <1>5, <2>1, RoutedPost
  <2> QED
    BY <1>3, <1>9, <2>2 DEF MasterForwardsRemoval
<1>10. ASSUME NEW to \in {"action", "redis"}, NEW n,
              box' = Taken("master") \/ box' = Post(Taken("master"), to, <<n>>)
       PROVE  Routed(box')
  <2>1. to \notin Requesters
    BY DEF Requesters
  <2>2. PICK q : q = <<n>>
    OBVIOUS
  <2>3. box' = Taken("master") \/ box' = Post(Taken("master"), to, q)
    BY <1>10, <2>2
  <2> QED
    BY <1>1, <1>2, <2>1, <2>3, RoutedHandler
<1>11. CASE MasterRequestsAction \/ MasterDropsReport \/ MasterPublishesReport
              \/ MasterDropsCount \/ MasterPublishesCount
  BY <1>10, <1>11 DEF MasterRequestsAction, MasterDropsReport, MasterPublishesReport,
                      MasterDropsCount, MasterPublishesCount
<1> QED
  BY <1>6, <1>7, <1>8, <1>9, <1>11 DEF MasterStep, MasterNext

(* Nobody else sends to a requester.                                       *)
LEMMA OthersRouted ==
  ASSUME BooksInv,
         \/ Go2RTCStep \/ RedisStep \/ ActionStep \/ CronFires \/ TickFires
         \/ CameraChanges \/ UNCHANGED vars
         \/ \E check \in sleeping : WakeUp(check)
  PROVE  Routed(box')
<1>1. BoxOK(box) /\ Routed(box) /\ Requesters \subseteq Actors
  BY DEF BooksInv, TypeOK, BoxOK, Requesters, Actors
<1>2. {"go2rtc", "redis", "action", "master"} \subseteq Actors \ Requesters
  BY DEF Actors, Requesters
<1>3. CASE Go2RTCStep
  <2>1. ASSUME NEW msgs, box["go2rtc"] # <<>>, Replies(msgs)
        PROVE  Routed(box')
    BY <1>1, <1>2, <2>1, RoutedHandler DEF Replies
  <2> QED
    BY <1>3, <2>1 DEF Go2RTCStep, Go2RTCNext, Go2RTCFails, Go2RTCFetchFails,
       Go2RTCFetches, Go2RTCCheckFails, Go2RTCChecks, Go2RTCRemoveFails,
       Go2RTCRemoveUnknown, Go2RTCRemoves, Gets
<1>4. CASE RedisStep \/ ActionStep
  <2>1. PICK self \in {"action", "redis"} : box[self] # <<>> /\ box' = Taken(self)
    BY <1>4 DEF ActionStep, ActionExecutes, RedisStep, RedisNext, RedisDisabled,
                RedisPingFails, RedisSetFails, RedisSets, RedisUpdates, Gets
  <2> QED
    BY <1>1, <1>2, <2>1, RoutedHandler
<1>5. ASSUME NEW to \in Actors \ Requesters, NEW msgs, box' = Post(box, to, msgs)
      PROVE  Routed(box')
  <2>1. PICK e : e = Post(box, to, msgs)
    OBVIOUS
  <2>2. \A a \in Requesters : e[a] = box[a]
    BY <1>1, <2>1, PostElsewhere
  <2>3. Routed(e)
    BY <1>1, <2>2, RoutedLess
  <2> QED
    BY <1>5, <2>1, <2>3
<1>6. CASE CronFires \/ TickFires \/ \E check \in sleeping : WakeUp(check)
  BY <1>2, <1>5, <1>6 DEF CronFires, TickFires, CleanupCron, PublishTick, WakeUp,
                          ConfirmationElapsed
<1>7. CASE CameraChanges \/ UNCHANGED vars
  <2>1. box' = box
    BY <1>7 DEF CameraChanges, StreamChanges, vars
  <2> QED
    BY <1>1, <2>1
<1> QED
  BY <1>3, <1>4, <1>6, <1>7

(* At the start nothing runs and nothing is under way.                     *)
LEMMA InitBooks == Init => BooksInv
<1> SUFFICES ASSUME Init PROVE BooksInv
  OBVIOUS
<1>1. TypeOK
  BY InitTypeOK
<1>2. /\ sleeping = {}
      /\ \A a \in Actors : a # "master" => box[a] = <<>>
      /\ box["master"] \in {<<>>, <<TriggerCleanup>>}
  BY DEF Init, MasterInit, Actors
<1>3. Routed(box)
  BY <1>2 DEF Routed, Requesters, Actors
<1>4. ASSUME NEW r \in Requesters
      PROVE  Books(r)
  <2>1. Carriers(r) \subseteq Actors
    BY DEF Carriers, Actors, Requesters
  <2>2. ASSUME NEW a \in Carriers(r), NEW i \in 1 .. Len(box[a])
        PROVE  ~OnBehalfOf(box[a][i], r)
    <3>1. a = "master" /\ box[a] = <<TriggerCleanup>>
      BY <1>2, <2>1, <2>2
    <3>2. PICK q : q = <<TriggerCleanup>>
      OBVIOUS
    <3>3. i \in 1 .. Len(q) /\ Len(q) = 1 /\ q[1] = TriggerCleanup
      BY <2>2, <3>1, <3>2
    <3>4. box[a][i] = TriggerCleanup
      BY <3>1, <3>2, <3>3
    <3> QED
      BY <3>4, Behalf DEF TriggerCleanup
  <2>3. Apart(box, sleeping, r)
    BY <1>2, <2>2 DEF Apart
  <2>4. Carried(box, sleeping, r) = {}
    BY <1>2, <2>2 DEF Carried
  <2>5. ~Actor(r).running
    BY DEF Init, CleanerInit, CountInit, Actor
  <2>6. Kept(r, Actor(r), Carried(box, sleeping, r))
    BY <2>4, <2>5, StoppedKept
  <2> QED
    BY <2>3, <2>6 DEF Books
<1> QED
  BY <1>1, <1>3, <1>4 DEF BooksInv

-----------------------------------------------------------------------------
(* In every reachable state the messages of a run are apart from each      *)
(* other, each requester receives only what is routed to it, and its       *)
(* counter agrees with the messages of its run.                            *)
THEOREM BooksCorrect == Spec => []BooksInv
<1>1. BooksInv /\ [Next]_vars => BooksInv'
  <2> SUFFICES ASSUME BooksInv, [Next]_vars PROVE BooksInv'
    OBVIOUS
  <2>1. TypeOK /\ BoxOK(box) /\ Routed(box)
    BY DEF BooksInv, TypeOK, BoxOK
  <2>2. TypeOK'
    <3>1. CASE UNCHANGED vars
      BY <2>1, <3>1 DEF vars, TypeOK
    <3> QED
      BY <2>1, <3>1, MasterTypeOK, CleanerTypeOK, CountTypeOK, Go2RTCTypeOK,
         RedisTypeOK, SchedulersTypeOK, OthersTypeOK DEF Next
  <2>3. Routed(box')
    <3>1. CASE CleanerStep
      BY <2>1, <3>1, CleanerSends, SendsRouted DEF Requesters
    <3>2. CASE CountStep
      BY <2>1, <3>2, CountGuarded, CountSends, SendsRouted DEF Requesters
    <3> QED
      BY <3>1, <3>2, MasterRouted, OthersRouted DEF Next
  <2>4. ASSUME NEW r \in Requesters
        PROVE  Books(r)'
    BY MasterBooks, CleanerBooks, CountBooks, Go2RTCBooks, OthersBooks, WakeUpBooks,
       SchedulersBooks DEF Next
  <2> QED
    BY <2>2, <2>3, <2>4 DEF BooksInv, Routed, Requesters
<1> QED
  BY <1>1, InitBooks, PTL DEF Spec

-----------------------------------------------------------------------------
(* WorkOf, in terms of the messages in transit.                            *)
LEMMA WorkOfIs ==
  ASSUME NEW r, NEW t
  PROVE  /\ WorkOf(r, t) = WorkIn(Carried(box, sleeping, r), t)
         /\ Listed(r, t) = {m \in WorkOf(r, t) : ~Asks(m)}
<1>1. InTransit(r) = Carried(box, sleeping, r)
  BY DEF InTransit, Carried, Carriers
<1> QED
  BY <1>1 DEF WorkOf, WorkIn, Listed, Asks

(* The two statements about the counters, for either requester.            *)
LEMMA CountsItsWork ==
  ASSUME NEW r \in Requesters, Books(r), NEW c, c = Actor(r), c.running,
         c.outstanding \in Nat, NEW work, work = WorkOf(r, c.triggeredAt)
  PROVE  \/ /\ c.outstanding = 0
            /\ Cardinality(work) = 1
            /\ \A m \in work : m.type \in {"FetchStreamList", "StreamListFetched"}
         \/ /\ c.outstanding > 0
            /\ Cardinality(work) = c.outstanding
            /\ work = Listed(r, c.triggeredAt)
            /\ Cardinality({m.entry : m \in work}) = c.outstanding
<1>1. PICK S : S = Carried(box, sleeping, r)
  OBVIOUS
<1>2. /\ work = WorkIn(S, c.triggeredAt)
      /\ Listed(r, c.triggeredAt) = {m \in work : ~Asks(m)}
  BY <1>1, WorkOfIs
<1>3. Kept(r, c, S) /\ Distinct(S)
  BY <1>1, BooksDistinct DEF Books
<1>4. CASE c.outstanding = 0 /\ \E m \in S : Asks(m) /\ work = {m}
  <2>1. Cardinality(work) = 1
    BY <1>4, FS_Singleton
  <2> QED
    BY <1>4, <2>1 DEF Asks
<1>5. CASE /\ c.outstanding > 0 /\ IsFiniteSet(work) /\ Cardinality(work) = c.outstanding
           /\ \A m \in work : ~Asks(m)
  <2> DEFINE E == {m.entry : m \in work}
             f == [m \in work |-> m.entry]
  <2>1. ASSUME NEW m \in work, NEW n \in work, f[m] = f[n]
        PROVE  m = n
    <3>1. Clash(m, n) /\ m \in S /\ n \in S
      BY <1>2, <2>1 DEF WorkIn, Clash
    <3> QED
      BY <1>3, <3>1 DEF Distinct
  <2>2. f \in Bijection(work, E)
    <3>1. f \in [work -> E] /\ \A e \in E : \E m \in work : f[m] = e
      OBVIOUS
    <3> QED
      BY <2>1, <3>1 DEF Bijection, Injection, Surjection, IsInjective
  <2>3. ExistsBijection(work, E)
    BY <2>2 DEF ExistsBijection
  <2>4. Cardinality(E) = Cardinality(work)
    BY <1>5, <2>3, FS_Bijection
  <2>5. work = Listed(r, c.triggeredAt)
    BY <1>2, <1>5
  <2> QED
    BY <1>5, <2>4, <2>5
<1> QED
  BY <1>2, <1>3, <1>4, <1>5 DEF Kept, Tally

(* The counter of the cleaner is the number of list entries whose checks   *)
(* or removal are under way, whatever the list holds and however its       *)
(* entries are interleaved: no cycle ends early and none hangs on an       *)
(* entry that nobody works on.                                             *)
THEOREM CleanerIsExact == Spec => []CleanerCountsItsWork
<1>1. BooksInv => CleanerCountsItsWork
  <2> SUFFICES ASSUME BooksInv, cleaner.running PROVE CleanerCountsItsWork
    BY DEF CleanerCountsItsWork
  <2>1. /\ Books("cleaner") /\ "cleaner" \in Requesters /\ cleaner.outstanding \in Nat
        /\ Actor("cleaner") = cleaner
    BY DEF BooksInv, TypeOK, CleanerStates, Requesters, Actor
  <2> QED
    BY <2>1, CountsItsWork, ZenonT(60) DEF CleanerCountsItsWork
<1> QED
  BY <1>1, BooksCorrect, PTL

(* The same for the count actor and the run in progress, although the      *)
(* remains of aborted runs keep arriving.                                  *)
THEOREM CounterIsExact == Spec => []CounterCountsItsWork
<1>1. BooksInv => CounterCountsItsWork
  <2> SUFFICES ASSUME BooksInv, count.running PROVE CounterCountsItsWork
    BY DEF CounterCountsItsWork
  <2>1. /\ Books("count") /\ "count" \in Requesters /\ count.outstanding \in Nat
        /\ Actor("count") = count
    BY DEF BooksInv, TypeOK, CounterStates, Requesters, Actor
  <2> QED
    BY <2>1, CountsItsWork, ZenonT(60) DEF CounterCountsItsWork
<1> QED
  BY <1>1, BooksCorrect, PTL

(* When a cleanup cycle has reported, nothing of it is left: no check, no  *)
(* waiting goroutine, no DELETE that would still be made.                  *)
THEOREM CyclesLeaveNothing == Spec => []NothingOutlivesTheCycle
<1>1. BooksInv => NothingOutlivesTheCycle
  <2> SUFFICES ASSUME BooksInv, NEW t \in Times, WorkOf("cleaner", t) # {}
               PROVE  cleaner.running /\ cleaner.triggeredAt = t
    BY DEF NothingOutlivesTheCycle
  <2>1. PICK S : S = Carried(box, sleeping, "cleaner")
    OBVIOUS
  <2>2. Owned(cleaner, S)
    BY <2>1 DEF BooksInv, Books, Kept, Actor, Requesters
  <2>3. PICK m \in S : m.type \in WorkTypes /\ m.triggeredAt = t
    BY <2>1, WorkOfIs DEF WorkIn
  <2> QED
    BY <2>2, <2>3 DEF Owned
<1> QED
  BY <1>1, BooksCorrect, PTL
===============================================================================
