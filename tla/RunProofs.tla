------------------------------- MODULE RunProofs -------------------------------
(***************************************************************************)
(* Runs of the cleaner and of the count actor, as the messages in transit  *)
(* tell them.  First every step of Manager is described by what it does to *)
(* the fields of a requester and to the set of messages that carry its     *)
(* work: it is quiet, go2rtc replies, or the requester handles a message   *)
(* in one of eight ways.  From that description it follows, for any        *)
(* streams, lists, instants and bounds, that both actors implement         *)
(* CheckRun.  Then the line of numbers on their way to Redis: what every   *)
(* step appends to it, takes from it or removes in its middle, and that    *)
(* the manager so implements Publication.                                  *)
(***************************************************************************)
EXTENDS BookkeepingProofs

(* The messages of r that carry the work of its run in progress or of      *)
(* earlier ones.                                                           *)
Work(S) == {m \in S : m.type \in WorkTypes}

WorkInTransit(r) == Work(Carried(box, sleeping, r))

(* Those of them that are about an entry of the list of c's run.           *)
RunOf(c, V) == {m \in V : ~Asks(m) /\ m.triggeredAt = c.triggeredAt}

(* What the answer to a check says.                                        *)
FoundAlive(m) == m.type = "StreamHealthChecked" /\ ~m.error /\ m.hasProducer

FoundNothing(m) == m.type = "StreamHealthChecked" /\ ~m.error /\ ~m.hasProducer

(* ... and the answer to a removal.                                        *)
Deleted(m) == m.type = "StreamRemovalCompleted" /\ ~m.error /\ m.removed

(* m belongs to the run in progress.                                       *)
Current(c, m) == c.running /\ m.triggeredAt = c.triggeredAt

(* The checks of a fetched list.                                           *)
ChecksOf(h, r) ==
  {CheckStreamHealth(h.streams[e], e, h.triggeredAt, 1, r) : e \in 1 .. Len(h.streams)}

-----------------------------------------------------------------------------
(* The messages about the entries of c's run, if there is one, and what    *)
(* they tell of them.                                                      *)
Runs(c, V) == IF c.running THEN RunOf(c, V) ELSE {}

OneEach(R) == \A m, n \in R : m.entry = n.entry => m = n

StatesOf(r) == IF r = "cleaner" THEN CleanerStates ELSE CounterStates

RemovedBy(r, c) == IF r = "cleaner" THEN c.removedCount ELSE 0

(* What the books say about the fields c of r and its work V.              *)
Sound(r, c, V) ==
  /\ c \in StatesOf(r)
  /\ \A m \in V : m \in Message /\ m.type \in WorkTypes /\ OnBehalfOf(m, r)
  /\ OneEach(Runs(c, V))
  /\ c.running =>
       \/ c.outstanding = 0 /\ Runs(c, V) = {}
       \/ /\ c.outstanding > 0
          /\ IsFiniteSet(Runs(c, V)) /\ Cardinality(Runs(c, V)) = c.outstanding
          /\ \A m \in V : Asks(m) => m.triggeredAt # c.triggeredAt

(* CheckRun's next-state relation between values of its variables.         *)
RunStep(r, p, o, a, k, q, u, b, l) ==
  \/ q = p /\ u = o /\ b = a /\ l = k
  \/ p = "idle" /\ q = "listing" /\ u = o /\ b = 0 /\ l = 0
  \/ p = "listing" /\ q = "idle" /\ u = o /\ b = a /\ l = k
  \/ \E n \in 1 .. LongestList :
       /\ p = "listing" /\ q = "checking" /\ b = a /\ l = k
       /\ u = [e \in 1 .. n |-> "first"]
  \/ \E e \in DOMAIN o :
       \/ /\ o[e] = "first" /\ u = [o EXCEPT ![e] = "second"]
          /\ q = p /\ b = a /\ l = k
       \/ /\ r = "cleaner" /\ o[e] = "second" /\ u = [o EXCEPT ![e] = "removal"]
          /\ q = p /\ b = a /\ l = k
       \/ /\ u = [f \in DOMAIN o \ {e} |-> o[f]]
          /\ q = IF DOMAIN o = {e} THEN "idle" ELSE p
          /\ \/ o[e] \in {"first", "second"} /\ b = a + 1 /\ l = k
             \/ o[e] = "removal" /\ b = a /\ l = k + 1
             \/ b = a /\ l = k
  \/ /\ r = "count" /\ p = "checking" /\ q = "idle" /\ u = [e \in {} |-> "first"]
     /\ b = a /\ l = k

(* ... as the step from (c, V) to (d, X) maps to it.                       *)
Maps(r, c, V, d, X) ==
  RunStep(r, Phase(c), Opened(Runs(c, V)), c.aliveCount, RemovedBy(r, c),
          Phase(d), Opened(Runs(d, X)), d.aliveCount, RemovedBy(r, d))

-----------------------------------------------------------------------------
(* The ways in which a requester r with fields c, whose work V is in       *)
(* transit, handles its message h: d and X are what c and V become.        *)

Ignored(h, c, V, d, X) ==
  /\ h \in V => ~Current(c, h)
  /\ d = c
  /\ X = V \ {h}

Begun(r, h, c, V, d, X) ==
  /\ ~c.running
  /\ d.running /\ d.outstanding = 0 /\ d.triggeredAt = h.triggeredAt
  /\ d.pending = {} /\ d.aliveCount = 0
  /\ r = "cleaner" => d.removedCount = 0
  /\ \A m \in V : m.triggeredAt # h.triggeredAt
  /\ \E n : n.type = "FetchStreamList" /\ X = V \cup {n}

NoList(r, h, c, V, d, X) ==
  /\ h \in V /\ h.type = "StreamListFetched" /\ Current(c, h)
  /\ ~d.running /\ d.outstanding = 0 /\ d.triggeredAt = c.triggeredAt
  /\ d.pending \subseteq c.pending /\ d.aliveCount = c.aliveCount
  /\ r = "cleaner" => d.removedCount = c.removedCount
  /\ X = V \ {h}

ListArrived(r, h, c, V, d, X) ==
  /\ h \in V /\ h.type = "StreamListFetched" /\ Current(c, h)
  /\ h.streams \in StreamLists /\ Len(h.streams) \in Nat \ {0}
  /\ d = [c EXCEPT !.outstanding = Len(h.streams)]
  /\ X = (V \ {h}) \cup ChecksOf(h, r)

Suspected(h, c, V, d, X) ==
  /\ h \in V /\ FoundNothing(h) /\ h.attempt = 1 /\ Current(c, h)
  /\ d = [c EXCEPT !.pending = @ \union {h.stream}]
  /\ X = (V \ {h}) \cup {SecondCheck(h)}

Condemned(r, h, c, V, d, X) ==
  /\ r = "cleaner"
  /\ h \in V /\ FoundNothing(h) /\ h.attempt = 2 /\ Current(c, h)
  /\ h.stream \in c.pending
  /\ d = [c EXCEPT !.pending = @ \ {h.stream}]
  /\ X = (V \ {h}) \cup {RemoveStream(h)}

Closed(r, h, c, V, d, X) ==
  /\ h \in V /\ h.type \in {"StreamHealthChecked", "StreamRemovalCompleted"}
  /\ Current(c, h)
  /\ r = "count" => ~h.error
  /\ d.triggeredAt = c.triggeredAt /\ d.pending \subseteq c.pending
  /\ d.outstanding = IF c.outstanding > 0 THEN c.outstanding - 1 ELSE 0
  /\ d.running <=> d.outstanding # 0
  /\ d.aliveCount = IF FoundAlive(h) THEN c.aliveCount + 1 ELSE c.aliveCount
  /\ r = "cleaner" =>
       d.removedCount = IF Deleted(h) THEN c.removedCount + 1 ELSE c.removedCount
  /\ X = V \ {h}

Aborted(r, h, c, V, d, X) ==
  /\ r = "count"
  /\ h \in V /\ h.type = "StreamHealthChecked" /\ h.error /\ Current(c, h)
  /\ ~d.running /\ d.aliveCount = c.aliveCount
  /\ X = V \ {h}

Handled(r, h, c, V, d, X) ==
  \/ Ignored(h, c, V, d, X)
  \/ Begun(r, h, c, V, d, X)
  \/ NoList(r, h, c, V, d, X)
  \/ ListArrived(r, h, c, V, d, X)
  \/ Suspected(h, c, V, d, X)
  \/ Condemned(r, h, c, V, d, X)
  \/ Closed(r, h, c, V, d, X)
  \/ Aborted(r, h, c, V, d, X)

(* n is go2rtc's answer to h.                                              *)
Reply(h, n) ==
  \/ /\ h.type = "FetchStreamList" /\ n.type = "StreamListFetched"
     /\ n.triggeredAt = h.triggeredAt /\ n.requestedBy = h.requestedBy
  \/ /\ h.type = "CheckStreamHealth"
     /\ \E p, f \in BOOLEAN : n = StreamHealthChecked(h, p, f)
  \/ /\ h.type = "RemoveStream"
     /\ \E p, f \in BOOLEAN : n = StreamRemovalCompleted(h, p, f)

(* ... which takes its place, if it is work of the requester.              *)
Answered(h, n, V, X) ==
  X = IF h \in V THEN (V \ {h}) \cup {n} ELSE V

-----------------------------------------------------------------------------
(* The work in transit after a step.                                       *)
LEMMA WorkNext ==
  ASSUME NEW r \in Requesters, NEW b, NEW s, b = box', s = sleeping'
  PROVE  WorkInTransit(r)' = Work(Carried(b, s, r))
BY DEF WorkInTransit, Work, Carried

(* A handler that takes nothing from r and sends nothing on its behalf.    *)
LEMMA ForeignWork ==
  ASSUME NEW r \in Requesters, BoxOK(box), Books(r),
         NEW self \in Actors, box[self] # <<>>,
         self \notin Carriers(r) \/ ~OnBehalfOf(Msg(self), r),
         NEW to \in Actors, NEW msgs \in Seq(Message),
         to \notin Carriers(r) \/ \A i \in 1 .. Len(msgs) : ~OnBehalfOf(msgs[i], r),
         box' = Taken(self) \/ box' = Post(Taken(self), to, msgs),
         sleeping' = sleeping
  PROVE  WorkInTransit(r)' = WorkInTransit(r)
<1>1. PICK b, s : b = Taken(self) /\ s = sleeping
  OBVIOUS
<1>2. BoxOK(b) /\ Apart(b, s, r) /\ Carried(b, s, r) = Carried(box, sleeping, r)
  BY <1>1, TakenOK, DropForeign DEF Books
<1>3. CASE box' = Taken(self)
  BY <1>1, <1>2, <1>3, WorkNext DEF WorkInTransit
<1>4. CASE box' = Post(Taken(self), to, msgs)
  <2>1. PICK e : e = Post(b, to, msgs)
    OBVIOUS
  <2>2. Carried(e, s, r) = Carried(b, s, r)
    BY <1>2, <2>1, PostForeign
  <2>3. WorkInTransit(r)' = Work(Carried(e, s, r))
    BY <1>1, <1>4, <2>1, WorkNext
  <2> QED
    BY <1>2, <2>2, <2>3 DEF WorkInTransit
<1> QED
  BY <1>3, <1>4

(* The same for a single message.                                          *)
LEMMA ForeignMessageWork ==
  ASSUME NEW r \in Requesters, BoxOK(box), Books(r),
         NEW self \in Actors, box[self] # <<>>,
         self \notin Carriers(r) \/ ~OnBehalfOf(Msg(self), r),
         NEW to \in Actors, NEW n \in Message,
         to \notin Carriers(r) \/ ~OnBehalfOf(n, r),
         box' = Taken(self) \/ box' = Post(Taken(self), to, <<n>>),
         sleeping' = sleeping
  PROVE  WorkInTransit(r)' = WorkInTransit(r)
<1>1. PICK q \in Seq(Message) : q = <<n>>
  BY OneMessage
<1>2. \A i \in 1 .. Len(q) : q[i] = n
  BY <1>1
<1> QED
  BY <1>1, <1>2, ForeignWork

(* A handler takes a message of r and sends one of its kind.               *)
LEMMA ReplacedWork ==
  ASSUME NEW r \in Requesters, BoxOK(box), Books(r),
         NEW self \in Carriers(r), box[self] # <<>>, OnBehalfOf(Msg(self), r),
         NEW to \in Carriers(r), NEW n \in Message, OnBehalfOf(n, r),
         Heir(Msg(self), n), n.type \in WorkTypes,
         box' = Post(Taken(self), to, <<n>>), sleeping' = sleeping
  PROVE  WorkInTransit(r)' = (WorkInTransit(r) \ {Msg(self)}) \cup {n}
<1>1. PICK q \in Seq(Message) : q = <<n>>
  BY OneMessage
<1>2. q[1] = n /\ OwnOf(q, r) = {1}
  BY <1>1 DEF OwnOf
<1>3. /\ \A i \in OwnOf(q, r) : Heir(Msg(self), q[i])
      /\ \A i, j \in OwnOf(q, r) : Clash(q[i], q[j]) => i = j
  BY <1>2
<1>4. PICK b, s, h, S : /\ b = Post(Taken(self), to, q) /\ s = sleeping
                        /\ h = Msg(self) /\ S = Carried(box, sleeping, r)
  OBVIOUS
<1>5. Carried(b, s, r) = (S \ {h}) \cup {q[i] : i \in OwnOf(q, r)}
  BY <1>3, <1>4, ExchangeOwn DEF Books
<1>6. {q[i] : i \in OwnOf(q, r)} = {n}
  BY <1>2
<1>7. WorkInTransit(r)' = Work(Carried(b, s, r))
  BY <1>1, <1>4, WorkNext
<1>8. Work((S \ {h}) \cup {n}) = (Work(S) \ {h}) \cup {n}
  BY DEF Work
<1> QED
  BY <1>4, <1>5, <1>6, <1>7, <1>8 DEF WorkInTransit

(* A handler takes a message of r and sends nothing on its behalf.         *)
LEMMA DroppedWork ==
  ASSUME NEW r \in Requesters, BoxOK(box), Books(r),
         NEW self \in Carriers(r), box[self] # <<>>, OnBehalfOf(Msg(self), r),
         NEW n \in Message, ~OnBehalfOf(n, r),
         box' = Taken(self) \/ box' = Post(Taken(self), "master", <<n>>),
         sleeping' = sleeping
  PROVE  WorkInTransit(r)' = WorkInTransit(r) \ {Msg(self)}
<1>1. PICK b, s : b = Taken(self) /\ s = sleeping
  OBVIOUS
<1>2. self \in Actors /\ "master" \in Actors
  BY DEF Carriers, Actors, Requesters
<1>3. BoxOK(b)
  BY <1>1, <1>2, TakenOK
<1>4. Apart(b, s, r) /\ Carried(b, s, r) = Carried(box, sleeping, r) \ {Msg(self)}
  BY <1>1, DropOwn DEF Books
<1>5. Work(Carried(b, s, r)) = WorkInTransit(r) \ {Msg(self)}
  BY <1>4 DEF Work, WorkInTransit
<1>6. CASE box' = Taken(self)
  BY <1>1, <1>5, <1>6, WorkNext
<1>7. CASE box' = Post(Taken(self), "master", <<n>>)
  <2>1. PICK q \in Seq(Message) : q = <<n>>
    BY OneMessage
  <2>2. \A i \in 1 .. Len(q) : ~OnBehalfOf(q[i], r)
    BY <2>1
  <2>3. PICK e : e = Post(b, "master", q)
    OBVIOUS
  <2>4. Carried(e, s, r) = Carried(b, s, r)
    BY <1>2, <1>3, <1>4, <2>2, <2>3, PostForeign
  <2>5. WorkInTransit(r)' = Work(Carried(e, s, r))
    BY <1>1, <1>7, <2>1, <2>3, WorkNext
  <2> QED
    BY <1>5, <2>4, <2>5
<1> QED
  BY <1>6, <1>7

-----------------------------------------------------------------------------
(* No message was taken from go2rtc's mailbox without another one coming.  *)
Unserved == ~(Len(box'["go2rtc"]) < Len(box["go2rtc"]))

(* Sending never shortens a mailbox.                                       *)
LEMMA PostNotShorter ==
  ASSUME NEW b, BoxOK(b), NEW to \in Actors, NEW msgs \in Seq(Message), NEW a \in Actors
  PROVE  /\ Len(b[a]) \in Nat /\ Len(Post(b, to, msgs)[a]) \in Nat
         /\ Len(b[a]) <= Len(Post(b, to, msgs)[a])
<1>1. b[a] \in Seq(Message) /\ Len(msgs) \in Nat
  BY DEF BoxOK
<1>2. Post(b, to, msgs)[a] = b[a] \/ Post(b, to, msgs)[a] = b[a] \o msgs
  BY DEF BoxOK, Post
<1>3. Len(b[a] \o msgs) = Len(b[a]) + Len(msgs)
  BY <1>1
<1> QED
  BY <1>1, <1>2, <1>3

(* Only go2rtc takes messages from its mailbox.                            *)
LEMMA HandlerUnserved ==
  ASSUME BoxOK(box), NEW self \in Actors, self # "go2rtc", box[self] # <<>>,
         NEW to \in Actors, NEW msgs \in Seq(Message),
         box' = Taken(self) \/ box' = Post(Taken(self), to, msgs)
  PROVE  Unserved
<1>1. PICK b, d : b = Taken(self) /\ d = box'
  OBVIOUS
<1>2. BoxOK(b) /\ "go2rtc" \in Actors
  BY <1>1, TakenOK DEF Actors
<1>3. b["go2rtc"] = box["go2rtc"] /\ Len(b["go2rtc"]) \in Nat
  BY <1>1, <1>2, TakenFrom DEF BoxOK
<1>4. Len(b["go2rtc"]) <= Len(d["go2rtc"]) /\ Len(d["go2rtc"]) \in Nat
  BY <1>1, <1>2, <1>3, PostNotShorter
<1> QED
  BY <1>1, <1>3, <1>4 DEF Unserved

LEMMA PosterUnserved ==
  ASSUME BoxOK(box), NEW to \in Actors, NEW n \in Message, box' = Post(box, to, <<n>>)
  PROVE  Unserved
<1>1. PICK b, d : b = box /\ d = box'
  OBVIOUS
<1>2. "go2rtc" \in Actors /\ <<n>> \in Seq(Message)
  BY OneMessage DEF Actors
<1>3. Len(b["go2rtc"]) <= Len(d["go2rtc"]) /\ Len(d["go2rtc"]) \in Nat /\ Len(b["go2rtc"]) \in Nat
  BY <1>1, <1>2, PostNotShorter
<1> QED
  BY <1>1, <1>3 DEF Unserved

(* What a quiet step is for requester r: nothing happens to its fields nor *)
(* to its work, and go2rtc serves nobody.                                  *)
Quiet(r) ==
  /\ Unserved
  /\ UNCHANGED <<cleaner, count>>
  /\ WorkInTransit(r)' = WorkInTransit(r)

(* Messages that announce a run are not work of it.                        *)
LEMMA AnnouncedWork ==
  ASSUME NEW r \in Requesters, NEW b, BoxOK(b), NEW to \in Carriers(r), NEW n \in Message,
         NEW s, Apart(b, s, r), OnBehalfOf(n, r), n.type \notin WorkTypes,
         \A w \in Carried(b, s, r) : ~Clash(w, n),
         box' = Post(b, to, <<n>>), sleeping' = s
  PROVE  WorkInTransit(r)' = Work(Carried(b, s, r))
<1>1. PICK e : e = Post(b, to, <<n>>)
  OBVIOUS
<1>2. Carried(e, s, r) = Carried(b, s, r) \cup {n}
  BY <1>1, PostOwn
<1>3. WorkInTransit(r)' = Work(Carried(e, s, r))
  BY <1>1, WorkNext
<1> QED
  BY <1>2, <1>3 DEF Work

(* A message that is passed on stays in transit.                           *)
LEMMA PassedOn ==
  ASSUME NEW r \in Requesters, BoxOK(box), Books(r), NEW self \in Carriers(r),
         box[self] # <<>>, NEW to \in Carriers(r),
         NEW e, e = Post(Taken(self), to, <<Msg(self)>>)
  PROVE  /\ BoxOK(e) /\ Apart(e, sleeping, r)
         /\ Carried(e, sleeping, r) = Carried(box, sleeping, r)
<1>1. PICK b, s, h : b = Taken(self) /\ s = sleeping /\ h = Msg(self)
  OBVIOUS
<1>2. self \in Actors /\ to \in Actors
  BY DEF Carriers, Actors, Requesters
<1>3. h \in Message /\ BoxOK(b)
  BY <1>1, <1>2, TakenOK
<1>4. PICK q \in Seq(Message) : q = <<h>>
  BY <1>3, OneMessage
<1>5. /\ e = Post(b, to, q) /\ Len(q) = 1 /\ q[1] = h
      /\ OnBehalfOf(h, r) => OwnOf(q, r) = {1}
  BY <1>1, <1>4 DEF OwnOf
<1>6. BoxOK(e)
  BY <1>2, <1>3, <1>5, PostOK
<1>7. CASE OnBehalfOf(h, r)
  <2>1. /\ \A i \in OwnOf(q, r) : Heir(h, q[i])
        /\ \A i, j \in OwnOf(q, r) : Clash(q[i], q[j]) => i = j
    BY <1>5, <1>7, OwnKind, SameKindHeir
  <2>2. /\ Apart(e, s, r) /\ h \in Carried(box, sleeping, r)
        /\ Carried(e, s, r) = (Carried(box, sleeping, r) \ {h}) \cup {q[i] : i \in OwnOf(q, r)}
    BY <1>1, <1>5, <1>7, <2>1, ExchangeOwn DEF Books
  <2>3. {q[i] : i \in OwnOf(q, r)} = {h}
    BY <1>5, <1>7
  <2> QED
    BY <1>1, <1>6, <2>2, <2>3
<1>8. CASE ~OnBehalfOf(h, r)
  <2>1. Apart(b, s, r) /\ Carried(b, s, r) = Carried(box, sleeping, r)
    BY <1>1, <1>2, <1>8, DropForeign DEF Books
  <2>2. \A i \in 1 .. Len(q) : ~OnBehalfOf(q[i], r)
    BY <1>5, <1>8
  <2>3. Apart(e, s, r) /\ Carried(e, s, r) = Carried(b, s, r)
    BY <1>2, <1>3, <1>5, <2>1, <2>2, PostForeign
  <2> QED
    BY <1>1, <1>6, <2>1, <2>3
<1> QED
  BY <1>7, <1>8

(* MasterActor.Receive only announces and passes on.                       *)
LEMMA MasterQuiet ==
  ASSUME BooksInv, MasterStep, NEW r \in Requesters
  PROVE  Quiet(r)
<1> DEFINE h == Msg("master")
<1>1. /\ BoxOK(box) /\ Books(r) /\ sleeping' = sleeping
      /\ UNCHANGED <<status, cleaner, count, redis>>
  BY DEF BooksInv, TypeOK, BoxOK, MasterStep, MasterNext
<1>2. box["master"] # <<>>
  BY DEF MasterStep, MasterNext, MasterStartsCleanup, MasterStartsCount,
         MasterForwardsAnswer, MasterForwardsRemoval, MasterRequestsAction,
         MasterDropsReport, MasterPublishesReport, MasterDropsCount,
         MasterPublishesCount, Gets
<1>3. h \in Message /\ BoxOK(Taken("master"))
  BY <1>1, <1>2, TakenOK DEF Actors
<1>4. /\ {"master", "cleaner", "count", "redis", "action", "go2rtc"} \subseteq Actors
      /\ "master" \in Carriers(r) /\ r \in Carriers(r)
      /\ "redis" \notin Carriers(r) /\ "action" \notin Carriers(r)
      /\ \A a \in Requesters : a # r => a \notin Carriers(r)
  BY DEF Actors, Carriers, Requesters
<1>5. ASSUME NEW to \in Actors, NEW n \in Message,
             box' = Taken("master") \/ box' = Post(Taken("master"), to, <<n>>),
             WorkInTransit(r)' = WorkInTransit(r)
      PROVE  Quiet(r)
  <2>1. PICK q \in Seq(Message) : q = <<n>>
    BY OneMessage
  <2>2. box' = Taken("master") \/ box' = Post(Taken("master"), to, q)
    BY <1>5, <2>1
  <2>3. Unserved
    BY <1>1, <1>2, <1>4, <2>2, HandlerUnserved
  <2> QED
    BY <1>1, <1>5, <2>3 DEF Quiet
<1>6. ASSUME NEW to \in Actors, NEW n \in Message,
             box' = Taken("master") \/ box' = Post(Taken("master"), to, <<n>>),
             ~OnBehalfOf(h, r), to \notin Carriers(r) \/ ~OnBehalfOf(n, r)
      PROVE  Quiet(r)
  <2>1. WorkInTransit(r)' = WorkInTransit(r)
    BY <1>1, <1>2, <1>4, <1>6, ForeignMessageWork
  <2> QED
    BY <1>5, <1>6, <2>1
<1>7. ASSUME NEW to \in Requesters, OnBehalfOf(h, r) <=> to = r,
             box' = Post(Taken("master"), to, <<h>>)
      PROVE  Quiet(r)
  <2>1. to \in Actors
    BY DEF Actors, Requesters
  <2>2. CASE to # r
    BY <1>3, <1>4, <1>6, <1>7, <2>1, <2>2
  <2>3. CASE to = r
    <3>1. PICK e, s : e = Post(Taken("master"), r, <<h>>) /\ s = sleeping
      OBVIOUS
    <3>2. Carried(e, s, r) = Carried(box, sleeping, r)
      BY <1>1, <1>2, <1>4, <3>1, PassedOn
    <3>3. WorkInTransit(r)' = Work(Carried(e, s, r))
      BY <1>1, <1>7, <2>3, <3>1, WorkNext
    <3>4. WorkInTransit(r)' = WorkInTransit(r)
      BY <3>2, <3>3 DEF WorkInTransit
    <3> QED
      BY <1>3, <1>5, <1>7, <2>1, <3>4
  <2> QED
    BY <2>2, <2>3
<1>8. CASE MasterStartsCleanup
  <2>1. PICK t \in Times : /\ Fresh(t, "cleaner")
                           /\ box' = Post(Taken("master"), "cleaner", <<CleanupCycleStarted(t)>>)
    BY <1>8 DEF MasterStartsCleanup
  <2>2. PICK n \in Message : n = CleanupCycleStarted(t)
    BY StartsAreMessages DEF Requesters
  <2>3. ~OnBehalfOf(h, r)
    BY <1>8, Behalf DEF MasterStartsCleanup, Gets
  <2>4. CASE r = "count"
    <3>1. ~OnBehalfOf(n, r)
      BY <2>2, <2>4, Behalf DEF CleanupCycleStarted
    <3> QED
      BY <1>4, <1>6, <2>1, <2>2, <2>3, <3>1
  <2>5. CASE r = "cleaner"
    <3>1. /\ n.type = "CleanupCycleStarted" /\ n.triggeredAt = t /\ OnBehalfOf(n, r)
          /\ n.type \notin WorkTypes
      BY <2>2, <2>5 DEF CleanupCycleStarted, OnBehalfOf, WorkTypes
    <3>2. PICK b, s : b = Taken("master") /\ s = sleeping
      OBVIOUS
    <3>3. BoxOK(b) /\ Apart(b, s, r) /\ Carried(b, s, r) = Carried(box, sleeping, r)
      BY <1>1, <1>2, <1>3, <1>4, <2>3, <3>2, DropForeign DEF Books
    <3>4. \A w \in Carried(b, s, r) : ~Clash(w, n)
      <4>1. Carried(box, sleeping, r) = InTransit("cleaner")
        BY <2>5 DEF Carried, InTransit, Carriers
      <4>2. \A w \in InTransit("cleaner") : w.triggeredAt # t
        BY <2>1 DEF Fresh
      <4> QED
        BY <3>1, <3>3, <4>1, <4>2 DEF Clash
    <3>5. box' = Post(b, r, <<n>>) /\ sleeping' = s
      BY <1>1, <2>1, <2>2, <2>5, <3>2
    <3>6. WorkInTransit(r)' = Work(Carried(b, s, r))
      BY <1>4, <3>1, <3>3, <3>4, <3>5, AnnouncedWork
    <3>7. WorkInTransit(r)' = WorkInTransit(r)
      BY <3>3, <3>6 DEF WorkInTransit
    <3> QED
      BY <1>4, <1>5, <2>1, <2>2, <3>7
  <2> QED
    BY <2>4, <2>5 DEF Requesters
<1>9. CASE MasterStartsCount
  <2>1. h.type = "CountAliveStreamsStarted" /\ box' = Post(Taken("master"), "count", <<h>>)
    BY <1>9 DEF MasterStartsCount, Gets
  <2>2. OnBehalfOf(h, r) <=> "count" = r
    BY <2>1, Behalf
  <2> QED
    BY <1>7, <2>1, <2>2 DEF Requesters
<1>10. CASE MasterForwardsAnswer
  <2>1. PICK o \in Requesters : o # r
    BY DEF Requesters
  <2>2. PICK b, s, e, f, q :
          /\ b = Taken("master") /\ s = sleeping /\ q = <<h>>
          /\ e = Post(b, r, q) /\ f = Post(e, o, q)
    OBVIOUS
  <2>3. /\ BoxOK(b) /\ r \in Actors /\ o \in Actors /\ o \notin Carriers(r)
        /\ q \in Seq(Message)
    BY <1>3, <1>4, <2>1, <2>2, OneMessage DEF Requesters
  <2>4. BoxOK(e) /\ Apart(e, s, r) /\ Carried(e, s, r) = Carried(box, sleeping, r)
    BY <1>1, <1>2, <1>4, <2>2, PassedOn
  <2>5. f = box' /\ s = sleeping'
    <3>1. box' = Post(Post(b, "cleaner", q), "count", q)
      BY <1>10, <2>2 DEF MasterForwardsAnswer
    <3>2. CASE r = "cleaner"
      BY <1>1, <2>1, <2>2, <3>1, <3>2 DEF Requesters
    <3>3. CASE r = "count"
      BY <1>1, <2>1, <2>2, <2>3, <3>1, <3>3, PostsCommute DEF Requesters
    <3> QED
      BY <3>2, <3>3 DEF Requesters
  <2>6. Carried(f, s, r) = Carried(e, s, r)
    <3>1. f = Post(e, o, q)
      BY <2>2
    <3> QED
      BY <2>3, <2>4, <3>1, PostForeign
  <2>7. WorkInTransit(r)' = WorkInTransit(r)
    BY <2>4, <2>5, <2>6, WorkNext DEF WorkInTransit
  <2>8. Unserved
    <3>1. /\ b["go2rtc"] = box["go2rtc"] /\ e["go2rtc"] = b["go2rtc"]
          /\ f["go2rtc"] = e["go2rtc"]
      BY <1>1, <1>4, <2>2, <2>3, <2>4, TakenFrom, PostElsewhere DEF Requesters
    <3>2. Len(box["go2rtc"]) \in Nat
      BY <1>1, <1>4 DEF BoxOK
    <3> QED
      BY <2>5, <3>1, <3>2 DEF Unserved
  <2> QED
    BY <1>1, <2>7, <2>8 DEF Quiet
<1>11. CASE MasterForwardsRemoval
  <2>1. h.type = "StreamRemovalCompleted" /\ box' = Post(Taken("master"), "cleaner", <<h>>)
    BY <1>11 DEF MasterForwardsRemoval, Gets
  <2>2. OnBehalfOf(h, r) <=> "cleaner" = r
    BY <2>1, Behalf
  <2> QED
    BY <1>7, <2>1, <2>2 DEF Requesters
<1>12. CASE \/ MasterRequestsAction \/ MasterPublishesReport \/ MasterPublishesCount
            \/ MasterDropsReport \/ MasterDropsCount
  <2>1. h.type \in {"StreamRemoved", "CleanupCycleFinished", "AliveStreamCountCalculated"}
    BY <1>12 DEF MasterRequestsAction, MasterPublishesReport, MasterPublishesCount,
                 MasterDropsReport, MasterDropsCount, Gets
  <2>2. ~OnBehalfOf(h, r)
    BY <2>1, Behalf
  <2>3. ExecuteAction(h.stream) \in Message \/ h.type # "StreamRemoved"
    BY <1>3, FieldsOfMessages DEF ExecuteAction, Message, Notices
  <2>4. UpdateStreamCount(h.aliveStreams) \in Message \/ h.type = "StreamRemoved"
    BY <1>3, <2>1, FieldsOfMessages, ReportsAreMessages
  <2>5. PICK n \in Message, to \in {"action", "redis"} :
          box' = Taken("master") \/ box' = Post(Taken("master"), to, <<n>>)
    BY <1>3, <1>12, <2>3, <2>4
    DEF MasterRequestsAction, MasterPublishesReport, MasterPublishesCount,
        MasterDropsReport, MasterDropsCount, Gets
  <2> QED
    BY <1>4, <1>6, <2>2, <2>5
<1> QED
  BY <1>8, <1>9, <1>10, <1>11, <1>12 DEF MasterStep, MasterNext

(* A goroutine that wakes up passes its check on.                          *)
LEMMA WakeUpQuiet ==
  ASSUME BooksInv, NEW check \in sleeping, WakeUp(check), NEW r \in Requesters
  PROVE  Quiet(r)
<1>1. /\ BoxOK(box) /\ Books(r) /\ check \in Message
      /\ sleeping' = sleeping \ {check} /\ box' = Post(box, "go2rtc", <<check>>)
      /\ UNCHANGED <<cleaner, count>>
  BY DEF BooksInv, TypeOK, BoxOK, Message, WakeUp, ConfirmationElapsed
<1>2. "go2rtc" \in Actors /\ "go2rtc" \in Carriers(r)
  BY DEF Actors, Carriers
<1>3. PICK z, s, S : z = sleeping /\ s = sleeping \ {check} /\ S = Carried(box, sleeping, r)
  OBVIOUS
<1>4. WakesUp(z, s, check) /\ Apart(box, z, r) /\ S = Carried(box, z, r)
  BY <1>1, <1>3 DEF Books, WakesUp
<1>5. Apart(box, s, r)
  BY <1>4, Woken
<1>6. PICK e, q : e = Post(box, "go2rtc", q) /\ q = <<check>>
  OBVIOUS
<1>7. Carried(e, s, r) = S
  <2>1. CASE OnBehalfOf(check, r)
    <3>1. check \in S /\ Carried(box, s, r) = S \ {check}
      BY <1>4, <2>1, Woken
    <3>2. \A w \in Carried(box, s, r) : ~Clash(w, check)
      <4>1. Distinct(S)
        BY <1>1, <1>3, BooksDistinct
      <4> QED
        BY <3>1, <4>1 DEF Distinct
    <3>3. Carried(e, s, r) = Carried(box, s, r) \cup {check}
      BY <1>1, <1>2, <1>5, <1>6, <2>1, <3>2, PostOwn
    <3> QED
      BY <3>1, <3>3
  <2>2. CASE ~OnBehalfOf(check, r)
    <3>1. Carried(box, s, r) = S
      BY <1>4, <2>2, Woken
    <3>2. q \in Seq(Message) /\ \A i \in 1 .. Len(q) : ~OnBehalfOf(q[i], r)
      BY <1>1, <1>6, <2>2, OneMessage
    <3>3. Carried(e, s, r) = Carried(box, s, r)
      BY <1>1, <1>2, <1>5, <1>6, <3>2, PostForeign
    <3> QED
      BY <3>1, <3>3
  <2> QED
    BY <2>1, <2>2
<1>8. WorkInTransit(r)' = Work(Carried(e, s, r))
  BY <1>1, <1>3, <1>6, WorkNext
<1>9. Unserved
  BY <1>1, <1>2, PosterUnserved
<1> QED
  BY <1>1, <1>3, <1>7, <1>8, <1>9 DEF Quiet, WorkInTransit

(* Cron and the ticker only announce runs.                                 *)
LEMMA SchedulersQuiet ==
  ASSUME BooksInv, CronFires \/ TickFires, NEW r \in Requesters
  PROVE  Quiet(r)
<1>1. /\ BoxOK(box) /\ Books(r) /\ UNCHANGED <<sleeping, cleaner, count>>
  BY DEF BooksInv, TypeOK, BoxOK, CronFires, TickFires, CleanupCron, PublishTick
<1>2. "master" \in Actors /\ "master" \in Carriers(r)
  BY DEF Actors, Carriers
<1>3. PICK b, s, S : b = box /\ s = sleeping /\ S = Carried(box, sleeping, r)
  OBVIOUS
<1>4. BoxOK(b) /\ Apart(b, s, r) /\ Carried(b, s, r) = S
  BY <1>1, <1>3 DEF Books
<1>5. ASSUME NEW n \in Message, box' = Post(box, "master", <<n>>),
             WorkInTransit(r)' = WorkInTransit(r)
      PROVE  Quiet(r)
  BY <1>1, <1>2, <1>5, PosterUnserved DEF Quiet
<1>6. ASSUME NEW n \in Message, ~OnBehalfOf(n, r), box' = Post(box, "master", <<n>>)
      PROVE  Quiet(r)
  <2>1. PICK q \in Seq(Message) : q = <<n>>
    BY OneMessage
  <2>2. \A i \in 1 .. Len(q) : ~OnBehalfOf(q[i], r)
    BY <1>6, <2>1
  <2>3. PICK e : e = Post(b, "master", q)
    OBVIOUS
  <2>4. Carried(e, s, r) = S
    BY <1>2, <1>4, <2>2, <2>3, PostForeign
  <2>5. WorkInTransit(r)' = Work(Carried(e, s, r))
    BY <1>1, <1>3, <1>6, <2>1, <2>3, WorkNext
  <2> QED
    BY <1>3, <1>5, <1>6, <2>4, <2>5 DEF WorkInTransit
<1>7. CASE CronFires
  <2>1. PICK n \in Message : n = TriggerCleanup
    BY DEF Message
  <2>2. ~OnBehalfOf(n, r) /\ box' = Post(box, "master", <<n>>)
    BY <1>7, <2>1, Behalf DEF CronFires, CleanupCron, TriggerCleanup
  <2> QED
    BY <1>6, <2>2
<1>8. CASE TickFires
  <2>1. PICK t \in Times : /\ Fresh(t, "count")
                           /\ box' = Post(box, "master", <<CountAliveStreamsStarted(t)>>)
    BY <1>8 DEF TickFires, PublishTick
  <2>2. PICK n \in Message : n = CountAliveStreamsStarted(t)
    BY StartsAreMessages DEF Requesters
  <2>3. n.type = "CountAliveStreamsStarted" /\ n.triggeredAt = t /\ n.type \notin WorkTypes
    BY <2>2 DEF CountAliveStreamsStarted, WorkTypes
  <2>4. CASE r # "count"
    <3>1. ~OnBehalfOf(n, r)
      BY <2>3, <2>4, Behalf
    <3> QED
      BY <1>6, <2>1, <2>2, <3>1
  <2>5. CASE r = "count"
    <3>1. OnBehalfOf(n, r)
      BY <2>3, <2>5, Behalf
    <3>2. \A w \in S : ~Clash(w, n)
      <4>1. S = InTransit("count")
        BY <1>3, <2>5 DEF Carried, InTransit, Carriers
      <4>2. \A w \in InTransit("count") : w.triggeredAt # t
        BY <2>1 DEF Fresh
      <4> QED
        BY <2>3, <4>1, <4>2 DEF Clash
    <3>3. box' = Post(b, "master", <<n>>) /\ sleeping' = s
      BY <1>1, <1>3, <2>1, <2>2
    <3>4. WorkInTransit(r)' = Work(Carried(b, s, r))
      BY <1>2, <1>4, <2>3, <3>1, <3>2, <3>3, AnnouncedWork
    <3> QED
      BY <1>3, <1>4, <1>5, <2>1, <2>2, <3>4 DEF WorkInTransit
  <2> QED
    BY <2>4, <2>5
<1> QED
  BY <1>7, <1>8

(* ActionActor, RedisActor and the cameras have no part in a run.          *)
LEMMA OthersQuiet ==
  ASSUME BooksInv, ActionStep \/ RedisStep \/ CameraChanges \/ UNCHANGED vars,
         NEW r \in Requesters
  PROVE  Quiet(r)
<1>1. BoxOK(box) /\ Books(r) /\ UNCHANGED <<sleeping, cleaner, count>>
  BY DEF BooksInv, TypeOK, BoxOK, ActionStep, ActionExecutes, RedisStep, RedisNext,
         RedisDisabled, RedisPingFails, RedisSetFails, RedisSets, CameraChanges,
         StreamChanges, vars
<1>2. CASE CameraChanges \/ UNCHANGED vars
  <2>1. PICK b, s : b = box /\ s = sleeping
    OBVIOUS
  <2>2. b = box' /\ s = sleeping'
    BY <1>1, <1>2, <2>1 DEF CameraChanges, StreamChanges, vars
  <2>3. WorkInTransit(r)' = WorkInTransit(r)
    BY <2>1, <2>2, WorkNext DEF WorkInTransit
  <2>4. Unserved
    <3>1. Len(box["go2rtc"]) \in Nat
      BY <1>1 DEF BoxOK, Actors
    <3> QED
      BY <2>1, <2>2, <3>1 DEF Unserved
  <2> QED
    BY <1>1, <2>3, <2>4 DEF Quiet
<1>3. CASE ActionStep \/ RedisStep
  <2>1. PICK self \in {"action", "redis"} : box[self] # <<>> /\ box' = Taken(self)
    BY <1>3 DEF ActionStep, ActionExecutes, RedisStep, RedisNext, RedisDisabled,
                RedisPingFails, RedisSetFails, RedisSets, RedisUpdates, Gets
  <2>2. self \in Actors /\ self \notin Carriers(r) /\ self # "go2rtc"
    BY DEF Actors, Carriers, Requesters
  <2>3. << >> \in Seq(Message)
    OBVIOUS
  <2>4. WorkInTransit(r)' = WorkInTransit(r)
    BY <1>1, <2>1, <2>2, <2>3, ForeignWork
  <2>5. Unserved
    BY <1>1, <2>1, <2>2, <2>3, HandlerUnserved
  <2> QED
    BY <1>1, <2>4, <2>5 DEF Quiet
<1> QED
  BY <1>2, <1>3

-----------------------------------------------------------------------------
(* go2rtc serves the oldest message of its mailbox with the answer n.  A   *)
(* stream whose deletion it reports was there before.                      *)
Serves(n, msgs) ==
  /\ box["go2rtc"] # <<>> /\ ~Unserved
  /\ UNCHANGED <<sleeping, cleaner, count>>
  /\ n \in Message /\ Reply(Msg("go2rtc"), n)
  /\ Deleted(n) => status'[n.stream] # status[n.stream]
  /\ msgs \in Seq(Message) /\ Len(msgs) \in Nat \ {0} /\ msgs[Len(msgs)] = n
  /\ \A i \in 1 .. Len(msgs) : i # Len(msgs) => msgs[i].type = "StreamRemoved"
  /\ box' = Post(Taken("go2rtc"), "master", msgs)

LEMMA Go2RTCServes ==
  ASSUME BooksInv, Go2RTCStep
  PROVE  \E n, msgs : Serves(n, msgs)
<1> DEFINE h == Msg("go2rtc")
<1>1. /\ BoxOK(box) /\ UNCHANGED <<sleeping, cleaner, count>>
      /\ status \in [Streams -> StreamStatus]
  BY DEF BooksInv, TypeOK, BoxOK, Go2RTCStep, Go2RTCNext, Go2RTCFails,
         Go2RTCFetchFails, Go2RTCCheckFails, Go2RTCRemoveFails, Go2RTCFetches,
         Go2RTCChecks, Go2RTCRemoveUnknown, Go2RTCRemoves
<1>2. box["go2rtc"] # <<>>
  BY DEF Go2RTCStep, Go2RTCNext, Go2RTCFails, Go2RTCFetchFails, Go2RTCCheckFails,
         Go2RTCRemoveFails, Go2RTCFetches, Go2RTCChecks, Go2RTCRemoveUnknown,
         Go2RTCRemoves, Gets
<1>3. /\ h \in Message /\ BoxOK(Taken("go2rtc"))
      /\ {"master", "go2rtc"} \subseteq Actors /\ "master" # "go2rtc"
  BY <1>1, <1>2, TakenOK DEF Actors
<1>4. ASSUME NEW msgs, Replies(msgs)
      PROVE  ~Unserved
  <2>1. PICK b, d : b = Taken("go2rtc") /\ d = box'
    OBVIOUS
  <2>2. d["go2rtc"] = b["go2rtc"] /\ b["go2rtc"] = Tail(box["go2rtc"])
    BY <1>1, <1>3, <1>4, <2>1, TakenFrom, PostElsewhere DEF Replies
  <2>3. PICK q \in Seq(Message) : q = box["go2rtc"]
    BY <1>1, <1>3 DEF BoxOK
  <2>4. Len(Tail(q)) < Len(q)
    BY <1>2, <2>3
  <2> QED
    BY <2>1, <2>2, <2>3, <2>4 DEF Unserved
<1>5. ASSUME NEW n \in Message, Reply(h, n), Replies(<<n>>), ~Deleted(n)
      PROVE  \E m, msgs : Serves(m, msgs)
  <2>1. PICK q \in Seq(Message) : q = <<n>>
    BY OneMessage
  <2>2. Len(q) = 1 /\ q[1] = n
    BY <2>1
  <2>3. Replies(q) /\ ~Unserved
    BY <1>4, <1>5, <2>1
  <2>4. Serves(n, q)
    BY <1>1, <1>2, <1>5, <2>2, <2>3 DEF Serves, Replies
  <2> QED
    BY <2>4
<1>6. CASE Go2RTCFetchFails \/ Go2RTCFetches
  <2>1. PICK list \in StreamLists \cup {<<>>}, failed \in BOOLEAN :
          Replies(<<StreamListFetched(h.triggeredAt, h.requestedBy, list, failed)>>)
    BY <1>6 DEF Go2RTCFetchFails, Go2RTCFetches
  <2>2. h.type = "FetchStreamList"
    BY <1>6 DEF Go2RTCFetchFails, Go2RTCFetches, Gets
  <2>3. h.triggeredAt \in Times /\ h.requestedBy \in Requesters
    BY <1>3, <2>2, FieldsOfMessages
  <2>4. PICK n \in Message : n = StreamListFetched(h.triggeredAt, h.requestedBy, list, failed)
    BY <2>3, StartsAreMessages
  <2>5. Reply(h, n) /\ ~Deleted(n)
    BY <2>2, <2>4 DEF StreamListFetched, Reply, Deleted
  <2> QED
    BY <1>5, <2>1, <2>4, <2>5
<1>7. CASE Go2RTCCheckFails \/ Go2RTCChecks
  <2>1. PICK producing \in BOOLEAN, failed \in BOOLEAN :
          Replies(<<StreamHealthChecked(h, producing, failed)>>)
    <3>1. (status[h.stream] = "live") \in BOOLEAN
      OBVIOUS
    <3> QED
      BY <1>7, <3>1 DEF Go2RTCCheckFails, Go2RTCChecks
  <2>2. h.type = "CheckStreamHealth"
    BY <1>7 DEF Go2RTCCheckFails, Go2RTCChecks, Gets
  <2>3. PICK n \in Message : n = StreamHealthChecked(h, producing, failed)
    BY <1>3, <2>2, CheckAnswersAreMessages
  <2>4. Reply(h, n) /\ ~Deleted(n)
    BY <2>2, <2>3 DEF StreamHealthChecked, Reply, Deleted
  <2> QED
    BY <1>5, <2>1, <2>3, <2>4
<1>8. CASE Go2RTCRemoveFails \/ Go2RTCRemoveUnknown
  <2>1. h.type = "RemoveStream"
    BY <1>8 DEF Go2RTCRemoveFails, Go2RTCRemoveUnknown, Gets
  <2>2. PICK failed \in BOOLEAN : Replies(<<StreamRemovalCompleted(h, FALSE, failed)>>)
    BY <1>8 DEF Go2RTCRemoveFails, Go2RTCRemoveUnknown
  <2>3. PICK n \in Message : n = StreamRemovalCompleted(h, FALSE, failed)
    BY <1>3, <2>1, RemovalsAreMessages
  <2>4. Reply(h, n) /\ ~Deleted(n)
    BY <2>1, <2>3 DEF StreamRemovalCompleted, Reply, Deleted
  <2> QED
    BY <1>5, <2>2, <2>3, <2>4
<1>9. CASE Go2RTCRemoves
  <2>1. h.type = "RemoveStream" /\ h.stream \in Streams
    BY <1>3, <1>9, FieldsOfMessages DEF Go2RTCRemoves, Gets
  <2>2. PICK n \in Message, x \in Message :
          n = StreamRemovalCompleted(h, TRUE, FALSE) /\ x = StreamRemoved(h.stream)
    <3>1. PICK done \in BOOLEAN, failed \in BOOLEAN : done = TRUE /\ failed = FALSE
      OBVIOUS
    <3>2. StreamRemovalCompleted(h, done, failed) \in Message /\ StreamRemoved(h.stream) \in Message
      BY <1>3, <2>1, RemovalsAreMessages
    <3> QED
      BY <3>1, <3>2
  <2>3. PICK q \in Seq(Message) : q = <<x, n>>
    <3>1. <<x, n>> \in Seq(Message)
      OBVIOUS
    <3> QED
      BY <3>1
  <2>4. Len(q) = 2 /\ q[1] = x /\ q[2] = n /\ x.type = "StreamRemoved"
    BY <2>2, <2>3 DEF StreamRemoved
  <2>5. Replies(q)
    BY <1>9, <2>2, <2>3 DEF Go2RTCRemoves
  <2>6. Reply(h, n) /\ n.stream = h.stream
    BY <2>1, <2>2 DEF StreamRemovalCompleted, Reply
  <2>7. status'[h.stream] # status[h.stream]
    BY <1>1, <1>9, <2>1 DEF Go2RTCRemoves
  <2>8. \A i \in 1 .. Len(q) : i # Len(q) => q[i].type = "StreamRemoved"
    BY <2>4
  <2>9. Len(q) \in Nat \ {0} /\ q[Len(q)] = n
    BY <2>4
  <2>10. ~Unserved
    BY <1>4, <2>5
  <2>11. Serves(n, q)
    BY <1>1, <1>2, <2>5, <2>6, <2>7, <2>8, <2>9, <2>10 DEF Serves, Replies
  <2> QED
    BY <2>11
<1> QED
  BY <1>6, <1>7, <1>8, <1>9 DEF Go2RTCStep, Go2RTCNext, Go2RTCFails

(* An answer is of the kind of the request, and for the same requester.    *)
LEMMA ReplyIsAlike ==
  ASSUME NEW h, NEW n, Reply(h, n)
  PROVE  /\ SameKind(h, n) /\ h.type \in WorkTypes /\ n.type \in WorkTypes
         /\ \A r \in Requesters : OnBehalfOf(n, r) <=> OnBehalfOf(h, r)
<1>1. CASE h.type = "FetchStreamList" /\ n.type = "StreamListFetched"
           /\ n.triggeredAt = h.triggeredAt /\ n.requestedBy = h.requestedBy
  BY <1>1 DEF SameKind, Asks, Single, WorkTypes, OnBehalfOf
<1>2. ASSUME h.type = "CheckStreamHealth", NEW p, NEW f, n = StreamHealthChecked(h, p, f)
      PROVE  /\ SameKind(h, n) /\ h.type \in WorkTypes /\ n.type \in WorkTypes
             /\ \A r \in Requesters : OnBehalfOf(n, r) <=> OnBehalfOf(h, r)
  BY <1>2 DEF StreamHealthChecked, SameKind, Asks, Single, WorkTypes, OnBehalfOf
<1>3. ASSUME h.type = "RemoveStream", NEW p, NEW f, n = StreamRemovalCompleted(h, p, f)
      PROVE  /\ SameKind(h, n) /\ h.type \in WorkTypes /\ n.type \in WorkTypes
             /\ \A r \in Requesters : OnBehalfOf(n, r) <=> OnBehalfOf(h, r)
  BY <1>3 DEF StreamRemovalCompleted, SameKind, Asks, Single, WorkTypes, OnBehalfOf
<1> QED
  BY <1>1, <1>2, <1>3 DEF Reply

(* The work in transit is all of the requester's, and the oldest message   *)
(* of a mailbox belongs to it if it is.                                    *)
LEMMA HeadOfWork ==
  ASSUME NEW r \in Requesters, BoxOK(box), Books(r), NEW self \in Carriers(r),
         box[self] # <<>>
  PROVE  Msg(self) \in WorkInTransit(r) <=>
           OnBehalfOf(Msg(self), r) /\ Msg(self).type \in WorkTypes
<1>1. CASE OnBehalfOf(Msg(self), r)
  BY <1>1, BooksInTransit DEF WorkInTransit, Work
<1>2. CASE ~OnBehalfOf(Msg(self), r)
  BY <1>2, CarriedIs DEF WorkInTransit, Work
<1> QED
  BY <1>1, <1>2

(* The answer takes the place of the request.                              *)
LEMMA ServedWork ==
  ASSUME BooksInv, NEW n, NEW msgs, Serves(n, msgs), NEW r \in Requesters
  PROVE  Answered(Msg("go2rtc"), n, WorkInTransit(r), WorkInTransit(r)')
<1>1. PICK b, s, h, S, k : /\ b = Post(Taken("go2rtc"), "master", msgs) /\ s = sleeping
                           /\ h = Msg("go2rtc") /\ S = Carried(box, sleeping, r)
                           /\ k = Len(msgs)
  OBVIOUS
<1>2. /\ BoxOK(box) /\ Books(r) /\ box["go2rtc"] # <<>>
      /\ {"go2rtc", "master"} \subseteq Carriers(r) /\ {"go2rtc", "master"} \subseteq Actors
      /\ msgs \in Seq(Message) /\ Reply(h, n)
  BY <1>1 DEF BooksInv, TypeOK, BoxOK, Serves, Carriers, Actors
<1>3. /\ SameKind(h, n) /\ h.type \in WorkTypes /\ n.type \in WorkTypes
      /\ OnBehalfOf(n, r) <=> OnBehalfOf(h, r)
  BY <1>2, ReplyIsAlike
<1>4. /\ k \in Nat \ {0} /\ k = Len(msgs) /\ msgs[k] = n
      /\ \A i \in 1 .. k : i # k => ~OnBehalfOf(msgs[i], r)
  BY <1>1, Behalf DEF Serves
<1>5. WorkInTransit(r)' = Work(Carried(b, s, r))
  BY <1>1, WorkNext DEF Serves
<1>6. CASE OnBehalfOf(h, r)
  <2>1. OwnOf(msgs, r) = {k}
    BY <1>3, <1>4, <1>6 DEF OwnOf
  <2>2. /\ \A i \in OwnOf(msgs, r) : Heir(h, msgs[i])
        /\ \A i, j \in OwnOf(msgs, r) : Clash(msgs[i], msgs[j]) => i = j
    BY <1>3, <1>4, <2>1, SameKindHeir
  <2>3. /\ h \in S
        /\ Carried(b, s, r) = (S \ {h}) \cup {msgs[i] : i \in OwnOf(msgs, r)}
    BY <1>1, <1>2, <1>6, <2>2, ExchangeOwn DEF Books
  <2>4. {msgs[i] : i \in OwnOf(msgs, r)} = {n}
    BY <1>4, <2>1
  <2>5. Work((S \ {h}) \cup {n}) = (Work(S) \ {h}) \cup {n} /\ h \in Work(S)
    BY <1>3, <2>3 DEF Work
  <2> QED
    BY <1>1, <1>5, <2>3, <2>4, <2>5 DEF Answered, WorkInTransit
<1>7. CASE ~OnBehalfOf(h, r)
  <2>1. \A i \in 1 .. Len(msgs) : ~OnBehalfOf(msgs[i], r)
    BY <1>3, <1>4, <1>7
  <2>2. WorkInTransit(r)' = WorkInTransit(r)
    BY <1>1, <1>2, <1>7, <2>1, ForeignWork DEF Serves
  <2>3. h \notin WorkInTransit(r)
    BY <1>1, <1>2, <1>7, HeadOfWork
  <2> QED
    BY <1>1, <2>2, <2>3 DEF Answered
<1> QED
  BY <1>6, <1>7

-----------------------------------------------------------------------------
(* The handlers of the two requesters, for the one or the other.           *)

(* Nothing more is asked on account of the message.                        *)
LEMMA LeftWork ==
  ASSUME NEW r \in Requesters, BoxOK(box), Books(r), box[r] # <<>>,
         NEW n \in Message, ~OnBehalfOf(n, r),
         box' = Taken(r) \/ box' = Post(Taken(r), "master", <<n>>),
         sleeping' = sleeping
  PROVE  WorkInTransit(r)' = WorkInTransit(r) \ {Msg(r)}
<1>1. r \in Carriers(r) /\ r \in Actors /\ "master" \in Actors
  BY DEF Carriers, Actors, Requesters
<1>2. CASE OnBehalfOf(Msg(r), r)
  BY <1>1, <1>2, DroppedWork
<1>3. CASE ~OnBehalfOf(Msg(r), r)
  <2>1. WorkInTransit(r)' = WorkInTransit(r)
    BY <1>1, <1>3, ForeignMessageWork
  <2>2. Msg(r) \notin WorkInTransit(r)
    BY <1>1, <1>3, HeadOfWork
  <2> QED
    BY <2>1, <2>2
<1> QED
  BY <1>2, <1>3

(* A run begins and asks for the list.                                     *)
LEMMA BegunWork ==
  ASSUME NEW r \in Requesters, BoxOK(box), Books(r), box[r] # <<>>,
         OnBehalfOf(Msg(r), r),
         Msg(r).type \in {"CleanupCycleStarted", "CountAliveStreamsStarted"},
         box' = Post(Taken(r), "go2rtc", <<FetchStreamList(Msg(r).triggeredAt, r)>>),
         sleeping' = sleeping
  PROVE  /\ WorkInTransit(r)' =
              WorkInTransit(r) \cup {FetchStreamList(Msg(r).triggeredAt, r)}
         /\ \A m \in WorkInTransit(r) : m.triggeredAt # Msg(r).triggeredAt
<1>1. r \in Actors /\ r \in Carriers(r) /\ "go2rtc" \in Carriers(r)
  BY DEF Actors, Requesters, Carriers
<1>2. PICK S, h : S = Carried(box, sleeping, r) /\ h = Msg(r)
  OBVIOUS
<1>3. h \in Message /\ h.triggeredAt \in Times
  BY <1>1, <1>2, TakenOK, FieldsOfMessages
<1>4. PICK n \in Message : n = FetchStreamList(h.triggeredAt, r)
  BY <1>3, StartsAreMessages
<1>5. /\ n.triggeredAt = h.triggeredAt /\ OnBehalfOf(n, r) /\ n.type \in WorkTypes
      /\ Single(h) /\ h.type \notin WorkTypes
  BY <1>2, <1>4 DEF FetchStreamList, OnBehalfOf, WorkTypes, Single
<1>6. Heir(h, n)
  BY <1>5 DEF Heir, Clash
<1>7. WorkInTransit(r)' = (WorkInTransit(r) \ {h}) \cup {n}
  <2>1. box' = Post(Taken(r), "go2rtc", <<n>>) /\ Heir(Msg(r), n)
    BY <1>2, <1>4, <1>6
  <2> QED
    BY <1>1, <1>2, <1>5, <2>1, ReplacedWork
<1>8. h \notin WorkInTransit(r)
  BY <1>5 DEF WorkInTransit, Work
<1>9. \A m \in WorkInTransit(r) : m.triggeredAt # h.triggeredAt
  <2>1. Distinct(S) /\ h \in S
    BY <1>1, <1>2, BooksDistinct, BooksInTransit
  <2>2. \A m \in S : m.triggeredAt = h.triggeredAt => m = h
    BY <1>5, <2>1 DEF Distinct, Clash
  <2> QED
    BY <1>2, <1>8, <2>2 DEF WorkInTransit, Work
<1> QED
  BY <1>2, <1>4, <1>7, <1>8, <1>9

(* The list arrives and its entries are checked.                           *)
LEMMA ListedWork ==
  ASSUME NEW r \in Requesters, BoxOK(box), Books(r), box[r] # <<>>,
         OnBehalfOf(Msg(r), r), Msg(r).type = "StreamListFetched",
         box' = Post(Taken(r), "go2rtc", FirstChecks(Msg(r))), sleeping' = sleeping
  PROVE  WorkInTransit(r)' = (WorkInTransit(r) \ {Msg(r)}) \cup ChecksOf(Msg(r), r)
<1>1. r \in Actors /\ r \in Carriers(r) /\ "go2rtc" \in Carriers(r)
  BY DEF Actors, Requesters, Carriers
<1>2. PICK S, h, b, s : /\ S = Carried(box, sleeping, r) /\ h = Msg(r)
                        /\ s = sleeping /\ b = box'
  OBVIOUS
<1>3. h \in Message /\ h.streams \in Seq(Streams) /\ h.requestedBy = r
  BY <1>1, <1>2, TakenOK, FieldsOfMessages, Behalf
<1>4. PICK k \in Nat : k = Len(h.streams)
  BY <1>3
<1>5. PICK q \in Seq(Message) : q = FirstChecks(h)
  BY <1>2, <1>3, FirstChecksAreMessages
<1>6. /\ Len(q) = k
      /\ \A i \in 1 .. k : /\ q[i].type = "CheckStreamHealth" /\ q[i].entry = i
                           /\ q[i].triggeredAt = h.triggeredAt /\ q[i].requestedBy = r
  BY <1>2, <1>3, <1>4, <1>5, FirstChecksAre
<1>7. OwnOf(q, r) = 1 .. k
  BY <1>6 DEF OwnOf, OnBehalfOf
<1>8. /\ Single(h) /\ \A i \in 1 .. k : ~Single(q[i]) /\ q[i].type \in WorkTypes
  BY <1>2, <1>6 DEF Single, WorkTypes
<1>9. /\ \A i \in OwnOf(q, r) : Heir(h, q[i])
      /\ \A i, j \in OwnOf(q, r) : Clash(q[i], q[j]) => i = j
  BY <1>6, <1>7, <1>8 DEF Heir, Clash
<1>10. PICK N : N = {q[i] : i \in OwnOf(q, r)}
  OBVIOUS
<1>11. b = Post(Taken(r), "go2rtc", q)
  BY <1>2, <1>5
<1>12. Carried(b, s, r) = (S \ {h}) \cup N
  BY <1>1, <1>2, <1>9, <1>10, <1>11, ExchangeOwn DEF Books
<1>13. WorkInTransit(r)' = Work(Carried(b, s, r))
  BY <1>2, WorkNext
<1>14. \A m \in N : m.type \in WorkTypes
  BY <1>7, <1>8, <1>10
<1>15. Work((S \ {h}) \cup N) = (Work(S) \ {h}) \cup N
  BY <1>14 DEF Work
<1>16. N = ChecksOf(h, r)
  <2>1. \A e \in 1 .. k : q[e] = CheckStreamHealth(h.streams[e], e, h.triggeredAt, 1, r)
    BY <1>3, <1>4, <1>5 DEF FirstChecks
  <2> QED
    BY <1>4, <1>7, <1>10, <2>1 DEF ChecksOf
<1> QED
  BY <1>2, <1>12, <1>13, <1>15, <1>16 DEF WorkInTransit

(* A first miss: a goroutine starts to hold the second check.              *)
LEMMA SuspectedWork ==
  ASSUME NEW r \in Requesters, BoxOK(box), Books(r), box[r] # <<>>,
         OnBehalfOf(Msg(r), r), Msg(r).type = "StreamHealthChecked",
         box' = Taken(r), sleeping' = sleeping \union {SecondCheck(Msg(r))}
  PROVE  WorkInTransit(r)' = (WorkInTransit(r) \ {Msg(r)}) \cup {SecondCheck(Msg(r))}
<1>1. r \in Actors /\ r \in Carriers(r)
  BY DEF Actors, Requesters, Carriers
<1>2. PICK S, h, n : S = Carried(box, sleeping, r) /\ h = Msg(r) /\ n = SecondCheck(h)
  OBVIOUS
<1>3. SameKind(h, n) /\ OnBehalfOf(n, r) /\ n.type \in WorkTypes
  BY <1>2 DEF SecondCheck, CheckStreamHealth, SameKind, Asks, Single, WorkTypes, OnBehalfOf
<1>4. PICK b, z : b = Taken(r) /\ z = sleeping
  OBVIOUS
<1>5. Apart(b, z, r) /\ h \in S /\ Carried(b, z, r) = S \ {h}
  BY <1>1, <1>2, <1>4, DropOwn DEF Books
<1>8. PICK s : s = z \union {n}
  OBVIOUS
<1>9. Carried(b, s, r) = (S \ {h}) \cup {n}
  <2>1. OnBehalfOf(n, r)
    BY <1>3
  <2>2. Carried(b, s, r) = Carried(b, z, r) \cup {n}
    BY <1>8, <2>1, CarriedIs
  <2> QED
    BY <1>5, <2>2
<1>10. WorkInTransit(r)' = Work(Carried(b, s, r))
  BY <1>2, <1>4, <1>8, WorkNext
<1>11. Work((S \ {h}) \cup {n}) = (Work(S) \ {h}) \cup {n}
  BY <1>3 DEF Work
<1> QED
  BY <1>2, <1>9, <1>10, <1>11 DEF WorkInTransit

(* While the list is under way it is all there is of the run.              *)
LEMMA OneList ==
  ASSUME NEW r \in Requesters, Books(r), NEW h \in WorkInTransit(r), Asks(h),
         Current(Actor(r), h)
  PROVE  Actor(r).outstanding = 0 /\ RunOf(Actor(r), WorkInTransit(r)) = {}
<1>1. PICK c, S : c = Actor(r) /\ S = Carried(box, sleeping, r)
  OBVIOUS
<1>2. Tally(c, S) /\ h \in WorkIn(S, c.triggeredAt) /\ c.running
  BY <1>1 DEF Books, Kept, WorkInTransit, Work, WorkIn, Current
<1>3. c.outstanding = 0 /\ \E m \in S : Asks(m) /\ WorkIn(S, c.triggeredAt) = {m}
  BY <1>2 DEF Tally
<1>4. RunOf(c, Work(S)) = {m \in WorkIn(S, c.triggeredAt) : ~Asks(m)}
  BY DEF RunOf, Work, WorkIn
<1> QED
  BY <1>1, <1>3, <1>4 DEF WorkInTransit

(* A fetched list is one that the file may hold, or empty.                 *)
LEMMA ListsAreKnown ==
  ASSUME NEW h \in Message, h.type = "StreamListFetched", h.streams # <<>>
  PROVE  h.streams \in StreamLists /\ Len(h.streams) \in Nat \ {0}
<1>1. h \in ListAnswers
  BY DEF Message, RunStarts, ListRequests, ListAnswers, Checks, CheckAnswers, Removals,
         RemovalAnswers, Notices, Reports, TriggerCleanup
<1>2. h.streams \in StreamLists
  BY <1>1 DEF ListAnswers
<1>3. PICK q \in Seq(Streams) : q = h.streams
  BY <1>2, MessagesAssumption
<1>4. Len(q) \in Nat \ {0}
  BY <1>3
<1> QED
  BY <1>2, <1>3, <1>4

-----------------------------------------------------------------------------
(* What markStreamCompleted and finishCycleIfDone leave, and their report. *)
LEMMA CompleteStreamLeaves ==
  ASSUME NEW c \in CleanerStates, c.running, CompleteStream(c)
  PROVE  /\ cleaner'.pending = c.pending /\ cleaner'.aliveCount = c.aliveCount
         /\ cleaner'.removedCount = c.removedCount
         /\ cleaner'.triggeredAt = c.triggeredAt
         /\ cleaner'.outstanding = IF c.outstanding > 0 THEN c.outstanding - 1 ELSE 0
         /\ cleaner'.running <=> cleaner'.outstanding # 0
         /\ cleaner'.running => box' = Taken("cleaner")
         /\ ~cleaner'.running =>
              box' = Post(Taken("cleaner"), "master",
                          <<CleanupCycleFinished(c.aliveCount, c.removedCount)>>)
<1> DEFINE left == IF c.outstanding > 0 THEN c.outstanding - 1 ELSE 0
<1>1. PICK still \in BOOLEAN :
        /\ still <=> left # 0
        /\ cleaner' = [c EXCEPT !.outstanding = left, !.running = still]
  BY DEF CompleteStream
<1>2. \A x \in CleanerStates : \A l, b :
        LET y == [x EXCEPT !.outstanding = l, !.running = b]
        IN /\ y.outstanding = l /\ y.running = b /\ y.triggeredAt = x.triggeredAt
           /\ y.pending = x.pending /\ y.aliveCount = x.aliveCount
           /\ y.removedCount = x.removedCount
  BY DEF CleanerStates
<1>3. /\ cleaner'.pending = c.pending /\ cleaner'.aliveCount = c.aliveCount
      /\ cleaner'.removedCount = c.removedCount
      /\ cleaner'.triggeredAt = c.triggeredAt
      /\ cleaner'.outstanding = left /\ cleaner'.running = still
  BY <1>1, <1>2
<1>4. /\ left # 0 => box' = Taken("cleaner")
      /\ left = 0 => box' = Post(Taken("cleaner"), "master",
                              <<CleanupCycleFinished(c.aliveCount, c.removedCount)>>)
  BY DEF CompleteStream
<1> QED
  BY <1>1, <1>3, <1>4

(* The handlers of the cleaner that settle an entry: which struct value    *)
(* they reach.                                                             *)
LEMMA CleanerSettles ==
  ASSUME cleaner \in CleanerStates,
         \/ CleanerHealthFailed \/ CleanerHealthAlive \/ CleanerSkips
         \/ CleanerRemovalCompleted
  PROVE  LET h == Msg("cleaner") IN
         /\ h.type \in {"StreamHealthChecked", "StreamRemovalCompleted"}
         /\ CleanerAccepts(h) /\ UNCHANGED <<sleeping, status>>
         /\ \E x \in CleanerStates :
              /\ CompleteStream(x)
              /\ x.running = cleaner.running /\ x.outstanding = cleaner.outstanding
              /\ x.triggeredAt = cleaner.triggeredAt /\ x.pending \subseteq cleaner.pending
              /\ x.aliveCount =
                   IF FoundAlive(h) THEN cleaner.aliveCount + 1 ELSE cleaner.aliveCount
              /\ x.removedCount =
                   IF Deleted(h) THEN cleaner.removedCount + 1 ELSE cleaner.removedCount
<1> DEFINE h == Msg("cleaner")
<1>1. /\ h.type \in {"StreamHealthChecked", "StreamRemovalCompleted"}
      /\ CleanerAccepts(h) /\ UNCHANGED <<sleeping, status>>
  BY DEF CleanerHealthFailed, CleanerHealthAlive, CleanerSkips,
         CleanerRemovalCompleted, CleanerMissing, CleanerHandles, Gets
<1>2. /\ cleaner.pending \ {h.stream} \in SUBSET Streams
      /\ cleaner.aliveCount + 1 \in Nat /\ cleaner.removedCount + 1 \in Nat
  BY DEF CleanerStates
<1>3. PICK p \in SUBSET Streams : p = cleaner.pending \ {h.stream}
  BY <1>2
<1>4. PICK a \in Nat, k \in Nat :
        a = cleaner.aliveCount + 1 /\ k = cleaner.removedCount + 1
  BY <1>2
<1>5. CASE CleanerHealthFailed
  <2>1. ~FoundAlive(h) /\ ~Deleted(h)
    BY <1>5 DEF CleanerHealthFailed, CleanerHandles, Gets, FoundAlive, Deleted
  <2>2. CompleteStream([cleaner EXCEPT !.pending = p])
    BY <1>3, <1>5 DEF CleanerHealthFailed
  <2>3. \A x \in CleanerStates :
          LET y == [x EXCEPT !.pending = p]
          IN /\ y \in CleanerStates /\ y.running = x.running /\ y.pending = p
             /\ y.outstanding = x.outstanding /\ y.triggeredAt = x.triggeredAt
             /\ y.aliveCount = x.aliveCount /\ y.removedCount = x.removedCount
    BY DEF CleanerStates
  <2>4. PICK y \in CleanerStates :
          /\ CompleteStream(y) /\ y.running = cleaner.running /\ y.pending = p
          /\ y.outstanding = cleaner.outstanding /\ y.triggeredAt = cleaner.triggeredAt
          /\ y.aliveCount = cleaner.aliveCount /\ y.removedCount = cleaner.removedCount
    BY <2>2, <2>3
  <2> QED
    BY <1>1, <1>3, <2>1, <2>4
<1>6. CASE CleanerHealthAlive
  <2>1. FoundAlive(h) /\ ~Deleted(h)
    BY <1>6 DEF CleanerHealthAlive, CleanerHandles, Gets, FoundAlive, Deleted
  <2>2. CompleteStream([cleaner EXCEPT !.pending = p, !.aliveCount = a])
    BY <1>3, <1>4, <1>6 DEF CleanerHealthAlive
  <2>3. \A x \in CleanerStates :
          LET z == [x EXCEPT !.pending = p, !.aliveCount = a]
          IN /\ z \in CleanerStates /\ z.running = x.running /\ z.pending = p
             /\ z.outstanding = x.outstanding /\ z.triggeredAt = x.triggeredAt
             /\ z.aliveCount = a /\ z.removedCount = x.removedCount
    BY DEF CleanerStates
  <2>4. PICK z \in CleanerStates :
          /\ CompleteStream(z) /\ z.running = cleaner.running /\ z.pending = p
          /\ z.outstanding = cleaner.outstanding /\ z.triggeredAt = cleaner.triggeredAt
          /\ z.aliveCount = a /\ z.removedCount = cleaner.removedCount
    BY <2>2, <2>3
  <2> QED
    BY <1>1, <1>3, <1>4, <2>1, <2>4
<1>7. CASE CleanerSkips
  <2>1. ~FoundAlive(h) /\ ~Deleted(h)
    BY <1>7 DEF CleanerSkips, CleanerMissing, CleanerHandles, Gets, FoundAlive, Deleted
  <2>2. CompleteStream(cleaner)
    BY <1>7 DEF CleanerSkips
  <2> QED
    BY <1>1, <2>1, <2>2
<1>8. CASE CleanerRemovalCompleted
  <2>1. ~FoundAlive(h) /\ h.type = "StreamRemovalCompleted"
    BY <1>8 DEF CleanerRemovalCompleted, CleanerHandles, Gets, FoundAlive
  <2>2. CASE Deleted(h)
    <3>1. CompleteStream([cleaner EXCEPT !.removedCount = k])
      BY <1>4, <1>8, <2>2 DEF CleanerRemovalCompleted, Deleted
    <3>2. \A x \in CleanerStates :
            LET w == [x EXCEPT !.removedCount = k]
            IN /\ w \in CleanerStates /\ w.running = x.running /\ w.pending = x.pending
               /\ w.outstanding = x.outstanding /\ w.triggeredAt = x.triggeredAt
               /\ w.aliveCount = x.aliveCount /\ w.removedCount = k
      BY DEF CleanerStates
    <3>3. PICK w \in CleanerStates :
            /\ CompleteStream(w) /\ w.running = cleaner.running
            /\ w.pending = cleaner.pending
            /\ w.outstanding = cleaner.outstanding /\ w.triggeredAt = cleaner.triggeredAt
            /\ w.aliveCount = cleaner.aliveCount /\ w.removedCount = k
      BY <3>1, <3>2
    <3> QED
      BY <1>1, <1>4, <2>1, <2>2, <3>3
  <2>3. CASE ~Deleted(h)
    <3>1. CompleteStream(cleaner)
      BY <1>8, <2>1, <2>3 DEF CleanerRemovalCompleted, Deleted
    <3> QED
      BY <1>1, <2>1, <2>3, <3>1
  <2> QED
    BY <2>2, <2>3
<1> QED
  BY <1>5, <1>6, <1>7, <1>8

(* The oldest message of the cleaner.                                      *)
LEMMA CleanerGuarded ==
  ASSUME BooksInv, CleanerStep
  PROVE  /\ box["cleaner"] # <<>>
         /\ Msg("cleaner") \in Message /\ Msg("cleaner").type \in Inbox("cleaner")
<1>1. BoxOK(box) /\ Routed(box) /\ "cleaner" \in Requesters /\ "cleaner" \in Actors
  BY DEF BooksInv, TypeOK, BoxOK, Requesters, Actors
<1>2. box["cleaner"] # <<>>
  BY CleanerSends
<1>3. Msg("cleaner") \in Message
  BY <1>1, <1>2, TakenOK
<1>4. PICK q \in Seq(Message) : q = box["cleaner"]
  BY <1>1 DEF BoxOK
<1>5. 1 \in 1 .. Len(q) /\ Msg("cleaner") = q[1]
  BY <1>2, <1>4 DEF Msg
<1> QED
  BY <1>1, <1>2, <1>3, <1>4, <1>5 DEF Routed

(* Every handler of StreamCleanerActor is one of the eight.                *)
LEMMA CleanerHandlesWork ==
  ASSUME BooksInv, CleanerStep, NEW r \in Requesters, r = "cleaner"
  PROVE  Handled(r, Msg(r), cleaner, WorkInTransit(r), cleaner', WorkInTransit(r)')
<1>1. BoxOK(box) /\ Books(r) /\ cleaner \in CleanerStates
  BY DEF BooksInv, TypeOK, BoxOK
<1>2. r = "cleaner"
  OBVIOUS
<1>3. PICK c, d, h, V, X :
        /\ c = cleaner /\ d = cleaner' /\ h = Msg(r) /\ h = Msg("cleaner")
        /\ V = WorkInTransit(r) /\ X = WorkInTransit(r)'
  BY <1>2
<1>4. /\ h \in Message /\ h.type \in Inbox(r) /\ c \in CleanerStates
      /\ BoxOK(box) /\ Books(r) /\ box[r] # <<>>
  BY <1>1, <1>2, <1>3, CleanerGuarded
<1>5. h \in V <=> OnBehalfOf(h, r) /\ h.type \in WorkTypes
  BY <1>2, <1>3, <1>4, HeadOfWork DEF Carriers
<1>6. ASSUME NEW n \in Message, ~OnBehalfOf(n, r),
             box' = Taken(r) \/ box' = Post(Taken(r), "master", <<n>>),
             sleeping' = sleeping
      PROVE  X = V \ {h}
  <2>1. WorkInTransit(r)' = WorkInTransit(r) \ {Msg(r)}
    BY <1>4, <1>6, LeftWork
  <2> QED
    BY <1>3, <2>1
<1>7. PICK n0 \in Message : ~OnBehalfOf(n0, r)
  <2>1. PICK n \in Message : n = TriggerCleanup
    BY DEF Message
  <2> QED
    BY <2>1, Behalf DEF TriggerCleanup
<1>8. SUFFICES Handled(r, h, c, V, d, X)
  BY <1>2, <1>3
<1>9. CASE CleanerIgnores
  <2>1. X = V \ {h} /\ d = c
    BY <1>2, <1>3, <1>6, <1>7, <1>9 DEF CleanerIgnores
  <2>2. h \in V => ~Current(c, h)
    <3>1. ~CleanerAccepts(h)
      BY <1>3, <1>9 DEF CleanerIgnores
    <3> QED
      BY <1>2, <1>3, <1>4, <1>5, <3>1, CleanerGuards, Behalf DEF Inbox, WorkTypes, Current
  <2> QED
    BY <2>1, <2>2 DEF Ignored, Handled
<1>10. CASE CleanerBegins
  <2>1. /\ h.type = "CleanupCycleStarted" /\ ~c.running /\ OnBehalfOf(h, r)
    BY <1>2, <1>3, <1>10, CleanerGuards, Behalf DEF CleanerBegins, CleanerHandles, Gets
  <2>2. /\ d.running /\ d.outstanding = 0 /\ d.triggeredAt = h.triggeredAt
        /\ d.pending = {} /\ d.aliveCount = 0 /\ d.removedCount = 0
    BY <1>3, <1>10 DEF CleanerBegins
  <2>3. /\ box' = Post(Taken(r), "go2rtc", <<FetchStreamList(h.triggeredAt, r)>>)
        /\ sleeping' = sleeping
    BY <1>2, <1>3, <1>10 DEF CleanerBegins
  <2>4. /\ X = V \cup {FetchStreamList(h.triggeredAt, r)}
        /\ \A m \in V : m.triggeredAt # h.triggeredAt
    BY <1>2, <1>3, <1>4, <2>1, <2>3, BegunWork
  <2>5. FetchStreamList(h.triggeredAt, r).type = "FetchStreamList"
    BY DEF FetchStreamList
  <2> QED
    BY <2>1, <2>2, <2>4, <2>5 DEF Begun, Handled
<1>11. CASE CleanerListFailed \/ CleanerListEmpty
  <2>1. h.type = "StreamListFetched" /\ Current(c, h) /\ OnBehalfOf(h, r)
    BY <1>2, <1>3, <1>11, CleanerGuards, Behalf
    DEF CleanerListFailed, CleanerListEmpty, CleanerHandles, Gets, Current
  <2>2. d = [c EXCEPT !.running = FALSE, !.outstanding = 0]
    BY <1>3, <1>11 DEF CleanerListFailed, CleanerListEmpty
  <2>3. PICK n \in Message : n = CleanupCycleFinished(0, 0)
    BY ReportsAreMessages
  <2>4. ~OnBehalfOf(n, r)
    BY <2>3, Behalf DEF CleanupCycleFinished
  <2>5. X = V \ {h}
    <3>1. /\ box' = Taken(r) \/ box' = Post(Taken(r), "master", <<n>>)
          /\ sleeping' = sleeping
      BY <1>2, <1>11, <2>3 DEF CleanerListFailed, CleanerListEmpty
    <3> QED
      BY <1>6, <2>4, <3>1
  <2>6. h \in V
    BY <1>5, <2>1 DEF WorkTypes
  <2>7. /\ ~d.running /\ d.outstanding = 0 /\ d.triggeredAt = c.triggeredAt
        /\ d.pending \subseteq c.pending /\ d.aliveCount = c.aliveCount
        /\ d.removedCount = c.removedCount
    BY <1>4, <2>2 DEF CleanerStates
  <2> QED
    BY <2>1, <2>5, <2>6, <2>7 DEF NoList, Handled
<1>12. CASE CleanerListReceived
  <2>1. h.type = "StreamListFetched" /\ Current(c, h) /\ OnBehalfOf(h, r)
        /\ h.streams # <<>>
    BY <1>2, <1>3, <1>12, CleanerGuards, Behalf
    DEF CleanerListReceived, CleanerHandles, Gets, Current
  <2>2. d = [c EXCEPT !.outstanding = Len(h.streams)]
    BY <1>3, <1>12 DEF CleanerListReceived
  <2>3. box' = Post(Taken(r), "go2rtc", FirstChecks(h)) /\ sleeping' = sleeping
    BY <1>2, <1>3, <1>12 DEF CleanerListReceived
  <2>4. X = (V \ {h}) \cup ChecksOf(h, r)
    BY <1>2, <1>3, <1>4, <2>1, <2>3, ListedWork
  <2>5. h \in V
    BY <1>5, <2>1 DEF WorkTypes
  <2>6. h.streams \in StreamLists /\ Len(h.streams) \in Nat \ {0}
    BY <1>4, <2>1, ListsAreKnown
  <2> QED
    BY <2>1, <2>2, <2>4, <2>5, <2>6 DEF ListArrived, Handled
<1>13. CASE CleanerHealthFailed \/ CleanerHealthAlive \/ CleanerSkips \/ CleanerRemovalCompleted
  <2>1. /\ h.type \in {"StreamHealthChecked", "StreamRemovalCompleted"}
        /\ CleanerAccepts(h) /\ sleeping' = sleeping
    BY <1>3, <1>4, <1>13, CleanerSettles
  <2>2. PICK x \in CleanerStates :
              /\ CompleteStream(x)
              /\ x.running = c.running /\ x.outstanding = c.outstanding
              /\ x.triggeredAt = c.triggeredAt /\ x.pending \subseteq c.pending
              /\ x.aliveCount =
                   IF FoundAlive(h) THEN c.aliveCount + 1 ELSE c.aliveCount
              /\ x.removedCount =
                   IF Deleted(h) THEN c.removedCount + 1 ELSE c.removedCount
    BY <1>3, <1>4, <1>13, CleanerSettles
  <2>3. Current(c, h) /\ OnBehalfOf(h, r) /\ x.running
    BY <1>2, <1>3, <2>1, <2>2, CleanerGuards, Behalf DEF Current
  <2>4. h \in V
    BY <1>5, <2>1, <2>3 DEF WorkTypes
  <2>5. /\ d.pending = x.pending /\ d.aliveCount = x.aliveCount
        /\ d.removedCount = x.removedCount /\ d.triggeredAt = x.triggeredAt
        /\ d.outstanding = IF x.outstanding > 0 THEN x.outstanding - 1 ELSE 0
        /\ d.running <=> d.outstanding # 0
        /\ \/ box' = Taken("cleaner")
           \/ box' = Post(Taken("cleaner"), "master",
                          <<CleanupCycleFinished(x.aliveCount, x.removedCount)>>)
    BY <1>3, <2>2, <2>3, CompleteStreamLeaves
  <2>6. X = V \ {h}
    <3>1. PICK n \in Message : n = CleanupCycleFinished(x.aliveCount, x.removedCount)
      BY <2>2, ReportsAreMessages DEF CleanerStates
    <3>2. ~OnBehalfOf(n, r)
      BY <3>1, Behalf DEF CleanupCycleFinished
    <3>3. box' = Taken(r) \/ box' = Post(Taken(r), "master", <<n>>)
      BY <1>2, <2>5, <3>1
    <3> QED
      BY <1>6, <2>1, <3>2, <3>3
  <2>7. /\ d.triggeredAt = c.triggeredAt /\ d.pending \subseteq c.pending
        /\ d.outstanding = IF c.outstanding > 0 THEN c.outstanding - 1 ELSE 0
        /\ d.aliveCount = IF FoundAlive(h) THEN c.aliveCount + 1 ELSE c.aliveCount
        /\ d.removedCount = IF Deleted(h) THEN c.removedCount + 1 ELSE c.removedCount
    BY <2>2, <2>5
  <2>8. Closed(r, h, c, V, d, X)
    BY <1>2, <2>1, <2>3, <2>4, <2>5, <2>6, <2>7 DEF Closed
  <2> QED
    BY <2>8 DEF Handled
<1>14. CASE CleanerSuspects
  <2>1. /\ FoundNothing(h) /\ h.attempt = 1 /\ Current(c, h) /\ OnBehalfOf(h, r)
        /\ h.type = "StreamHealthChecked"
    BY <1>2, <1>3, <1>14, CleanerGuards, Behalf
    DEF CleanerSuspects, CleanerMissing, CleanerHandles, Gets, FoundNothing, Current
  <2>2. d = [c EXCEPT !.pending = @ \union {h.stream}]
    BY <1>3, <1>14 DEF CleanerSuspects
  <2>3. box' = Taken(r) /\ sleeping' = sleeping \union {SecondCheck(h)}
    BY <1>2, <1>3, <1>14 DEF CleanerSuspects
  <2>4. X = (V \ {h}) \cup {SecondCheck(h)}
    BY <1>2, <1>3, <1>4, <2>1, <2>3, SuspectedWork
  <2>5. h \in V
    BY <1>5, <2>1 DEF WorkTypes
  <2> QED
    BY <2>1, <2>2, <2>4, <2>5 DEF Suspected, Handled
<1>15. CASE CleanerRemoves
  <2>1. /\ FoundNothing(h) /\ h.attempt = 2 /\ Current(c, h) /\ OnBehalfOf(h, r)
        /\ h.type = "StreamHealthChecked" /\ h.stream \in c.pending
    BY <1>2, <1>3, <1>15, CleanerGuards, Behalf
    DEF CleanerRemoves, CleanerMissing, CleanerHandles, Gets, FoundNothing, Current
  <2>2. d = [c EXCEPT !.pending = @ \ {h.stream}]
    BY <1>3, <1>15 DEF CleanerRemoves
  <2>3. PICK n \in Message : n = RemoveStream(h)
    BY <1>4, <2>1, RemovalsAreMessages
  <2>4. SameKind(h, n) /\ OnBehalfOf(n, r) /\ n.type \in WorkTypes
    BY <1>2, <2>1, <2>3 DEF RemoveStream, SameKind, Asks, Single, WorkTypes, OnBehalfOf
  <2>5. X = (V \ {h}) \cup {RemoveStream(h)}
    <3>1. /\ box' = Post(Taken(r), "go2rtc", <<n>>) /\ sleeping' = sleeping
          /\ Heir(Msg(r), n) /\ OnBehalfOf(Msg(r), r)
      BY <1>2, <1>3, <1>15, <2>1, <2>3, <2>4, SameKindHeir DEF CleanerRemoves
    <3>2. r \in Carriers(r) /\ "go2rtc" \in Carriers(r)
      BY DEF Carriers
    <3>3. WorkInTransit(r)' = (WorkInTransit(r) \ {Msg(r)}) \cup {n}
      BY <1>4, <2>4, <3>1, <3>2, ReplacedWork
    <3> QED
      BY <1>2, <1>3, <2>3, <3>3
  <2>6. h \in V
    BY <1>5, <2>1 DEF WorkTypes
  <2> QED
    BY <1>2, <2>1, <2>2, <2>5, <2>6 DEF Condemned, Handled
<1> QED
  BY <1>9, <1>10, <1>11, <1>12, <1>13, <1>14, <1>15 DEF CleanerStep, CleanerNext
-----------------------------------------------------------------------------
(* What the one requester sends is not work of the other one.              *)
LEMMA SendsWork ==
  ASSUME NEW r \in Requesters, BoxOK(box), Books(r),
         NEW self \in Requesters, self # r, box[self] # <<>>, Sends(self)
  PROVE  WorkInTransit(r)' = WorkInTransit(r)
<1>1. self \in Actors /\ self \notin Carriers(r) /\ {"master", "go2rtc"} \subseteq Actors
  BY DEF Actors, Requesters, Carriers
<1>2. CASE box' = Taken(self) /\ sleeping' = sleeping
  <2>1. << >> \in Seq(Message) /\ \A i \in 1 .. Len(<< >>) : ~OnBehalfOf(<< >>[i], r)
    OBVIOUS
  <2> QED
    BY <1>1, <1>2, <2>1, ForeignWork
<1>3. ASSUME NEW n \in Message,
             n.type \in {"CleanupCycleFinished", "AliveStreamCountCalculated"},
             box' = Post(Taken(self), "master", <<n>>), sleeping' = sleeping
      PROVE  WorkInTransit(r)' = WorkInTransit(r)
  <2>1. ~OnBehalfOf(n, r)
    BY <1>3, Behalf
  <2> QED
    BY <1>1, <1>3, <2>1, ForeignMessageWork
<1>4. ASSUME NEW q \in Seq(Message), \A i \in 1 .. Len(q) : OnBehalfOf(q[i], self),
             box' = Post(Taken(self), "go2rtc", q), sleeping' = sleeping
      PROVE  WorkInTransit(r)' = WorkInTransit(r)
  <2>1. \A i \in 1 .. Len(q) : ~OnBehalfOf(q[i], r)
    BY <1>4, OneRequester
  <2> QED
    BY <1>1, <1>4, <2>1, ForeignWork
<1>5. ASSUME NEW n, OnBehalfOf(n, self), box' = Taken(self),
             sleeping' = sleeping \union {n}
      PROVE  WorkInTransit(r)' = WorkInTransit(r)
  <2>1. ~OnBehalfOf(n, r)
    BY <1>5, OneRequester
  <2>2. PICK b, z, s : b = Taken(self) /\ z = sleeping /\ s = z \union {n}
    OBVIOUS
  <2>3. Carried(b, z, r) = Carried(box, sleeping, r)
    BY <1>1, <2>2, DropForeign DEF Books
  <2>4. Carried(b, s, r) = Carried(b, z, r)
    <3>1. \A m : m \in Carried(b, s, r) <=> m \in Carried(b, z, r)
      BY <2>1, <2>2, CarriedIs
    <3> QED
      BY <3>1 DEF Carried
  <2>5. WorkInTransit(r)' = Work(Carried(b, s, r))
    BY <1>5, <2>2, WorkNext
  <2> QED
    BY <2>3, <2>4, <2>5 DEF WorkInTransit
<1> QED
  BY <1>2, <1>3, <1>4, <1>5 DEF Sends

(* ... and nobody is served while a requester handles a message.           *)
LEMMA SendsUnserved ==
  ASSUME BoxOK(box), NEW self \in Requesters, box[self] # <<>>, Sends(self)
  PROVE  Unserved
<1>1. /\ self \in Actors /\ self # "go2rtc" /\ {"master", "go2rtc"} \subseteq Actors
      /\ << >> \in Seq(Message)
  BY DEF Actors, Requesters
<1>2. CASE box' = Taken(self)
  BY <1>1, <1>2, HandlerUnserved
<1>3. ASSUME NEW n \in Message, box' = Post(Taken(self), "master", <<n>>)
      PROVE  Unserved
  <2>1. PICK q \in Seq(Message) : q = <<n>>
    BY OneMessage
  <2>2. box' = Post(Taken(self), "master", q)
    BY <1>3, <2>1
  <2> QED
    BY <1>1, <2>2, HandlerUnserved
<1>4. ASSUME NEW q \in Seq(Message), box' = Post(Taken(self), "go2rtc", q)
      PROVE  Unserved
  BY <1>1, <1>4, HandlerUnserved
<1> QED
  BY <1>2, <1>3, <1>4 DEF Sends

-----------------------------------------------------------------------------
(* What finish and finishWithError leave, and the report they send.        *)
LEMMA FinishLeaves ==
  ASSUME NEW c \in CounterStates, FinishCount(c)
  PROVE  /\ ~count'.running /\ count'.outstanding = c.outstanding
         /\ count'.pending = c.pending /\ count'.aliveCount = c.aliveCount
         /\ count'.triggeredAt = c.triggeredAt
         /\ box' = Post(Taken("count"), "master",
                        <<AliveStreamCountCalculated(c.aliveCount, FALSE)>>)
BY DEF FinishCount, CounterStates

LEMMA FinishWithErrorLeaves ==
  ASSUME count \in CounterStates, FinishCountWithError
  PROVE  /\ ~count'.running /\ count'.outstanding = 0
         /\ count'.pending = {} /\ count'.aliveCount = count.aliveCount
         /\ count'.triggeredAt = count.triggeredAt
         /\ box' = Post(Taken("count"), "master", <<AliveStreamCountCalculated(0, TRUE)>>)
BY DEF FinishCountWithError, CounterStates

(* What markStreamCompleted leaves.                                        *)
LEMMA CompleteCheckLeaves ==
  ASSUME NEW c \in CounterStates, c.running, CompleteCheck(c)
  PROVE  /\ count'.pending = c.pending /\ count'.aliveCount = c.aliveCount
         /\ count'.triggeredAt = c.triggeredAt
         /\ count'.outstanding = IF c.outstanding > 0 THEN c.outstanding - 1 ELSE 0
         /\ count'.running <=> count'.outstanding # 0
         /\ count'.running => box' = Taken("count")
         /\ ~count'.running =>
              box' = Post(Taken("count"), "master",
                          <<AliveStreamCountCalculated(c.aliveCount, FALSE)>>)
<1>1. PICK left \in Nat : left = IF c.outstanding > 0 THEN c.outstanding - 1 ELSE 0
  BY DEF CounterStates
<1>2. PICK x \in CounterStates :
        /\ x = [c EXCEPT !.outstanding = left]
        /\ x.outstanding = left /\ x.running = c.running /\ x.triggeredAt = c.triggeredAt
        /\ x.pending = c.pending /\ x.aliveCount = c.aliveCount
  <2>1. \A y \in CounterStates : \A l \in Nat :
          /\ [y EXCEPT !.outstanding = l] \in CounterStates
          /\ [y EXCEPT !.outstanding = l].outstanding = l
          /\ [y EXCEPT !.outstanding = l].running = y.running
          /\ [y EXCEPT !.outstanding = l].triggeredAt = y.triggeredAt
          /\ [y EXCEPT !.outstanding = l].pending = y.pending
          /\ [y EXCEPT !.outstanding = l].aliveCount = y.aliveCount
    BY DEF CounterStates
  <2> QED
    BY <2>1
<1>3. CASE left = 0
  <2>1. FinishCount(x)
    BY <1>1, <1>2, <1>3 DEF CompleteCheck
  <2> QED
    BY <1>1, <1>2, <1>3, <2>1, FinishLeaves
<1>4. CASE left # 0
  <2>1. count' = x /\ box' = Taken("count")
    BY <1>1, <1>2, <1>4 DEF CompleteCheck
  <2> QED
    BY <1>1, <1>2, <1>4, <2>1
<1> QED
  BY <1>3, <1>4

(* The two handlers of the count actor that settle an entry.               *)
LEMMA CountSettles ==
  ASSUME count \in CounterStates, CountHealthAlive \/ CountConfirmsDead
  PROVE  LET h == Msg("count") IN
         /\ h.type = "StreamHealthChecked" /\ ~h.error
         /\ CountAccepts(h) /\ UNCHANGED <<sleeping, status>>
         /\ \E x \in CounterStates :
              /\ CompleteCheck(x)
              /\ x.running = count.running /\ x.outstanding = count.outstanding
              /\ x.triggeredAt = count.triggeredAt /\ x.pending \subseteq count.pending
              /\ x.aliveCount =
                   IF FoundAlive(h) THEN count.aliveCount + 1 ELSE count.aliveCount
<1> DEFINE h == Msg("count")
<1>1. /\ h.type = "StreamHealthChecked" /\ ~h.error
      /\ CountAccepts(h) /\ UNCHANGED <<sleeping, status>>
  BY DEF CountHealthAlive, CountConfirmsDead, CountMissing, CountHandles, Gets
<1>2. count.pending \ {h.stream} \in SUBSET Streams /\ count.aliveCount + 1 \in Nat
  BY DEF CounterStates
<1>3. PICK p \in SUBSET Streams : p = count.pending \ {h.stream}
  BY <1>2
<1>4. PICK a \in Nat : a = count.aliveCount + 1
  BY <1>2
<1>5. CASE CountHealthAlive
  <2>1. FoundAlive(h)
    BY <1>1, <1>5 DEF CountHealthAlive, FoundAlive
  <2>2. CompleteCheck([count EXCEPT !.pending = p, !.aliveCount = a])
    BY <1>3, <1>4, <1>5 DEF CountHealthAlive
  <2>3. \A x \in CounterStates :
          LET z == [x EXCEPT !.pending = p, !.aliveCount = a]
          IN /\ z \in CounterStates /\ z.running = x.running /\ z.pending = p
             /\ z.outstanding = x.outstanding /\ z.triggeredAt = x.triggeredAt
             /\ z.aliveCount = a
    BY DEF CounterStates
  <2>4. PICK z \in CounterStates :
          /\ CompleteCheck(z) /\ z.running = count.running /\ z.pending = p
          /\ z.outstanding = count.outstanding /\ z.triggeredAt = count.triggeredAt
          /\ z.aliveCount = a
    BY <2>2, <2>3
  <2> QED
    BY <1>1, <1>3, <1>4, <2>1, <2>4
<1>6. CASE CountConfirmsDead
  <2>1. ~FoundAlive(h)
    BY <1>6 DEF CountConfirmsDead, CountMissing, FoundAlive
  <2>2. CompleteCheck([count EXCEPT !.pending = p])
    BY <1>3, <1>6 DEF CountConfirmsDead
  <2>3. \A x \in CounterStates :
          LET y == [x EXCEPT !.pending = p]
          IN /\ y \in CounterStates /\ y.running = x.running /\ y.pending = p
             /\ y.outstanding = x.outstanding /\ y.triggeredAt = x.triggeredAt
             /\ y.aliveCount = x.aliveCount
    BY DEF CounterStates
  <2>4. PICK y \in CounterStates :
          /\ CompleteCheck(y) /\ y.running = count.running /\ y.pending = p
          /\ y.outstanding = count.outstanding /\ y.triggeredAt = count.triggeredAt
          /\ y.aliveCount = count.aliveCount
    BY <2>2, <2>3
  <2> QED
    BY <1>1, <1>3, <2>1, <2>4
<1> QED
  BY <1>5, <1>6

(* Every handler of StreamCountActor is one of the eight.                  *)
LEMMA CountHandlesWork ==
  ASSUME BooksInv, CountStep, NEW r \in Requesters, r = "count"
  PROVE  Handled(r, Msg(r), count, WorkInTransit(r), count', WorkInTransit(r)')
<1>1. BoxOK(box) /\ Books(r) /\ count \in CounterStates
  BY DEF BooksInv, TypeOK, BoxOK
<1>2. r = "count"
  OBVIOUS
<1>3. PICK c, d, h, V, X :
        /\ c = count /\ d = count' /\ h = Msg(r) /\ h = Msg("count")
        /\ V = WorkInTransit(r) /\ X = WorkInTransit(r)'
  BY <1>2
<1>4. /\ h \in Message /\ h.type \in Inbox(r) /\ c \in CounterStates
      /\ BoxOK(box) /\ Books(r) /\ box[r] # <<>>
  BY <1>1, <1>2, <1>3, CountGuarded
<1>5. h \in V <=> OnBehalfOf(h, r) /\ h.type \in WorkTypes
  BY <1>2, <1>3, <1>4, HeadOfWork DEF Carriers
<1>6. ASSUME NEW n \in Message, ~OnBehalfOf(n, r),
             box' = Taken(r) \/ box' = Post(Taken(r), "master", <<n>>),
             sleeping' = sleeping
      PROVE  X = V \ {h}
  <2>1. WorkInTransit(r)' = WorkInTransit(r) \ {Msg(r)}
    BY <1>4, <1>6, LeftWork
  <2> QED
    BY <1>3, <2>1
<1>7. PICK n0 \in Message : ~OnBehalfOf(n0, r)
  <2>1. PICK n \in Message : n = TriggerCleanup
    BY DEF Message
  <2> QED
    BY <2>1, Behalf DEF TriggerCleanup
<1>8. SUFFICES Handled(r, h, c, V, d, X)
  BY <1>2, <1>3
<1>9. CASE CountIgnores
  <2>1. X = V \ {h} /\ d = c
    BY <1>2, <1>3, <1>6, <1>7, <1>9 DEF CountIgnores
  <2>2. h \in V => ~Current(c, h)
    <3>1. ~CountAccepts(h)
      BY <1>3, <1>9 DEF CountIgnores
    <3> QED
      BY <1>2, <1>3, <1>4, <1>5, <3>1, CountGuards, Behalf DEF Inbox, WorkTypes, Current
  <2> QED
    BY <2>1, <2>2 DEF Ignored, Handled
<1>10. CASE CountBegins
  <2>1. /\ h.type = "CountAliveStreamsStarted" /\ ~c.running /\ OnBehalfOf(h, r)
    BY <1>2, <1>3, <1>10, CountGuards, Behalf DEF CountBegins, CountHandles, Gets
  <2>2. /\ d.running /\ d.outstanding = 0 /\ d.triggeredAt = h.triggeredAt
        /\ d.pending = {} /\ d.aliveCount = 0
    BY <1>3, <1>10 DEF CountBegins
  <2>3. /\ box' = Post(Taken(r), "go2rtc", <<FetchStreamList(h.triggeredAt, r)>>)
        /\ sleeping' = sleeping
    BY <1>2, <1>3, <1>10 DEF CountBegins
  <2>4. /\ X = V \cup {FetchStreamList(h.triggeredAt, r)}
        /\ \A m \in V : m.triggeredAt # h.triggeredAt
    BY <1>2, <1>3, <1>4, <2>1, <2>3, BegunWork
  <2>5. FetchStreamList(h.triggeredAt, r).type = "FetchStreamList"
    BY DEF FetchStreamList
  <2> QED
    BY <1>2, <2>1, <2>2, <2>4, <2>5 DEF Begun, Handled
<1>11. CASE CountListFailed \/ CountListEmpty
  <2>1. h.type = "StreamListFetched" /\ Current(c, h) /\ OnBehalfOf(h, r)
    BY <1>2, <1>3, <1>11, CountGuards, Behalf
    DEF CountListFailed, CountListEmpty, CountHandles, Gets, Current
  <2>2. /\ ~d.running /\ d.outstanding \in {0, c.outstanding}
        /\ d.triggeredAt = c.triggeredAt
        /\ d.pending \subseteq c.pending /\ d.aliveCount = c.aliveCount
        /\ \E a \in Nat, e \in BOOLEAN :
             box' = Post(Taken(r), "master", <<AliveStreamCountCalculated(a, e)>>)
    <3>1. CASE CountListFailed
      <4>1. FinishCountWithError
        BY <3>1 DEF CountListFailed
      <4> QED
        BY <1>2, <1>3, <1>4, <4>1, FinishWithErrorLeaves
    <3>2. CASE CountListEmpty
      <4>1. FinishCount(count) /\ count.aliveCount \in Nat
        BY <1>1, <3>2 DEF CountListEmpty, CounterStates
      <4> QED
        BY <1>1, <1>2, <1>3, <1>4, <4>1, FinishLeaves
    <3> QED
      BY <1>11, <3>1, <3>2
  <2>3. PICK n \in Message : /\ n.type = "AliveStreamCountCalculated"
                             /\ box' = Post(Taken(r), "master", <<n>>)
    <3>1. PICK a \in Nat, e \in BOOLEAN :
             box' = Post(Taken(r), "master", <<AliveStreamCountCalculated(a, e)>>)
      BY <2>2
    <3>2. PICK n \in Message : n = AliveStreamCountCalculated(a, e)
      BY ReportsAreMessages
    <3>3. n.type = "AliveStreamCountCalculated"
      BY <3>2 DEF AliveStreamCountCalculated
    <3> QED
      BY <3>1, <3>2, <3>3
  <2>4. ~OnBehalfOf(n, r) /\ sleeping' = sleeping
    BY <1>11, <2>3, Behalf DEF CountListFailed, CountListEmpty
  <2>5. X = V \ {h}
    BY <1>6, <2>3, <2>4
  <2>6. h \in V
    BY <1>5, <2>1 DEF WorkTypes
  <2>7. c.outstanding = 0
    <3>1. c = Actor(r) /\ Asks(h)
      BY <1>2, <1>3, <2>1 DEF Actor, Asks
    <3> QED
      BY <1>3, <1>4, <2>1, <2>6, <3>1, OneList
  <2> QED
    BY <1>2, <2>1, <2>2, <2>5, <2>6, <2>7 DEF NoList, Handled
<1>12. CASE CountListReceived
  <2>1. h.type = "StreamListFetched" /\ Current(c, h) /\ OnBehalfOf(h, r)
        /\ h.streams # <<>>
    BY <1>2, <1>3, <1>12, CountGuards, Behalf
    DEF CountListReceived, CountHandles, Gets, Current
  <2>2. d = [c EXCEPT !.outstanding = Len(h.streams)]
    BY <1>3, <1>12 DEF CountListReceived
  <2>3. box' = Post(Taken(r), "go2rtc", FirstChecks(h)) /\ sleeping' = sleeping
    BY <1>2, <1>3, <1>12 DEF CountListReceived
  <2>4. X = (V \ {h}) \cup ChecksOf(h, r)
    BY <1>2, <1>3, <1>4, <2>1, <2>3, ListedWork
  <2>5. h \in V
    BY <1>5, <2>1 DEF WorkTypes
  <2>6. h.streams \in StreamLists /\ Len(h.streams) \in Nat \ {0}
    BY <1>4, <2>1, ListsAreKnown
  <2> QED
    BY <2>1, <2>2, <2>4, <2>5, <2>6 DEF ListArrived, Handled
<1>13. CASE CountHealthFailed
  <2>1. /\ h.type = "StreamHealthChecked" /\ h.error /\ CountAccepts(h)
        /\ FinishCountWithError /\ sleeping' = sleeping
    BY <1>3, <1>13 DEF CountHealthFailed, CountHandles, Gets
  <2>2. Current(c, h) /\ OnBehalfOf(h, r)
    BY <1>2, <1>3, <2>1, CountGuards, Behalf DEF Current
  <2>3. /\ ~d.running /\ d.aliveCount = c.aliveCount
        /\ box' = Post(Taken(r), "master", <<AliveStreamCountCalculated(0, TRUE)>>)
    BY <1>1, <1>2, <1>3, <2>1, FinishWithErrorLeaves
  <2>4. PICK n \in Message : n = AliveStreamCountCalculated(0, TRUE)
    BY ReportsAreMessages
  <2>5. ~OnBehalfOf(n, r)
    BY <2>4, Behalf DEF AliveStreamCountCalculated
  <2>6. X = V \ {h}
    BY <1>6, <2>1, <2>3, <2>4, <2>5
  <2>7. h \in V
    BY <1>5, <2>1, <2>2 DEF WorkTypes
  <2> QED
    BY <1>2, <2>1, <2>2, <2>3, <2>6, <2>7 DEF Aborted, Handled
<1>14. CASE CountHealthAlive \/ CountConfirmsDead
  <2>1. /\ h.type = "StreamHealthChecked" /\ ~h.error
        /\ CountAccepts(h) /\ sleeping' = sleeping
    BY <1>3, <1>4, <1>14, CountSettles
  <2>2. PICK x \in CounterStates :
              /\ CompleteCheck(x)
              /\ x.running = c.running /\ x.outstanding = c.outstanding
              /\ x.triggeredAt = c.triggeredAt /\ x.pending \subseteq c.pending
              /\ x.aliveCount =
                   IF FoundAlive(h) THEN c.aliveCount + 1 ELSE c.aliveCount
    BY <1>3, <1>4, <1>14, CountSettles
  <2>3. Current(c, h) /\ OnBehalfOf(h, r) /\ x.running
    BY <1>2, <1>3, <2>1, <2>2, CountGuards, Behalf DEF Current
  <2>4. h \in V
    BY <1>5, <2>1, <2>3 DEF WorkTypes
  <2>5. /\ d.pending = x.pending /\ d.aliveCount = x.aliveCount
        /\ d.triggeredAt = x.triggeredAt
        /\ d.outstanding = IF x.outstanding > 0 THEN x.outstanding - 1 ELSE 0
        /\ d.running <=> d.outstanding # 0
        /\ \/ box' = Taken("count")
           \/ box' = Post(Taken("count"), "master",
                          <<AliveStreamCountCalculated(x.aliveCount, FALSE)>>)
    BY <1>3, <2>2, <2>3, CompleteCheckLeaves
  <2>6. X = V \ {h}
    <3>1. PICK e \in BOOLEAN : e = FALSE
      OBVIOUS
    <3>2. PICK n \in Message : n = AliveStreamCountCalculated(x.aliveCount, e)
      BY <2>2, ReportsAreMessages DEF CounterStates
    <3>3. ~OnBehalfOf(n, r)
      BY <3>2, Behalf DEF AliveStreamCountCalculated
    <3>4. box' = Taken(r) \/ box' = Post(Taken(r), "master", <<n>>)
      BY <1>2, <2>5, <3>1, <3>2
    <3> QED
      BY <1>6, <2>1, <3>3, <3>4
  <2>7. /\ d.triggeredAt = c.triggeredAt /\ d.pending \subseteq c.pending
        /\ d.outstanding = IF c.outstanding > 0 THEN c.outstanding - 1 ELSE 0
        /\ d.aliveCount = IF FoundAlive(h) THEN c.aliveCount + 1 ELSE c.aliveCount
    BY <2>2, <2>5
  <2>8. Closed(r, h, c, V, d, X)
    BY <1>2, <2>1, <2>3, <2>4, <2>5, <2>6, <2>7 DEF Closed
  <2> QED
    BY <2>8 DEF Handled
<1>15. CASE CountSuspects
  <2>1. /\ FoundNothing(h) /\ h.attempt = 1 /\ Current(c, h) /\ OnBehalfOf(h, r)
        /\ h.type = "StreamHealthChecked"
    BY <1>2, <1>3, <1>15, CountGuards, Behalf
    DEF CountSuspects, CountMissing, CountHandles, Gets, FoundNothing, Current
  <2>2. d = [c EXCEPT !.pending = @ \union {h.stream}]
    BY <1>3, <1>15 DEF CountSuspects
  <2>3. box' = Taken(r) /\ sleeping' = sleeping \union {SecondCheck(h)}
    BY <1>2, <1>3, <1>15 DEF CountSuspects
  <2>4. X = (V \ {h}) \cup {SecondCheck(h)}
    BY <1>2, <1>3, <1>4, <2>1, <2>3, SuspectedWork
  <2>5. h \in V
    BY <1>5, <2>1 DEF WorkTypes
  <2> QED
    BY <2>1, <2>2, <2>4, <2>5 DEF Suspected, Handled
<1> QED
  BY <1>9, <1>10, <1>11, <1>12, <1>13, <1>14, <1>15 DEF CountStep, CountNext
-----------------------------------------------------------------------------
(* The books, for the work in transit alone.                               *)
LEMMA SoundBooks ==
  ASSUME BooksInv, NEW r \in Requesters
  PROVE  Sound(r, Actor(r), WorkInTransit(r))
<1>1. PICK S, V, c : /\ S = Carried(box, sleeping, r) /\ V = WorkInTransit(r)
                     /\ c = Actor(r)
  OBVIOUS
<1>2. BoxOK(box) /\ Books(r) /\ sleeping \subseteq Checks
  BY DEF BooksInv, TypeOK, BoxOK
<1>3. V = Work(S) /\ Distinct(S) /\ Tally(c, S)
  BY <1>1, <1>2, BooksDistinct DEF WorkInTransit, Books, Kept
<1>4. \A m \in S : m \in Message /\ OnBehalfOf(m, r)
  <2>1. Checks \subseteq Message
    BY DEF Message
  <2>2. \A a \in Carriers(r) : \A i \in 1 .. Len(box[a]) : box[a][i] \in Message
    <3>1. ASSUME NEW a \in Carriers(r), NEW i \in 1 .. Len(box[a])
          PROVE  box[a][i] \in Message
      <4>1. a \in Actors
        BY DEF Carriers, Actors, Requesters
      <4>2. PICK q \in Seq(Message) : q = box[a]
        BY <1>2, <4>1 DEF BoxOK
      <4> QED
        BY <4>2
    <3> QED
      BY <3>1
  <2> QED
    BY <1>1, <1>2, <2>1, <2>2, CarriedIs
<1>5. c \in StatesOf(r)
  BY <1>1 DEF BooksInv, TypeOK, StatesOf, Actor, Requesters
<1>6. \A m, n \in RunOf(c, V) : m.entry = n.entry => m = n
  BY <1>3 DEF RunOf, Work, Distinct, Clash
<1>7. RunOf(c, V) = {m \in WorkIn(S, c.triggeredAt) : ~Asks(m)}
  BY <1>3 DEF RunOf, Work, WorkIn
<1>8. ASSUME c.running
      PROVE  \/ c.outstanding = 0 /\ RunOf(c, V) = {}
             \/ /\ c.outstanding > 0
                /\ IsFiniteSet(RunOf(c, V)) /\ Cardinality(RunOf(c, V)) = c.outstanding
                /\ \A m \in V : Asks(m) => m.triggeredAt # c.triggeredAt
  <2>1. CASE /\ c.outstanding = 0
             /\ \E m \in S : Asks(m) /\ WorkIn(S, c.triggeredAt) = {m}
    BY <1>7, <2>1
  <2>2. CASE LET W == WorkIn(S, c.triggeredAt) IN
             /\ c.outstanding > 0 /\ IsFiniteSet(W) /\ Cardinality(W) = c.outstanding
             /\ \A m \in W : ~Asks(m)
    <3>1. RunOf(c, V) = WorkIn(S, c.triggeredAt)
      BY <1>7, <2>2
    <3>2. \A m \in V : m.triggeredAt = c.triggeredAt => m \in WorkIn(S, c.triggeredAt)
      BY <1>3 DEF Work, WorkIn
    <3> QED
      BY <2>2, <3>1, <3>2
  <2> QED
    BY <1>3, <1>8, <2>1, <2>2 DEF Tally
<1>9. \A m \in V : m \in Message /\ m.type \in WorkTypes /\ OnBehalfOf(m, r)
  BY <1>3, <1>4 DEF Work
<1> QED
  BY <1>1, <1>5, <1>6, <1>8, <1>9 DEF Sound, Runs, OneEach

-----------------------------------------------------------------------------
(* The stages of the open entries.                                         *)
LEMMA OpenedAt ==
  ASSUME NEW R, OneEach(R)
  PROVE  /\ DOMAIN Opened(R) = Entries(R)
         /\ \A m \in R : m.entry \in Entries(R) /\ Opened(R)[m.entry] = Stage(m)
<1>1. ASSUME NEW m \in R
      PROVE  m.entry \in Entries(R) /\ Opened(R)[m.entry] = Stage(m)
  <2>1. m.entry \in Entries(R)
    BY DEF Entries
  <2>2. (CHOOSE w \in R : w.entry = m.entry) = m
    BY DEF OneEach
  <2> QED
    BY <2>1, <2>2 DEF Opened
<1> QED
  BY <1>1 DEF Opened

LEMMA NothingOpened == Opened({}) = [e \in {} |-> "first"]
<1>1. Entries({}) = {}
  BY DEF Entries
<1> QED
  BY <1>1 DEF Opened

(* An entry is closed.                                                     *)
LEMMA OpenedWithout ==
  ASSUME NEW R, OneEach(R), NEW h \in R
  PROVE  /\ OneEach(R \ {h})
         /\ Entries(R \ {h}) = Entries(R) \ {h.entry}
         /\ Opened(R \ {h}) = [f \in DOMAIN Opened(R) \ {h.entry} |-> Opened(R)[f]]
<1>1. PICK Q : Q = R \ {h}
  OBVIOUS
<1>2. OneEach(Q) /\ Q \subseteq R
  BY <1>1 DEF OneEach
<1>3. Entries(Q) = Entries(R) \ {h.entry}
  BY <1>1 DEF Entries, OneEach
<1>4. ASSUME NEW e \in Entries(Q)
      PROVE  Opened(Q)[e] = Opened(R)[e]
  <2>1. PICK m \in Q : e = m.entry
    BY DEF Entries
  <2> QED
    BY <1>2, <2>1, OpenedAt
<1>5. Opened(Q) = [e \in Entries(Q) |-> Opened(Q)[e]]
  BY DEF Opened
<1>6. Opened(Q) = [e \in Entries(Q) |-> Opened(R)[e]]
  BY <1>4, <1>5
<1> QED
  BY <1>1, <1>2, <1>3, <1>6, OpenedAt

(* The message about an entry is replaced by one of stage s.               *)
LEMMA OpenedWith ==
  ASSUME NEW R, OneEach(R), NEW h \in R, NEW n, n.entry = h.entry
  PROVE  /\ OneEach((R \ {h}) \cup {n})
         /\ Opened((R \ {h}) \cup {n}) = [Opened(R) EXCEPT ![h.entry] = Stage(n)]
<1>1. PICK Q : Q = (R \ {h}) \cup {n}
  OBVIOUS
<1>2. OneEach(Q)
  BY <1>1 DEF OneEach
<1>3. Entries(Q) = Entries(R)
  BY <1>1 DEF Entries
<1>4. PICK f, g, s : f = [g EXCEPT ![h.entry] = s] /\ g = Opened(R) /\ s = Stage(n)
  OBVIOUS
<1>5. f = [e \in Entries(R) |-> IF e = h.entry THEN Stage(n) ELSE Opened(R)[e]]
  <2>1. f = [e \in DOMAIN g |-> IF e = h.entry THEN s ELSE g[e]]
    BY <1>4
  <2>2. DOMAIN g = Entries(R)
    BY <1>4, OpenedAt
  <2> QED
    BY <1>4, <2>1, <2>2
<1>6. ASSUME NEW e \in Entries(Q)
      PROVE  Opened(Q)[e] = IF e = h.entry THEN Stage(n) ELSE Opened(R)[e]
  <2>1. PICK m \in Q : e = m.entry
    BY DEF Entries
  <2>2. Opened(Q)[e] = Stage(m)
    BY <1>2, <2>1, OpenedAt
  <2>3. CASE m = n
    BY <2>1, <2>2, <2>3
  <2>4. CASE m # n
    <3>1. m \in R /\ m # h
      BY <1>1, <2>1, <2>4
    <3>2. e # h.entry
      BY <2>1, <3>1 DEF OneEach
    <3> QED
      BY <2>1, <2>2, <3>1, <3>2, OpenedAt
  <2> QED
    BY <2>3, <2>4
<1>7. Opened(Q) = [e \in Entries(Q) |-> Opened(Q)[e]]
  BY DEF Opened
<1>8. Opened(Q) = f
  BY <1>3, <1>5, <1>6, <1>7
<1> QED
  BY <1>1, <1>2, <1>4, <1>8

(* A fetched list opens all of its entries.                                *)
LEMMA OpenedList ==
  ASSUME NEW h, NEW r, NEW k \in Nat, k = Len(h.streams)
  PROVE  /\ OneEach(ChecksOf(h, r))
         /\ Opened(ChecksOf(h, r)) = [e \in 1 .. k |-> "first"]
<1>1. PICK Q : Q = ChecksOf(h, r)
  OBVIOUS
<1>2. /\ \A m \in Q : /\ m.entry \in 1 .. k
                     /\ m = CheckStreamHealth(h.streams[m.entry], m.entry, h.triggeredAt, 1, r)
      /\ \A e \in 1 .. k : \E m \in Q : m.entry = e
  <2>1. ASSUME NEW e \in 1 .. k
        PROVE  LET m == CheckStreamHealth(h.streams[e], e, h.triggeredAt, 1, r)
               IN m \in Q /\ m.entry = e
    BY <1>1 DEF ChecksOf, CheckStreamHealth
  <2>2. ASSUME NEW m \in Q
        PROVE  \E e \in 1 .. k : m = CheckStreamHealth(h.streams[e], e, h.triggeredAt, 1, r)
    BY <1>1 DEF ChecksOf
  <2> QED
    BY <2>1, <2>2
<1>3. OneEach(Q) /\ Entries(Q) = 1 .. k
  BY <1>2 DEF OneEach, Entries
<1>4. \A m \in Q : Stage(m) = "first"
  BY <1>2 DEF CheckStreamHealth, Stage
<1>5. \A e \in 1 .. k : Opened(Q)[e] = "first"
  BY <1>2, <1>3, <1>4, OpenedAt
<1>6. Opened(Q) = [e \in Entries(Q) |-> Opened(Q)[e]]
  BY DEF Opened
<1> QED
  BY <1>1, <1>3, <1>5, <1>6
-----------------------------------------------------------------------------
(* The messages about entries after n has come in the place of h.          *)
LEMMA RunOfExchanged ==
  ASSUME NEW c, NEW V, NEW h \in V, NEW n, n.triggeredAt = h.triggeredAt,
         Asks(n) <=> Asks(h)
  PROVE  Runs(c, (V \ {h}) \cup {n}) =
           IF h \in Runs(c, V) THEN (Runs(c, V) \ {h}) \cup {n} ELSE Runs(c, V)
BY DEF Runs, RunOf

(* The mapping only depends on whether the requester runs, and which run.  *)
LEMMA RunsSame ==
  ASSUME NEW c, NEW d, NEW V, d.running = c.running, d.triggeredAt = c.triggeredAt
  PROVE  Runs(d, V) = Runs(c, V)
BY DEF Runs, RunOf

(* go2rtc's reply stands for the same entry, at the same stage.            *)
LEMMA ReplyMaps ==
  ASSUME NEW r \in Requesters, NEW c, NEW V, Sound(r, c, V), NEW h, NEW n, Reply(h, n),
         NEW X, Answered(h, n, V, X)
  PROVE  Maps(r, c, V, c, X)
<1>1. /\ n.triggeredAt = h.triggeredAt /\ (Asks(n) <=> Asks(h))
      /\ ~Asks(h) => n.entry = h.entry /\ Stage(n) = Stage(h)
  <2>1. ASSUME NEW p, NEW f, h.type = "CheckStreamHealth", n = StreamHealthChecked(h, p, f)
        PROVE  /\ n.triggeredAt = h.triggeredAt /\ (Asks(n) <=> Asks(h))
               /\ ~Asks(h) => n.entry = h.entry /\ Stage(n) = Stage(h)
    BY <2>1 DEF StreamHealthChecked, Asks, Stage
  <2>2. ASSUME NEW p, NEW f, h.type = "RemoveStream", n = StreamRemovalCompleted(h, p, f)
        PROVE  /\ n.triggeredAt = h.triggeredAt /\ (Asks(n) <=> Asks(h))
               /\ ~Asks(h) => n.entry = h.entry /\ Stage(n) = Stage(h)
    BY <2>2 DEF StreamRemovalCompleted, Asks, Stage
  <2> QED
    BY <2>1, <2>2 DEF Reply, Asks
<1>2. PICK R, Q : R = Runs(c, V) /\ Q = Runs(c, X)
  OBVIOUS
<1>3. CASE h \in V /\ h \in R
  <2>1. Q = (R \ {h}) \cup {n}
    BY <1>1, <1>2, <1>3, RunOfExchanged DEF Answered
  <2>2. OneEach(R) /\ n.entry = h.entry /\ Stage(n) = Stage(h)
    BY <1>1, <1>2, <1>3 DEF Sound, Runs, RunOf
  <2>3. Opened(Q) = [Opened(R) EXCEPT ![h.entry] = Stage(h)]
    BY <1>3, <2>1, <2>2, OpenedWith
  <2>4. h.entry \in DOMAIN Opened(R) /\ Opened(R)[h.entry] = Stage(h)
    BY <1>3, <2>2, OpenedAt
  <2>5. Opened(Q) = Opened(R)
    BY <2>3, <2>4 DEF Opened
  <2> QED
    BY <1>2, <2>5 DEF Maps, RunStep
<1>4. CASE h \in V /\ h \notin R
  <2>1. Q = R
    <3>1. X = (V \ {h}) \cup {n}
      BY <1>4 DEF Answered
    <3>2. Runs(c, (V \ {h}) \cup {n}) = R
      BY <1>1, <1>2, <1>4 DEF Runs, RunOf
    <3> QED
      BY <1>2, <3>1, <3>2
  <2> QED
    BY <1>2, <2>1 DEF Maps, RunStep
<1>5. CASE h \notin V
  BY <1>5 DEF Answered, Maps, RunStep
<1> QED
  BY <1>3, <1>4, <1>5

(* The run is not concerned, begins, or has no list to go through.         *)
LEMMA IgnoredMaps ==
  ASSUME NEW r \in Requesters, NEW c, NEW V, NEW h, NEW d, NEW X, Ignored(h, c, V, d, X)
  PROVE  Maps(r, c, V, d, X)
<1>1. Runs(d, X) = Runs(c, V)
  BY DEF Ignored, Runs, RunOf, Current
<1> QED
  BY <1>1 DEF Ignored, Maps, RunStep

LEMMA BegunMaps ==
  ASSUME NEW r \in Requesters, NEW c, NEW V, NEW h, NEW d, NEW X,
         Begun(r, h, c, V, d, X)
  PROVE  Maps(r, c, V, d, X)
<1>1. Runs(c, V) = {}
  BY DEF Begun, Runs
<1>2. Runs(d, X) = {}
  <2>1. PICK n : n.type = "FetchStreamList" /\ X = V \cup {n}
    BY DEF Begun
  <2>2. Asks(n)
    BY <2>1 DEF Asks
  <2>3. \A m \in V : m.triggeredAt # d.triggeredAt
    BY DEF Begun
  <2> QED
    BY <2>1, <2>2, <2>3 DEF Runs, RunOf
<1>3. Phase(c) = "idle" /\ Phase(d) = "listing"
  BY DEF Begun, Phase
<1>4. d.aliveCount = 0 /\ RemovedBy(r, d) = 0
  BY DEF Begun, RemovedBy
<1> QED
  BY <1>1, <1>2, <1>3, <1>4 DEF Maps, RunStep

LEMMA NoListMaps ==
  ASSUME NEW r \in Requesters, NEW c, NEW V, Sound(r, c, V), NEW h, NEW d, NEW X,
         NoList(r, h, c, V, d, X)
  PROVE  Maps(r, c, V, d, X)
<1>1. c.running /\ Asks(h) /\ h.triggeredAt = c.triggeredAt /\ h \in V
  BY DEF NoList, Current, Asks
<1>2. c.outstanding = 0 /\ Runs(c, V) = {}
  BY <1>1 DEF Sound
<1>3. Runs(d, X) = {}
  BY DEF NoList, Runs
<1>4. Phase(c) = "listing" /\ Phase(d) = "idle"
  BY <1>1, <1>2 DEF NoList, Phase
<1>5. d.aliveCount = c.aliveCount /\ RemovedBy(r, d) = RemovedBy(r, c)
  BY DEF NoList, RemovedBy
<1> QED
  BY <1>2, <1>3, <1>4, <1>5 DEF Maps, RunStep

(* A list is never longer than the longest one.                            *)
LEMMA ListsAreBounded ==
  ASSUME NEW l \in StreamLists, NEW k \in Nat, k = Len(l)
  PROVE  LongestList \in Nat /\ k <= LongestList
<1>1. PICK w \in StreamLists : \A v \in StreamLists : Len(v) <= Len(w)
  BY ManagerAssumption
<1>2. PICK n \in Nat : n = Len(w)
  BY MessagesAssumption
<1>3. n \in {Len(v) : v \in StreamLists} /\ \A v \in StreamLists : Len(v) <= n
  BY <1>1, <1>2
<1>4. /\ LongestList \in {Len(v) : v \in StreamLists}
      /\ \A v \in StreamLists : Len(v) <= LongestList
  BY <1>3 DEF LongestList
<1>5. \A v \in StreamLists : Len(v) \in Nat
  BY MessagesAssumption
<1> QED
  BY <1>4, <1>5

LEMMA ListMaps ==
  ASSUME NEW r \in Requesters, NEW c, NEW V, Sound(r, c, V), NEW h, NEW d, NEW X,
         ListArrived(r, h, c, V, d, X)
  PROVE  Maps(r, c, V, d, X)
<1>1. /\ h \in V /\ h.type = "StreamListFetched" /\ Current(c, h)
      /\ h.streams \in StreamLists /\ Len(h.streams) \in Nat \ {0}
      /\ d = [c EXCEPT !.outstanding = Len(h.streams)]
      /\ X = (V \ {h}) \cup ChecksOf(h, r)
  BY DEF ListArrived
<1>2. PICK k \in Nat \ {0} : k = Len(h.streams)
  BY <1>1
<1>3. c \in StatesOf(r)
  BY DEF Sound
<1>4. /\ d.outstanding = k /\ d.running = c.running /\ d.triggeredAt = c.triggeredAt
      /\ d.aliveCount = c.aliveCount /\ RemovedBy(r, d) = RemovedBy(r, c)
  <2>1. d = [c EXCEPT !.outstanding = k]
    BY <1>1, <1>2
  <2>2. CASE r = "cleaner"
    BY <1>3, <2>1, <2>2 DEF StatesOf, CleanerStates, RemovedBy
  <2>3. CASE r # "cleaner"
    BY <1>3, <2>1, <2>3 DEF StatesOf, CounterStates, RemovedBy
  <2> QED
    BY <2>2, <2>3
<1>5. c.outstanding = 0 /\ Runs(c, V) = {} /\ c.running /\ h.triggeredAt = c.triggeredAt
  BY <1>1 DEF Sound, Current, Asks
<1>6. Runs(d, X) = ChecksOf(h, r)
  <2>1. \A m \in ChecksOf(h, r) : ~Asks(m) /\ m.triggeredAt = h.triggeredAt
    BY DEF ChecksOf, CheckStreamHealth, Asks
  <2>2. \A m \in V : Asks(m) \/ m.triggeredAt # c.triggeredAt
    BY <1>5 DEF Runs, RunOf
  <2> QED
    BY <1>1, <1>4, <1>5, <2>1, <2>2 DEF Runs, RunOf
<1>7. Opened(Runs(d, X)) = [e \in 1 .. k |-> "first"]
  BY <1>2, <1>6, OpenedList
<1>8. Phase(c) = "listing" /\ Phase(d) = "checking"
  BY <1>4, <1>5 DEF Phase
<1>9. k \in 1 .. LongestList
  BY <1>1, <1>2, ListsAreBounded
<1> QED
  BY <1>4, <1>7, <1>8, <1>9 DEF Maps, RunStep

(* A check goes on to the next stage of its entry.                         *)
LEMMA AdvancedMaps ==
  ASSUME NEW r \in Requesters, NEW c, NEW V, Sound(r, c, V), NEW h, NEW d, NEW X,
         \/ Suspected(h, c, V, d, X)
         \/ Condemned(r, h, c, V, d, X)
  PROVE  Maps(r, c, V, d, X)
<1>1. PICK n, v :
        /\ h \in V /\ FoundNothing(h) /\ Current(c, h)
        /\ d = [c EXCEPT !.pending = v]
        /\ X = (V \ {h}) \cup {n}
        /\ \/ h.attempt = 1 /\ n = SecondCheck(h)
           \/ r = "cleaner" /\ h.attempt = 2 /\ n = RemoveStream(h)
  <2>1. CASE Suspected(h, c, V, d, X)
    BY <2>1 DEF Suspected
  <2>2. CASE Condemned(r, h, c, V, d, X)
    BY <2>2 DEF Condemned
  <2> QED
    BY <2>1, <2>2
<1>2. /\ n.entry = h.entry /\ n.triggeredAt = h.triggeredAt /\ ~Asks(h) /\ ~Asks(n)
      /\ \/ Stage(h) = "first" /\ Stage(n) = "second"
         \/ r = "cleaner" /\ Stage(h) = "second" /\ Stage(n) = "removal"
  BY <1>1 DEF FoundNothing, Asks, Stage, SecondCheck, RemoveStream, CheckStreamHealth
<1>3. c \in StatesOf(r)
  BY DEF Sound
<1>4. /\ d.outstanding = c.outstanding /\ d.running = c.running
      /\ d.triggeredAt = c.triggeredAt
      /\ d.aliveCount = c.aliveCount /\ RemovedBy(r, d) = RemovedBy(r, c)
  <2>1. CASE r = "cleaner"
    BY <1>1, <1>3, <2>1 DEF StatesOf, CleanerStates, RemovedBy
  <2>2. CASE r # "cleaner"
    BY <1>1, <1>3, <2>2 DEF StatesOf, CounterStates, RemovedBy
  <2> QED
    BY <2>1, <2>2
<1>5. PICK R, Q : R = Runs(c, V) /\ Q = Runs(d, X)
  OBVIOUS
<1>6. h \in R /\ OneEach(R)
  BY <1>1, <1>2, <1>5 DEF Runs, RunOf, Sound, Current
<1>7. Q = (R \ {h}) \cup {n}
  <2>1. Q = Runs(c, X)
    BY <1>4, <1>5, RunsSame
  <2> QED
    BY <1>1, <1>2, <1>5, <1>6, <2>1, RunOfExchanged
<1>8. Opened(Q) = [Opened(R) EXCEPT ![h.entry] = Stage(n)]
  BY <1>2, <1>6, <1>7, OpenedWith
<1>9. h.entry \in DOMAIN Opened(R) /\ Opened(R)[h.entry] = Stage(h)
  BY <1>6, OpenedAt
<1>10. Phase(d) = Phase(c)
  BY <1>4 DEF Phase
<1> QED
  BY <1>2, <1>4, <1>5, <1>8, <1>9, <1>10 DEF Maps, RunStep

(* An entry is closed, and the run with it if it was the last one.         *)
LEMMA ClosedMaps ==
  ASSUME NEW r \in Requesters, NEW c, NEW V, Sound(r, c, V), NEW h, NEW d, NEW X,
         Closed(r, h, c, V, d, X)
  PROVE  Maps(r, c, V, d, X)
<1>1. PICK R, Q : R = Runs(c, V) /\ Q = Runs(d, X)
  OBVIOUS
<1>2. /\ h \in R /\ OneEach(R) /\ c.running /\ d.triggeredAt = c.triggeredAt
      /\ h.type \in {"StreamHealthChecked", "StreamRemovalCompleted"}
      /\ OnBehalfOf(h, r) /\ h \in Message
  BY <1>1 DEF Closed, Runs, RunOf, Sound, Current, Asks
<1>3. /\ c.outstanding \in Nat /\ c.outstanding > 0
      /\ IsFiniteSet(R) /\ Cardinality(R) = c.outstanding
  <2>1. c.outstanding \in Nat
    BY DEF Sound, StatesOf, CleanerStates, CounterStates
  <2> QED
    BY <1>1, <1>2, <2>1 DEF Sound
<1>4. IsFiniteSet(R \ {h}) /\ Cardinality(R \ {h}) = c.outstanding - 1
  BY <1>2, <1>3, FS_RemoveElement
<1>5. /\ d.outstanding = c.outstanding - 1
      /\ d.running <=> c.outstanding - 1 # 0
  BY <1>3 DEF Closed
<1>6. R \ {h} = {} <=> c.outstanding - 1 = 0
  BY <1>3, <1>4, FS_EmptySet
<1>7. Q = R \ {h}
  <2>1. CASE d.running
    <3>1. X = V \ {h}
      BY DEF Closed
    <3>2. Q = RunOf(c, V \ {h}) /\ R = RunOf(c, V)
      BY <1>1, <1>2, <2>1, <3>1 DEF Runs, RunOf
    <3> QED
      BY <3>2 DEF RunOf
  <2>2. CASE ~d.running
    BY <1>1, <1>5, <1>6, <2>2 DEF Runs
  <2> QED
    BY <2>1, <2>2
<1>8. Opened(Q) = [f \in DOMAIN Opened(R) \ {h.entry} |-> Opened(R)[f]]
  BY <1>2, <1>7, OpenedWithout
<1>9. /\ h.entry \in DOMAIN Opened(R) /\ Opened(R)[h.entry] = Stage(h)
      /\ DOMAIN Opened(R) = Entries(R)
  BY <1>2, OpenedAt
<1>10. DOMAIN Opened(R) = {h.entry} <=> ~d.running
  <2>1. Entries(R \ {h}) = Entries(R) \ {h.entry}
    BY <1>2, OpenedWithout
  <2>2. Entries(R \ {h}) = {} <=> R \ {h} = {}
    BY DEF Entries
  <2> QED
    BY <1>5, <1>6, <1>9, <2>1, <2>2
<1>11. Phase(d) = IF DOMAIN Opened(R) = {h.entry} THEN "idle" ELSE Phase(c)
  BY <1>2, <1>3, <1>5, <1>10 DEF Phase
<1>12. /\ FoundAlive(h) => Stage(h) \in {"first", "second"}
       /\ Deleted(h) => Stage(h) = "removal" /\ ~FoundAlive(h) /\ r = "cleaner"
  BY <1>2, Behalf DEF FoundAlive, Deleted, Stage, Requesters
<1>13. /\ d.aliveCount = IF FoundAlive(h) THEN c.aliveCount + 1 ELSE c.aliveCount
       /\ RemovedBy(r, d) = IF Deleted(h) THEN RemovedBy(r, c) + 1 ELSE RemovedBy(r, c)
  BY <1>12 DEF Closed, RemovedBy
<1> QED
  BY <1>1, <1>8, <1>9, <1>11, <1>12, <1>13 DEF Maps, RunStep

(* A failed check ends the count.                                          *)
LEMMA AbortedMaps ==
  ASSUME NEW r \in Requesters, NEW c, NEW V, Sound(r, c, V), NEW h, NEW d, NEW X,
         Aborted(r, h, c, V, d, X)
  PROVE  Maps(r, c, V, d, X)
<1>1. /\ r = "count" /\ h \in Runs(c, V) /\ c.running /\ ~d.running
      /\ d.aliveCount = c.aliveCount
  BY DEF Aborted, Runs, RunOf, Current, Asks
<1>2. Phase(c) = "checking" /\ Phase(d) = "idle"
  BY <1>1 DEF Sound, Phase
<1>3. Opened(Runs(d, X)) = [e \in {} |-> "first"]
  BY <1>1, NothingOpened DEF Runs
<1>4. RemovedBy(r, d) = RemovedBy(r, c)
  BY <1>1 DEF RemovedBy
<1> QED
  BY <1>1, <1>2, <1>3, <1>4 DEF Maps, RunStep

LEMMA HandledMaps ==
  ASSUME NEW r \in Requesters, NEW c, NEW V, Sound(r, c, V), NEW h, NEW d, NEW X,
         Handled(r, h, c, V, d, X)
  PROVE  Maps(r, c, V, d, X)
BY IgnoredMaps, BegunMaps, NoListMaps, ListMaps, AdvancedMaps, ClosedMaps, AbortedMaps
DEF Handled
-----------------------------------------------------------------------------
(* Every step of the system, as a step of r's run.                         *)
LEMMA StepMaps ==
  ASSUME BooksInv, [Next]_vars, NEW r \in Requesters,
         NEW c, c = Actor(r), NEW d, d = IF r = "cleaner" THEN cleaner' ELSE count',
         NEW V, V = WorkInTransit(r), NEW X, X = WorkInTransit(r)'
  PROVE  Maps(r, c, V, d, X)
<1>1. Sound(r, c, V)
  BY SoundBooks
<1>2. ASSUME Quiet(r)
      PROVE  Maps(r, c, V, d, X)
  <2>1. d = c /\ X = V
    BY <1>2 DEF Quiet, Actor
  <2> QED
    BY <2>1 DEF Maps, RunStep
<1>3. ASSUME NEW self \in Requesters, self # r, box[self] # <<>>, Sends(self), d = c
      PROVE  Maps(r, c, V, d, X)
  <2>1. BoxOK(box) /\ Books(r)
    BY DEF BooksInv, TypeOK, BoxOK
  <2>2. WorkInTransit(r)' = WorkInTransit(r)
    BY <1>3, <2>1, SendsWork
  <2> QED
    BY <1>3, <2>2 DEF Maps, RunStep
<1>4. CASE MasterStep \/ CronFires \/ TickFires
  BY <1>2, <1>4, MasterQuiet, SchedulersQuiet
<1>5. CASE RedisStep \/ ActionStep \/ CameraChanges \/ UNCHANGED vars
  BY <1>2, <1>5, OthersQuiet
<1>6. CASE \E check \in sleeping : WakeUp(check)
  BY <1>2, <1>6, WakeUpQuiet
<1>7. CASE Go2RTCStep
  <2>1. PICK n, msgs : Serves(n, msgs)
    BY <1>7, Go2RTCServes
  <2>2. Answered(Msg("go2rtc"), n, WorkInTransit(r), WorkInTransit(r)')
    BY <2>1, ServedWork
  <2>3. Answered(Msg("go2rtc"), n, V, X)
    BY <2>2
  <2>4. d = c /\ Reply(Msg("go2rtc"), n)
    BY <2>1 DEF Serves, Actor
  <2>5. Maps(r, c, V, c, X)
    BY <1>1, <2>3, <2>4, ReplyMaps
  <2> QED
    BY <2>4, <2>5
<1>8. CASE CleanerStep
  <2>1. CASE r = "cleaner"
    <3>1. Handled(r, Msg(r), cleaner, WorkInTransit(r), cleaner', WorkInTransit(r)')
      BY <1>8, <2>1, CleanerHandlesWork
    <3>2. Handled(r, Msg(r), c, V, d, X)
      BY <2>1, <3>1 DEF Actor
    <3> QED
      BY <1>1, <3>2, HandledMaps
  <2>2. CASE r = "count"
    <3>1. d = c /\ "cleaner" \in Requesters /\ "cleaner" # r
      BY <1>8, <2>2 DEF CleanerStep, Actor, Requesters
    <3> QED
      BY <1>3, <1>8, <3>1, CleanerSends
  <2> QED
    BY <2>1, <2>2 DEF Requesters
<1>9. CASE CountStep
  <2>1. CASE r = "count"
    <3>1. Handled(r, Msg(r), count, WorkInTransit(r), count', WorkInTransit(r)')
      BY <1>9, <2>1, CountHandlesWork
    <3>2. Handled(r, Msg(r), c, V, d, X)
      BY <2>1, <3>1 DEF Actor
    <3> QED
      BY <1>1, <3>2, HandledMaps
  <2>2. CASE r = "cleaner"
    <3>1. d = c /\ "count" \in Requesters /\ "count" # r
      BY <1>9, <2>2 DEF CountStep, Actor, Requesters
    <3> QED
      BY <1>3, <1>9, <3>1, CountGuarded, CountSends
  <2> QED
    BY <2>1, <2>2 DEF Requesters
<1> QED
  BY <1>4, <1>5, <1>6, <1>7, <1>8, <1>9 DEF Next

(* The refinement mapping of Manager, in these terms.                      *)
LEMMA MappingIs ==
  ASSUME NEW r, NEW c
  PROVE  OpenEntries(r, c) = Opened(Runs(c, WorkInTransit(r)))
<1>1. WorkInTransit(r) = {m \in InTransit(r) : m.type \in WorkTypes}
  BY DEF WorkInTransit, Work, Carried, InTransit, Carriers
<1>2. (IF c.running THEN Listed(r, c.triggeredAt) ELSE {}) = Runs(c, WorkInTransit(r))
  BY <1>1 DEF Listed, WorkOf, Runs, RunOf, Asks
<1> QED
  BY <1>2 DEF OpenEntries

LEMMA CleanerMapping ==
  ASSUME NEW d, d = cleaner', NEW X, X = WorkInTransit("cleaner")'
  PROVE  OpenEntries("cleaner", cleaner)' = Opened(Runs(d, X))
<1>1. PICK b, s, l : b = box' /\ s = sleeping' /\ l = Listed("cleaner", cleaner.triggeredAt)'
  OBVIOUS
<1>2. OpenEntries("cleaner", cleaner)' = Opened(IF d.running THEN l ELSE {})
  BY <1>1 DEF OpenEntries
<1>3. l = {m \in Work(Carried(b, s, "cleaner")) : ~Asks(m) /\ m.triggeredAt = d.triggeredAt}
  BY <1>1 DEF Listed, WorkOf, InTransit, Work, Carried, Carriers, Asks
<1>4. X = Work(Carried(b, s, "cleaner"))
  BY <1>1 DEF WorkInTransit, Work, Carried
<1>5. (IF d.running THEN l ELSE {}) = Runs(d, X)
  BY <1>3, <1>4 DEF Runs, RunOf
<1> QED
  BY <1>2, <1>5

LEMMA CounterMapping ==
  ASSUME NEW d, d = count', NEW X, X = WorkInTransit("count")'
  PROVE  OpenEntries("count", count)' = Opened(Runs(d, X))
<1>1. PICK b, s, l : b = box' /\ s = sleeping' /\ l = Listed("count", count.triggeredAt)'
  OBVIOUS
<1>2. OpenEntries("count", count)' = Opened(IF d.running THEN l ELSE {})
  BY <1>1 DEF OpenEntries
<1>3. l = {m \in Work(Carried(b, s, "count")) : ~Asks(m) /\ m.triggeredAt = d.triggeredAt}
  BY <1>1 DEF Listed, WorkOf, InTransit, Work, Carried, Carriers, Asks
<1>4. X = Work(Carried(b, s, "count"))
  BY <1>1 DEF WorkInTransit, Work, Carried
<1>5. (IF d.running THEN l ELSE {}) = Runs(d, X)
  BY <1>3, <1>4 DEF Runs, RunOf
<1> QED
  BY <1>2, <1>5

-----------------------------------------------------------------------------
(* The cleaner's initial state and steps are those of CheckRun.            *)
LEMMA CleanerInitImplements == Init => CleanerRun!Init
<1> SUFFICES ASSUME Init
             PROVE  CleanerRun!Init
  OBVIOUS
<1>1. ~cleaner.running /\ cleaner.aliveCount = 0 /\ cleaner.removedCount = 0
  BY DEF Init, CleanerInit
<1>2. OpenEntries("cleaner", cleaner) = [e \in {} |-> "first"]
  BY <1>1, NothingOpened DEF OpenEntries
<1> QED
  BY <1>1, <1>2 DEF CleanerRun!Init, CleanerRun!NoEntry, Phase

LEMMA CleanerStepImplements ==
  BooksInv /\ [Next]_vars => [CleanerRun!Next]_(CleanerRun!runVars)
<1> SUFFICES ASSUME BooksInv, [Next]_vars
             PROVE  CleanerRun!Next \/ UNCHANGED CleanerRun!runVars
  OBVIOUS
<1>1. PICK r \in Requesters : r = "cleaner"
  BY DEF Requesters
<1>2. PICK p, o, a, k, q, u, b, l :
        /\ p = Phase(cleaner) /\ o = OpenEntries("cleaner", cleaner)
        /\ a = cleaner.aliveCount /\ k = cleaner.removedCount
        /\ q = Phase(cleaner)' /\ u = OpenEntries("cleaner", cleaner)'
        /\ b = cleaner'.aliveCount /\ l = cleaner'.removedCount
  OBVIOUS
<1>3. RunStep(r, p, o, a, k, q, u, b, l)
  <2>1. PICK c, d, V, X : /\ c = cleaner /\ d = cleaner'
                          /\ V = WorkInTransit(r) /\ X = WorkInTransit(r)'
                          /\ X = WorkInTransit("cleaner")'
    BY <1>1
  <2>2. c = Actor(r) /\ d = IF r = "cleaner" THEN cleaner' ELSE count'
    BY <1>1, <2>1 DEF Actor
  <2>3. Maps(r, c, V, d, X)
    BY <2>1, <2>2, StepMaps
  <2>4. o = Opened(Runs(c, V)) /\ u = Opened(Runs(d, X))
    BY <1>1, <1>2, <2>1, MappingIs, CleanerMapping
  <2>5. p = Phase(c) /\ q = Phase(d) /\ k = RemovedBy(r, c) /\ l = RemovedBy(r, d)
    BY <1>1, <1>2, <2>1 DEF Phase, RemovedBy
  <2> QED
    BY <1>2, <2>1, <2>3, <2>4, <2>5 DEF Maps
<1>4. CASE q = p /\ u = o /\ b = a /\ l = k
  BY <1>2, <1>4 DEF CleanerRun!runVars
<1>5. CASE ~(q = p /\ u = o /\ b = a /\ l = k)
  <2>1. CASE p = "idle" /\ q = "listing" /\ u = o /\ b = 0 /\ l = 0
    BY <1>2, <2>1 DEF CleanerRun!Next, CleanerRun!Begin
  <2>2. CASE p = "listing" /\ q = "idle" /\ u = o /\ b = a /\ l = k
    BY <1>2, <2>2 DEF CleanerRun!Next, CleanerRun!GiveUp
  <2>3. ASSUME NEW n \in 1 .. LongestList, p = "listing", q = "checking", b = a, l = k,
               u = [e \in 1 .. n |-> "first"]
        PROVE  CleanerRun!Next
    <3>1. n \in 0 .. LongestList /\ n # 0
      OBVIOUS
    <3> QED
      BY <1>2, <2>3, <3>1 DEF CleanerRun!Next, CleanerRun!List
  <2>4. ASSUME NEW e \in DOMAIN o, o[e] = "first", u = [o EXCEPT ![e] = "second"],
               q = p, b = a, l = k
        PROVE  CleanerRun!Next
    BY <1>2, <2>4 DEF CleanerRun!Next, CleanerRun!Confirm
  <2>5. ASSUME NEW e \in DOMAIN o, o[e] = "second", u = [o EXCEPT ![e] = "removal"],
               q = p, b = a, l = k
        PROVE  CleanerRun!Next
    BY <1>2, <2>5 DEF CleanerRun!Next, CleanerRun!Condemn
  <2>6. ASSUME NEW e \in DOMAIN o, u = [f \in DOMAIN o \ {e} |-> o[f]],
               q = IF DOMAIN o = {e} THEN "idle" ELSE p,
               \/ o[e] \in {"first", "second"} /\ b = a + 1 /\ l = k
               \/ o[e] = "removal" /\ b = a /\ l = k + 1
               \/ b = a /\ l = k
        PROVE  CleanerRun!Next
    <3>1. CASE o[e] \in {"first", "second"} /\ b = a + 1 /\ l = k
      BY <1>2, <2>6, <3>1 DEF CleanerRun!Next, CleanerRun!CloseAlive, CleanerRun!Close
    <3>2. CASE o[e] = "removal" /\ b = a /\ l = k + 1
      BY <1>2, <2>6, <3>2 DEF CleanerRun!Next, CleanerRun!CloseRemoved, CleanerRun!Close
    <3>3. CASE b = a /\ l = k
      BY <1>2, <2>6, <3>3 DEF CleanerRun!Next, CleanerRun!CloseUncounted, CleanerRun!Close
    <3> QED
      BY <2>6, <3>1, <3>2, <3>3
  <2>7. r # "count"
    BY <1>1
  <2> QED
    BY <1>3, <1>5, <2>1, <2>2, <2>3, <2>4, <2>5, <2>6, <2>7 DEF RunStep
<1> QED
  BY <1>4, <1>5

(* The cleaner, with its mailboxes, goroutines and stamps, implements the  *)
(* abstract run, for any lists, streams, instants and bounds: no entry of  *)
(* a list is lost, checked out of order, counted twice or removed after a  *)
(* single miss.                                                            *)
THEOREM CleanerRefines == Spec => CleanerImplementsCheckRun
BY CleanerInitImplements, CleanerStepImplements, BooksCorrect, PTL
DEF Spec, CleanerRun!Spec, CleanerImplementsCheckRun

-----------------------------------------------------------------------------
(* The same for the count actor, whose runs may abort.                     *)
LEMMA CounterInitImplements == Init => CounterRun!Init
<1> SUFFICES ASSUME Init
             PROVE  CounterRun!Init
  OBVIOUS
<1>1. ~count.running /\ count.aliveCount = 0
  BY DEF Init, CountInit
<1>2. OpenEntries("count", count) = [e \in {} |-> "first"]
  BY <1>1, NothingOpened DEF OpenEntries
<1> QED
  BY <1>1, <1>2 DEF CounterRun!Init, CounterRun!NoEntry, Phase

LEMMA CounterStepImplements ==
  BooksInv /\ [Next]_vars => [CounterRun!Next]_(CounterRun!runVars)
<1> SUFFICES ASSUME BooksInv, [Next]_vars
             PROVE  CounterRun!Next \/ UNCHANGED CounterRun!runVars
  OBVIOUS
<1>1. PICK r \in Requesters : r = "count"
  BY DEF Requesters
<1>2. PICK p, o, a, k, q, u, b, l :
        /\ p = Phase(count) /\ o = OpenEntries("count", count)
        /\ a = count.aliveCount /\ k = 0
        /\ q = Phase(count)' /\ u = OpenEntries("count", count)'
        /\ b = count'.aliveCount /\ l = 0
  OBVIOUS
<1>3. RunStep(r, p, o, a, k, q, u, b, l)
  <2>1. PICK c, d, V, X : /\ c = count /\ d = count'
                          /\ V = WorkInTransit(r) /\ X = WorkInTransit(r)'
                          /\ X = WorkInTransit("count")'
    BY <1>1
  <2>2. c = Actor(r) /\ d = IF r = "cleaner" THEN cleaner' ELSE count'
    BY <1>1, <2>1 DEF Actor
  <2>3. Maps(r, c, V, d, X)
    BY <2>1, <2>2, StepMaps
  <2>4. o = Opened(Runs(c, V)) /\ u = Opened(Runs(d, X))
    BY <1>1, <1>2, <2>1, MappingIs, CounterMapping
  <2>5. p = Phase(c) /\ q = Phase(d) /\ k = RemovedBy(r, c) /\ l = RemovedBy(r, d)
    BY <1>1, <1>2, <2>1 DEF Phase, RemovedBy
  <2> QED
    BY <1>2, <2>1, <2>3, <2>4, <2>5 DEF Maps
<1>4. CASE q = p /\ u = o /\ b = a /\ l = k
  BY <1>2, <1>4 DEF CounterRun!runVars
<1>5. CASE ~(q = p /\ u = o /\ b = a /\ l = k)
  <2>1. CASE p = "idle" /\ q = "listing" /\ u = o /\ b = 0 /\ l = 0
    BY <1>2, <2>1 DEF CounterRun!Next, CounterRun!Begin
  <2>2. CASE p = "listing" /\ q = "idle" /\ u = o /\ b = a /\ l = k
    BY <1>2, <2>2 DEF CounterRun!Next, CounterRun!GiveUp
  <2>3. ASSUME NEW n \in 1 .. LongestList, p = "listing", q = "checking", b = a, l = k,
               u = [e \in 1 .. n |-> "first"]
        PROVE  CounterRun!Next
    <3>1. n \in 0 .. LongestList /\ n # 0
      OBVIOUS
    <3> QED
      BY <1>2, <2>3, <3>1 DEF CounterRun!Next, CounterRun!List
  <2>4. ASSUME NEW e \in DOMAIN o, o[e] = "first", u = [o EXCEPT ![e] = "second"],
               q = p, b = a, l = k
        PROVE  CounterRun!Next
    BY <1>2, <2>4 DEF CounterRun!Next, CounterRun!Confirm
  <2>5. r # "cleaner"
    BY <1>1
  <2>6. ASSUME NEW e \in DOMAIN o, u = [f \in DOMAIN o \ {e} |-> o[f]],
               q = IF DOMAIN o = {e} THEN "idle" ELSE p,
               \/ o[e] \in {"first", "second"} /\ b = a + 1 /\ l = k
               \/ o[e] = "removal" /\ b = a /\ l = k + 1
               \/ b = a /\ l = k
        PROVE  CounterRun!Next
    <3>1. CASE o[e] \in {"first", "second"} /\ b = a + 1 /\ l = k
      BY <1>2, <2>6, <3>1 DEF CounterRun!Next, CounterRun!CloseAlive, CounterRun!Close
    <3>2. CASE o[e] = "removal" /\ b = a /\ l = k + 1
      BY <1>2, <2>6, <3>2 DEF CounterRun!Next, CounterRun!CloseRemoved, CounterRun!Close
    <3>3. CASE b = a /\ l = k
      BY <1>2, <2>6, <3>3 DEF CounterRun!Next, CounterRun!CloseUncounted, CounterRun!Close
    <3> QED
      BY <2>6, <3>1, <3>2, <3>3
  <2>7. ASSUME p = "checking", q = "idle", u = [e \in {} |-> "first"], b = a, l = k
        PROVE  CounterRun!Next
    BY <1>2, <2>7 DEF CounterRun!Next, CounterRun!Abort, CounterRun!NoEntry
  <2> QED
    BY <1>3, <1>5, <2>1, <2>2, <2>3, <2>4, <2>5, <2>6, <2>7 DEF RunStep
<1> QED
  BY <1>4, <1>5

(* The count actor implements a run that removes nothing and may abort:    *)
(* what comes back from an aborted run never touches a later one.          *)
THEOREM CounterRefines == Spec => CounterImplementsCheckRun
BY CounterInitImplements, CounterStepImplements, BooksCorrect, PTL
DEF Spec, CounterRun!Spec, CounterImplementsCheckRun

-----------------------------------------------------------------------------
(* The place of a message in the line of numbers.                          *)
Place(queue, inbox, i) ==
  IF i <= Len(queue) THEN queue[i].aliveStreams ELSE NumberIn(inbox[i - Len(queue)])

Places(queue, inbox) == {Place(queue, inbox, i) : i \in 1 .. Len(queue) + Len(inbox)}

LEMMA LineIs ==
  ASSUME NEW q \in Seq(Message), NEW b \in Seq(Message)
  PROVE  /\ Len(q) \in Nat /\ Len(b) \in Nat
         /\ OnTheWay(q, b) \in Seq(Places(q, b))
         /\ Len(OnTheWay(q, b)) = Len(q) + Len(b)
         /\ \A i \in 1 .. Len(q) + Len(b) : OnTheWay(q, b)[i] = Place(q, b, i)
<1> DEFINE f == [i \in 1 .. Len(q) |-> q[i].aliveStreams]
           g == [i \in 1 .. Len(b) |-> NumberIn(b[i])]
           S == Places(q, b)
<1>1. Len(q) \in Nat /\ Len(b) \in Nat
  OBVIOUS
<1>2. ASSUME NEW i \in 1 .. Len(q)
      PROVE  f[i] = Place(q, b, i) /\ f[i] \in S
  <2>1. i \in 1 .. Len(q) + Len(b) /\ i <= Len(q)
    BY <1>1
  <2> QED
    BY <2>1 DEF Place, Places
<1>3. ASSUME NEW i \in 1 .. Len(b)
      PROVE  g[i] = Place(q, b, Len(q) + i) /\ g[i] \in S
  <2>1. Len(q) + i \in 1 .. Len(q) + Len(b) /\ ~(Len(q) + i <= Len(q)) /\ Len(q) + i - Len(q) = i
    BY <1>1
  <2>2. PICK k : k = Len(q) + i
    OBVIOUS
  <2>3. Place(q, b, k) = NumberIn(b[i])
    BY <2>1, <2>2 DEF Place
  <2>4. Place(q, b, k) \in S
    BY <2>1, <2>2 DEF Places
  <2> QED
    BY <2>2, <2>3, <2>4
<1>4. f \in Seq(S) /\ Len(f) = Len(q)
  <2>1. f \in [1 .. Len(q) -> S]
    BY <1>2
  <2> HIDE DEF f, S
  <2> QED
    BY <1>1, <2>1
<1>5. g \in Seq(S) /\ Len(g) = Len(b)
  <2>1. g \in [1 .. Len(b) -> S]
    BY <1>3
  <2> HIDE DEF g, S
  <2> QED
    BY <1>1, <2>1
<1>6. OnTheWay(q, b) = f \o g
  BY DEF OnTheWay
<1> HIDE DEF f, g, S
<1>7. /\ f \o g \in Seq(S) /\ Len(f \o g) = Len(q) + Len(b)
      /\ \A i \in 1 .. Len(q) : (f \o g)[i] = f[i]
      /\ \A i \in 1 .. Len(b) : (f \o g)[Len(q) + i] = g[i]
  <2>1. f \o g \in Seq(S) /\ Len(f \o g) = Len(q) + Len(b)
    BY <1>1, <1>4, <1>5, SMTT(30)
  <2>2. ASSUME NEW i \in 1 .. Len(q)
        PROVE  (f \o g)[i] = f[i]
    BY <1>1, <1>4, <1>5
  <2>3. ASSUME NEW i \in 1 .. Len(b)
        PROVE  (f \o g)[Len(q) + i] = g[i]
    BY <1>1, <1>4, <1>5, SMTT(30)
  <2> QED
    BY <2>1, <2>2, <2>3
<1>8. ASSUME NEW i \in 1 .. Len(q) + Len(b)
      PROVE  (f \o g)[i] = Place(q, b, i)
  <2>1. CASE i \in 1 .. Len(q)
    BY <1>2, <1>7, <2>1
  <2>2. CASE i \notin 1 .. Len(q)
    <3>1. PICK k \in 1 .. Len(b) : i = Len(q) + k
      <4>1. i - Len(q) \in 1 .. Len(b) /\ i = Len(q) + (i - Len(q))
        BY <1>1, <2>2
      <4> QED
        BY <4>1
    <3> QED
      BY <1>3, <1>7, <3>1
  <2> QED
    BY <2>1, <2>2
<1> QED
  BY <1>1, <1>6, <1>7, <1>8 DEF S

(* Sequences that get longer at the end or shorter at the front.           *)
LEMMA AppendIs ==
  ASSUME NEW S, NEW l \in Seq(S), NEW k \in S
  PROVE  /\ Len(l) \in Nat
         /\ Append(l, k) \in Seq(S) /\ Len(Append(l, k)) = Len(l) + 1
         /\ Append(l, k)[Len(l) + 1] = k
         /\ \A i \in 1 .. Len(l) : Append(l, k)[i] = l[i]
OBVIOUS

LEMMA PlusOneIs ==
  ASSUME NEW S, NEW l \in Seq(S), NEW k \in S
  PROVE  /\ Len(l) \in Nat
         /\ l \o <<k>> \in Seq(S) /\ Len(l \o <<k>>) = Len(l) + 1
         /\ (l \o <<k>>)[Len(l) + 1] = k
         /\ \A i \in 1 .. Len(l) : (l \o <<k>>)[i] = l[i]
<1>1. <<k>> \in Seq(S) /\ Len(<<k>>) = 1 /\ <<k>>[1] = k
  OBVIOUS
<1>2. \A m \in Seq(S) :
        /\ l \o m \in Seq(S) /\ Len(l \o m) = Len(l) + Len(m)
        /\ \A i \in 1 .. Len(m) : (l \o m)[Len(l) + i] = m[i]
        /\ \A i \in 1 .. Len(l) : (l \o m)[i] = l[i]
  OBVIOUS
<1>3. PICK m \in Seq(S) : m = <<k>>
  BY <1>1
<1> QED
  BY <1>1, <1>2, <1>3

LEMMA TailIs ==
  ASSUME NEW S, NEW l \in Seq(S), l # <<>>
  PROVE  /\ Len(l) \in Nat \ {0}
         /\ Tail(l) \in Seq(S) /\ Len(Tail(l)) = Len(l) - 1 /\ Head(l) = l[1]
         /\ \A i \in 1 .. Len(Tail(l)) : Tail(l)[i] = l[i + 1]
OBVIOUS

(* Two lines with the same places are the same.                            *)
LEMMA SameLine ==
  ASSUME NEW S, NEW T, NEW l \in Seq(S), NEW m \in Seq(T), Len(l) = Len(m),
         \A i \in 1 .. Len(l) : l[i] = m[i]
  PROVE  l = m
OBVIOUS

(* A message for the master joins the line with its number.                *)
LEMMA LineGrows ==
  ASSUME NEW q \in Seq(Message), NEW b \in Seq(Message), NEW n \in Message
  PROVE  OnTheWay(q, b \o <<n>>) = Append(OnTheWay(q, b), NumberIn(n))
<1>1. PICK d \in Seq(Message) : d = b \o <<n>>
  BY PlusOneIs
<1>2. /\ Len(q) \in Nat /\ Len(b) \in Nat /\ Len(d) = Len(b) + 1
      /\ d[Len(b) + 1] = n /\ \A i \in 1 .. Len(b) : d[i] = b[i]
  BY <1>1, PlusOneIs
<1>3. PICK S, T, l, m :
        /\ l = OnTheWay(q, b) /\ m = OnTheWay(q, d)
        /\ S = Places(q, b) \cup {NumberIn(n)} /\ T = Places(q, d)
  OBVIOUS
<1>4. /\ l \in Seq(S) /\ Len(l) = Len(q) + Len(b)
      /\ \A i \in 1 .. Len(q) + Len(b) : l[i] = Place(q, b, i)
  <2>1. l \in Seq(Places(q, b)) /\ Places(q, b) \subseteq S
    BY <1>3, LineIs
  <2>2. l \in Seq(S)
    BY <2>1
  <2> QED
    BY <1>3, <2>2, LineIs
<1>5. /\ m \in Seq(T) /\ Len(m) = Len(q) + Len(d)
      /\ \A i \in 1 .. Len(q) + Len(d) : m[i] = Place(q, d, i)
  BY <1>3, LineIs
<1>6. PICK k \in S : k = NumberIn(n)
  BY <1>3
<1>7. /\ Append(l, k) \in Seq(S) /\ Len(Append(l, k)) = Len(q) + Len(b) + 1
      /\ Append(l, k)[Len(q) + Len(b) + 1] = k
      /\ \A i \in 1 .. Len(q) + Len(b) : Append(l, k)[i] = l[i]
  BY <1>4, <1>6, AppendIs
<1>8. ASSUME NEW i \in 1 .. Len(q) + Len(b) + 1
      PROVE  Append(l, k)[i] = m[i]
  <2>1. m[i] = Place(q, d, i)
    BY <1>2, <1>5
  <2>2. CASE i <= Len(q) + Len(b)
    <3>1. Append(l, k)[i] = Place(q, b, i)
      BY <1>2, <1>4, <1>7, <2>2
    <3>2. ~(i <= Len(q)) => i - Len(q) \in 1 .. Len(b)
      BY <1>2, <2>2
    <3>3. Place(q, b, i) = Place(q, d, i)
      BY <1>2, <3>2 DEF Place
    <3> QED
      BY <2>1, <3>1, <3>3
  <2>3. CASE i = Len(q) + Len(b) + 1
    <3>1. ~(i <= Len(q)) /\ i - Len(q) = Len(b) + 1
      BY <1>2, <2>3
    <3>2. Place(q, d, i) = NumberIn(n)
      BY <1>2, <3>1 DEF Place
    <3>3. Append(l, k)[i] = k
      BY <1>7, <2>3
    <3> QED
      BY <1>6, <2>1, <3>2, <3>3
  <2>4. i <= Len(q) + Len(b) \/ i = Len(q) + Len(b) + 1
    BY <1>2
  <2> QED
    BY <2>2, <2>3, <2>4
<1>9. Append(l, k) = m
  <2>1. PICK a \in Seq(S) : a = Append(l, k)
    BY <1>7
  <2>2. Len(a) = Len(m) /\ \A i \in 1 .. Len(a) : a[i] = m[i]
    BY <1>2, <1>5, <1>7, <1>8, <2>1
  <2>3. a = m
    BY <1>5, <2>2, SameLine
  <2> QED
    BY <2>1, <2>3
<1> QED
  BY <1>1, <1>3, <1>6, <1>9

(* The oldest update leaves the line at its front.                         *)
LEMMA LineAdvances ==
  ASSUME NEW q \in Seq(Message), NEW b \in Seq(Message), q # <<>>
  PROVE  /\ OnTheWay(q, b) # <<>>
         /\ Head(OnTheWay(q, b)) = Head(q).aliveStreams
         /\ OnTheWay(Tail(q), b) = Tail(OnTheWay(q, b))
<1>1. PICK d \in Seq(Message) : d = Tail(q)
  BY TailIs
<1>2. /\ Len(q) \in Nat \ {0} /\ Len(b) \in Nat /\ Len(d) = Len(q) - 1
      /\ Head(q) = q[1] /\ \A i \in 1 .. Len(d) : d[i] = q[i + 1]
  BY <1>1, TailIs
<1>3. PICK S, T, l, m :
        /\ l = OnTheWay(q, b) /\ m = OnTheWay(d, b)
        /\ S = Places(q, b) /\ T = Places(d, b)
  OBVIOUS
<1>4. /\ l \in Seq(S) /\ Len(l) = Len(q) + Len(b)
      /\ \A i \in 1 .. Len(q) + Len(b) : l[i] = Place(q, b, i)
  BY <1>3, LineIs
<1>5. /\ m \in Seq(T) /\ Len(m) = Len(d) + Len(b)
      /\ \A i \in 1 .. Len(d) + Len(b) : m[i] = Place(d, b, i)
  BY <1>3, LineIs
<1>6. /\ l # <<>> /\ Tail(l) \in Seq(S) /\ Len(Tail(l)) = Len(l) - 1 /\ Head(l) = l[1]
      /\ \A i \in 1 .. Len(l) - 1 : Tail(l)[i] = l[i + 1]
  <2>1. l # <<>>
    BY <1>2, <1>4
  <2> QED
    BY <1>4, <2>1, TailIs
<1>7. ASSUME NEW i \in 1 .. Len(l) - 1
      PROVE  Tail(l)[i] = m[i]
  <2>1. /\ Tail(l)[i] = Place(q, b, i + 1) /\ m[i] = Place(d, b, i)
    <3>1. i + 1 \in 1 .. Len(q) + Len(b) /\ i \in 1 .. Len(d) + Len(b)
      BY <1>2, <1>4
    <3> QED
      BY <1>4, <1>5, <1>6, <3>1
  <2>2. /\ i + 1 <= Len(q) <=> i <= Len(d)
        /\ (i + 1) - Len(q) = i - Len(d)
        /\ i <= Len(d) => i \in 1 .. Len(d)
    BY <1>2
  <2>3. Place(q, b, i + 1) = Place(d, b, i)
    BY <1>2, <2>2 DEF Place
  <2> QED
    BY <2>1, <2>3
<1>8. Tail(l) = m
  <2>1. PICK a \in Seq(S) : a = Tail(l)
    BY <1>6
  <2>2. Len(a) = Len(m) /\ \A i \in 1 .. Len(a) : a[i] = m[i]
    BY <1>2, <1>4, <1>5, <1>6, <1>7, <2>1
  <2>3. a = m
    BY <1>5, <2>2, SameLine
  <2> QED
    BY <2>1, <2>3
<1>9. l[1] = Head(q).aliveStreams
  <2>1. 1 \in 1 .. Len(q) + Len(b) /\ 1 <= Len(q)
    BY <1>2
  <2> QED
    BY <1>2, <1>4, <2>1 DEF Place
<1> QED
  BY <1>1, <1>3, <1>6, <1>8, <1>9

(* A place of l that holds v is gone in m.                                 *)
OneLess(l, m, v) ==
  \E i \in DOMAIN l :
    /\ l[i] = v
    /\ m = [j \in 1 .. Len(l) - 1 |-> IF j < i THEN l[j] ELSE l[j + 1]]

(* What the master takes from its mailbox leaves the line ...              *)
LEMMA LineLeft ==
  ASSUME NEW q \in Seq(Message), NEW b \in Seq(Message), b # <<>>, NEW l, l = OnTheWay(q, b)
  PROVE  OneLess(l, OnTheWay(q, Tail(b)), NumberIn(Head(b)))
<1>1. PICK d \in Seq(Message) : d = Tail(b)
  BY TailIs
<1>2. /\ Len(q) \in Nat /\ Len(b) \in Nat \ {0} /\ Len(d) = Len(b) - 1
      /\ Head(b) = b[1] /\ \A i \in 1 .. Len(d) : d[i] = b[i + 1]
  BY <1>1, TailIs
<1>3. PICK S, T, m : m = OnTheWay(q, d) /\ S = Places(q, b) /\ T = Places(q, d)
  OBVIOUS
<1>4. /\ l \in Seq(S) /\ Len(l) = Len(q) + Len(b)
      /\ \A i \in 1 .. Len(q) + Len(b) : l[i] = Place(q, b, i)
  BY <1>3, LineIs
<1>5. /\ m \in Seq(T) /\ Len(m) = Len(q) + Len(d)
      /\ \A i \in 1 .. Len(q) + Len(d) : m[i] = Place(q, d, i)
  BY <1>3, LineIs
<1>6. PICK k \in DOMAIN l : k = Len(q) + 1
  BY <1>2, <1>4
<1>7. l[k] = NumberIn(Head(b))
  <2>1. k \in 1 .. Len(q) + Len(b) /\ ~(k <= Len(q)) /\ k - Len(q) = 1
    BY <1>2, <1>6
  <2> QED
    BY <1>2, <1>4, <2>1 DEF Place
<1>8. ASSUME NEW j \in 1 .. Len(l) - 1
      PROVE  m[j] = IF j < k THEN l[j] ELSE l[j + 1]
  <2>1. /\ j \in 1 .. Len(q) + Len(d) /\ j \in 1 .. Len(q) + Len(b)
        /\ j + 1 \in 1 .. Len(q) + Len(b)
    BY <1>2, <1>4
  <2>2. m[j] = Place(q, d, j) /\ l[j] = Place(q, b, j) /\ l[j + 1] = Place(q, b, j + 1)
    BY <1>4, <1>5, <2>1
  <2>3. CASE j < k
    <3>1. j <= Len(q)
      BY <1>2, <1>6, <2>3
    <3> QED
      BY <2>2, <2>3, <3>1 DEF Place
  <2>4. CASE ~(j < k)
    <3>1. /\ ~(j <= Len(q)) /\ ~(j + 1 <= Len(q)) /\ (j + 1) - Len(q) = (j - Len(q)) + 1
          /\ j - Len(q) \in 1 .. Len(d)
      BY <1>2, <1>6, <2>1, <2>4
    <3> QED
      BY <1>2, <2>2, <2>4, <3>1 DEF Place
  <2> QED
    BY <2>3, <2>4
<1>9. m = [j \in 1 .. Len(l) - 1 |-> IF j < k THEN l[j] ELSE l[j + 1]]
  <2>1. Len(m) = Len(l) - 1 /\ m = [j \in 1 .. Len(m) |-> m[j]]
    BY <1>2, <1>4, <1>5
  <2> QED
    BY <1>8, <2>1
<1>10. OneLess(l, m, NumberIn(Head(b)))
  BY <1>7, <1>9 DEF OneLess
<1> QED
  BY <1>1, <1>3, <1>10

(* ... unless it passes its number on: then it keeps its place.            *)
LEMMA LineKept ==
  ASSUME NEW q \in Seq(Message), NEW b \in Seq(Message), b # <<>>,
         NEW u \in Message, u.aliveStreams = NumberIn(Head(b))
  PROVE  OnTheWay(q \o <<u>>, Tail(b)) = OnTheWay(q, b)
<1>1. PICK d, p \in Seq(Message) : d = Tail(b) /\ p = q \o <<u>>
  BY PlusOneIs, TailIs
<1>2. /\ Len(q) \in Nat /\ Len(b) \in Nat \ {0} /\ Len(d) = Len(b) - 1
      /\ Len(p) = Len(q) + 1
      /\ Head(b) = b[1] /\ \A i \in 1 .. Len(d) : d[i] = b[i + 1]
      /\ p[Len(q) + 1] = u /\ \A i \in 1 .. Len(q) : p[i] = q[i]
  BY <1>1, PlusOneIs, TailIs
<1>3. PICK S, T, l, m :
        /\ l = OnTheWay(q, b) /\ m = OnTheWay(p, d)
        /\ S = Places(q, b) /\ T = Places(p, d)
  OBVIOUS
<1>4. /\ l \in Seq(S) /\ Len(l) = Len(q) + Len(b)
      /\ \A i \in 1 .. Len(q) + Len(b) : l[i] = Place(q, b, i)
  BY <1>3, LineIs
<1>5. /\ m \in Seq(T) /\ Len(m) = Len(p) + Len(d)
      /\ \A i \in 1 .. Len(p) + Len(d) : m[i] = Place(p, d, i)
  BY <1>3, LineIs
<1>6. ASSUME NEW i \in 1 .. Len(l)
      PROVE  m[i] = l[i]
  <2>1. m[i] = Place(p, d, i) /\ l[i] = Place(q, b, i)
    <3>1. i \in 1 .. Len(q) + Len(b) /\ i \in 1 .. Len(p) + Len(d)
      BY <1>2, <1>4
    <3> QED
      BY <1>4, <1>5, <3>1
  <2>2. CASE i <= Len(q)
    <3>1. i <= Len(p) /\ i \in 1 .. Len(q)
      BY <1>2, <2>2
    <3> QED
      BY <1>2, <2>1, <2>2, <3>1 DEF Place
  <2>3. CASE i = Len(q) + 1
    <3>1. i <= Len(p) /\ ~(i <= Len(q)) /\ i - Len(q) = 1
      BY <1>2, <2>3
    <3> QED
      BY <1>2, <2>1, <2>3, <3>1 DEF Place
  <2>4. CASE i > Len(q) + 1
    <3>1. /\ ~(i <= Len(p)) /\ ~(i <= Len(q)) /\ i - Len(q) = (i - Len(p)) + 1
          /\ i - Len(p) \in 1 .. Len(d)
      BY <1>2, <1>4, <2>4
    <3> QED
      BY <1>2, <2>1, <3>1 DEF Place
  <2> QED
    BY <1>2, <2>2, <2>3, <2>4
<1>7. m = l
  <2>1. Len(m) = Len(l) /\ \A i \in 1 .. Len(m) : m[i] = l[i]
    BY <1>2, <1>4, <1>5, <1>6
  <2> QED
    BY <1>4, <1>5, <2>1, SameLine
<1> QED
  BY <1>1, <1>3, <1>7

-----------------------------------------------------------------------------
(* What a step does to the fields c of a requester, which become d, and    *)
(* what it sends to the master.                                            *)
Ends(d, msgs) ==
  /\ ~d.running
  /\ \/ msgs = <<>>
     \/ \E n \in Message : msgs = <<n>> /\ NumberIn(n) \in {NoValue, d.aliveCount}

Counts(c, d, msgs) ==
  \/ d.running = c.running /\ d.aliveCount = c.aliveCount /\ msgs = <<>>
  \/ ~c.running /\ d.running /\ d.aliveCount = 0 /\ msgs = <<>>
  \/ c.running /\ d.running /\ d.aliveCount = c.aliveCount + 1 /\ msgs = <<>>
  \/ /\ c.running /\ Ends(d, msgs)
     /\ d.aliveCount = c.aliveCount \/ d.aliveCount = c.aliveCount + 1

(* The line grows by msgs.                                                 *)
Grows(e, msgs) == e["redis"] = box["redis"] /\ e["master"] = box["master"] \o msgs

LEMMA TakenGrows ==
  ASSUME BoxOK(box), NEW self \in Actors \ {"master", "redis"}
  PROVE  /\ Grows(Taken(self), <<>>)
         /\ \A to \in Actors \ {"master", "redis"} : \A msgs : Grows(Post(Taken(self), to, msgs), <<>>)
         /\ \A msgs : Grows(Post(Taken(self), "master", msgs), msgs)
         /\ \A to \in Actors \ {"master", "redis"} : \A msgs : Grows(Post(box, to, msgs), <<>>)
         /\ \A msgs : Grows(Post(box, "master", msgs), msgs)
<1>1. {"master", "redis"} \subseteq Actors
  BY DEF Actors
<1>2. box["master"] \o <<>> = box["master"]
  <2>1. PICK q \in Seq(Message) : q = box["master"]
    BY <1>1 DEF BoxOK
  <2>2. q \o <<>> = q
    OBVIOUS
  <2> QED
    BY <2>1, <2>2
<1>3. \A a \in {"master", "redis"} : Taken(self)[a] = box[a]
  BY <1>1 DEF BoxOK, Taken
<1>4. DOMAIN Taken(self) = Actors /\ DOMAIN box = Actors
  BY DEF BoxOK, Taken
<1>6. ASSUME NEW b, DOMAIN b = Actors, b["redis"] = box["redis"], b["master"] = box["master"]
      PROVE  /\ \A to \in Actors \ {"master", "redis"} : \A msgs : Grows(Post(b, to, msgs), <<>>)
             /\ \A msgs : Grows(Post(b, "master", msgs), msgs)
  <2>1. ASSUME NEW to \in Actors \ {"master", "redis"}, NEW msgs
        PROVE  Grows(Post(b, to, msgs), <<>>)
    <3>1. PICK e : e = Post(b, to, msgs)
      OBVIOUS
    <3>2. \A a \in Actors : a # to => Post(b, to, msgs)[a] = b[a]
      BY <1>6 DEF Post
    <3>3. e["redis"] = box["redis"] /\ e["master"] = box["master"]
      BY <1>1, <1>6, <3>1, <3>2
    <3> QED
      BY <1>2, <3>1, <3>3 DEF Grows
  <2>2. ASSUME NEW msgs
        PROVE  Grows(Post(b, "master", msgs), msgs)
    <3>1. PICK e : e = Post(b, "master", msgs)
      OBVIOUS
    <3>2. /\ \A a \in Actors : a # "master" => Post(b, "master", msgs)[a] = b[a]
          /\ Post(b, "master", msgs)["master"] = b["master"] \o msgs
      BY <1>1, <1>6 DEF Post
    <3>3. e["redis"] = box["redis"] /\ e["master"] = box["master"] \o msgs
      BY <1>1, <1>6, <3>1, <3>2
    <3> QED
      BY <3>1, <3>3 DEF Grows
  <2> QED
    BY <2>1, <2>2
<1> QED
  BY <1>2, <1>3, <1>4, <1>6 DEF Grows

(* Every handler of StreamCleanerActor.                                    *)
LEMMA CleanerCounts ==
  ASSUME TypeOK, CleanerStep
  PROVE  \E msgs \in Seq(Message) : Grows(box', msgs) /\ Counts(cleaner, cleaner', msgs)
<1>1. BoxOK(box) /\ cleaner \in CleanerStates
  BY DEF TypeOK, BoxOK
<1>2. /\ "cleaner" \in Actors \ {"master", "redis"} /\ "go2rtc" \in Actors \ {"master", "redis"}
      /\ <<>> \in Seq(Message)
  BY DEF Actors
<1>3. /\ Grows(Taken("cleaner"), <<>>)
      /\ \A msgs : Grows(Post(Taken("cleaner"), "go2rtc", msgs), <<>>)
      /\ \A msgs : Grows(Post(Taken("cleaner"), "master", msgs), msgs)
  BY <1>1, <1>2, TakenGrows
<1>4. ASSUME NEW a \in Nat, NEW k \in Nat, cleaner.running, ~cleaner'.running,
             cleaner'.aliveCount = cleaner.aliveCount \/ cleaner'.aliveCount = cleaner.aliveCount + 1,
             k = 0 \/ a = cleaner'.aliveCount,
             box' = Post(Taken("cleaner"), "master", <<CleanupCycleFinished(a, k)>>)
      PROVE  \E msgs \in Seq(Message) : Grows(box', msgs) /\ Counts(cleaner, cleaner', msgs)
  <2>1. PICK n \in Message : n = CleanupCycleFinished(a, k)
    BY ReportsAreMessages
  <2>2. NumberIn(n) \in {NoValue, cleaner'.aliveCount}
    BY <1>4, <2>1 DEF NumberIn, CleanupCycleFinished
  <2>3. Grows(box', <<n>>) /\ <<n>> \in Seq(Message)
    BY <1>3, <1>4, <2>1
  <2>4. Ends(cleaner', <<n>>)
    BY <1>4, <2>2 DEF Ends
  <2> QED
    BY <1>4, <2>3, <2>4 DEF Counts
<1>5. ASSUME cleaner'.running = cleaner.running, cleaner'.aliveCount = cleaner.aliveCount,
             \/ box' = Taken("cleaner")
             \/ \E msgs : box' = Post(Taken("cleaner"), "go2rtc", msgs)
      PROVE  \E msgs \in Seq(Message) : Grows(box', msgs) /\ Counts(cleaner, cleaner', msgs)
  BY <1>2, <1>3, <1>5 DEF Counts
<1>6. CASE CleanerIgnores
  BY <1>5, <1>6 DEF CleanerIgnores
<1>7. CASE CleanerBegins
  <2>1. ~cleaner.running /\ cleaner'.running /\ cleaner'.aliveCount = 0
    BY <1>7, CleanerGuards DEF CleanerBegins, CleanerHandles, Gets
  <2>2. Grows(box', <<>>)
    BY <1>3, <1>7 DEF CleanerBegins
  <2> QED
    BY <1>2, <2>1, <2>2 DEF Counts
<1>8. CASE CleanerListFailed \/ CleanerListEmpty
  <2>1. cleaner.running /\ ~cleaner'.running /\ cleaner'.aliveCount = cleaner.aliveCount
    BY <1>1, <1>8, CleanerGuards
    DEF CleanerListFailed, CleanerListEmpty, CleanerHandles, Gets, CleanerStates
  <2>2. CASE box' = Taken("cleaner")
    BY <1>2, <1>3, <2>1, <2>2 DEF Counts, Ends
  <2>3. CASE box' = Post(Taken("cleaner"), "master", <<CleanupCycleFinished(0, 0)>>)
    BY <1>4, <2>1, <2>3
  <2> QED
    BY <1>8, <2>2, <2>3 DEF CleanerListFailed, CleanerListEmpty
<1>9. CASE CleanerListReceived \/ CleanerSuspects \/ CleanerRemoves
  <2>1. cleaner'.running = cleaner.running /\ cleaner'.aliveCount = cleaner.aliveCount
    BY <1>1, <1>9 DEF CleanerListReceived, CleanerSuspects, CleanerRemoves, CleanerStates
  <2> QED
    BY <1>5, <1>9, <2>1 DEF CleanerListReceived, CleanerSuspects, CleanerRemoves
<1>10. CASE \/ CleanerHealthFailed \/ CleanerHealthAlive \/ CleanerSkips
            \/ CleanerRemovalCompleted
  <2>1. /\ Msg("cleaner").type \in {"StreamHealthChecked", "StreamRemovalCompleted"}
        /\ CleanerAccepts(Msg("cleaner"))
    BY <1>1, <1>10, CleanerSettles
  <2>2. PICK x \in CleanerStates :
          /\ CompleteStream(x) /\ x.running = cleaner.running
          /\ x.aliveCount = cleaner.aliveCount \/ x.aliveCount = cleaner.aliveCount + 1
    BY <1>1, <1>10, CleanerSettles
  <2>3. cleaner.running /\ x.running
    BY <2>1, <2>2, CleanerGuards
  <2>4. /\ cleaner'.aliveCount = x.aliveCount
        /\ cleaner'.running <=> cleaner'.outstanding # 0
        /\ cleaner'.running => box' = Taken("cleaner")
        /\ ~cleaner'.running =>
             box' = Post(Taken("cleaner"), "master",
                         <<CleanupCycleFinished(x.aliveCount, x.removedCount)>>)
    BY <2>2, <2>3, CompleteStreamLeaves
  <2>5. CASE ~cleaner'.running
    <3>1. x.aliveCount \in Nat /\ x.removedCount \in Nat
      BY DEF CleanerStates
    <3> QED
      BY <1>4, <2>2, <2>3, <2>4, <2>5, <3>1
  <2>6. CASE cleaner'.running
    <3>1. cleaner'.running = cleaner.running
      BY <1>1, <2>2, <2>3, <2>6, CleanerTypeOK DEF TypeOK, CleanerStates
    <3>2. Grows(box', <<>>)
      BY <1>3, <2>4, <2>6
    <3> QED
      BY <1>2, <2>2, <2>3, <2>4, <2>6, <3>1, <3>2 DEF Counts
  <2> QED
    BY <2>5, <2>6
<1> QED
  BY <1>6, <1>7, <1>8, <1>9, <1>10 DEF CleanerStep, CleanerNext

(* Every handler of StreamCountActor.                                      *)
LEMMA CountCounts ==
  ASSUME TypeOK, CountStep
  PROVE  \E msgs \in Seq(Message) : Grows(box', msgs) /\ Counts(count, count', msgs)
<1>1. BoxOK(box) /\ count \in CounterStates
  BY DEF TypeOK, BoxOK
<1>2. /\ "count" \in Actors \ {"master", "redis"} /\ "go2rtc" \in Actors \ {"master", "redis"}
      /\ <<>> \in Seq(Message)
  BY DEF Actors
<1>3. /\ Grows(Taken("count"), <<>>)
      /\ \A msgs : Grows(Post(Taken("count"), "go2rtc", msgs), <<>>)
      /\ \A msgs : Grows(Post(Taken("count"), "master", msgs), msgs)
  BY <1>1, <1>2, TakenGrows
<1>4. ASSUME NEW a \in Nat, count.running, ~count'.running,
             count'.aliveCount = count.aliveCount \/ count'.aliveCount = count.aliveCount + 1,
             \/ box' = Post(Taken("count"), "master", <<AliveStreamCountCalculated(a, TRUE)>>)
             \/ /\ a = count'.aliveCount
                /\ box' = Post(Taken("count"), "master", <<AliveStreamCountCalculated(a, FALSE)>>)
      PROVE  \E msgs \in Seq(Message) : Grows(box', msgs) /\ Counts(count, count', msgs)
  <2>1. PICK n \in Message :
          /\ box' = Post(Taken("count"), "master", <<n>>)
          /\ NumberIn(n) \in {NoValue, count'.aliveCount}
    BY <1>4, ReportsAreMessages DEF NumberIn, AliveStreamCountCalculated
  <2>2. Grows(box', <<n>>) /\ <<n>> \in Seq(Message)
    BY <1>3, <2>1
  <2>3. Ends(count', <<n>>)
    BY <1>4, <2>1 DEF Ends
  <2> QED
    BY <1>4, <2>2, <2>3 DEF Counts
<1>5. ASSUME count'.running = count.running, count'.aliveCount = count.aliveCount,
             \/ box' = Taken("count")
             \/ \E msgs : box' = Post(Taken("count"), "go2rtc", msgs)
      PROVE  \E msgs \in Seq(Message) : Grows(box', msgs) /\ Counts(count, count', msgs)
  BY <1>2, <1>3, <1>5 DEF Counts
<1>6. CASE CountIgnores
  BY <1>5, <1>6 DEF CountIgnores
<1>7. CASE CountBegins
  <2>1. ~count.running /\ count'.running /\ count'.aliveCount = 0
    BY <1>7, CountGuards DEF CountBegins, CountHandles, Gets
  <2>2. Grows(box', <<>>)
    BY <1>3, <1>7 DEF CountBegins
  <2> QED
    BY <1>2, <2>1, <2>2 DEF Counts
<1>8. CASE CountListFailed \/ CountListEmpty \/ CountHealthFailed
  <2>1. count.running
    BY <1>8, CountGuards
    DEF CountListFailed, CountListEmpty, CountHealthFailed, CountHandles, Gets
  <2>2. FinishCountWithError \/ FinishCount(count)
    BY <1>8 DEF CountListFailed, CountListEmpty, CountHealthFailed
  <2>3. /\ ~count'.running /\ count'.aliveCount = count.aliveCount
        /\ \/ box' = Post(Taken("count"), "master", <<AliveStreamCountCalculated(0, TRUE)>>)
           \/ box' = Post(Taken("count"), "master",
                          <<AliveStreamCountCalculated(count.aliveCount, FALSE)>>)
    BY <1>1, <2>2, FinishLeaves, FinishWithErrorLeaves
  <2>4. count.aliveCount \in Nat
    BY <1>1 DEF CounterStates
  <2> QED
    BY <1>4, <2>1, <2>3, <2>4
<1>9. CASE CountListReceived \/ CountSuspects
  <2>1. count'.running = count.running /\ count'.aliveCount = count.aliveCount
    BY <1>1, <1>9 DEF CountListReceived, CountSuspects, CounterStates
  <2> QED
    BY <1>5, <1>9, <2>1 DEF CountListReceived, CountSuspects
<1>10. CASE CountHealthAlive \/ CountConfirmsDead
  <2>1. Msg("count").type = "StreamHealthChecked" /\ CountAccepts(Msg("count"))
    BY <1>1, <1>10, CountSettles
  <2>2. PICK x \in CounterStates :
          /\ CompleteCheck(x) /\ x.running = count.running
          /\ x.aliveCount = count.aliveCount \/ x.aliveCount = count.aliveCount + 1
    BY <1>1, <1>10, CountSettles
  <2>3. count.running /\ x.running
    BY <2>1, <2>2, CountGuards
  <2>4. /\ count'.aliveCount = x.aliveCount
        /\ count'.running => box' = Taken("count")
        /\ ~count'.running =>
             box' = Post(Taken("count"), "master",
                         <<AliveStreamCountCalculated(x.aliveCount, FALSE)>>)
    BY <2>2, <2>3, CompleteCheckLeaves
  <2>5. CASE ~count'.running
    <3>1. x.aliveCount \in Nat
      BY DEF CounterStates
    <3> QED
      BY <1>4, <2>2, <2>3, <2>4, <2>5, <3>1
  <2>6. CASE count'.running
    <3>1. count'.running = count.running
      BY <1>1, <2>2, <2>3, <2>6, CountTypeOK DEF TypeOK, CounterStates
    <3>2. Grows(box', <<>>)
      BY <1>3, <2>4, <2>6
    <3> QED
      BY <1>2, <2>2, <2>3, <2>4, <2>6, <3>1, <3>2 DEF Counts
  <2> QED
    BY <2>5, <2>6
<1> QED
  BY <1>6, <1>7, <1>8, <1>9, <1>10 DEF CountStep, CountNext

-----------------------------------------------------------------------------
(* Publication's next-state relation between values of its variables.      *)
PublicationStep(p, t, l, k, q, u, m, j) ==
  \/ q = p /\ u = t /\ m = l /\ j = k
  \/ \E r \in Requesters :
       /\ j = k
       /\ \/ r \notin p /\ q = p \union {r} /\ u = [t EXCEPT ![r] = 0] /\ m = l
          \/ r \in p /\ q = p /\ u = [t EXCEPT ![r] = t[r] + 1] /\ m = l
          \/ /\ r \in p /\ q = p \ {r}
             /\ u = t \/ u = [t EXCEPT ![r] = t[r] + 1]
             /\ m = l \/ m = Append(l, NoValue) \/ m = Append(l, u[r])
  \/ /\ q = p /\ u = t /\ j = k
     /\ m = Append(l, NoValue) \/ m = Append(Append(l, NoValue), NoValue)
  \/ /\ q = p /\ u = t /\ j = k
     /\ OneLess(l, m, NoValue)
  \/ /\ q = p /\ u = t /\ l # <<>> /\ m = Tail(l)
     /\ \/ j = k
        \/ Head(l) # NoValue /\ j = Head(l)

(* Who counts, and how far they are.                                       *)
Busy(c, k) == {r \in Requesters : IF r = "cleaner" THEN c.running ELSE k.running}

Totals(c, k) ==
  [r \in Requesters |-> IF r = "cleaner" THEN c.aliveCount ELSE k.aliveCount]

(* A step of one requester changes one of the two.                         *)
LEMMA OneCounts ==
  ASSUME NEW c, NEW k, NEW d
  PROVE  /\ Busy(d, k) = IF d.running THEN Busy(c, k) \union {"cleaner"}
                                     ELSE Busy(c, k) \ {"cleaner"}
         /\ Totals(d, k) = [Totals(c, k) EXCEPT !["cleaner"] = d.aliveCount]
         /\ "cleaner" \in Busy(c, k) <=> c.running
         /\ Totals(c, k)["cleaner"] = c.aliveCount
         /\ Busy(c, d) = IF d.running THEN Busy(c, k) \union {"count"}
                                     ELSE Busy(c, k) \ {"count"}
         /\ Totals(c, d) = [Totals(c, k) EXCEPT !["count"] = d.aliveCount]
         /\ "count" \in Busy(c, k) <=> k.running
         /\ Totals(c, k)["count"] = k.aliveCount
BY DEF Busy, Totals, Requesters

(* A line that grows by one message, two or none.                          *)
LEMMA LineOf ==
  ASSUME BoxOK(box), NEW e, NEW msgs, Grows(e, msgs),
         NEW l, l = OnTheWay(box["redis"], box["master"]),
         NEW m, m = OnTheWay(e["redis"], e["master"])
  PROVE  /\ msgs = <<>> => m = l
         /\ \A n \in Message : msgs = <<n>> => m = Append(l, NumberIn(n))
         /\ \A n, o \in Message :
              msgs = <<n, o>> => m = Append(Append(l, NumberIn(n)), NumberIn(o))
<1>1. PICK q, b \in Seq(Message) : q = box["redis"] /\ b = box["master"]
  BY DEF BoxOK, Actors
<1>2. l = OnTheWay(q, b) /\ m = OnTheWay(q, b \o msgs)
  BY <1>1 DEF Grows
<1>3. b \o <<>> = b
  OBVIOUS
<1>4. ASSUME NEW n \in Message, NEW o \in Message
      PROVE  OnTheWay(q, b \o <<n, o>>) = Append(Append(l, NumberIn(n)), NumberIn(o))
  <2>1. PICK d \in Seq(Message) : d = b \o <<n>>
    BY PlusOneIs
  <2>2. d \o <<o>> = b \o <<n, o>>
    <3>1. PICK f, g, s \in Seq(Message) : s = <<n, o>> /\ f = d \o <<o>> /\ g = b \o s
      <4>1. <<n, o>> \in Seq(Message) /\ d \o <<o>> \in Seq(Message)
        BY PlusOneIs
      <4>2. \A s \in Seq(Message) : b \o s \in Seq(Message)
        OBVIOUS
      <4> QED
        BY <4>1, <4>2
    <3>2. Len(s) = 2 /\ s[1] = n /\ s[2] = o
      BY <3>1
    <3>3. /\ Len(b) \in Nat /\ Len(g) = Len(b) + 2
          /\ \A i \in 1 .. Len(b) : g[i] = b[i]
          /\ \A i \in 1 .. 2 : g[Len(b) + i] = s[i]
      BY <3>1, <3>2
    <3>4. /\ Len(d) = Len(b) + 1 /\ d[Len(b) + 1] = n /\ \A i \in 1 .. Len(b) : d[i] = b[i]
      BY <2>1, PlusOneIs
    <3>5. /\ Len(f) = Len(d) + 1 /\ f[Len(d) + 1] = o /\ \A i \in 1 .. Len(d) : f[i] = d[i]
      BY <3>1, PlusOneIs
    <3>6. ASSUME NEW i \in 1 .. Len(f)
          PROVE  f[i] = g[i]
      <4>1. i \in 1 .. Len(b) \/ i = Len(b) + 1 \/ i = Len(b) + 2
        BY <3>3, <3>4, <3>5, SMTT(30)
      <4>2. g[Len(b) + 1] = n /\ g[Len(b) + 2] = o
        BY <3>2, <3>3
      <4>3. CASE i \in 1 .. Len(b)
        BY <3>3, <3>4, <3>5, <4>3
      <4>4. CASE i = Len(b) + 1
        BY <3>3, <3>4, <3>5, <4>2, <4>4
      <4>5. CASE i = Len(b) + 2
        BY <3>3, <3>4, <3>5, <4>2, <4>5
      <4> QED
        BY <4>1, <4>3, <4>4, <4>5
    <3>7. Len(f) = Len(g)
      BY <3>3, <3>4, <3>5
    <3>8. f = g
      BY <3>6, <3>7, SameLine
    <3> QED
      BY <3>1, <3>8
  <2>3. OnTheWay(q, d) = Append(l, NumberIn(n))
    BY <1>2, <2>1, LineGrows
  <2>4. OnTheWay(q, d \o <<o>>) = Append(OnTheWay(q, d), NumberIn(o))
    BY LineGrows
  <2> QED
    BY <2>2, <2>3, <2>4
<1>5. \A n \in Message : OnTheWay(q, b \o <<n>>) = Append(l, NumberIn(n))
  BY <1>2, LineGrows
<1> QED
  BY <1>2, <1>3, <1>4, <1>5

(* The steps of a requester are steps of a runner.                         *)
LEMMA CountsMaps ==
  ASSUME NEW r \in Requesters, NEW p, NEW t, DOMAIN t = Requesters, NEW l, NEW k,
         t = [x \in Requesters |-> t[x]],
         NEW c, NEW d, r \in p <=> c.running, t[r] = c.aliveCount,
         NEW q, q = IF d.running THEN p \union {r} ELSE p \ {r},
         NEW u, u = [t EXCEPT ![r] = d.aliveCount],
         NEW msgs, Counts(c, d, msgs),
         NEW m, msgs = <<>> => m = l,
         \A n \in Message : msgs = <<n>> => m = Append(l, NumberIn(n))
  PROVE  PublicationStep(p, t, l, k, q, u, m, k)
<1>1. [t EXCEPT ![r] = t[r]] = t /\ u[r] = d.aliveCount
  OBVIOUS
<1>2. CASE d.running = c.running /\ d.aliveCount = c.aliveCount /\ msgs = <<>>
  <2>1. q = p
    BY <1>2
  <2>2. u = t
    BY <1>1, <1>2
  <2> QED
    BY <1>2, <2>1, <2>2 DEF PublicationStep
<1>3. CASE ~c.running /\ d.running /\ d.aliveCount = 0 /\ msgs = <<>>
  <2>1. r \notin p /\ q = p \union {r} /\ u = [t EXCEPT ![r] = 0] /\ m = l
    BY <1>3
  <2> QED
    BY <2>1 DEF PublicationStep
<1>4. CASE c.running /\ d.running /\ d.aliveCount = c.aliveCount + 1 /\ msgs = <<>>
  <2>1. r \in p /\ q = p /\ u = [t EXCEPT ![r] = t[r] + 1] /\ m = l
    BY <1>4
  <2> QED
    BY <2>1 DEF PublicationStep
<1>5. CASE /\ c.running /\ Ends(d, msgs)
           /\ d.aliveCount = c.aliveCount \/ d.aliveCount = c.aliveCount + 1
  <2>1. r \in p /\ q = p \ {r}
    BY <1>5 DEF Ends
  <2>2. u = t \/ u = [t EXCEPT ![r] = t[r] + 1]
    BY <1>1, <1>5
  <2>3. m = l \/ m = Append(l, NoValue) \/ m = Append(l, u[r])
    BY <1>1, <1>5 DEF Ends
  <2> QED
    BY <2>1, <2>2, <2>3 DEF PublicationStep
<1> QED
  BY <1>2, <1>3, <1>4, <1>5 DEF Counts

-----------------------------------------------------------------------------
(* The master's part: a number keeps its place, anything else leaves.      *)
LEMMA MasterPublication ==
  ASSUME TypeOK, MasterStep, NEW p, NEW t, NEW k,
         NEW l, l = OnTheWay(box["redis"], box["master"]),
         NEW m, m = OnTheWay(box'["redis"], box'["master"])
  PROVE  PublicationStep(p, t, l, k, p, t, m, k)
<1>1. BoxOK(box) /\ {"master", "redis", "cleaner", "count", "action"} \subseteq Actors
  BY DEF TypeOK, BoxOK, Actors
<1>2. box["master"] # <<>>
  BY DEF MasterStep, MasterNext, MasterStartsCleanup, MasterStartsCount,
         MasterForwardsAnswer, MasterForwardsRemoval, MasterRequestsAction,
         MasterDropsReport, MasterPublishesReport, MasterDropsCount,
         MasterPublishesCount, Gets
<1>3. PICK q, b \in Seq(Message) : q = box["redis"] /\ b = box["master"]
  BY <1>1 DEF BoxOK
<1>4. PICK h \in Message : h = Head(b) /\ h = Msg("master")
  BY <1>1, <1>2, <1>3, TakenOK DEF Msg
<1>5. PICK e : e = Taken("master")
  OBVIOUS
<1>6. /\ DOMAIN e = Actors /\ e["master"] = Tail(b) /\ e["redis"] = q
  BY <1>1, <1>3, <1>5 DEF Taken, BoxOK
<1>7. CASE NumberIn(h) = NoValue /\ box'["redis"] = q /\ box'["master"] = Tail(b)
  <2>1. m = OnTheWay(q, Tail(b)) /\ l = OnTheWay(q, b)
    BY <1>3, <1>7
  <2>2. OneLess(l, OnTheWay(q, Tail(b)), NumberIn(Head(b)))
    <3>1. b # <<>>
      BY <1>2, <1>3
    <3> QED
      BY <2>1, <3>1, LineLeft
  <2>3. OneLess(l, m, NoValue)
    BY <1>4, <1>7, <2>1, <2>2
  <2> QED
    BY <2>3 DEF PublicationStep
<1>8. ASSUME NEW to \in {"cleaner", "count", "action"}, NEW msgs, NEW f, DOMAIN f = Actors
      PROVE  /\ Post(f, to, msgs)["redis"] = f["redis"]
             /\ Post(f, to, msgs)["master"] = f["master"]
             /\ DOMAIN Post(f, to, msgs) = Actors
  BY <1>1, <1>8 DEF Post
<1>9. CASE MasterPublishesReport \/ MasterPublishesCount
  <2>1. NumberIn(h) = h.aliveStreams /\ h.aliveStreams \in Nat
    BY <1>4, <1>9, FieldsOfMessages
    DEF MasterPublishesReport, MasterPublishesCount, Gets, NumberIn
  <2>2. PICK u \in Message : u = UpdateStreamCount(h.aliveStreams)
    BY <2>1, ReportsAreMessages
  <2>3. u.aliveStreams = NumberIn(Head(b))
    BY <1>4, <2>1, <2>2 DEF UpdateStreamCount
  <2>4. box' = Post(e, "redis", <<u>>)
    BY <1>4, <1>5, <1>9, <2>2 DEF MasterPublishesReport, MasterPublishesCount
  <2>5. PICK f : f = Post(e, "redis", <<u>>)
    OBVIOUS
  <2>6. f["redis"] = q \o <<u>> /\ f["master"] = Tail(b)
    BY <1>1, <1>6, <2>5 DEF Post
  <2>7. m = OnTheWay(q \o <<u>>, Tail(b)) /\ l = OnTheWay(q, b)
    BY <1>3, <2>4, <2>5, <2>6
  <2>8. m = l
    BY <1>2, <1>3, <2>3, <2>7, LineKept
  <2> QED
    BY <2>8 DEF PublicationStep
<1>10. CASE MasterDropsReport \/ MasterDropsCount
  <2>1. NumberIn(h) = NoValue /\ box' = e
    BY <1>4, <1>5, <1>10 DEF MasterDropsReport, MasterDropsCount, Gets, NumberIn
  <2> QED
    BY <1>6, <1>7, <2>1
<1>11. CASE \/ MasterStartsCleanup \/ MasterStartsCount \/ MasterForwardsAnswer
            \/ MasterForwardsRemoval \/ MasterRequestsAction
  <2>1. NumberIn(h) = NoValue
    BY <1>4, <1>11 DEF MasterStartsCleanup, MasterStartsCount, MasterForwardsAnswer,
                       MasterForwardsRemoval, MasterRequestsAction, Gets, NumberIn
  <2>2. \/ \E to \in {"cleaner", "count", "action"} : \E msgs : box' = Post(e, to, msgs)
        \/ \E msgs, more : box' = Post(Post(e, "cleaner", msgs), "count", more)
    BY <1>5, <1>11 DEF MasterStartsCleanup, MasterStartsCount, MasterForwardsAnswer,
                       MasterForwardsRemoval, MasterRequestsAction
  <2>3. CASE \E to \in {"cleaner", "count", "action"} : \E msgs : box' = Post(e, to, msgs)
    BY <1>6, <1>7, <1>8, <2>1, <2>3
  <2>4. ASSUME NEW msgs, NEW more, box' = Post(Post(e, "cleaner", msgs), "count", more)
        PROVE  PublicationStep(p, t, l, k, p, t, m, k)
    <3>1. PICK f : f = Post(e, "cleaner", msgs)
      OBVIOUS
    <3>2. DOMAIN f = Actors /\ f["redis"] = q /\ f["master"] = Tail(b)
      BY <1>6, <1>8, <3>1
    <3>3. box' = Post(f, "count", more)
      BY <2>4, <3>1
    <3> QED
      BY <1>7, <1>8, <2>1, <3>2, <3>3
  <2> QED
    BY <2>2, <2>3, <2>4
<1> QED
  BY <1>9, <1>10, <1>11 DEF MasterStep, MasterNext

(* The Redis actor's: the first number of the line is written or lost.     *)
LEMMA RedisPublication ==
  ASSUME TypeOK, RedisStep, NEW p, NEW t,
         NEW l, l = OnTheWay(box["redis"], box["master"]),
         NEW m, m = OnTheWay(box'["redis"], box'["master"]),
         NEW k, k = redis.key, NEW j, j = redis'.key
  PROVE  PublicationStep(p, t, l, k, p, t, m, j)
<1>1. BoxOK(box) /\ {"master", "redis"} \subseteq Actors
  BY DEF TypeOK, BoxOK, Actors
<1>2. Gets("redis", "UpdateStreamCount") /\ box' = Taken("redis")
  BY DEF RedisStep, RedisNext, RedisDisabled, RedisPingFails, RedisSetFails, RedisSets,
         RedisUpdates
<1>3. PICK q, b \in Seq(Message) : q = box["redis"] /\ b = box["master"]
  BY <1>1 DEF BoxOK
<1>4. PICK h \in Message : h = Head(q) /\ h = Msg("redis")
  BY <1>1, <1>2, <1>3, TakenOK DEF Msg, Gets
<1>5. q # <<>> /\ h.aliveStreams \in Nat
  BY <1>2, <1>3, <1>4, FieldsOfMessages DEF Gets
<1>6. PICK e : e = Taken("redis")
  OBVIOUS
<1>7. e["redis"] = Tail(q) /\ e["master"] = b
  BY <1>1, <1>3, <1>6 DEF Taken, BoxOK
<1>8. /\ l # <<>> /\ Head(l) = h.aliveStreams /\ m = Tail(l)
  BY <1>2, <1>3, <1>4, <1>5, <1>6, <1>7, LineAdvances
<1>9. j = k \/ j = h.aliveStreams
  <2>1. redis \in [connected : BOOLEAN, key : Nat \cup {NoValue}]
    BY DEF TypeOK
  <2>2. redis'.key = redis.key \/ redis'.key = Msg("redis").aliveStreams
    BY <2>1 DEF RedisStep, RedisNext, RedisDisabled, RedisPingFails, RedisSetFails, RedisSets
  <2> QED
    BY <1>4, <2>2
<1>10. Head(l) # NoValue
  BY <1>5, <1>8, RedisAssumption
<1> QED
  BY <1>8, <1>9, <1>10 DEF PublicationStep

(* Everybody else's: answers and triggers take a place in the line.        *)
LEMMA OthersPublication ==
  ASSUME TypeOK, NEW p, NEW t, NEW k,
         \/ Go2RTCStep \/ ActionStep \/ CronFires \/ TickFires
         \/ CameraChanges \/ UNCHANGED vars
         \/ \E check \in sleeping : WakeUp(check),
         NEW l, l = OnTheWay(box["redis"], box["master"]),
         NEW m, m = OnTheWay(box'["redis"], box'["master"])
  PROVE  PublicationStep(p, t, l, k, p, t, m, k)
<1>1. BoxOK(box) /\ {"go2rtc", "action"} \subseteq Actors \ {"master", "redis"}
  BY DEF TypeOK, BoxOK, Actors
<1>2. ASSUME Grows(box', <<>>)
      PROVE  PublicationStep(p, t, l, k, p, t, m, k)
  <2>1. m = l
    BY <1>1, <1>2, LineOf
  <2> QED
    BY <2>1 DEF PublicationStep
<1>3. ASSUME NEW n \in Message, NumberIn(n) = NoValue, Grows(box', <<n>>)
      PROVE  PublicationStep(p, t, l, k, p, t, m, k)
  <2>1. m = Append(l, NoValue)
    BY <1>1, <1>3, LineOf
  <2> QED
    BY <2>1 DEF PublicationStep
<1>4. ASSUME NEW n \in Message, NEW o \in Message, NumberIn(n) = NoValue,
             NumberIn(o) = NoValue, Grows(box', <<n, o>>)
      PROVE  PublicationStep(p, t, l, k, p, t, m, k)
  <2>1. m = Append(Append(l, NoValue), NoValue)
    BY <1>1, <1>4, LineOf
  <2> QED
    BY <2>1 DEF PublicationStep
<1>5. CASE ActionStep
  <2>1. Grows(box', <<>>)
    BY <1>1, <1>5, TakenGrows DEF ActionStep, ActionExecutes
  <2> QED
    BY <1>2, <2>1
<1>6. ASSUME NEW check \in sleeping, WakeUp(check)
      PROVE  PublicationStep(p, t, l, k, p, t, m, k)
  <2>1. Grows(box', <<>>)
    BY <1>1, <1>6, TakenGrows DEF WakeUp, ConfirmationElapsed
  <2> QED
    BY <1>2, <2>1
<1>7. CASE CronFires \/ TickFires
  <2>1. PICK n \in Message : NumberIn(n) = NoValue /\ box' = Post(box, "master", <<n>>)
    <3>1. CASE CronFires
      BY <3>1, StartsAreMessages
      DEF CronFires, CleanupCron, TriggerCleanup, NumberIn, Message
    <3>2. CASE TickFires
      <4>1. PICK i \in Times : box' = Post(box, "master", <<CountAliveStreamsStarted(i)>>)
        BY <3>2 DEF TickFires, PublishTick
      <4>2. CountAliveStreamsStarted(i) \in Message
        BY DEF CountAliveStreamsStarted, Message, RunStarts
      <4>3. NumberIn(CountAliveStreamsStarted(i)) = NoValue
        BY DEF NumberIn, CountAliveStreamsStarted
      <4> QED
        BY <4>1, <4>2, <4>3
    <3> QED
      BY <1>7, <3>1, <3>2
  <2>2. Grows(box', <<n>>)
    BY <1>1, <2>1, TakenGrows
  <2> QED
    BY <1>3, <2>1, <2>2
<1>8. CASE CameraChanges \/ UNCHANGED vars
  <2>1. box' = box
    BY <1>8 DEF CameraChanges, StreamChanges, vars
  <2>2. m = l
    BY <2>1
  <2> QED
    BY <2>2 DEF PublicationStep
<1>9. CASE Go2RTCStep
  <2>1. PICK h : h = Msg("go2rtc")
    OBVIOUS
  <2>2. \A msgs : Replies(msgs) => Grows(box', msgs)
    BY <1>1, TakenGrows DEF Replies
  <2>3. h \in Message
    BY <1>1, <1>9, <2>1, TakenOK
    DEF Go2RTCStep, Go2RTCNext, Go2RTCFails, Go2RTCFetchFails,
        Go2RTCFetches, Go2RTCCheckFails, Go2RTCChecks, Go2RTCRemoveFails,
        Go2RTCRemoveUnknown, Go2RTCRemoves, Gets
  <2>4. CASE Go2RTCFetchFails \/ Go2RTCFetches
    <3>1. PICK list \in StreamLists \cup {<<>>}, failed \in BOOLEAN :
            Replies(<<StreamListFetched(h.triggeredAt, h.requestedBy, list, failed)>>)
      BY <2>1, <2>4 DEF Go2RTCFetchFails, Go2RTCFetches
    <3>2. PICK n : n = StreamListFetched(h.triggeredAt, h.requestedBy, list, failed)
      OBVIOUS
    <3>3. n \in Message
      BY <2>1, <2>3, <2>4, <3>2, FieldsOfMessages, StartsAreMessages
      DEF Go2RTCFetchFails, Go2RTCFetches, Gets
    <3>4. NumberIn(n) = NoValue
      BY <3>2 DEF NumberIn, StreamListFetched
    <3> QED
      BY <1>3, <2>2, <3>1, <3>2, <3>3, <3>4
  <2>5. CASE Go2RTCCheckFails \/ Go2RTCChecks
    <3>1. PICK n : /\ Replies(<<n>>)
                   /\ \/ n = StreamHealthChecked(h, FALSE, TRUE)
                      \/ n = StreamHealthChecked(h, status[h.stream] = "live", FALSE)
      BY <2>1, <2>5 DEF Go2RTCCheckFails, Go2RTCChecks
    <3>2. n \in Message
      BY <2>1, <2>3, <2>5, <3>1, CheckAnswersAreMessages
      DEF Go2RTCCheckFails, Go2RTCChecks, Gets
    <3>3. NumberIn(n) = NoValue
      BY <3>1 DEF NumberIn, StreamHealthChecked
    <3> QED
      BY <1>3, <2>2, <3>1, <3>2, <3>3
  <2>6. CASE Go2RTCRemoveFails \/ Go2RTCRemoveUnknown \/ Go2RTCRemoves
    <3>1. /\ StreamRemovalCompleted(h, FALSE, TRUE) \in Message
          /\ StreamRemovalCompleted(h, FALSE, FALSE) \in Message
          /\ StreamRemovalCompleted(h, TRUE, FALSE) \in Message
          /\ StreamRemoved(h.stream) \in Message
      BY <2>1, <2>3, <2>6, RemovalsAreMessages
      DEF Go2RTCRemoveFails, Go2RTCRemoveUnknown, Go2RTCRemoves, Gets
    <3>2. /\ \A done, failed : NumberIn(StreamRemovalCompleted(h, done, failed)) = NoValue
          /\ NumberIn(StreamRemoved(h.stream)) = NoValue
      BY DEF NumberIn, StreamRemovalCompleted, StreamRemoved
    <3>3. \/ Grows(box', <<StreamRemovalCompleted(h, FALSE, TRUE)>>)
          \/ Grows(box', <<StreamRemovalCompleted(h, FALSE, FALSE)>>)
          \/ Grows(box', <<StreamRemoved(h.stream), StreamRemovalCompleted(h, TRUE, FALSE)>>)
      BY <2>1, <2>2, <2>6 DEF Go2RTCRemoveFails, Go2RTCRemoveUnknown, Go2RTCRemoves
    <3> QED
      BY <1>3, <1>4, <3>1, <3>2, <3>3
  <2> QED
    BY <1>9, <2>4, <2>5, <2>6 DEF Go2RTCStep, Go2RTCNext, Go2RTCFails
<1> QED
  BY <1>5, <1>6, <1>7, <1>8, <1>9

-----------------------------------------------------------------------------
(* Initial states and steps of Manager are those of Publication.           *)
LEMMA PublicationInit == Init => Published!Init
<1> SUFFICES ASSUME Init
             PROVE  Published!Init
  OBVIOUS
<1>1. /\ ~cleaner.running /\ cleaner.aliveCount = 0 /\ ~count.running /\ count.aliveCount = 0
      /\ redis.key = NoValue
  BY DEF Init, CleanerInit, CountInit, RedisInit
<1>2. OnTheWay(box["redis"], box["master"]) \in {<<>>, <<NoValue>>}
  <2>1. PICK q, b : q = box["redis"] /\ b = box["master"]
    OBVIOUS
  <2>2. q = <<>> /\ (b = <<>> \/ b = <<TriggerCleanup>>)
    BY <2>1 DEF Init, MasterInit, Actors
  <2>3. OnTheWay(<<>>, <<>>) = <<>>
    BY DEF OnTheWay
  <2>4. OnTheWay(<<>>, <<TriggerCleanup>>) = Append(<<>>, NoValue)
    <3>1. PICK n \in Message : n = TriggerCleanup
      BY DEF Message
    <3>2. <<>> \in Seq(Message) /\ <<>> \o <<n>> = <<n>>
      OBVIOUS
    <3>3. NumberIn(n) = NoValue
      BY <3>1 DEF TriggerCleanup, NumberIn
    <3>4. OnTheWay(<<>>, <<>> \o <<n>>) = Append(OnTheWay(<<>>, <<>>), NumberIn(n))
      BY <3>2, LineGrows
    <3> QED
      BY <2>3, <3>1, <3>2, <3>3, <3>4
  <2>5. Append(<<>>, NoValue) = <<NoValue>>
    OBVIOUS
  <2> QED
    BY <2>1, <2>2, <2>3, <2>4, <2>5
<1> QED
  BY <1>1, <1>2 DEF Published!Init

LEMMA PublicationMaps ==
  ASSUME TypeOK, [Next]_vars,
         NEW p, p = Busy(cleaner, count), NEW t, t = Totals(cleaner, count),
         NEW l, l = OnTheWay(box["redis"], box["master"]), NEW k, k = redis.key,
         NEW q, q = Busy(cleaner', count'), NEW u, u = Totals(cleaner', count'),
         NEW m, m = OnTheWay(box'["redis"], box'["master"]), NEW j, j = redis'.key
  PROVE  PublicationStep(p, t, l, k, q, u, m, j)
<1>1. BoxOK(box) /\ DOMAIN t = Requesters /\ t = [x \in Requesters |-> t[x]]
  BY DEF TypeOK, BoxOK, Totals
<1>2. CASE CleanerStep
  <2>1. PICK d : d = cleaner'
    OBVIOUS
  <2>2. q = Busy(d, count) /\ u = Totals(d, count) /\ j = k
    BY <1>2, <2>1 DEF CleanerStep
  <2>3. PICK msgs \in Seq(Message) : Grows(box', msgs) /\ Counts(cleaner, d, msgs)
    BY <1>2, <2>1, CleanerCounts
  <2>4. /\ msgs = <<>> => m = l
        /\ \A n \in Message : msgs = <<n>> => m = Append(l, NumberIn(n))
    BY <1>1, <2>3, LineOf
  <2>5. PICK c : c = cleaner
    OBVIOUS
  <2>6. /\ q = IF d.running THEN p \union {"cleaner"} ELSE p \ {"cleaner"}
        /\ u = [t EXCEPT !["cleaner"] = d.aliveCount]
        /\ "cleaner" \in p <=> c.running
        /\ t["cleaner"] = c.aliveCount
    BY <2>2, <2>5, OneCounts
  <2>7. "cleaner" \in Requesters
    BY DEF Requesters
  <2>8. PublicationStep(p, t, l, k, q, u, m, k)
    BY <1>1, <2>3, <2>4, <2>5, <2>6, <2>7, CountsMaps
  <2> QED
    BY <2>2, <2>8
<1>3. CASE CountStep
  <2>1. PICK d : d = count'
    OBVIOUS
  <2>2. q = Busy(cleaner, d) /\ u = Totals(cleaner, d) /\ j = k
    BY <1>3, <2>1 DEF CountStep
  <2>3. PICK msgs \in Seq(Message) : Grows(box', msgs) /\ Counts(count, d, msgs)
    BY <1>3, <2>1, CountCounts
  <2>4. /\ msgs = <<>> => m = l
        /\ \A n \in Message : msgs = <<n>> => m = Append(l, NumberIn(n))
    BY <1>1, <2>3, LineOf
  <2>5. PICK c : c = count
    OBVIOUS
  <2>6. /\ q = IF d.running THEN p \union {"count"} ELSE p \ {"count"}
        /\ u = [t EXCEPT !["count"] = d.aliveCount]
        /\ "count" \in p <=> c.running
        /\ t["count"] = c.aliveCount
    BY <2>2, <2>5, OneCounts
  <2>7. "count" \in Requesters
    BY DEF Requesters
  <2>8. PublicationStep(p, t, l, k, q, u, m, k)
    BY <1>1, <2>3, <2>4, <2>5, <2>6, <2>7, CountsMaps
  <2> QED
    BY <2>2, <2>8
<1>4. ASSUME UNCHANGED <<cleaner, count>>
      PROVE  q = p /\ u = t
  BY <1>4
<1>5. CASE MasterStep
  <2>1. PublicationStep(p, t, l, k, p, t, m, k)
    BY <1>5, MasterPublication
  <2> QED
    BY <1>4, <1>5, <2>1 DEF MasterStep
<1>6. CASE RedisStep
  <2>1. PublicationStep(p, t, l, k, p, t, m, j)
    BY <1>6, RedisPublication
  <2> QED
    BY <1>4, <1>6, <2>1 DEF RedisStep
<1>7. CASE \/ Go2RTCStep \/ ActionStep \/ CronFires \/ TickFires
           \/ CameraChanges \/ UNCHANGED vars
           \/ \E check \in sleeping : WakeUp(check)
  <2>1. PublicationStep(p, t, l, k, p, t, m, k)
    BY <1>7, OthersPublication
  <2>2. UNCHANGED <<cleaner, count>> /\ j = k
    BY <1>7 DEF Go2RTCStep, ActionStep, CronFires, TickFires, CameraChanges, WakeUp, vars
  <2> QED
    BY <1>4, <2>1, <2>2
<1> QED
  BY <1>2, <1>3, <1>5, <1>6, <1>7 DEF Next

LEMMA PublicationNext ==
  TypeOK /\ [Next]_vars => [Published!Next]_(Published!numbers)
<1> SUFFICES ASSUME TypeOK, [Next]_vars
             PROVE  Published!Next \/ UNCHANGED Published!numbers
  OBVIOUS
<1>1. PICK p, t, l, k, q, u, m, j :
        /\ p = Busy(cleaner, count) /\ t = Totals(cleaner, count)
        /\ l = OnTheWay(box["redis"], box["master"]) /\ k = redis.key
        /\ q = Busy(cleaner', count') /\ u = Totals(cleaner', count')
        /\ m = OnTheWay(box'["redis"], box'["master"]) /\ j = redis'.key
  OBVIOUS
<1>2. PublicationStep(p, t, l, k, q, u, m, j)
  BY <1>1, PublicationMaps
<1>3. /\ p = {r \in Requesters : IF r = "cleaner" THEN cleaner.running ELSE count.running}
      /\ t = [r \in Requesters |->
                IF r = "cleaner" THEN cleaner.aliveCount ELSE count.aliveCount]
      /\ q = {r \in Requesters : IF r = "cleaner" THEN cleaner.running ELSE count.running}'
      /\ u = [r \in Requesters |->
                IF r = "cleaner" THEN cleaner.aliveCount ELSE count.aliveCount]'
      /\ m = OnTheWay(box["redis"], box["master"])'
  BY <1>1 DEF Busy, Totals, OnTheWay
<1>4. CASE q = p /\ u = t /\ m = l /\ j = k
  BY <1>1, <1>3, <1>4 DEF Published!numbers
<1>5. ASSUME NEW r \in Requesters, j = k, r \notin p, q = p \union {r},
             u = [t EXCEPT ![r] = 0], m = l
      PROVE  Published!Next
  BY <1>1, <1>3, <1>5 DEF Published!Next, Published!Begin
<1>6. ASSUME NEW r \in Requesters, j = k, r \in p, q = p,
             u = [t EXCEPT ![r] = t[r] + 1], m = l
      PROVE  Published!Next
  BY <1>1, <1>3, <1>6 DEF Published!Next, Published!CountOne
<1>7. ASSUME NEW r \in Requesters, j = k, r \in p, q = p \ {r},
             u = t \/ u = [t EXCEPT ![r] = t[r] + 1],
             m = l \/ m = Append(l, NoValue) \/ m = Append(l, u[r])
      PROVE  Published!Next
  BY <1>1, <1>3, <1>7 DEF Published!Next, Published!End
<1>8. CASE /\ q = p /\ u = t /\ j = k
           /\ m = Append(l, NoValue) \/ m = Append(Append(l, NoValue), NoValue)
  BY <1>1, <1>3, <1>8 DEF Published!Next, Published!Pass
<1>9. CASE q = p /\ u = t /\ j = k /\ OneLess(l, m, NoValue)
  BY <1>1, <1>3, <1>9 DEF Published!Next, Published!Leave, OneLess
<1>10. CASE /\ q = p /\ u = t /\ l # <<>> /\ m = Tail(l)
            /\ \/ j = k
               \/ Head(l) # NoValue /\ j = Head(l)
  BY <1>1, <1>3, <1>10 DEF Published!Next, Published!Write, Published!Lose
<1> QED
  BY <1>2, <1>4, <1>5, <1>6, <1>7, <1>8, <1>9, <1>10 DEF PublicationStep

(* The publisher, with two actors that count, the master and its mailbox,  *)
(* the Redis actor and its mailbox, implements Publication, for any        *)
(* streams, lists, instants and bounds: Redis is given the results of runs *)
(* only, and in the order in which the runs ended.                         *)
THEOREM PublicationRefines == Spec => ImplementsPublication
BY PublicationInit, PublicationNext, TypeCorrect, PTL
DEF Spec, Published!Spec, ImplementsPublication
===============================================================================
