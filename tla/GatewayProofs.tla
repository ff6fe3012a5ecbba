----------------------------- MODULE GatewayProofs -----------------------------
(***************************************************************************)
(* For any number of callers, requests, cameras, files and jobs: every     *)
(* call is answered about what it asked for, what a 201 names is there,    *)
(* no two calls are given the same job, and no job is made for nobody.     *)
(*                                                                         *)
(* The parts of the invariant take the values they are about as            *)
(* parameters: k is call, m masterBox, s snapBox, p capturing, b recordBox, *)
(* w worker, r reply and f files.                                          *)
(***************************************************************************)
EXTENDS Gateway, TLAPS

(* The request of caller c has gone to the master.                         *)
Asked(k, c) == k[c].at \notin {"none", "reading"}

CallsOK(k) ==
  /\ k \in [Callers -> Call]
  /\ \A c \in Callers : /\ k[c].at # "none" => k[c].request \in Requests
                        /\ k[c].at \in {"none", "reading", "waiting"} => k[c].code = 0

MasterOK(k, m) ==
  m \in Seq(Callers) /\ \A i \in 1 .. Len(m) : Asked(k, m[i])

(* A capture that is waiting or being made is what its caller asked for.   *)
SnapMeant(k, n) ==
  /\ n \in SnapshotRequests
  /\ Asked(k, n.caller)
  /\ k[n.caller].request.kind = "snapshot"
  /\ k[n.caller].request.cam = n.cam

SnapOK(k, s, p) ==
  /\ s \in Seq(SnapshotRequests)
  /\ \A i \in 1 .. Len(s) : SnapMeant(k, s[i])
  /\ p # Nothing => SnapMeant(k, p)

(* So is a request in the mailbox of the record actor.                     *)
IsRequest(n) == n.type \in {"start", "get"}

RecordMessages ==
  RecordRequests
    \cup [type : {"running", "failed"}, job : JobIds]
    \cup [type : {"completed"}, job : JobIds, place : Places \cup {NoPlace}]

RecordMeant(k, n) ==
  IsRequest(n) => /\ n.caller \in Callers
                  /\ Asked(k, n.caller)
                  /\ k[n.caller].request.kind = n.type
                  /\ n.type = "get" => k[n.caller].request.job = n.job

RecordOK(k, b) ==
  b \in Seq(RecordMessages) /\ \A i \in 1 .. Len(b) : RecordMeant(k, b[i])

WorkersOK(w) ==
  w \in [JobIds -> [stage : {"none", "done", "killed"} \cup LiveStages,
                    place : Places \cup {NoPlace}]]

(* x answers request q: it names the camera or the job of q, what it says  *)
(* is saved is in a file, and what it says is accepted has been started.   *)
Exists(f, q) == f[FileOf(q.cam)] # "none"

Answers(q, x, w, f) ==
  \/ /\ q.kind = "snapshot"
     /\ x \in SnapshotResults /\ x.cam = q.cam
     /\ x.saved => Exists(f, q)
  \/ /\ q.kind = "get"
     /\ \E code \in {200, 404} : \E status : x = RecordJobStatusResult(code, q.job, status)
  \/ /\ q.kind = "start"
     /\ \E code \in {202, 429, 500} : \E j, status :
          /\ x = StartRecordResult(code, j, status)
          /\ code = 202 => j \in JobIds /\ w[j].stage # "none"

RepliesOK(k, w, r, f) ==
  /\ DOMAIN r = Callers
  /\ \A c \in Callers :
       r[c] # NoReply => Asked(k, c) /\ Answers(k[c].request, r[c], w, f)

(* A caller has one request under way for the record actor, or one answer, *)
(* but never two of them.                                                  *)
Once(k, m, b, r) ==
  /\ \A i, j \in 1 .. Len(m) : m[i] = m[j] => i = j
  /\ \A i, j \in 1 .. Len(b) :
       IsRequest(b[i]) /\ IsRequest(b[j]) /\ b[i].caller = b[j].caller => i = j
  /\ \A i \in 1 .. Len(m), j \in 1 .. Len(b) : IsRequest(b[j]) => m[i] # b[j].caller
  /\ \A c \in Callers : r[c] # NoReply /\ k[c].request.kind # "snapshot" =>
       /\ \A i \in 1 .. Len(m) : m[i] # c
       /\ \A j \in 1 .. Len(b) : IsRequest(b[j]) => b[j].caller # c

FilesOK(f) ==
  /\ f \in [Files -> Cameras \cup {"none", "torn"}]
  /\ \A n \in Files : f[n] \in {"none", "torn"} \/ FileOf(f[n]) = n

(* A status code that has been chosen agrees with the answer and the file. *)
CodesOK(k, r, f) ==
  \A c \in Callers :
    /\ k[c].code = 201 => k[c].request.kind = "snapshot" /\ Exists(f, k[c].request)
    /\ k[c].code = 202 => k[c].request.kind = "start" /\ r[c].code = 202

Given(k, r, c) == r[c].code = 202 /\ k[c].request.kind = "start"

JobsDiffer(k, r) ==
  \A c, d \in Callers : c # d /\ Given(k, r, c) /\ Given(k, r, d) => r[c].job # r[d].job

(* The inductive invariant.                                                *)
Inv ==
  /\ CallsOK(call)
  /\ MasterOK(call, masterBox)
  /\ SnapOK(call, snapBox, capturing)
  /\ RecordOK(call, recordBox)
  /\ WorkersOK(worker)
  /\ RepliesOK(call, worker, reply, files)
  /\ Once(call, masterBox, recordBox, reply)
  /\ FilesOK(files)
  /\ CodesOK(call, reply, files)
  /\ JobsDiffer(call, reply)
  /\ main \in {"serving", "draining", "stopping", "exited"}
  /\ masterUp \in BOOLEAN

-----------------------------------------------------------------------------
(* Taking the oldest element of a queue, ...                               *)
LEMMA TailCells ==
  ASSUME NEW S, NEW q \in Seq(S), q # <<>>
  PROVE  /\ Tail(q) \in Seq(S) /\ Head(q) \in S /\ Head(q) = q[1]
         /\ 1 \in 1 .. Len(q) /\ Len(Tail(q)) = Len(q) - 1
         /\ \A i \in 1 .. Len(Tail(q)) : i + 1 \in 1 .. Len(q) /\ Tail(q)[i] = q[i + 1]
OBVIOUS

(* ... and adding a new one.                                               *)
LEMMA AppendCells ==
  ASSUME NEW S, NEW q \in Seq(S), NEW x \in S
  PROVE  /\ Append(q, x) \in Seq(S) /\ Len(Append(q, x)) = Len(q) + 1
         /\ \A i \in 1 .. Len(Append(q, x)) :
              \/ i \in 1 .. Len(q) /\ Append(q, x)[i] = q[i]
              \/ i = Len(q) + 1 /\ Append(q, x)[i] = x
OBVIOUS

-----------------------------------------------------------------------------
(* From k to l, no call forgets what it has asked for.                     *)
Proceeds(k, l) ==
  \A c \in Callers : /\ Asked(k, c) => Asked(l, c)
                     /\ k[c].at # "none" => l[c].request = k[c].request

(* From f to g no file disappears.                                         *)
Grows(f, g) == \A n \in Files : f[n] # "none" => g[n] # "none"

(* From w to v no goroutine is forgotten.                                  *)
Ages(w, v) == \A j \in JobIds : w[j].stage # "none" => v[j].stage # "none"

LEMMA MovesSame == \A k : Proceeds(k, k)
BY DEF Proceeds

LEMMA GrowsSame == \A f : Grows(f, f)
BY DEF Grows

LEMMA AgesSame == \A w : Ages(w, w)
BY DEF Ages

LEMMA AskedIsCalled == \A k, c : Asked(k, c) => k[c].at # "none"
BY DEF Asked

(* The queues and the answers stay right when calls move on, ...           *)
LEMMA MovedMaster ==
  ASSUME NEW k, NEW l, NEW m, MasterOK(k, m), Proceeds(k, l)
  PROVE  MasterOK(l, m)
<1>1. \A i \in 1 .. Len(m) : m[i] \in Callers
  BY DEF MasterOK
<1> QED
  BY <1>1 DEF MasterOK, Proceeds

LEMMA MovedSnapshot ==
  ASSUME NEW k, NEW l, NEW n, SnapMeant(k, n), Proceeds(k, l)
  PROVE  SnapMeant(l, n)
<1>1. n.caller \in Callers
  BY DEF SnapMeant, SnapshotRequests
<1> QED
  BY <1>1, AskedIsCalled DEF SnapMeant, Proceeds

LEMMA MovedSnapshots ==
  ASSUME NEW k, NEW l, NEW s, NEW p, SnapOK(k, s, p), Proceeds(k, l)
  PROVE  SnapOK(l, s, p)
BY MovedSnapshot DEF SnapOK

LEMMA MovedRecord ==
  ASSUME NEW k, NEW l, NEW b, RecordOK(k, b), Proceeds(k, l)
  PROVE  RecordOK(l, b)
<1>1. ASSUME NEW n, RecordMeant(k, n)
      PROVE  RecordMeant(l, n)
  BY <1>1, AskedIsCalled DEF RecordMeant, Proceeds
<1> QED
  BY <1>1 DEF RecordOK

LEMMA MovedOnce ==
  ASSUME NEW k, NEW l, NEW m, NEW b, NEW r, Once(k, m, b, r), Proceeds(k, l),
         \A c \in Callers : r[c] # NoReply => Asked(k, c)
  PROVE  Once(l, m, b, r)
<1>1. \A c \in Callers : r[c] # NoReply => l[c].request = k[c].request
  BY AskedIsCalled DEF Proceeds
<1> QED
  BY <1>1 DEF Once

(* ... and when files are written and goroutines started.                  *)
LEMMA FileIsThere ==
  ASSUME NEW f, NEW g, NEW c \in Cameras, Grows(f, g), f[FileOf(c)] # "none"
  PROVE  g[FileOf(c)] # "none"
BY DEF Grows, Files

LEMMA MovedAnswer ==
  ASSUME NEW q \in Requests, NEW x, NEW w, NEW v, NEW f, NEW g,
         Answers(q, x, w, f), Ages(w, v), Grows(f, g)
  PROVE  Answers(q, x, v, g)
<1>1. CASE /\ q.kind = "snapshot" /\ x \in SnapshotResults /\ x.cam = q.cam
           /\ x.saved => Exists(f, q)
  <2>1. q.cam \in Cameras
    BY <1>1, GatewayAssumption
  <2>2. Exists(f, q) => Exists(g, q)
    BY <2>1, FileIsThere DEF Exists
  <2> QED
    BY <1>1, <2>2 DEF Answers
<1>2. CASE /\ q.kind = "get"
           /\ \E code \in {200, 404} : \E status : x = RecordJobStatusResult(code, q.job, status)
  BY <1>2 DEF Answers
<1>3. CASE /\ q.kind = "start"
           /\ \E code \in {202, 429, 500} : \E j, status :
                /\ x = StartRecordResult(code, j, status)
                /\ code = 202 => j \in JobIds /\ w[j].stage # "none"
  BY <1>3 DEF Answers, Ages
<1> QED
  BY <1>1, <1>2, <1>3 DEF Answers

LEMMA MovedReplies ==
  ASSUME NEW k, NEW l, NEW w, NEW v, NEW r, NEW f, NEW g, CallsOK(k),
         RepliesOK(k, w, r, f), Proceeds(k, l), Ages(w, v), Grows(f, g)
  PROVE  RepliesOK(l, v, r, g)
<1>1. ASSUME NEW c \in Callers, r[c] # NoReply
      PROVE  Asked(l, c) /\ Answers(l[c].request, r[c], v, g)
  <2>1. Asked(k, c) /\ Answers(k[c].request, r[c], w, f)
    BY <1>1 DEF RepliesOK
  <2>2. Asked(l, c) /\ l[c].request = k[c].request /\ k[c].request \in Requests
    BY <2>1, AskedIsCalled DEF Proceeds, CallsOK
  <2>3. PICK q \in Requests : q = k[c].request
    BY <2>2
  <2>4. Answers(q, r[c], v, g)
    BY <2>1, <2>3, MovedAnswer
  <2> QED
    BY <2>2, <2>3, <2>4
<1> QED
  BY <1>1 DEF RepliesOK

(* An accepted job is an answer to a call that was asked.                  *)
LEMMA AcceptedIsReply ==
  \A x : x.code = 202 => x # NoReply
BY DEF NoReply

LEMMA MovedJobs ==
  ASSUME NEW k, NEW l, NEW r, JobsDiffer(k, r), Proceeds(k, l),
         \A c \in Callers : r[c] # NoReply => Asked(k, c)
  PROVE  JobsDiffer(l, r)
<1>1. \A c \in Callers : Given(l, r, c) => Given(k, r, c)
  BY AcceptedIsReply, AskedIsCalled DEF Given, Proceeds
<1> QED
  BY <1>1 DEF JobsDiffer

(* A code that is chosen stays right when the answers do.                  *)
LEMMA MovedCodes ==
  ASSUME NEW k, NEW l, NEW r, NEW u, NEW f, NEW g, CallsOK(k), CodesOK(k, r, f),
         Proceeds(k, l), Grows(f, g),
         \A c \in Callers : l[c].code \in {201, 202} => l[c].code = k[c].code,
         \A c \in Callers : k[c].request.kind = "start" /\ r[c].code = 202 => u[c] = r[c]
  PROVE  CodesOK(l, u, g)
<1> SUFFICES ASSUME NEW c \in Callers, l[c].code \in {201, 202}
             PROVE  /\ l[c].code = 201 =>
                         l[c].request.kind = "snapshot" /\ Exists(g, l[c].request)
                    /\ l[c].code = 202 =>
                         l[c].request.kind = "start" /\ u[c].code = 202
  BY DEF CodesOK
<1>1. l[c].code = k[c].code /\ k[c].at # "none"
  BY DEF CallsOK
<1>2. l[c].request = k[c].request /\ k[c].request \in Requests
  BY <1>1 DEF Proceeds, CallsOK
<1>3. CASE l[c].code = 201
  <2>1. k[c].request.kind = "snapshot" /\ Exists(f, k[c].request)
    BY <1>1, <1>3 DEF CodesOK
  <2>2. k[c].request.cam \in Cameras
    BY <1>2, <2>1, GatewayAssumption
  <2>3. PICK a \in Cameras : a = k[c].request.cam
    BY <2>2
  <2>4. g[FileOf(a)] # "none"
    BY <2>1, <2>3, FileIsThere DEF Exists
  <2> QED
    BY <1>2, <1>3, <2>1, <2>3, <2>4 DEF Exists
<1>4. CASE l[c].code = 202
  BY <1>1, <1>2, <1>4 DEF CodesOK
<1> QED
  BY <1>3, <1>4

-----------------------------------------------------------------------------
(* A call moves on by itself.  The answer that its handler writes agrees   *)
(* with the reply it has read.                                             *)
LEMMA AnswerCodeAgrees ==
  ASSUME NEW q \in Requests, NEW x, NEW w, NEW f, Answers(q, x, w, f)
  PROVE  /\ AnswerCode(q.kind, x) \in {0, 200, 201, 202, 404, 429, 500, 502}
         /\ AnswerCode(q.kind, x) = 201 => q.kind = "snapshot" /\ Exists(f, q)
         /\ AnswerCode(q.kind, x) = 202 => q.kind = "start" /\ x.code = 202
         /\ IsExpected(q.kind, x)
<1>1. CASE /\ q.kind = "snapshot" /\ x \in SnapshotResults /\ x.cam = q.cam
           /\ x.saved => Exists(f, q)
  BY <1>1 DEF AnswerCode, IsExpected, SnapshotResults
<1>2. CASE /\ q.kind = "get"
           /\ \E code \in {200, 404} : \E status : x = RecordJobStatusResult(code, q.job, status)
  BY <1>2 DEF AnswerCode, IsExpected, RecordJobStatusResult
<1>3. CASE /\ q.kind = "start"
           /\ \E code \in {202, 429, 500} : \E j, status :
                /\ x = StartRecordResult(code, j, status)
                /\ code = 202 => j \in JobIds /\ w[j].stage # "none"
  BY <1>3 DEF AnswerCode, IsExpected, StartRecordResult
<1> QED
  BY <1>1, <1>2, <1>3 DEF Answers

(* What a step of one handler changes of its call.                         *)
LEMMA CallWritten ==
  ASSUME NEW k \in [Callers -> Call], NEW c \in Callers, NEW a \in Stages,
         NEW l, l = [k EXCEPT ![c].at = a]
  PROVE  /\ l \in [Callers -> Call]
         /\ l[c].at = a /\ l[c].code = k[c].code /\ l[c].request = k[c].request
         /\ \A d \in Callers : d # c => l[d] = k[d]
BY DEF Call

LEMMA ArrivalFits == "reading" \in Stages /\ WriteTimeout \in 0 .. WriteTimeout
BY HttpAssumption DEF Stages, InProgress

LEMMA OneProceeds ==
  ASSUME NEW k, CallsOK(k), NEW c \in Callers, NEW l \in [Callers -> Call],
         \A d \in Callers : d # c => l[d] = k[d],
         l[c].at # "none" /\ l[c].request \in Requests,
         l[c].at \in {"reading", "waiting"} => l[c].code = 0,
         k[c].at # "none" => l[c].request = k[c].request,
         Asked(k, c) => l[c].at # "reading"
  PROVE  CallsOK(l) /\ Proceeds(k, l)
<1>1. CallsOK(l)
  BY DEF CallsOK
<1>2. Proceeds(k, l)
  BY DEF CallsOK, Proceeds, Asked
<1> QED
  BY <1>1, <1>2

LEMMA CallProceeds ==
  ASSUME Inv, UNCHANGED <<masterBox, snapBox, capturing, recordBox, worker, reply, files,
                          main, masterUp>>,
         CallsOK(call'), Proceeds(call, call'), CodesOK(call', reply, files)
  PROVE  Inv'
<1>1. PICK l : l = call'
  OBVIOUS
<1>2. Proceeds(call, l)
  BY <1>1
<1>3. \A c \in Callers : reply[c] # NoReply => Asked(call, c)
  BY DEF Inv, RepliesOK
<1>4. MasterOK(l, masterBox)
  BY <1>2, MovedMaster DEF Inv
<1>5. SnapOK(l, snapBox, capturing)
  BY <1>2, MovedSnapshots DEF Inv
<1>6. RecordOK(l, recordBox)
  BY <1>2, MovedRecord DEF Inv
<1>7. RepliesOK(l, worker, reply, files)
  BY <1>2, MovedReplies, GrowsSame, AgesSame DEF Inv
<1>8. Once(l, masterBox, recordBox, reply)
  BY <1>2, <1>3, MovedOnce DEF Inv
<1>9. JobsDiffer(l, reply)
  BY <1>2, <1>3, MovedJobs DEF Inv
<1> QED
  BY <1>1, <1>4, <1>5, <1>6, <1>7, <1>8, <1>9 DEF Inv

LEMMA ArrivesKeeps ==
  ASSUME Inv, NEW c \in Callers, Arrives(c)
  PROVE  Inv'
<1>1. PICK q \in Requests :
        call' = [call EXCEPT ![c].at = "reading", ![c].request = q, ![c].writeLeft = WriteTimeout]
  BY DEF Arrives, CallArrives
<1>2. call \in [Callers -> Call] /\ call[c].at = "none" /\ call[c].code = 0
  BY DEF Inv, CallsOK, Arrives, CallArrives, At
<1>3. PICK l : l = call'
  OBVIOUS
<1>4. /\ l \in [Callers -> Call]
      /\ l[c].at = "reading" /\ l[c].code = call[c].code /\ l[c].request = q
      /\ \A d \in Callers : d # c => l[d] = call[d]
  <2>1. PICK k \in Call : k = call[c]
    BY <1>2
  <2>2. PICK z : z = [k EXCEPT !.at = "reading", !.request = q, !.writeLeft = WriteTimeout]
    OBVIOUS
  <2>3. z \in Call /\ z.at = "reading" /\ z.code = k.code /\ z.request = q
    BY <2>2, ArrivalFits DEF Call
  <2>4. l = [call EXCEPT ![c] = z]
    BY <1>1, <1>2, <1>3, <2>1, <2>2
  <2> QED
    BY <1>2, <2>1, <2>3, <2>4
<1>5. CallsOK(l) /\ Proceeds(call, l)
  BY <1>2, <1>4, OneProceeds DEF Inv, Asked
<1>6. CodesOK(l, reply, files)
  <2>1. \A d \in Callers : l[d].code = call[d].code
    BY <1>4
  <2> QED
    BY <1>5, <2>1, MovedCodes, GrowsSame DEF Inv
<1> QED
  BY <1>3, <1>5, <1>6, CallProceeds DEF Arrives, actors, snapVars, CallArrives

(* A handler at work changes its own call only.                            *)
LEMMA HandlerProceeds ==
  ASSUME Inv, NEW c \in Callers, call[c].at \in InProgress,
         NEW l \in [Callers -> Call], \A d \in Callers : d # c => l[d] = call[d],
         l[c].at \notin {"none", "reading"}, l[c].at = "waiting" => l[c].code = 0,
         l[c].request = call[c].request,
         l[c].code = 201 => call[c].request.kind = "snapshot" /\ Exists(files, call[c].request),
         l[c].code = 202 => call[c].request.kind = "start" /\ reply[c].code = 202
  PROVE  CallsOK(l) /\ Proceeds(call, l) /\ CodesOK(l, reply, files)
<1>1. call[c].at # "none" /\ call[c].request \in Requests
  BY DEF Inv, CallsOK, InProgress
<1>2. CallsOK(l) /\ Proceeds(call, l)
  BY <1>1, OneProceeds DEF Inv
<1>3. CodesOK(l, reply, files)
  BY DEF CodesOK, Inv
<1> QED
  BY <1>2, <1>3

LEMMA HandlerRefusesKeeps ==
  ASSUME Inv, NEW c \in Callers, HandlerRefuses(c), UNCHANGED <<actors, main, masterUp>>
  PROVE  Inv'
<1>1. /\ call \in [Callers -> Call] /\ call[c].at \in InProgress
      /\ call[c].request \in Requests
  BY DEF Inv, CallsOK, HandlerRefuses, At, InProgress
<1>2. PICK x : x = Refusal(call[c].request)
  OBVIOUS
<1>3. x \in {400, 403, 404, 405}
  BY <1>1, <1>2, HttpAssumption DEF Refusal, HandlerRefuses
<1>4. x \in Codes /\ "writing" \in Stages
  BY <1>3 DEF Codes, Stages, InProgress
<1>5. PICK l : l = call'
  OBVIOUS
<1>6. l = [call EXCEPT ![c].at = "writing", ![c].code = x]
  BY <1>2, <1>5 DEF HandlerRefuses
<1>7. /\ l \in [Callers -> Call]
      /\ l[c].at = "writing" /\ l[c].code = x /\ l[c].request = call[c].request
      /\ \A d \in Callers : d # c => l[d] = call[d]
  BY <1>1, <1>4, <1>6 DEF Call
<1>8. CallsOK(l) /\ Proceeds(call, l) /\ CodesOK(l, reply, files)
  BY <1>1, <1>3, <1>7, HandlerProceeds
<1> QED
  BY <1>5, <1>8, CallProceeds DEF HandlerRefuses, actors, snapVars

LEMMA HandlerGetsResultKeeps ==
  ASSUME Inv, NEW c \in Callers, HandlerGetsResult(c), UNCHANGED <<actors, main, masterUp>>
  PROVE  Inv'
<1>1. /\ call \in [Callers -> Call] /\ call[c].at \in InProgress
      /\ call[c].request \in Requests
  BY DEF Inv, CallsOK, HandlerGetsResult, At, InProgress
<1>2. PICK q \in Requests : q = call[c].request
  BY <1>1
<1>3. PICK y : y = reply[c]
  OBVIOUS
<1>4. PICK x : x = AnswerCode(q.kind, y)
  OBVIOUS
<1>5. Answers(q, y, worker, files)
  BY <1>2, <1>3 DEF HandlerGetsResult, Inv, RepliesOK
<1>6. /\ x \in {0, 200, 201, 202, 404, 429, 500, 502}
      /\ x = 201 => q.kind = "snapshot" /\ Exists(files, q)
      /\ x = 202 => q.kind = "start" /\ y.code = 202
  BY <1>4, <1>5, AnswerCodeAgrees
<1>7. x \in Codes /\ "writing" \in Stages
  BY <1>6 DEF Codes, Stages, InProgress
<1>8. PICK l : l = call'
  OBVIOUS
<1>9. l = [call EXCEPT ![c].at = "writing", ![c].code = x]
  BY <1>2, <1>3, <1>4, <1>8 DEF HandlerGetsResult
<1>10. /\ l \in [Callers -> Call]
       /\ l[c].at = "writing" /\ l[c].code = x /\ l[c].request = call[c].request
       /\ \A d \in Callers : d # c => l[d] = call[d]
  BY <1>1, <1>7, <1>9 DEF Call
<1>11. CallsOK(l) /\ Proceeds(call, l) /\ CodesOK(l, reply, files)
  BY <1>1, <1>2, <1>3, <1>6, <1>10, HandlerProceeds
<1> QED
  BY <1>8, <1>11, CallProceeds DEF HandlerGetsResult, actors, snapVars

LEMMA FutureTimesOutKeeps ==
  ASSUME Inv, NEW c \in Callers, FutureTimesOut(c), UNCHANGED <<actors, main, masterUp>>
  PROVE  Inv'
<1>1. call \in [Callers -> Call] /\ call[c].at \in InProgress
  BY DEF Inv, CallsOK, FutureTimesOut, At, InProgress
<1>2. "writing" \in Stages
  BY DEF Stages, InProgress
<1>3. PICK x \in Codes : x = 504
  BY DEF Codes
<1>4. PICK l : l = call'
  OBVIOUS
<1>5. l = [call EXCEPT ![c].at = "writing", ![c].code = x]
  BY <1>3, <1>4 DEF FutureTimesOut
<1>6. /\ l \in [Callers -> Call]
      /\ l[c].at = "writing" /\ l[c].code = x /\ l[c].request = call[c].request
      /\ \A d \in Callers : d # c => l[d] = call[d]
  BY <1>1, <1>2, <1>5 DEF Call
<1>7. CallsOK(l) /\ Proceeds(call, l) /\ CodesOK(l, reply, files)
  BY <1>1, <1>3, <1>6, HandlerProceeds
<1> QED
  BY <1>4, <1>7, CallProceeds DEF FutureTimesOut, actors, snapVars

LEMMA HandlerWritesKeeps ==
  ASSUME Inv, NEW c \in Callers, HandlerWrites(c), UNCHANGED <<actors, main, masterUp>>
  PROVE  Inv'
<1>1. call \in [Callers -> Call] /\ call[c].at \in InProgress
  BY DEF Inv, CallsOK, HandlerWrites, At, InProgress
<1>2. PICK a \in Ended : a = IF call[c].writeLeft > 0 THEN "sent" ELSE "cut"
  BY DEF Ended
<1>3. a \in Stages /\ a \notin {"none", "reading", "waiting"}
  BY DEF Stages, Ended
<1>4. PICK l : l = call'
  OBVIOUS
<1>5. l = [call EXCEPT ![c].at = a]
  BY <1>2, <1>4 DEF HandlerWrites
<1>6. /\ l \in [Callers -> Call]
      /\ l[c].at = a /\ l[c].code = call[c].code /\ l[c].request = call[c].request
      /\ \A d \in Callers : d # c => l[d] = call[d]
  BY <1>1, <1>3, <1>5, CallWritten
<1>7. /\ call[c].code = 201 => call[c].request.kind = "snapshot" /\ Exists(files, call[c].request)
      /\ call[c].code = 202 => call[c].request.kind = "start" /\ reply[c].code = 202
  BY DEF Inv, CodesOK
<1>8. CallsOK(l) /\ Proceeds(call, l) /\ CodesOK(l, reply, files)
  BY <1>1, <1>3, <1>6, <1>7, HandlerProceeds
<1> QED
  BY <1>4, <1>8, CallProceeds DEF HandlerWrites, actors, snapVars

(* The queues with one request more or less.                               *)
LEMMA MasterAppended ==
  ASSUME NEW k, NEW m, MasterOK(k, m), NEW c \in Callers, Asked(k, c),
         NEW n, n = Append(m, c)
  PROVE  MasterOK(k, n)
<1>1. m \in Seq(Callers)
  BY DEF MasterOK
<1>2. /\ n \in Seq(Callers)
      /\ \A i \in 1 .. Len(n) : (i \in 1 .. Len(m) /\ n[i] = m[i]) \/ n[i] = c
  BY <1>1, AppendCells
<1> QED
  BY <1>2 DEF MasterOK

LEMMA MasterTaken ==
  ASSUME NEW k, NEW m, MasterOK(k, m), m # <<>>, NEW n, n = Tail(m)
  PROVE  /\ MasterOK(k, n)
         /\ Head(m) \in Callers /\ Asked(k, Head(m)) /\ Head(m) = m[1] /\ 1 \in 1 .. Len(m)
         /\ \A i \in 1 .. Len(n) : i + 1 \in 1 .. Len(m) /\ n[i] = m[i + 1]
<1>1. m \in Seq(Callers)
  BY DEF MasterOK
<1>2. /\ n \in Seq(Callers) /\ Head(m) \in Callers /\ Head(m) = m[1] /\ 1 \in 1 .. Len(m)
      /\ \A i \in 1 .. Len(n) : i + 1 \in 1 .. Len(m) /\ n[i] = m[i + 1]
  BY <1>1, TailCells
<1> QED
  BY <1>2 DEF MasterOK

LEMMA RecordAppended ==
  ASSUME NEW k, NEW b, RecordOK(k, b), NEW x \in RecordMessages, RecordMeant(k, x),
         NEW n, n = Append(b, x)
  PROVE  /\ RecordOK(k, n)
         /\ \A i \in 1 .. Len(n) : \/ i \in 1 .. Len(b) /\ n[i] = b[i]
                                   \/ i = Len(b) + 1 /\ n[i] = x
<1>1. b \in Seq(RecordMessages)
  BY DEF RecordOK
<1>2. /\ n \in Seq(RecordMessages)
      /\ \A i \in 1 .. Len(n) : \/ i \in 1 .. Len(b) /\ n[i] = b[i]
                                \/ i = Len(b) + 1 /\ n[i] = x
  BY <1>1, AppendCells
<1> QED
  BY <1>2 DEF RecordOK

LEMMA RecordTaken ==
  ASSUME NEW k, NEW b, RecordOK(k, b), b # <<>>, NEW n, n = Tail(b)
  PROVE  /\ RecordOK(k, n)
         /\ Head(b) \in RecordMessages /\ RecordMeant(k, Head(b))
         /\ Head(b) = b[1] /\ 1 \in 1 .. Len(b)
         /\ \A i \in 1 .. Len(n) : i + 1 \in 1 .. Len(b) /\ n[i] = b[i + 1]
<1>1. b \in Seq(RecordMessages)
  BY DEF RecordOK
<1>2. /\ n \in Seq(RecordMessages) /\ Head(b) \in RecordMessages
      /\ Head(b) = b[1] /\ 1 \in 1 .. Len(b)
      /\ \A i \in 1 .. Len(n) : i + 1 \in 1 .. Len(b) /\ n[i] = b[i + 1]
  BY <1>1, TailCells
<1> QED
  BY <1>2 DEF RecordOK

(* Once is kept by each of these moves.                                    *)
LEMMA OnceAsked ==
  ASSUME NEW k, NEW m, NEW b, NEW w, NEW r, NEW f, NEW c \in Callers, ~Asked(k, c),
         MasterOK(k, m), RecordOK(k, b), RepliesOK(k, w, r, f), Once(k, m, b, r),
         NEW n, n = Append(m, c)
  PROVE  Once(k, n, b, r)
<1>1. m \in Seq(Callers)
  BY DEF MasterOK
<1>2. \A i \in 1 .. Len(n) : \/ i \in 1 .. Len(m) /\ n[i] = m[i]
                             \/ i = Len(m) + 1 /\ n[i] = c
  BY <1>1, AppendCells
<1>3. \A i \in 1 .. Len(m) : m[i] # c
  BY DEF MasterOK
<1>4. \A j \in 1 .. Len(b) : IsRequest(b[j]) => b[j].caller # c
  BY DEF RecordOK, RecordMeant
<1>5. r[c] = NoReply
  BY DEF RepliesOK
<1>6. \A i, j \in 1 .. Len(n) : n[i] = n[j] => i = j
  BY <1>2, <1>3 DEF Once
<1>7. \A i \in 1 .. Len(n), j \in 1 .. Len(b) : IsRequest(b[j]) => n[i] # b[j].caller
  BY <1>2, <1>4 DEF Once
<1>8. \A d \in Callers : r[d] # NoReply /\ k[d].request.kind # "snapshot" =>
        /\ \A i \in 1 .. Len(n) : n[i] # d
        /\ \A j \in 1 .. Len(b) : IsRequest(b[j]) => b[j].caller # d
  BY <1>2, <1>5 DEF Once
<1> QED
  BY <1>6, <1>7, <1>8 DEF Once

LEMMA OnceForwarded ==
  ASSUME NEW k, NEW m, NEW b, NEW r, MasterOK(k, m), Once(k, m, b, r), m # <<>>,
         NEW n, n = Tail(m)
  PROVE  /\ Once(k, n, b, r)
         /\ \A i \in 1 .. Len(n) : n[i] # Head(m)
         /\ \A j \in 1 .. Len(b) : IsRequest(b[j]) => b[j].caller # Head(m)
         /\ r[Head(m)] # NoReply => k[Head(m)].request.kind = "snapshot"
<1>1. /\ Head(m) \in Callers /\ Head(m) = m[1] /\ 1 \in 1 .. Len(m)
      /\ \A i \in 1 .. Len(n) : i + 1 \in 1 .. Len(m) /\ n[i] = m[i + 1]
  BY MasterTaken
<1>2. \A i, j \in 1 .. Len(n) : n[i] = n[j] => i = j
  BY <1>1 DEF Once
<1>3. \A i \in 1 .. Len(n), j \in 1 .. Len(b) : IsRequest(b[j]) => n[i] # b[j].caller
  BY <1>1 DEF Once
<1>4. \A d \in Callers : r[d] # NoReply /\ k[d].request.kind # "snapshot" =>
        /\ \A i \in 1 .. Len(n) : n[i] # d
        /\ \A j \in 1 .. Len(b) : IsRequest(b[j]) => b[j].caller # d
  BY <1>1 DEF Once
<1>5. Once(k, n, b, r)
  BY <1>2, <1>3, <1>4 DEF Once
<1>6. \A i \in 1 .. Len(n) : n[i] # Head(m)
  <2> SUFFICES ASSUME NEW i \in 1 .. Len(n), n[i] = Head(m)
               PROVE  FALSE
    OBVIOUS
  <2>1. m[i + 1] = m[1] /\ i + 1 \in 1 .. Len(m) /\ i + 1 # 1
    BY <1>1
  <2> QED
    BY <1>1, <2>1 DEF Once
<1>7. /\ \A j \in 1 .. Len(b) : IsRequest(b[j]) => b[j].caller # Head(m)
      /\ r[Head(m)] # NoReply => k[Head(m)].request.kind = "snapshot"
  BY <1>1 DEF Once
<1> QED
  BY <1>5, <1>6, <1>7

LEMMA OnceQueued ==
  ASSUME NEW k, NEW m, NEW b, NEW r, RecordOK(k, b), Once(k, m, b, r),
         NEW x \in RecordMessages, RecordMeant(k, x),
         IsRequest(x) => /\ \A i \in 1 .. Len(m) : m[i] # x.caller
                         /\ \A j \in 1 .. Len(b) : IsRequest(b[j]) => b[j].caller # x.caller
                         /\ r[x.caller] # NoReply => k[x.caller].request.kind = "snapshot",
         NEW n, n = Append(b, x)
  PROVE  Once(k, m, n, r)
<1>1. \A i \in 1 .. Len(n) : \/ i \in 1 .. Len(b) /\ n[i] = b[i]
                             \/ i = Len(b) + 1 /\ n[i] = x
  BY RecordAppended
<1>2. \A i, j \in 1 .. Len(n) :
        IsRequest(n[i]) /\ IsRequest(n[j]) /\ n[i].caller = n[j].caller => i = j
  BY <1>1 DEF Once
<1>3. \A i \in 1 .. Len(m), j \in 1 .. Len(n) : IsRequest(n[j]) => m[i] # n[j].caller
  BY <1>1 DEF Once
<1>4. \A d \in Callers : r[d] # NoReply /\ k[d].request.kind # "snapshot" =>
        /\ \A i \in 1 .. Len(m) : m[i] # d
        /\ \A j \in 1 .. Len(n) : IsRequest(n[j]) => n[j].caller # d
  BY <1>1 DEF Once
<1> QED
  BY <1>2, <1>3, <1>4 DEF Once

(* An answer u[d] to the oldest request, or no answer.                     *)
LEMMA OnceTaken ==
  ASSUME NEW k, NEW m, NEW b, NEW r, RecordOK(k, b), Once(k, m, b, r), b # <<>>,
         NEW n, n = Tail(b), NEW u,
         \A d \in Callers : u[d] # r[d] => IsRequest(Head(b)) /\ d = Head(b).caller
  PROVE  Once(k, m, n, u)
<1>1. /\ Head(b) = b[1] /\ 1 \in 1 .. Len(b)
      /\ \A i \in 1 .. Len(n) : i + 1 \in 1 .. Len(b) /\ n[i] = b[i + 1]
  BY RecordTaken
<1>2. \A i, j \in 1 .. Len(n) :
        IsRequest(n[i]) /\ IsRequest(n[j]) /\ n[i].caller = n[j].caller => i = j
  BY <1>1 DEF Once
<1>3. \A i \in 1 .. Len(m), j \in 1 .. Len(n) : IsRequest(n[j]) => m[i] # n[j].caller
  BY <1>1 DEF Once
<1>4. ASSUME NEW d \in Callers, u[d] # NoReply, k[d].request.kind # "snapshot"
      PROVE  /\ \A i \in 1 .. Len(m) : m[i] # d
             /\ \A j \in 1 .. Len(n) : IsRequest(n[j]) => n[j].caller # d
  <2>1. CASE u[d] = r[d]
    BY <1>1, <1>4, <2>1 DEF Once
  <2>2. CASE u[d] # r[d]
    <3>0. IsRequest(Head(b)) /\ d = Head(b).caller
      BY <2>2
    <3>1. \A i \in 1 .. Len(m) : m[i] # d
      BY <1>1, <3>0 DEF Once
    <3>2. ASSUME NEW j \in 1 .. Len(n), IsRequest(n[j]), n[j].caller = d
          PROVE  FALSE
      <4>1. j + 1 \in 1 .. Len(b) /\ b[j + 1] = n[j] /\ j + 1 # 1
        BY <1>1
      <4> QED
        BY <1>1, <3>0, <3>2, <4>1 DEF Once
    <3> QED
      BY <3>1, <3>2
  <2> QED
    BY <2>1, <2>2
<1> QED
  BY <1>2, <1>3, <1>4 DEF Once

-----------------------------------------------------------------------------
(* The steps of the handlers, the clock, the master and main.              *)
LEMMA HandlerAsksKeeps ==
  ASSUME Inv, NEW c \in Callers, HandlerAsks(c), UNCHANGED <<actors, main, masterUp>>
  PROVE  Inv'
<1>1. /\ call \in [Callers -> Call] /\ call[c].at \in InProgress /\ call[c].code = 0
      /\ ~Asked(call, c)
  BY DEF Inv, CallsOK, HandlerAsks, At, InProgress, Asked
<1>2. PICK l, n : l = call' /\ n = masterBox'
  OBVIOUS
<1>3. /\ l = [call EXCEPT ![c].at = "waiting", ![c].futureLeft = WriteTimeout]
      /\ n = Append(masterBox, c)
  BY <1>2 DEF HandlerAsks
<1>4. "waiting" \in Stages /\ WriteTimeout \in 0 .. WriteTimeout
  BY HttpAssumption DEF Stages, InProgress
<1>5. /\ l \in [Callers -> Call]
      /\ l[c].at = "waiting" /\ l[c].code = call[c].code /\ l[c].request = call[c].request
      /\ \A d \in Callers : d # c => l[d] = call[d]
  BY <1>1, <1>3, <1>4, ZenonT(60) DEF Call
<1>6. CallsOK(l) /\ Proceeds(call, l) /\ CodesOK(l, reply, files)
  BY <1>1, <1>5, HandlerProceeds
<1>7. Asked(l, c)
  BY <1>5 DEF Asked
<1>8. \A d \in Callers : reply[d] # NoReply => Asked(call, d)
  BY DEF Inv, RepliesOK
<1>9. MasterOK(l, n)
  <2>1. MasterOK(l, masterBox)
    BY <1>6, MovedMaster DEF Inv
  <2> QED
    BY <1>3, <1>7, <2>1, MasterAppended
<1>10. Once(l, n, recordBox, reply)
  <2>1. Once(call, n, recordBox, reply)
    BY <1>1, <1>3, OnceAsked DEF Inv
  <2> QED
    BY <1>6, <1>8, <2>1, MovedOnce
<1>11. SnapOK(l, snapBox, capturing)
  BY <1>6, MovedSnapshots DEF Inv
<1>12. RecordOK(l, recordBox)
  BY <1>6, MovedRecord DEF Inv
<1>13. RepliesOK(l, worker, reply, files)
  BY <1>6, MovedReplies, GrowsSame, AgesSame DEF Inv
<1>14. JobsDiffer(l, reply)
  BY <1>6, <1>8, MovedJobs DEF Inv
<1> QED
  BY <1>2, <1>6, <1>9, <1>10, <1>11, <1>12, <1>13, <1>14
     DEF Inv, HandlerAsks, actors, snapVars

LEMMA TickKeeps ==
  ASSUME Inv, Tick
  PROVE  Inv'
<1>1. call \in [Callers -> Call]
  BY DEF Inv, CallsOK
<1>2. PICK l : l = call'
  OBVIOUS
<1>3. \A y \in 0 .. WriteTimeout : Down(y) \in 0 .. WriteTimeout
  BY HttpAssumption DEF Down
<1>4. \A y \in Call :
        LET z == [y EXCEPT !.writeLeft = Down(@), !.futureLeft = Down(@)]
        IN z \in Call /\ z.at = y.at /\ z.request = y.request /\ z.code = y.code
  BY <1>3 DEF Call
<1>5. /\ l \in [Callers -> Call]
      /\ \A c \in Callers : /\ l[c].at = call[c].at /\ l[c].code = call[c].code
                            /\ l[c].request = call[c].request
  BY <1>1, <1>2, <1>4 DEF Tick, HttpTime
<1>6. CallsOK(l) /\ Proceeds(call, l)
  BY <1>5 DEF CallsOK, Proceeds, Asked, Inv
<1>7. CodesOK(l, reply, files)
  BY <1>5 DEF CodesOK, Inv
<1> QED
  BY <1>2, <1>6, <1>7, CallProceeds DEF Tick, snapVars

LEMMA MasterForwardsSnapshotKeeps ==
  ASSUME Inv, MasterForwardsSnapshot
  PROVE  Inv'
<1>1. PICK c, n, s : /\ c = Head(masterBox) /\ n = masterBox' /\ s = snapBox'
  OBVIOUS
<1>2. /\ masterBox # <<>> /\ n = Tail(masterBox)
      /\ call[c].request.kind = "snapshot"
      /\ s = Append(snapBox, CaptureSnapshotRequest(c, call[c].request.cam))
  BY <1>1 DEF MasterForwardsSnapshot, MasterTakes
<1>3. MasterOK(call, n) /\ c \in Callers /\ Asked(call, c)
  BY <1>1, <1>2, MasterTaken DEF Inv
<1>4. Once(call, n, recordBox, reply)
  BY <1>2, OnceForwarded DEF Inv
<1>5. PICK x : x = CaptureSnapshotRequest(c, call[c].request.cam)
  OBVIOUS
<1>6. call[c].request \in Requests
  BY <1>3, AskedIsCalled DEF Inv, CallsOK
<1>7. call[c].request.cam \in Cameras
  BY <1>2, <1>6, GatewayAssumption
<1>8. x \in SnapshotRequests /\ SnapMeant(call, x)
  BY <1>2, <1>3, <1>5, <1>7 DEF SnapMeant, SnapshotRequests, CaptureSnapshotRequest
<1>9. SnapOK(call, s, capturing)
  <2>1. snapBox \in Seq(SnapshotRequests)
    BY DEF Inv, SnapOK
  <2>2. s = Append(snapBox, x)
    BY <1>2, <1>5
  <2>3. /\ s \in Seq(SnapshotRequests)
        /\ \A i \in 1 .. Len(s) : (i \in 1 .. Len(snapBox) /\ s[i] = snapBox[i]) \/ s[i] = x
    BY <1>8, <2>1, <2>2, AppendCells
  <2> QED
    BY <1>8, <2>3 DEF Inv, SnapOK
<1> QED
  BY <1>1, <1>3, <1>4, <1>9 DEF Inv, MasterForwardsSnapshot, MasterTakes

LEMMA MasterForwardsRecordKeeps ==
  ASSUME Inv, MasterForwardsRecord
  PROVE  Inv'
<1>1. PICK c, n, b : /\ c = Head(masterBox) /\ n = masterBox' /\ b = recordBox'
  OBVIOUS
<1>2. PICK x : x = IF call[c].request.kind = "start" THEN StartRecordRequest(c)
                   ELSE GetRecordJobRequest(c, call[c].request.job)
  OBVIOUS
<1>3. /\ masterBox # <<>> /\ n = Tail(masterBox)
      /\ call[c].request.kind \in {"start", "get"}
      /\ b = Append(recordBox, x)
  BY <1>1, <1>2 DEF MasterForwardsRecord, MasterTakes, RecordSends
<1>4. MasterOK(call, n) /\ c \in Callers /\ Asked(call, c)
  BY <1>1, <1>3, MasterTaken DEF Inv
<1>5. /\ Once(call, n, recordBox, reply)
      /\ \A i \in 1 .. Len(n) : n[i] # c
      /\ \A j \in 1 .. Len(recordBox) : IsRequest(recordBox[j]) => recordBox[j].caller # c
      /\ reply[c] # NoReply => call[c].request.kind = "snapshot"
  BY <1>1, <1>3, OnceForwarded DEF Inv
<1>6. call[c].request \in Requests
  BY <1>4, AskedIsCalled DEF Inv, CallsOK
<1>7. x \in RecordMessages /\ RecordMeant(call, x) /\ x.caller = c
  <2>1. CASE call[c].request.kind = "start"
    BY <1>2, <1>4, <2>1
       DEF RecordMessages, RecordRequests, RecordMeant, StartRecordRequest
  <2>2. CASE call[c].request.kind = "get"
    <3>1. PICK j \in JobIds : j = call[c].request.job
      BY <1>6, <2>2, GatewayAssumption
    <3>2. x = GetRecordJobRequest(c, j)
      BY <1>2, <2>2, <3>1
    <3> QED
      BY <1>4, <2>2, <3>1, <3>2
         DEF RecordMessages, RecordRequests, RecordMeant, GetRecordJobRequest
  <2> QED
    BY <1>3, <2>1, <2>2
<1>8. RecordOK(call, b)
  BY <1>3, <1>7, RecordAppended DEF Inv
<1>9. Once(call, n, b, reply)
  BY <1>3, <1>5, <1>7, OnceQueued DEF Inv
<1> QED
  BY <1>1, <1>4, <1>8, <1>9 DEF Inv, MasterForwardsRecord, MasterTakes

LEMMA MainKeeps ==
  ASSUME Inv, Signal \/ Main \/ MasterStops \/ RecordStops \/ UNCHANGED vars
  PROVE  Inv'
<1>1. UNCHANGED <<call, masterBox, snapBox, capturing, recordBox, worker, reply, files>>
  BY DEF Signal, Main, ShutdownReturns, MainReturns, Moves, MasterStops, RecordStops,
         RecordStopping, vars, recordVars, snapVars, httpVars, actors
<1>2. masterUp' \in BOOLEAN
  BY DEF Inv, Signal, Main, ShutdownReturns, MainReturns, Moves, MasterStops, RecordStops,
         vars
<1>3. main' \in {"serving", "draining", "stopping", "exited"}
  BY DEF Inv, Signal, Main, ShutdownReturns, MainReturns, Moves, MasterStops,
         RecordStops, vars
<1> QED
  BY <1>1, <1>2, <1>3 DEF Inv

-----------------------------------------------------------------------------
(* The record actor answers the oldest request: x is the answer to d, v    *)
(* the goroutines afterwards.                                              *)
LEMMA RecordAnswers ==
  ASSUME Inv, recordBox # <<>>, IsRequest(Head(recordBox)),
         NEW d, d = Head(recordBox).caller, NEW x, NEW v,
         WorkersOK(v), Ages(worker, v), Answers(call[d].request, x, v, files),
         x.code = 202 /\ call[d].request.kind = "start" =>
           \A c \in Callers : Given(call, reply, c) => reply[c].job # x.job,
         worker' = v, recordBox' = Tail(recordBox), Respond(d, x),
         UNCHANGED <<call, masterBox, snapVars, main, masterUp>>
  PROVE  Inv'
<1>1. PICK n, u : n = recordBox' /\ u = reply'
  OBVIOUS
<1>2. RecordOK(call, n) /\ RecordMeant(call, Head(recordBox))
        /\ Head(recordBox) = recordBox[1] /\ 1 \in 1 .. Len(recordBox)
  BY <1>1, RecordTaken DEF Inv
<1>3. /\ d \in Callers /\ Asked(call, d)
      /\ call[d].request.kind = Head(recordBox).type
      /\ call[d].request.kind \in {"start", "get"}
  BY <1>2 DEF RecordMeant, IsRequest
<1>4. /\ DOMAIN u = Callers /\ u[d] = x
      /\ \A c \in Callers : c # d => u[c] = reply[c]
  BY <1>1, <1>3 DEF Respond, Inv, RepliesOK
<1>5. reply[d] = NoReply
  BY <1>2, <1>3 DEF Inv, Once
<1>6. RepliesOK(call, v, u, files)
  <2>1. RepliesOK(call, v, reply, files)
    BY MovedReplies, MovesSame, GrowsSame DEF Inv
  <2> QED
    BY <1>3, <1>4, <2>1 DEF RepliesOK
<1>7. Once(call, masterBox, n, u)
  <2>1. \A c \in Callers : u[c] # reply[c] =>
          IsRequest(Head(recordBox)) /\ c = Head(recordBox).caller
    BY <1>4
  <2> QED
    BY <1>1, <2>1, OnceTaken DEF Inv
<1>8. CodesOK(call, u, files)
  <2>1. reply[d].code # 202
    BY <1>5, AcceptedIsReply
  <2> QED
    BY <1>4, <2>1 DEF CodesOK, Inv
<1>9. JobsDiffer(call, u)
  <2>1. \A c, e \in Callers : c # e /\ Given(call, reply, c) /\ Given(call, reply, e)
                                => reply[c].job # reply[e].job
    BY DEF Inv, JobsDiffer
  <2>2. \A c \in Callers : c # d /\ Given(call, u, c) => Given(call, reply, c) /\ u[c] = reply[c]
    BY <1>4 DEF Given
  <2>3. Given(call, u, d) => x.code = 202 /\ call[d].request.kind = "start"
    BY <1>4 DEF Given
  <2> QED
    BY <1>4, <2>1, <2>2, <2>3 DEF JobsDiffer
<1> QED
  BY <1>1, <1>2, <1>6, <1>7, <1>8, <1>9 DEF Inv, snapVars

LEMMA RecordAnswersKeeps ==
  ASSUME Inv, StartHasNoClients \/ StartIsTooMany \/ StartHasNoId \/ StartAccepts \/ GetAnswers,
         UNCHANGED <<snapVars, httpVars, main, masterUp>>
  PROVE  Inv'
<1>1. PICK h, d : h = Head(recordBox) /\ d = h.caller
  OBVIOUS
<1>2. RecordMeant(call, h) /\ recordBox # <<>>
  BY <1>1, RecordTaken DEF Inv, StartHasNoClients, StartIsTooMany, StartHasNoId, StartAccepts,
                           StartHasSlot, GetAnswers, RecordGets
<1>3. UNCHANGED <<call, masterBox, snapVars, main, masterUp>>
  BY DEF httpVars
<1>4. CASE StartHasNoClients \/ StartIsTooMany \/ StartHasNoId
  <2>1. PICK code \in {429, 500} : Respond(d, StartRecordResult(code, NoJob, "none"))
    BY <1>1, <1>4 DEF StartHasNoClients, StartIsTooMany, StartHasNoId, RecordMsg
  <2>2. PICK x : x = StartRecordResult(code, NoJob, "none")
    OBVIOUS
  <2>3. h.type = "start" /\ recordBox' = Tail(recordBox) /\ worker' = worker
    BY <1>1, <1>4 DEF StartHasNoClients, StartIsTooMany, StartHasNoId, StartHasSlot,
                      RecordGets, RecordMsg, RecordTakes
  <2>4. IsRequest(h) /\ call[d].request.kind = "start"
    BY <1>1, <1>2, <2>3 DEF IsRequest, RecordMeant
  <2>5. x.code # 202
    BY <2>2 DEF StartRecordResult
  <2>6. Answers(call[d].request, x, worker, files)
    BY <2>2, <2>4 DEF Answers
  <2>7. WorkersOK(worker) /\ Ages(worker, worker)
    BY AgesSame DEF Inv
  <2>8. Respond(d, x)
    BY <2>1, <2>2
  <2> QED
    BY <1>1, <1>2, <1>3, <2>3, <2>4, <2>5, <2>6, <2>7, <2>8, RecordAnswers
<1>5. CASE StartAccepts
  <2>1. PICK j \in JobIds :
          /\ worker[j].stage = "none"
          /\ worker' = [worker EXCEPT ![j] = Idle("spawned")]
          /\ Respond(d, StartRecordResult(202, j, "accepted"))
    BY <1>1, <1>5 DEF StartAccepts, RecordMsg
  <2>2. PICK x, v : x = StartRecordResult(202, j, "accepted") /\ v = worker'
    OBVIOUS
  <2>3. h.type = "start" /\ recordBox' = Tail(recordBox)
    BY <1>1, <1>5 DEF StartAccepts, StartHasSlot, RecordGets, RecordMsg, RecordTakes
  <2>4. IsRequest(h) /\ call[d].request.kind = "start"
    BY <1>1, <1>2, <2>3 DEF IsRequest, RecordMeant
  <2>5. v[j].stage = "spawned" /\ WorkersOK(v) /\ Ages(worker, v)
    BY <2>1, <2>2 DEF Inv, WorkersOK, Ages, Idle, LiveStages
  <2>6. Answers(call[d].request, x, v, files)
    BY <2>2, <2>4, <2>5 DEF Answers
  <2>7. ASSUME NEW c \in Callers, Given(call, reply, c)
        PROVE  reply[c].job # x.job
    <3>1. Answers(call[c].request, reply[c], worker, files) /\ call[c].request.kind = "start"
      BY <2>7, AcceptedIsReply DEF Given, Inv, RepliesOK
    <3>2. PICK code \in {202, 429, 500} : \E i, status :
            /\ reply[c] = StartRecordResult(code, i, status)
            /\ code = 202 => i \in JobIds /\ worker[i].stage # "none"
      BY <3>1 DEF Answers
    <3>3. PICK i, status : /\ reply[c] = StartRecordResult(code, i, status)
                           /\ code = 202 => i \in JobIds /\ worker[i].stage # "none"
      BY <3>2
    <3>4. reply[c].job = i /\ worker[i].stage # "none"
      BY <2>7, <3>3 DEF StartRecordResult, Given
    <3> QED
      BY <2>1, <2>2, <3>4 DEF StartRecordResult
  <2>8. Respond(d, x)
    BY <2>1, <2>2
  <2> QED
    BY <1>1, <1>2, <1>3, <2>2, <2>3, <2>4, <2>5, <2>6, <2>7, <2>8, RecordAnswers
<1>6. CASE GetAnswers
  <2>1. PICK x : x = IF h.job \in DOMAIN Kept
                       THEN RecordJobStatusResult(200, h.job, jobs[h.job].status)
                       ELSE RecordJobStatusResult(404, h.job, "none")
    OBVIOUS
  <2>2. h.type = "get" /\ recordBox' = Tail(recordBox) /\ worker' = worker /\ Respond(d, x)
    BY <1>1, <1>6, <2>1 DEF GetAnswers, RecordGets, RecordMsg, RecordTakes
  <2>3. IsRequest(h) /\ call[d].request.kind = "get" /\ call[d].request.job = h.job
    BY <1>1, <1>2, <2>2 DEF IsRequest, RecordMeant
  <2>4. \E code \in {200, 404} : \E status : x = RecordJobStatusResult(code, h.job, status)
    BY <2>1
  <2>5. Answers(call[d].request, x, worker, files)
    BY <2>3, <2>4 DEF Answers
  <2>6. WorkersOK(worker) /\ Ages(worker, worker)
    BY AgesSame DEF Inv
  <2> QED
    BY <1>1, <1>2, <1>3, <2>2, <2>3, <2>5, <2>6, RecordAnswers
<1> QED
  BY <1>4, <1>5, <1>6

LEMMA RecordNotesKeep ==
  ASSUME Inv, JobIsRunning \/ JobIsCompleted \/ JobIsFailed,
         UNCHANGED <<snapVars, httpVars, main, masterUp>>
  PROVE  Inv'
<1>1. /\ recordBox # <<>> /\ recordBox' = Tail(recordBox)
      /\ UNCHANGED <<call, masterBox, snapBox, capturing, files, worker, reply, main, masterUp>>
  BY DEF JobIsRunning, JobIsCompleted, JobIsFailed, RecordGets, RecordTakes, snapVars, httpVars
<1>2. PICK n : n = recordBox'
  OBVIOUS
<1>3. RecordOK(call, n)
  BY <1>1, <1>2, RecordTaken DEF Inv
<1>4. Once(call, masterBox, n, reply)
  BY <1>1, <1>2, OnceTaken DEF Inv
<1> QED
  BY <1>1, <1>2, <1>3, <1>4 DEF Inv

(* A goroutine goes to another stage, and may send a message.              *)
LEMMA WorkerGone ==
  ASSUME NEW w, WorkersOK(w), NEW j \in JobIds,
         NEW a \in {"done", "killed"} \cup LiveStages, NEW p \in Places \cup {NoPlace},
         NEW v, v = [w EXCEPT ![j] = [stage |-> a, place |-> p]]
  PROVE  WorkersOK(v) /\ Ages(w, v)
BY DEF WorkersOK, Ages, LiveStages

LEMMA WorkerKeeps ==
  ASSUME Inv, NEW j \in JobIds, WorkerActs(j)
  PROVE  Inv'
<1>1. UNCHANGED <<call, masterBox, snapBox, capturing, files, reply, main, masterUp>>
  BY DEF WorkerActs, WorkerStep, WorkerBegins, WorkerFindsPlace, WorkerOpensStream,
         WorkerAsksForBucket, WorkerMakesBucket, WorkerUploads, WorkerFails, snapVars, httpVars
<1>2. PICK v, b : v = worker' /\ b = recordBox'
  OBVIOUS
<1>3. PICK o \in Places \cup {NoPlace} : o = worker[j].place
  BY DEF Inv, WorkersOK
<1>4. PICK a \in {"done", "killed"} \cup LiveStages, p \in Places \cup {NoPlace} :
        worker' = [worker EXCEPT ![j] = [stage |-> a, place |-> p]]
  <2>1. ASSUME NEW a, NEW p, WorkerGoes(j, a, p)
        PROVE  worker' = [worker EXCEPT ![j] = [stage |-> a, place |-> p]]
    BY <2>1 DEF WorkerGoes
  <2>2. \E a \in {"done", "killed"} \cup LiveStages, p \in Places \cup {NoPlace} :
          WorkerGoes(j, a, p)
    BY <1>3 DEF WorkerActs, WorkerStep, WorkerBegins, WorkerFindsPlace, WorkerOpensStream,
                WorkerAsksForBucket, WorkerMakesBucket, WorkerUploads, WorkerFails, LiveStages
  <2> QED
    BY <2>1, <2>2
<1>5. WorkersOK(v) /\ Ages(worker, v)
  BY <1>2, <1>4, WorkerGone DEF Inv
<1>6. \/ b = recordBox
      \/ \E x \in RecordMessages : ~IsRequest(x) /\ b = Append(recordBox, x)
  <2>1. /\ recordJobRunning(j) \in RecordMessages /\ ~IsRequest(recordJobRunning(j))
        /\ recordJobFailed(j) \in RecordMessages /\ ~IsRequest(recordJobFailed(j))
        /\ recordJobCompleted(j, o) \in RecordMessages /\ ~IsRequest(recordJobCompleted(j, o))
    BY DEF RecordMessages, IsRequest, recordJobRunning, recordJobFailed, recordJobCompleted
  <2>2. \/ b = recordBox
        \/ b = Append(recordBox, recordJobRunning(j))
        \/ b = Append(recordBox, recordJobFailed(j))
        \/ b = Append(recordBox, recordJobCompleted(j, o))
    BY <1>2, <1>3
       DEF WorkerActs, WorkerStep, WorkerBegins, WorkerFindsPlace, WorkerOpensStream,
           WorkerAsksForBucket, WorkerMakesBucket, WorkerUploads, WorkerFails, RecordSends
  <2> QED
    BY <2>1, <2>2
<1>7. RecordOK(call, b) /\ Once(call, masterBox, b, reply)
  <2>1. CASE b = recordBox
    BY <2>1 DEF Inv
  <2>2. CASE \E x \in RecordMessages : ~IsRequest(x) /\ b = Append(recordBox, x)
    <3>1. PICK x \in RecordMessages : ~IsRequest(x) /\ b = Append(recordBox, x)
      BY <2>2
    <3>2. RecordMeant(call, x)
      BY <3>1 DEF RecordMeant
    <3>3. RecordOK(call, b)
      BY <3>1, <3>2, RecordAppended DEF Inv
    <3>4. Once(call, masterBox, b, reply)
      BY <3>1, <3>2, OnceQueued DEF Inv
    <3> QED
      BY <3>3, <3>4
  <2> QED
    BY <1>6, <2>1, <2>2
<1>8. RepliesOK(call, v, reply, files)
  BY <1>5, MovedReplies, MovesSame, GrowsSame DEF Inv
<1> QED
  BY <1>1, <1>2, <1>5, <1>7, <1>8 DEF Inv

(* A capture is begun, ...                                                 *)
LEMMA SnapshotBeginsKeeps ==
  ASSUME Inv, SnapshotBegins,
         UNCHANGED <<jobs, recordBox, worker, since, store, initError, recordUp, httpVars,
                     main, masterUp>>
  PROVE  Inv'
<1>1. PICK s, p : s = snapBox' /\ p = capturing'
  OBVIOUS
<1>2. snapBox # <<>> /\ s = Tail(snapBox) /\ p = Head(snapBox)
  BY <1>1 DEF SnapshotBegins
<1>3. snapBox \in Seq(SnapshotRequests)
  BY DEF Inv, SnapOK
<1>4. /\ s \in Seq(SnapshotRequests) /\ p = snapBox[1] /\ 1 \in 1 .. Len(snapBox)
      /\ \A i \in 1 .. Len(s) : i + 1 \in 1 .. Len(snapBox) /\ s[i] = snapBox[i + 1]
  BY <1>2, <1>3, TailCells
<1>5. SnapOK(call, s, p)
  BY <1>4 DEF Inv, SnapOK
<1> QED
  BY <1>1, <1>5 DEF Inv, SnapshotBegins, httpVars

(* ... and ends with an answer and the files g.                            *)
LEMMA SnapshotEnds ==
  ASSUME Inv, capturing # Nothing, NEW d, d = capturing.caller, NEW x \in SnapshotResults,
         x.cam = capturing.cam, NEW g, FilesOK(g), Grows(files, g),
         x.saved => g[FileOf(capturing.cam)] # "none",
         Respond(d, x), files' = g, capturing' = Nothing,
         UNCHANGED <<snapBox, recordBox, worker, call, masterBox, main, masterUp>>
  PROVE  Inv'
<1>1. PICK u : u = reply'
  OBVIOUS
<1>2. /\ d \in Callers /\ Asked(call, d)
      /\ call[d].request.kind = "snapshot" /\ call[d].request.cam = capturing.cam
  BY DEF Inv, SnapOK, SnapMeant, SnapshotRequests
<1>3. /\ DOMAIN u = Callers /\ u[d] = x
      /\ \A c \in Callers : c # d => u[c] = reply[c]
  BY <1>1, <1>2 DEF Respond, Inv, RepliesOK
<1>4. RepliesOK(call, worker, u, g)
  <2>1. RepliesOK(call, worker, reply, g)
    BY MovedReplies, MovesSame, AgesSame DEF Inv
  <2>2. Answers(call[d].request, x, worker, g)
    BY <1>2 DEF Answers, Exists
  <2> QED
    BY <1>2, <1>3, <2>1, <2>2 DEF RepliesOK
<1>5. Once(call, masterBox, recordBox, u)
  BY <1>2, <1>3 DEF Inv, Once
<1>6. CodesOK(call, u, g)
  <2>1. \A c \in Callers : call[c].request.kind = "start" /\ reply[c].code = 202 => u[c] = reply[c]
    BY <1>2, <1>3
  <2> QED
    BY <2>1, MovedCodes, MovesSame DEF Inv
<1>7. JobsDiffer(call, u)
  <2>1. \A c \in Callers : Given(call, u, c) => u[c] = reply[c] /\ Given(call, reply, c)
    BY <1>2, <1>3 DEF Given
  <2> QED
    BY <2>1 DEF Inv, JobsDiffer
<1>8. SnapOK(call, snapBox, Nothing)
  BY DEF Inv, SnapOK
<1> QED
  BY <1>1, <1>4, <1>5, <1>6, <1>7, <1>8 DEF Inv

LEMMA SnapshotAnswersKeeps ==
  ASSUME Inv, SnapshotNotFetched \/ SnapshotNotWritten \/ SnapshotSaves,
         UNCHANGED <<jobs, recordBox, worker, since, store, initError, recordUp, httpVars,
                     main, masterUp>>
  PROVE  Inv'
<1>1. /\ capturing # Nothing /\ capturing' = Nothing
      /\ UNCHANGED <<snapBox, recordBox, worker, call, masterBox, main, masterUp>>
  BY DEF SnapshotNotFetched, SnapshotNotWritten, SnapshotSaves, SnapshotResponds, httpVars
<1>2. PICK d, a : d = capturing.caller /\ a = capturing.cam
  OBVIOUS
<1>3. a \in Cameras /\ FileOf(a) \in Files
  BY <1>1, <1>2 DEF Inv, SnapOK, SnapMeant, SnapshotRequests, Files
<1>4. FilesOK(files)
  BY DEF Inv
<1>5. ASSUME NEW y \in Cameras \cup {"torn"}, y = "torn" \/ y = a,
             NEW g, g = [files EXCEPT ![FileOf(a)] = y]
      PROVE  FilesOK(g) /\ Grows(files, g) /\ g[FileOf(a)] # "none"
  BY <1>3, <1>4, <1>5, GatewayAssumption DEF FilesOK, Grows
<1>6. CASE SnapshotNotFetched \/ (SnapshotNotWritten /\ UNCHANGED files)
  <2>1. PICK code \in {0, 200, 404, 500, 502} : SnapshotResponds(code, FALSE)
    BY <1>6, ZenonT(60) DEF SnapshotNotFetched, SnapshotNotWritten
  <2>2. PICK x : x = SnapshotResult(code, a, FALSE)
    OBVIOUS
  <2>3. x \in SnapshotResults /\ x.cam = a /\ ~x.saved
    BY <1>3, <2>2 DEF SnapshotResult, SnapshotResults
  <2>4. Respond(d, x) /\ UNCHANGED files
    BY <1>2, <1>6, <2>1, <2>2, ZenonT(60) DEF SnapshotResponds, SnapshotNotFetched
  <2> QED
    BY <1>1, <1>2, <1>4, <2>3, <2>4, GrowsSame, SnapshotEnds
<1>7. CASE /\ Respond(d, SnapshotResult(0, a, FALSE))
           /\ files' = [files EXCEPT ![FileOf(a)] = "torn"]
  <2>1. PICK x, g : x = SnapshotResult(0, a, FALSE) /\ g = [files EXCEPT ![FileOf(a)] = "torn"]
    OBVIOUS
  <2>2. x \in SnapshotResults /\ x.cam = a /\ ~x.saved
    BY <1>3, <2>1 DEF SnapshotResult, SnapshotResults
  <2>3. FilesOK(g) /\ Grows(files, g)
    BY <1>5, <2>1
  <2> QED
    BY <1>1, <1>2, <1>7, <2>1, <2>2, <2>3, SnapshotEnds
<1>8. CASE /\ Respond(d, SnapshotResult(200, a, TRUE))
           /\ files' = [files EXCEPT ![FileOf(a)] = a]
  <2>1. PICK x, g : x = SnapshotResult(200, a, TRUE) /\ g = [files EXCEPT ![FileOf(a)] = a]
    OBVIOUS
  <2>2. x \in SnapshotResults /\ x.cam = a
    BY <1>3, <2>1 DEF SnapshotResult, SnapshotResults
  <2>3. FilesOK(g) /\ Grows(files, g) /\ g[FileOf(a)] # "none"
    BY <1>3, <1>5, <2>1
  <2>4. x.saved => g[FileOf(capturing.cam)] # "none"
    BY <1>2, <2>3
  <2> QED
    BY <1>1, <1>2, <1>8, <2>1, <2>2, <2>3, <2>4, SnapshotEnds
<1>9. CASE SnapshotNotWritten
  <2>1. Respond(d, SnapshotResult(0, a, FALSE))
    BY <1>2, <1>9 DEF SnapshotNotWritten, SnapshotResponds
  <2>2. files' = files \/ files' = [files EXCEPT ![FileOf(a)] = "torn"]
    BY <1>2, <1>9 DEF SnapshotNotWritten
  <2> QED
    BY <1>6, <1>7, <1>9, <2>1, <2>2
<1>10. CASE SnapshotSaves
  <2>1. Respond(d, SnapshotResult(200, a, TRUE))
    BY <1>2, <1>10 DEF SnapshotSaves, SnapshotResponds
  <2>2. files' = [files EXCEPT ![FileOf(a)] = a]
    BY <1>2, <1>10 DEF SnapshotSaves
  <2> QED
    BY <1>8, <2>1, <2>2
<1> QED
  BY <1>6, <1>9, <1>10

-----------------------------------------------------------------------------
LEMMA InitInv == Init => Inv
<1> SUFFICES ASSUME Init
             PROVE  Inv
  OBVIOUS
<1> USE DEF Init, RecordInit, SnapInit, HttpInit
<1>1. CallsOK(call)
  BY HttpAssumption DEF CallsOK, Call, Stages, Codes
<1>2. MasterOK(call, masterBox) /\ SnapOK(call, snapBox, capturing)
  BY DEF MasterOK, SnapOK
<1>3. RecordOK(call, recordBox)
  BY DEF RecordOK
<1>4. WorkersOK(worker)
  BY DEF WorkersOK, Idle
<1>5. RepliesOK(call, worker, reply, files) /\ Once(call, masterBox, recordBox, reply)
  BY DEF RepliesOK, Once
<1>6. FilesOK(files)
  BY DEF FilesOK
<1>7. CodesOK(call, reply, files)
  BY DEF CodesOK
<1>8. JobsDiffer(call, reply)
  BY DEF JobsDiffer, Given, NoReply
<1>9. main = "serving" /\ masterUp \in BOOLEAN
  OBVIOUS
<1> QED
  BY <1>1, <1>2, <1>3, <1>4, <1>5, <1>6, <1>7, <1>8, <1>9 DEF Inv

LEMMA NextInv ==
  ASSUME Inv, [Next]_vars
  PROVE  Inv'
<1>1. CASE \E c \in Callers : Arrives(c)
  BY <1>1, ArrivesKeeps
<1>2. CASE \E c \in Callers : Handles(c)
  BY <1>2, HandlerRefusesKeeps, HandlerAsksKeeps, HandlerGetsResultKeeps, FutureTimesOutKeeps,
     HandlerWritesKeeps DEF Handles, HandlerStep
<1>3. CASE MasterForwards
  BY <1>3, MasterForwardsSnapshotKeeps, MasterForwardsRecordKeeps DEF MasterForwards
<1>4. CASE RecordActs
  BY <1>4, RecordAnswersKeeps, RecordNotesKeep DEF RecordActs, RecordActorStep
<1>5. CASE \E j \in JobIds : WorkerActs(j)
  BY <1>5, WorkerKeeps
<1>6. CASE SnapshotActs
  BY <1>6, SnapshotBeginsKeeps, SnapshotAnswersKeeps DEF SnapshotActs, SnapshotStep
<1>7. CASE Tick
  BY <1>7, TickKeeps
<1>8. CASE Signal \/ Main \/ MasterStops \/ RecordStops \/ UNCHANGED vars
  BY <1>8, MainKeeps
<1> QED
  BY <1>1, <1>2, <1>3, <1>4, <1>5, <1>6, <1>7, <1>8 DEF Next

(* The gateway and the actors behind it keep what belongs to a call        *)
(* together, from its request to its answer.                               *)
THEOREM GatewayInv == Spec => []Inv
<1>1. Init => Inv
  BY InitInv
<1>2. Inv /\ [Next]_vars => Inv'
  BY NextInv
<1> QED
  BY <1>1, <1>2, PTL DEF Spec

(* Gateway.TypeOK: what waits in the queues has the shape of a request, a  *)
(* file that of a file, and every answer is of the type that the handler   *)
(* which waits for it asserts; start and get do not share one.             *)
THEOREM GatewayIsTyped == Spec => []TypeOK
<1>1. ASSUME Inv
      PROVE  TypeOK
  <2>1. ASSUME NEW c \in Callers, reply[c] # NoReply
        PROVE  IsExpected(call[c].request.kind, reply[c])
    <3>1. call[c].request \in Requests /\ Answers(call[c].request, reply[c], worker, files)
      BY <1>1, <2>1, AskedIsCalled DEF Inv, RepliesOK, CallsOK
    <3> QED
      BY <3>1, AnswerCodeAgrees
  <2>2. capturing \in SnapshotRequests \cup {Nothing}
    BY <1>1 DEF Inv, SnapOK, SnapMeant
  <2> QED
    BY <1>1, <2>1, <2>2 DEF Inv, TypeOK, CallsOK, MasterOK, SnapOK, FilesOK
<1> QED
  BY <1>1, GatewayInv, PTL

(* Gateway.AnswersBelongToCalls: every call is answered about the camera   *)
(* or the job it named, and no two calls are given the same job.           *)
THEOREM AnswersAreTheirs == Spec => []AnswersBelongToCalls
<1>1. ASSUME Inv
      PROVE  AnswersBelongToCalls
  <2> SUFFICES ASSUME NEW c \in Callers, reply[c] # NoReply
               PROVE  LET r == call[c].request
                      IN CASE r.kind = "snapshot" -> reply[c].cam = r.cam
                           [] r.kind = "get" -> reply[c].job = r.job
                           [] r.kind = "start" ->
                                \A d \in Callers \ {c} :
                                  /\ call[c].code = 202 /\ call[d].code = 202
                                  => reply[c].job # reply[d].job
    BY DEF AnswersBelongToCalls
  <2>1. call[c].request \in Requests /\ Answers(call[c].request, reply[c], worker, files)
    BY <1>1, AskedIsCalled DEF Inv, RepliesOK, CallsOK
  <2>2. call[c].request.kind \in {"snapshot", "get", "start"}
    BY <2>1, HttpAssumption
  <2>3. CASE call[c].request.kind = "snapshot"
    BY <2>1, <2>3 DEF Answers
  <2>4. CASE call[c].request.kind = "get"
    <3>1. \E code \in {200, 404} : \E status :
            reply[c] = RecordJobStatusResult(code, call[c].request.job, status)
      BY <2>1, <2>4 DEF Answers
    <3>2. reply[c].job = call[c].request.job
      BY <3>1 DEF RecordJobStatusResult
    <3> QED
      BY <2>4, <3>2
  <2>5. CASE call[c].request.kind = "start"
    <3>1. ASSUME NEW d \in Callers, d # c, call[c].code = 202, call[d].code = 202
          PROVE  reply[c].job # reply[d].job
      <4>1. Given(call, reply, c) /\ Given(call, reply, d)
        BY <1>1, <3>1 DEF Inv, CodesOK, Given
      <4> QED
        BY <1>1, <3>1, <4>1 DEF Inv, JobsDiffer
    <3> QED
      BY <2>5, <3>1
  <2> QED
    BY <2>2, <2>3, <2>4, <2>5
<1> QED
  BY <1>1, GatewayInv, PTL

(* Gateway.SavedFileExists: whatever is captured, or fails to be written,  *)
(* after a 201, the file that it names is there.                           *)
THEOREM SavedIsThere == Spec => []SavedFileExists
<1>1. ASSUME Inv
      PROVE  SavedFileExists
  <2> SUFFICES ASSUME NEW c \in Callers, call[c].code = 201
               PROVE  LET f == FileOf(call[c].request.cam)
                      IN \/ files[f] = "torn"
                         \/ files[f] \in Cameras /\ FileOf(files[f]) = f
    BY DEF SavedFileExists
  <2>1. call[c].at # "none" /\ call[c].request.kind = "snapshot" /\ Exists(files, call[c].request)
    BY <1>1 DEF Inv, CodesOK, CallsOK
  <2>2. call[c].request.cam \in Cameras
    BY <1>1, <2>1, GatewayAssumption DEF Inv, CallsOK
  <2>3. PICK f \in Files : f = FileOf(call[c].request.cam)
    BY <2>2 DEF Files
  <2>4. files[f] # "none"
    BY <2>1, <2>3 DEF Exists
  <2> QED
    BY <1>1, <2>3, <2>4 DEF Inv, FilesOK
<1> QED
  BY <1>1, GatewayInv, PTL

-----------------------------------------------------------------------------
(* A job that has been started is in the table until its time is over: it  *)
(* is the only reason to take it out.                                      *)
StartedIsKnown ==
  /\ since \in [JobIds -> Nat]
  /\ \A j \in JobIds :
       worker[j].stage # "none" => j \in DOMAIN jobs \/ since[j] > JobRetention

(* A step that starts no job and that only takes expired ones out.         *)
LEMMA KnownStays ==
  ASSUME StartedIsKnown, since' = since,
         \A j \in JobIds : worker'[j].stage # "none" => worker[j].stage # "none",
         \A j \in DOMAIN jobs : j \in DOMAIN jobs' \/ since[j] > JobRetention
  PROVE  StartedIsKnown'
BY DEF StartedIsKnown

LEMMA KeptUnlessOver ==
  \A j \in DOMAIN jobs : j \in DOMAIN Kept \/ since[j] > JobRetention
BY DEF Kept, Expired

LEMMA RecordActsKnown ==
  ASSUME StartedIsKnown, WorkersOK(worker), RecordActorStep
  PROVE  StartedIsKnown'
<1>1. CASE StartHasNoClients \/ StartIsTooMany \/ StartHasNoId \/ GetAnswers
  <2>1. jobs' = Kept /\ worker' = worker /\ since' = since
    BY <1>1 DEF StartHasNoClients, StartIsTooMany, StartHasNoId, GetAnswers
  <2> QED
    BY <2>1, KeptUnlessOver, KnownStays
<1>2. CASE StartAccepts
  <2>1. PICK j \in JobIds :
          /\ DOMAIN jobs' = DOMAIN Kept \cup {j}
          /\ worker' = [worker EXCEPT ![j] = Idle("spawned")]
    BY <1>2 DEF StartAccepts
  <2>2. since' = since
    BY <1>2 DEF StartAccepts
  <2>3. \A i \in JobIds : i # j => worker'[i] = worker[i]
    BY <2>1 DEF WorkersOK
  <2> QED
    BY <2>1, <2>2, <2>3, KeptUnlessOver DEF StartedIsKnown
<1>3. CASE JobIsRunning \/ JobIsCompleted \/ JobIsFailed
  <2>1. DOMAIN jobs' = DOMAIN jobs /\ worker' = worker /\ since' = since
    <3>1. CASE JobIsRunning
      BY <3>1 DEF JobIsRunning
    <3>2. CASE JobIsCompleted
      BY <3>2 DEF JobIsCompleted
    <3>3. CASE JobIsFailed
      BY <3>3, Zenon DEF JobIsFailed
    <3> QED
      BY <1>3, <3>1, <3>2, <3>3
  <2> QED
    BY <2>1, KnownStays
<1> QED
  BY <1>1, <1>2, <1>3 DEF RecordActorStep

LEMMA WorkerActsKnown ==
  ASSUME StartedIsKnown, WorkersOK(worker), NEW j \in JobIds, WorkerStep(j)
  PROVE  StartedIsKnown'
<1>1. jobs' = jobs /\ since' = since
  BY DEF WorkerStep, WorkerBegins, WorkerFindsPlace, WorkerOpensStream, WorkerAsksForBucket,
         WorkerMakesBucket, WorkerUploads, WorkerFails
<1>2. /\ worker[j].stage # "none"
      /\ \E s, p : worker' = [worker EXCEPT ![j] = [stage |-> s, place |-> p]]
  BY DEF WorkerStep, WorkerBegins, WorkerFindsPlace, WorkerOpensStream, WorkerAsksForBucket,
         WorkerMakesBucket, WorkerUploads, WorkerFails, WorkerAt, WorkerGoes, LiveStages
<1>3. \A i \in JobIds : i # j => worker'[i] = worker[i]
  BY <1>2 DEF WorkersOK
<1> QED
  BY <1>1, <1>2, <1>3, KnownStays

LEMMA TickKnown ==
  ASSUME StartedIsKnown, Tick
  PROVE  StartedIsKnown'
<1>1. jobs' = jobs /\ worker' = worker /\ JobRetention \in Nat
  BY RecordAssumption DEF Tick
<1>2. since' \in [JobIds -> Nat] /\ \A j \in JobIds : since'[j] \in {since[j], since[j] + 1}
  BY DEF Tick, RecordTime, StartedIsKnown
<1>3. ASSUME NEW j \in JobIds, worker'[j].stage # "none"
      PROVE  j \in DOMAIN jobs' \/ since'[j] > JobRetention
  <2>1. since[j] \in Nat /\ since'[j] \in {since[j], since[j] + 1}
    BY <1>2 DEF StartedIsKnown
  <2>2. j \in DOMAIN jobs \/ since[j] > JobRetention
    BY <1>1, <1>3 DEF StartedIsKnown
  <2> QED
    BY <1>1, <2>1, <2>2
<1> QED
  BY <1>2, <1>3 DEF StartedIsKnown

LEMMA NextKnown ==
  ASSUME Inv, StartedIsKnown, [Next]_vars
  PROVE  StartedIsKnown'
<1>1. CASE RecordActs
  BY <1>1, RecordActsKnown DEF RecordActs, Inv
<1>2. CASE \E j \in JobIds : WorkerActs(j)
  BY <1>2, WorkerActsKnown DEF WorkerActs, Inv
<1>3. CASE Tick
  BY <1>3, TickKnown
<1>4. CASE UNCHANGED <<jobs, worker, since>>
  BY <1>4 DEF StartedIsKnown
<1>5. CASE \E c \in Callers : Arrives(c) \/ Handles(c)
  BY <1>4, <1>5 DEF Arrives, Handles, actors
<1>6. CASE MasterForwards \/ SnapshotActs
  BY <1>4, <1>6 DEF MasterForwards, MasterForwardsSnapshot, MasterForwardsRecord, MasterTakes,
                    SnapshotActs
<1>7. CASE Signal \/ Main \/ MasterStops \/ RecordStops \/ UNCHANGED vars
  BY <1>4, <1>7 DEF Signal, Main, ShutdownReturns, MainReturns, Moves, MasterStops, RecordStops,
                    RecordStopping, actors, vars, recordVars
<1> QED
  BY <1>1, <1>2, <1>3, <1>5, <1>6, <1>7 DEF Next

(* Gateway.AcceptedIsKnown: the job that a 202 names is in the table until *)
(* its retention has passed.                                               *)
THEOREM AcceptedIsFound == Spec => []AcceptedIsKnown
<1>1. Init => StartedIsKnown
  BY DEF Init, RecordInit, StartedIsKnown, Idle
<1>2. Inv /\ StartedIsKnown /\ [Next]_vars => StartedIsKnown'
  BY NextKnown
<1>3. ASSUME Inv, StartedIsKnown
      PROVE  AcceptedIsKnown
  <2> SUFFICES ASSUME NEW c \in Callers, call[c].code = 202
               PROVE  \/ reply[c].job \in DOMAIN jobs
                      \/ since[reply[c].job] > JobRetention
    BY DEF AcceptedIsKnown
  <2>1. call[c].request.kind = "start" /\ reply[c].code = 202
    BY <1>3 DEF Inv, CodesOK
  <2>2. Answers(call[c].request, reply[c], worker, files)
    BY <1>3, <2>1, AcceptedIsReply DEF Inv, RepliesOK
  <2>3. reply[c].job \in JobIds /\ worker[reply[c].job].stage # "none"
    <3>1. PICK x : x = reply[c]
      OBVIOUS
    <3>2. \E code \in {202, 429, 500} : \E j, status :
            /\ x = StartRecordResult(code, j, status)
            /\ code = 202 => j \in JobIds /\ worker[j].stage # "none"
      BY <2>1, <2>2, <3>1 DEF Answers
    <3>3. PICK code \in {202, 429, 500} : \E j, status :
            /\ x = StartRecordResult(code, j, status)
            /\ code = 202 => j \in JobIds /\ worker[j].stage # "none"
      BY <3>2
    <3>4. PICK j, status : /\ x = StartRecordResult(code, j, status)
                           /\ code = 202 => j \in JobIds /\ worker[j].stage # "none"
      BY <3>3
    <3>5. x.code = code /\ x.job = j
      BY <3>4 DEF StartRecordResult
    <3> QED
      BY <2>1, <3>1, <3>4, <3>5
  <2>4. PICK j \in JobIds : j = reply[c].job
    BY <2>3
  <2> QED
    BY <1>3, <2>3, <2>4 DEF StartedIsKnown
<1> QED
  BY <1>1, <1>2, <1>3, GatewayInv, PTL DEF Spec

-----------------------------------------------------------------------------
(* An answer with a job stays with the call that it was given to: what a   *)
(* call asked for does not change any more, ...                            *)
LEMMA RequestStays ==
  ASSUME Inv, (\E c \in Callers : Arrives(c) \/ Handles(c)) \/ Tick
  PROVE  /\ \A d \in Callers : call[d].at # "none" => call'[d].request = call[d].request
         /\ UNCHANGED <<reply, worker>>
<1>1. call \in [Callers -> Call]
  BY DEF Inv, CallsOK
<1>2. ASSUME NEW c \in Callers, Arrives(c)
      PROVE  /\ \A d \in Callers : call[d].at # "none" => call'[d].request = call[d].request
             /\ UNCHANGED <<reply, worker>>
  <2>1. PICK q \in Requests :
          call' = [call EXCEPT ![c].at = "reading", ![c].request = q,
                               ![c].writeLeft = WriteTimeout]
    BY <1>2 DEF Arrives, CallArrives
  <2>2. call[c].at = "none" /\ \A d \in Callers : d # c => call'[d] = call[d]
    BY <1>1, <1>2, <2>1 DEF Arrives, CallArrives, At
  <2> QED
    BY <1>2, <2>2 DEF Arrives, CallArrives, actors
<1>3. ASSUME NEW c \in Callers, Handles(c)
      PROVE  /\ \A d \in Callers : call'[d].request = call[d].request
             /\ UNCHANGED <<reply, worker>>
  <2>1. CASE HandlerRefuses(c)
    BY <1>1, <1>3, <2>1 DEF HandlerRefuses, Handles, actors, Call
  <2>2. CASE HandlerAsks(c)
    BY <1>1, <1>3, <2>2 DEF HandlerAsks, Handles, actors, Call
  <2>3. CASE HandlerGetsResult(c)
    BY <1>1, <1>3, <2>3 DEF HandlerGetsResult, Handles, actors, Call
  <2>4. CASE FutureTimesOut(c)
    BY <1>1, <1>3, <2>4 DEF FutureTimesOut, Handles, actors, Call
  <2>5. CASE HandlerWrites(c)
    BY <1>1, <1>3, <2>5 DEF HandlerWrites, Handles, actors, Call
  <2> QED
    BY <1>3, <2>1, <2>2, <2>3, <2>4, <2>5 DEF Handles, HandlerStep
<1>4. CASE Tick
  <2>1. \A y \in Call :
          [y EXCEPT !.writeLeft = Down(@), !.futureLeft = Down(@)].request = y.request
    BY DEF Call
  <2>2. \A d \in Callers : call'[d].request = call[d].request
    BY <1>1, <1>4, <2>1 DEF Tick, HttpTime
  <2> QED
    BY <1>4, <2>2 DEF Tick
<1> QED
  BY <1>2, <1>3, <1>4

(* ... so a step that starts no job and answers only calls that have no    *)
(* job yet leaves every job its call.                                      *)
LEMMA AskersStay ==
  ASSUME OneRecordingPerCall,
         \A j \in JobIds : worker'[j].stage # "none" => worker[j].stage # "none",
         \A c \in Callers : Given(call, reply, c) =>
           call'[c].request = call[c].request /\ reply'[c] = reply[c]
  PROVE  OneRecordingPerCall'
BY DEF OneRecordingPerCall, Given

(* The record actor answers a call that has no answer yet.  If it starts a *)
(* job, that call has asked for it.                                        *)
LEMMA RecordActsForOne ==
  ASSUME Inv, OneRecordingPerCall, RecordActs
  PROVE  OneRecordingPerCall'
<1>1. call' = call
  BY DEF RecordActs, httpVars
<1>2. CASE JobIsRunning \/ JobIsCompleted \/ JobIsFailed
  <2>1. worker' = worker /\ reply' = reply
    <3>1. CASE JobIsRunning \/ JobIsCompleted
      BY <3>1 DEF JobIsRunning, JobIsCompleted
    <3>2. CASE JobIsFailed
      BY <3>2, Zenon DEF JobIsFailed
    <3> QED
      BY <1>2, <3>1, <3>2
  <2> QED
    BY <1>1, <2>1, AskersStay
<1>3. CASE StartHasNoClients \/ StartIsTooMany \/ StartHasNoId \/ StartAccepts \/ GetAnswers
  <2>1. PICK d : d = Head(recordBox).caller
    OBVIOUS
  <2>2. RecordGets("start") \/ RecordGets("get")
    BY <1>3 DEF StartHasNoClients, StartIsTooMany, StartHasNoId, StartAccepts, StartHasSlot,
                GetAnswers
  <2>3. /\ recordBox # <<>> /\ IsRequest(Head(recordBox))
        /\ RecordMeant(call, Head(recordBox))
        /\ Head(recordBox) = recordBox[1] /\ 1 \in 1 .. Len(recordBox)
    BY <2>2, RecordTaken DEF Inv, RecordGets, RecordMsg, IsRequest
  <2>4. /\ d \in Callers
        /\ call[d].request.kind = Head(recordBox).type
        /\ call[d].request.kind # "snapshot"
    BY <2>1, <2>3 DEF RecordMeant, IsRequest
  <2>5. reply[d] = NoReply
    BY <2>1, <2>3, <2>4 DEF Inv, Once
  <2>6. ASSUME NEW x, Respond(d, x)
        PROVE  /\ reply'[d] = x
               /\ \A c \in Callers : Given(call, reply, c) => c # d /\ reply'[c] = reply[c]
    <3>1. reply[d].code # 202
      BY <2>5, AcceptedIsReply
    <3>2. DOMAIN reply = Callers
      BY DEF Inv, RepliesOK
    <3> QED
      BY <2>4, <2>6, <3>1, <3>2 DEF Respond, Given
  <2>7. CASE ~StartAccepts
    <3>1. worker' = worker /\ \E x : Respond(d, x)
      BY <1>3, <2>1, <2>7
         DEF StartHasNoClients, StartIsTooMany, StartHasNoId, GetAnswers, RecordMsg
    <3> QED
      BY <1>1, <2>6, <3>1, AskersStay
  <2>8. CASE StartAccepts
    <3>1. PICK j \in JobIds : /\ worker' = [worker EXCEPT ![j] = Idle("spawned")]
                              /\ Respond(d, StartRecordResult(202, j, "accepted"))
      BY <2>1, <2>8 DEF StartAccepts, RecordMsg
    <3>2. call[d].request.kind = "start"
      BY <2>4, <2>8 DEF StartAccepts, StartHasSlot, RecordGets, RecordMsg
    <3>3. reply'[d].code = 202 /\ reply'[d].job = j
      BY <2>6, <3>1 DEF StartRecordResult
    <3>4. \A i \in JobIds : i # j => worker'[i] = worker[i]
      BY <3>1 DEF Inv, WorkersOK
    <3>5. \A c \in Callers : Given(call, reply, c) => reply'[c] = reply[c]
      BY <2>6, <3>1
    <3> QED
      BY <1>1, <2>4, <3>2, <3>3, <3>4, <3>5 DEF OneRecordingPerCall, Given
  <2> QED
    BY <2>7, <2>8
<1> QED
  BY <1>2, <1>3 DEF RecordActs, RecordActorStep

(* The snapshot actor answers calls that have asked for no recording.      *)
LEMMA SnapshotActsForOne ==
  ASSUME Inv, OneRecordingPerCall, SnapshotActs
  PROVE  OneRecordingPerCall'
<1>1. call' = call /\ worker' = worker
  BY DEF SnapshotActs, httpVars
<1>2. CASE SnapshotBegins
  BY <1>1, <1>2, AskersStay DEF SnapshotBegins
<1>3. CASE SnapshotNotFetched \/ SnapshotNotWritten \/ SnapshotSaves
  <2>1. PICK d : d = capturing.caller
    OBVIOUS
  <2>2. capturing # Nothing /\ \E x : Respond(d, x)
    BY <1>3, <2>1, ZenonT(60)
       DEF SnapshotNotFetched, SnapshotNotWritten, SnapshotSaves, SnapshotResponds
  <2>3. d \in Callers /\ call[d].request.kind = "snapshot"
    BY <2>1, <2>2 DEF Inv, SnapOK, SnapMeant, SnapshotRequests
  <2>4. \A c \in Callers : Given(call, reply, c) => reply'[c] = reply[c]
    BY <2>2, <2>3 DEF Respond, Given, Inv, RepliesOK
  <2> QED
    BY <1>1, <2>4, AskersStay
<1> QED
  BY <1>2, <1>3 DEF SnapshotActs, SnapshotStep

LEMMA NextIsForOne ==
  ASSUME Inv, OneRecordingPerCall, [Next]_vars
  PROVE  OneRecordingPerCall'
<1>1. CASE (\E c \in Callers : Arrives(c) \/ Handles(c)) \/ Tick
  <2>1. \A c \in Callers : Given(call, reply, c) => call[c].at # "none"
    BY AcceptedIsReply, AskedIsCalled DEF Inv, RepliesOK, Given
  <2> QED
    BY <1>1, <2>1, RequestStays, AskersStay
<1>2. CASE RecordActs
  BY <1>2, RecordActsForOne
<1>3. CASE SnapshotActs
  BY <1>3, SnapshotActsForOne
<1>4. CASE \E j \in JobIds : WorkerActs(j)
  <2>1. PICK j \in JobIds : WorkerActs(j)
    BY <1>4
  <2>2. call' = call /\ reply' = reply
    BY <2>1 DEF WorkerActs, WorkerStep, WorkerBegins, WorkerFindsPlace, WorkerOpensStream,
                WorkerAsksForBucket, WorkerMakesBucket, WorkerUploads, WorkerFails, httpVars
  <2>3. /\ worker[j].stage # "none"
        /\ \E s, p : worker' = [worker EXCEPT ![j] = [stage |-> s, place |-> p]]
    BY <2>1 DEF WorkerActs, WorkerStep, WorkerBegins, WorkerFindsPlace, WorkerOpensStream,
                WorkerAsksForBucket, WorkerMakesBucket, WorkerUploads, WorkerFails, WorkerAt,
                WorkerGoes, LiveStages
  <2>4. \A i \in JobIds : i # j => worker'[i] = worker[i]
    BY <2>3 DEF Inv, WorkersOK
  <2> QED
    BY <2>2, <2>3, <2>4, AskersStay
<1>5. CASE MasterForwards \/ Signal \/ Main \/ MasterStops \/ RecordStops \/ UNCHANGED vars
  <2>1. UNCHANGED <<call, reply, worker>>
    BY <1>5 DEF MasterForwards, MasterForwardsSnapshot, MasterForwardsRecord, MasterTakes,
                Signal, Main, ShutdownReturns, MainReturns, Moves, MasterStops, RecordStops,
                RecordStopping, actors, httpVars, vars, recordVars
  <2> QED
    BY <2>1, AskersStay
<1> QED
  BY <1>1, <1>2, <1>3, <1>4, <1>5 DEF Next

(* Gateway.OneRecordingPerCall: every recording was asked for by a call,   *)
(* and no call, not even one that was told nothing, has two of them.       *)
THEOREM RecordingsAreAskedFor == Spec => []OneRecordingPerCall
<1>1. Init => OneRecordingPerCall
  BY DEF Init, RecordInit, OneRecordingPerCall, Idle
<1>2. Inv /\ OneRecordingPerCall /\ [Next]_vars => OneRecordingPerCall'
  BY NextIsForOne
<1> QED
  BY <1>1, <1>2, GatewayInv, PTL DEF Spec

-----------------------------------------------------------------------------
(* The record service inside the gateway.  A result of the record actor    *)
(* has no field that a result of the snapshot actor has.                   *)
LEMMA RecordResultIsKept ==
  \A code, j, status : /\ "saved" \notin DOMAIN StartRecordResult(code, j, status)
                       /\ "saved" \notin DOMAIN RecordJobStatusResult(code, j, status)
BY DEF StartRecordResult, RecordJobStatusResult

LEMMA SnapshotResultIsHidden ==
  \A x \in SnapshotResults : "saved" \in DOMAIN x
BY DEF SnapshotResults

LEMMA NothingIsKept == "saved" \notin DOMAIN NoReply
BY DEF NoReply

(* An answer of the record actor is one of the service's, ...              *)
LEMMA RecordingRespond ==
  ASSUME DOMAIN reply = Callers, NEW c \in Callers, NEW x, "saved" \notin DOMAIN x,
         Respond(c, x)
  PROVE  Recording!Respond(c, x)
<1>1. PICK u : u = reply'
  OBVIOUS
<1>2. DOMAIN u = Callers /\ u[c] = x /\ \A d \in Callers : d # c => u[d] = reply[d]
  BY <1>1 DEF Respond
<1>3. RecordReply' = [d \in Callers |-> IF "saved" \in DOMAIN u[d] THEN NoReply ELSE u[d]]
  BY <1>1 DEF RecordReply
<1>4. RecordReply' = [RecordReply EXCEPT ![c] = x]
  BY <1>2, <1>3 DEF RecordReply
<1> QED
  BY <1>4 DEF Recording!Respond

LEMMA RecordingSame == reply' = reply => RecordReply' = RecordReply
BY DEF RecordReply

(* ... what the master forwards is a call of a caller that does not wait, ... *)
LEMMA RecordingCalls ==
  ASSUME Inv, MasterForwardsRecord
  PROVE  \E c \in Callers : Recording!CallsStart(c) \/ Recording!CallsGet(c)
<1>1. PICK c : c = Head(masterBox)
  OBVIOUS
<1>2. PICK x : x = IF call[c].request.kind = "start" THEN StartRecordRequest(c)
                   ELSE GetRecordJobRequest(c, call[c].request.job)
  OBVIOUS
<1>3. /\ masterBox # <<>> /\ call[c].request.kind \in {"start", "get"}
      /\ recordBox' = Append(recordBox, x)
      /\ UNCHANGED <<jobs, worker, since, store, initError, recordUp, reply>>
  BY <1>1, <1>2 DEF MasterForwardsRecord, MasterTakes, RecordSends
<1>4. MasterOK(call, Tail(masterBox)) /\ c \in Callers /\ Asked(call, c)
  BY <1>1, <1>3, MasterTaken DEF Inv
<1>5. /\ \A j \in 1 .. Len(recordBox) : IsRequest(recordBox[j]) => recordBox[j].caller # c
      /\ reply[c] # NoReply => call[c].request.kind = "snapshot"
  BY <1>1, <1>3, OnceForwarded DEF Inv
<1>6. reply[c] = NoReply
  BY <1>3, <1>5
<1>7. ~Recording!Waiting(c)
  <2>1. recordBox \in Seq(RecordMessages)
    BY DEF Inv, RecordOK
  <2> QED
    BY <1>5, <2>1 DEF Recording!Waiting, IsRequest
<1>8. Recording!Respond(c, Recording!NoReply)
  <2>1. RecordReply' = RecordReply /\ RecordReply[c] = NoReply
    BY <1>3, <1>4, <1>6, NothingIsKept, RecordingSame DEF RecordReply
  <2>2. RecordReply = [RecordReply EXCEPT ![c] = NoReply]
    BY <2>1, <1>4 DEF RecordReply
  <2> QED
    BY <2>1, <2>2 DEF Recording!Respond, Recording!NoReply, NoReply
<1>9. Recording!Calls(c, x)
  BY <1>3, <1>7, <1>8 DEF Recording!Calls, Recording!RecordSends
<1>10. CASE call[c].request.kind = "start"
  BY <1>2, <1>4, <1>9, <1>10
     DEF Recording!CallsStart, Recording!StartRecordRequest, StartRecordRequest
<1>11. CASE call[c].request.kind = "get"
  <2>1. call[c].request \in Requests
    BY <1>4, AskedIsCalled DEF Inv, CallsOK
  <2>2. PICK j \in JobIds : j = call[c].request.job
    BY <1>11, <2>1, GatewayAssumption
  <2>3. Recording!Calls(c, Recording!GetRecordJobRequest(c, j))
    BY <1>2, <1>9, <1>11, <2>2 DEF Recording!GetRecordJobRequest, GetRecordJobRequest
  <2> QED
    BY <1>4, <2>3 DEF Recording!CallsGet
<1> QED
  BY <1>3, <1>10, <1>11

(* ... what the actor does is what it does there, ...                      *)
LEMMA RecordingNames ==
  /\ Recording!Kept = Kept
  /\ Recording!RecordMsg = RecordMsg
  /\ Recording!RecordTakes <=> RecordTakes
  /\ \A type : Recording!RecordGets(type) <=> RecordGets(type)
  /\ \A code, j, status :
       /\ Recording!StartRecordResult(code, j, status) = StartRecordResult(code, j, status)
       /\ Recording!RecordJobStatusResult(code, j, status) =
            RecordJobStatusResult(code, j, status)
<1>1. \A j : Recording!Expired(j) <=> Expired(j)
  BY DEF Recording!Expired, Expired, Recording!FinishedStatus, FinishedStatus
<1> QED
  BY <1>1 DEF Recording!Kept, Kept, Recording!RecordMsg, RecordMsg, Recording!RecordTakes,
              RecordTakes, Recording!RecordGets, RecordGets, Recording!StartRecordResult,
              StartRecordResult, Recording!RecordJobStatusResult, RecordJobStatusResult

LEMMA RecordingCounts == \A S : Recording!Cardinality(S) = Cardinality(S)
BY DEF Recording!Cardinality, Cardinality

LEMMA RecordingActive == Recording!ActiveJobs(Kept) = ActiveJobs(Kept)
BY DEF Recording!ActiveJobs, ActiveJobs, Recording!ActiveStatus, ActiveStatus

LEMMA RecordingHasSlot == StartHasSlot => Recording!StartHasSlot
BY RecordingActive, RecordingCounts, RecordingNames
   DEF Recording!StartHasSlot, StartHasSlot

LEMMA RecordingActs ==
  ASSUME Inv, RecordActs
  PROVE  Recording!ActorActs
<1>1. DOMAIN reply = Callers
  BY DEF Inv, RepliesOK
<1>2. PICK h, d : h = Head(recordBox) /\ d = h.caller
  OBVIOUS
<1>3. ASSUME RecordGets("start") \/ RecordGets("get")
      PROVE  d \in Callers
  <2>1. RecordMeant(call, h) /\ IsRequest(h)
    BY <1>2, <1>3, RecordTaken DEF Inv, RecordGets, RecordMsg, IsRequest
  <2> QED
    BY <1>2, <2>1 DEF RecordMeant
<1>4. ASSUME NEW x, d \in Callers, "saved" \notin DOMAIN x, Respond(RecordMsg.caller, x)
      PROVE  Recording!Respond(RecordMsg.caller, x)
  BY <1>1, <1>2, <1>4, RecordingRespond DEF RecordMsg
<1>5. CASE StartHasNoClients
  <2>1. RecordGets("start") /\ Respond(RecordMsg.caller, StartRecordResult(500, NoJob, "none"))
    BY <1>5 DEF StartHasNoClients
  <2>2. Recording!Respond(RecordMsg.caller, StartRecordResult(500, NoJob, "none"))
    BY <1>3, <1>4, <2>1, RecordResultIsKept
  <2>3. Recording!StartHasNoClients
    BY <1>5, <2>2, RecordingNames DEF StartHasNoClients, Recording!StartHasNoClients
  <2> QED
    BY <2>3 DEF Recording!ActorActs, Recording!RecordActorStep
<1>6. CASE StartIsTooMany
  <2>1. RecordGets("start") /\ Respond(RecordMsg.caller, StartRecordResult(429, NoJob, "none"))
    BY <1>6 DEF StartIsTooMany
  <2>2. Recording!Respond(RecordMsg.caller, StartRecordResult(429, NoJob, "none"))
    BY <1>3, <1>4, <2>1, RecordResultIsKept
  <2>3. Recording!StartIsTooMany
    BY <1>6, <2>2, RecordingNames, RecordingActive, RecordingCounts
       DEF StartIsTooMany, Recording!StartIsTooMany
  <2> QED
    BY <2>3 DEF Recording!ActorActs, Recording!RecordActorStep
<1>7. CASE StartHasNoId
  <2>1. RecordGets("start") /\ Respond(RecordMsg.caller, StartRecordResult(500, NoJob, "none"))
    BY <1>7 DEF StartHasNoId, StartHasSlot
  <2>2. Recording!Respond(RecordMsg.caller, StartRecordResult(500, NoJob, "none"))
    BY <1>3, <1>4, <2>1, RecordResultIsKept
  <2>3. Recording!StartHasNoId
    BY <1>7, <2>2, RecordingNames, RecordingHasSlot DEF StartHasNoId, Recording!StartHasNoId
  <2> QED
    BY <2>3 DEF Recording!ActorActs, Recording!RecordActorStep
<1>8. CASE StartAccepts
  <2>1. PICK j \in JobIds :
          /\ worker[j].stage = "none"
          /\ jobs' = [i \in DOMAIN Kept \cup {j} |->
                        IF i = j
                          THEN [status |-> "accepted", ended |-> FALSE, place |-> NoPlace]
                          ELSE jobs[i]]
          /\ worker' = [worker EXCEPT ![j] = Idle("spawned")]
          /\ Respond(RecordMsg.caller, StartRecordResult(202, j, "accepted"))
    BY <1>8 DEF StartAccepts
  <2>2. Recording!Respond(RecordMsg.caller, StartRecordResult(202, j, "accepted"))
    BY <1>3, <1>4, <1>8, <2>1, RecordResultIsKept DEF StartAccepts, StartHasSlot
  <2>3. Idle("spawned") = Recording!Idle("spawned")
    BY DEF Idle, Recording!Idle
  <2>4. Recording!StartAccepts
    BY <1>8, <2>1, <2>2, <2>3, RecordingNames, RecordingHasSlot
       DEF StartAccepts, Recording!StartAccepts
  <2> QED
    BY <2>4 DEF Recording!ActorActs, Recording!RecordActorStep
<1>9. CASE GetAnswers
  <2>1. PICK j : j = RecordMsg.job
    OBVIOUS
  <2>2. PICK x : /\ x = IF j \in DOMAIN Kept THEN RecordJobStatusResult(200, j, jobs[j].status)
                                              ELSE RecordJobStatusResult(404, j, "none")
                 /\ Respond(RecordMsg.caller, x)
    BY <1>9, <2>1 DEF GetAnswers
  <2>3. Recording!Respond(RecordMsg.caller, x)
    BY <1>3, <1>4, <1>9, <2>2, RecordResultIsKept DEF GetAnswers
  <2>4. Recording!GetAnswers
    BY <1>9, <2>1, <2>2, <2>3, RecordingNames DEF GetAnswers, Recording!GetAnswers
  <2> QED
    BY <2>4 DEF Recording!ActorActs, Recording!RecordActorStep
<1>10. CASE JobIsRunning \/ JobIsCompleted \/ JobIsFailed
  <2>1. RecordReply' = RecordReply
    <3>1. CASE JobIsRunning \/ JobIsCompleted
      BY <3>1, RecordingSame DEF JobIsRunning, JobIsCompleted
    <3>2. CASE JobIsFailed
      BY <3>2, RecordingSame, Zenon DEF JobIsFailed
    <3> QED
      BY <1>10, <3>1, <3>2
  <2>2. JobIsRunning => Recording!JobIsRunning
    BY <2>1, RecordingNames DEF JobIsRunning, Recording!JobIsRunning
  <2>3. JobIsCompleted => Recording!JobIsCompleted
    BY <2>1, RecordingNames DEF JobIsCompleted, Recording!JobIsCompleted
  <2>4. JobIsFailed => Recording!JobIsFailed
    <3>1. /\ \A type : Recording!RecordGets(type) <=> RecordGets(type)
          /\ Recording!RecordMsg = RecordMsg
          /\ Recording!RecordTakes <=> RecordTakes
      BY RecordingNames
    <3> QED
      BY <2>1, <3>1, Zenon DEF JobIsFailed, Recording!JobIsFailed
  <2> QED
    BY <1>10, <2>2, <2>3, <2>4 DEF Recording!ActorActs, Recording!RecordActorStep
<1> QED
  BY <1>5, <1>6, <1>7, <1>8, <1>9, <1>10 DEF RecordActs, RecordActorStep

(* ... and so is what a goroutine does, ...                                *)
LEMMA RecordingWorks ==
  ASSUME NEW j \in JobIds, WorkerActs(j)
  PROVE  Recording!WorkerActs(j)
<1>1. RecordReply' = RecordReply
  BY RecordingSame DEF WorkerActs, WorkerStep, WorkerBegins, WorkerFindsPlace,
       WorkerOpensStream, WorkerAsksForBucket, WorkerMakesBucket, WorkerUploads, WorkerFails
<1>2. \A stage : Recording!WorkerAt(j, stage) <=> WorkerAt(j, stage)
  BY DEF Recording!WorkerAt, WorkerAt
<1>3. \A stage, p : Recording!WorkerGoes(j, stage, p) <=> WorkerGoes(j, stage, p)
  BY DEF Recording!WorkerGoes, WorkerGoes
<1>4. \A msg : Recording!RecordSends(msg) <=> RecordSends(msg)
  BY DEF Recording!RecordSends, RecordSends
<1>5. WorkerBegins(j) => Recording!WorkerBegins(j)
  BY <1>1, <1>2, <1>3, <1>4 DEF WorkerBegins, Recording!WorkerBegins, recordJobRunning,
       Recording!recordJobRunning
<1>6. WorkerFindsPlace(j) => Recording!WorkerFindsPlace(j)
  BY <1>1, <1>2, <1>3 DEF WorkerFindsPlace, Recording!WorkerFindsPlace
<1>7. WorkerOpensStream(j) => Recording!WorkerOpensStream(j)
  BY <1>1, <1>2, <1>3 DEF WorkerOpensStream, Recording!WorkerOpensStream
<1>8. WorkerAsksForBucket(j) => Recording!WorkerAsksForBucket(j)
  BY <1>1, <1>2, <1>3 DEF WorkerAsksForBucket, Recording!WorkerAsksForBucket
<1>9. WorkerMakesBucket(j) => Recording!WorkerMakesBucket(j)
  BY <1>1, <1>2, <1>3 DEF WorkerMakesBucket, Recording!WorkerMakesBucket
<1>10. WorkerUploads(j) => Recording!WorkerUploads(j)
  BY <1>1, <1>2, <1>3, <1>4 DEF WorkerUploads, Recording!WorkerUploads, recordJobCompleted,
       Recording!recordJobCompleted
<1>11. WorkerFails(j) => Recording!WorkerFails(j)
  BY <1>1, <1>2, <1>3, <1>4 DEF WorkerFails, Recording!WorkerFails, recordJobFailed,
       Recording!recordJobFailed, LiveStages, Recording!LiveStages
<1> QED
  BY <1>5, <1>6, <1>7, <1>8, <1>9, <1>10, <1>11
     DEF WorkerActs, WorkerStep, Recording!WorkerActs, Recording!WorkerStep

(* ... while the other actors, the server and main do not take part.       *)
LEMMA RecordingRests ==
  ASSUME Inv,
         \/ \E c \in Callers : Arrives(c) \/ Handles(c)
         \/ MasterForwardsSnapshot \/ SnapshotActs
         \/ Signal \/ Main \/ MasterStops \/ UNCHANGED vars
  PROVE  UNCHANGED Recording!vars
<1>1. UNCHANGED <<jobs, recordBox, worker, since, store, initError, recordUp>>
  <2>1. CASE \E c \in Callers : Arrives(c) \/ Handles(c)
    BY <2>1 DEF Arrives, Handles, actors
  <2>2. CASE MasterForwardsSnapshot \/ SnapshotActs
    BY <2>2 DEF MasterForwardsSnapshot, MasterTakes, SnapshotActs
  <2>3. CASE Signal \/ Main \/ MasterStops \/ UNCHANGED vars
    BY <2>3 DEF Signal, Main, ShutdownReturns, MainReturns, Moves, MasterStops, actors, vars,
                recordVars
  <2> QED
    BY <2>1, <2>2, <2>3
<1>2. RecordReply' = RecordReply
  <2>1. CASE \E c \in Callers : Arrives(c) \/ Handles(c)
    <3>1. ASSUME NEW c \in Callers, Arrives(c)
          PROVE  reply' = reply
      BY <3>1, Zenon DEF Arrives, CallArrives
    <3>2. ASSUME NEW c \in Callers, Handles(c)
          PROVE  reply' = reply
      <4>1. CASE HandlerRefuses(c) \/ HandlerAsks(c)
        BY <4>1 DEF HandlerRefuses, HandlerAsks
      <4>2. CASE HandlerGetsResult(c)
        BY <4>2 DEF HandlerGetsResult
      <4>3. CASE FutureTimesOut(c) \/ HandlerWrites(c)
        BY <4>3 DEF FutureTimesOut, HandlerWrites
      <4> QED
        BY <3>2, <4>1, <4>2, <4>3 DEF Handles, HandlerStep
    <3> QED
      BY <2>1, <3>1, <3>2, RecordingSame
  <2>2. CASE SnapshotActs
    <3>1. CASE SnapshotBegins
      BY <3>1, RecordingSame DEF SnapshotBegins
    <3>2. CASE ~SnapshotBegins
      <4>1. PICK d : d = capturing.caller
        OBVIOUS
      <4>2. capturing # Nothing /\ \E x : "saved" \in DOMAIN x /\ reply' = [reply EXCEPT ![d] = x]
        <5>1. CASE SnapshotNotFetched \/ SnapshotNotWritten
          <6>1. PICK code \in {0, 200, 404, 500, 502} : SnapshotResponds(code, FALSE)
            BY <5>1, ZenonT(60) DEF SnapshotNotFetched, SnapshotNotWritten
          <6>2. PICK x : x = SnapshotResult(code, capturing.cam, FALSE)
            OBVIOUS
          <6>3. "saved" \in DOMAIN x /\ reply' = [reply EXCEPT ![d] = x]
            BY <4>1, <6>1, <6>2 DEF SnapshotResponds, Respond, SnapshotResult
          <6> QED
            BY <5>1, <6>3, ZenonT(60) DEF SnapshotNotFetched, SnapshotNotWritten
        <5>2. CASE SnapshotSaves
          <6>1. PICK x : x = SnapshotResult(200, capturing.cam, TRUE)
            OBVIOUS
          <6>2. "saved" \in DOMAIN x /\ reply' = [reply EXCEPT ![d] = x]
            BY <4>1, <5>2, <6>1 DEF SnapshotSaves, SnapshotResponds, Respond, SnapshotResult
          <6> QED
            BY <5>2, <6>2 DEF SnapshotSaves
        <5> QED
          BY <2>2, <3>2, <5>1, <5>2 DEF SnapshotActs, SnapshotStep
      <4>3. d \in Callers /\ call[d].request.kind = "snapshot"
        BY <4>1, <4>2 DEF Inv, SnapOK, SnapMeant, SnapshotRequests
      <4>4. reply[d] = NoReply \/ "saved" \in DOMAIN reply[d]
        BY <4>3, SnapshotResultIsHidden DEF Inv, RepliesOK, Answers
      <4>5. PICK x, u : "saved" \in DOMAIN x /\ u = reply' /\ u = [reply EXCEPT ![d] = x]
        BY <4>2
      <4> QED
        BY <4>3, <4>4, <4>5, NothingIsKept DEF RecordReply, Inv, RepliesOK
    <3> QED
      BY <3>1, <3>2
  <2>3. CASE MasterForwardsSnapshot \/ Signal \/ Main \/ MasterStops \/ UNCHANGED vars
    BY <2>3, RecordingSame
       DEF MasterForwardsSnapshot, MasterTakes, Signal, Main, ShutdownReturns, MainReturns,
           Moves, MasterStops, vars, recordVars
  <2> QED
    BY <2>1, <2>2, <2>3
<1> QED
  BY <1>1, <1>2 DEF Recording!vars, Recording!recordVars

LEMMA RecordingNext ==
  ASSUME Inv, [Next]_vars
  PROVE  [Recording!Next]_Recording!vars
<1>1. CASE MasterForwardsRecord
  BY <1>1, RecordingCalls DEF Recording!Next
<1>2. CASE RecordActs
  BY <1>2, RecordingActs DEF Recording!Next
<1>3. CASE \E j \in JobIds : WorkerActs(j)
  BY <1>3, RecordingWorks DEF Recording!Next
<1>4. CASE Tick
  <2>1. RecordReply' = RecordReply
    BY <1>4, RecordingSame DEF Tick
  <2>2. Recording!TimePasses
    BY <1>4, <2>1 DEF Tick, RecordTime, Recording!TimePasses, Recording!RecordTime
  <2> QED
    BY <2>2 DEF Recording!Next
<1>5. CASE RecordStops
  <2>1. RecordReply' = RecordReply
    BY <1>5, RecordingSame DEF RecordStops, RecordStopping
  <2>2. Recording!Stops
    BY <1>5, <2>1 DEF RecordStops, RecordStopping, Recording!Stops, Recording!RecordStopping
  <2> QED
    BY <2>2 DEF Recording!Next
<1> QED
  BY <1>1, <1>2, <1>3, <1>4, <1>5, RecordingRests DEF Next, MasterForwards

(* Gateway.ImplementsRecordService: for the callers of the gateway the     *)
(* record actor is the record service.                                     *)
THEOREM GatewayRecords == Spec => ImplementsRecordService
<1>1. Init => Recording!Init
  <2>1. Init => RecordReply = [c \in Callers |-> NoReply]
    BY NothingIsKept DEF Init, RecordInit, RecordReply
  <2> QED
    BY <2>1 DEF Init, RecordInit, Recording!Init, Recording!RecordInit, Idle, Recording!Idle,
                NoReply, Recording!NoReply
<1>2. Inv /\ [Next]_vars => [Recording!Next]_Recording!vars
  BY RecordingNext
<1> QED
  BY <1>1, <1>2, GatewayInv, PTL DEF Spec, ImplementsRecordService, Recording!Spec

-----------------------------------------------------------------------------
(* What is proved of the record service holds behind the server as well:   *)
(* the theorems of RecordServiceProofs, for this instance of the service.  *)
Recorded == INSTANCE RecordServiceProofs WITH restarts <- 0, RestartCap <- 1,
                                              reply <- RecordReply

(* The two instances are the same service.                                 *)
LEMMA RecordedCalls ==
  ASSUME NEW c \in Callers, Recording!CallsStart(c) \/ Recording!CallsGet(c)
  PROVE  Recorded!CallsStart(c) \/ Recorded!CallsGet(c)
BY Zenon
   DEF Recording!CallsStart, Recorded!CallsStart, Recording!CallsGet, Recorded!CallsGet,
       Recording!Calls, Recorded!Calls, Recording!Waiting, Recorded!Waiting,
       Recording!RecordSends, Recorded!RecordSends, Recording!Respond, Recorded!Respond,
       Recording!NoReply, Recorded!NoReply, Recording!StartRecordRequest,
       Recorded!StartRecordRequest, Recording!GetRecordJobRequest,
       Recorded!GetRecordJobRequest

LEMMA RecordedActs ==
  ASSUME Recording!ActorActs
  PROVE  Recorded!ActorActs
BY Zenon
   DEF Recording!ActorActs, Recorded!ActorActs, Recording!RecordActorStep,
       Recorded!RecordActorStep, Recording!StartHasNoClients, Recorded!StartHasNoClients,
       Recording!StartIsTooMany, Recorded!StartIsTooMany, Recording!StartHasNoId,
       Recorded!StartHasNoId, Recording!StartAccepts, Recorded!StartAccepts,
       Recording!StartHasSlot, Recorded!StartHasSlot, Recording!GetAnswers,
       Recorded!GetAnswers, Recording!JobIsRunning, Recorded!JobIsRunning,
       Recording!JobIsCompleted, Recorded!JobIsCompleted, Recording!JobIsFailed,
       Recorded!JobIsFailed, Recording!RecordMsg, Recorded!RecordMsg, Recording!RecordGets,
       Recorded!RecordGets, Recording!RecordTakes, Recorded!RecordTakes,
       Recording!StartRecordResult, Recorded!StartRecordResult,
       Recording!RecordJobStatusResult, Recorded!RecordJobStatusResult, Recording!Respond, Recorded!Respond,
       Recording!Idle, Recorded!Idle, Recording!Kept, Recorded!Kept, Recording!Expired,
       Recorded!Expired, Recording!ActiveJobs, Recorded!ActiveJobs, Recording!ActiveStatus,
       Recorded!ActiveStatus, Recording!FinishedStatus, Recorded!FinishedStatus,
       Recording!Cardinality, Recorded!Cardinality

LEMMA RecordedWorks ==
  ASSUME NEW j \in JobIds, Recording!WorkerActs(j)
  PROVE  Recorded!WorkerActs(j)
BY DEF Recording!WorkerActs, Recorded!WorkerActs, Recording!WorkerStep,
       Recorded!WorkerStep, Recording!WorkerBegins, Recorded!WorkerBegins,
       Recording!WorkerFindsPlace, Recorded!WorkerFindsPlace, Recording!WorkerOpensStream,
       Recorded!WorkerOpensStream, Recording!WorkerAsksForBucket,
       Recorded!WorkerAsksForBucket, Recording!WorkerMakesBucket,
       Recorded!WorkerMakesBucket, Recording!WorkerUploads, Recorded!WorkerUploads,
       Recording!WorkerFails, Recorded!WorkerFails, Recording!WorkerAt, Recorded!WorkerAt,
       Recording!WorkerGoes, Recorded!WorkerGoes, Recording!RecordSends,
       Recorded!RecordSends, Recording!recordJobRunning, Recorded!recordJobRunning,
       Recording!recordJobCompleted, Recorded!recordJobCompleted,
       Recording!recordJobFailed, Recorded!recordJobFailed, Recording!LiveStages,
       Recorded!LiveStages

LEMMA RecordedRest ==
  ASSUME Recording!TimePasses \/ Recording!Stops \/ Recording!Restarts
  PROVE  Recorded!TimePasses \/ Recorded!Stops \/ Recorded!Restarts
BY DEF Recording!TimePasses, Recorded!TimePasses, Recording!RecordTime,
       Recorded!RecordTime, Recording!Stops, Recorded!Stops, Recording!RecordStopping,
       Recorded!RecordStopping, Recording!Restarts, Recorded!Restarts,
       Recording!RecordRestarts, Recorded!RecordRestarts, Recording!WorkerAt,
       Recorded!WorkerAt

LEMMA RecordedSpec == Recording!Spec => Recorded!Spec
<1>1. UNCHANGED Recording!vars => UNCHANGED Recorded!vars
  BY DEF Recording!vars, Recorded!vars, Recording!recordVars, Recorded!recordVars
<1>2. Recording!Init => Recorded!Init
  BY DEF Recording!Init, Recorded!Init, Recording!RecordInit, Recorded!RecordInit,
         Recording!Idle, Recorded!Idle, Recording!NoReply, Recorded!NoReply
<1>3. Recording!Next => Recorded!Next
  <2>1. (\E c \in Callers : Recording!CallsStart(c) \/ Recording!CallsGet(c)) => Recorded!Next
    BY RecordedCalls DEF Recorded!Next
  <2>2. Recording!ActorActs => Recorded!Next
    BY RecordedActs DEF Recorded!Next
  <2>3. (\E j \in JobIds : Recording!WorkerActs(j)) => Recorded!Next
    BY RecordedWorks DEF Recorded!Next
  <2>4. Recording!TimePasses \/ Recording!Stops \/ Recording!Restarts => Recorded!Next
    BY RecordedRest DEF Recorded!Next
  <2> QED
    BY <2>1, <2>2, <2>3, <2>4 DEF Recording!Next
<1>4. [Recording!Next]_Recording!vars => [Recorded!Next]_Recorded!vars
  BY <1>1, <1>3
<1> QED
  BY <1>2, <1>4, PTL DEF Recording!Spec, Recorded!Spec

(* Whatever clients ask for, however long calls last, and whenever the     *)
(* process is stopped: no more recordings are made at a time than          *)
(* record.max_concurrent_jobs, a job is known until its retention has      *)
(* passed, a completed one is in MinIO, and the life of every job is that  *)
(* of the abstract service.                                                *)
THEOREM GatewayKeepsRecords ==
  Spec => /\ []Recorded!WorkersWithinLimit
          /\ []Recorded!KnownUntilRetention
          /\ []Recorded!CompletedIsStored
          /\ Recorded!ImplementsRecordJobs
<1>1. Spec => Recorded!Spec
  BY GatewayRecords, RecordedSpec DEF ImplementsRecordService
<1>2. Recorded!RecordAssumption /\ Recorded!RestartAssumption
  BY RecordAssumption DEF Recorded!RecordAssumption, Recorded!RestartAssumption
<1>3. Recorded!Spec => []Recorded!WorkersWithinLimit
  BY <1>2, Recorded!RecordingsAreLimited, PTL
<1>4. Recorded!Spec => []Recorded!KnownUntilRetention
  BY <1>2, Recorded!JobsAreRetained, PTL
<1>5. Recorded!Spec => []Recorded!CompletedIsStored
  BY <1>2, Recorded!CompletedJobsAreStored, PTL
<1>6. Recorded!Spec => Recorded!ImplementsRecordJobs
  BY <1>2, Recorded!RecordJobsImplemented, PTL
<1> QED
  BY <1>1, <1>3, <1>4, <1>5, <1>6
===============================================================================
