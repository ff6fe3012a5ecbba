------------------------------ MODULE HttpServer ------------------------------
(***************************************************************************)
(* httpserver/server.go: every call is a goroutine that reads a request,   *)
(* refuses it or asks the master actor through a future, and writes one    *)
(* answer.  net/http arms the write deadline of the connection when the    *)
(* headers are read; the future gets the same timeout later.               *)
(***************************************************************************)
EXTENDS Naturals, Sequences, Futures

CONSTANTS
  Requests,        \* the requests of clients: [kind, cam, job, flaw]
  NoRequest,
  WriteTimeout     \* http.write_timeout, in ticks of the clock

(* config.Load refuses a timeout that is not greater than zero.            *)
ASSUME HttpAssumption ==
  /\ WriteTimeout \in Nat \ {0}
  /\ NoRequest \notin Requests
  /\ \A r \in Requests : /\ r.kind \in {"snapshot", "start", "get"}
                         /\ r.flaw \in {"none", "method", "address", "body"}
                         /\ r.kind = "snapshot" => r.flaw # "address"

VARIABLES
  call,        \* the goroutine that serves each call, and its timers
  masterBox    \* the master's mailbox: the callers whose requests it holds

httpVars == <<call, masterBox>>

(* "sent": the client got the answer; "cut": the write came too late.      *)
Ended == {"sent", "cut"}
InProgress == {"reading", "waiting", "writing"}

Stages == {"none"} \cup InProgress \cup Ended

Codes == {0, 200, 201, 202, 400, 403, 404, 405, 429, 500, 502, 504}

Call == [at : Stages, request : Requests \cup {NoRequest}, code : Codes,
         writeLeft : 0 .. WriteTimeout, futureLeft : 0 .. WriteTimeout]

HttpInit ==
  /\ call = [c \in Callers |-> [at |-> "none", request |-> NoRequest, code |-> 0,
                                writeLeft |-> 0, futureLeft |-> 0]]
  /\ masterBox = <<>>

-----------------------------------------------------------------------------
At(c, stage) == call[c].at = stage

(* The headers of a request have been read.                                *)
CallArrives(c) ==
  /\ At(c, "none")
  /\ \E r \in Requests :
       call' = [call EXCEPT ![c].at = "reading", ![c].request = r,
                            ![c].writeLeft = WriteTimeout]
  /\ UNCHANGED <<masterBox, reply>>

(* The checks of the handlers in their order: method, address of the       *)
(* client (for recordings only), body or job identifier.                   *)
Refusal(r) ==
  CASE r.flaw = "method" -> 405
    [] r.flaw = "address" -> 403
    [] r.flaw = "body" -> IF r.kind = "get" THEN 404 ELSE 400

HandlerRefuses(c) ==
  /\ At(c, "reading")
  /\ call[c].request.flaw # "none"
  /\ call' = [call EXCEPT ![c].at = "writing", ![c].code = Refusal(call[c].request)]
  /\ UNCHANGED <<masterBox, reply>>

(* RequestFuture.                                                          *)
HandlerAsks(c) ==
  /\ At(c, "reading")
  /\ call[c].request.flaw = "none"
  /\ call' = [call EXCEPT ![c].at = "waiting", ![c].futureLeft = WriteTimeout]
  /\ masterBox' = Append(masterBox, c)
  /\ UNCHANGED reply

(* Each handler asserts the type of the result for its own request.  Any   *)
(* other one would be an unexpected actor response.                        *)
IsExpected(kind, result) == result.type = kind

(* The code of the answer to a result.                                     *)
AnswerCode(kind, result) ==
  IF ~IsExpected(kind, result) THEN 500
  ELSE IF kind # "snapshot" THEN result.code
  ELSE IF result.saved THEN 201
  ELSE IF result.code \in {404, 502} THEN result.code ELSE 500

HandlerGetsResult(c) ==
  /\ At(c, "waiting")
  /\ reply[c] # NoReply
  /\ call' = [call EXCEPT ![c].at = "writing",
                          ![c].code = AnswerCode(call[c].request.kind, reply[c])]
  /\ UNCHANGED <<masterBox, reply>>

(* Mutant: the handler waits for the actor without a timeout.              *)
FutureTimesOut_Never(c) == FALSE /\ UNCHANGED <<call, masterBox, reply>>

(* Mutant: the handler asks again when it has waited too long.             *)
FutureTimesOut_AsksAgain(c) ==
  /\ At(c, "waiting")
  /\ call[c].futureLeft = 0
  /\ reply[c] = NoReply
  /\ call' = [call EXCEPT ![c].futureLeft = WriteTimeout]
  /\ masterBox' = Append(masterBox, c)
  /\ UNCHANGED reply

FutureTimesOut(c) ==
  /\ At(c, "waiting")
  /\ call[c].futureLeft = 0
  /\ reply[c] = NoReply
  /\ call' = [call EXCEPT ![c].at = "writing", ![c].code = 504]
  /\ UNCHANGED <<masterBox, reply>>

(* writeJSON; the answer is flushed when the handler returns.              *)
HandlerWrites(c) ==
  /\ At(c, "writing")
  /\ call' = [call EXCEPT ![c].at = IF call[c].writeLeft > 0 THEN "sent" ELSE "cut"]
  /\ UNCHANGED <<masterBox, reply>>

(* What a goroutine does by itself, once its request is there.             *)
HandlerStep(c) ==
  \/ HandlerRefuses(c)
  \/ HandlerAsks(c)
  \/ HandlerGetsResult(c)
  \/ FutureTimesOut(c)
  \/ HandlerWrites(c)

(* Time passes.  The timers of a call that has ended do not matter.        *)
Down(n) == IF n = 0 THEN 0 ELSE n - 1
HttpTime ==
  call' = [c \in Callers |->
             IF call[c].at \in InProgress
               THEN [call[c] EXCEPT !.writeLeft = Down(@), !.futureLeft = Down(@)]
               ELSE call[c]]
===============================================================================
