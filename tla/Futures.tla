-------------------------------- MODULE Futures --------------------------------
(***************************************************************************)
(* The futures of RootContext.RequestFuture: each waits for the answer of  *)
(* one actor.  An answer that finds its future timed out is lost: nobody   *)
(* reads what the variable holds for it then.                              *)
(***************************************************************************)
CONSTANT Callers     \* the futures, one for each caller

VARIABLE reply       \* what the future of each caller holds

NoReply == [code |-> 0]

Respond(c, result) == reply' = [reply EXCEPT ![c] = result]
===============================================================================
