----------------------------- MODULE Go2RTCActor -----------------------------
(***************************************************************************)
(* actor/Go2RTCActor.go: reads go2rtc's YAML file and calls its HTTP API,  *)
(* one message at a time.  The HTTP call of a handler and its reply are    *)
(* one step, taken at the instant go2rtc serves the call: nothing else in  *)
(* the program reads go2rtc, so whatever happens between the call and the  *)
(* reply could as well have happened before or after both.                 *)
(***************************************************************************)
EXTENDS Messages

CONSTANT Moving    \* bound: the streams that change in go2rtc by themselves

ASSUME Go2RTCAssumption == Moving \subseteq Streams

VARIABLE status    \* external: what go2rtc knows of each stream

(* "absent": go2rtc does not know it; "idle": it has no producer; "live":   *)
(* it has one.                                                             *)
StreamStatus == {"absent", "idle", "live"}

Live == {s \in Streams : status[s] = "live"}

Go2RTCInit == status \in [Streams -> {"idle", "live"}]

-----------------------------------------------------------------------------
(* The message is taken and its answers go to the parent.                  *)
Replies(msgs) == box' = Post(Taken("go2rtc"), "master", msgs)

(* listStreamNames: the file cannot be read, parsed or has no streams      *)
(* mapping.                                                                *)
Go2RTCFetchFails ==
  /\ Gets("go2rtc", "FetchStreamList")
  /\ LET m == Msg("go2rtc")
     IN Replies(<<StreamListFetched(m.triggeredAt, m.requestedBy, <<>>, TRUE)>>)
  /\ UNCHANGED <<sleeping, status>>

(* ... or it yields the keys of that mapping, in the order of the file.    *)
Go2RTCFetches ==
  /\ Gets("go2rtc", "FetchStreamList")
  /\ \E list \in StreamLists :
       LET m == Msg("go2rtc")
       IN Replies(<<StreamListFetched(m.triggeredAt, m.requestedBy, list, FALSE)>>)
  /\ UNCHANGED <<sleeping, status>>

(* hasProducer: the call fails (timeout, status, body).                    *)
Go2RTCCheckFails ==
  /\ Gets("go2rtc", "CheckStreamHealth")
  /\ Replies(<<StreamHealthChecked(Msg("go2rtc"), FALSE, TRUE)>>)
  /\ UNCHANGED <<sleeping, status>>

(* ... or it tells whether there is a producer; a stream that go2rtc does  *)
(* not know (404) has none.                                                *)
Go2RTCChecks ==
  /\ Gets("go2rtc", "CheckStreamHealth")
  /\ LET m == Msg("go2rtc")
     IN Replies(<<StreamHealthChecked(m, status[m.stream] = "live", FALSE)>>)
  /\ UNCHANGED <<sleeping, status>>

(* removeStream: the backup or the request fails and nothing is deleted,   *)
(* or the stream is deleted but the answer is lost or is an error status.  *)
Go2RTCRemoveFails ==
  /\ Gets("go2rtc", "RemoveStream")
  /\ LET m == Msg("go2rtc")
     IN /\ Replies(<<StreamRemovalCompleted(m, FALSE, TRUE)>>)
        /\ status' \in {status, [status EXCEPT ![m.stream] = "absent"]}
  /\ UNCHANGED sleeping

(* removeStream: go2rtc does not know the stream (404).                    *)
Go2RTCRemoveUnknown ==
  /\ Gets("go2rtc", "RemoveStream")
  /\ LET m == Msg("go2rtc")
     IN /\ status[m.stream] = "absent"
        /\ Replies(<<StreamRemovalCompleted(m, FALSE, FALSE)>>)
  /\ UNCHANGED <<sleeping, status>>

Go2RTCRemoves ==
  /\ Gets("go2rtc", "RemoveStream")
  /\ LET m == Msg("go2rtc")
     IN /\ status[m.stream] # "absent"
        /\ status' = [status EXCEPT ![m.stream] = "absent"]
        /\ Replies(<<StreamRemoved(m.stream), StreamRemovalCompleted(m, TRUE, FALSE)>>)
  /\ UNCHANGED sleeping

Go2RTCFails ==
  \/ Go2RTCFetchFails
  \/ Go2RTCCheckFails
  \/ Go2RTCRemoveFails

Go2RTCNext ==
  \/ Go2RTCFails
  \/ Go2RTCFetches
  \/ Go2RTCChecks
  \/ Go2RTCRemoveUnknown
  \/ Go2RTCRemoves

-----------------------------------------------------------------------------
(* External: a camera connects or leaves, or somebody else edits go2rtc.   *)
StreamChanges(s) ==
  /\ \E v \in StreamStatus \ {status[s]} : status' = [status EXCEPT ![s] = v]
  /\ UNCHANGED <<box, sleeping>>
===============================================================================
