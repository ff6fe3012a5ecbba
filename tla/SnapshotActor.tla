---------------------------- MODULE SnapshotActor ----------------------------
(***************************************************************************)
(* actor/SnapshotActor.go: captures one frame at a time and answers when   *)
(* the file is written.  It knows neither how long a caller has waited nor *)
(* whether it still does.                                                  *)
(***************************************************************************)
EXTENDS Sequences, Futures

CONSTANTS
  Cameras,
  FileOf(_),     \* sanitizeFileName: several cameras may share a file
  NoCaller

VARIABLES
  snapBox,       \* the actor's mailbox: captures in the order they were asked for
  capturing,     \* the caller whose capture is being made
  files          \* per file: none, whole with the camera it shows, or torn

snapVars == <<snapBox, capturing, files>>

Files == {FileOf(k) : k \in Cameras}
CaptureSnapshotRequest(c, k) == [caller |-> c, cam |-> k]
SnapshotRequests == [caller : Callers, cam : Cameras]
Nothing == [caller |-> NoCaller, cam |-> NoCaller]

(* CaptureSnapshotResult: the status code of go2rtc, or 0 when there was   *)
(* none, and the camera; "saved" if there is a path and no error.          *)
SnapshotResult(code, k, saved) ==
  [type |-> "snapshot", code |-> code, cam |-> k, saved |-> saved]
SnapshotResults ==
  [type : {"snapshot"}, code : {0, 200, 404, 500, 502}, cam : Cameras, saved : BOOLEAN]

SnapInit ==
  /\ snapBox = <<>>
  /\ capturing = Nothing
  /\ files = [f \in Files |-> "none"]

-----------------------------------------------------------------------------
SnapshotBegins ==
  /\ capturing = Nothing
  /\ snapBox # <<>>
  /\ capturing' = Head(snapBox)
  /\ snapBox' = Tail(snapBox)
  /\ UNCHANGED <<files, reply>>

(* The handler responds last and is free for the next message.             *)
SnapshotResponds(code, saved) ==
  /\ Respond(capturing.caller, SnapshotResult(code, capturing.cam, saved))
  /\ capturing' = Nothing
  /\ UNCHANGED snapBox

(* fetchSnapshot: the call fails, or go2rtc refuses or sends no image.     *)
(* 500 stands for every other status.                                      *)
SnapshotNotFetched ==
  /\ capturing # Nothing
  /\ \E code \in {0, 200, 404, 500, 502} : SnapshotResponds(code, FALSE)
  /\ UNCHANGED files

(* Mutant: a failure to write is not noticed.                              *)
SnapshotNotWritten_Unnoticed ==
  /\ capturing # Nothing
  /\ SnapshotResponds(200, TRUE)
  /\ UNCHANGED files

(* The directory or the file cannot be written, or the file not to its end.*)
SnapshotNotWritten ==
  /\ capturing # Nothing
  /\ SnapshotResponds(0, FALSE)
  /\ \/ UNCHANGED files
     \/ files' = [files EXCEPT ![FileOf(capturing.cam)] = "torn"]

(* Mutant: the answer goes to the caller of the next request.              *)
SnapshotSaves_AnswersNext ==
  /\ capturing # Nothing
  /\ files' = [files EXCEPT ![FileOf(capturing.cam)] = capturing.cam]
  /\ Respond(IF snapBox = <<>> THEN capturing.caller ELSE Head(snapBox).caller,
             SnapshotResult(200, capturing.cam, TRUE))
  /\ capturing' = Nothing
  /\ UNCHANGED snapBox

(* The frame replaces what the file held.                                  *)
SnapshotSaves ==
  /\ capturing # Nothing
  /\ files' = [files EXCEPT ![FileOf(capturing.cam)] = capturing.cam]
  /\ SnapshotResponds(200, TRUE)

SnapshotStep ==
  \/ SnapshotBegins
  \/ SnapshotNotFetched
  \/ SnapshotNotWritten
  \/ SnapshotSaves
===============================================================================
