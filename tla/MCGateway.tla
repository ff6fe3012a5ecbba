-------------------------------- MODULE MCGateway --------------------------------
(* Instances of Gateway for TLC.                                           *)
EXTENDS Gateway, TLC

CONSTANTS c1, c2, j1, j2, k1, k2, place, bucket, none

OneCall  == {c1}
TwoCalls == {c1, c2}
OneJob   == {j1}
TwoJobs  == {j1, j2}
OnePlace   == {place}
OneBucket(p) == bucket

TwoCameras == {k1, k2}
OneFile(k) == "file"       \* both cameras have the same file

Ask(kind, k, j, flaw) == [kind |-> kind, cam |-> k, job |-> j, flaw |-> flaw]
Snapshots == {Ask("snapshot", k, none, "none") : k \in TwoCameras}
Records   == {Ask("start", none, none, "none"), Ask("get", none, j1, "none")}
Flawed    == {Ask("start", none, none, "address"), Ask("get", none, j1, "body")}

AnyRequest == Snapshots \cup Records \cup Flawed
Sound      == Snapshots \cup Records
SnapOrStart == {Ask("snapshot", k1, none, "none"), Ask("start", none, none, "none")}

Renamed == Permutations(Callers) \cup Permutations(Cameras)
===============================================================================
