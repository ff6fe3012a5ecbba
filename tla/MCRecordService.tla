---------------------------- MODULE MCRecordService ----------------------------
(* Instances of RecordService for TLC.                                     *)
EXTENDS RecordService, TLC

CONSTANTS c1, c2, j1, j2, j3, b1, b2, noPlace, noJob

OneCaller  == {c1}
TwoCallers == {c1, c2}
TwoJobs    == {j1, j2}
ThreeJobs  == {j1, j2, j3}

(* A place is a bucket and the number of a key in it.                      *)
OnePlace  == {<<b1, 1>>}
TwoPlaces == {<<b1, 1>>, <<b1, 2>>}
TwoBuckets == {<<b1, 1>>, <<b2, 1>>}
Bucket(p) == p[1]

AnyJob == Permutations(JobIds)
===============================================================================
