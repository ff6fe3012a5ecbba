\* Streams with ordinary names, next to two named like keys of the answer.
SPECIFICATION Spec
CONSTANTS
  Names = {"camera", "hall"}
  Others = {"producers", "streams"}
INVARIANTS
  CheckReadsTheAnswer
