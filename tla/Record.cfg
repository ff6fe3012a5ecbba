\* Two slots, three jobs that may go to the same place.
SPECIFICATION Spec
CONSTANTS
  c1 = c1
  c2 = c2
  j1 = j1
  j2 = j2
  j3 = j3
  b1 = b1
  b2 = b2
  noPlace = noPlace
  noJob = noJob
  Callers <- OneCaller
  JobIds <- ThreeJobs
  Places <- OnePlace
  BucketOf <- Bucket
  NoPlace <- noPlace
  NoJob <- noJob
  MaxConcurrentJobs = 2
  JobRetention = 1
  RestartCap = 1
SYMMETRY AnyJob
INVARIANTS
  TypeOK
  WorkersWithinLimit
  KnownUntilRetention
  CompletedIsStored
PROPERTIES
  ImplementsRecordJobs
