\* A call whose future times out.
SPECIFICATION Spec
CONSTANTS
  c1 = c1
  c2 = c2
  j1 = j1
  j2 = j2
  k1 = k1
  k2 = k2
  place = place
  bucket = bucket
  none = none
  Callers <- OneCall
  JobIds <- OneJob
  Places <- OnePlace
  BucketOf <- OneBucket
  NoPlace <- none
  NoJob <- none
  MaxConcurrentJobs = 1
  JobRetention = 1
  Cameras <- TwoCameras
  FileOf <- OneFile
  NoCaller <- none
  Requests <- Sound
  NoRequest <- none
  WriteTimeout = 2
CHECK_DEADLOCK FALSE
INVARIANTS
  TimeoutIsAnswered504
