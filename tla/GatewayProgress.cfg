\* Calls and the shutdown end, whatever the actors do; snapshots may hang.
SPECIFICATION ServerFairSpec
CONSTANTS
  c1 = c1
  c2 = c2
  j1 = j1
  j2 = j2
  k1 = k1
  k2 = k2
  place = place
  bucket = bucket
  none = none
  Callers <- TwoCalls
  JobIds <- OneJob
  Places <- OnePlace
  BucketOf <- OneBucket
  NoPlace <- none
  NoJob <- none
  MaxConcurrentJobs = 1
  JobRetention = 1
  Cameras <- TwoCameras
  FileOf <- OneFile
  NoCaller <- none
  Requests <- SnapOrStart
  NoRequest <- none
  WriteTimeout = 1
CHECK_DEADLOCK FALSE
PROPERTIES
  CallEnds
  ShutdownEnds
  RecordsAreAnswered
