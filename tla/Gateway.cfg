\* Two calls of any kind, and a shutdown at any time.
SPECIFICATION Spec
CONSTANTS
  c1 = c1
  c2 = c2
  j1 = j1
  j2 = j2
  k1 = k1
  k2 = k2
  place = place
  bucket = bucket
  none = none
  Callers <- TwoCalls
  JobIds <- TwoJobs
  Places <- OnePlace
  BucketOf <- OneBucket
  NoPlace <- none
  NoJob <- none
  MaxConcurrentJobs = 2
  JobRetention = 1
  Cameras <- TwoCameras
  FileOf <- OneFile
  NoCaller <- none
  Requests <- AnyRequest
  NoRequest <- none
  WriteTimeout = 1
SYMMETRY Renamed
CHECK_DEADLOCK FALSE
INVARIANTS
  TypeOK
  AnswersBelongToCalls
  SavedFileExists
  AcceptedIsKnown
  OneRecordingPerCall
PROPERTIES
  ImplementsRecordService
