\* Every job ends, with two slots and nobody who asks.
SPECIFICATION FairSpec
CONSTANTS
  c1 = c1
  c2 = c2
  j1 = j1
  j2 = j2
  j3 = j3
  b1 = b1
  b2 = b2
  noPlace = noPlace
  noJob = noJob
  Callers <- OneCaller
  JobIds <- TwoJobs
  Places <- OnePlace
  BucketOf <- Bucket
  NoPlace <- noPlace
  NoJob <- noJob
  MaxConcurrentJobs = 2
  JobRetention = 1
  RestartCap = 1
PROPERTIES
  JobsFinish
