\* Cleanup cycles, compared with the abstract run and with what go2rtc answered.
SPECIFICATION PromptFairAuditSpec
CONSTANTS
  s1 = s1
  s2 = s2
  t1 = t1
  t2 = t2
  zero = zero
  noValue = noValue
  Streams <- TwoStreams
  StreamLists <- ListsOfTwo
  Times <- TwoTimes
  ZeroTime <- zero
  Moving <- OneStream
  NoValue <- noValue
  RedisEnabled = FALSE
  RunOnStart = TRUE
  TriggerCap = 1
  TickCap = 0
  QueueCap = 4
INVARIANTS
  TypeOK
  CleanerCountsItsWork
  NothingOutlivesTheCycle
  RemovedAfterTwoMisses
  OneRemovalPerCycle
PROPERTIES
  CleanerImplementsCheckRun
  ReportIsWhatWasSeen
  CycleEnds
