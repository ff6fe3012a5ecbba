\* Counts and the remains of aborted counts; no cleanup.
SPECIFICATION PromptFairAuditSpec
CONSTANTS
  s1 = s1
  s2 = s2
  t1 = t1
  t2 = t2
  zero = zero
  noValue = noValue
  Streams <- TwoStreams
  StreamLists <- ShortLists
  Times <- TwoTimes
  ZeroTime <- zero
  Moving <- OneStream
  NoValue <- noValue
  RedisEnabled = TRUE
  RunOnStart = FALSE
  TriggerCap = 0
  TickCap = 1
  QueueCap = 4
INVARIANTS
  CounterCountsItsWork
PROPERTIES
  CounterImplementsCheckRun
  CountIsComplete
  CountEnds
