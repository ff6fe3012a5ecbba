\* Counts for ever and one cleanup cycle at any time, maybe at the same instant,
\* with numbers that pile up on their way to Redis.
SPECIFICATION LaggingFairSpec
CONSTANTS
  s1 = s1
  s2 = s2
  t1 = t1
  t2 = t2
  zero = zero
  noValue = noValue
  Streams <- OneStream
  StreamLists <- JustOne
  Times <- TwoTimes
  ZeroTime <- zero
  Moving <- OneStream
  NoValue <- noValue
  RedisEnabled = TRUE
  RunOnStart = TRUE
  TriggerCap = 0
  TickCap = 1
  QueueCap = 2
INVARIANTS
  CleanerCountsItsWork
  CounterCountsItsWork
PROPERTIES
  
  ImplementsPublication
