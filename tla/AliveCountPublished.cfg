\* README: the number published after a deletion is that of the alive streams.
SPECIFICATION PromptAuditSpec
CONSTANTS
  s1 = s1
  s2 = s2
  t1 = t1
  t2 = t2
  zero = zero
  noValue = noValue
  Streams <- TwoStreams
  StreamLists <- BothOnly
  Times <- TwoTimes
  ZeroTime <- zero
  Moving <- Nobody
  NoValue <- noValue
  RedisEnabled = FALSE
  RunOnStart = TRUE
  TriggerCap = 1
  TickCap = 0
  QueueCap = 4
PROPERTIES
  CleanupPublishesAliveCount
