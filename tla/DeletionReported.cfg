\* README: a cleanup that deletes a stream is published at once.
SPECIFICATION PromptAuditSpec
CONSTANTS
  s1 = s1
  s2 = s2
  t1 = t1
  t2 = t2
  zero = zero
  noValue = noValue
  Streams <- TwoStreams
  StreamLists <- ListsOfTwo
  Times <- TwoTimes
  ZeroTime <- zero
  Moving <- TwoStreams
  NoValue <- noValue
  RedisEnabled = FALSE
  RunOnStart = TRUE
  TriggerCap = 1
  TickCap = 0
  QueueCap = 4
PROPERTIES
  DeletionIsPublished
