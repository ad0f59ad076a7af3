SPECIFICATION Spec
CONSTANTS
  Cogs <- JustLone
  SinkStarts <- LongSink
  Limit = 100000
  MaxFaults = 0
INVARIANTS ReadsBack
CHECK_DEADLOCK FALSE
