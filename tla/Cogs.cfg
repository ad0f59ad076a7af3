\* COGs of every shape around the largest classic offset, with one failure anywhere.
SPECIFICATION Spec
CONSTANTS
  Cogs <- AllCogs
  SinkStarts <- Sinks
  Limit = 546
  MaxFaults = 1
INVARIANTS ReadsBack NeverMisleads NoLateFailure GhostAreaHolds
CHECK_DEADLOCK FALSE
