SPECIFICATION Spec
CONSTANTS
  Variants <- FaultVariants
  Builders <- FaultBuilders
  SinkStarts <- FaultSinks
  PayloadLens = {2}
  WrapLens = {2}
  PrefixLens = {1}
  SampleCounts = {1, 2}
  Limit = 220
  MaxImages = 2
  MaxBlocks = 3
  MaxPrefixes = 1
  MaxFaults = 1
INVARIANTS TypeOK PayloadsIntact
PROPERTIES PayloadsSurvive ImplementsContract
CHECK_DEADLOCK FALSE
