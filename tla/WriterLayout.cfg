SPECIFICATION Spec
CONSTANTS
  Variants <- LayoutVariants
  Builders <- LayoutBuilders
  SinkStarts <- LayoutSinks
  PayloadLens = {0, 3}
  WrapLens = {}
  PrefixLens = {}
  SampleCounts = {1, 256}
  Limit = 400
  MaxImages = 2
  MaxBlocks = 3
  MaxPrefixes = 0
  MaxFaults = 0
INVARIANTS NoLateFailure ClassicWithinLimit AutoIsExact
PROPERTIES ImplementsContract
CHECK_DEADLOCK FALSE
