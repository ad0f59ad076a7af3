SPECIFICATION RasterSpec
CONSTANTS
  Rasters <- AllRasters
  Builders <- AllBuilders
  Variants = {"Classic", "BigTiff", "Auto"}
  PayloadLens = {3}
  WrapLens = {}
  PrefixLens = {}
  SinkStarts <- Sinks
  Limit = 190
  SampleCounts = {}
  MaxImages = 2
  MaxBlocks = 4
  MaxPrefixes = 0
  MaxFaults = 1
INVARIANTS ReadsBack FlagsAgree RefusedForBandsOnly
CHECK_DEADLOCK FALSE
