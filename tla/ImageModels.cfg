\* Images a few setters away from every check, written and read; foreign IFDs.
SPECIFICATION Spec
CONSTANTS
  Builders <- StartBuilders
  ForeignIfds <- Foreign
  Compressions <- SomeCompressions
  Predictors <- SomePredictors
  Photometrics <- AllPhotometrics
  ExtraLists <- SomeExtras
  Palettes <- SomeColorMaps
  InkSets <- SomeInkSets
  Subsamplings <- SomeSubsamplings
  Levels <- SomeLevels
  MaxCalls = 2
  MaxWrites = 1
INVARIANTS AcceptedIsReadable LayoutAgrees BlocksReadBack RefusalsAreKnown ChannelsAllUsed
CHECK_DEADLOCK FALSE
