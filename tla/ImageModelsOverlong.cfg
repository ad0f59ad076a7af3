\* Over-long LZW blocks of a multiple of 8192 bytes: TLC finds one that is read.
SPECIFICATION Spec
CONSTANTS
  Builders <- StartBuilders
  ForeignIfds <- Foreign
  Compressions <- SomeCompressions
  Predictors <- SomePredictors
  Photometrics <- AllPhotometrics
  ExtraLists <- SomeExtras
  Palettes <- SomeColorMaps
  InkSets <- SomeInkSets
  Subsamplings <- SomeSubsamplings
  Levels <- SomeLevels
  MaxCalls = 2
  MaxWrites = 1
INVARIANTS OverlongIsRefused
CHECK_DEADLOCK FALSE
