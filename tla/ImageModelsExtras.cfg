\* A mask of several channels, no extra samples declared.
SPECIFICATION Spec
CONSTANTS
  Builders <- StartBuilders
  ForeignIfds <- Foreign
  Compressions <- SomeCompressions
  Predictors <- SomePredictors
  Photometrics <- AllPhotometrics
  ExtraLists <- SomeExtras
  Palettes <- SomeColorMaps
  InkSets <- SomeInkSets
  Subsamplings <- SomeSubsamplings
  Levels <- SomeLevels
  MaxCalls = 2
  MaxWrites = 1
INVARIANTS UndeclaredExtrasAreRead
CHECK_DEADLOCK FALSE
