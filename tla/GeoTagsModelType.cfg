\* A model type of its own, then an EPSG code.
SPECIFICATION Spec
CONSTANTS
  MaxShort = 8
  NotFinite = NotFinite
  Scales <- SomeScales
  Origins <- SomeOrigins
  Tiepoints <- SomeTiepoints
  Transforms <- SomeTransforms
  Matrices <- SomeMatrices
  RasterTypes <- SomeRasterTypes
  ModelTypes <- SomeModelTypes
  EpsgCodes <- SomeCodes
  VerticalCodes = {5703}
  Citations <- SomeCitations
  CrsInfos <- SomeCrsInfos
  KeyValues <- SomeKeyValues
  Levels = {2}
  ImageWidth = 3
  ImageHeight = 2
  MaxCalls = 3
PROPERTIES ModelTypePreserved
CHECK_DEADLOCK FALSE
