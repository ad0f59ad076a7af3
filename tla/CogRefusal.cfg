SPECIFICATION Spec
CONSTANTS
  Cogs <- JustPlanar
  SinkStarts <- AtStart
  Limit = 100000
  MaxFaults = 1
INVARIANTS RefusedTilesAreWritten
CHECK_DEADLOCK FALSE
