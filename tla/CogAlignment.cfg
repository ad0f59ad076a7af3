\* A value of odd length in front of the second IFD.
SPECIFICATION Spec
CONSTANTS
  Cogs <- JustColumn
  SinkStarts <- AtStart
  Limit = 100000
  MaxFaults = 0
INVARIANTS IfdsAligned
CHECK_DEADLOCK FALSE
