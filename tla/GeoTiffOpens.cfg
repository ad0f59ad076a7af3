SPECIFICATION Spec
CONSTANTS
  Files <- AllFiles
  MaxIfds = 3
  MaxEntries = 2
  MaxTagBytes = 4
  MaxMetadataBytes = 10
  MaxNodes = 5
  MaxDepth = 2
INVARIANTS Discovered WorkBounded RefusedForCause
CHECK_DEADLOCK FALSE
