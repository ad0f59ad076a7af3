SPECIFICATION Spec
CONSTANTS
  MaxBytes = 5
  MaxSlots = 2
  Lengths <- Versions
  ChunkSize = 2
  Readers = {r1, r2}
  Ranges <- Reads
  Kinds <- AllKinds
  MaxReads = 1
  MaxReplacements = 1
  MaxFaults = 1
INVARIANTS BytesInPlace ChunksAreWhole ReadsSucceed
PROPERTIES ReadsReturn
CHECK_DEADLOCK FALSE
