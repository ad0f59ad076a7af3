\* Every layout, predictor and framing, and windows over every edge.
SPECIFICATION Spec
CONSTANTS
  Images <- AllImages
  Windows <- AllWindows
INVARIANTS SamplesExact PackedExact FailsForCause
CHECK_DEADLOCK FALSE
