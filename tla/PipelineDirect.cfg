\* A block without a leader is unwrapped if it looks as if it had one.
SPECIFICATION Spec
CONSTANTS
  Images <- Unframed
  Windows <- WholeWindow
INVARIANTS DirectReadWins
CHECK_DEADLOCK FALSE
