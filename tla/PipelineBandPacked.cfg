\* A chunky band loses the spare bits of its rows.
SPECIFICATION Spec
CONSTANTS
  Images <- OddRows
  Windows <- WholeWindow
INVARIANTS BandPackedIsOnDisk
CHECK_DEADLOCK FALSE
