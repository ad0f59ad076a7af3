\* Two callers over every kind of image, one small cache, one source error.
SPECIFICATION Spec
CONSTANTS
  MaxBytes = 5
  MaxSlots = 2
  Images <- SomeImages
  Requests <- SomeRequests
  Callers = {c1, c2}
  Ghost = FALSE
  Budget = 6
  MaxCalls = 1
  MaxFaults = 1
INVARIANTS ReadsExact CacheWithinLimits NoPanic OutcomeIsDetermined
PROPERTIES EvictsOnlyWhatItMust CallsReturn
CHECK_DEADLOCK FALSE
