SPECIFICATION FairSpec
CONSTANTS
  LastMsg = 3
  Poison = {2}
  RecoveryCap = 1
  MaxMishaps = 2
  Stalls = TRUE
INVARIANTS HandledOncePerLife DurableClaimsHold NothingIsPassedOver
PROPERTY EveryEventIsPassed
CHECK_DEADLOCK FALSE
