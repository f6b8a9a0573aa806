SPECIFICATION Spec
CONSTANTS
  Run = {r1, r2}
  MaxSteps = 1
  MaxRotations = 1
  MaxFaults = 1
  MaxBreaks = 1
INVARIANTS FinishedBoardsAreClosed RecordsFollowTheBoard OrphansAreClosed
CHECK_DEADLOCK FALSE
SYMMETRY MCSymmetry
