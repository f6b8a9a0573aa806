SPECIFICATION Spec
CONSTANTS
  p1 = p1
  p2 = p2
  Nobody = Nobody
  Person = {p1, p2}
  Lists <- MCLists
  ProviderPage = 2
  ModelPage = 2
  ChoicePage = 3
  TTL = 0
  PickerLimit = 1
  MaxTime = 1
  MaxAsks = 1
  MaxPickers = 2
  MaxClicks = 2
  MaxFaults = 1
INVARIANTS SelectionsAreSingle PickersBelongToTheirAskers FormsAreReplaced EveryModelIsAPageAway
SYMMETRY MCSymmetry
CHECK_DEADLOCK FALSE
