SPECIFICATION Spec
CONSTANTS
  User = {u1, u2}
  Admin = {cli}
  Gateway = gateway
  Owner = u2
  NoUser = NoUser
  Namable = {u1}
  MaxCodes = 1
  MaxBoots = 2
  MaxRuns = 2
INVARIANTS OnlyTheGrantedAreAllowed LoneRunsTakeEffect CodesLiveUntilSpent
CHECK_DEADLOCK FALSE
