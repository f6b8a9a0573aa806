SPECIFICATION Spec
CONSTANTS
  a1 = a1
  a2 = a2
  s1 = s1
  s2 = s2
  u1 = u1
  u2 = u2
  s3 = s3
  Adapter = {a1, a2}
  Session = {s1, s2, s3}
  User = {u1, u2}
  NoUser = NoUser
  Owner = u1
  Profile <- MCProfile
  HomeOf <- MCHomeOf
  RouteOf <- MCRouteOf
  Ends = {"timeout"}
  MaxPending = 2
  MaxPrompts = 2
  MaxDecisions = 2
  MaxComings = 2
  MaxDrops = 1
INVARIANTS ReportsMatchTheirPrompt EveryOutcomeIsAudited DecidersAreNotGuessed ReportsStayHome
CHECK_DEADLOCK FALSE
CONSTRAINT MCBound
SYMMETRY MCSymmetry
