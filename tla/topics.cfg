SPECIFICATION Spec
CONSTANTS
  Topic = {x, y}
  Conversation = {c1, c2, c3}
  NoTopic = NoTopic
  NoConv = NoConv
  Thread = {1, 2, 3}
  Msg = {m1, m2, m3}
  MaxOps = 4
  MaxEvents = 2
  Racing = FALSE
  Future = Future
  Deleted = Deleted
  Moved = Moved
SYMMETRY Interchangeable
INVARIANTS NoLeakAcrossTopics LivingTopicsKeepTheirSessions DeletedSessionsAreUnreachable RepliesLandInTheirTopic
CHECK_DEADLOCK FALSE
