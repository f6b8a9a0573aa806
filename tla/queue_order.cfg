SPECIFICATION FairSpec
CONSTANTS
  a = a
  b = b
  m1 = m1
  m2 = m2
  m3 = m3
  m4 = m4
  m5 = m5
  m6 = m6
  m7 = m7
  Session = {a, b}
  Msg = {m1, m2, m3, m4, m5}
  SessionOf <- TopicOf
  Slash = {m5}
  Native = {}
  Refused = {m4}
  Cap = 4
  SweeperRuns = TRUE
  NoMsg = NoMsg
INVARIANT QueuedTurnsAreNotSteered
PROPERTY ImplementsTurnOrder
CHECK_DEADLOCK FALSE
