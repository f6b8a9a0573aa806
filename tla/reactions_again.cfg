SPECIFICATION MCSpec
CONSTANTS
  h1 = h1
  h2 = h2
  b1 = b1
  me = me
  t1 = t1
  t2 = t2
  dm = dm
  Human = {h1, h2}
  Bot = {b1}
  Self = me
  Topic = {t1, t2}
  Monitored = {t1, t2}
  Direct = dm
  Setting <- MCSetting
  Incoming <- MCIncoming
  Limit = 2
  Window = 1
  TTL = 1
  TurnLimit = 2
  KeptLines = 1
  KeptTopics = 1
  MaxTime = 2
  MaxMessages = 3
  MaxHandlers = 2
  r1 = r1
  r2 = r2
  Reaction = {r1, r2}
  Own <- MCOwn
  Listened = {r1, r2}
  AnyMessage = TRUE
  ClaimTTL = 2
  MaxNow = 4
  MaxTaps = 4
INVARIANT FiresOnce
CHECK_DEADLOCK FALSE
