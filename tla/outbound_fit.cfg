SPECIFICATION OutboundSpec
CONSTANTS
  r1 = r1
  r2 = r2
  k1 = k1
  k2 = k2
  Nobody = Nobody
  Run = {r1, r2}
  Key = {k1}
  KeyOf <- MCKeyOf
  Replies <- MCReplies
  Notices <- MCNotices
  Credential = 9
  Ref = 7
  Uploadable = {"file", "named"}
  LinkOf <- MCLinkOf
  RefText <- MCRefText
  Prefix <- MCPrefix
  Regret = 8
  ChunkLimit = 5
  MaxLength = 7
  MarkerLength = 1
  ChunkMode = "newline"
  ClearOnFinish = TRUE
  MaxSends = 2
  MaxFaults = 1
INVARIANT MessagesFit
CHECK_DEADLOCK FALSE
SYMMETRY MCSymmetry
