SPECIFICATION RegistrySpec
CONSTANTS
  Topic = {x, y, z}
  Conversation = {c1, c2, c3, c4}
  NoTopic = NoTopic
  NoConv = NoConv
SYMMETRY Interchangeable
PROPERTY KeepsToOwnership
CHECK_DEADLOCK FALSE
