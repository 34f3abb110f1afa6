SPECIFICATION ServerSpec
CONSTANTS
  c1 = c1  c2 = c2
  o1 = o1
  p1 = p1
  Conversations = {c1, c2}
  MaxRequests = 3
  Parts = {p1}
  Objects = {o1}
  MaxStamp = 0
  Pieces <- TwoChunks
  Declared <- TwoChunks
  Limit = 1
  PollLimit = 1
SYMMETRY Symmetric
INVARIANTS
  LinkedIsComplete
  LinkedConversationTracked
  ObjectsReferenced
PROPERTY EvictionRestoresLimit
