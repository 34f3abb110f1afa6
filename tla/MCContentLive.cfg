SPECIFICATION FairSpec
CONSTANTS
  c1 = c1  c2 = c2
  o1 = o1  o2 = o2
  p1 = p1  p2 = p2
  Conversations = {c1}
  MaxRequests = 1
  Parts = {p1}
  Objects = {o1}
  MaxStamp = 2
  Pieces <- TwoChunks
  Declared <- TwoChunks
  Limit = 1
  PollLimit = 2
  MaxLate = 0
PROPERTY SavedRequestCompletes
