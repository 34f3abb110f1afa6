SPECIFICATION FairSpec
CONSTANTS
  f1 = f1  f2 = f2
  Pids = {1}
  Paths = {"codex", "codex-dev"}
  MaxProcs = 2
  MaxFailures = 2
  Flows = {f1, f2}
  MaxSegments = 3
  SegmentSize <- Sizes
  MaxPendingSegments = 2
  MaxPendingBytes = 2
  ChannelCap = 1
  Bounds <- Separately
INVARIANTS
  TypeOK
  InOrderUnlessRaced
  ExitConfirmed
PROPERTY GoneIsReported
