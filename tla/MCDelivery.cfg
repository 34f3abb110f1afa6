SPECIFICATION FairSpec
CONSTANTS
  t1 = t1
  Tasks = {t1}
  MaxBatches = 3
  Sizes = {1}
  HardCap = 2
  Reserve = 1
  Foreign = {2}
INVARIANTS
  TypeOK
  NoTransitionLost
  AppliedOnce
  AckedIsDurable
  ReserveUsable
PROPERTIES
  ImplementsContract
  EventuallyDelivered
CHECK_DEADLOCK FALSE
