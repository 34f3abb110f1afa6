SPECIFICATION Spec
CONSTANTS
  t1 = t1
  Tasks = {t1}
  MaxBatches = 2
  Sizes = {1}
  HardCap = 3
  Reserve = 1
  Foreign = {}
PROPERTY SequenceMonotonic
CHECK_DEADLOCK FALSE
