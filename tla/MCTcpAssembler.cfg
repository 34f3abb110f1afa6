SPECIFICATION Spec
CONSTANTS
  SeqSpace = 16
  Starts = {0, 13}
  StreamLen = 5
  MaxLen = 3
  MaxGap = 3
  HistoryLimit = 4
INVARIANTS
  TypeOK
  Contiguous
  NoFalseGap
CHECK_DEADLOCK FALSE
