SPECIFICATION FairSpec
CONSTANTS
  Tasks = {"t1", "t2"}
  Titles = {"a", "b"}
  MaxFiles = 2
  MaxPieces = 4
  Window = 1
  Bounds <- Separately
CHECK_DEADLOCK FALSE
INVARIANTS
  TypeOK
  TitlesFollowFile
  SentAccounted
PROPERTY NoticedEventually
