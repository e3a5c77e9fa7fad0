SPECIFICATION FairSpec
CONSTANTS
  Texts <- MCTexts
  Sizes <- MCSizes
  Overlaps <- MCOverlaps
  MaxLen = 6
  MaxSize = 4
INVARIANTS
  TypeOK
  NothingLost
  WellFormed
  Progress
PROPERTIES
  Returns
CHECK_DEADLOCK FALSE
