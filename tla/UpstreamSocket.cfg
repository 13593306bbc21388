\* Frames of one or two bytes through a queue of two frames and four bytes.
SPECIFICATION FairSpec
CONSTANTS
  None = None
  Backlog = 2
  MaxBytes = 4
  Sizes = {1, 2}
  MaxFrames = 5
INVARIANTS
  TypeOK
  GaplessOrTold
  BudgetExact
PROPERTY BrokenSocketEnds
CHECK_DEADLOCK FALSE
