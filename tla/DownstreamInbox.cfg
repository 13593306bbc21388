\* Messages of one or two bytes, and one too long, through a queue of two
\* messages and four bytes.
SPECIFICATION FairSpec
CONSTANTS
  None = None
  Backlog = 2
  MaxBytes = 4
  Sizes = {1, 2, 5}
  MaxMessages = 5
INVARIANTS
  TypeOK
  InboxKept
PROPERTY AllEnd
CHECK_DEADLOCK FALSE
