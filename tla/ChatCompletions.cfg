\* Responses of up to three items and four deltas.
SPECIFICATION ChatSpec
CONSTANTS
  None = None
  MaxItems = 3
  MaxPieces = 4
INVARIANTS
  ChatTypeOK
  StreamedAnswer
  ResentPaired
CHECK_DEADLOCK FALSE
