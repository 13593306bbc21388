\* Four turns that make up to eight items.
SPECIFICATION ItemsSpec
CONSTANTS
  Absent = Absent
  MaxPlans = 4
  MaxItems = 8
INVARIANTS
  ItemsTypeOK
  ReplayIsThread
  PendingIsOpen
CHECK_DEADLOCK FALSE
