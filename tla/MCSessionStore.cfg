\* Three keys and two callers about a store of two entries.
SPECIFICATION Spec
CONSTANTS
  Keys = {k1, k2, k3}
  Callers = {c1, c2}
  Capacity = 2
  TTLs = {1, 3}
  MaxTime = 4
INVARIANTS
  TypeOK
  NextExpiryNotLate
PROPERTIES
  RefusedOnlyWhenFull
  KeepsPromise
CHECK_DEADLOCK FALSE
