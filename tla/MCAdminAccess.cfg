\* Three calls, two tokens, two passwords: a login goes on across a change that
\* a session of the other token makes.  Two failures within a unit of time
\* block for two units.
SPECIFICATION Spec
CONSTANTS
  None = None
  Calls = {c1, c2, c3}
  Passwords = {p1, p2}
  Tokens = {t1, t2}
  Limit = 2
  Window = 1
  Block = 2
  MaxTime = 2
  MaxChanges = 1
SYMMETRY Symmetry
INVARIANTS
  TypeOK
PROPERTIES
  SessionDiesWithPassword
  LimiterHolds
CHECK_DEADLOCK FALSE
