SPECIFICATION Spec
CONSTANTS
  alice = alice
  Users = {alice}
  Sessions = {s1, s2}
  Owner <- MCOwner
  Calls = {c1, c2}
  Reapers = {p1}
  MaxConcurrent = 1
  IdleTimeout = 1
  AbsoluteTimeout = 2
  PersistAfter = 1
  LockOnInactivity = TRUE
  MaxTime = 3
SYMMETRY SessionSymmetry
INVARIANT ActiveWithinLimit
CHECK_DEADLOCK FALSE
