SPECIFICATION Spec
CONSTANTS
  Handlers = {r1, r2}
  Checkers = {c1, c2}
  Stubborn = {c2}
  CacheTTL = 2
  Timeout = 1
  Ordered = TRUE
INVARIANTS
  BoundedReadiness
CHECK_DEADLOCK FALSE
