SPECIFICATION Spec
CONSTANTS
  NoNode = NoNode
  NoLease = NoLease
  Nodes = {n1, n2}
  Actors = {a1}
  Leases = {l1, l2}
  Lifetime = 2
  TTL <- MCTTL
  Second = 2
  Timeout = 1
  MaxLate = 1
  Readers = {n2}
  Watchers = {}
  MaxTTL = 2
  SafetyWindow = 1
  StreamMaxLen = 1
  ReadCount = 1
  MaxEvents = 2
  MaxCallers = 1
SYMMETRY MCSymmetry
INVARIANTS
  StaleInv
  BoundedStaleness
