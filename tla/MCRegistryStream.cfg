SPECIFICATION LiveSpec
CONSTANTS
  NoNode = NoNode
  NoLease = NoLease
  Nodes = {n1}
  Actors = {a1}
  Leases = {l1, l2, l3}
  Lifetime = 0
  TTL <- MCTTL
  Second = 1
  Timeout = 0
  MaxLate = 0
  Readers = {n1}
  Watchers = {n1}
  MaxTTL = 1
  SafetyWindow = 1
  StreamMaxLen = 2
  ReadCount = 2
  MaxEvents = 3
  MaxCallers = 2
INVARIANTS
  ReplayHasNoHoles
PROPERTIES
  LookupReturns
  CloseReturns
