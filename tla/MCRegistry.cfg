SPECIFICATION RegLiveSpec
CONSTANTS
  NoNode = NoNode
  NoLease = NoLease
  Nodes = {n1, n2}
  Actors = {a1}
  Leases = {l1, l2, l3}
  Lifetime = 2
  TTL <- MCTTL
  Second = 1
  Timeout = 1
  MaxLate = 1
INVARIANTS
  RegInv
  HolderIsRegistered
PROPERTIES
  ImplementsOwnership
  SourceFenced
  OrphanLapses
