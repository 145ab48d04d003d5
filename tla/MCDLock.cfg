SPECIFICATION LiveSpec
CONSTANTS
  NoHolder = NoHolder
  Holders = {p1, p2}
  Expiry = 2
  Timeout = 1
  MaxLate = 1
INVARIANTS
  LockInv
  HolderOwnsKey
PROPERTIES
  ImplementsOwnership
  OrphanLapses
  LockReturns
