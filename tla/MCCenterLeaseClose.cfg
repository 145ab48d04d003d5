SPECIFICATION ClSpec
CONSTANTS
  Centers = {c1}
  Leases = {l1, l2}
  NoLease = NoLease
  NoKey = NoKey
  MaxLate = 0
INVARIANTS
  ClosedIsUnregistered
