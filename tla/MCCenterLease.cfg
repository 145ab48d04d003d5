SPECIFICATION ClLiveSpec
CONSTANTS
  Centers = {c1}
  Leases = {l1, l2, l3}
  NoLease = NoLease
  NoKey = NoKey
  MaxLate = 1
INVARIANTS
  LeaseInv
  StreamedIsRegistered
PROPERTIES
  Reregisters
  GhostLapses
  KeepAliveStops
