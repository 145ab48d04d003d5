SPECIFICATION CwLiveSpec
CONSTANTS
  Absent = Absent
  Bad = Bad
  NodeIDs = {self, n1, n2}
  Self = self
  Groups = {g1, g2}
  Homes <- MCHomes
  MaxEvents = 0
  MaxRev = 3
  MaxBatch = 3
INVARIANTS
  SnapshotConsistent
  RouterFollows
PROPERTIES
  NeverBackwards
  Converges
  WatchStops
CHECK_DEADLOCK FALSE
