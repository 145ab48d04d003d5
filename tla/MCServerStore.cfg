SPECIFICATION LiveSpec
CONSTANTS
  NoServer = NoServer
  Procs = {p1, p2}
  Writers = {p1}
  Readers = {p2}
  Servers = {s1, s2}
  LocalCacheTTL = 2
  Timeout = 1
  MaxLate = 1
  MaxInbox = 1
INVARIANTS
  StaleInv
  BoundedStaleness
PROPERTIES
  ReadsConverge
