SPECIFICATION LiveSpec
CONSTANTS
  None = None
  Ops = {o1, o2}
  Timed = {o2}
  Keys = {k1, k2}
  Workers = {w1, w2}
  Chans = {c1}
  DoneOf <- MCDoneOf
  WorkerOf <- MCWorkerOf
  MaxWorkerOps = 2
  DoneCap = 1
INVARIANTS
  OnePlace
  StopDrains
PROPERTIES
  ImplementsSerialQueues
  ComesBack
  StopEnds
CHECK_DEADLOCK FALSE
