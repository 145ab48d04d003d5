SPECIFICATION MCSpec
CONSTANTS
  None = None
  Err = Err
  Clients = {c1}
  Procs = {p1, p2}
  Types = {t1, t2, t3}
  Alone = t3
  Pids = {x, y}
  PidOf <- MCPidOf
  Calls = {m1, m2}
  Links <- MCLinks
  Registering <- MCRegistering
SYMMETRY MCSymmetry
INVARIANTS
  MsgInv
  NothingMistaken
  AnswerIsReply
CHECK_DEADLOCK FALSE
