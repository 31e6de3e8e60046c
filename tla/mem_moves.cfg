SPECIFICATION Spec
CONSTANTS
  d1 = d1  d2 = d2  d3 = d3  m1 = m1  m2 = m2  None = None  Host = Host
  Queues = {q1, q2}
  Devices = {d1, d2, d3}
  Mems = {m1, m2}
  Commands = {c1, c2, c3}
  Context <- TwoContexts
  Writable = {m2}
  HostInit = {}
  Ops <- AllOps
  RebindMidway = FALSE
SYMMETRY Symmetry
INVARIANTS TypeOK FreshData DirectoryRight ContentsKept
CHECK_DEADLOCK FALSE
