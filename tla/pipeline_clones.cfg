SPECIFICATION FairSpec
CONSTANTS
  q1 = q1  q2 = q2  h1 = h1  h2 = h2  None = None
  Queues = {q1}
  Devices = {d1, d2}
  Hosts = {h1}
  Commands = {c1, c2}
  Clones = {k1, k2, k3}
  UserEvents = {}
  Owner <- OneOwner
  Rebindable = {q1}
  RingSize = 1
  ReadySize = 1
  Outcomes = {"complete"}
  MaxWaitList = 0
  MaxPosts = 0
INVARIANTS IInv Custody
PROPERTIES WaitReturns
CHECK_DEADLOCK FALSE
