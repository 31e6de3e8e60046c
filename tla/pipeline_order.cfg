SPECIFICATION Spec
CONSTANTS
  q1 = q1  q2 = q2  h1 = h1  h2 = h2  None = None
  Queues = {q1}
  Devices = {d1, d2}
  Hosts = {h1}
  Commands = {c1, c2, c3}
  Clones = {}
  UserEvents = {}
  Owner <- OneOwner
  Rebindable = {q1}
  RingSize = 2
  ReadySize = 1
  Outcomes = {"complete", "error"}
  MaxWaitList = 1
  MaxPosts = 1
SYMMETRY Symmetry
CHECK_DEADLOCK FALSE
INVARIANTS TypeOK InOrderExecution DequeueMatches
PROPERTIES ImplementsOrder
