SPECIFICATION Spec
CONSTANTS
  q1 = q1  q2 = q2  h1 = h1  h2 = h2  None = None
  Queues = {q1, q2}
  Devices = {d1}
  Hosts = {h1, h2}
  Commands = {c1, c2}
  Clones = {}
  UserEvents = {u1}
  Owner <- OneOwner
  Rebindable = {}
  RingSize = 2
  ReadySize = 1
  Outcomes = {"complete"}
  MaxWaitList = 1
  MaxPosts = 0
SYMMETRY Symmetry
INVARIANTS WaitListRespected NoLostWakeup
PROPERTIES StatusForward ImplementsOrder
CHECK_DEADLOCK FALSE
