SPECIFICATION FairSpec
CONSTANTS
  q1 = q1  q2 = q2  c1 = c1  c2 = c2  h1 = h1  i1 = i1
  Scheduler = Scheduler  None = None
  Queues = {q1, q2}
  InOrder = {q1}
  Commands = {c1, c2}
  Empty = {c2}
  Hosts = {h1}
  Issuers = {i1}
  MaxHandles = 2
  MaxPosts = 1
INVARIANTS TypeOK FreedIsForgotten NullsArePending RefsExact NotDestroyedInUse
PROPERTIES Reclaimed
CHECK_DEADLOCK FALSE
