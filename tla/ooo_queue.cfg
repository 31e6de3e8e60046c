SPECIFICATION FairSpec
CONSTANTS
  c1 = c1  c2 = c2  c3 = c3  g1 = g1  d1 = d1  d2 = d2
  None = None
  Commands = {c1, c2, c3}
  Markers = {c1}
  Reads = {c2}
  Empty = {c2}
  Clones = {g1}
  Devices = {d1, d2}
  Overtakes = FALSE
  ClearsPending = FALSE
INVARIANTS TypeOK Custody FinishCovers
PROPERTIES ImplementsQueueOrder Completes
