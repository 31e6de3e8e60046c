SPECIFICATION Spec
CONSTANTS
  None = None
  Producers = {p1, p2, p3}
  Values = {v1, v2}
  Size = 3
  MaxLag = 2
SYMMETRY Symmetry
INVARIANTS TypeOK ExclusiveSlots DequeuesPeeked
PROPERTIES ImplementsFifo
