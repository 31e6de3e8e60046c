SPECIFICATION Spec
CONSTANTS
  None = None
  Producers = {p1, p2}
  Values = {v1, v2}
  Size = 3
  MaxLag = 3
SYMMETRY Symmetry
PROPERTIES ImplementsFifo
