SPECIFICATION Spec
CONSTANTS
  d1 = d1
  d2 = d2
  b1 = b1
  b2 = b2
  b3 = b3
  k1 = k1
  k2 = k2
  None = None
  MaxList = 2
  MaxWork = 3
  Devices <- MCDevices
  Builds <- MCBuilds
  Kernels <- MCKernels
SYMMETRY Symmetry
CHECK_DEADLOCK FALSE
INVARIANTS TypeOK RefsCountKernels CountSound NotifiedLast NoticeNotLost
PROPERTIES InfosKept
