SPECIFICATION Spec
CONSTANTS
  k1 = k1  k2 = k2  Transfer = Transfer
  NumQueues = 2
  NumDevices = 2
  Kernels = {k1, k2}
  Name <- Names
  Costs <- CloseOrApart
  Threshold = 35
  Schedulers = {"rr", "segmented", "perf", "first"}
  MaxCommands = 2
INVARIANTS TypeOK Accounting NearBest
PROPERTIES MovesForGain
CHECK_DEADLOCK FALSE
