SPECIFICATION Spec
CONSTANTS
  k1 = k1  k2 = k2  Transfer = Transfer
  NumQueues = 2
  NumDevices = 2
  Kernels = {k1}
  Name <- Names
  Costs <- Apart
  Threshold = 35
  Schedulers = {"segmented"}
  MaxCommands = 1
INVARIANTS ReadsEnqueued
CHECK_DEADLOCK FALSE
