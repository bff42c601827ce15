SPECIFICATION Spec
CONSTANTS
  Keys <- AllKeys
  kLeafSize = 2
  kLeafMergeSize = 1
  kInnerSize = 2
  kInnerMergeSize = 1
  Threads = {1, 2, 3}
  Setups <- StaleSetups
INVARIANTS NeverWaitsForItself
