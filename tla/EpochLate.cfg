SPECIFICATION Spec
CONSTANTS
  t1 = t1
  t2 = t2
  t3 = t3
  b1 = b1
  b2 = b2
  b3 = b3
  Threads <- Two
  Blocks <- TwoBlocks
  Kinds = {"raw", "type"}
  kBagSize = 1
  kOpThreshold = 1
  MaxEpoch = 8
SYMMETRY Symmetry
INVARIANT NoUseAfterFree
