SPECIFICATION Spec
CONSTANTS
  t1 = t1
  t2 = t2
  t3 = t3
  b1 = b1
  b2 = b2
  b3 = b3
  Threads <- Two
  Blocks <- ThreeBlocks
  Kinds = {"raw"}
  kBagSize = 2
  kOpThreshold = 1
  MaxEpoch = 8
SYMMETRY Symmetry
INVARIANTS ActiveThreadPinsEpoch BagsInEpochOrder OnlyLateBlocksAtRisk
