SPECIFICATION ScanSpec
CONSTANTS
  Keys <- MCKeys
  Hash <- MCHash
  kNodeSize = 4
  kMergeSize = 2
  Threads = {1, 2, 3}
  Setups <- LeafSetups
  MaxNodes = 5
INVARIANTS
  PairsAreOwnedOnce
  ScanInOrder
  PairsAreFindable
  AnchorsAreHighKeys
  AnswersWereTrue
  ValidLeafCoversKey
  SortingScanComplete
  
