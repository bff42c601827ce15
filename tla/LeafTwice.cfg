SPECIFICATION ScanSpec
CONSTANTS
  Keys <- MCKeys
  Hash <- MCHash
  kNodeSize = 2
  kMergeSize = 1
  Threads = {1, 2, 3}
  Setups <- TwiceSetups
  MaxNodes = 5
INVARIANTS AnswersWereTrue
