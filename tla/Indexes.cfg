SPECIFICATION MCSpec
CONSTANTS
  Keys <- BLinkKeys
  leaf_split_at = 3
  inner_split_at = 3
  Threads = {1, 2, 3}
  Setups <- BLinkSetups
INVARIANTS
  BLinkSplitFindsItsParent
  ScanIsSnapshot
  BLinkQuietTreeIsWhole
  KeysAreReachable
  RetiredIsUnlinked
PROPERTIES
  ScanIsGapless
  
