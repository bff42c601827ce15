SPECIFICATION Spec
CONSTANTS
  kNodeSize = 4
  kMergeSize = 2
  kEmbedPrSize = 3
  Zero = 2
  FixedSize = 2
  FeatureSize = 1
  MaxSeps = 6
  FixedKeys <- MCFixedKeys
  StringKeys <- MCStringKeys
  Junk <- MCJunk
INVARIANTS EmptyNodeHasNoPrefix
CHECK_DEADLOCK FALSE
