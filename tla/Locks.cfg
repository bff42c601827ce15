SPECIFICATION MCSpec
CONSTANTS
  Locks = {"version", "queue", "rw", "latch"}
  Threads <- MCThreads
  MaxVersion = 2
  QueueCalls = 4
  RWCalls = 4
  ReuseNodes = FALSE
  Upgrades = FALSE
  LatchThreads = {1, 2, 3, 4}
  WLatch = 8
INVARIANTS OneHolder ValidReadIsSnapshot  
           Exclusion FlagExact
PROPERTIES UpgradeKeepsRead ObsoleteIsFinal 
