SPECIFICATION MCSpec
CONSTANTS
  Threads <- MCThreads
  WLatch <- MCWLatch
  RWCalls = 3
  ReuseNodes = TRUE
PROPERTIES SomeoneEnters RWServes
