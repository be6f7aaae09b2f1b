SPECIFICATION FairSpec
CONSTANTS
  Slots = {0}
  Descriptors = {1}
  Debug = FALSE
  TestTypes = {"FUNCTIONAL", "BURNIN"}
  MaxPrints = 2
  MaxAsked = 1
  MaxLeft = 0
  MaxLost = 1
CHECK_DEADLOCK FALSE
INVARIANT LockReleased
PROPERTY FailuresKept
PROPERTY AwakeServes
