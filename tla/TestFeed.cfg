SPECIFICATION Spec
CONSTANTS
  Slots = {0, 1}
  Descriptors = {d1, d2, d3}
  Debug = FALSE
  TestTypes = {"BURNIN"}
  MaxPrints = 3
  MaxAsked = 1
  MaxLeft = 2
  MaxLost = 0
CHECK_DEADLOCK FALSE
INVARIANT FeedInv
INVARIANT TextsCurrent
CONSTRAINT Bound
SYMMETRY Symmetry
