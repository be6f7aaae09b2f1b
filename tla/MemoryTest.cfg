SPECIFICATION MemorySpec
CONSTANTS
  LowPages = {1, 2, 3, 4}
  HighPages = {11, 12, 13, 14, 15, 16, 17, 18, 19, 20}
  PagesMin = 0
  PagesPerPage = 2
  MaxBlocks = 3
  ULong = 1000
  MaxFails = 1
  BlocksOf <- MCBlocksOf
  DivisorOf <- MCDivisorOf
  FaultySets = {{}, {12}}
  MaxOthers = 1
INVARIANT BlocksInv
INVARIANT NoFalseFailure
INVARIANT NeverStuck
INVARIANT FaultReported
PROPERTY BlocksGivenBack
