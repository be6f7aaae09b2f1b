SPECIFICATION MCSpec
CONSTANTS
  Attempts = {1, 2}
  Tests <- MCTests
  MaxSessions = 3
  MaxFails = 1
  MaxTestLines = 1
  MaxDiagLines = 1
  MaxText = 6
  OldSizes = {0, 2}
  MaxRequests = 2
CHECK_DEADLOCK FALSE
INVARIANT StoredInv
INVARIANT NoTestSkipped
INVARIANT FinishedSaved
INVARIANT FilesInv
INVARIANT ConfigurationStripped
PROPERTY PrintoutsFinal
