SPECIFICATION MCSpec
CONSTANTS
  Attempts = {1, 2}
  Tests <- MCTests
  MaxSessions = 2
  MaxFails = 0
  MaxTestLines = 1
  MaxDiagLines = 1
  MaxText = 1
  OldSizes = {0}
  MaxRequests = 1
CHECK_DEADLOCK FALSE
INVARIANT RestartContinues
