\* Two sessions of one board with a broadcast and a login; two driver calls that fail.
SPECIFICATION MCSpec
CONSTANTS
  Users = {"main", "server"}
  Callers = {"main", "server"}
  MaxDbFails = 2
  MaxSessions = 2
  MaxRequests = 1
  Broadcasts <- MCBroadcasts
INVARIANT RecordsInv
INVARIANT ConnectionInv
INVARIANT JudgedRight
CONSTRAINT Explored
PROPERTY KeepsPromise
\* The operator may have given up, and main sleeps for ever when testing is over.
CHECK_DEADLOCK FALSE
