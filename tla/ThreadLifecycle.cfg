SPECIFICATION Spec
CONSTANTS
  Handlers = {h1}
  MaxClients = 1
  QueueSize = 2
  LeftBehind <- LeftBehindValue
  MaxOutput = 1
  MaxConnects = 1
  MaxCommands = 1
  Signals = {"hangup", "interrupt"}
CHECK_DEADLOCK FALSE
INVARIANT StartInv
INVARIANT CalmShutdown
INVARIANT SafeMeansStored
PROPERTY ShutdownEnds
