SPECIFICATION Spec
CONSTANTS
  Clients = {c1, c2, c3}
  MaxDescriptor = 3
  MaxConnections = 4
  ConnectionsPerThread = 2
  MaxHandlers = 2
SYMMETRY Symmetry
INVARIANT TableInv
INVARIANT OrderlyService
