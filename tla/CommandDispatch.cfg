SPECIFICATION Spec
CONSTANTS
  Clients = {a, b}
  Handlers = {h1}
  Connections = 2
  Texts = {t1, t2}
  Kinds = {"data", "answer", "defer", "lock", "unlock"}
  Intervals = 1
  MaxPushed = 2
  MaxAsked = 2
SYMMETRY Symmetry
CHECK_DEADLOCK FALSE
INVARIANT RepliesInv
PROPERTY InOrderOnce
