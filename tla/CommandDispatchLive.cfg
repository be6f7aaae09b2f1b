SPECIFICATION FairSpec
CONSTANTS
  Clients = {a, b}
  Handlers = {h1}
  Connections = 2
  Texts = {t1}
  Kinds = {"defer", "lock"}
  Intervals = 2
  MaxPushed = 2
  MaxAsked = 1
CHECK_DEADLOCK FALSE
PROPERTY WakeSettles
PROPERTY TimerReleases
