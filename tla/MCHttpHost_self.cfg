SPECIFICATION FairSpec
CONSTANTS
  Host = {h}
  Client = {c}
  Main = Main
  OwnOnly = FALSE
  Unblock = Unblock
  None = None
PROPERTIES
  CtrlCStops
CHECK_DEADLOCK FALSE
