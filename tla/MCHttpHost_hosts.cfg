SPECIFICATION FairSpec
CONSTANTS
  Host = {g, h}
  Client = {c}
  Main = Main
  OwnOnly = TRUE
  Unblock = Unblock
  None = None
INVARIANTS
  TypeOK
  WakesUp
  RequestsAccounted
  HostsEndWithContext
  StopsPromptly
PROPERTIES
  StopReturns
  RequestsAnswered
  CtrlCStops
