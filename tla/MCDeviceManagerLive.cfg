\* The running monitor: what it eventually does.
SPECIFICATION FairMonitorSpec
CONSTANTS
  det = det
  mgr = mgr
  Det <- det
  Mgr <- mgr
  Thread <- MCThread
  NoThread = NoThread
  HasMutex = FALSE
  Addr = {1}
  Ptr = {p1, p2}
  Handler = {h1, h2}
  NULL = NULL
  Absent = Absent
  MaxDepth = 1
  MaxFound = 3
  MaxFaults = 0
PROPERTIES
  EndedHandlerIsReaped
  ServicesGetAHandler
