\* The running monitor: GetInstance's manager, which has no mutex.
SPECIFICATION MonitorSpec
CONSTANTS
  det = det
  mgr = mgr
  Det <- det
  Mgr <- mgr
  Thread <- MCThread
  NoThread = NoThread
  HasMutex = FALSE
  Addr = {1, 2}
  Ptr = {p1, p2, p3}
  Handler = {h1, h2}
  NULL = NULL
  Absent = Absent
  MaxDepth = 1
  MaxFound = 3
  MaxFaults = 0
SYMMETRY Symmetry
INVARIANTS
  MonitorTypeOK
  HandlersSound
  ConnectedKeepsPairing
