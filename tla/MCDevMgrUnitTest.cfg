\* The multi-threaded unit tests against a manager with its mutex.
SPECIFICATION TestSpec
CONSTANTS
  a1 = a1
  a2 = a2
  main = main
  r1 = r1
  r2 = r2
  u1 = u1
  u2 = u2
  u3 = u3
  u4 = u4
  Main <- main
  Registrar <- MCRegistrar
  Unregistrar <- MCUnregistrar
  Thread <- MCThread
  Target <- MCTarget
  NoThread = NoThread
  Addr <- MCAddr
  Ptr = {p1, p2}
  NULL = NULL
  Absent = Absent
  MaxDepth = 3
  MaxFaults = 2
  HasMutex = TRUE
INVARIANTS
  AllRegistered
  AllUnregistered
PROPERTY
  TestsEnd
\* After the tests of the main thread the workers wait for ever, and main for them.
CHECK_DEADLOCK FALSE
