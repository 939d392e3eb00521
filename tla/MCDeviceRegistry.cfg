\* The manager with its mutex, called by three threads.
SPECIFICATION Spec
CONSTANTS
  Thread = {t1, t2, t3}
  NoThread = NoThread
  HasMutex = TRUE
  Addr = {a1}
  Ptr = {p1, p2, p3}
  NULL = NULL
  Absent = Absent
  MaxDepth = 2
  MaxFaults = 1
SYMMETRY Symmetry
INVARIANTS
  TypeOK
  MutualExclusion
  MapSound
  OnlyFindsGoWrong
  NoDeviceLost
PROPERTY
  ImplementsDeviceSet
