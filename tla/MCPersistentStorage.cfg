\* The event storage of the program and of the unit tests.
SPECIFICATION StorageSpec
SYMMETRY Sym
CONSTANTS
  h1 = h1
  h2 = h2
  test = test
  monitor = monitor
  tests = tests
  Thread <- MCThread
  Process <- MCProcess
  ProcessOf <- Owner
  Reader <- MCReader
  Conn = {c1, c2}
  NoConn = NoConn
  VM = {vm1, vm2, vm3}
  NoVM = NoVM
  IntSize = 4
  EventId <- LongId
  MaxRows = 5
  MaxStarts = 3
  MaxWork = 6
INVARIANTS
  StorageTypeOK
  OneStorage
  StatementsOwned
  InsertionEndsReading
  ReadsForward
  ReadsBack
PROPERTIES
  ReadsToTheEnd
  ImplementsEventLog
CHECK_DEADLOCK FALSE
