\* The application from its start to its end.
SPECIFICATION MonitorSpec
CONSTANTS
  Worker <- MCWorker
  Services <- MCServices
  MayReturn = {"server"}
  MaxReturns = 2
  MaxFailures = 2
INVARIANTS
  MonitorTypeOK
  OneThreadPerWorker
  DeletedWorkersRest
PROPERTY
  KeepAlive
\* The program ends, or waits for ever for a worker.
CHECK_DEADLOCK FALSE
