\* Quitting the application.
SPECIFICATION MonitorSpec
CONSTANTS
  Worker <- MCWorker
  Services <- MCServices
  MayReturn = {"server"}
  MaxReturns = 1
  MaxFailures = 0
PROPERTY
  QuitEnds
CHECK_DEADLOCK FALSE
