\* The handler thread and its device.
SPECIFICATION HandlerSpec
CONSTANTS
  s = s
  thread <- s
  Sock <- MCSock
  SizeMod = 8
  PartialSend = TRUE
  Retries = 3
  MaxBytes = 4
INVARIANTS
  HandlerTypeOK
  HandedOver
  EndMatchesStatus
  SendEndsExactly
PROPERTIES
  ImplementsHandlerLife
  BrokenLinkEndsThread
