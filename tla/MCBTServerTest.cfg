\* The unit test's client, where send() may accept a part of a message and the
\* stream delivers all of it together.
SPECIFICATION ServerSpec
CONSTANTS
  srv = srv
  c1 = c1
  c2 = c2
  v1 = v1
  v2 = v2
  Client <- MCOneClient
  Conn <- MCConn
  Sock <- MCSock
  listener <- srv
  Nobody = Nobody
  Message <- MCMessage
  MaxRuns = 1
  MaxHandlers = 1
  Pieces = FALSE
  SizeMod = 8
  PartialSend = TRUE
INVARIANT
  TestReceives
CHECK_DEADLOCK FALSE
