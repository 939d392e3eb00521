\* The server and two clients, whose messages are carried in pieces.
SPECIFICATION ServerSpec
CONSTANTS
  srv = srv
  c1 = c1
  c2 = c2
  v1 = v1
  v2 = v2
  Client <- MCClients
  Conn <- MCConn
  Sock <- MCSock
  listener <- srv
  Nobody = Nobody
  Message <- MCMessage
  MaxRuns = 2
  MaxHandlers = 2
  Pieces = TRUE
  SizeMod = 8
  PartialSend = FALSE
INVARIANTS
  ServerTypeOK
  NoCrossTalk
PROPERTIES
  HandlerServesOne
  EveryMessageReceived
\* The server waits for connections for ever.
CHECK_DEADLOCK FALSE
