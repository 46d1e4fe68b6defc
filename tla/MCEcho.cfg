SPECIFICATION FairSpec
CONSTANTS
  c1 = c1
  c2 = c2
  Clients = {c1, c2}
  MainSocket = 1
  Sockets <- SocketsOfTwo
  Limits = {3, 4}
  Room = 1
  POLL_SET_SIZE = 2
  AllocMayFail = TRUE
  MAXBUF = 4
  PduMayFail = {c1}
  Lines <- MixedLines
  Terminals = {c2}
  EmptyRecvWaits = TRUE
  HupOnEof = TRUE
  MayEnd = {c2}
  MaxLines <- MoreFromTerminal
  NoClient = NoClient
INVARIANTS
  TypeOK
  LinesSentAsTyped
  EchoesInOrder
  DisconnectHasCause
PROPERTIES
  EveryLineComesBack
  RequestsServed
CHECK_DEADLOCK FALSE
