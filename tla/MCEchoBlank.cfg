SPECIFICATION Spec
CONSTANTS
  c1 = c1
  c2 = c2
  Clients = {c1, c2}
  MainSocket = 1
  Sockets <- SocketsOfTwo
  Limits = {4}
  Room = 1
  POLL_SET_SIZE = 2
  AllocMayFail = FALSE
  MAXBUF = 4
  PduMayFail = {}
  Lines <- BlankLines
  Terminals = {c1, c2}
  EmptyRecvWaits = FALSE
  HupOnEof = TRUE
  MayEnd = {}
  MaxLines <- TwoLines
  NoClient = NoClient
INVARIANTS
  DisconnectedMeansGone
CHECK_DEADLOCK FALSE
