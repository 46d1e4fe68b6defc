SPECIFICATION Spec
CONSTANTS
  c1 = c1
  c2 = c2
  c3 = c3
  h1 = h1
  h2 = h2
  empty = empty
  long = long
  Clients = {c1, c2}
  Handles = {h1, h2}
  HandleOf <- OwnHandles
  LongHandles = {}
  Texts = {empty, long}
  Empty = empty
  ChunkFlags <- TabFirst
  TextStart <- Starts
  HandleStart <- FirstInSecond
  Room = 9
  NoText = NoText
  NoClient = NoClient
  DestLists <- NoLists
  MaxSends <- TwoEach
  MayQuit = {}
  HupOnEof = TRUE
  MainSocket = 1
  Sockets <- SocketsOfTwo
  InitialSize = 3
  POLL_SET_SIZE = 2
  NoHandle = NoHandle
  AllocMayFail = FALSE
  Limits = {5}
  StdinMayHangUp = FALSE
INVARIANTS
  ExitOnlyWhenAsked
CHECK_DEADLOCK FALSE
