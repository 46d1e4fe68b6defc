SPECIFICATION FairSpec
CONSTANTS
  c1 = c1
  c2 = c2
  c3 = c3
  h1 = h1
  h2 = h2
  empty = empty
  long = long
  Clients = {c1, c2}
  Handles = {h1, h2}
  HandleOf <- OwnHandles
  LongHandles = {}
  Texts = {empty}
  Empty = empty
  ChunkFlags <- LettersFirst
  TextStart <- Starts
  HandleStart <- FirstInSecond
  Room = 1
  NoText = NoText
  NoClient = NoClient
  DestLists <- NoLists
  MaxSends <- LiveSends
  MayQuit = {c2}
  HupOnEof = TRUE
  MainSocket = 1
  Sockets <- SocketsOfTwo
  InitialSize = 2
  POLL_SET_SIZE = 2
  NoHandle = NoHandle
  AllocMayFail = FALSE
  Limits = {5}
  StdinMayHangUp = FALSE
PROPERTIES
  RequestsServed
  ExitCompletes
  ClientsNoticeServerStop
CHECK_DEADLOCK FALSE
