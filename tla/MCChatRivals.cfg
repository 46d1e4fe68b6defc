SPECIFICATION Spec
CONSTANTS
  c1 = c1
  c2 = c2
  c3 = c3
  h1 = h1
  h2 = h2
  empty = empty
  long = long
  Clients = {c1, c2, c3}
  Handles = {h1, h2}
  HandleOf <- RivalHandles
  LongHandles = {h2}
  Texts = {empty}
  Empty = empty
  ChunkFlags <- LettersFirst
  TextStart <- Starts
  HandleStart <- FirstInSecond
  Room = 9
  NoText = NoText
  NoClient = NoClient
  DestLists <- NoLists
  MaxSends <- RivalSends
  MayQuit = {}
  HupOnEof = TRUE
  MainSocket = 1
  Sockets <- SocketsOfThree
  InitialSize = 2
  POLL_SET_SIZE = 2
  NoHandle = NoHandle
  AllocMayFail = TRUE
  Limits = {4, 5}
  StdinMayHangUp = FALSE
SYMMETRY Rivals
INVARIANTS
  TypeOK
  DescriptorsAgree
  MessagesReachTheirAddressee
  VerdictFirst
  DeliveredOrReported
PROPERTIES
  HandleKeptWhileConnected
  LimitEndsService
CHECK_DEADLOCK FALSE
