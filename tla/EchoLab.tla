------------------------------ MODULE EchoLab ------------------------------
(***************************************************************************)
(* The echo service of Lab2: server.c sends every PDU back, cclient.c sends*)
(* every line its user types.  Text is counted, not spelled: a line is its *)
(* number of characters, and so is the data of a PDU.  The input of a      *)
(* client is followed from descriptor 0 through the buffer of stdio,       *)
(* because the client polls the one and reads the other.                   *)
(* pollLib.c is the file of Program2, so PollSet stands for it here too.   *)
(***************************************************************************)
EXTENDS Integers, Sequences, FiniteSetsExt, SequencesExt

CONSTANTS
  Clients,
  MainSocket, Sockets,   \* the listening socket, those accept may return
  Limits,                \* as in ChatServer
  Room,                  \* as in ChatNet
  POLL_SET_SIZE,
  AllocMayFail,          \* whether realloc may fail
  PduMayFail,            \* the clients for whose PDUs malloc may fail, in the
                         \* sendPDU of either program
  MAXBUF,                \* the size of the buffer of fgets
  Lines,                 \* Lines[c]: the lengths of the lines its user types
  Terminals,             \* the clients for which read returns one line at a
                         \* time and the end of the input counts as readable:
                         \* so it is for a terminal, not for a pipe on Linux
  EmptyRecvWaits,        \* whether recv of 0 bytes waits for input: it does
                         \* on Linux, not on macOS
  HupOnEof,              \* as in ChatClient
  MayEnd,                \* the clients whose input may end
  MaxLines,              \* bound of the model: MaxLines[c] lines are typed
  NoClient

ASSUME EchoAssumption ==
  /\ MainSocket \in Nat \ {0}
  /\ Sockets # {} /\ \A s \in Sockets : s \in Nat /\ s > MainSocket
  /\ POLL_SET_SIZE \in Nat \ {0} /\ Room \in Nat \ {0}
  /\ MAXBUF \in Nat /\ MAXBUF > 2
  /\ Lines \in [Clients -> SUBSET Nat]
  /\ Terminals \subseteq Clients
  /\ NoClient \notin Clients

VARIABLES
  typed,     \* history: typed[c], every line typed
  input,     \* input[c]: the lines that wait in descriptor 0
  stdio,     \* stdio[c]: what is left of the lines stdio has read from it
  eof,       \* the clients whose input has ended
  proc,      \* proc[c]: "idle", "looping" or "gone"
  backlog, up, taken, down, shown, link, closed,   \* as in ChatNet
  status, pollSet, setSize, maxFd, owner, limit,   \* as in ChatServer
  sending,   \* the socket the server's send is running on, or -1
  waiting    \* the socket a recv of 0 bytes waits on, or -1

Poll == INSTANCE PollSet

inputVars == <<typed, input, stdio, eof>>
clientVars == <<inputVars, proc, up, shown, link>>
pollVars == <<pollSet, setSize, maxFd>>
serverVars == <<status, pollVars, owner, limit, sending, waiting, taken, down, closed>>
vars == <<clientVars, backlog, serverVars>>

OpenSockets == {s \in Sockets : owner[s] # NoClient}
FreeSockets == {s \in Sockets \ OpenSockets : s < limit}
Unread(c) == taken[c] < Len(up[c])
Unshown(c) == shown[c] < Len(down[c])
ServerGone(c) == c \in closed \/ status # "running"

(* send blocks while the connection is full, in both programs.  The        *)
(* client's last PDU counts as sent while it is in send.                   *)
InSend(c) == Len(up[c]) - taken[c] > Room /\ ~ServerGone(c)
Full(c) == Len(down[c]) - shown[c] >= Room /\ link[c] = "open"

(* Both programs up to their loops.                                        *)
Init ==
  /\ typed = [c \in Clients |-> <<>>] /\ input = typed /\ stdio = typed
  /\ eof = {}
  /\ proc = [c \in Clients |-> "idle"]
  /\ backlog = <<>>
  /\ up = typed /\ down = typed
  /\ taken = [c \in Clients |-> 0] /\ shown = taken
  /\ link = [c \in Clients |-> "none"]
  /\ closed = {}
  /\ status = "running"
  /\ setSize = POLL_SET_SIZE + (IF MainSocket < POLL_SET_SIZE THEN 0 ELSE MainSocket)
  /\ pollSet = [i \in 0 .. setSize - 1 |-> IF i = MainSocket THEN i ELSE Poll!Stdin]
  /\ maxFd = MainSocket + 1
  /\ owner = [s \in Sockets |-> NoClient]
  /\ limit \in Limits
  /\ sending = -1 /\ waiting = -1

----------------------------------------------------------------------------
(* The user and the client                                                 *)

TypeLine(c) ==
  /\ proc[c] # "gone" /\ c \notin eof
  /\ Len(typed[c]) < MaxLines[c]
  /\ \E n \in Lines[c] :
       /\ typed' = [typed EXCEPT ![c] = Append(@, n)]
       /\ input' = [input EXCEPT ![c] = Append(@, n)]
  /\ UNCHANGED <<stdio, eof, proc, up, shown, link, backlog, serverVars>>

EndInput(c) ==
  /\ c \in MayEnd \ eof
  /\ eof' = eof \cup {c}
  /\ UNCHANGED <<typed, input, stdio, proc, up, shown, link, backlog, serverVars>>

ConnectToServer(c) ==
  /\ proc[c] = "idle"
  /\ \/ /\ status = "running"
        /\ proc' = [proc EXCEPT ![c] = "looping"]
        /\ link' = [link EXCEPT ![c] = "open"]
        /\ backlog' = Append(backlog, c)
     \/ /\ status # "running"
        /\ proc' = [proc EXCEPT ![c] = "gone"]
        /\ UNCHANGED <<link, backlog>>
  /\ UNCHANGED <<inputVars, up, shown, serverVars>>

(* The process ends and its socket is closed: with echoes unread that is a *)
(* reset.                                                                  *)
Leave(c) ==
  /\ proc' = [proc EXCEPT ![c] = "gone"]
  /\ link' = [link EXCEPT ![c] = IF shown'[c] < Len(down[c]) THEN "rst" ELSE "fin"]

(* poll looks at descriptor 0 only: lines that stdio has already read do   *)
(* not count.                                                              *)
InputReported(c) == input[c] # <<>> \/ c \in eof \cap Terminals

(* What fgets chooses from: stdio reads only when it has nothing left.     *)
Buffered(c) ==
  IF stdio[c] # <<>> \/ input[c] = <<>> THEN stdio[c]
  ELSE IF c \in Terminals THEN <<Head(input[c])>> ELSE input[c]

LeftInInput(c) ==
  IF stdio[c] # <<>> THEN input[c] ELSE IF c \in Terminals THEN Tail(input[c]) ELSE <<>>

(* The data sent is one character less than fgets returned: the newline of *)
(* a line that fits the buffer, the last character of a piece of one that  *)
(* does not.                                                               *)
DataWithNewline(n) == IF n + 1 < MAXBUF THEN n + 1 ELSE MAXBUF - 2   \* mutant

Data(n) == IF n + 1 < MAXBUF THEN n ELSE MAXBUF - 2
Rest(n) == IF n + 1 < MAXBUF THEN <<>> ELSE <<n - (MAXBUF - 1)>>

(* sendPDU returns -1.                                                     *)
SendMayFail(c) == c \in PduMayFail \/ (ServerGone(c) /\ Unread(c))

SendLine(c) ==
  /\ proc[c] = "looping" /\ ~InSend(c)
  /\ InputReported(c)
  /\ Buffered(c) # <<>>
  /\ UNCHANGED shown
  /\ LET n == Head(Buffered(c)) IN
     /\ stdio' = [stdio EXCEPT ![c] = Rest(n) \o Tail(Buffered(c))]
     /\ input' = [input EXCEPT ![c] = LeftInInput(c)]
     /\ \/ /\ up' = [up EXCEPT ![c] = Append(@, Data(n))]
           /\ UNCHANGED <<proc, link>>
        \/ /\ SendMayFail(c)
           /\ Leave(c)
           /\ UNCHANGED up
  /\ UNCHANGED <<typed, eof, backlog, serverVars>>

(* fgets returns NULL.                                                     *)
InputEnds(c) ==
  /\ proc[c] = "looping" /\ ~InSend(c)
  /\ InputReported(c)
  /\ Buffered(c) = <<>>
  /\ UNCHANGED shown
  /\ Leave(c)
  /\ UNCHANGED <<inputVars, up, backlog, serverVars>>

ReceiveEcho(c) ==
  /\ proc[c] = "looping" /\ ~InSend(c)
  /\ Unshown(c)
  /\ shown' = [shown EXCEPT ![c] = @ + 1]
  /\ UNCHANGED <<inputVars, proc, up, link, backlog, serverVars>>

SeeServerGone(c) ==
  /\ proc[c] = "looping"
  /\ ServerGone(c)
  /\ HupOnEof \/ Unread(c)
  /\ \/ Unshown(c) /\ shown' = [shown EXCEPT ![c] = @ + 1]
     \/ (Unread(c) \/ ~Unshown(c)) /\ UNCHANGED shown
  /\ Leave(c)
  /\ UNCHANGED <<inputVars, up, backlog, serverVars>>

ClientReacts(c) == SendLine(c) \/ InputEnds(c) \/ ReceiveEcho(c) \/ SeeServerGone(c)

----------------------------------------------------------------------------
(* The server                                                              *)

ReadyClients == {s \in OpenSockets : Unread(owner[s]) \/ link[owner[s]] # "open"}

PollReturns(s) ==
  /\ status = "running"
  /\ sending = -1 /\ waiting = -1
  /\ s = Poll!PollCall(ReadyClients \cup (IF backlog = <<>> THEN {} ELSE {MainSocket}), {})

Accept ==
  /\ PollReturns(MainSocket)
  /\ FreeSockets # {}
  /\ LET s == Min(FreeSockets) IN
     /\ owner' = [owner EXCEPT ![s] = Head(backlog)]
     /\ backlog' = Tail(backlog)
     /\ \/ Poll!AddToPollSet(s) /\ UNCHANGED status
        \/ Poll!GrowPollSetFails(s)
  /\ UNCHANGED <<clientVars, limit, sending, waiting, taken, down, closed>>

(* accept returns -1 and the connection stays where it is.                 *)
AcceptFails ==
  /\ PollReturns(MainSocket)
  /\ FreeSockets = {}
  /\ UNCHANGED vars

Disconnect(s) ==
  /\ Poll!RemoveFromPollSet(s)
  /\ owner' = [owner EXCEPT ![s] = NoClient]
  /\ closed' = closed \cup {owner[s]}

NextData(c) == up[c][taken[c] + 1]

(* recvPDU takes the next PDU from the client on s.                        *)
Takes(s) ==
  /\ PollReturns(s)
  /\ s \in OpenSockets
  /\ Unread(owner[s])
  /\ taken' = [taken EXCEPT ![owner[s]] = @ + 1]

(* Data is sent back, unless malloc fails in sendPDU.                      *)
TakeData(s) ==
  /\ Takes(s)
  /\ NextData(owner[s]) > 0
  /\ \/ sending' = s
     \/ owner[s] \in PduMayFail /\ UNCHANGED sending
  /\ UNCHANGED <<clientVars, backlog, status, pollVars, owner, limit, waiting, down, closed>>

(* The data received last from the client on the socket of the send.       *)
Echoed == LET c == owner[sending] IN up[c][taken[c]]

EchoTwice ==   \* mutant
  LET c == owner[sending] IN
  /\ status = "running" /\ sending # -1 /\ sending' = -1
  /\ down' = [down EXCEPT ![c] = @ \o <<Echoed, Echoed>>]
  /\ UNCHANGED <<clientVars, backlog, status, pollVars, owner, limit, waiting, taken, closed>>

EchoAndClose ==   \* mutant: the branches are not exclusive
  LET c == owner[sending] IN
  /\ status = "running" /\ sending # -1 /\ sending' = -1
  /\ down' = [down EXCEPT ![c] = Append(@, Echoed)]
  /\ Disconnect(sending)
  /\ UNCHANGED <<clientVars, backlog, status, limit, waiting, taken>>

EchoWithoutRoom ==   \* mutant: the send that meets a full connection is given up
  LET c == owner[sending] IN
  /\ status = "running" /\ sending # -1 /\ sending' = -1
  /\ down' = [down EXCEPT ![c] = IF Full(c) THEN @ ELSE Append(@, Echoed)]
  /\ UNCHANGED <<clientVars, backlog, status, pollVars, owner, limit, waiting, taken, closed>>

(* The send waits while the connection is full; one that fails is ignored, *)
(* unless SIGPIPE ends the process.                                        *)
Echo ==
  LET c == owner[sending] IN
  /\ status = "running" /\ sending # -1 /\ sending' = -1
  /\ \/ /\ link[c] # "rst" /\ ~Full(c)
        /\ down' = [down EXCEPT ![c] = Append(@, Echoed)]
        /\ UNCHANGED status
     \/ /\ link[c] = "rst"
        /\ status' \in {"running", "exited"}
        /\ UNCHANGED down
  /\ UNCHANGED <<clientVars, backlog, pollVars, owner, limit, waiting, taken, closed>>

(* A PDU without data: the second recv asks for 0 bytes.  It returns 0,    *)
(* which is taken for the end of the connection, at once or after waiting. *)
TakeEmpty(s) ==
  LET c == owner[s] IN
  /\ Takes(s)
  /\ NextData(c) = 0
  /\ IF EmptyRecvWaits /\ taken'[c] = Len(up[c]) /\ link[c] = "open"
     THEN waiting' = s /\ UNCHANGED <<pollVars, owner, closed>>
     ELSE Disconnect(s) /\ UNCHANGED waiting
  /\ UNCHANGED <<clientVars, backlog, status, limit, sending, down>>

WaitIsOver ==
  /\ status = "running"
  /\ waiting # -1
  /\ Unread(owner[waiting]) \/ link[owner[waiting]] # "open"
  /\ \/ Disconnect(waiting) /\ UNCHANGED status
     \/ link[owner[waiting]] = "rst" /\ status' = "exited" /\ UNCHANGED <<pollVars, owner, closed>>
  /\ waiting' = -1
  /\ UNCHANGED <<clientVars, backlog, limit, sending, taken, down>>

ServeEof(s) ==
  /\ PollReturns(s)
  /\ s \in OpenSockets
  /\ ~Unread(owner[s])
  /\ link[owner[s]] \in {"fin", "rst"}
  /\ Disconnect(s)
  /\ UNCHANGED <<clientVars, backlog, status, limit, sending, waiting, taken, down>>

RecvFails(s) ==
  /\ PollReturns(s)
  /\ s \in OpenSockets
  /\ link[owner[s]] = "rst"
  /\ status' = "exited"
  /\ UNCHANGED <<clientVars, backlog, pollVars, owner, limit, sending, waiting, taken, down,
                 closed>>

Server ==
  \/ Accept \/ AcceptFails
  \/ \E s \in Sockets : TakeData(s) \/ TakeEmpty(s) \/ ServeEof(s) \/ RecvFails(s)
  \/ Echo \/ WaitIsOver

(* A client closed and an echo reached it afterwards.                      *)
LateReset(c) ==
  /\ link[c] = "fin" /\ c \notin closed
  /\ Unshown(c)
  /\ link' = [link EXCEPT ![c] = "rst"]
  /\ UNCHANGED <<inputVars, proc, up, shown, backlog, serverVars>>

Next ==
  \/ \E c \in Clients :
       \/ TypeLine(c) \/ EndInput(c) \/ ConnectToServer(c)
       \/ ClientReacts(c) \/ LateReset(c)
  \/ Server

Spec == Init /\ [][Next]_vars
FairSpec ==
  Spec /\ WF_vars(Server) /\ \A c \in Clients : WF_vars(ClientReacts(c))

----------------------------------------------------------------------------
TypeOK ==
  /\ typed \in [Clients -> Seq(Nat)] /\ input \in [Clients -> Seq(Nat)]
  /\ stdio \in [Clients -> Seq(Nat)]
  /\ eof \subseteq Clients
  /\ proc \in [Clients -> {"idle", "looping", "gone"}]
  /\ backlog \in Seq(Clients)
  /\ up \in [Clients -> Seq(0 .. MAXBUF - 2)]
  /\ down \in [Clients -> Seq(1 .. MAXBUF - 2)]
  /\ taken \in [Clients -> Nat] /\ shown \in [Clients -> Nat]
  /\ link \in [Clients -> {"none", "open", "fin", "rst"}]
  /\ closed \subseteq Clients
  /\ status \in {"running", "exited"}
  /\ setSize \in Nat /\ maxFd \in 0 .. setSize
  /\ pollSet \in [0 .. setSize - 1 -> Sockets \cup {Poll!Stdin, MainSocket}]
  /\ owner \in [Sockets -> Clients \cup {NoClient}]
  /\ limit \in Limits
  /\ sending \in Sockets \cup {-1} /\ waiting \in Sockets \cup {-1}

Fits(c) == \A i \in DOMAIN typed[c] : typed[c][i] + 1 < MAXBUF

(* As long as lines fit the buffer, each is sent as it was typed: none is  *)
(* lost, split or joined on the way through the two buffers of the input.  *)
LinesSentAsTyped == \A c \in Clients : Fits(c) => IsPrefix(up[c], typed[c])

(* A client gets back nothing but its own lines, in order and once each,   *)
(* whoever else is served between them; that none is left out while memory *)
(* lasts is EveryLineComesBack.                                            *)
EchoesInOrder ==
  \A c \in Clients :
    \E place \in [DOMAIN down[c] -> 1 .. taken[c]] : \A i, j \in DOMAIN down[c] :
      down[c][i] = up[c][place[i]] /\ (i < j => place[i] < place[j])

(* The server hangs up on a client only when the client has left or, the   *)
(* exception, has sent an empty line; and it never serves it again.        *)
DisconnectHasCause ==
  \A c \in closed :
    /\ link[c] # "open" \/ (taken[c] > 0 /\ up[c][taken[c]] = 0)
    /\ \A s \in Sockets : owner[s] # c /\ (owner[s] = NoClient => s \notin Poll!Watched)

(* The server says "Client %d disconnected." of a client that is there.    *)
DisconnectedMeansGone == \A c \in closed : link[c] # "open"

(* What can stop the service for good or for as long as one client likes:  *)
(* a recv of 0 bytes that waits on a silent client, a send to a client that*)
(* is itself in send, and a client that cannot be accepted, because the    *)
(* listening socket is the lowest that is ready.                           *)
WaitsInRecv == waiting # -1 /\ ~Unread(owner[waiting]) /\ link[owner[waiting]] = "open"
Standoff == sending # -1 /\ Full(owner[sending]) /\ InSend(owner[sending])
AtLimit == backlog # <<>> /\ FreeSockets = {}
Stuck == WaitsInRecv \/ Standoff \/ AtLimit

(* Every line typed comes back while client and server live, also when     *)
(* other clients send empty lines or lose theirs, up to the moment at      *)
(* which the server is stuck.  It needs the input of a terminal: a pipe    *)
(* hands stdio several lines at once, and poll does not see those left in  *)
(* its buffer.                                                             *)
EveryLineComesBack ==
  \A c \in Terminals \ PduMayFail :
    shown[c] < Len(typed[c]) ~>
      (shown[c] = Len(typed[c]) \/ proc[c] # "looping" \/ ServerGone(c) \/ Stuck)

(* In no other way than those three can a client keep others from being    *)
(* served, however much it sends and whether or not it reads.              *)
RequestsServed ==
  \A c \in Clients : Unread(c) ~> (~Unread(c) \/ ServerGone(c) \/ Stuck)
=============================================================================
