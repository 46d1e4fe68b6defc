----------------------------- MODULE ChatSystem ----------------------------
(***************************************************************************)
(* The chat of Program2: the server and its clients, interleaved.          *)
(***************************************************************************)
EXTENDS ChatClient, ChatServer, FiniteSets

vars == <<netVars, proc, serverVars>>

Init ==
  /\ NetInit
  /\ proc = [c \in Clients |-> "idle"]
  /\ ServerInit

(* A client changes nothing of the server, and the server no client.       *)
Client(c) ==
  /\ ClientStep(c)
  /\ UNCHANGED serverVars

Server == ServerStep /\ UNCHANGED proc

Environment ==
  /\ StdinHangsUp \/ \E c \in Clients : LateReset(c) /\ UNCHANGED serverVars
  /\ UNCHANGED proc

Next ==
  \/ \E c \in Clients : Client(c)
  \/ Server
  \/ Environment

Spec == Init /\ [][Next]_vars

(* The server thread runs whenever it can, and so does a client that has   *)
(* something to do; nobody has to type, to connect or to quit.             *)
Fairness ==
  /\ WF_vars(Server)
  /\ \A c \in Clients : WF_vars(ClientReacts(c) /\ UNCHANGED serverVars)

FairSpec == Spec /\ Fairness

----------------------------------------------------------------------------
TypeOK ==
  /\ NetTypeOK
  /\ ServerTypeOK
  /\ proc \in [Clients -> {"idle", "connected", "looping", "gone"}]

Has(stream, flag) == \E i \in DOMAIN stream : stream[i].flag = flag
Served(c) == SubSeq(up[c], 1, taken[c])

(* The places in the streams to clients of what request i of c caused.     *)
Outcomes(c, i) ==
  UNION {{<<d, j>> : j \in {k \in DOMAIN down[d] : down[d][k].by = c /\ down[d][k].id = i}} :
           d \in Clients}

(* Three structures are indexed by descriptor: the kernel's, the poll set  *)
(* and the handle table.  While the server runs they agree, also when a    *)
(* descriptor is closed and given to the next client: no entry of the      *)
(* table survives the connection it was made for.                          *)
DescriptorsAgree ==
  status = "running" =>
    /\ Poll!Watched = OpenSockets \cup {MainSocket}
    /\ \A i \in Poll!Watched : i < maxFd
    /\ Table!Occupied \subseteq OpenSockets
    /\ \A s \in Table!Occupied : table[s] = HandleOf[owner[s]]
    /\ \A s, t \in OpenSockets : owner[s] = owner[t] => s = t

(* Whatever of a message leaves the server goes to a client whose handle   *)
(* the request named and that was accepted before, or, as an error, back   *)
(* to the client that sent it.  (A piece of a long text may begin with any *)
(* byte, also with the flag of an error, but it has a text.)               *)
IsError(m) == m.flag = NoSuchHandle /\ m.text = NoText

MessagesReachTheirAddressee ==
  \A c \in Clients : \A i \in DOMAIN down[c] :
    LET m == down[c][i]
        named == up[m.by][m.id].dests
    IN
    m.by # NoClient =>
      IF IsError(m) THEN m.by = c
      ELSE /\ down[c][1].flag = Accepted
           /\ \E k \in DOMAIN named : named[k] = HandleOf[c]

(* What one sender causes arrives in the order it typed it, and nothing    *)
(* twice except when a multicast lists a handle twice and when a long text *)
(* comes in pieces.                                                        *)
Repeats(req, h) ==
  \/ Cardinality({k \in DOMAIN req.dests : req.dests[k] = h}) > 1
  \/ req.flag = Message /\ Len(ChunkFlags[req.text]) > 1

OrderedPerSender ==
  \A c \in Clients : \A i, j \in DOMAIN down[c] :
    LET m == down[c][i]
        n == down[c][j]
    IN
    i < j /\ m.by # NoClient /\ m.by = n.by =>
      \/ m.id < n.id
      \/ m.id = n.id /\ Repeats(up[m.by][m.id], HandleOf[c])

(* A client that registers hears the verdict before anything else.         *)
VerdictFirst ==
  \A c \in Clients :
    HandleOf[c] \notin LongHandles /\ down[c] # <<>> =>
      down[c][1].flag \in {Accepted, Refused}

(* Flag 9 only answers flag 8: no client is made to leave that did not     *)
(* ask for it.                                                             *)
ExitOnlyWhenAsked ==
  \A c \in Clients : Has(down[c], ExitAck) => Has(Served(c), Exit)

(* What the server makes itself; what it relays has a sender.              *)
Made(m, flags) == m.by = NoClient /\ m.flag \in flags

(* The end of a list has still to be sent to c.                            *)
Listing(c) ==
  /\ outbox # <<>>
  /\ LET last == outbox[Len(outbox)] IN
     last.pdu = Pdu(ListEnd) /\ last.to \in OpenSockets /\ owner[last.to] = c

(* Before an entry or the end of a list there are only entries of other    *)
(* handles, back to the count.                                             *)
EntriesAfterCount(c) ==
  \A i \in DOMAIN down[c] : Made(down[c][i], {HandleEntry, ListEnd}) =>
    \E k \in 1 .. i - 1 :
      /\ Made(down[c][k], {HandleCount})
      /\ \A j \in k + 1 .. i - 1 :
           Made(down[c][j], {HandleEntry}) /\ down[c][j].dests # down[c][i].dests

(* After the count and after every entry comes an entry or the end.        *)
ListGoesOn(c) ==
  \A i \in DOMAIN down[c] : Made(down[c][i], {HandleCount, HandleEntry}) =>
    IF i < Len(down[c]) THEN Made(down[c][i + 1], {HandleEntry, ListEnd})
    ELSE Listing(c) \/ link[c] = "rst"

(* Until the end is sent every handle in the table has its entry, on its   *)
(* way or among those sent last.                                           *)
AllAreListed(c) ==
  Listing(c) /\ link[c] # "rst" =>
    \A s \in Table!Occupied :
      LET entry == Naming(HandleEntry, table[s]) IN
      \/ \E i \in DOMAIN outbox : outbox[i].pdu = entry
      \/ \E i \in DOMAIN down[c] :
           down[c][i] = entry /\ \A j \in i .. Len(down[c]) : Made(down[c][j], {HandleEntry})

(* A list arrives whole and on its own: a count, then each handle of the   *)
(* table once and nothing else, then the end.  Only a reset breaks it off. *)
ListIsFramed ==
  \A c \in Clients : EntriesAfterCount(c) /\ ListGoesOn(c) /\ AllAreListed(c)

(* The server ends only for a cause outside it: its standard input hung    *)
(* up, memory ran out, a client left without reading all it was sent, or   *)
(* one was killed when its send had passed on one byte of a header.        *)
StopHasCause ==
  status = "exited" =>
    stdinHup \/ AllocMayFail \/ \E c \in Clients : link[c] \in {"half", "rst"}

(* A handle stays with its client until its connection is closed: nobody   *)
(* else's request takes it away or changes it.                             *)
HandleKeptWhileConnected ==
  [][status' = "running" =>
       \A s \in Table!Occupied :
         owner'[s] = owner[s] => s \in DOMAIN table' /\ table'[s] = table[s]]_vars

(* A message for one handle has exactly one outcome: it reaches a client,  *)
(* or its sender is told that the handle does not exist.                   *)
DeliveredOrReported ==
  \A c \in Clients : \A i \in 1 .. taken[c] :
    /\ status = "running"
    /\ outbox = <<>>
    /\ up[c][i].flag = Message
    /\ ChunkFlags[up[c][i].text] = <<>>
    /\ \A d \in Clients : link[d] # "rst"
    => Cardinality(Outcomes(c, i)) = 1

(* A connection that finds no descriptor free ends all service: accept     *)
(* fails, the listening socket is reported again, and it is served before  *)
(* every client, so that also those who leave are not noticed and their    *)
(* descriptors never become free.                                          *)
AtLimit == backlog # <<>> /\ FreeSockets = {} /\ outbox = <<>>

LimitEndsService == [][AtLimit => AtLimit' /\ UNCHANGED <<taken, down, owner>>]_vars

(* The system does what ChatService says: an answer is in the boxes when   *)
(* its request has been taken, whether sent or still in the outbox.        *)
Pending(c) ==
  LET own == SelectSeq(outbox, LAMBDA m : m.to \in OpenSockets /\ owner[m.to] = c)
  IN IF status = "running" THEN [i \in DOMAIN own |-> own[i].pdu] ELSE <<>>

NameOf(c) ==
  IF status = "running" /\ \E s \in Table!Occupied : owner[s] = c
  THEN table[CHOOSE s \in Table!Occupied : owner[s] = c] ELSE NoHandle

Service == INSTANCE ChatService WITH
  MemoryMayLack <- AllocMayFail, asked <- up, answered <- taken,
  box <- [c \in Clients |-> down[c] \o Pending(c)], read <- shown, hungUp <- closed,
  name <- [c \in Clients |-> NameOf(c)],
  registered <- IF status = "running" THEN numValid ELSE 0,
  running <- status = "running"

ServiceSpec == Service!Spec

----------------------------------------------------------------------------
(* The server waits in send for a client that does not read because it is *)
(* in a send to the server: neither gets on.                               *)
Standoff ==
  /\ outbox # <<>>
  /\ LET c == owner[Head(outbox).to] IN
     Head(outbox).to \in OpenSockets /\ Full(c) /\ InSend(c)

(* Every request sent is handled, as long as the server lives: the lowest  *)
(* descriptor goes first, but users do not type for ever, and however      *)
(* little the connections hold, nothing stops the server but a standoff.   *)
RequestsServed ==
  \A c \in Clients :
    Unread(c) ~> (~Unread(c) \/ c \in closed \/ status # "running" \/ Standoff)

(* A user who typed %e gets out, but for a standoff.                       *)
ExitCompletes ==
  \A c \in Clients : Has(up[c], Exit) ~> (proc[c] = "gone" \/ Standoff)

(* When the server has ended, every client notices and leaves; the client  *)
(* says that it checks whether the server is still connected.              *)
ClientsNoticeServerStop ==
  \A c \in Clients : (proc[c] = "looping" /\ status = "exited") ~> proc[c] = "gone"
=============================================================================
