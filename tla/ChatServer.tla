----------------------------- MODULE ChatServer ----------------------------
(***************************************************************************)
(* The chat server (Program2/server.c): one thread that polls, takes one   *)
(* PDU from the lowest socket that is ready and handles it to the end.     *)
(* A handler changes the table at once; the PDUs it sends leave one per    *)
(* step (outbox), because clients act between them, and the next poll      *)
(* comes after the last.                                                   *)
(***************************************************************************)
EXTENDS ChatNet, FiniteSetsExt

CONSTANTS
  MainSocket,      \* the listening socket
  Sockets,         \* the descriptors accept may return
  InitialSize,     \* main's argument of initializeHandleTable
  POLL_SET_SIZE,
  NoHandle,
  AllocMayFail,    \* whether malloc and realloc may fail
  Limits,          \* the limits on descriptors the server may be started with
  StdinMayHangUp   \* whether the standard input may hang up

ASSUME SocketsAssumption ==
  /\ MainSocket \in Nat \ {0}
  /\ Sockets \subseteq Nat
  /\ \A s \in Sockets : s > MainSocket
ASSUME TablesAssumption ==
  /\ InitialSize \in Nat \ {0}
  /\ POLL_SET_SIZE \in Nat \ {0}
  /\ NoHandle \notin Handles

VARIABLES
  capacity, table, numValid,
  pollSet, setSize, maxFd,
  owner,       \* owner[s]: the client whose connection is open on socket s
  outbox,      \* the PDUs the running handler has still to send
  stdinHup,    \* whether the standard input has hung up
  limit        \* every descriptor of the process is below this

Table == INSTANCE HandleTable WITH MaxAdds <- 0
Poll == INSTANCE PollSet

tableVars == <<capacity, table, numValid>>
pollVars == <<pollSet, setSize, maxFd>>
serverVars == <<status, tableVars, pollVars, owner, outbox, stdinHup, limit>>

OpenSockets == {s \in Sockets : owner[s] # NoClient}
FreeSockets == {s \in Sockets \ OpenSockets : s < limit}

(* main and serverControl, up to the loop.                                 *)
ServerInit ==
  /\ Table!Init
  /\ setSize = IF MainSocket < POLL_SET_SIZE THEN POLL_SET_SIZE
               ELSE MainSocket + POLL_SET_SIZE
  /\ pollSet = [i \in 0 .. setSize - 1 |-> IF i = MainSocket THEN i ELSE Poll!Stdin]
  /\ maxFd = MainSocket + 1
  /\ owner = [s \in Sockets |-> NoClient]
  /\ outbox = <<>>
  /\ stdinHup = FALSE
  /\ limit \in Limits

ServerTypeOK ==
  /\ Table!TypeOK
  /\ setSize \in Nat
  /\ pollSet \in [0 .. setSize - 1 -> Sockets \cup {Poll!Stdin, MainSocket}]
  /\ maxFd \in 0 .. setSize
  /\ owner \in [Sockets -> Clients \cup {NoClient}]
  /\ outbox \in Seq([to : Sockets \cup {-1}, pdu : Pdus])
  /\ stdinHup \in BOOLEAN
  /\ limit \in Limits

----------------------------------------------------------------------------
(* poll and recv                                                           *)

(* A socket has input when a PDU is waiting or its client closed.          *)
ReadyClients == {s \in OpenSockets : Unread(owner[s]) \/ link[owner[s]] # "open"}

(* The loop polls and pollCall returns s.                                  *)
PollReturns(s) ==
  /\ status = "running"
  /\ outbox = <<>>
  /\ s = Poll!PollCall(ReadyClients \cup (IF backlog = <<>> THEN {} ELSE {MainSocket}),
                       IF stdinHup THEN {Poll!Stdin} ELSE {})

(* recvPDU takes a PDU with this flag from the client on s.                *)
Takes(s, flag) ==
  /\ PollReturns(s)
  /\ s \in OpenSockets
  /\ Unread(owner[s])
  /\ NextRequest(owner[s]).flag = flag
  /\ taken' = [taken EXCEPT ![owner[s]] = @ + 1]
  /\ UNCHANGED <<backlog, up, shown, link, stdinHup, limit>>

Sends(s, pdu) == [to |-> s, pdu |-> pdu]

----------------------------------------------------------------------------
(* The handlers                                                            *)

(* addNewSocket: accept returns the lowest free descriptor.                *)
Accept ==
  /\ PollReturns(MainSocket)
  /\ FreeSockets # {}
  /\ LET s == Min(FreeSockets) IN
     /\ owner' = [owner EXCEPT ![s] = Head(backlog)]
     /\ backlog' = Tail(backlog)
     /\ \/ Poll!AddToPollSet(s) /\ UNCHANGED status
        \/ Poll!GrowPollSetFails(s)
  /\ UNCHANGED <<up, taken, down, shown, link, closed, tableVars, outbox, stdinHup, limit>>

(* accept returns -1 and the connection stays where it is.                 *)
AcceptFails ==
  /\ PollReturns(MainSocket)
  /\ FreeSockets = {}
  /\ UNCHANGED <<netVars, serverVars>>

(* Flag 1: the handle is entered in the table and the client is told.      *)
ServeConnectQuietly(s) ==   \* mutant: only a refusal is answered
  /\ Takes(s, Connect)
  /\ \E accepted \in BOOLEAN :
       /\ Table!AddHandle(s, NextRequest(owner[s]).dests[1], accepted)
       /\ outbox' = IF accepted THEN <<>> ELSE <<Sends(s, Pdu(Refused))>>
  /\ UNCHANGED <<down, closed, pollVars, owner>>

ServeConnect(s) ==
  /\ Takes(s, Connect)
  /\ \E accepted \in BOOLEAN :
       /\ Table!AddHandle(s, NextRequest(owner[s]).dests[1], accepted)
       /\ outbox' = <<Sends(s, Pdu(IF accepted THEN Accepted ELSE Refused))>>
  /\ UNCHANGED <<down, closed, pollVars, owner>>

(* Flag 5: relayed, or reported to its sender.                             *)
DropUnknown(s) ==   \* mutant: an unknown handle is not reported
  LET msg == NextRequest(owner[s])
      dest == Table!FindSocket(msg.dests[1])
  IN
  /\ Takes(s, Message)
  /\ outbox' = IF dest = -1 THEN <<>>
               ELSE [i \in 1 .. Len(Relayed(msg)) |-> Sends(dest, Relayed(msg)[i])]
  /\ UNCHANGED <<status, down, closed, tableVars, pollVars, owner>>

ServeMessage(s) ==
  LET msg == NextRequest(owner[s])
      dest == Table!FindSocket(msg.dests[1])
  IN
  /\ Takes(s, Message)
  /\ outbox' = IF dest = -1
               THEN <<Sends(s, [msg EXCEPT !.flag = NoSuchHandle, !.text = NoText])>>
               ELSE [i \in 1 .. Len(Relayed(msg)) |-> Sends(dest, Relayed(msg)[i])]
  /\ UNCHANGED <<status, down, closed, tableVars, pollVars, owner>>

(* Flag 6: one message per handle listed, sent to socket -1 when nobody    *)
(* has it; nothing at all when the text is empty.                          *)
OneCopyTooMany(s) ==   \* mutant: the loop over the handles runs once too often
  LET msg == NextRequest(owner[s])
      n == Len(msg.dests)
      Copy(i) == LET h == msg.dests[IF i > n THEN n ELSE i] IN
                 Sends(Table!FindSocket(h), [msg EXCEPT !.flag = Message, !.dests = <<h>>])
  IN
  /\ Takes(s, Multicast)
  /\ outbox' = IF msg.text = Empty THEN <<>> ELSE [i \in 1 .. n + 1 |-> Copy(i)]
  /\ UNCHANGED <<status, down, closed, tableVars, pollVars, owner>>

ServeMulticast(s) ==
  LET msg == NextRequest(owner[s])
      Copy(h) == [msg EXCEPT !.flag = Message, !.dests = <<h>>]
  IN
  /\ Takes(s, Multicast)
  /\ outbox' = IF msg.text = Empty THEN <<>>
               ELSE [i \in 1 .. Len(msg.dests) |->
                       Sends(Table!FindSocket(msg.dests[i]), Copy(msg.dests[i]))]
  /\ UNCHANGED <<status, down, closed, tableVars, pollVars, owner>>

(* Flag 10: the count kept by addHandle, then every valid entry in the     *)
(* order of the table, then the end of the list.                           *)
Place(i) == Cardinality({j \in Table!Occupied : j <= i})
EntryAt(k) == CHOOSE i \in Table!Occupied : Place(i) = k

Entries ==
  [k \in 1 .. Cardinality(Table!Occupied) |-> Naming(HandleEntry, table[EntryAt(k)])]

Count == [Pdu(HandleCount) EXCEPT !.number = numValid % 65536]

EntriesOfOthers(s) ==   \* mutant: the client that asks is left out
  LET others == SelectSeq(Entries, LAMBDA m : m.dests # <<table[s]>>)
      pdus == <<Count>> \o others \o <<Pdu(ListEnd)>>
  IN
  /\ Takes(s, List)
  /\ outbox' = [i \in 1 .. Len(pdus) |-> Sends(s, pdus[i])]
  /\ UNCHANGED <<status, down, closed, tableVars, pollVars, owner>>

ServeList(s) ==
  LET pdus == <<Count>> \o Entries \o <<Pdu(ListEnd)>> IN
  /\ Takes(s, List)
  /\ outbox' = [i \in 1 .. Len(pdus) |-> Sends(s, pdus[i])]
  /\ UNCHANGED <<status, down, closed, tableVars, pollVars, owner>>

(* The handle, the poll slot and the descriptor go together.               *)
DisconnectOnly(s) ==   \* mutant: the handle stays in the table
  /\ UNCHANGED <<status, tableVars>>
  /\ Poll!RemoveFromPollSet(s)
  /\ owner' = [owner EXCEPT ![s] = NoClient]
  /\ closed' = closed \cup {owner[s]}

Disconnect(s) ==
  /\ Table!RemoveHandle(s)
  /\ Poll!RemoveFromPollSet(s)
  /\ owner' = [owner EXCEPT ![s] = NoClient]
  /\ closed' = closed \cup {owner[s]}

(* Flag 8: acknowledged first, and disconnected after that.               *)
ExitForgotten(s) ==   \* mutant: only the handle is removed
  /\ Takes(s, Exit)
  /\ Table!RemoveHandle(s)
  /\ UNCHANGED <<down, closed, pollVars, owner, outbox>>

ServeExit(s) ==
  /\ Takes(s, Exit)
  /\ outbox' = <<Sends(s, Pdu(ExitAck))>>
  /\ UNCHANGED <<status, down, closed, tableVars, pollVars, owner>>

(* recvPDU returns 0: the client closed and everything it sent is read, or *)
(* a length that half of a header made small.                              *)
EofIsError(s) ==   \* mutant: a closed connection is taken for a failed recv
  /\ PollReturns(s)
  /\ s \in OpenSockets
  /\ ~Unread(owner[s])
  /\ link[owner[s]] \in {"fin", "half", "rst"}
  /\ status' = "exited"
  /\ UNCHANGED <<netVars, tableVars, pollVars, owner, outbox, stdinHup, limit>>

ServeEof(s) ==
  /\ PollReturns(s)
  /\ s \in OpenSockets
  /\ ~Unread(owner[s])
  /\ link[owner[s]] \in {"fin", "half", "rst"}
  /\ Disconnect(s)
  /\ UNCHANGED <<backlog, up, taken, down, shown, link, outbox, stdinHup, limit>>

(* recvPDU fails and processClient calls exit(-1), or recvPDU exits itself *)
(* because half of a header made a length larger than the buffer.          *)
RecvFails(s) ==
  /\ PollReturns(s)
  /\ \/ s \in OpenSockets /\ link[owner[s]] = "rst"
     \/ s \in OpenSockets /\ ~Unread(owner[s]) /\ link[owner[s]] = "half"
     \/ s \notin OpenSockets \cup {MainSocket, -1}
  /\ status' = "exited"
  /\ UNCHANGED <<netVars, tableVars, pollVars, owner, outbox, stdinHup, limit>>

(* The handler's next send waits while the connection is full.  One that  *)
(* fails is ignored, also that of a multicast to socket -1, unless the     *)
(* SIGPIPE of a reset connection ends the process.                         *)
GivesUp ==   \* mutant: the first send that fails ends the handler
  LET s == Head(outbox).to
      c == owner[s]
  IN
  /\ status = "running"
  /\ outbox # <<>> /\ Head(outbox).pdu # Pdu(ExitAck)
  /\ outbox' = IF s \in OpenSockets THEN Tail(outbox) ELSE <<>>
  /\ \/ /\ s \in OpenSockets /\ link[c] # "rst" /\ ~Full(c)
        /\ down' = [down EXCEPT ![c] = Append(@, Head(outbox).pdu)]
        /\ UNCHANGED status
     \/ /\ s \in OpenSockets /\ link[c] = "rst"
        /\ status' \in {"running", "exited"}
        /\ UNCHANGED down
     \/ /\ s \notin OpenSockets
        /\ UNCHANGED <<status, down>>
  /\ UNCHANGED <<backlog, up, taken, shown, link, closed, tableVars, pollVars, owner,
                 stdinHup, limit>>

SendNext ==
  LET s == Head(outbox).to
      c == owner[s]
  IN
  /\ status = "running"
  /\ outbox # <<>> /\ Head(outbox).pdu # Pdu(ExitAck)
  /\ outbox' = Tail(outbox)
  /\ \/ /\ s \in OpenSockets /\ link[c] # "rst" /\ ~Full(c)
        /\ down' = [down EXCEPT ![c] = Append(@, Head(outbox).pdu)]
        /\ UNCHANGED status
     \/ /\ s \in OpenSockets /\ link[c] = "rst"
        /\ status' \in {"running", "exited"}
        /\ UNCHANGED down
     \/ /\ s \notin OpenSockets
        /\ UNCHANGED <<status, down>>
  /\ UNCHANGED <<backlog, up, taken, shown, link, closed, tableVars, pollVars, owner,
                 stdinHup, limit>>

(* The rest of flag 8; sendFlag exits when the send fails.                 *)
AckExit ==
  LET s == Head(outbox).to
      c == owner[s]
  IN
  /\ status = "running"
  /\ outbox # <<>> /\ Head(outbox).pdu = Pdu(ExitAck)
  /\ outbox' = Tail(outbox)
  /\ \/ /\ link[c] # "rst" /\ ~Full(c)
        /\ down' = [down EXCEPT ![c] = Append(@, Pdu(ExitAck))]
        /\ Disconnect(s)
     \/ /\ link[c] = "rst"
        /\ status' = "exited"
        /\ UNCHANGED <<down, closed, tableVars, pollVars, owner>>
  /\ UNCHANGED <<backlog, up, taken, shown, link, stdinHup, limit>>

Serve(s) ==
  \/ ServeConnect(s)
  \/ ServeMessage(s)
  \/ ServeMulticast(s)
  \/ ServeList(s)
  \/ ServeExit(s)
  \/ ServeEof(s)

ServerStep ==
  \/ Accept \/ AcceptFails
  \/ \E s \in Sockets : Serve(s)
  \/ \E s \in Sockets \cup {Poll!Stdin} : RecvFails(s)
  \/ SendNext \/ AckExit

StdinHangsUp ==
  /\ StdinMayHangUp
  /\ ~stdinHup
  /\ stdinHup' = TRUE
  /\ UNCHANGED <<netVars, status, tableVars, pollVars, owner, outbox, limit>>
=============================================================================
