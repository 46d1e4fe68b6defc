----------------------------- MODULE ChatClient ----------------------------
(***************************************************************************)
(* The chat client (Program2/cclient.c): it connects, registers the handle *)
(* of its command line and then alternates between what its user types and *)
(* what the server sends, one of each per turn of its poll loop.           *)
(***************************************************************************)
EXTENDS ChatNet

CONSTANTS
  DestLists,   \* the lists of handles users type after %c
  MaxSends,    \* bound of the model: MaxSends[c] PDUs from client c
  MayQuit,     \* bound of the model: the clients that may be killed
  HupOnEof     \* whether poll reports POLLHUP for a connection the server
               \* closed: it does on macOS, on Linux only after a reset

(* processMulticast requires 2 to 9 handles.                               *)
ASSUME DestListsAssumption ==
  \A d \in DestLists : d \in Seq(Handles) /\ Len(d) \in 2 .. 9

VARIABLES
  proc   \* proc[c]: "idle", "connected", "looping" or "gone"

CanType(c) ==
  /\ proc[c] = "looping" /\ ~InSend(c)
  /\ c \notin closed /\ status = "running"
  /\ Len(up[c]) < MaxSends[c]

(* sendPDU on the client's side.                                           *)
Put(c, pdu) ==
  /\ up' = [up EXCEPT ![c] = Append(@, [pdu EXCEPT !.by = c, !.id = Len(up[c]) + 1])]
  /\ UNCHANGED <<backlog, taken, down, shown, link, closed>>

(* The process ends and its socket is closed: PDUs it has not read make    *)
(* the close a reset.                                                      *)
Leave(c) ==
  /\ proc' = [proc EXCEPT ![c] = "gone"]
  /\ link' = [link EXCEPT ![c] =
                IF @ = "none" THEN @ ELSE IF shown'[c] < Len(down[c]) THEN "rst" ELSE "fin"]

----------------------------------------------------------------------------
(* tcpClientSetup; it exits when nobody listens.                           *)
ConnectToServer(c) ==
  /\ proc[c] = "idle"
  /\ \/ /\ status = "running"
        /\ proc' = [proc EXCEPT ![c] = "connected"]
        /\ link' = [link EXCEPT ![c] = "open"]
        /\ backlog' = Append(backlog, c)
     \/ /\ status # "running"
        /\ proc' = [proc EXCEPT ![c] = "gone"]
        /\ UNCHANGED <<link, backlog>>
  /\ UNCHANGED <<up, taken, down, shown, closed>>

(* connectToServer: a handle that is too long is only complained about,    *)
(* and the client goes on without having registered.                       *)
Register(c) ==
  /\ proc[c] = "connected"
  /\ proc' = [proc EXCEPT ![c] = "looping"]
  /\ IF HandleOf[c] \in LongHandles \/ status # "running"
     THEN UNCHANGED netVars
     ELSE Put(c, Naming(Connect, HandleOf[c]))

TypeMessage(c) ==
  /\ CanType(c)
  /\ \E h \in Handles, t \in Texts :
       Put(c, [Naming(Message, h) EXCEPT !.text = t])
  /\ UNCHANGED proc

TypeMulticast(c) ==
  /\ CanType(c)
  /\ \E d \in DestLists, t \in Texts :
       Put(c, [Pdu(Multicast) EXCEPT !.dests = d, !.text = t])
  /\ UNCHANGED proc

TypeList(c) == CanType(c) /\ Put(c, Pdu(List)) /\ UNCHANGED proc

(* %e sends flag 8; the client leaves when the server acknowledges it.     *)
TypeExit(c) == CanType(c) /\ Put(c, Pdu(Exit)) /\ UNCHANGED proc

(* processMsgFromServer: only a refusal and the acknowledgement of an exit *)
(* end the process, every other flag is printed.                           *)
Receive(c) ==
  /\ proc[c] = "looping" /\ ~InSend(c)
  /\ Unshown(c)
  /\ shown' = [shown EXCEPT ![c] = @ + 1]
  /\ IF down[c][shown[c] + 1].flag \in {Refused, ExitAck}
     THEN Leave(c)
     ELSE UNCHANGED <<proc, link>>
  /\ UNCHANGED <<backlog, up, taken, down, closed>>

(* The server closed its end.  The turn of the loop that sees POLLHUP      *)
(* still takes one PDU if there is one, unless a reset discarded it; then  *)
(* the client leaves, whatever else it has not read.                       *)
SeeOnlyResets(c) ==   \* mutant: only POLLERR is looked at
  /\ proc[c] = "looping"
  /\ c \in closed \/ status # "running"
  /\ Unread(c) \/ link[c] = "rst"
  /\ UNCHANGED shown
  /\ Leave(c)
  /\ UNCHANGED <<backlog, up, taken, down, closed>>

SeeServerGone(c) ==
  LET reset == Unread(c) \/ link[c] = "rst" IN
  /\ proc[c] = "looping"
  /\ c \in closed \/ status # "running"
  /\ HupOnEof \/ reset
  /\ \/ Unshown(c) /\ shown' = [shown EXCEPT ![c] = @ + 1]
     \/ (reset \/ ~Unshown(c)) /\ UNCHANGED shown
  /\ Leave(c)
  /\ UNCHANGED <<backlog, up, taken, down, closed>>

(* End of the user's input, or a signal.                                   *)
Quit(c) ==
  /\ c \in MayQuit
  /\ proc[c] \in {"connected", "looping"} /\ ~InSend(c)
  /\ UNCHANGED shown
  /\ Leave(c)
  /\ UNCHANGED <<backlog, up, taken, down, closed>>

(* A signal ends send: of the last PDU nothing has reached the connection, *)
(* one byte of its header, the header, or a beginning of what it carries.  *)
KilledInSend(c) ==
  /\ c \in MayQuit
  /\ proc[c] = "looping" /\ InSend(c)
  /\ UNCHANGED shown
  /\ \/ Leave(c) /\ \E rest \in CutLast(up[c]) : up' = [up EXCEPT ![c] = rest]
     \/ /\ ~Unshown(c)
        /\ proc' = [proc EXCEPT ![c] = "gone"]
        /\ link' = [link EXCEPT ![c] = "half"]
        /\ up' = [up EXCEPT ![c] = SubSeq(@, 1, Len(@) - 1)]
  /\ UNCHANGED <<backlog, taken, down, closed>>

ClientStep(c) ==
  \/ ConnectToServer(c)
  \/ Register(c)
  \/ TypeMessage(c)
  \/ TypeMulticast(c)
  \/ TypeList(c)
  \/ TypeExit(c)
  \/ Receive(c)
  \/ SeeServerGone(c)
  \/ Quit(c)
  \/ KilledInSend(c)

(* What a client does without its user.                                    *)
ClientReacts(c) == Register(c) \/ Receive(c) \/ SeeServerGone(c)
=============================================================================
