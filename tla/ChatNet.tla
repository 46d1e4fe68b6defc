------------------------------ MODULE ChatNet ------------------------------
(***************************************************************************)
(* What the chat client and the chat server of Program2 share: one TCP     *)
(* connection per client.  It is two streams that keep every PDU sent and  *)
(* two counters that say how much of them has been read, so the streams    *)
(* are the history of the run.                                             *)
(* Arrival is immediate: a PDU that travels is one that is sent later.     *)
(***************************************************************************)
EXTENDS ChatPdus

CONSTANTS
  HandleOf,       \* HandleOf[c]: the handle in argv[3] of client c
  LongHandles,    \* the handles of more than 100 characters
  Room            \* the PDUs one direction of a connection holds: the buffers
                  \* of both its sockets

ASSUME NamesAssumption ==
  /\ HandleOf \in [Clients -> Handles]
  /\ LongHandles \subseteq Handles
ASSUME RoomAssumption == Room \in Nat \ {0}

VARIABLES
  backlog,   \* the clients connected and not accepted yet, oldest first
  up,        \* up[c]: every PDU client c sent, the last one as far as it
             \* reached the connection
  taken,     \* taken[c]: how many of them the server has received
  down,      \* down[c]: every PDU the server sent to client c
  shown,     \* shown[c]: how many of them the client has received
  link,      \* link[c]: the client's end: "none" before connect, "open",
             \* "fin" once closed, "half" when the last that was sent is
             \* one byte of a header, "rst" once closed with data unread
  closed,    \* the clients whose connection the server has closed
  status     \* the server process: "running", "exited" or "undefined"

netVars == <<backlog, up, taken, down, shown, link, closed>>

----------------------------------------------------------------------------
Unread(c) == taken[c] < Len(up[c])
Unshown(c) == shown[c] < Len(down[c])
NextRequest(c) == up[c][taken[c] + 1]

(* send blocks while the connection is full.  The client's last PDU counts *)
(* as sent while it is in send; the server's waits in its outbox.          *)
InSend(c) == Len(up[c]) - taken[c] > Room /\ c \notin closed /\ status = "running"
Full(c) == Len(down[c]) - shown[c] >= Room /\ link[c] = "open"

NetInit ==
  /\ backlog = <<>>
  /\ up = [c \in Clients |-> <<>>]
  /\ taken = [c \in Clients |-> 0]
  /\ down = [c \in Clients |-> <<>>]
  /\ shown = [c \in Clients |-> 0]
  /\ link = [c \in Clients |-> "none"]
  /\ closed = {}

NetTypeOK ==
  /\ backlog \in Seq(Clients)
  /\ up \in [Clients -> Seq(Pdus)]
  /\ taken \in [Clients -> Nat]
  /\ down \in [Clients -> Seq(Pdus)]
  /\ shown \in [Clients -> Nat]
  /\ link \in [Clients -> {"none", "open", "fin", "half", "rst"}]
  /\ closed \subseteq Clients

(* A client closed in good order and the server has sent to it since: the  *)
(* client's kernel answers with a reset.                                   *)
LateReset(c) ==
  /\ link[c] \in {"fin", "half"}
  /\ c \notin closed
  /\ Unshown(c)
  /\ link' = [link EXCEPT ![c] = "rst"]
  /\ UNCHANGED <<backlog, up, taken, down, shown, closed>>
=============================================================================
