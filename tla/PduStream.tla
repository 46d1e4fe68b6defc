----------------------------- MODULE PduStream -----------------------------
(***************************************************************************)
(* Framing (Program2/pdu.c; Lab2/pdu.c has the same recvPDU): a PDU is two *)
(* bytes with its total length, high byte first, and then its data.  One   *)
(* direction of a TCP connection carries the bytes; the sender's process   *)
(* may end at any of them, the receiver calls recvPDU again and again.     *)
(***************************************************************************)
EXTENDS Integers, Sequences

CONSTANTS
  Base,         \* the number of values of a byte: 256
  MaxData,      \* the most data sendPDU puts in a PDU: 1398
  BufferSize,   \* what the receiver passes to recvPDU
  Payloads,     \* what the sender passes to sendPDU
  Space,        \* how many bytes the connection holds
  EmptyRecvWaits,   \* whether recv of 0 bytes waits until more arrives or the
                \* connection ends (Linux), or returns at once (macOS)
  MayBreak,     \* whether the sender may end in the middle of a PDU and the
                \* connection may be reset
  MaxSends      \* bound of the model: the calls of sendPDU

ASSUME BaseAssumption == Base \in Nat /\ Base >= 2
ASSUME LengthAssumption ==
  /\ MaxData \in Nat /\ MaxData + 2 < Base * Base
  /\ BufferSize \in Nat /\ BufferSize >= MaxData
ASSUME PayloadAssumption == Payloads \subseteq Seq(0 .. Base - 1)
ASSUME SpaceAssumption == Space \in Nat
ASSUME PlatformAssumption == EmptyRecvWaits \in BOOLEAN

VARIABLES
  sent,     \* history: the data handed to sendPDU
  out,      \* the bytes of the running send still to be copied
  wire,     \* the bytes in the connection
  writer,   \* the sender's end: "open", "closed", "cut" inside a PDU, "reset"
  got,      \* history: the data recvPDU returned
  phase,    \* the running recv: "header" or "data"; then how recvPDU ended:
            \* "closed" (0), "failed" (-1) or "exited" (the process ended)
  need,     \* the bytes the running recv waits for
  part      \* those it has

vars == <<sent, out, wire, writer, got, phase, need, part>>
receiverVars == <<got, phase, need, part>>

Byte == 0 .. Base - 1

Init ==
  /\ sent = <<>> /\ out = <<>> /\ wire = <<>> /\ writer = "open"
  /\ got = <<>> /\ phase = "header" /\ need = 2 /\ part = <<>>

----------------------------------------------------------------------------
(* sendPDU                                                                 *)

Truncated(data) == SubSeq(data, 1, IF Len(data) > MaxData THEN MaxData ELSE Len(data))

DataLengthOnly(data) ==   \* mutant: the length field leaves the header out
  LET total == Len(Truncated(data)) IN
  <<(total \div Base) % Base, total % Base>> \o Truncated(data)

Framed(data) ==
  LET total == 2 + Len(Truncated(data)) IN
  <<(total \div Base) % Base, total % Base>> \o Truncated(data)

(* send blocks until the connection has taken the last byte.               *)
SendPDU(data) ==
  /\ writer = "open"
  /\ out = <<>>
  /\ Len(sent) < MaxSends
  /\ sent' = Append(sent, data)
  /\ out' = Framed(data)
  /\ UNCHANGED <<wire, writer, receiverVars>>

Transfer ==
  /\ out # <<>>
  /\ Len(wire) < Space
  /\ wire' = Append(wire, Head(out))
  /\ out' = Tail(out)
  /\ UNCHANGED <<sent, writer, receiverVars>>

(* The sender closes its socket, or its process is killed inside send.     *)
CloseWriter ==
  /\ writer = "open"
  /\ out = <<>> \/ MayBreak
  /\ writer' = IF out = <<>> THEN "closed" ELSE "cut"
  /\ out' = <<>>
  /\ UNCHANGED <<sent, wire, receiverVars>>

(* The connection is reset; what it holds may be lost.                     *)
ResetConnection ==
  /\ MayBreak
  /\ writer # "reset"
  /\ writer' = "reset"
  /\ out' = <<>>
  /\ wire' \in {wire, <<>>}
  /\ UNCHANGED <<sent, receiverVars>>

----------------------------------------------------------------------------
(* recvPDU                                                                 *)

Ended == writer # "open" /\ wire = <<>>

(* A recv with MSG_WAITALL collects bytes until it has all it asked for.   *)
Collect ==
  /\ phase \in {"header", "data"}
  /\ Len(part) < need
  /\ wire # <<>>
  /\ part' = Append(part, Head(wire))
  /\ wire' = Tail(wire)
  /\ UNCHANGED <<sent, out, writer, got, phase, need>>

(* pduLength is 16 bits wide.                                              *)
LengthWithHeader(high, low) == (Base * high + low) % (Base * Base)   \* mutant: no - 2

LengthUnwrapped(high, low) == Base * high + low - 2   \* mutant: pduLength an int

DataLength(high, low) == (Base * high + low - 2) % (Base * Base)

(* The second recv, unless the data would not fit.                         *)
AskForData(n) ==
  \/ /\ n <= BufferSize
     /\ phase' = "data" /\ need' = n /\ part' = <<>>
  \/ /\ n > BufferSize
     /\ phase' = "exited"
     /\ UNCHANGED <<need, part>>

(* Only a return of 0 or less is taken for an error: after one byte of two *)
(* the other byte of the length is whatever the stack held.                *)
ReadLength ==
  /\ phase = "header"
  /\ \/ Len(part) = 2 /\ AskForData(DataLength(part[1], part[2]))
     \/ Len(part) = 1 /\ Ended /\ \E b \in Byte : AskForData(DataLength(part[1], b))
  /\ UNCHANGED <<sent, out, wire, writer, got>>

(* Data cut short by the end of the connection is returned like any other. *)
ReturnData ==
  /\ phase = "data"
  /\ part # <<>>
  /\ Len(part) = need \/ Ended
  /\ got' = Append(got, part)
  /\ phase' = "header" /\ need' = 2 /\ part' = <<>>
  /\ UNCHANGED <<sent, out, wire, writer>>

(* recv returns 0 at the end of the connection, and when asked for nothing,*)
(* then on Linux not before there is something it could have returned.     *)
ReturnClosed ==
  /\ phase \in {"header", "data"}
  /\ part = <<>>
  /\ \/ need = 0 /\ (EmptyRecvWaits => wire # <<>>)
     \/ Ended /\ writer # "reset"
  /\ phase' = "closed"
  /\ UNCHANGED <<sent, out, wire, writer, got, need, part>>

ReturnError ==
  /\ phase \in {"header", "data"}
  /\ part = <<>>
  /\ writer = "reset"
  /\ phase' = "failed"
  /\ UNCHANGED <<sent, out, wire, writer, got, need, part>>

Receive == Collect \/ ReadLength \/ ReturnData \/ ReturnClosed \/ ReturnError

Next ==
  \/ \E data \in Payloads : SendPDU(data)
  \/ Transfer
  \/ CloseWriter
  \/ ResetConnection
  \/ Receive

Spec == Init /\ [][Next]_vars

(* The kernel moves the bytes it has room for; the receiver is a loop that *)
(* does nothing but receive.                                               *)
FairSpec == Spec /\ WF_vars(Transfer) /\ WF_vars(Receive)

----------------------------------------------------------------------------
(* Each variable has its type, and a recv never holds more than it asked.  *)
TypeOK ==
  /\ sent \in Seq(Payloads) /\ out \in Seq(Byte)
  /\ wire \in Seq(Byte) /\ Len(wire) <= Space
  /\ writer \in {"open", "closed", "cut", "reset"}
  /\ got \in Seq(Seq(Byte))
  /\ phase \in {"header", "data", "closed", "failed", "exited"}
  /\ need \in 0 .. Base * Base - 1
  /\ part \in Seq(Byte) /\ Len(part) <= need

(* Framing implements the channel: data arrives whole, in order and once,  *)
(* then the end is told, after a PDU without data only once more is sent   *)
(* or the sender ends.  Wherever the sender breaks off, the receiver never *)
(* loses its place: only what it got last may be short.                    *)
Channel == INSTANCE MessageChannel WITH
  Messages <- {Truncated(d) : d \in Payloads},
  sent <- [i \in DOMAIN sent |-> Truncated(sent[i])],
  sender <- IF writer \in {"open", "closed"} THEN writer ELSE "broken",
  over <- phase \notin {"header", "data"}

ChannelSpec == Channel!Spec

(* recvPDU ends its process over a length only when that length was cut,   *)
(* never over one that sendPDU made.                                       *)
ExitOnlyAfterCut == phase = "exited" => Ended /\ Len(part) = 1
=============================================================================
