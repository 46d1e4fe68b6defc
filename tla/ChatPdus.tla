------------------------------ MODULE ChatPdus -----------------------------
(***************************************************************************)
(* The PDUs of the chat of Program2, which both its programs and what is   *)
(* promised of them speak of.                                              *)
(***************************************************************************)
EXTENDS Integers, Sequences

CONSTANTS
  Clients,        \* the client processes
  Handles,        \* the names they may give themselves and each other
  Texts,          \* the message texts users type
  Empty,          \* the text of length 0
  ChunkFlags,     \* ChunkFlags[t]: <<>> for a text of at most 200 characters;
                  \* for a longer one, the first byte of each piece the
                  \* server cuts it into
  TextStart,      \* TextStart[t]: the texts that t begins with
  HandleStart,    \* HandleStart[h]: handles that h begins with
  NoText,         \* the text of a PDU that carries none
  NoClient        \* the sender of a PDU the server makes itself

ASSUME SendersAssumption == NoClient \notin Clients
ASSUME TextsAssumption ==
  /\ Empty \in Texts
  /\ NoText \notin Texts
  /\ ChunkFlags \in [Texts -> Seq(0 .. 255)]
  /\ ChunkFlags[Empty] = <<>>
ASSUME StartsAssumption ==
  /\ TextStart \in [Texts -> SUBSET Texts]
  /\ \A t \in Texts : {t, Empty} \subseteq TextStart[t]
  /\ HandleStart \in [Handles -> SUBSET Handles]

(* The flag in the first byte of a PDU.                                    *)
Connect == 1
Accepted == 2
Refused == 3
Message == 5
Multicast == 6
NoSuchHandle == 7
Exit == 8
ExitAck == 9
List == 10
HandleCount == 11
HandleEntry == 12
ListEnd == 13

(* A PDU with its fields blank.  dests are the handles it names, number    *)
(* the count it announces; by and id name the user input behind a message: *)
(* the client that sent it and the place of the request in up[by].         *)
(* The source handle that a message carries is HandleOf[by].               *)
Pdu(flag) ==
  [flag |-> flag, dests |-> <<>>, text |-> NoText, number |-> 0,
   by |-> NoClient, id |-> 0]

Naming(flag, h) == [Pdu(flag) EXCEPT !.dests = <<h>>]

Pdus ==
  [flag : 0 .. 255, dests : Seq(Handles), text : Texts \cup {NoText},
   number : Nat, by : Clients \cup {NoClient}, id : Nat]

(* A message is relayed as it is; one with a long text is cut in pieces    *)
(* that go out without flag and handles, so that each begins with a byte   *)
(* of the text.                                                            *)
Relayed(msg) ==
  LET flags == ChunkFlags[msg.text] IN
  IF flags = <<>> THEN <<msg>>
  ELSE [i \in 1 .. Len(flags) |-> [msg EXCEPT !.flag = flags[i], !.dests = <<>>]]

(* What recvPDU makes of a PDU of which only the beginning arrives: the    *)
(* text is cut, or all of it is missing and the handle is cut; a multicast *)
(* whose handles are cut says nothing.  A PDU without text has one byte.   *)
Beginnings(m) ==
  IF m.flag \in {Message, Multicast}
  THEN {[m EXCEPT !.text = t] : t \in TextStart[m.text]} \cup
       {[m EXCEPT !.dests = <<h>>, !.text = Empty] :
          h \in IF m.flag = Message THEN HandleStart[m.dests[1]] ELSE {}}
  ELSE {}

(* And what then remains of the stream that ends with it.                  *)
CutLast(stream) ==
  LET n == Len(stream) IN
  {SubSeq(stream, 1, n - 1)} \cup {[stream EXCEPT ![n] = m] : m \in Beginnings(stream[n])}
=============================================================================
