------------------------------- MODULE Codec -------------------------------
(***************************************************************************)
(* One text of the chat of Program2 on its way from the line typed after   *)
(* %m or %c to the screens of its addressees: what packs and unpacks it in *)
(* cclient.c and server.c.  Strings are lengths, because every offset is   *)
(* computed from lengths and every fixed buffer bounds one; a part of the  *)
(* text is the place of its first character and their number.  A write     *)
(* past a buffer has no meaning in C and ends the model.                   *)
(***************************************************************************)
EXTENDS Integers, Sequences, Functions

CONSTANTS
  MAXBUF,       \* the buffers of lines and of PDUs: 1400
  MaxData,      \* the most data sendPDU puts in a PDU: 1398
  MAXHANDLE,    \* the buffers of handles: 100
  MaxText,      \* the client's buffer for a text to print, and the server's
                \* for a piece of one: 200
  DestBuffer,   \* the server's buffer for all handles of a multicast: 500
  Requests      \* what is typed: [multi, src, dests, text, control] with the
                \* lengths of the sender's handle, the handles named and the
                \* text; control: whether a piece the server may cut it into
                \* begins with a byte 5, 7 or 12 (ctrl-E, ctrl-G, ctrl-L)

(* A line is read by fgets into MAXBUF bytes: the command, the number of   *)
(* handles of a multicast, each after a space, and the text.               *)
LineLength(r) ==
  2 + (IF r.multi THEN 2 ELSE 0) + Len(r.dests) + SumFunction(r.dests) + 1 + r.text

ASSUME BufferAssumption ==
  /\ {MAXBUF, MaxData, MAXHANDLE, MaxText, DestBuffer} \subseteq Nat
  /\ MaxData = MAXBUF - 2
  /\ 1 < MaxText /\ 0 < MAXHANDLE /\ MAXHANDLE < 256
  /\ 4 + 255 + 255 + MaxText < MaxData   \* a short text, whatever the handles
ASSUME RequestAssumption ==
  \A r \in Requests :
    /\ r.multi \in BOOLEAN /\ r.control \in BOOLEAN
    /\ r.dests \in Seq(1 .. 255)   \* longer ones do not fit the length byte
    /\ Len(r.dests) \in (IF r.multi THEN 2 .. 9 ELSE {1})
    /\ r.src \in 0 .. 255
    /\ r.text \in Nat
    /\ LineLength(r) < MAXBUF

VARIABLES
  request,   \* what was typed
  stage,     \* "typed", "sent", "dropped" or "relayed" by the server, or
             \* "undefined" after a write outside a buffer
  arrived,   \* how many characters of the text the server finds in the PDU
  relayed,   \* the PDUs the server sent, in order
  shown,     \* how many of them have been received
  screen     \* what the last of these made its client print of the line
             \* typed: Nothing when it was a piece

vars == <<request, stage, arrived, relayed, shown, screen>>

(* Each write is the end of what is written and the room there is.         *)
Inside(writes) == \A w \in writes : w[1] <= w[2]

Overrun ==
  /\ stage' = "undefined"
  /\ UNCHANGED <<request, arrived, relayed, shown, screen>>

----------------------------------------------------------------------------
(* packMessage, the same in both programs: flag, length and handle of the  *)
(* source, number of handles, length and handle of the destination, text   *)
(* and its terminator.                                                     *)
TextAt(s, d) == 4 + s + d
PackedWithoutEnd(s, d, t) == TextAt(s, d) + t   \* mutant: no terminator
PackedLength(s, d, t) == TextAt(s, d) + t + 1

(* processMulticast: all handles, each with its length, then the text.     *)
MulticastTextAt(r) == 3 + r.src + Len(r.dests) + SumFunction(r.dests)

Capped(n) == IF n > MaxData THEN MaxData ELSE n   \* sendPDU

(* What is left of the text in a PDU of which MaxData bytes are sent.  The *)
(* server clears its buffer before it receives, so the text ends there.    *)
TextToEnd(at, t) == IF at + t > MaxData THEN MaxData - at ELSE t   \* mutant

TextWithin(at, t) ==
  IF at > MaxData THEN 0 ELSE IF at + t > MaxData THEN MaxData - at ELSE t

Arrives(n) ==
  /\ stage' = "sent"
  /\ arrived' = n
  /\ UNCHANGED <<request, relayed, shown, screen>>

SendMessage ==
  LET s == request.src
      d == request.dests[1]
      t == request.text
  IN
  /\ stage = "typed" /\ ~request.multi
  /\ IF Inside({<<PackedLength(s, d, t), MAXBUF>>})
     THEN Arrives(TextWithin(TextAt(s, d), t))
     ELSE Overrun

SendMulticast ==
  LET at == MulticastTextAt(request) IN
  /\ stage = "typed" /\ request.multi
  /\ IF Inside({<<at + request.text, MAXBUF>>})
     THEN Arrives(TextWithin(at, request.text))
     ELSE Overrun

----------------------------------------------------------------------------
(* The server                                                              *)

Whole(i, length) ==
  [kind |-> "whole", to |-> i, first |-> 1, count |-> arrived, length |-> length]
Piece(first, count, length) ==
  [kind |-> "piece", to |-> 1, first |-> first, count |-> count, length |-> length]
NoSuchHandle(length) ==
  [kind |-> "error", to |-> 0, first |-> 1, count |-> 0, length |-> length]

Relay(pdus) ==
  /\ stage' = "relayed"
  /\ relayed' = pdus
  /\ UNCHANGED <<request, arrived, shown, screen>>

(* getMessageOffset counts the flag, two lengths and the number of handles *)
(* and then one byte more, so that case 5 measures the text, and cuts it,  *)
(* from its second character on.                                           *)
MessageOffset(s, d) == 1 + 1 + s + 1 + 1 + d + 1

(* messageLent: strlen from there, which finds the cleared end of the      *)
(* buffer when the text is empty, and the terminator.                      *)
MessageLent(s, d) ==
  LET skipped == MessageOffset(s, d) - TextAt(s, d) IN
  (IF arrived < skipped THEN 0 ELSE arrived - skipped) + 1

(* The pieces of a long text: 199 bytes each and one more, set to 0; the   *)
(* last has the terminator among its bytes.                                *)
PiecesOf(s, d, chunk) ==
  LET total == MessageLent(s, d)
      Size(i) == IF i * chunk < total THEN chunk ELSE total - (i - 1) * chunk
      Chars(i) == IF i * chunk < total THEN chunk ELSE Size(i) - 1
      skipped == MessageOffset(s, d) - TextAt(s, d)
  IN [i \in 1 .. (total + chunk - 1) \div chunk |->
        Piece(1 + skipped + (i - 1) * chunk, Chars(i), Size(i) + 1)]

WholePieces(s, d) ==   \* mutant: stops when less than a whole piece is left
  SubSeq(PiecesOf(s, d, MaxText - 1), 1, MessageLent(s, d) \div (MaxText - 1))
FullPieces(s, d) == PiecesOf(s, d, MaxText)   \* mutant: no room left for the 0
Pieces(s, d) == PiecesOf(s, d, MaxText - 1)

(* extractDestHandle, which terminates the handle after its last byte, and *)
(* sendErrorPacket, made whether the handle is known or not.               *)
ServeMessage ==
  LET s == request.src
      d == request.dests[1]
      long == MessageLent(s, d) > MaxText
      pieces == Pieces(s, d)
      writes == {<<d + 1, MAXHANDLE>>, <<d + 3, MAXBUF>>}
  IN
  /\ stage = "sent" /\ ~request.multi
  /\ IF Inside(writes)
     THEN \/ Relay(<<NoSuchHandle(d + 2 + 2)>>)
          \/ ~long /\ Relay(<<Whole(1, Capped(PackedLength(s, d, request.text)))>>)
          \/ /\ long
             /\ IF Inside({<<pieces[i].length, MaxText>> : i \in DOMAIN pieces})
                THEN Relay(pieces)
                ELSE Overrun
     ELSE Overrun

(* unpackMulticast copies the handles, each with its length, and packs the *)
(* text anew for each of them; an empty text is dropped, and so are the    *)
(* copies for handles nobody has.                                          *)
Kept(copies, known) ==
  LET sent[i \in 0 .. Len(copies)] ==
        IF i = 0 THEN <<>>
        ELSE IF i \in known THEN Append(sent[i - 1], copies[i])
        ELSE sent[i - 1]
  IN sent[Len(copies)]

HandleWrites(dests) ==
  {<<SumFunction(dests) + Len(dests), DestBuffer>>} \cup
  {<<dests[i] + 1, MAXHANDLE>> : i \in DOMAIN dests}

ServeMulticast ==
  LET dests == request.dests
      Packed(i) == PackedLength(request.src, dests[i], arrived)
      writes == {<<request.src + 1, MAXHANDLE>>} \cup HandleWrites(dests)
                \cup {<<Packed(i), MAXBUF>> : i \in DOMAIN dests}
  IN
  /\ stage = "sent" /\ request.multi
  /\ IF ~Inside(writes) THEN Overrun
     ELSE IF arrived = 0
     THEN stage' = "dropped" /\ UNCHANGED <<request, arrived, relayed, shown, screen>>
     ELSE \E known \in SUBSET DOMAIN dests :
            Relay(Kept([i \in DOMAIN dests |-> Whole(i, Capped(Packed(i)))], known))

----------------------------------------------------------------------------
(* processMsgFromServer                                                    *)

Nothing == [src |-> 0, first |-> 0, count |-> 0, ends |-> TRUE]

(* printf goes on after the characters copied until it finds a 0: neither  *)
(* buffer is cleared before the copy or terminated after it.               *)
Printed(src, first, count) ==
  /\ \E ends \in BOOLEAN :
       screen' = [src |-> src, first |-> first, count |-> count, ends |-> ends]
  /\ shown' = shown + 1
  /\ UNCHANGED <<request, stage, arrived, relayed>>

NextPdu == relayed[shown + 1]

Receives(kind) ==
  /\ stage = "relayed"
  /\ shown < Len(relayed)
  /\ NextPdu.kind = kind

(* Flag 5: extractSrcHandle counts up to the text, extractMessage copies   *)
(* it from there to its end.                                               *)
AfterLengths(s, d) == 1 + 1 + s + 1 + d   \* mutant: the number of handles left out
ExtractOffset(s, d) == 1 + 1 + s + 1 + 1 + d

ShowMessage ==
  LET s == request.src
      d == request.dests[NextPdu.to]
      skipped == ExtractOffset(s, d) - TextAt(s, d)
      count == NextPdu.count - skipped
  IN
  /\ Receives("whole")
  /\ IF Inside({<<s + 1, MAXHANDLE>>, <<count, MaxText>>})
     THEN Printed(s, NextPdu.first + skipped, count)
     ELSE Overrun

(* Flag 7: extractErrorHandle, which does not terminate the handle.        *)
ShowError ==
  /\ Receives("error")
  /\ IF Inside({<<request.dests[1], MAXHANDLE>>})
     THEN Printed(request.dests[1], 1, 0)
     ELSE Overrun

(* A piece has no flag and no handles: its first byte is taken for the     *)
(* flag, and of a PDU with a handle the second for the length n of that.   *)
(* The text of flag 5 then goes on to the next 0 in a buffer that is not   *)
(* cleared, within the room there is or beyond it.  (Flags 3 and 9 end the *)
(* client, as ChatSystem has it, the others write to no buffer.)           *)
Mistaken(n) ==
  {{<<n + 1, MAXHANDLE>>, <<count, MaxText>>} : count \in {MaxText, MaxText + 1}}   \* 5
  \cup {{<<n, MAXHANDLE>>}}            \* 7
  \cup {{<<n + 1, MAXHANDLE + 1>>}}    \* 12

MistakePiece ==
  /\ Receives("piece")
  /\ \/ /\ shown' = shown + 1
        /\ screen' = Nothing
        /\ UNCHANGED <<request, stage, arrived, relayed>>
     \/ /\ request.control
        /\ \E n \in 0 .. 255 : \E writes \in Mistaken(n) : ~Inside(writes)
        /\ Overrun

----------------------------------------------------------------------------
Init ==
  /\ request \in Requests
  /\ stage = "typed"
  /\ arrived = 0
  /\ relayed = <<>> /\ shown = 0 /\ screen = Nothing

Next ==
  \/ SendMessage \/ SendMulticast
  \/ ServeMessage \/ ServeMulticast
  \/ ShowMessage \/ ShowError \/ MistakePiece

Spec == Init /\ [][Next]_vars

----------------------------------------------------------------------------
(* What travels and what is shown are lengths and places in the text.      *)
TypeOK ==
  /\ request \in Requests
  /\ stage \in {"typed", "sent", "dropped", "relayed", "undefined"}
  /\ arrived \in 0 .. request.text
  /\ shown \in 0 .. Len(relayed)
  /\ relayed \in Seq([kind : {"whole", "piece", "error"}, to : Nat, first : Nat \ {0},
                      count : Nat, length : 1 .. MaxData])
  /\ screen \in [src : Nat, first : Nat, count : Nat, ends : BOOLEAN]

(* As long as handles have less than 100 characters, those of a multicast  *)
(* fit 500 bytes with their lengths, a multicast has at most 200           *)
(* characters, line and handle together fit a PDU, and no piece of a text  *)
(* begins with a byte that stands for a PDU with a handle, nothing is      *)
(* written outside a buffer, in the three functions that pack, the five    *)
(* that unpack and on any of the three hops.                               *)
WithinLimits(r) ==
  /\ r.src < MAXHANDLE
  /\ \A i \in DOMAIN r.dests : r.dests[i] < MAXHANDLE
  /\ r.multi => SumFunction(r.dests) + Len(r.dests) <= DestBuffer /\ r.text <= MaxText
  /\ r.src + LineLength(r) < MAXBUF
  /\ r.control => r.text <= MaxText

StaysInside == WithinLimits(request) => stage # "undefined"

(* What is printed begins with the sender and the text, from its first     *)
(* character to the last that arrived, for every text that is not cut in   *)
(* pieces: neither the handles before it nor a shift are taken for text.   *)
(* It does not say that nothing follows, which the code does not ensure    *)
(* for any text (ends of screen).                                          *)
ShownAsTyped ==
  \A i \in 1 .. shown :
    LET pdu == relayed[i] IN
    i = shown /\ pdu.kind = "whole" =>
      /\ screen.src = request.src
      /\ screen.first = 1
      /\ screen.count = (IF WithinLimits(request) THEN request.text ELSE arrived)

(* The terminator of a relayed text is in its PDU, also where the server   *)
(* packs it anew: the client, which does not clear its buffer, finds the   *)
(* end of the text there and nothing of an earlier PDU.                    *)
EndTravels ==
  \A i \in DOMAIN relayed :
    relayed[i].kind = "whole" =>
      TextAt(request.src, request.dests[relayed[i].to]) + relayed[i].count < relayed[i].length

(* The pieces of a long text are the text to its end: in order, with no    *)
(* gap and nothing twice, each in a buffer of 200 bytes, and without more  *)
(* than the first character that getMessageOffset skips.                   *)
PiecesMakeTheRest ==
  relayed # <<>> /\ relayed[1].kind = "piece" =>
    /\ relayed[1].first <= 2
    /\ \A i \in DOMAIN relayed :
         /\ relayed[i].length <= MaxText
         /\ i > 1 => relayed[i].first = relayed[i - 1].first + relayed[i - 1].count
    /\ LET last == relayed[Len(relayed)] IN last.first + last.count - 1 = arrived
=============================================================================
