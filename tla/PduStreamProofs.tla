-------------------------- MODULE PduStreamProofs --------------------------
(***************************************************************************)
(* For every base, buffer, payload and capacity of the connection: the     *)
(* receiver never loses its place, so that framing implements the channel  *)
(* (MessageChannel) as far as safety goes, and no length that sendPDU made *)
(* ends the receiver's process.                                            *)
(*                                                                         *)
(* The argument numbers the bytes of the stream from its beginning.  There *)
(* is a function start that tells how many bytes precede each message, and *)
(* a number of bytes the receiver has taken; Placed says that every byte in*)
(* the connection is the one the framing puts at its number, and that the  *)
(* receiver's part is cut from the message it waits for.                   *)
(***************************************************************************)
EXTENDS PduStream, SequenceTheorems, TLAPS

----------------------------------------------------------------------------
(* Framing                                                                 *)

(* A number is its quotient and its rest.                                  *)
LEMMA QuotientAndRest ==
  ASSUME NEW b \in Int, b > 0, NEW n \in Int
  PROVE  n = b * (n \div b) + (n % b)
OBVIOUS

(* A digit of a number smaller than the square of the base.                *)
LEMMA Digits ==
  ASSUME NEW total \in Nat, total < Base * Base
  PROVE  /\ (total \div Base) % Base = total \div Base
         /\ total \div Base \in Byte
         /\ total % Base \in Byte
         /\ total = Base * (total \div Base) + (total % Base)
<1>1. Base \in Nat /\ Base >= 2
  BY BaseAssumption
<1>2. total \div Base < Base /\ total \div Base \in Nat
  BY <1>1
<1>3. (total \div Base) % Base = total \div Base
  BY <1>1, <1>2
<1>4. total % Base \in Nat /\ total % Base < Base
  BY <1>1
<1>5. total = Base * (total \div Base) + (total % Base)
  <2>1. Base \in Int /\ Base > 0 /\ total \in Int
    BY <1>1
  <2> QED
    BY <2>1, QuotientAndRest
<1> QED
  BY <1>1, <1>2, <1>3, <1>4, <1>5 DEF Byte

(* What sendPDU puts in a PDU: as much of the data as it may.              *)
LEMMA TruncatedShape ==
  ASSUME NEW d \in Payloads
  PROVE  /\ Truncated(d) \in Seq(Byte)
         /\ Len(Truncated(d)) \in Nat
         /\ Len(Truncated(d)) <= MaxData
<1>1. d \in Seq(Byte) /\ MaxData \in Nat
  BY PayloadAssumption, LengthAssumption DEF Byte
<1>2. CASE Len(d) > MaxData
  <2>1. Truncated(d) = SubSeq(d, 1, MaxData)
    BY <1>2 DEF Truncated
  <2>2. /\ SubSeq(d, 1, MaxData) \in Seq(Byte)
        /\ Len(SubSeq(d, 1, MaxData)) = MaxData
    <3>1. \A i \in 1 .. MaxData : d[i] \in Byte
      BY <1>1, <1>2
    <3> QED
      BY <1>1, <1>2, <3>1
  <2> QED
    BY <1>1, <2>1, <2>2
<1>3. CASE ~(Len(d) > MaxData)
  <2>1. Truncated(d) = SubSeq(d, 1, Len(d))
    BY <1>3 DEF Truncated
  <2>2. SubSeq(d, 1, Len(d)) = d
    BY <1>1
  <2> QED
    BY <1>1, <1>3, <2>1, <2>2
<1> QED
  BY <1>2, <1>3

(* Two bytes of length, then the data.                                     *)
LEMMA FramedShape ==
  ASSUME NEW d \in Payloads
  PROVE  /\ Framed(d) \in Seq(Byte)
         /\ Len(Framed(d)) = 2 + Len(Truncated(d))
         /\ \A j \in 1 .. Len(Truncated(d)) : Framed(d)[2 + j] = Truncated(d)[j]
         /\ DataLength(Framed(d)[1], Framed(d)[2]) = Len(Truncated(d))
<1> DEFINE t == Truncated(d)
           total == 2 + Len(t)
<1>1. t \in Seq(Byte) /\ Len(t) \in Nat /\ Len(t) <= MaxData
  BY TruncatedShape
<1>2. total \in Nat /\ total < Base * Base /\ Base * Base \in Nat
  BY <1>1, LengthAssumption, BaseAssumption
<1>3. Framed(d) = <<(total \div Base) % Base, total % Base>> \o t
  BY DEF Framed
<1> HIDE DEF t, total
<1>4. /\ (total \div Base) % Base = total \div Base
      /\ total \div Base \in Byte
      /\ total % Base \in Byte
      /\ total = Base * (total \div Base) + (total % Base)
  BY <1>2, Digits
<1>5. Framed(d) = <<total \div Base, total % Base>> \o t
  BY <1>3, <1>4
<1>6. /\ Framed(d) \in Seq(Byte)
      /\ Len(Framed(d)) = 2 + Len(t)
      /\ \A j \in 1 .. Len(t) : Framed(d)[2 + j] = t[j]
      /\ Framed(d)[1] = total \div Base
      /\ Framed(d)[2] = total % Base
  BY <1>1, <1>4, <1>5
<1>7. DataLength(total \div Base, total % Base) = (total - 2) % (Base * Base)
  <2>1. DataLength(total \div Base, total % Base)
          = (Base * (total \div Base) + (total % Base) - 2) % (Base * Base)
    BY DEF DataLength
  <2>2. Base * (total \div Base) + (total % Base) - 2 = total - 2
    BY <1>2, <1>4, BaseAssumption DEF Byte
  <2> QED
    BY <2>1, <2>2
<1>8. (total - 2) % (Base * Base) = total - 2
  <2>1. total - 2 \in Nat /\ total - 2 < Base * Base
    BY <1>1, <1>2 DEF total
  <2> QED
    BY <1>2, <2>1
<1>9. total - 2 = Len(t)
  BY <1>1 DEF total
<1> QED
  BY <1>6, <1>7, <1>8, <1>9 DEF t

----------------------------------------------------------------------------
(* The inductive invariant                                                 *)

Size(d) == 2 + Len(Truncated(d))

(* start[i] bytes precede message i.                                       *)
Starts(start) ==
  /\ start \in [1 .. Len(sent) + 1 -> Nat]
  /\ start[1] = 0
  /\ \A i \in 1 .. Len(sent) : start[i + 1] = start[i] + Size(sent[i])
  /\ \A i \in 1 .. Len(sent), j \in 1 .. Len(sent) + 1 : i < j => start[i + 1] <= start[j]

(* The sender copies the end of the last message.                          *)
OutInv ==
  out # <<>> =>
    /\ writer = "open"
    /\ sent # <<>>
    /\ Len(out) <= Size(sent[Len(sent)])
    /\ \A j \in 1 .. Len(out) :
         out[j] = Framed(sent[Len(sent)])[Size(sent[Len(sent)]) - Len(out) + j]

(* The bytes in the connection are those after the first r; what was       *)
(* written and not broken off is all there.                                *)
WireInv(start, r) ==
  /\ \A q \in 1 .. Len(wire), i \in 1 .. Len(sent) : \A j \in 1 .. Size(sent[i]) :
       start[i] + j = r + q => wire[q] = Framed(sent[i])[j]
  /\ r + Len(wire) + Len(out) <= start[Len(sent) + 1]
  /\ writer \in {"open", "closed"} => r + Len(wire) + Len(out) = start[Len(sent) + 1]

(* The receiver has the messages before, and the beginning of the next.    *)
ReceiverInv(start, r) ==
  /\ Len(got) <= Len(sent)
  /\ \A i \in 1 .. Len(got) : got[i] = Truncated(sent[i])
  /\ phase = "header" =>
       /\ need = 2
       /\ r = start[Len(got) + 1] + Len(part)
       /\ Len(got) < Len(sent) =>
            \A j \in 1 .. Len(part) : part[j] = Framed(sent[Len(got) + 1])[j]
  /\ phase = "data" =>
       /\ Len(got) < Len(sent)
       /\ need = Len(Truncated(sent[Len(got) + 1]))
       /\ r = start[Len(got) + 1] + 2 + Len(part)
       /\ \A j \in 1 .. Len(part) : part[j] = Truncated(sent[Len(got) + 1])[j]

Placed(start, r) == Starts(start) /\ WireInv(start, r) /\ ReceiverInv(start, r)

(* After a sender that broke off the receiver has only the end to report.  *)
Broken == writer \in {"cut", "reset"} /\ wire = <<>> /\ part = <<>>

Receiving == phase \in {"header", "data"}

PlaceInv == Receiving => Broken \/ \E start \in [1 .. Len(sent) + 1 -> Nat], r \in Nat : Placed(start, r)

IInv == TypeOK /\ OutInv /\ PlaceInv /\ ExitOnlyAfterCut

----------------------------------------------------------------------------
(* Consequences of the numbering                                           *)

(* How long a message of the history is, and that its type is known.       *)
LEMMA SentShape ==
  ASSUME TypeOK, NEW i \in 1 .. Len(sent)
  PROVE  /\ sent[i] \in Payloads
         /\ Size(sent[i]) \in Nat /\ Size(sent[i]) >= 2
         /\ Size(sent[i]) = 2 + Len(Truncated(sent[i]))
         /\ Size(sent[i]) = Len(Framed(sent[i]))
         /\ Len(Truncated(sent[i])) \in Nat
<1>1. sent[i] \in Payloads
  BY DEF TypeOK
<1> QED
  BY <1>1, TruncatedShape, FramedShape DEF Size

(* Where a received part may come from.                                    *)
LEMMA PartIsOfAMessage ==
  ASSUME TypeOK, Receiving,
         NEW start \in [1 .. Len(sent) + 1 -> Nat], NEW r \in Nat, Placed(start, r)
  PROVE  /\ Len(got) \in Nat /\ Len(sent) \in Nat /\ Len(got) + 1 \in 1 .. Len(sent) + 1
         /\ wire # <<>> \/ part # <<>> => Len(got) < Len(sent)
         /\ Len(got) < Len(sent) =>
              /\ start[Len(got) + 2] = start[Len(got) + 1] + Size(sent[Len(got) + 1])
              /\ start[Len(got) + 2] <= start[Len(sent) + 1]
<1> DEFINE k == Len(got)
           N == Len(sent)
<1>1. k \in Nat /\ N \in Nat /\ k <= N /\ Len(wire) \in Nat /\ Len(out) \in Nat /\ Len(part) \in Nat
  BY DEF Placed, ReceiverInv, TypeOK
<1>2. k < N => /\ start[k + 2] = start[k + 1] + Size(sent[k + 1])
               /\ start[k + 2] <= start[N + 1]
  <2> SUFFICES ASSUME k < N
               PROVE  /\ start[k + 2] = start[k + 1] + Size(sent[k + 1])
                      /\ start[k + 2] <= start[N + 1]
    OBVIOUS
  <2>1. start[(k + 1) + 1] = start[k + 1] + Size(sent[k + 1])
    BY <1>1 DEF Placed, Starts
  <2>2. k + 1 = N \/ start[(k + 1) + 1] <= start[N + 1]
    BY <1>1 DEF Placed, Starts
  <2>3. (k + 1) + 1 = k + 2 /\ start[k + 2] \in Nat
    BY <1>1
  <2> QED
    BY <1>1, <2>1, <2>2, <2>3
<1>3. wire # <<>> \/ part # <<>> => k < N
  <2> SUFFICES ASSUME wire # <<>> \/ part # <<>>, k = N PROVE FALSE
    BY <1>1
  <2>1. phase = "header" /\ r = start[N + 1] + Len(part)
    BY <1>1 DEF Placed, ReceiverInv, Receiving
  <2>2. r + Len(wire) + Len(out) <= start[N + 1]
    BY DEF Placed, WireInv
  <2>3. Len(wire) > 0 \/ Len(part) > 0
    BY DEF TypeOK
  <2>4. start[N + 1] \in Nat
    BY <1>1
  <2> QED
    BY <1>1, <2>1, <2>2, <2>3, <2>4
<1> QED
  BY <1>1, <1>2, <1>3

(* A message that ends early was broken off by its sender.                 *)
LEMMA ShortMeansBroken ==
  ASSUME TypeOK, OutInv, Receiving, Ended, part # <<>>, Len(part) < need,
         NEW start \in [1 .. Len(sent) + 1 -> Nat], NEW r \in Nat, Placed(start, r)
  PROVE  writer \in {"cut", "reset"}
<1> DEFINE k == Len(got)
           N == Len(sent)
<1>1. SUFFICES ASSUME writer = "closed", out = <<>> PROVE FALSE
  <2>1. out = <<>>
    BY DEF Ended, OutInv
  <2> QED
    BY <2>1 DEF Ended, TypeOK
<1>2. k \in Nat /\ N \in Nat /\ k < N /\ Len(part) \in Nat /\ need \in Int
  BY PartIsOfAMessage DEF TypeOK
<1>3. start[k + 2] = start[k + 1] + Size(sent[k + 1]) /\ start[k + 2] <= start[N + 1]
  BY <1>2, PartIsOfAMessage
<1>4. r = start[N + 1]
  BY <1>1 DEF Placed, WireInv, Ended
<1>5. r < start[k + 1] + Size(sent[k + 1])
  <2>1. start[k + 1] \in Nat
    BY <1>2
  <2>2. Size(sent[k + 1]) >= 2 /\ Size(sent[k + 1]) = 2 + Len(Truncated(sent[k + 1]))
        /\ Len(Truncated(sent[k + 1])) \in Nat
    BY <1>2, SentShape
  <2> QED
    BY <1>2, <2>1, <2>2 DEF Placed, ReceiverInv, Receiving
<1>6. start[k + 2] \in Nat /\ start[N + 1] \in Nat
  BY <1>2
<1> QED
  BY <1>3, <1>4, <1>5, <1>6

----------------------------------------------------------------------------
(* Types                                                                   *)

(* Two bytes of any value give a length that fits 16 bits.                 *)
LEMMA LengthFits ==
  ASSUME NEW high \in Byte, NEW low \in Byte
  PROVE  DataLength(high, low) \in 0 .. Base * Base - 1
<1>1. Base \in Nat /\ Base >= 2 /\ high \in Nat /\ low \in Nat
  BY BaseAssumption DEF Byte
<1>2. Base * Base \in Nat /\ Base * Base > 0 /\ Base * high + low - 2 \in Int
  BY <1>1
<1> DEFINE square == Base * Base
           length == Base * high + low - 2
<1>3. square \in Nat /\ square > 0 /\ length \in Int
  BY <1>2
<1> HIDE DEF square, length
<1>4. length % square \in 0 .. square - 1
  BY <1>3
<1> QED
  BY <1>4 DEF DataLength, square, length

(* The types are kept by every step.                                       *)
LEMMA TypeKeeps == TypeOK /\ [Next]_vars => TypeOK'
<1> SUFFICES ASSUME TypeOK, [Next]_vars PROVE TypeOK'
  OBVIOUS
<1> USE DEF TypeOK, receiverVars
<1>1. /\ Space \in Nat /\ Base \in Nat /\ Base >= 2 /\ 2 \in 0 .. Base * Base - 1
      /\ <<>> \in Seq(Byte) /\ Len(<<>>) = 0
      /\ \A i \in 1 .. Len(part) : part[i] \in Byte
  <2>1. Base \in Nat /\ Base >= 2
    BY BaseAssumption
  <2>2. Base * Base >= 2 * Base /\ Base * Base \in Nat
    BY <2>1
  <2> QED
    BY <2>1, <2>2, SpaceAssumption
<1>2. ASSUME NEW data \in Payloads, SendPDU(data) PROVE TypeOK'
  <2>1. Append(sent, data) \in Seq(Payloads)
    BY AppendProperties
  <2> QED
    BY <1>2, <2>1, FramedShape DEF SendPDU
<1>3. ASSUME Transfer PROVE TypeOK'
  <2>1. Head(out) \in Byte /\ Tail(out) \in Seq(Byte)
    BY <1>3, HeadTailProperties DEF Transfer
  <2>2. /\ Append(wire, Head(out)) \in Seq(Byte)
        /\ Len(Append(wire, Head(out))) = Len(wire) + 1
    BY <2>1, AppendProperties
  <2> QED
    BY <1>1, <1>3, <2>1, <2>2 DEF Transfer
<1>4. ASSUME CloseWriter PROVE TypeOK'
  BY <1>4 DEF CloseWriter
<1>5. ASSUME ResetConnection PROVE TypeOK'
  <2>1. wire' = wire \/ wire' = <<>>
    BY <1>5 DEF ResetConnection
  <2>2. wire' \in Seq(Byte) /\ Len(wire') <= Space
    <3>1. CASE wire' = wire
      BY <3>1
    <3>2. CASE wire' = <<>>
      <4>1. Len(wire') = 0 /\ wire' \in Seq(Byte)
        BY <1>1, <3>2
      <4> QED
        BY <1>1, <4>1
    <3> QED
      BY <2>1, <3>1, <3>2
  <2> QED
    BY <1>5, <2>2 DEF ResetConnection
<1>6. ASSUME Collect PROVE TypeOK'
  <2>1. /\ Head(wire) \in Byte /\ Tail(wire) \in Seq(Byte)
        /\ Len(Tail(wire)) = Len(wire) - 1
    BY <1>6, HeadTailProperties DEF Collect
  <2>2. /\ Append(part, Head(wire)) \in Seq(Byte)
        /\ Len(Append(part, Head(wire))) = Len(part) + 1
    BY <2>1, AppendProperties
  <2> QED
    BY <1>1, <1>6, <2>1, <2>2 DEF Collect
<1>7. ASSUME ReadLength PROVE TypeOK'
  <2>1. ASSUME NEW n \in 0 .. Base * Base - 1, AskForData(n),
               UNCHANGED <<sent, out, wire, writer, got>>
        PROVE  TypeOK'
    <3>1. CASE phase' = "data" /\ need' = n /\ part' = <<>>
      <4>1. part' \in Seq(Byte) /\ Len(part') = 0
        BY <1>1, <3>1
      <4> QED
        BY <2>1, <3>1, <4>1
    <3>2. CASE phase' = "exited" /\ UNCHANGED <<need, part>>
      BY <2>1, <3>2
    <3> QED
      BY <2>1, <3>1, <3>2 DEF AskForData
  <2>2. CASE Len(part) = 2 /\ AskForData(DataLength(part[1], part[2]))
    <3>1. part[1] \in Byte /\ part[2] \in Byte
      BY <1>1, <2>2
    <3>2. DataLength(part[1], part[2]) \in 0 .. Base * Base - 1
      BY <3>1, LengthFits
    <3> QED
      BY <1>7, <2>1, <2>2, <3>2 DEF ReadLength
  <2>3. CASE Len(part) = 1 /\ \E b \in Byte : AskForData(DataLength(part[1], b))
    <3>1. PICK b \in Byte : AskForData(DataLength(part[1], b))
      BY <2>3
    <3>2. part[1] \in Byte
      BY <1>1, <2>3
    <3>3. DataLength(part[1], b) \in 0 .. Base * Base - 1
      BY <3>2, LengthFits
    <3> QED
      BY <1>7, <2>1, <3>1, <3>3 DEF ReadLength
  <2> QED
    BY <1>7, <2>2, <2>3 DEF ReadLength
<1>8. ASSUME ReturnData PROVE TypeOK'
  <2>1. Append(got, part) \in Seq(Seq(Byte))
    BY AppendProperties
  <2> QED
    BY <1>1, <1>8, <2>1 DEF ReturnData
<1>9. ASSUME ReturnClosed PROVE TypeOK'
  BY <1>9 DEF ReturnClosed
<1>10. ASSUME ReturnError PROVE TypeOK'
  BY <1>10 DEF ReturnError
<1>11. ASSUME UNCHANGED vars PROVE TypeOK'
  BY <1>11 DEF vars
<1> QED
  BY <1>2, <1>3, <1>4, <1>5, <1>6, <1>7, <1>8, <1>9, <1>10, <1>11 DEF Next, Receive

----------------------------------------------------------------------------
(* The sender's steps                                                      *)

(* A new message begins where the last one ends, and nothing of it is in   *)
(* the connection yet.                                                     *)
LEMMA SendKeeps ==
  ASSUME IInv, TypeOK', NEW data \in Payloads, SendPDU(data)
  PROVE  OutInv' /\ PlaceInv' /\ ExitOnlyAfterCut'
<1> USE DEF IInv
<1> DEFINE N == Len(sent)
<1>1. /\ writer = "open" /\ out = <<>> /\ sent' = Append(sent, data) /\ out' = Framed(data)
      /\ wire' = wire /\ writer' = writer /\ got' = got /\ phase' = phase
      /\ need' = need /\ part' = part
  BY DEF SendPDU, receiverVars
<1>2. /\ N \in Nat /\ Len(sent') = N + 1 /\ sent'[N + 1] = data
      /\ \A i \in 1 .. N : sent'[i] = sent[i]
  BY <1>1, AppendProperties DEF TypeOK
<1>3. Len(out') = Size(data) /\ Size(data) \in Nat /\ Size(data) >= 2
  BY <1>1, FramedShape, TruncatedShape DEF Size
<1>4. OutInv'
  <2>1. \A j \in 1 .. Len(out') : out'[j] = Framed(data)[Size(data) - Len(out') + j]
    BY <1>1, <1>3
  <2> QED
    BY <1>1, <1>2, <1>3, <2>1 DEF OutInv
<1>5. ExitOnlyAfterCut'
  BY <1>1 DEF ExitOnlyAfterCut, Ended
<1>6. PlaceInv'
  <2> SUFFICES ASSUME Receiving
               PROVE  \E start \in [1 .. N + 2 -> Nat], r \in Nat : Placed(start, r)'
    BY <1>1, <1>2 DEF PlaceInv, Receiving
  <2>1. PICK start \in [1 .. N + 1 -> Nat], r \in Nat : Placed(start, r)
    BY <1>1 DEF PlaceInv, Broken
  <2>2. PICK M \in Nat : M = N
    BY <1>2
  <2>3. PICK next : next = [i \in 1 .. M + 2 |-> IF i = M + 2 THEN start[M + 1] + Size(data)
                                                             ELSE start[i]]
    OBVIOUS
  <2>4. /\ next \in [1 .. M + 2 -> Nat]
        /\ \A i \in 1 .. M + 1 : next[i] = start[i]
        /\ next[M + 2] = start[M + 1] + Size(data)
    BY <1>3, <2>2, <2>3
  <2> HIDE DEF N
  <2>5. Starts(next)'
    <3>1. next[1] = 0
      BY <2>1, <2>2, <2>4 DEF Placed, Starts, N
    <3>2. ASSUME NEW i \in 1 .. M + 1 PROVE next[i + 1] = next[i] + Size(sent'[i])
      <4>1. CASE i = M + 1
        BY <1>2, <2>2, <2>4, <4>1
      <4>2. CASE i \in 1 .. M
        <5>1. start[i + 1] = start[i] + Size(sent[i])
          BY <2>1, <2>2, <4>2 DEF Placed, Starts, N
        <5>2. sent'[i] = sent[i] /\ i + 1 \in 1 .. M + 1
          BY <1>2, <2>2, <4>2
        <5> QED
          BY <2>4, <4>2, <5>1, <5>2
      <4> QED
        BY <4>1, <4>2
    <3>3. ASSUME NEW i \in 1 .. M + 1, NEW j \in 1 .. M + 2, i < j PROVE next[i + 1] <= next[j]
      <4>1. CASE i = M + 1
        BY <2>4, <3>3, <4>1
      <4>2. CASE i \in 1 .. M /\ j \in 1 .. M + 1
        BY <2>1, <2>2, <2>4, <3>3, <4>2 DEF Placed, Starts, N
      <4>3. CASE i \in 1 .. M /\ j = M + 2
        <5>1. start[i + 1] \in Nat /\ start[M + 1] \in Nat
          BY <2>1, <2>2, <4>3
        <5>2. i = M \/ start[i + 1] <= start[M + 1]
          BY <2>1, <2>2, <4>3 DEF Placed, Starts, N
        <5> QED
          BY <1>3, <2>4, <4>3, <5>1, <5>2
      <4> QED
        BY <4>1, <4>2, <4>3
    <3>4. Len(sent') = M + 1
      BY <1>2, <2>2
    <3> QED
      BY <2>4, <3>1, <3>2, <3>3, <3>4 DEF Starts
  <2>6. r + Len(wire) = start[M + 1] /\ Len(wire) \in Nat /\ start[M + 1] \in Nat
    BY <1>1, <2>1, <2>2 DEF Placed, WireInv, TypeOK, N
  <2>7. WireInv(next, r)'
    <3>1. r + Len(wire') + Len(out') = next[Len(sent') + 1]
      BY <1>1, <1>2, <1>3, <2>2, <2>4, <2>6
    <3>2. Len(sent') = M + 1 /\ next[Len(sent') + 1] \in Nat
      BY <1>2, <2>2, <2>4
    <3>3. ASSUME NEW q \in 1 .. Len(wire'), NEW i \in 1 .. Len(sent'),
                 NEW j \in 1 .. Size(sent'[i]), next[i] + j = r + q
          PROVE  wire'[q] = Framed(sent'[i])[j]
      <4>1. i \in 1 .. M + 1 /\ q \in 1 .. Len(wire) /\ wire' = wire
        BY <1>1, <3>2
      <4>2. CASE i = M + 1
        BY <1>2, <1>3, <2>2, <2>4, <2>6, <3>3, <4>1, <4>2
      <4>3. CASE i \in 1 .. M
        <5>1. sent'[i] = sent[i] /\ next[i] = start[i] /\ i \in 1 .. Len(sent)
          BY <1>2, <2>2, <2>4, <4>3 DEF N
        <5>2. j \in 1 .. Size(sent[i]) /\ start[i] + j = r + q
          BY <3>3, <5>1
        <5>3. wire[q] = Framed(sent[i])[j]
          BY <2>1, <4>1, <5>1, <5>2 DEF Placed, WireInv
        <5> QED
          BY <4>1, <5>1, <5>3
      <4> QED
        BY <4>1, <4>2, <4>3
    <3>4. /\ r + Len(wire') + Len(out') <= next[Len(sent') + 1]
          /\ r + Len(wire') + Len(out') = next[Len(sent') + 1]
      BY <3>1, <3>2
    <3> QED
      BY <3>3, <3>4 DEF WireInv
  <2>8. ReceiverInv(next, r)'
    <3>1. PICK k \in Nat : k = Len(got)
      BY DEF TypeOK
    <3>2. k <= M /\ \A i \in 1 .. k : got[i] = Truncated(sent[i])
      BY <2>1, <2>2, <3>1 DEF Placed, ReceiverInv, N
    <3>3. next[k + 1] = start[k + 1] /\ (k < M => sent'[k + 1] = sent[k + 1])
      BY <1>2, <2>2, <2>4, <3>1, <3>2
    <3>4. \A i \in 1 .. k : got[i] = Truncated(sent'[i])
      BY <1>2, <2>2, <3>2
    <3>5. k = M /\ phase = "header" => Len(part) = 0
      BY <2>1, <2>2, <2>6, <3>1 DEF Placed, ReceiverInv, TypeOK
    <3>6. ReceiverInv(start, r)
      BY <2>1 DEF Placed
    <3>7. Len(sent') = M + 1 /\ Len(sent) = M
      BY <1>2, <2>2 DEF N
    <3> QED
      BY <1>1, <3>1, <3>2, <3>3, <3>4, <3>5, <3>6, <3>7 DEF ReceiverInv
  <2>9. next \in [1 .. N + 2 -> Nat]
    BY <2>2, <2>4
  <2> QED
    BY <2>5, <2>7, <2>8, <2>9 DEF Placed
<1> QED
  BY <1>4, <1>5, <1>6

(* The next byte the kernel copies is the next of the stream.              *)
LEMMA TransferKeeps ==
  ASSUME IInv, TypeOK', Transfer
  PROVE  OutInv' /\ PlaceInv' /\ ExitOnlyAfterCut'
<1> USE DEF IInv
<1>1. /\ out # <<>> /\ wire' = Append(wire, Head(out)) /\ out' = Tail(out)
      /\ sent' = sent /\ writer' = writer /\ got' = got /\ phase' = phase
      /\ need' = need /\ part' = part
  BY DEF Transfer, receiverVars
<1>2. PICK N \in Nat : N = Len(sent)
  BY DEF TypeOK
<1>3. /\ N \in 1 .. Len(sent) /\ writer = "open"
      /\ Len(out) <= Size(sent[N])
      /\ \A j \in 1 .. Len(out) : out[j] = Framed(sent[N])[Size(sent[N]) - Len(out) + j]
  <2>1. sent # <<>> => N # 0
    BY <1>2 DEF TypeOK
  <2> QED
    BY <1>1, <1>2, <2>1 DEF OutInv
<1>4. Size(sent[N]) \in Nat
  BY <1>3, SentShape
<1>5. PICK L \in Nat : L = Len(out)
  BY DEF TypeOK
<1>6. /\ L > 0 /\ Len(out') = L - 1 /\ \A j \in 1 .. L - 1 : out'[j] = out[j + 1]
      /\ Head(out) = out[1]
  <2>1. out \in Seq(Byte) /\ L # 0
    BY <1>1, <1>5 DEF TypeOK
  <2>2. Len(Tail(out)) = L - 1 /\ \A j \in 1 .. Len(Tail(out)) : Tail(out)[j] = out[j + 1]
    BY <1>1, <1>5, <2>1, HeadTailProperties
  <2> QED
    BY <1>1, <1>5, <2>1, <2>2
<1>7. OutInv'
  <2>1. ASSUME NEW j \in 1 .. L - 1 PROVE out'[j] = Framed(sent[N])[Size(sent[N]) - (L - 1) + j]
    <3>1. out'[j] = out[j + 1] /\ j + 1 \in 1 .. L
      BY <1>6
    <3>2. out[j + 1] = Framed(sent[N])[Size(sent[N]) - L + (j + 1)]
      BY <1>3, <1>5, <3>1
    <3>3. Size(sent[N]) - L + (j + 1) = Size(sent[N]) - (L - 1) + j
      BY <1>4
    <3> QED
      BY <3>1, <3>2, <3>3
  <2>2. sent' # <<>> /\ Len(out') <= Size(sent'[Len(sent')]) /\ Len(sent') = N
    BY <1>1, <1>2, <1>3, <1>4, <1>5, <1>6 DEF OutInv
  <2> QED
    BY <1>1, <1>3, <1>6, <2>1, <2>2 DEF OutInv
<1>8. ExitOnlyAfterCut'
  BY <1>1, <1>3 DEF ExitOnlyAfterCut, Ended
<1>9. PlaceInv'
  <2> SUFFICES ASSUME Receiving
               PROVE  \E start \in [1 .. N + 1 -> Nat], r \in Nat : Placed(start, r)'
    BY <1>1, <1>2 DEF PlaceInv, Receiving
  <2>1. PICK start \in [1 .. N + 1 -> Nat], r \in Nat : Placed(start, r)
    BY <1>2, <1>3 DEF PlaceInv, Broken
  <2>2. Starts(start)' /\ ReceiverInv(start, r)'
    BY <1>1, <2>1 DEF Placed, Starts, ReceiverInv
  <2>3. PICK W \in Nat : W = Len(wire)
    BY DEF TypeOK
  <2>4. /\ Len(wire') = W + 1 /\ wire'[W + 1] = out[1]
        /\ \A q \in 1 .. W : wire'[q] = wire[q]
    <3>1. Head(out) \in Byte /\ wire \in Seq(Byte)
      BY <1>1, HeadTailProperties DEF TypeOK
    <3> QED
      BY <1>1, <1>6, <2>3, <3>1, AppendProperties
  <2>5. r + W + L = start[N + 1] /\ start[N + 1] = start[N] + Size(sent[N])
    BY <1>2, <1>3, <1>5, <2>1, <2>3 DEF Placed, WireInv, Starts
  <2>6. ASSUME NEW q \in 1 .. W + 1, NEW i \in 1 .. N, NEW j \in 1 .. Size(sent[i]),
               start[i] + j = r + q
        PROVE  wire'[q] = Framed(sent[i])[j]
    <3>1. CASE q \in 1 .. W
      BY <1>2, <2>1, <2>3, <2>4, <2>6, <3>1 DEF Placed, WireInv
    <3>2. CASE q = W + 1
      <4>1. start[i] \in Nat /\ start[N] \in Nat /\ start[i + 1] \in Nat /\ j \in Nat
        BY <1>2, <1>3
      <4>2. Size(sent[i]) \in Nat
        BY <1>2, SentShape
      <4>3. start[i + 1] = start[i] + Size(sent[i]) /\ (i < N => start[i + 1] <= start[N])
        BY <1>2, <1>3, <2>1 DEF Placed, Starts
      <4>4. i = N
        <5>1. r + W >= start[N]
          BY <1>3, <1>4, <1>5, <2>5, <4>1
        <5>2. r + W + 1 <= start[i + 1]
          BY <2>6, <3>2, <4>1, <4>2, <4>3
        <5>3. ~(start[i + 1] <= start[N])
          BY <4>1, <5>1, <5>2
        <5> QED
          BY <1>2, <4>3, <5>3
      <4>5. j = Size(sent[N]) - L + 1
        BY <1>4, <2>5, <2>6, <3>2, <4>1, <4>4
      <4> QED
        BY <1>3, <1>5, <1>6, <2>4, <3>2, <4>4, <4>5
    <3> QED
      BY <3>1, <3>2
  <2>7. WireInv(start, r)'
    <3>1. ASSUME NEW q \in 1 .. Len(wire'), NEW i \in 1 .. Len(sent'),
                 NEW j \in 1 .. Size(sent'[i]), start[i] + j = r + q
          PROVE  wire'[q] = Framed(sent'[i])[j]
      BY <1>1, <1>2, <2>4, <2>6, <3>1
    <3>2. r + Len(wire') + Len(out') = start[Len(sent') + 1] /\ start[Len(sent') + 1] \in Nat
      <4>1. Len(sent') = N /\ Len(wire') = W + 1 /\ Len(out') = L - 1 /\ start[N + 1] \in Nat
        BY <1>1, <1>2, <1>6, <2>4
      <4> QED
        BY <1>5, <2>5, <4>1
    <3> QED
      BY <3>1, <3>2 DEF WireInv
  <2> QED
    BY <2>2, <2>7 DEF Placed
<1> QED
  BY <1>7, <1>8, <1>9

(* A sender that stops leaves its bytes where they are; one that breaks    *)
(* off leaves the beginning of them.                                       *)
LEMMA CloseKeeps ==
  ASSUME IInv, CloseWriter \/ ResetConnection
  PROVE  OutInv' /\ PlaceInv' /\ ExitOnlyAfterCut'
<1> USE DEF IInv
<1>1. /\ out' = <<>> /\ sent' = sent /\ got' = got /\ phase' = phase /\ need' = need /\ part' = part
      /\ wire' = wire \/ wire' = <<>>
      /\ \/ writer = "open" /\ wire' = wire /\ writer' = "closed" /\ out = <<>>
         \/ writer = "open" /\ wire' = wire /\ writer' = "cut"
         \/ writer' = "reset"
  BY DEF CloseWriter, ResetConnection, receiverVars
<1>2. OutInv'
  BY <1>1 DEF OutInv
<1>3. ExitOnlyAfterCut'
  BY <1>1 DEF ExitOnlyAfterCut, Ended
<1>4. PlaceInv'
  <2>1. PICK N \in Nat : N = Len(sent)
    BY DEF TypeOK
  <2>2. CASE ~Receiving
    BY <1>1, <2>2 DEF PlaceInv, Receiving
  <2>3. CASE Broken
    BY <1>1, <2>3 DEF PlaceInv, Broken
  <2>4. CASE Receiving /\ ~Broken
    <3>1. PICK start \in [1 .. N + 1 -> Nat], r \in Nat : Placed(start, r)
      BY <2>1, <2>4 DEF PlaceInv
    <3>2. Starts(start)' /\ ReceiverInv(start, r)'
      BY <1>1, <3>1 DEF Placed, Starts, ReceiverInv
    <3>3. WireInv(start, r)'
      <4>1. /\ Len(wire) \in Nat /\ Len(wire') \in Nat /\ Len(wire') <= Len(wire)
            /\ Len(out) \in Nat /\ Len(out') = 0 /\ start[N + 1] \in Nat
            /\ \A q \in 1 .. Len(wire') : wire'[q] = wire[q]
        <5>1. Len(wire) \in Nat /\ Len(out) \in Nat /\ Len(out') = 0 /\ start[N + 1] \in Nat
          <6>1. Len(out') = 0
            BY <1>1
          <6>2. Len(wire) \in Nat /\ Len(out) \in Nat
            BY DEF TypeOK
          <6> QED
            BY <2>1, <6>1, <6>2
        <5>2. wire' = <<>> => Len(wire') = 0
          OBVIOUS
        <5> QED
          BY <1>1, <5>1, <5>2
      <4>2. r + Len(wire) + Len(out) <= start[N + 1]
        BY <2>1, <3>1 DEF Placed, WireInv
      <4>3. r + Len(wire') + Len(out') <= start[N + 1]
        BY <4>1, <4>2
      <4>4. writer' \in {"open", "closed"} => r + Len(wire') + Len(out') = start[N + 1]
        BY <1>1, <2>1, <3>1 DEF Placed, WireInv
      <4>5. ASSUME NEW q \in 1 .. Len(wire'), NEW i \in 1 .. Len(sent'),
                   NEW j \in 1 .. Size(sent'[i]), start[i] + j = r + q
            PROVE  wire'[q] = Framed(sent'[i])[j]
        <5>1. q \in 1 .. Len(wire) /\ i \in 1 .. Len(sent) /\ j \in 1 .. Size(sent[i])
          BY <1>1, <4>1
        <5> QED
          BY <1>1, <3>1, <4>1, <4>5, <5>1 DEF Placed, WireInv
      <4> QED
        BY <1>1, <2>1, <4>3, <4>4, <4>5 DEF WireInv
    <3> QED
      BY <1>1, <2>1, <3>1, <3>2, <3>3 DEF PlaceInv, Placed
  <2> QED
    BY <2>2, <2>3, <2>4
<1> QED
  BY <1>2, <1>3, <1>4

----------------------------------------------------------------------------
(* The receiver's steps                                                    *)

(* The byte taken from the connection is the next of the part.             *)
LEMMA CollectKeeps ==
  ASSUME IInv, TypeOK', Collect
  PROVE  OutInv' /\ PlaceInv' /\ ExitOnlyAfterCut'
<1> USE DEF IInv
<1>1. /\ wire # <<>> /\ Len(part) < need /\ Receiving
      /\ part' = Append(part, Head(wire)) /\ wire' = Tail(wire)
      /\ sent' = sent /\ out' = out /\ writer' = writer /\ got' = got /\ phase' = phase /\ need' = need
  BY DEF Collect, Receiving
<1>2. OutInv' /\ ExitOnlyAfterCut'
  BY <1>1 DEF OutInv, ExitOnlyAfterCut, Receiving
<1>3. PICK N \in Nat : N = Len(sent)
  BY DEF TypeOK
<1>4. PICK start \in [1 .. N + 1 -> Nat], r \in Nat : Placed(start, r)
  BY <1>1, <1>3 DEF PlaceInv, Broken
<1>5. PICK k \in Nat : k = Len(got)
  BY DEF TypeOK
<1>6. k < N /\ k + 1 \in 1 .. N /\ start[k + 1] \in Nat
  <2>1. k < N
    BY <1>1, <1>3, <1>4, <1>5, PartIsOfAMessage
  <2> QED
    BY <1>5, <2>1
<1>7. PICK W \in Nat, P \in Nat : W = Len(wire) /\ P = Len(part)
  BY DEF TypeOK
<1>8. /\ W >= 1 /\ Len(wire') = W - 1 /\ Head(wire) = wire[1]
      /\ \A q \in 1 .. W - 1 : wire'[q] = wire[q + 1]
      /\ Len(part') = P + 1 /\ part'[P + 1] = wire[1]
      /\ \A j \in 1 .. P : part'[j] = part[j]
  <2>1. wire \in Seq(Byte) /\ part \in Seq(Byte) /\ W # 0 /\ Head(wire) = wire[1]
    BY <1>1, <1>7 DEF TypeOK
  <2>2. /\ Head(wire) \in Byte /\ Len(Tail(wire)) = W - 1
        /\ \A q \in 1 .. Len(Tail(wire)) : Tail(wire)[q] = wire[q + 1]
    BY <1>1, <1>7, <2>1, HeadTailProperties
  <2>3. /\ Len(Append(part, Head(wire))) = P + 1
        /\ Append(part, Head(wire))[P + 1] = Head(wire)
        /\ \A j \in 1 .. P : Append(part, Head(wire))[j] = part[j]
    BY <1>7, <2>1, <2>2, AppendProperties
  <2> QED
    BY <1>1, <1>7, <2>1, <2>2, <2>3
<1>9. P < need
  BY <1>1, <1>7
<1>10. PICK begin \in Nat : begin = start[k + 1]
  BY <1>6
<1>11. Starts(start)'
  BY <1>1, <1>4 DEF Placed, Starts
<1>12. WireInv(start, r + 1)'
  <2>1. ASSUME NEW q \in 1 .. Len(wire'), NEW i \in 1 .. Len(sent'),
               NEW j \in 1 .. Size(sent'[i]), start[i] + j = (r + 1) + q
        PROVE  wire'[q] = Framed(sent'[i])[j]
    <3>1. q \in 1 .. W - 1 /\ q + 1 \in 1 .. Len(wire) /\ i \in 1 .. Len(sent)
          /\ j \in 1 .. Size(sent[i]) /\ start[i] + j = r + (q + 1)
      BY <1>1, <1>7, <1>8, <2>1
    <3>2. wire[q + 1] = Framed(sent[i])[j]
      BY <1>4, <3>1 DEF Placed, WireInv
    <3> QED
      BY <1>1, <1>8, <3>1, <3>2
  <2>2. Len(out) \in Nat /\ start[N + 1] \in Nat /\ Len(sent') = N /\ Len(out') = Len(out)
    BY <1>1, <1>3 DEF TypeOK
  <2>3. r + W + Len(out) <= start[N + 1] /\ (writer \in {"open", "closed"} => r + W + Len(out) = start[N + 1])
    BY <1>3, <1>4, <1>7 DEF Placed, WireInv
  <2>4. (r + 1) + Len(wire') + Len(out') = r + W + Len(out)
    BY <1>8, <2>2
  <2> QED
    BY <1>1, <2>1, <2>2, <2>3, <2>4 DEF WireInv
<1>13. ReceiverInv(start, r + 1)'
  <2>1. /\ ReceiverInv(start, r)
        /\ \A j \in 1 .. Size(sent[k + 1]) : start[k + 1] + j = r + 1 => wire[1] = Framed(sent[k + 1])[j]
    BY <1>3, <1>4, <1>6, <1>7, <1>8 DEF Placed, WireInv
  <2>2. /\ Size(sent[k + 1]) = 2 + Len(Truncated(sent[k + 1]))
        /\ Len(Truncated(sent[k + 1])) \in Nat
        /\ sent[k + 1] \in Payloads
    BY <1>3, <1>6, SentShape
  <2>3. PICK length \in Nat : length = Len(Truncated(sent[k + 1]))
    BY <2>2
  <2>4. CASE phase = "header"
    <3>1. need = 2 /\ r = start[k + 1] + P /\ \A j \in 1 .. P : part[j] = Framed(sent[k + 1])[j]
      BY <1>3, <1>5, <1>6, <1>7, <2>1, <2>4 DEF ReceiverInv
    <3>2. P + 1 \in 1 .. Size(sent[k + 1]) /\ start[k + 1] + (P + 1) = r + 1
      BY <1>9, <1>10, <2>2, <2>3, <3>1
    <3>3. wire[1] = Framed(sent[k + 1])[P + 1]
      BY <2>1, <3>2
    <3>4. ASSUME NEW j \in 1 .. P + 1 PROVE part'[j] = Framed(sent[k + 1])[j]
      <4>1. j \in 1 .. P \/ j = P + 1
        OBVIOUS
      <4>2. CASE j \in 1 .. P
        BY <1>8, <3>1, <4>2
      <4>3. CASE j = P + 1
        BY <1>8, <3>3, <4>3
      <4> QED
        BY <4>1, <4>2, <4>3
    <3>5. r + 1 = start[k + 1] + (P + 1)
      BY <3>2
    <3> QED
      BY <1>1, <1>5, <1>8, <2>1, <2>4, <3>1, <3>4, <3>5 DEF ReceiverInv
  <2>5. CASE phase = "data"
    <3>1. /\ need = Len(Truncated(sent[k + 1])) /\ r = start[k + 1] + 2 + P
          /\ \A j \in 1 .. P : part[j] = Truncated(sent[k + 1])[j]
      BY <1>5, <1>7, <2>1, <2>5 DEF ReceiverInv
    <3>2. 2 + (P + 1) \in 1 .. Size(sent[k + 1]) /\ start[k + 1] + (2 + (P + 1)) = r + 1
          /\ P + 1 \in 1 .. Len(Truncated(sent[k + 1]))
      <4>1. P < length /\ r = begin + 2 + P /\ Size(sent[k + 1]) = 2 + length
        BY <1>9, <1>10, <2>2, <2>3, <3>1
      <4>2. begin + (2 + (P + 1)) = r + 1
        BY <4>1
      <4>3. 2 + (P + 1) \in 1 .. Size(sent[k + 1]) /\ P + 1 \in 1 .. length
        BY <4>1
      <4> QED
        BY <1>10, <2>3, <4>2, <4>3
    <3>3. wire[1] = Framed(sent[k + 1])[2 + (P + 1)]
      BY <2>1, <3>2
    <3>4. wire[1] = Truncated(sent[k + 1])[P + 1]
      BY <2>2, <3>2, <3>3, FramedShape
    <3>5. ASSUME NEW j \in 1 .. P + 1 PROVE part'[j] = Truncated(sent[k + 1])[j]
      <4>1. j \in 1 .. P \/ j = P + 1
        OBVIOUS
      <4>2. CASE j \in 1 .. P
        BY <1>8, <3>1, <4>2
      <4>3. CASE j = P + 1
        BY <1>8, <3>4, <4>3
      <4> QED
        BY <4>1, <4>2, <4>3
    <3>6. r + 1 = start[k + 1] + 2 + (P + 1)
      <4>1. r = begin + 2 + P
        BY <1>10, <3>1
      <4>2. r + 1 = begin + 2 + (P + 1)
        BY <4>1
      <4> QED
        BY <1>10, <4>2
    <3> QED
      BY <1>1, <1>5, <1>8, <2>1, <2>5, <3>1, <3>5, <3>6 DEF ReceiverInv
  <2> QED
    BY <1>1, <2>4, <2>5 DEF Receiving
<1> QED
  BY <1>1, <1>2, <1>3, <1>11, <1>12, <1>13 DEF PlaceInv, Placed, Receiving

(* Two bytes of length are those of the next message; after one the sender *)
(* has broken off.                                                         *)
LEMMA ReadLengthKeeps ==
  ASSUME IInv, ReadLength
  PROVE  /\ OutInv' /\ PlaceInv' /\ ExitOnlyAfterCut'
         /\ phase' = "exited" => writer \in {"cut", "reset"}
<1> USE DEF IInv
<1>1. /\ phase = "header" /\ Receiving /\ part # <<>>
      /\ sent' = sent /\ out' = out /\ wire' = wire /\ writer' = writer /\ got' = got
  BY DEF ReadLength, Receiving
<1>2. OutInv'
  BY <1>1 DEF OutInv
<1>3. PICK N \in Nat : N = Len(sent)
  BY DEF TypeOK
<1>4. PICK start \in [1 .. N + 1 -> Nat], r \in Nat : Placed(start, r)
  BY <1>1, <1>3 DEF PlaceInv, Broken
<1>5. PICK k \in Nat : k = Len(got)
  BY DEF TypeOK
<1>6. k < N /\ k + 1 \in 1 .. N /\ start[k + 1] \in Nat
  <2>1. k < N
    BY <1>1, <1>3, <1>4, <1>5, PartIsOfAMessage
  <2> QED
    BY <1>5, <2>1
<1>7. /\ need = 2 /\ r = start[k + 1] + Len(part)
      /\ \A j \in 1 .. Len(part) : part[j] = Framed(sent[k + 1])[j]
  BY <1>1, <1>3, <1>4, <1>5, <1>6 DEF Placed, ReceiverInv
<1>8. CASE Len(part) = 1 /\ Ended /\ \E b \in Byte : AskForData(DataLength(part[1], b))
  <2>1. writer \in {"cut", "reset"}
    BY <1>1, <1>3, <1>4, <1>7, <1>8, ShortMeansBroken
  <2>2. PICK n : AskForData(n)
    BY <1>8
  <2>3. CASE phase' = "data" /\ part' = <<>>
    BY <1>1, <1>2, <1>8, <2>1, <2>3 DEF PlaceInv, Broken, Ended, ExitOnlyAfterCut
  <2>4. CASE phase' = "exited" /\ part' = part
    BY <1>1, <1>2, <1>8, <2>1, <2>4 DEF PlaceInv, Receiving, Ended, ExitOnlyAfterCut
  <2> QED
    BY <2>2, <2>3, <2>4 DEF AskForData
<1>9. CASE Len(part) = 2 /\ AskForData(DataLength(part[1], part[2]))
  <2>1. /\ sent[k + 1] \in Payloads /\ Len(Truncated(sent[k + 1])) \in Nat
    BY <1>3, <1>6, SentShape
  <2>2. PICK n \in Nat : n = Len(Truncated(sent[k + 1]))
    BY <2>1
  <2>3. DataLength(part[1], part[2]) = n
    BY <1>7, <1>9, <2>1, <2>2, FramedShape
  <2>4. n <= BufferSize
    BY <2>1, <2>2, TruncatedShape, LengthAssumption
  <2>5. phase' = "data" /\ need' = n /\ part' = <<>>
    BY <1>9, <2>2, <2>3, <2>4, LengthAssumption DEF AskForData
  <2>6. Starts(start)' /\ WireInv(start, r)'
    BY <1>1, <1>4 DEF Placed, Starts, WireInv
  <2>7. ReceiverInv(start, r)'
    <3>1. Len(part') = 0
      BY <2>5
    <3>2. r = start[k + 1] + 2 + Len(part')
      BY <1>6, <1>7, <1>9, <3>1
    <3>3. Len(got) <= Len(sent) /\ \A i \in 1 .. Len(got) : got[i] = Truncated(sent[i])
      BY <1>4 DEF Placed, ReceiverInv
    <3> QED
      BY <1>1, <1>3, <1>5, <1>6, <2>2, <2>5, <3>1, <3>2, <3>3 DEF ReceiverInv
  <2> QED
    BY <1>1, <1>2, <1>3, <2>5, <2>6, <2>7 DEF PlaceInv, Placed, ExitOnlyAfterCut
<1> QED
  BY <1>8, <1>9 DEF ReadLength

(* What recvPDU returns is the next message, or the beginning of it when   *)
(* its sender has broken off.                                              *)
LEMMA DataReturned ==
  ASSUME IInv, ReturnData
  PROVE  /\ Len(got) < Len(sent)
         /\ \A i \in 1 .. Len(got) : got[i] = Truncated(sent[i])
         /\ \/ part = Truncated(sent[Len(got) + 1])
            \/ /\ writer \in {"cut", "reset"}
               /\ Len(part) \in 1 .. Len(Truncated(sent[Len(got) + 1])) - 1
               /\ part = SubSeq(Truncated(sent[Len(got) + 1]), 1, Len(part))
         /\ OutInv' /\ PlaceInv' /\ ExitOnlyAfterCut'
<1> USE DEF IInv
<1>1. /\ phase = "data" /\ Receiving /\ part # <<>> /\ (Len(part) = need \/ Ended)
      /\ got' = Append(got, part) /\ phase' = "header" /\ need' = 2 /\ part' = <<>>
      /\ sent' = sent /\ out' = out /\ wire' = wire /\ writer' = writer
  BY DEF ReturnData, Receiving
<1>2. phase = "data" /\ Receiving /\ part # <<>>
  BY DEF ReturnData, Receiving
<1>3. OutInv' /\ ExitOnlyAfterCut'
  BY <1>1 DEF OutInv, ExitOnlyAfterCut
<1>4. PICK N \in Nat : N = Len(sent)
  BY DEF TypeOK
<1>5. PICK start \in [1 .. N + 1 -> Nat], r \in Nat : Placed(start, r)
  BY <1>2, <1>4 DEF PlaceInv, Broken
<1>6. PICK k \in Nat : k = Len(got)
  BY DEF TypeOK
<1>7. k < N /\ k + 1 \in 1 .. N /\ start[k + 1] \in Nat /\ k + 2 \in 1 .. N + 1
      /\ start[k + 2] = start[k + 1] + Size(sent[k + 1])
  <2>1. k < N
    BY <1>2, <1>4, <1>5, <1>6, PartIsOfAMessage
  <2> QED
    BY <1>2, <1>4, <1>5, <1>6, <2>1, PartIsOfAMessage
<1>8. PICK P \in Nat : P = Len(part)
  BY DEF TypeOK
<1>9. /\ need = Len(Truncated(sent[k + 1])) /\ r = start[k + 1] + 2 + P
      /\ \A j \in 1 .. P : part[j] = Truncated(sent[k + 1])[j]
      /\ \A i \in 1 .. k : got[i] = Truncated(sent[i])
  BY <1>2, <1>5, <1>6, <1>8 DEF Placed, ReceiverInv
<1>10. /\ sent[k + 1] \in Payloads /\ need \in Nat /\ P <= need /\ P >= 1
      /\ Size(sent[k + 1]) = 2 + need
      /\ part \in Seq(Byte) /\ Truncated(sent[k + 1]) \in Seq(Byte)
  <2>1. /\ sent[k + 1] \in Payloads /\ Len(Truncated(sent[k + 1])) \in Nat
        /\ Size(sent[k + 1]) = 2 + Len(Truncated(sent[k + 1]))
    BY <1>4, <1>7, SentShape
  <2>2. part \in Seq(Byte) /\ P <= need /\ P # 0
    BY <1>2, <1>8 DEF TypeOK
  <2> QED
    BY <1>9, <2>1, <2>2, TruncatedShape
<1>11. CASE P = need
  <2>1. part = Truncated(sent[k + 1])
    <3>1. Len(part) = P /\ Len(Truncated(sent[k + 1])) = P
      BY <1>8, <1>9, <1>11
    <3> QED
      BY <1>9, <1>10, <3>1
  <2>2. Starts(start)' /\ WireInv(start, r)'
    BY <1>1, <1>5 DEF Placed, Starts, WireInv
  <2>3. ReceiverInv(start, r)'
    <3>1. /\ Len(got') = k + 1 /\ got'[k + 1] = part /\ \A i \in 1 .. k : got'[i] = got[i]
      <4>1. got \in Seq(Seq(Byte))
        BY DEF TypeOK
      <4> QED
        BY <1>1, <1>6, <1>10, <4>1, AppendProperties
    <3>2. ASSUME NEW i \in 1 .. k + 1 PROVE got'[i] = Truncated(sent[i])
      BY <1>9, <2>1, <3>1
    <3>3. Len(part') = 0
      BY <1>1
    <3>4. r = start[(k + 1) + 1] + Len(part')
      <4>1. (k + 1) + 1 = k + 2
        OBVIOUS
      <4> QED
        BY <1>7, <1>9, <1>10, <1>11, <3>3, <4>1
    <3> QED
      BY <1>1, <1>4, <1>7, <3>1, <3>2, <3>3, <3>4 DEF ReceiverInv
  <2> QED
    BY <1>1, <1>3, <1>4, <1>6, <1>7, <1>9, <2>1, <2>2, <2>3 DEF PlaceInv, Placed
<1>12. CASE P < need
  <2>1. Ended
    BY <1>1, <1>8, <1>10, <1>12
  <2>2. writer \in {"cut", "reset"}
    BY <1>2, <1>4, <1>5, <1>8, <1>12, <2>1, ShortMeansBroken
  <2>3. part = SubSeq(Truncated(sent[k + 1]), 1, P)
    <3>1. /\ SubSeq(Truncated(sent[k + 1]), 1, P) \in Seq(Byte)
          /\ Len(SubSeq(Truncated(sent[k + 1]), 1, P)) = P
          /\ \A j \in 1 .. P : SubSeq(Truncated(sent[k + 1]), 1, P)[j] = Truncated(sent[k + 1])[j]
      <4>1. \A i \in 1 .. P : Truncated(sent[k + 1])[i] \in Byte
        BY <1>9, <1>10
      <4> QED
        BY <1>9, <1>10, <4>1
    <3> QED
      BY <1>8, <1>9, <1>10, <3>1
  <2>4. Broken'
    BY <1>1, <2>1, <2>2 DEF Broken, Ended
  <2>5. P \in 1 .. Len(Truncated(sent[k + 1])) - 1
    BY <1>9, <1>10, <1>12
  <2> QED
    BY <1>3, <1>4, <1>6, <1>7, <1>8, <1>9, <2>2, <2>3, <2>4, <2>5 DEF PlaceInv
<1> QED
  BY <1>10, <1>11, <1>12

(* The end is reported for a cause: the sender stopped or broke off, or the*)
(* message waited for has no data.                                         *)
LEMMA EndHasCause ==
  ASSUME IInv, ReturnClosed
  PROVE  \/ writer \in {"cut", "reset"}
         \/ writer = "closed" /\ Len(got) = Len(sent)
         \/ /\ Len(got) < Len(sent)
            /\ \A i \in 1 .. Len(got) : got[i] = Truncated(sent[i])
            /\ Truncated(sent[Len(got) + 1]) = <<>>
<1> USE DEF IInv
<1>1. Receiving /\ part = <<>> /\ (need = 0 \/ (Ended /\ writer # "reset"))
  BY DEF ReturnClosed, Receiving
<1>2. SUFFICES ASSUME writer \in {"open", "closed"}
               PROVE  \/ writer = "closed" /\ Len(got) = Len(sent)
                      \/ /\ Len(got) < Len(sent)
                         /\ \A i \in 1 .. Len(got) : got[i] = Truncated(sent[i])
                         /\ Truncated(sent[Len(got) + 1]) = <<>>
  BY DEF TypeOK
<1>3. PICK N \in Nat : N = Len(sent)
  BY DEF TypeOK
<1>4. PICK start \in [1 .. N + 1 -> Nat], r \in Nat : Placed(start, r)
  BY <1>1, <1>2, <1>3 DEF PlaceInv, Broken
<1>5. PICK k \in Nat : k = Len(got)
  BY DEF TypeOK
<1>6. /\ k <= N /\ \A i \in 1 .. k : got[i] = Truncated(sent[i])
      /\ phase = "header" => need = 2 /\ r = start[k + 1] + Len(part)
      /\ phase = "data" => /\ k < N /\ need = Len(Truncated(sent[k + 1]))
                           /\ r = start[k + 1] + 2 + Len(part)
  BY <1>3, <1>4, <1>5 DEF Placed, ReceiverInv
<1>7. Len(part) = 0
  BY <1>1
<1>8. Ended => writer = "closed" /\ r = start[N + 1]
  <2> SUFFICES ASSUME Ended PROVE writer = "closed" /\ r = start[N + 1]
    OBVIOUS
  <2>1. writer = "closed" /\ wire = <<>> /\ out = <<>>
    BY <1>2 DEF Ended, OutInv
  <2>2. Len(wire) = 0 /\ Len(out) = 0
    BY <2>1
  <2>3. r + Len(wire) + Len(out) = start[N + 1]
    BY <1>2, <1>3, <1>4 DEF Placed, WireInv
  <2>4. start[N + 1] \in Nat
    OBVIOUS
  <2> QED
    BY <2>1, <2>2, <2>3, <2>4
<1>9. k < N => /\ start[k + 2] = start[k + 1] + Size(sent[k + 1])
               /\ start[k + 2] <= start[N + 1]
               /\ start[k + 1] \in Nat /\ start[k + 2] \in Nat /\ start[N + 1] \in Nat
               /\ Size(sent[k + 1]) = 2 + Len(Truncated(sent[k + 1]))
               /\ Len(Truncated(sent[k + 1])) \in Nat
               /\ Truncated(sent[k + 1]) \in Seq(Byte)
  <2> SUFFICES ASSUME k < N
               PROVE  /\ start[k + 2] = start[k + 1] + Size(sent[k + 1])
                      /\ start[k + 2] <= start[N + 1]
                      /\ start[k + 1] \in Nat /\ start[k + 2] \in Nat /\ start[N + 1] \in Nat
                      /\ Size(sent[k + 1]) = 2 + Len(Truncated(sent[k + 1]))
                      /\ Len(Truncated(sent[k + 1])) \in Nat
                      /\ Truncated(sent[k + 1]) \in Seq(Byte)
    OBVIOUS
  <2>1. k + 1 \in 1 .. Len(sent) /\ k + 2 \in 1 .. N + 1
    BY <1>3
  <2>2. /\ start[k + 2] = start[k + 1] + Size(sent[k + 1])
        /\ start[k + 2] <= start[N + 1]
    BY <1>1, <1>3, <1>4, <1>5, PartIsOfAMessage
  <2> QED
    BY <2>1, <2>2, SentShape, TruncatedShape
<1>10. CASE phase = "header"
  <2>1. Ended
    BY <1>1, <1>6, <1>10
  <2>2. k = N
    BY <1>6, <1>7, <1>8, <1>9, <1>10, <2>1
  <2> QED
    BY <1>3, <1>5, <1>8, <2>1, <2>2
<1>11. CASE phase = "data"
  <2>1. k < N /\ need = Len(Truncated(sent[k + 1])) /\ r = start[k + 1] + 2
    BY <1>6, <1>7, <1>9, <1>11
  <2>2. need = 0
    BY <1>1, <1>8, <1>9, <2>1
  <2>3. Truncated(sent[k + 1]) = <<>>
    <3>1. PICK t \in Seq(Byte) : t = Truncated(sent[k + 1]) /\ Len(t) = 0
      BY <1>9, <2>1, <2>2
    <3>2. t = <<>>
      BY <3>1
    <3> QED
      BY <3>1, <3>2
  <2> QED
    BY <1>3, <1>5, <1>6, <2>1, <2>3
<1> QED
  BY <1>1, <1>10, <1>11 DEF Receiving

----------------------------------------------------------------------------
(* The invariant is inductive                                              *)

(* An empty connection: nothing is sent, nothing taken.                    *)
LEMMA InitHolds == Init => IInv
<1> SUFFICES ASSUME Init PROVE IInv
  OBVIOUS
<1> USE DEF Init
<1>1. Len(sent) = 0 /\ Len(out) = 0 /\ Len(wire) = 0 /\ Len(got) = 0 /\ Len(part) = 0
  OBVIOUS
<1>2. TypeOK
  <2>1. Base \in Nat /\ Base >= 2 /\ Space \in Nat
    BY BaseAssumption, SpaceAssumption
  <2>2. Base * Base >= 2 * Base /\ Base * Base \in Nat
    BY <2>1
  <2>3. 2 \in 0 .. Base * Base - 1
    BY <2>1, <2>2
  <2>4. <<>> \in Seq(Byte) /\ <<>> \in Seq(Payloads) /\ <<>> \in Seq(Seq(Byte))
    OBVIOUS
  <2> QED
    BY <1>1, <2>1, <2>3, <2>4 DEF TypeOK
<1>3. OutInv /\ ExitOnlyAfterCut
  BY DEF OutInv, ExitOnlyAfterCut
<1>4. PlaceInv
  <2>1. PICK start : start = [i \in 1 .. 1 |-> 0]
    OBVIOUS
  <2>2. start \in [1 .. Len(sent) + 1 -> Nat] /\ start[1] = 0
    BY <1>1, <2>1
  <2>3. Starts(start)
    BY <1>1, <2>2 DEF Starts
  <2>4. WireInv(start, 0)
    BY <1>1, <2>2 DEF WireInv
  <2>5. ReceiverInv(start, 0)
    BY <1>1, <2>2 DEF ReceiverInv
  <2> QED
    BY <2>2, <2>3, <2>4, <2>5 DEF PlaceInv, Placed
<1> QED
  BY <1>2, <1>3, <1>4 DEF IInv

(* Whatever the sender, the connection and the receiver do.                *)
LEMMA NextKeeps == IInv /\ [Next]_vars => IInv'
<1> SUFFICES ASSUME IInv, [Next]_vars PROVE IInv'
  OBVIOUS
<1>1. TypeOK'
  BY TypeKeeps DEF IInv
<1> SUFFICES OutInv' /\ PlaceInv' /\ ExitOnlyAfterCut'
  BY <1>1 DEF IInv
<1>2. CASE \E data \in Payloads : SendPDU(data)
  BY <1>1, <1>2, SendKeeps
<1>3. CASE Transfer
  BY <1>1, <1>3, TransferKeeps
<1>4. CASE CloseWriter \/ ResetConnection
  BY <1>4, CloseKeeps
<1>5. CASE Collect
  BY <1>1, <1>5, CollectKeeps
<1>6. CASE ReadLength
  BY <1>6, ReadLengthKeeps
<1>7. CASE ReturnData
  BY <1>7, DataReturned
<1>8. CASE ReturnClosed \/ ReturnError
  <2>1. phase' \in {"closed", "failed"} /\ UNCHANGED <<sent, out, writer>>
    BY <1>8 DEF ReturnClosed, ReturnError
  <2> QED
    BY <2>1 DEF IInv, OutInv, PlaceInv, Receiving, ExitOnlyAfterCut
<1>9. CASE UNCHANGED vars
  <2>1. OutInv' /\ ExitOnlyAfterCut'
    BY <1>9 DEF vars, IInv, OutInv, ExitOnlyAfterCut, Ended
  <2>2. PlaceInv'
    <3>1. (Receiving' <=> Receiving) /\ (Broken' <=> Broken) /\ sent' = sent
      BY <1>9 DEF vars, Receiving, Broken
    <3>2. ASSUME NEW start, NEW r, Placed(start, r) PROVE Placed(start, r)'
      BY <1>9, <3>2 DEF vars, Placed, Starts, WireInv, ReceiverInv
    <3> QED
      BY <3>1, <3>2 DEF IInv, PlaceInv
  <2> QED
    BY <2>1, <2>2
<1> QED
  BY <1>2, <1>3, <1>4, <1>5, <1>6, <1>7, <1>8, <1>9 DEF Next, Receive

(* The receiver never loses its place: every byte in the connection, and   *)
(* every byte of the part it holds, is the one the framing of what was sent*)
(* puts there, until the sender breaks off.                                *)
THEOREM PlaceIsKept == Spec => []IInv
BY InitHolds, NextKeeps, PTL DEF Spec

(* Each variable has its type, and a recv never holds more than it asked.  *)
THEOREM TypeCorrect == Spec => []TypeOK
BY PlaceIsKept, PTL DEF IInv

(* No length that sendPDU made, of whatever data, ends the process of the  *)
(* receiver: only one of which a broken connection left a single byte.     *)
THEOREM ExitsOnlyAfterCut == Spec => []ExitOnlyAfterCut
BY PlaceIsKept, PTL DEF IInv

----------------------------------------------------------------------------
(* Framing implements the channel                                          *)

(* The messages of the channel: the data of each PDU.                      *)
Messages == [i \in DOMAIN sent |-> Truncated(sent[i])]

(* There is one message for each call of sendPDU.                          *)
LEMMA MessagesSent ==
  ASSUME TypeOK
  PROVE  /\ Messages \in Seq(Seq(Byte))
         /\ Len(Messages) = Len(sent)
         /\ \A i \in 1 .. Len(sent) : Messages[i] = Truncated(sent[i])
<1>1. DOMAIN sent = 1 .. Len(sent) /\ Len(sent) \in Nat
  BY DEF TypeOK
<1>2. \A i \in 1 .. Len(sent) : Truncated(sent[i]) \in Seq(Byte)
  BY TruncatedShape DEF TypeOK
<1>3. Messages = [i \in 1 .. Len(sent) |-> Truncated(sent[i])]
  BY <1>1 DEF Messages
<1> QED
  BY <1>1, <1>2, <1>3

(* The receiver has its place when it has every message before the next.   *)
LEMMA InPlace ==
  ASSUME TypeOK, Receiving, Len(got) < Len(sent),
         \A i \in 1 .. Len(got) : got[i] = Truncated(sent[i])
  PROVE  Channel!Pending /\ Channel!NextMessage = Truncated(sent[Len(got) + 1])
<1>1. PICK k \in Nat, N \in Nat : k = Len(got) /\ N = Len(sent) /\ k < N
  BY DEF TypeOK
<1>2. PICK m \in Seq(Seq(Byte)) : m = Messages /\ Len(m) = N
                                  /\ \A i \in 1 .. N : m[i] = Truncated(sent[i])
  BY <1>1, MessagesSent
<1>3. /\ SubSeq(m, 1, k) \in Seq(Seq(Byte)) /\ Len(SubSeq(m, 1, k)) = k
      /\ \A i \in 1 .. k : SubSeq(m, 1, k)[i] = m[i]
  <2>1. \A i \in 1 .. k : m[i] \in Seq(Byte)
    BY <1>1, <1>2
  <2> QED
    BY <1>1, <1>2, <2>1
<1>4. got = SubSeq(m, 1, k)
  <2>1. PICK g \in Seq(Seq(Byte)) : g = got /\ Len(g) = k
    BY <1>1 DEF TypeOK
  <2>2. \A i \in 1 .. k : g[i] = SubSeq(m, 1, k)[i]
    BY <1>1, <1>2, <1>3, <2>1
  <2>3. g = SubSeq(m, 1, k)
    BY <1>3, <2>1, <2>2
  <2> QED
    BY <2>1, <2>3
<1>5. Channel!Pending
  BY <1>1, <1>2, <1>4 DEF Channel!Pending, Messages, Receiving
<1>6. Channel!NextMessage = m[k + 1]
  BY <1>1, <1>2 DEF Channel!NextMessage, Messages
<1> QED
  BY <1>1, <1>2, <1>5, <1>6

(* An empty stream is an empty channel.                                    *)
LEMMA InitImplements == Init => Channel!Init
<1> SUFFICES ASSUME Init PROVE Channel!Init
  OBVIOUS
<1>1. Messages = <<>>
  <2>1. sent = <<>> /\ DOMAIN sent = {}
    BY DEF Init
  <2> QED
    BY <2>1 DEF Messages
<1> QED
  BY <1>1 DEF Init, Channel!Init, Messages

(* Every step of the stream is a step of the channel, or none.             *)
LEMMA StepImplements ==
  ASSUME IInv, IInv', [Next]_vars
  PROVE  [Channel!Next]_(Channel!vars)
<1> USE DEF receiverVars
<1>1. TypeOK /\ TypeOK'
  BY DEF IInv
<1>2. ASSUME UNCHANGED <<sent, got>>, (Receiving' <=> Receiving),
             writer' = writer
      PROVE  UNCHANGED Channel!vars
  BY <1>2 DEF Channel!vars, Receiving
<1>3. ASSUME NEW data \in Payloads, SendPDU(data) PROVE Channel!Next
  <2>1. /\ writer = "open" /\ sent' = Append(sent, data)
        /\ UNCHANGED <<writer, got, phase>>
    BY <1>3 DEF SendPDU
  <2>2. Messages' = Append(Messages, Truncated(data))
    <3>1. PICK N \in Nat : N = Len(sent)
      BY <1>1 DEF TypeOK
    <3>2. Len(sent') = N + 1 /\ sent'[N + 1] = data /\ \A i \in 1 .. N : sent'[i] = sent[i]
      BY <1>1, <2>1, <3>1, AppendProperties DEF TypeOK
    <3>3. PICK m \in Seq(Seq(Byte)) : m = Messages /\ Len(m) = N
                                      /\ \A i \in 1 .. N : m[i] = Truncated(sent[i])
      BY <1>1, <3>1, MessagesSent
    <3>4. /\ Messages' = [i \in 1 .. N + 1 |-> Truncated(sent'[i])]
      <4>1. DOMAIN sent' = 1 .. N + 1
        BY <1>1, <3>1, <3>2 DEF TypeOK
      <4> QED
        BY <4>1 DEF Messages
    <3>5. Truncated(data) \in Seq(Byte)
      BY TruncatedShape
    <3>6. PICK a \in Seq(Seq(Byte)) : /\ a = Append(m, Truncated(data)) /\ Len(a) = N + 1
                                      /\ \A i \in 1 .. N : a[i] = m[i]
                                      /\ a[N + 1] = Truncated(data)
      <4>1. PICK last \in Seq(Byte) : last = Truncated(data)
        BY <3>5
      <4>2. /\ Append(m, last) \in Seq(Seq(Byte)) /\ Len(Append(m, last)) = N + 1
            /\ \A i \in 1 .. N : Append(m, last)[i] = m[i]
            /\ Append(m, last)[N + 1] = last
        BY <3>3, AppendProperties
      <4> QED
        BY <4>1, <4>2
    <3>7. \A i \in 1 .. N + 1 : a[i] = Truncated(sent'[i])
      BY <3>2, <3>3, <3>6
    <3>8. a = [i \in 1 .. N + 1 |-> Truncated(sent'[i])]
      <4>1. a \in [1 .. N + 1 -> Seq(Byte)]
        <5>1. a \in [1 .. Len(a) -> Seq(Byte)]
          BY LenProperties
        <5> QED
          BY <3>6, <5>1
      <4>2. a = [i \in 1 .. N + 1 |-> a[i]]
        BY <3>6, <4>1
      <4> QED
        BY <3>7, <4>2
    <3> QED
      BY <3>3, <3>4, <3>6, <3>8
  <2>3. Channel!Send(Truncated(data))
    BY <2>1, <2>2 DEF Channel!Send, Messages
  <2>4. Truncated(data) \in {Truncated(d) : d \in Payloads}
    OBVIOUS
  <2> QED
    BY <2>3, <2>4 DEF Channel!Next
<1>4. ASSUME Transfer \/ Collect PROVE UNCHANGED Channel!vars
  BY <1>2, <1>4 DEF Transfer, Collect, Receiving
<1>5. ASSUME CloseWriter PROVE Channel!Next
  <2>1. Channel!Close \/ Channel!Break
    BY <1>5 DEF CloseWriter, Channel!Close, Channel!Break
  <2> QED
    BY <2>1 DEF Channel!Next
<1>6. ASSUME ResetConnection PROVE Channel!Next
  <2>1. Channel!Break
    BY <1>6 DEF ResetConnection, Channel!Break
  <2> QED
    BY <2>1 DEF Channel!Next
<1>7. ASSUME ReadLength PROVE [Channel!Next]_(Channel!vars)
  <2>1. /\ UNCHANGED <<sent, writer, got>> /\ phase = "header"
        /\ phase' = "data" \/ phase' = "exited"
    BY <1>7 DEF ReadLength, AskForData
  <2>2. CASE phase' = "data"
    BY <1>2, <2>1, <2>2 DEF Receiving
  <2>3. CASE phase' = "exited"
    <3>1. writer \in {"cut", "reset"}
      BY <1>7, <2>3, ReadLengthKeeps
    <3>2. Channel!ReportEnd
      BY <2>1, <2>3, <3>1 DEF Channel!ReportEnd
    <3> QED
      BY <3>2 DEF Channel!Next
  <2> QED
    BY <2>1, <2>2, <2>3
<1>8. ASSUME ReturnData PROVE Channel!Next
  <2>1. /\ part # <<>> /\ got' = Append(got, part) /\ Receiving
        /\ UNCHANGED <<sent, writer>> /\ Receiving'
    BY <1>8 DEF ReturnData, Receiving
  <2>2. Channel!Pending /\ Channel!NextMessage = Truncated(sent[Len(got) + 1])
    BY <1>1, <1>8, <2>1, DataReturned, InPlace
  <2>3. CASE part = Truncated(sent[Len(got) + 1])
    <3>1. Channel!Deliver
      BY <2>1, <2>2, <2>3 DEF Channel!Deliver, Receiving
    <3> QED
      BY <3>1 DEF Channel!Next
  <2>4. CASE /\ writer \in {"cut", "reset"}
             /\ Len(part) \in 1 .. Len(Truncated(sent[Len(got) + 1])) - 1
             /\ part = SubSeq(Truncated(sent[Len(got) + 1]), 1, Len(part))
    <3>1. \E n \in 1 .. Len(Channel!NextMessage) - 1 :
            got' = Append(got, SubSeq(Channel!NextMessage, 1, n))
      <4>1. Len(part) \in 1 .. Len(Channel!NextMessage) - 1
        BY <2>2, <2>4
      <4>2. got' = Append(got, SubSeq(Channel!NextMessage, 1, Len(part)))
        BY <2>1, <2>2, <2>4
      <4> QED
        BY <4>1, <4>2
    <3>2. Channel!DeliverCut
      BY <2>1, <2>2, <2>4, <3>1 DEF Channel!DeliverCut, Receiving
    <3> QED
      BY <3>2 DEF Channel!Next
  <2> QED
    BY <1>8, <2>3, <2>4, DataReturned
<1>9. ASSUME ReturnClosed PROVE Channel!Next
  <2>1. Receiving /\ phase' = "closed" /\ UNCHANGED <<sent, writer, got>>
    BY <1>9 DEF ReturnClosed, Receiving
  <2>2. CASE writer \in {"cut", "reset"}
    <3>1. Channel!ReportEnd
      BY <2>1, <2>2 DEF Channel!ReportEnd, Receiving
    <3> QED
      BY <3>1 DEF Channel!Next
  <2>3. CASE writer = "closed" /\ Len(got) = Len(sent)
    <3>1. Len(Messages) = Len(sent)
      BY <1>1, MessagesSent
    <3>2. Channel!ReportEnd
      BY <2>1, <2>3, <3>1 DEF Channel!ReportEnd, Receiving, Messages
    <3> QED
      BY <3>2 DEF Channel!Next
  <2>4. CASE /\ Len(got) < Len(sent)
             /\ \A i \in 1 .. Len(got) : got[i] = Truncated(sent[i])
             /\ Truncated(sent[Len(got) + 1]) = <<>>
    <3>1. Channel!Pending /\ Channel!NextMessage = <<>>
      BY <1>1, <2>1, <2>4, InPlace
    <3>2. Channel!ReportEnd
      BY <2>1, <3>1 DEF Channel!ReportEnd, Receiving
    <3> QED
      BY <3>2 DEF Channel!Next
  <2> QED
    BY <1>9, <2>2, <2>3, <2>4, EndHasCause
<1>10. ASSUME ReturnError PROVE Channel!Next
  <2>1. Channel!ReportEnd
    BY <1>10 DEF ReturnError, Channel!ReportEnd
  <2> QED
    BY <2>1 DEF Channel!Next
<1>11. ASSUME UNCHANGED vars PROVE UNCHANGED Channel!vars
  BY <1>2, <1>11 DEF vars, Receiving
<1> QED
  BY <1>3, <1>4, <1>5, <1>6, <1>7, <1>8, <1>9, <1>10, <1>11 DEF Next, Receive

(* Data arrives whole, in order and once, and then the end is told; only   *)
(* what came last may be short, after a sender that broke off.  (That the  *)
(* channel also delivers is liveness.)                                     *)
THEOREM FramingImplementsChannel ==
  Spec => Channel!Init /\ [][Channel!Next]_(Channel!vars)
BY PlaceIsKept, InitImplements, StepImplements, PTL DEF Spec
=============================================================================
