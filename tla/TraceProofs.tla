---------------------------- MODULE TraceProofs ----------------------------
(***************************************************************************)
(* Of every file of packets, true or not: what the trace reads of a well-  *)
(* formed packet is inside it, what it sums is what the checksums are      *)
(* defined over, and what it prints of ports and flags is what was sent.   *)
(* All three need that the header printed next is the one the packet       *)
(* itself announces (HeaderInv).                                           *)
(***************************************************************************)
EXTENDS Trace, TLAPS

----------------------------------------------------------------------------
(* The conversions                                                         *)

(* The two ways of turning two bytes into a port agree with the network's: *)
(* ntohs of both bytes read at once, and ntohs of the first or'ed with the *)
(* second.                                                                 *)
LEMMA PortsAsSent ==
  ASSUME NEW bytes \in [1 .. 2 -> 0 .. 255]
  PROVE  /\ TcpPort(bytes) = 256 * bytes[1] + bytes[2]
         /\ UdpPort(bytes) = 256 * bytes[1] + bytes[2]
<1> DEFINE high == bytes[1]
           low == bytes[2]
<1>1. high \in 0 .. 255 /\ low \in 0 .. 255
  OBVIOUS
<1>2. TcpPort(bytes) = 256 * ((high + 256 * low) % 256) + (high + 256 * low) \div 256
  BY DEF TcpPort, Ntohs, Load16
<1>3. UdpPort(bytes) = 256 * (high % 256) + high \div 256 + low
  BY DEF UdpPort, Ntohs
<1> HIDE DEF high, low
<1>4. (high + 256 * low) % 256 = high /\ (high + 256 * low) \div 256 = low
  BY <1>1
<1>5. high % 256 = high /\ high \div 256 = 0
  BY <1>1
<1>6. TcpPort(bytes) = 256 * high + low /\ UdpPort(bytes) = 256 * high + low
  BY <1>1, <1>2, <1>3, <1>4, <1>5
<1> QED
  BY <1>6 DEF high, low

(* FIN, SYN, RST and ACK are the bits 0, 1, 2 and 4 of the flags.          *)
LEMMA FlagsUnderTheirNames ==
  ASSUME NEW word \in Nat, word < 64
  PROVE  /\ "FIN" \in FlagLines(word) <=> word % 2 = 1
         /\ "SYN" \in FlagLines(word) <=> word % 4 >= 2
         /\ "RST" \in FlagLines(word) <=> word % 8 >= 4
         /\ "ACK" \in FlagLines(word) <=> word % 32 >= 16
<1>1. "FIN" \in FlagLines(word) <=> Bit(word, 1)
  BY DEF FlagLines
<1>2. "RST" \in FlagLines(word) <=> Bit(word, 4)
  BY DEF FlagLines
<1>3. word \div 1 = word
  OBVIOUS
<1>4. (word \div 4) % 2 = 1 <=> word % 8 >= 4
  OBVIOUS
<1>5. "SYN" \in FlagLines(word) <=> Bit(word, 2)
  BY DEF FlagLines
<1>6. "ACK" \in FlagLines(word) <=> Bit(word, 16)
  BY DEF FlagLines
<1>7. (word \div 2) % 2 = 1 <=> word % 4 >= 2
  OBVIOUS
<1>8. (word \div 16) % 2 = 1 <=> word % 32 >= 16
  OBVIOUS
<1> QED
  BY <1>1, <1>2, <1>3, <1>4, <1>5, <1>6, <1>7, <1>8 DEF Bit

(* The length field of the IP header counts words of four bytes.           *)
LEMMA HeaderIsWords ==
  ASSUME NEW ihl \in Nat, ihl < 16
  PROVE  HeaderBytes(ihl) = 4 * ihl
BY DEF HeaderBytes

(* The length of the segment does not wrap when the lengths are true.      *)
LEMMA SegmentLength ==
  ASSUME NEW f \in Frames, WellFormed(f), f.type = IP
  PROVE  TcpLength(f) = f.total - 4 * f.ihl
<1>1. f.total \in Nat /\ f.total < 65536 /\ f.ihl \in Nat /\ f.ihl < 16 /\ f.protocol \in Nat
  BY FrameAssumption
<1>2. HeaderBytes(f.ihl) = 4 * f.ihl
  BY <1>1, HeaderIsWords
<1>3. Shortest(f.protocol) \in Nat
  BY <1>1 DEF Shortest
<1>4. f.total >= 4 * f.ihl
  BY <1>1, <1>3 DEF WellFormed
<1> QED
  BY <1>1, <1>2, <1>4 DEF TcpLength

----------------------------------------------------------------------------
(* The inductive invariant                                                 *)

TypeInv ==
  /\ frame \in Frames \cup {NoFrame}
  /\ header \in {"next", "end", "arp", "ip", "icmp", "udp", "tcp"}
  /\ extent \in Nat

(* The header printed next is announced by those before it.                *)
HeaderInv ==
  /\ header = "arp" => frame \in Frames /\ frame.type = ARP
  /\ header = "ip" => frame \in Frames /\ frame.type = IP
  /\ header = "icmp" => frame \in Frames /\ frame.type = IP /\ frame.protocol = ICMP
  /\ header = "udp" => frame \in Frames /\ frame.type = IP /\ frame.protocol = UDP
  /\ header = "tcp" => frame \in Frames /\ frame.type = IP /\ frame.protocol = TCP

(* Nothing is shown before there is a packet to show.                      *)
ShownInv == frame = NoFrame => shown = NothingShown

IInv ==
  /\ TypeInv
  /\ HeaderInv
  /\ ShownInv
  /\ ReadsInsideFrame
  /\ ChecksumsCoverTheirData
  /\ FieldsAsSent

(* What FrameAssumption says of the packet being printed.                  *)
LEMMA FieldTypes ==
  ASSUME frame \in Frames
  PROVE  /\ frame # NoFrame
         /\ frame.caplen \in Nat /\ frame.type \in Nat
         /\ frame.ihl \in Nat /\ frame.total \in Nat /\ frame.total < 65536
         /\ frame.protocol \in Nat /\ frame.flags \in Nat /\ frame.flags < 64
         /\ frame.source \in [1 .. 2 -> 0 .. 255]
         /\ frame.dest \in [1 .. 2 -> 0 .. 255]
         /\ HeaderBytes(frame.ihl) = 4 * frame.ihl
         /\ TransportAt = 14 + 4 * frame.ihl
<1>1. frame.ihl \in Nat /\ frame.ihl < 16
  BY FrameAssumption
<1> QED
  BY <1>1, FrameAssumption, HeaderIsWords DEF TransportAt

(* Before the first packet there is none.                                  *)
LEMMA InitHolds == Init => IInv
BY DEF Init, IInv, TypeInv, HeaderInv, ShownInv, ReadsInsideFrame,
       ChecksumsCoverTheirData, FieldsAsSent

(* A new packet begins with nothing summed or shown.                       *)
LEMMA EthernetKeeps == IInv /\ PrintEthernetHeader => IInv'
<1> SUFFICES ASSUME IInv, PrintEthernetHeader PROVE IInv'
  OBVIOUS
<1> USE DEF PrintEthernetHeader
<1>1. frame' \in Frames /\ frame' # NoFrame
  BY FrameAssumption
<1>2. TypeInv'
  BY <1>1 DEF TypeInv, HeaderOf
<1>3. HeaderInv'
  BY <1>1 DEF HeaderInv, HeaderOf, ARP, IP
<1>4. ReadsInsideFrame'
  <2>1. frame'.caplen \in Nat
    BY <1>1, FrameAssumption
  <2> QED
    BY <2>1 DEF ReadsInsideFrame, WellFormed
<1>5. ChecksumsCoverTheirData'
  BY DEF ChecksumsCoverTheirData
<1>6. ShownInv' /\ FieldsAsSent'
  BY DEF ShownInv, FieldsAsSent
<1> QED
  BY <1>2, <1>3, <1>4, <1>5, <1>6 DEF IInv

(* The end of the file leaves what was printed last.                       *)
LEMMA EndKeeps == IInv /\ EndOfFile => IInv'
BY DEF EndOfFile, IInv, TypeInv, HeaderInv, ShownInv, ReadsInsideFrame,
       ChecksumsCoverTheirData, FieldsAsSent

(* An ARP header is 28 bytes.                                              *)
LEMMA ARPKeeps == IInv /\ PrintARPHeader => IInv'
<1> SUFFICES ASSUME IInv, PrintARPHeader PROVE IInv'
  OBVIOUS
<1> USE DEF PrintARPHeader, IInv
<1>1. frame \in Frames /\ frame.type = ARP
  BY DEF HeaderInv
<1>2. TypeInv' /\ HeaderInv' /\ ShownInv'
  BY DEF TypeInv, HeaderInv, ShownInv, ReadUpTo
<1>3. ReadsInsideFrame'
  BY <1>1, FieldTypes DEF ReadsInsideFrame, WellFormed, ReadUpTo, TypeInv
<1>4. ChecksumsCoverTheirData' /\ FieldsAsSent'
  BY DEF ChecksumsCoverTheirData, FieldsAsSent
<1> QED
  BY <1>2, <1>3, <1>4

(* The IP header is summed over its whole length, and announces one header *)
(* at most.                                                                *)
LEMMA IPKeeps == IInv /\ PrintIPHeader => IInv'
<1> SUFFICES ASSUME IInv, PrintIPHeader PROVE IInv'
  OBVIOUS
<1> USE DEF IInv
<1>1. frame \in Frames /\ frame.type = IP
  BY DEF HeaderInv, PrintIPHeader
<1>2. /\ frame' = frame /\ shown' = shown
      /\ summed' = [from |-> 14, to |-> 14 + 4 * frame.ihl]
      /\ extent' = LET end == 14 + 4 * frame.ihl
                       n == IF end > 34 THEN end ELSE 34
                   IN IF n > extent THEN n ELSE extent
      /\ header' = CASE frame.protocol = ICMP -> "icmp"
                     [] frame.protocol = UDP -> "udp"
                     [] frame.protocol = TCP -> "tcp"
                     [] OTHER -> "next"
  BY <1>1, FieldTypes DEF PrintIPHeader, IPSummed, ReadUpTo
<1>3. TypeInv'
  BY <1>1, <1>2, FieldTypes DEF TypeInv
<1>4. HeaderInv'
  BY <1>1, <1>2 DEF HeaderInv
<1>5. ReadsInsideFrame'
  <2> SUFFICES ASSUME WellFormed(frame) PROVE extent' <= frame.caplen
    BY <1>2 DEF ReadsInsideFrame
  <2>1. extent <= frame.caplen
    BY <1>1, FieldTypes DEF ReadsInsideFrame
  <2>2. Shortest(frame.protocol) \in Nat
    BY <1>1, FieldTypes DEF Shortest
  <2>3. /\ frame.ihl >= 5
        /\ frame.total >= 4 * frame.ihl
        /\ frame.caplen >= 14 + frame.total
    BY <1>1, <2>2, FieldTypes DEF WellFormed
  <2> QED
    BY <1>1, <1>2, <2>1, <2>3, FieldTypes DEF TypeInv
<1>6. ChecksumsCoverTheirData'
  BY <1>2 DEF ChecksumsCoverTheirData
<1>7. ShownInv' /\ FieldsAsSent'
  BY <1>2 DEF ShownInv, FieldsAsSent
<1> QED
  BY <1>3, <1>4, <1>5, <1>6, <1>7

(* What a well-formed IP packet holds behind its header.                   *)
LEMMA TransportIsThere ==
  ASSUME frame \in Frames, frame.type = IP, WellFormed(frame)
  PROVE  /\ frame.protocol = ICMP => TransportAt + 1 <= frame.caplen
         /\ frame.protocol = UDP => TransportAt + 4 <= frame.caplen
         /\ frame.protocol = TCP => TransportAt + 18 <= frame.caplen
         /\ TransportAt + TcpLength(frame) = 14 + frame.total
         /\ 14 + frame.total <= frame.caplen
<1>1. /\ frame.total >= 4 * frame.ihl + Shortest(frame.protocol)
      /\ frame.caplen >= 14 + frame.total
  BY DEF WellFormed
<1>2. /\ frame.protocol = ICMP => Shortest(frame.protocol) = 8
      /\ frame.protocol = UDP => Shortest(frame.protocol) = 8
      /\ frame.protocol = TCP => Shortest(frame.protocol) = 20
  BY DEF Shortest, ICMP, UDP, TCP
<1>3. TcpLength(frame) = frame.total - 4 * frame.ihl
  BY SegmentLength
<1> QED
  BY <1>1, <1>2, <1>3, FieldTypes

(* Of ICMP one byte is read, and nothing is summed or shown.               *)
LEMMA ICMPKeeps == IInv /\ PrintICMPHeader => IInv'
<1> SUFFICES ASSUME IInv, PrintICMPHeader PROVE IInv'
  OBVIOUS
<1> USE DEF PrintICMPHeader, IInv
<1>1. frame \in Frames /\ frame.type = IP /\ frame.protocol = ICMP
  BY DEF HeaderInv
<1>2. TypeInv' /\ HeaderInv' /\ ShownInv'
  BY <1>1, FieldTypes DEF TypeInv, HeaderInv, ShownInv, ReadUpTo
<1>3. ReadsInsideFrame'
  <2> SUFFICES ASSUME WellFormed(frame) PROVE extent' <= frame.caplen
    BY DEF ReadsInsideFrame
  <2> QED
    BY <1>1, FieldTypes, TransportIsThere DEF ReadsInsideFrame, ReadUpTo, TypeInv
<1>4. ChecksumsCoverTheirData' /\ FieldsAsSent'
  BY DEF ChecksumsCoverTheirData, FieldsAsSent
<1> QED
  BY <1>2, <1>3, <1>4

(* The ports of a UDP header are shown, and no flag.                       *)
LEMMA UDPKeeps == IInv /\ PrintUDPHeader => IInv'
<1> SUFFICES ASSUME IInv, PrintUDPHeader PROVE IInv'
  OBVIOUS
<1> USE DEF PrintUDPHeader, IInv
<1>1. frame \in Frames /\ frame.type = IP /\ frame.protocol = UDP
  BY DEF HeaderInv
<1>2. TypeInv' /\ HeaderInv' /\ ShownInv'
  BY <1>1, FieldTypes DEF TypeInv, HeaderInv, ShownInv, ReadUpTo
<1>3. ReadsInsideFrame'
  <2> SUFFICES ASSUME WellFormed(frame) PROVE extent' <= frame.caplen
    BY DEF ReadsInsideFrame
  <2> QED
    BY <1>1, FieldTypes, TransportIsThere DEF ReadsInsideFrame, ReadUpTo, TypeInv
<1>4. ChecksumsCoverTheirData'
  BY DEF ChecksumsCoverTheirData
<1>5. FieldsAsSent'
  <2>1. /\ shown'.source = UdpPort(frame.source)
        /\ shown'.dest = UdpPort(frame.dest)
        /\ shown'.flags = {}
    OBVIOUS
  <2>2. frame.protocol # TCP
    BY <1>1 DEF UDP, TCP
  <2> QED
    BY <1>1, <2>1, <2>2, FieldTypes, PortsAsSent DEF FieldsAsSent
<1> QED
  BY <1>2, <1>3, <1>4, <1>5

(* The TCP segment is summed to the end the IP header gives it; without    *)
(* memory for the copy nothing is read.                                    *)
LEMMA TCPKeeps == IInv /\ PrintTCPHeader => IInv'
<1> SUFFICES ASSUME IInv, PrintTCPHeader PROVE IInv'
  OBVIOUS
<1> USE DEF IInv
<1>1. /\ frame \in Frames /\ frame.type = IP /\ frame.protocol = TCP
      /\ frame' = frame /\ header' = "next"
  BY DEF HeaderInv, PrintTCPHeader
<1>2. HeaderInv'
  BY <1>1 DEF HeaderInv
<1>3. CASE UNCHANGED <<extent, summed, shown>>
  BY <1>1, <1>2, <1>3 DEF TypeInv, ShownInv, ReadsInsideFrame,
                          ChecksumsCoverTheirData, FieldsAsSent
<1>4. CASE /\ ReadUpTo(IF TransportAt + TcpLength(frame) > TransportAt + 18
                       THEN TransportAt + TcpLength(frame) ELSE TransportAt + 18)
           /\ summed' = [from |-> TransportAt, to |-> TransportAt + TcpLength(frame)]
           /\ shown' = [source |-> TcpPort(frame.source), dest |-> TcpPort(frame.dest),
                        flags |-> FlagLines(frame.flags)]
  <2>1. TcpLength(frame) \in Nat
    BY <1>1, FieldTypes DEF TcpLength
  <2>2. TypeInv'
    BY <1>1, <1>4, <2>1, FieldTypes DEF TypeInv, ReadUpTo
  <2>3. ReadsInsideFrame' /\ ChecksumsCoverTheirData'
    <3> SUFFICES ASSUME WellFormed(frame)
                 PROVE  /\ extent' <= frame.caplen
                        /\ summed' = [from |-> 14 + 4 * frame.ihl, to |-> 14 + frame.total]
      BY <1>1 DEF ReadsInsideFrame, ChecksumsCoverTheirData
    <3>1. extent <= frame.caplen
      BY <1>1, FieldTypes DEF ReadsInsideFrame
    <3> QED
      BY <1>1, <1>4, <2>1, <3>1, FieldTypes, TransportIsThere DEF ReadUpTo, TypeInv
  <2>4. FieldsAsSent'
    <3>1. /\ shown'.source = 256 * frame.source[1] + frame.source[2]
          /\ shown'.dest = 256 * frame.dest[1] + frame.dest[2]
      BY <1>1, <1>4, FieldTypes, PortsAsSent
    <3>2. /\ "FIN" \in shown'.flags <=> frame.flags % 2 = 1
          /\ "SYN" \in shown'.flags <=> frame.flags % 4 >= 2
          /\ "RST" \in shown'.flags <=> frame.flags % 8 >= 4
          /\ "ACK" \in shown'.flags <=> frame.flags % 32 >= 16
      BY <1>1, <1>4, FieldTypes, FlagsUnderTheirNames
    <3> QED
      BY <1>1, <3>1, <3>2 DEF FieldsAsSent
  <2>5. ShownInv'
    BY <1>1, FieldTypes DEF ShownInv
  <2> QED
    BY <1>2, <2>2, <2>3, <2>4, <2>5
<1> QED
  BY <1>3, <1>4 DEF PrintTCPHeader

(* The invariant is inductive.                                             *)
LEMMA NextKeeps == IInv /\ [Next]_vars => IInv'
<1> SUFFICES ASSUME IInv, [Next]_vars PROVE IInv'
  OBVIOUS
<1>1. CASE UNCHANGED vars
  BY <1>1 DEF vars, IInv, TypeInv, HeaderInv, ShownInv, ReadsInsideFrame,
              ChecksumsCoverTheirData, FieldsAsSent
<1> QED
  BY <1>1, EthernetKeeps, EndKeeps, ARPKeeps, IPKeeps, ICMPKeeps, UDPKeeps, TCPKeeps
     DEF Next

----------------------------------------------------------------------------
(* Whatever the file holds, the packet on display is the one whose headers *)
(* are printed and the invariant above holds.                              *)
THEOREM IInvHolds == Spec => []IInv
BY InitHolds, NextKeeps, PTL DEF Spec

(* Of a well-formed packet no byte past the captured ones is read: not by  *)
(* the copy of the TCP segment, whose length is a difference of two fields *)
(* of the packet cut to 16 bits, nor by options.                           *)
THEOREM ReadsStayInside == Spec => []ReadsInsideFrame
BY IInvHolds, PTL DEF IInv

(* The two checksums of a well-formed packet are taken over the bytes they *)
(* are defined over.                                                       *)
THEOREM ChecksumsAreWhole == Spec => []ChecksumsCoverTheirData
BY IInvHolds, PTL DEF IInv

(* Every port and flag printed is the one in the packet, for all values of *)
(* the bytes.                                                              *)
THEOREM FieldsStayAsSent == Spec => []FieldsAsSent
BY IInvHolds, PTL DEF IInv
=============================================================================
