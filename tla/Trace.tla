------------------------------- MODULE Trace -------------------------------
(***************************************************************************)
(* The packet trace (Program1/trace.c): for each packet of a capture file  *)
(* it prints the Ethernet header and, as far as it knows them, the headers *)
(* inside.  Which bytes are read is followed as ranges; of the fields only *)
(* those are here that later offsets or lines depend on.                   *)
(* libpcap and in_cksum are not part of the repository.  The host is       *)
(* little-endian, so ntohs swaps.                                          *)
(***************************************************************************)
EXTENDS Integers, FiniteSets

CONSTANTS
  Frames,         \* the packets a file may hold: see FrameAssumption
  MaxPackets,     \* bound of the model: the packets in a file
  AllocMayFail,   \* whether malloc may fail
  NoFrame         \* no packet is being printed

ARP == 2054   \* 0x0806
IP == 2048    \* 0x0800
ICMP == 1
TCP == 6
UDP == 17

(* caplen: the bytes captured; type: bytes 12 and 13; ihl, total and       *)
(* protocol: of the IP header; port: two bytes each, and flags: the TCP    *)
(* flags, of the transport header.                                         *)
ASSUME FrameAssumption ==
  /\ \A f \in Frames :
       /\ {f.caplen, f.type, f.ihl, f.total, f.protocol, f.flags} \subseteq Nat
       /\ f.type < 65536 /\ f.ihl < 16 /\ f.total < 65536
       /\ f.protocol < 256 /\ f.flags < 64
       /\ f.source \in [1 .. 2 -> 0 .. 255] /\ f.dest \in [1 .. 2 -> 0 .. 255]
  /\ NoFrame \notin Frames

VARIABLES
  frame,      \* the packet being printed, or NoFrame
  header,     \* the header to be printed next, "next" when the packet is
              \* done, "end" after the file
  packetNum,  \* packetNum
  extent,     \* history: one more than the last byte read of the packet
  summed,     \* history: the bytes of the packet the last checksum covered
  shown       \* what the lines of the transport header say

vars == <<frame, header, packetNum, extent, summed, shown>>

NothingSummed == [from |-> 0, to |-> 0]
NothingShown == [source |-> 0, dest |-> 0, flags |-> {}]

Init ==
  /\ frame = NoFrame
  /\ header = "next"
  /\ packetNum = 1
  /\ extent = 0
  /\ summed = NothingSummed
  /\ shown = NothingShown

ReadUpTo(n) == extent' = IF n > extent THEN n ELSE extent

----------------------------------------------------------------------------
(* Conversions                                                             *)

Ntohs(x) == 256 * (x % 256) + x \div 256

(* Two bytes read at once, low byte first.                                 *)
Load16(bytes) == bytes[1] + 256 * bytes[2]

HeaderBytes(ihl) == (ihl * 32) \div 8

(* uint16_t tcpLength = ipTotalLength - IPHeaderLength                     *)
RestOfFrame(f) == f.caplen - 14 - HeaderBytes(f.ihl)   \* mutant: with the padding
WholeLength(f) == f.total   \* mutant: from the IP header on
TcpLength(f) == (f.total - HeaderBytes(f.ihl)) % 65536

TcpPort(bytes) == Ntohs(Load16(bytes))

(* ntohs of the first byte, or'ed with the second.                         *)
UdpPort(bytes) == Ntohs(bytes[1]) + bytes[2]

(* The lines that say Yes.                                                 *)
Bit(word, mask) == (word \div mask) % 2 = 1
FlagsAsNamed(word) ==   \* mutant: the variables fin and rst printed under their names
  {f \in {"SYN", "RST", "FIN", "ACK"} :
     Bit(word, CASE f = "SYN" -> 2 [] f = "RST" -> 1 [] f = "FIN" -> 4 [] f = "ACK" -> 16)}
FlagLines(word) ==
  {f \in {"SYN", "RST", "FIN", "ACK"} :
     Bit(word, CASE f = "SYN" -> 2 [] f = "RST" -> 4 [] f = "FIN" -> 1 [] f = "ACK" -> 16)}

----------------------------------------------------------------------------
(* One action per header.                                                  *)

(* getType; after another type the packet is done.                         *)
HeaderOf(type) == CASE type = ARP -> "arp" [] type = IP -> "ip" [] OTHER -> "next"

(* pcap_next and the Ethernet header.                                      *)
PrintEthernetHeader ==
  /\ header = "next"
  /\ packetNum <= MaxPackets
  /\ frame' \in Frames
  /\ header' = HeaderOf(frame'.type)
  /\ packetNum' = packetNum + 1
  /\ extent' = 14
  /\ summed' = NothingSummed
  /\ shown' = NothingShown

(* pcap_next returns NULL, at the end of the file and at an error in it.   *)
EndOfFile ==
  /\ header = "next"
  /\ header' = "end"
  /\ UNCHANGED <<frame, packetNum, extent, summed, shown>>

PrintARPHeader ==
  /\ header = "arp"
  /\ header' = "next"
  /\ ReadUpTo(42)
  /\ UNCHANGED <<frame, packetNum, summed, shown>>

(* The fixed part of the header, and its checksum.                         *)
IPSummed(f) == [from |-> 14, to |-> 14 + HeaderBytes(f.ihl)]

PrintIPHeader ==
  LET end == IPSummed(frame).to IN
  /\ header = "ip"
  /\ header' = CASE frame.protocol = ICMP -> "icmp"
                 [] frame.protocol = UDP -> "udp"
                 [] frame.protocol = TCP -> "tcp"
                 [] OTHER -> "next"
  /\ summed' = IPSummed(frame)
  /\ ReadUpTo(IF end > 34 THEN end ELSE 34)
  /\ UNCHANGED <<frame, packetNum, shown>>

TransportAt == 14 + HeaderBytes(frame.ihl)

PrintICMPHeader ==
  /\ header = "icmp"
  /\ header' = "next"
  /\ ReadUpTo(TransportAt + 1)
  /\ UNCHANGED <<frame, packetNum, summed, shown>>

PrintUDPHeader ==
  /\ header = "udp"
  /\ header' = "next"
  /\ ReadUpTo(TransportAt + 4)
  /\ shown' = [source |-> UdpPort(frame.source), dest |-> UdpPort(frame.dest), flags |-> {}]
  /\ UNCHANGED <<frame, packetNum, summed>>

(* The segment is copied behind a pseudo header to be summed, then the     *)
(* fields up to the checksum are read where they are.                      *)
PrintTCPHeader ==
  /\ header = "tcp"
  /\ header' = "next"
  /\ \/ /\ LET end == TransportAt + TcpLength(frame) IN
             /\ ReadUpTo(IF end > TransportAt + 18 THEN end ELSE TransportAt + 18)
             /\ summed' = [from |-> TransportAt, to |-> end]
        /\ shown' = [source |-> TcpPort(frame.source), dest |-> TcpPort(frame.dest),
                     flags |-> FlagLines(frame.flags)]
     \/ /\ AllocMayFail
        /\ UNCHANGED <<extent, summed, shown>>
  /\ UNCHANGED <<frame, packetNum>>

Next ==
  \/ PrintEthernetHeader
  \/ EndOfFile
  \/ PrintARPHeader
  \/ PrintIPHeader
  \/ PrintICMPHeader
  \/ PrintUDPHeader
  \/ PrintTCPHeader

Spec == Init /\ [][Next]_vars

----------------------------------------------------------------------------
(* A packet captured to its end whose lengths are true: every header the   *)
(* one before promises is there.                                           *)
Shortest(protocol) ==
  CASE protocol = TCP -> 20 [] protocol = UDP -> 8 [] protocol = ICMP -> 8 [] OTHER -> 0

WellFormed(f) ==
  /\ f.caplen >= 14
  /\ f.type = ARP => f.caplen >= 42
  /\ f.type = IP =>
       /\ f.ihl >= 5
       /\ f.total >= 4 * f.ihl + Shortest(f.protocol)
       /\ f.caplen >= 14 + f.total

(* Of a well-formed packet nothing is read past its end, through options   *)
(* in the IP header, the copy of the segment and the checksum behind it.   *)
ReadsInsideFrame == frame # NoFrame /\ WellFormed(frame) => extent <= frame.caplen

(* Each checksum covers what it is defined over: the whole IP header with  *)
(* its options, and the TCP segment without the padding of a short frame.  *)
ChecksumsCoverTheirData ==
  frame # NoFrame /\ frame.type = IP /\ WellFormed(frame) =>
    \/ summed = NothingSummed
    \/ summed = [from |-> 14, to |-> 14 + 4 * frame.ihl]
    \/ summed = [from |-> 14 + 4 * frame.ihl, to |-> 14 + frame.total]

(* Ports are printed as the network sends them, high byte first, by two    *)
(* different conversions, and each of the four flags under its own name:   *)
(* FIN, SYN, RST and ACK are bits 0, 1, 2 and 4.                           *)
FieldsAsSent ==
  shown # NothingShown =>
    /\ shown.source = 256 * frame.source[1] + frame.source[2]
    /\ shown.dest = 256 * frame.dest[1] + frame.dest[2]
    /\ "FIN" \in shown.flags <=> frame.protocol = TCP /\ frame.flags % 2 = 1
    /\ "SYN" \in shown.flags <=> frame.protocol = TCP /\ frame.flags % 4 >= 2
    /\ "RST" \in shown.flags <=> frame.protocol = TCP /\ frame.flags % 8 >= 4
    /\ "ACK" \in shown.flags <=> frame.protocol = TCP /\ frame.flags % 32 >= 16
=============================================================================
