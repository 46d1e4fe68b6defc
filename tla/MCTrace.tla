------------------------------ MODULE MCTrace ------------------------------
(* Frames around the lengths of the headers: with and without IP options,  *)
(* padded to 60 bytes, cut short, and with lengths that are not true.      *)
EXTENDS Trace

Frame(cap, type, ihl, total, proto, source, dest, flags) ==
  [caplen |-> cap, type |-> type, ihl |-> ihl, total |-> total, protocol |-> proto,
   source |-> source, dest |-> dest, flags |-> flags]

MCFrames ==
  {Frame(cap, type, 0, 0, 0, <<0, 0>>, <<0, 0>>, 0) : cap \in {14, 42, 60}, type \in {ARP, 0}}
  \cup
  {Frame(cap, IP, ihl, total, proto, <<31, 144>>, <<0, 80>>, flags) :
     cap \in {34, 42, 54, 60, 74}, ihl \in {4, 5, 6, 15}, total \in {0, 20, 40, 44, 60},
     proto \in {UDP, TCP}, flags \in {1, 2, 20}}
  \cup
  {Frame(cap, IP, ihl, total, proto, <<0, 53>>, <<31, 144>>, 0) :
     cap \in {42, 60}, ihl \in {5, 6}, total \in {28, 32}, proto \in {ICMP, UDP, 2}}
=============================================================================
