------------------------------ MODULE MCCodec ------------------------------
(* The buffers of the code, and lengths on both sides of each limit.       *)
EXTENDS Codec

HandleLengths == {1, 99, 100}
TextLengths == {0, 1, 2, 200, 201, 202, 398, 399, 400, 401, 1190, 1194}

Typed(multi, s, d, t) == [multi |-> multi, src |-> s, dests |-> d, text |-> t, control |-> FALSE]

Messages ==
  {Typed(FALSE, s, <<d>>, t) : s \in HandleLengths \cup {101}, d \in HandleLengths,
                               t \in TextLengths \cup {1296, 1297, 1298, 1299, 1394}}

(* Nine handles of 54 characters take 495 bytes, one more is 500.          *)
Nine(d) == [i \in 1 .. 9 |-> IF i = 9 THEN d ELSE 54]
DestsTyped == {<<1, 1>>, <<1, 99>>, <<1, 100>>, <<99, 1, 99>>, Nine(54), Nine(59), Nine(60)}

Multicasts ==
  {Typed(TRUE, s, d, t) : s \in HandleLengths, d \in DestsTyped, t \in {0, 1, 200, 201, 1190}}

(* Nine of 153 leave the line room, but the PDU ends inside the last one.  *)
Overlong == {Typed(TRUE, 10, [i \in 1 .. 9 |-> 153], 0)}

(* A line of text that ctrl-L follows at the place where a piece begins.   *)
Controls == {[Typed(FALSE, 1, <<1>>, t) EXCEPT !.control = TRUE] : t \in {1, 200, 201, 400}}

MCRequests ==
  {r \in Messages \cup Multicasts \cup Overlong \cup Controls : LineLength(r) < MAXBUF}
=============================================================================
