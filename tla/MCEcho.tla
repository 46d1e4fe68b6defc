------------------------------- MODULE MCEcho ------------------------------
(* Instances of EchoLab for TLC: c1 gets its input from a pipe, c2 from a  *)
(* terminal.                                                               *)
EXTENDS EchoLab

CONSTANTS c1, c2

SocketsOfTwo == 2 .. 3

(* Of a buffer for 4 bytes, 3 are too many and 2 are not.                  *)
MixedLines == [c \in Clients |-> IF c = c1 THEN {0, 3} ELSE {2}]
BlankLines == [c \in Clients |-> {0, 1}]
TwoLines == [c \in Clients |-> 2]

(* The fourth line of a client finds the connection full in both directions*)
(* when the client has not read what came back.                            *)
MoreFromTerminal == [c \in Clients |-> IF c = c1 THEN 2 ELSE 4]
=============================================================================
