------------------------------- MODULE MCChat ------------------------------
(* Instances of ChatSystem for TLC.                                        *)
EXTENDS ChatSystem, TLC

CONSTANTS c1, c2, c3, h1, h2, empty, long

(* Two clients want one handle, the third has another.                     *)
RivalHandles == [c \in Clients |-> IF c = c3 THEN h2 ELSE h1]
OwnHandles == [c \in Clients |-> IF c = c1 THEN h1 ELSE h2]

(* A long text is cut in two; the pieces begin with a letter or with the   *)
(* horizontal tab, which is byte 9.                                        *)
LettersFirst == [t \in Texts |-> IF t = long THEN <<97, 98>> ELSE <<>>]
TabFirst == [t \in Texts |-> IF t = long THEN <<9, 98>> ELSE <<>>]

(* The first handle begins the second, and no text but the empty one       *)
(* begins another.                                                         *)
Starts == [t \in Texts |-> {t, empty}]
FirstInSecond == [h \in Handles |-> IF h = h2 THEN {h1} ELSE {}]

BothOrTwice == {<<h2, h1>>, <<h1, h1>>}
NoLists == {}

(* How many PDUs each client sends, its registration included.             *)
TwoEach == [c \in Clients |-> 2]
RivalSends == [c \in Clients |-> IF c = c3 THEN 1 ELSE 2]
LiveSends == [c \in Clients |-> IF c = c1 THEN 3 ELSE 2]
PairSends == [c \in Clients |-> IF c = c1 THEN 3 ELSE 1]

SocketsOfThree == 2 .. 4
SocketsOfTwo == 2 .. 3

Rivals == Permutations({c1, c2})
=============================================================================
