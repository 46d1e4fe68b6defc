--------------------------- MODULE EchoLabProofs ---------------------------
(***************************************************************************)
(* Proofs about EchoLab for any number of clients and sockets, lines of    *)
(* any length and any size of the buffer and of the poll set.              *)
(***************************************************************************)
EXTENDS EchoLab, SequenceTheorems, TLAPS

Inputs == ReadyClients \cup (IF backlog = <<>> THEN {} ELSE {MainSocket})

(* What is proved of the poll set on its own holds of that of the server.  *)
PP == INSTANCE PollLoopProofs WITH
  Sockets <- Sockets \cup {MainSocket}, members <- OpenSockets \cup {MainSocket},
  ready <- Inputs, hup <- FALSE, returned <- -1, StdinMayHangUp <- FALSE

(* What the constants of the system give those of the poll set.            *)
LEMMA PollAssumptions == PP!PollSizeAssumption /\ PP!PollSocketAssumption
  BY EchoAssumption DEF PP!PollSizeAssumption, PP!PollSocketAssumption, PP!Stdin

(* A set of naturals that is not empty has its minimum in it.              *)
LEMMA LowestIsMember ==
  ASSUME NEW S \in SUBSET Nat, S # {}
  PROVE  Min(S) \in S
  BY PP!MinIsLowest, PollAssumptions DEF Min, PP!Min

----------------------------------------------------------------------------
(* Sequences                                                               *)

(* A sequence is its first element and the others.                         *)
LEMMA HeadThenTail ==
  ASSUME NEW S, NEW s \in Seq(S), s # <<>>
  PROVE  <<Head(s)>> \o Tail(s) = s
<1>1. PICK n \in Nat : n = Len(s)
  BY LenProperties
<1>2. n >= 1
  BY <1>1, EmptySeq
<1>3. /\ Head(s) = s[1] /\ Head(s) \in S /\ Tail(s) \in Seq(S) /\ Len(Tail(s)) = n - 1
      /\ \A i \in 1 .. n - 1 : Tail(s)[i] = s[i + 1]
  BY <1>1, HeadTailProperties
<1>4. PICK h \in Seq(S) : h = <<Head(s)>> /\ Len(h) = 1 /\ h[1] = s[1]
  <2>1. PICK e \in S : e = Head(s) /\ e = s[1]
    BY <1>3
  <2>2. <<e>> \in Seq(S) /\ Len(<<e>>) = 1 /\ <<e>>[1] = e
    OBVIOUS
  <2> QED
    BY <2>1, <2>2
<1>5. PICK t \in Seq(S) : t = Tail(s)
  BY <1>3
<1>6. /\ h \o t \in Seq(S) /\ Len(h \o t) = n
      /\ \A i \in 1 .. n : (h \o t)[i] = IF i <= 1 THEN h[i] ELSE t[i - 1]
  BY <1>2, <1>3, <1>4, <1>5, ConcatProperties
<1>7. \A i \in 1 .. n : (h \o t)[i] = s[i]
  BY <1>3, <1>4, <1>5, <1>6
<1>8. h \o t = s
  BY <1>1, <1>6, <1>7, SeqEqual
<1> QED
  BY <1>4, <1>5, <1>8

(* Lines are joined in any grouping.                                       *)
LEMMA ConcatOfNumbers ==
  \A s, t, u \in Seq(Nat) : (s \o t) \o u = s \o (t \o u)
BY ConcatAssociative

(* What a sequence starts with is its prefix.                              *)
LEMMA StartIsPrefix ==
  ASSUME NEW S, NEW s \in Seq(S), NEW t \in Seq(S)
  PROVE  IsPrefix(s, s \o t)
<1>1. PICK n \in Nat, m \in Nat : n = Len(s) /\ m = Len(t)
  BY LenProperties
<1>2. /\ s \o t \in Seq(S) /\ Len(s \o t) = n + m
      /\ \A i \in 1 .. n : (s \o t)[i] = s[i]
  BY <1>1, ConcatProperties
<1>3. n <= n + m
  BY <1>1
<1>4. \A i \in 1 .. n : s[i] \in S /\ (s \o t)[i] \in S
  BY <1>1, <1>2, ElementOfSeq
<1>5. /\ SubSeq(s, 1, n) \in Seq(S) /\ SubSeq(s \o t, 1, n) \in Seq(S)
      /\ Len(SubSeq(s, 1, n)) = n /\ Len(SubSeq(s \o t, 1, n)) = n
      /\ \A i \in 1 .. n : SubSeq(s, 1, n)[i] = s[i] /\ SubSeq(s \o t, 1, n)[i] = (s \o t)[i]
  BY <1>1, <1>4, SubSeqProperties
<1>6. SubSeq(s, 1, n) = SubSeq(s \o t, 1, n)
  BY <1>2, <1>5, SeqEqual
<1> QED
  BY <1>1, <1>2, <1>3, <1>6 DEF IsPrefix

----------------------------------------------------------------------------
(* The inductive invariant                                                 *)

(* A connection waits, is open or is closed, never two of these, and was   *)
(* made by a client that has started.                                      *)
ConnectionsInv ==
  /\ \A c \in Clients : proc[c] = "idle" =>
       /\ link[c] = "none" /\ c \notin closed
       /\ \A s \in Sockets : owner[s] # c
       /\ \A i \in 1 .. Len(backlog) : backlog[i] # c
  /\ \A s, t \in Sockets : owner[s] = owner[t] /\ owner[s] # NoClient => s = t
  /\ \A s \in Sockets : owner[s] \notin closed
  /\ \A i \in 1 .. Len(backlog) :
       backlog[i] \notin closed /\ \A s \in Sockets : owner[s] # backlog[i]
  /\ \A i, j \in 1 .. Len(backlog) : backlog[i] = backlog[j] => i = j

(* The poll set follows the open sockets; a free one is never watched.     *)
PollInv ==
  /\ \A s \in Sockets : owner[s] = NoClient => s \notin Poll!Watched
  /\ status = "running" =>
       /\ Poll!Watched = OpenSockets \cup {MainSocket}
       /\ \A i \in Poll!Watched : pollSet[i] = i /\ i < maxFd

(* A recv waits only for a client whose last PDU was empty, a send only    *)
(* for one whose last PDU was not, and the server never waits in both.     *)
EmptyTaken(c) == taken[c] > 0 /\ up[c][taken[c]] = 0
DataTaken(c) == taken[c] > 0 /\ up[c][taken[c]] > 0
WaitInv ==
  /\ \A c \in Clients : taken[c] <= Len(up[c])
  /\ waiting # -1 => owner[waiting] # NoClient /\ EmptyTaken(owner[waiting])
  /\ sending # -1 => owner[sending] # NoClient /\ DataTaken(owner[sending])
  /\ sending = -1 \/ waiting = -1

(* Who has been hung up on had left, or had sent an empty line.            *)
CauseInv == \A c \in closed : link[c] # "open" \/ EmptyTaken(c)

IInv == TypeOK /\ ConnectionsInv /\ PollInv /\ WaitInv /\ CauseInv

----------------------------------------------------------------------------
(* What pollCall returns                                                   *)

(* The poll set of a running server has the shape that PollLoop requires.  *)
LEMMA PollShape ==
  ASSUME TypeOK, PollInv, status = "running"
  PROVE  PP!TypeOK /\ PP!WatchesMembers
<1>1. /\ setSize \in Nat /\ maxFd \in 0 .. setSize
      /\ pollSet \in [0 .. setSize - 1 -> Sockets \cup {Poll!Stdin, MainSocket}]
  BY DEF TypeOK
<1>2. /\ Poll!Watched = OpenSockets \cup {MainSocket}
      /\ \A i \in Poll!Watched : pollSet[i] = i /\ i < maxFd
  BY DEF PollInv
<1>3. setSize # 0
  <2>1. MainSocket \in 0 .. setSize - 1
    BY <1>2 DEF Poll!Watched
  <2> QED
    BY <1>1, <2>1, EchoAssumption
<1>4. Inputs \subseteq OpenSockets \cup {MainSocket} /\ OpenSockets \subseteq Sockets
  BY DEF Inputs, ReadyClients, OpenSockets
<1>5. PP!Watched = Poll!Watched /\ PP!Stdin = Poll!Stdin
  BY DEF PP!Watched, Poll!Watched, PP!Stdin, Poll!Stdin
<1> QED
  BY <1>1, <1>2, <1>3, <1>4, <1>5 DEF PP!TypeOK, PP!WatchesMembers

(* The listening socket is only returned when a connection waits.          *)
LEMMA AcceptHasClient ==
  ASSUME TypeOK, PollInv, PollReturns(MainSocket)
  PROVE  backlog # <<>>
<1>1. PP!TypeOK /\ PP!WatchesMembers
  BY PollShape DEF PollReturns
<1>2. LET i == PP!PollCall(Inputs, IF FALSE THEN {PP!Stdin} ELSE {}) IN
      i # -1 => IF FALSE THEN i = PP!Stdin ELSE i \in Inputs
  BY <1>1, PollAssumptions, PP!PollCallReturns
<1>3. MainSocket = PP!PollCall(Inputs, {})
  BY DEF PollReturns, Inputs, Poll!PollCall, PP!PollCall, Poll!Reported, PP!Reported,
         Poll!Watched, PP!Watched, Poll!Stdin, PP!Stdin, Poll!Min, PP!Min
<1>4. MainSocket # -1 /\ MainSocket \notin Sockets
  BY EchoAssumption
<1>5. MainSocket \in Inputs
  BY <1>2, <1>3, <1>4
<1> QED
  BY <1>4, <1>5 DEF Inputs, ReadyClients, OpenSockets

(* Accepting a connection takes the oldest one and the lowest free socket. *)
LEMMA AcceptOpens ==
  ASSUME TypeOK, PollInv, Accept
  PROVE  \E s \in Sockets, c \in Clients :
           /\ owner[s] = NoClient /\ backlog # <<>> /\ c = Head(backlog)
           /\ owner' = [owner EXCEPT ![s] = c] /\ backlog' = Tail(backlog)
           /\ ((Poll!AddToPollSet(s) /\ status' = status) \/ Poll!GrowPollSetFails(s))
<1> DEFINE s == Min(FreeSockets)
           c == Head(backlog)
<1>1. s \in Sockets /\ owner[s] = NoClient
  <2>1. FreeSockets \in SUBSET Nat /\ FreeSockets # {}
    BY EchoAssumption DEF Accept, FreeSockets
  <2>2. s \in FreeSockets
    BY <2>1, LowestIsMember
  <2> QED
    BY <2>2 DEF FreeSockets, OpenSockets
<1>2. backlog # <<>> /\ c \in Clients
  <2>1. backlog # <<>> /\ backlog \in Seq(Clients)
    BY AcceptHasClient DEF Accept, TypeOK
  <2> QED
    BY <2>1, HeadTailProperties
<1>3. /\ owner' = [owner EXCEPT ![s] = c] /\ backlog' = Tail(backlog)
      /\ ((Poll!AddToPollSet(s) /\ status' = status) \/ Poll!GrowPollSetFails(s))
  BY DEF Accept
<1> QED
  BY <1>1, <1>2, <1>3

----------------------------------------------------------------------------
(* What the steps of a client change                                       *)

ClientStep(c) ==
  TypeLine(c) \/ EndInput(c) \/ ConnectToServer(c) \/ ClientReacts(c) \/ LateReset(c)

(* stdio hands out the lines in the order in which they wait.              *)
LEMMA LineTaken ==
  ASSUME TypeOK, NEW c \in Clients, SendLine(c)
  PROVE  \E n \in Nat, rest \in Seq(Nat) :
           /\ n = Head(Buffered(c)) /\ rest = Tail(Buffered(c))
           /\ Buffered(c) \in Seq(Nat) /\ Buffered(c) # <<>>
           /\ LeftInInput(c) \in Seq(Nat)
           /\ Data(n) \in 0 .. MAXBUF - 2 /\ Rest(n) \in Seq(Nat)
<1>1. input[c] \in Seq(Nat) /\ stdio[c] \in Seq(Nat)
  BY DEF TypeOK
<1>2. input[c] # <<>> => /\ Head(input[c]) \in Nat /\ Tail(input[c]) \in Seq(Nat)
                         /\ <<Head(input[c])>> \in Seq(Nat)
  BY <1>1, HeadTailProperties
<1>3. LeftInInput(c) \in Seq(Nat)
  <2>1. CASE stdio[c] = <<>> /\ c \in Terminals
    <3>1. input[c] # <<>>
      BY <2>1 DEF SendLine, Buffered
    <3> QED
      BY <1>2, <2>1, <3>1 DEF LeftInInput
  <2>2. CASE stdio[c] # <<>>
    BY <1>1, <2>2 DEF LeftInInput
  <2>3. CASE stdio[c] = <<>> /\ c \notin Terminals
    BY <2>3 DEF LeftInInput
  <2> QED
    BY <2>1, <2>2, <2>3
<1>4. Buffered(c) \in Seq(Nat) /\ Buffered(c) # <<>>
  BY <1>1, <1>2 DEF Buffered, SendLine
<1>5. Head(Buffered(c)) \in Nat /\ Tail(Buffered(c)) \in Seq(Nat)
  BY <1>4, HeadTailProperties
<1>6. ASSUME NEW n \in Nat PROVE Data(n) \in 0 .. MAXBUF - 2 /\ Rest(n) \in Seq(Nat)
  <2>1. MAXBUF \in Nat /\ MAXBUF > 2
    BY EchoAssumption
  <2>2. CASE n + 1 < MAXBUF
    <3>1. n \in 0 .. MAXBUF - 2
      BY <2>1, <2>2
    <3> QED
      BY <2>2, <3>1 DEF Data, Rest
  <2>3. CASE ~(n + 1 < MAXBUF)
    <3>1. n - (MAXBUF - 1) \in Nat /\ MAXBUF - 2 \in 0 .. MAXBUF - 2
      BY <2>1, <2>3
    <3>2. PICK m \in Nat : m = n - (MAXBUF - 1)
      BY <3>1
    <3>3. Data(n) = MAXBUF - 2 /\ Rest(n) = <<m>>
      BY <2>3, <3>2 DEF Data, Rest
    <3> QED
      BY <3>1, <3>3
  <2> QED
    BY <2>2, <2>3
<1> QED
  BY <1>3, <1>4, <1>5, <1>6

(* A client leaves the server's side alone, sends only at the end of what  *)
(* it has sent, and never opens a connection twice.                        *)
LEMMA ClientFrame ==
  ASSUME TypeOK, NEW c \in Clients, ClientStep(c)
  PROVE  /\ UNCHANGED serverVars
         /\ \/ up' = up
            \/ \E n \in 0 .. MAXBUF - 2 : up' = [up EXCEPT ![c] = Append(@, n)]
         /\ \A d \in Clients : link'[d] = "open" => link[d] = "open" \/ proc[d] = "idle"
         /\ \A d \in Clients : proc'[d] = "idle" =>
              proc[d] = "idle" /\ (link'[d] = link[d] \/ link[d] = "fin")
         /\ \/ backlog' = backlog
            \/ /\ proc[c] = "idle" /\ proc'[c] # "idle"
               /\ backlog' = Append(backlog, c)
<1>1. CASE TypeLine(c) \/ EndInput(c)
  BY <1>1 DEF TypeLine, EndInput
<1>2. CASE ConnectToServer(c)
  BY <1>2 DEF ConnectToServer, TypeOK
<1>3. ASSUME Leave(c), proc[c] = "looping"
      PROVE  /\ \A d \in Clients : link'[d] = "open" => link[d] = "open" \/ proc[d] = "idle"
             /\ \A d \in Clients : proc'[d] = "idle" => proc[d] = "idle" /\ link'[d] = link[d]
  BY <1>3 DEF Leave, TypeOK
<1>4. CASE SendLine(c)
  <2>1. PICK n \in Nat : n = Head(Buffered(c)) /\ Data(n) \in 0 .. MAXBUF - 2
    BY <1>4, LineTaken
  <2>2. /\ UNCHANGED <<backlog, serverVars>> /\ proc[c] = "looping"
        /\ \/ up' = [up EXCEPT ![c] = Append(@, Data(n))] /\ UNCHANGED <<proc, link>>
           \/ up' = up /\ Leave(c)
    BY <1>4, <2>1 DEF SendLine
  <2> QED
    BY <1>3, <2>1, <2>2
<1>5. CASE InputEnds(c)
  BY <1>3, <1>5 DEF InputEnds
<1>6. CASE ReceiveEcho(c)
  BY <1>6 DEF ReceiveEcho
<1>7. CASE SeeServerGone(c)
  BY <1>3, <1>7 DEF SeeServerGone
<1>8. CASE LateReset(c)
  BY <1>8 DEF LateReset, TypeOK
<1> QED
  BY <1>1, <1>2, <1>4, <1>5, <1>6, <1>7, <1>8 DEF ClientStep, ClientReacts

(* The number of PDUs sent only grows, and none of them changes.           *)
LEMMA UpGrows ==
  ASSUME TypeOK, NEW c \in Clients, ClientStep(c)
  PROVE  \A d \in Clients : /\ Len(up[d]) \in Nat /\ Len(up'[d]) \in Nat
                            /\ Len(up[d]) <= Len(up'[d])
                            /\ \A i \in 1 .. Len(up[d]) : up'[d][i] = up[d][i]
<1> SUFFICES ASSUME NEW d \in Clients
             PROVE  /\ Len(up[d]) \in Nat /\ Len(up'[d]) \in Nat
                    /\ Len(up[d]) <= Len(up'[d])
                    /\ \A i \in 1 .. Len(up[d]) : up'[d][i] = up[d][i]
  OBVIOUS
<1>1. up \in [Clients -> Seq(0 .. MAXBUF - 2)] /\ up[d] \in Seq(0 .. MAXBUF - 2) /\ Len(up[d]) \in Nat
  BY DEF TypeOK
<1>2. CASE up'[d] = up[d]
  BY <1>1, <1>2
<1>3. CASE \E n \in 0 .. MAXBUF - 2 : up'[d] = Append(up[d], n)
  BY <1>1, <1>3, AppendProperties
<1> QED
  BY <1>1, <1>2, <1>3, ClientFrame

----------------------------------------------------------------------------
(* What the steps of the server change                                     *)

(* It took the next PDU of the client on s, or none.                       *)
TakesFrom(s) ==
  /\ owner[s] # NoClient
  /\ Unread(owner[s])
  /\ taken' = [taken EXCEPT ![owner[s]] = @ + 1]

(* A connection is accepted, one is served and stays, or one is closed.    *)
Opens(s) ==
  /\ owner[s] = NoClient /\ backlog # <<>>
  /\ owner' = [owner EXCEPT ![s] = Head(backlog)] /\ backlog' = Tail(backlog)
  /\ ((Poll!AddToPollSet(s) /\ status' = status) \/ Poll!GrowPollSetFails(s))
  /\ sending = -1 /\ waiting = -1
  /\ UNCHANGED <<sending, waiting, taken, down, closed>>

Stays(s) ==
  /\ taken' = taken \/ TakesFrom(s)
  /\ UNCHANGED <<pollVars, owner, closed, backlog>>
  /\ waiting' = -1 \/ (waiting' = s /\ TakesFrom(s) /\ NextData(owner[s]) = 0)
  /\ sending' = -1 \/ (sending' = s /\ TakesFrom(s) /\ NextData(owner[s]) > 0)
  /\ sending' = -1 \/ waiting' = -1
  /\ status' \in {"running", "exited"}

Closes(s) ==
  /\ owner[s] # NoClient
  /\ Disconnect(s)
  /\ \/ taken' = taken /\ (link[owner[s]] # "open" \/ EmptyTaken(owner[s]))
     \/ TakesFrom(s) /\ NextData(owner[s]) = 0
  /\ sending' = -1 /\ waiting' = -1
  /\ UNCHANGED <<backlog, status, down>>

(* Every step of the server has one of these forms.                        *)
LEMMA ServerFrame ==
  ASSUME TypeOK, PollInv, WaitInv, Server
  PROVE  /\ status = "running" /\ UNCHANGED <<clientVars, limit>>
         /\ \E s \in Sockets : Opens(s) \/ Stays(s) \/ Closes(s)
<1> DEFINE Served == status = "running" /\ UNCHANGED <<clientVars, limit>>
<1>1. CASE Accept
  <2>1. /\ UNCHANGED <<clientVars, limit, sending, waiting, taken, down, closed>>
        /\ status = "running" /\ sending = -1 /\ waiting = -1
    BY <1>1 DEF Accept, PollReturns
  <2> QED
    BY <1>1, <2>1, AcceptOpens DEF Opens
<1>2. ASSUME NEW s \in Sockets, TakeData(s) PROVE Stays(s) /\ Served
  <2>1. TakesFrom(s) /\ sending = -1 /\ waiting = -1 /\ status = "running"
    BY <1>2 DEF TakeData, Takes, PollReturns, TakesFrom, OpenSockets
  <2> QED
    BY <1>2, <2>1 DEF TakeData, Stays
<1>3. ASSUME NEW s \in Sockets, TakeEmpty(s)
      PROVE  (Stays(s) \/ Closes(s)) /\ Served
  <2>1. /\ TakesFrom(s) /\ sending = -1 /\ waiting = -1 /\ status = "running"
        /\ owner[s] # NoClient /\ NextData(owner[s]) = 0
        /\ UNCHANGED <<clientVars, backlog, status, limit, sending, down>>
    BY <1>3 DEF TakeEmpty, Takes, PollReturns, TakesFrom, OpenSockets
  <2>2. \/ waiting' = s /\ UNCHANGED <<pollVars, owner, closed>>
        \/ Disconnect(s) /\ UNCHANGED waiting
    BY <1>3 DEF TakeEmpty
  <2> QED
    BY <2>1, <2>2 DEF Stays, Closes
<1>4. CASE WaitIsOver
  <2>1. /\ waiting \in Sockets /\ status = "running"
        /\ UNCHANGED <<clientVars, backlog, limit, sending, taken, down>>
        /\ owner[waiting] # NoClient /\ EmptyTaken(owner[waiting])
        /\ waiting' = -1 /\ sending = -1
    BY <1>4 DEF WaitIsOver, TypeOK, WaitInv
  <2>2. CASE Disconnect(waiting) /\ UNCHANGED status
    BY <2>1, <2>2 DEF Closes
  <2>3. CASE status' = "exited" /\ UNCHANGED <<pollVars, owner, closed>>
    BY <2>1, <2>3 DEF Stays
  <2> QED
    BY <1>4, <2>1, <2>2, <2>3 DEF WaitIsOver
<1>5. ASSUME NEW s \in Sockets, ServeEof(s) PROVE Closes(s) /\ Served
  BY <1>5 DEF ServeEof, Closes, PollReturns, OpenSockets
<1>6. ASSUME NEW s \in Sockets, RecvFails(s) PROVE Stays(s) /\ Served
  BY <1>6 DEF RecvFails, Stays, PollReturns
<1>7. CASE Echo
  <2>1. /\ sending \in Sockets /\ waiting = -1 /\ sending' = -1 /\ status = "running"
        /\ status' \in {"running", "exited"}
        /\ UNCHANGED <<clientVars, backlog, pollVars, owner, limit, waiting, taken, closed>>
    BY <1>7 DEF Echo, TypeOK, WaitInv
  <2> QED
    BY <2>1 DEF Stays
<1>8. CASE AcceptFails
  <2>1. PICK s \in Sockets : TRUE
    BY EchoAssumption
  <2>2. /\ sending = -1 /\ waiting = -1 /\ status = "running"
        /\ UNCHANGED vars
    BY <1>8 DEF AcceptFails, PollReturns
  <2>3. Stays(s) /\ Served
    BY <2>2 DEF Stays, vars, serverVars
  <2> QED
    BY <2>3
<1> QED
  BY <1>1, <1>2, <1>3, <1>4, <1>5, <1>6, <1>7, <1>8 DEF Server

----------------------------------------------------------------------------
(* Types                                                                   *)

ClientTypes ==
  /\ typed \in [Clients -> Seq(Nat)] /\ input \in [Clients -> Seq(Nat)]
  /\ stdio \in [Clients -> Seq(Nat)]
  /\ eof \subseteq Clients
  /\ proc \in [Clients -> {"idle", "looping", "gone"}]
  /\ up \in [Clients -> Seq(0 .. MAXBUF - 2)]
  /\ shown \in [Clients -> Nat]
  /\ link \in [Clients -> {"none", "open", "fin", "rst"}]

(* A client's step keeps what is its own well typed.                       *)
LEMMA ClientTypesKept ==
  ASSUME TypeOK, NEW c \in Clients, ClientStep(c)
  PROVE  ClientTypes'
<1> USE DEF ClientTypes
<1>1. ClientTypes
  BY DEF TypeOK
<1>2. CASE TypeLine(c)
  <2>1. PICK n \in Nat : /\ typed' = [typed EXCEPT ![c] = Append(@, n)]
                         /\ input' = [input EXCEPT ![c] = Append(@, n)]
    BY <1>2, EchoAssumption DEF TypeLine
  <2>2. Append(typed[c], n) \in Seq(Nat) /\ Append(input[c], n) \in Seq(Nat)
    BY <1>1, AppendProperties
  <2> QED
    BY <1>1, <1>2, <2>1, <2>2 DEF TypeLine
<1>3. CASE EndInput(c)
  BY <1>1, <1>3 DEF EndInput
<1>4. CASE ConnectToServer(c)
  BY <1>1, <1>4 DEF ConnectToServer, inputVars
<1>5. ASSUME Leave(c)
      PROVE  /\ proc' \in [Clients -> {"idle", "looping", "gone"}]
             /\ link' \in [Clients -> {"none", "open", "fin", "rst"}]
  BY <1>1, <1>5 DEF Leave
<1>6. CASE SendLine(c)
  <2>1. PICK n \in Nat, rest \in Seq(Nat) :
          /\ n = Head(Buffered(c)) /\ rest = Tail(Buffered(c))
          /\ LeftInInput(c) \in Seq(Nat)
          /\ Data(n) \in 0 .. MAXBUF - 2 /\ Rest(n) \in Seq(Nat)
    BY <1>6, LineTaken
  <2>2. /\ stdio' = [stdio EXCEPT ![c] = Rest(n) \o rest]
        /\ input' = [input EXCEPT ![c] = LeftInInput(c)]
        /\ UNCHANGED <<shown, typed, eof>>
        /\ \/ up' = [up EXCEPT ![c] = Append(@, Data(n))] /\ UNCHANGED <<proc, link>>
           \/ Leave(c) /\ UNCHANGED up
    BY <1>6, <2>1 DEF SendLine
  <2>3. Rest(n) \o rest \in Seq(Nat)
    BY <2>1, ConcatProperties
  <2>4. Append(up[c], Data(n)) \in Seq(0 .. MAXBUF - 2)
    <3>1. up[c] \in Seq(0 .. MAXBUF - 2)
      BY <1>1
    <3> QED
      BY <2>1, <3>1, AppendProperties
  <2>5. stdio' \in [Clients -> Seq(Nat)] /\ input' \in [Clients -> Seq(Nat)]
    BY <1>1, <2>1, <2>2, <2>3
  <2>6. up' \in [Clients -> Seq(0 .. MAXBUF - 2)]
    BY <1>1, <2>2, <2>4
  <2> QED
    BY <1>1, <1>5, <2>2, <2>5, <2>6
<1>7. CASE InputEnds(c)
  BY <1>1, <1>5, <1>7 DEF InputEnds, inputVars
<1>8. CASE ReceiveEcho(c)
  <2>1. shown' \in [Clients -> Nat]
    BY <1>1, <1>8 DEF ReceiveEcho
  <2> QED
    BY <1>1, <1>8, <2>1 DEF ReceiveEcho, inputVars
<1>9. CASE SeeServerGone(c)
  <2>1. shown' \in [Clients -> Nat]
    <3>1. shown' = [shown EXCEPT ![c] = @ + 1] \/ shown' = shown
      BY <1>9 DEF SeeServerGone
    <3>2. CASE shown' = [shown EXCEPT ![c] = @ + 1]
      BY <1>1, <3>2
    <3>3. CASE shown' = shown
      BY <1>1, <3>3
    <3> QED
      BY <3>1, <3>2, <3>3
  <2> QED
    BY <1>1, <1>5, <1>9, <2>1 DEF SeeServerGone, inputVars
<1>10. CASE LateReset(c)
  BY <1>1, <1>10 DEF LateReset, inputVars
<1> QED
  BY <1>2, <1>3, <1>4, <1>6, <1>7, <1>8, <1>9, <1>10 DEF ClientStep, ClientReacts

ServerTypes ==
  /\ backlog \in Seq(Clients)
  /\ down \in [Clients -> Seq(1 .. MAXBUF - 2)]
  /\ taken \in [Clients -> Nat]
  /\ closed \subseteq Clients
  /\ status \in {"running", "exited"}
  /\ setSize \in Nat /\ maxFd \in 0 .. setSize
  /\ pollSet \in [0 .. setSize - 1 -> Sockets \cup {Poll!Stdin, MainSocket}]
  /\ owner \in [Sockets -> Clients \cup {NoClient}]
  /\ limit \in Limits
  /\ sending \in Sockets \cup {-1} /\ waiting \in Sockets \cup {-1}

(* The poll set keeps its shape while a connection is accepted, also when  *)
(* it grows.                                                               *)
LEMMA AddKeepsShape ==
  ASSUME TypeOK, PollInv, status = "running", NEW s \in Sockets, Poll!AddToPollSet(s)
  PROVE  /\ setSize' \in Nat /\ maxFd' \in 0 .. setSize' /\ maxFd <= maxFd' /\ s < maxFd'
         /\ pollSet' \in [0 .. setSize' - 1 -> Sockets \cup {Poll!Stdin, MainSocket}]
         /\ Poll!Watched' = Poll!Watched \cup {s} /\ pollSet'[s] = s
         /\ \A i \in Poll!Watched \ {s} : pollSet'[i] = pollSet[i]
<1>1. PP!TypeOK /\ PP!AddToPollSet(s)
  BY PollShape
     DEF Poll!AddToPollSet, PP!AddToPollSet, Poll!GrownSet, PP!GrownSet,
         Poll!GrownSize, PP!GrownSize, Poll!Stdin, PP!Stdin
<1>2. /\ setSize' \in Nat \ {0} /\ s < setSize'
      /\ pollSet' \in [0 .. setSize' - 1 -> (Sockets \cup {MainSocket}) \cup {PP!Stdin}]
      /\ maxFd' \in 0 .. setSize' /\ maxFd <= maxFd' /\ s < maxFd'
      /\ PP!Watched' = PP!Watched \cup {s} /\ pollSet'[s] = s
      /\ \A i \in PP!Watched \ {s} : pollSet'[i] = pollSet[i]
  BY <1>1, PollAssumptions, PP!AddTakesOwnSlot
<1>3. PP!Watched = Poll!Watched /\ PP!Watched' = Poll!Watched' /\ PP!Stdin = Poll!Stdin
  BY DEF PP!Watched, Poll!Watched, PP!Stdin, Poll!Stdin
<1>4. (Sockets \cup {MainSocket}) \cup {PP!Stdin} = Sockets \cup {Poll!Stdin, MainSocket}
  BY <1>3
<1> QED
  BY <1>2, <1>3, <1>4

(* The server's step keeps what is its own well typed, but for the echoes. *)
LEMMA ServerTypesKept ==
  ASSUME TypeOK, PollInv, WaitInv, Server
  PROVE  ServerTypes'
<1> USE DEF ServerTypes
<1>1. ServerTypes
  BY DEF TypeOK
<1>2. status = "running" /\ limit' \in Limits
  BY <1>1, ServerFrame
<1>3. down' \in [Clients -> Seq(1 .. MAXBUF - 2)]
  <2>1. CASE Echo
    <3>1. PICK c \in Clients : /\ c = owner[sending]
                              /\ taken[c] > 0 /\ taken[c] <= Len(up[c]) /\ up[c][taken[c]] > 0
      BY <1>1, <2>1 DEF Echo, WaitInv, DataTaken
    <3>2. down' = down \/ down' = [down EXCEPT ![c] = Append(@, up[c][taken[c]])]
      BY <2>1, <3>1 DEF Echo, Echoed
    <3>3. up[c][taken[c]] \in 0 .. MAXBUF - 2
      <4>1. up[c] \in Seq(0 .. MAXBUF - 2) /\ taken[c] \in Nat /\ Len(up[c]) \in Nat
        BY DEF TypeOK
      <4>2. taken[c] \in 1 .. Len(up[c])
        BY <3>1, <4>1
      <4> QED
        BY <4>1, <4>2, ElementOfSeq
    <3>4. up[c][taken[c]] \in 1 .. MAXBUF - 2
      BY <3>1, <3>3
    <3>5. Append(down[c], up[c][taken[c]]) \in Seq(1 .. MAXBUF - 2)
      <4>1. down[c] \in Seq(1 .. MAXBUF - 2)
        BY <1>1
      <4> QED
        BY <3>4, <4>1, AppendProperties
    <3> QED
      BY <1>1, <3>2, <3>5
  <2>2. CASE UNCHANGED down
    BY <1>1, <2>2
  <2> QED
    BY <2>1, <2>2 DEF Server, Accept, AcceptFails, vars, serverVars, TakeData, TakeEmpty, ServeEof,
                       RecvFails, WaitIsOver
<1>4. ASSUME NEW s \in Sockets, TakesFrom(s)
      PROVE  taken' \in [Clients -> Nat]
  <2>1. PICK c \in Clients : c = owner[s]
    BY <1>1, <1>4 DEF TakesFrom
  <2>2. taken' = [taken EXCEPT ![c] = @ + 1]
    BY <1>4, <2>1 DEF TakesFrom
  <2> QED
    BY <1>1, <2>2
<1>5. ASSUME NEW s \in Sockets, Opens(s) PROVE ServerTypes'
  <2>1. /\ backlog # <<>> /\ owner' = [owner EXCEPT ![s] = Head(backlog)] /\ backlog' = Tail(backlog)
        /\ UNCHANGED <<sending, waiting, taken, down, closed>>
        /\ ((Poll!AddToPollSet(s) /\ status' = status) \/ Poll!GrowPollSetFails(s))
    BY <1>5 DEF Opens
  <2>2. Head(backlog) \in Clients /\ Tail(backlog) \in Seq(Clients)
    BY <1>1, <2>1, HeadTailProperties
  <2>3. CASE Poll!AddToPollSet(s) /\ status' = status
    BY <1>1, <1>2, <2>1, <2>2, <2>3, AddKeepsShape
  <2>4. CASE Poll!GrowPollSetFails(s)
    BY <1>1, <1>2, <2>1, <2>2, <2>4 DEF Poll!GrowPollSetFails, Poll!pollVars
  <2> QED
    BY <2>1, <2>3, <2>4
<1>6. ASSUME NEW s \in Sockets, Stays(s) PROVE ServerTypes'
  BY <1>1, <1>2, <1>3, <1>4, <1>6 DEF Stays, pollVars
<1>7. ASSUME NEW s \in Sockets, Closes(s) PROVE ServerTypes'
  <2>1. /\ pollSet' = [pollSet EXCEPT ![s] = Poll!Stdin] /\ setSize' = setSize /\ maxFd' = maxFd
        /\ owner' = [owner EXCEPT ![s] = NoClient] /\ closed' = closed \cup {owner[s]}
        /\ owner[s] \in Clients
    BY <1>1, <1>7 DEF Closes, Disconnect, Poll!RemoveFromPollSet
  <2>2. pollSet' \in [0 .. setSize' - 1 -> Sockets \cup {Poll!Stdin, MainSocket}]
    BY <1>1, <2>1
  <2>3. /\ taken' \in [Clients -> Nat] /\ sending' = -1 /\ waiting' = -1
        /\ UNCHANGED <<backlog, status>>
    BY <1>1, <1>4, <1>7 DEF Closes
  <2> QED
    BY <1>1, <1>2, <1>3, <2>1, <2>2, <2>3
<1> QED
  BY <1>5, <1>6, <1>7, ServerFrame

(* Every step keeps the types.                                             *)
LEMMA TypeKept ==
  ASSUME TypeOK, PollInv, WaitInv, Next
  PROVE  TypeOK'
<1>1. ASSUME NEW c \in Clients, ClientStep(c) PROVE TypeOK'
  <2>1. ClientTypes'
    BY <1>1, ClientTypesKept
  <2>2. backlog' \in Seq(Clients)
    <3>1. backlog' = backlog \/ backlog' = Append(backlog, c)
      BY <1>1, ClientFrame
    <3>2. backlog \in Seq(Clients)
      BY DEF TypeOK
    <3> QED
      BY <3>1, <3>2, AppendProperties
  <2>3. UNCHANGED serverVars
    BY <1>1, ClientFrame
  <2> QED
    BY <2>1, <2>2, <2>3 DEF TypeOK, ClientTypes, serverVars, pollVars
<1>2. CASE Server
  <2>1. UNCHANGED clientVars
    BY <1>2, ServerFrame
  <2>2. ServerTypes'
    BY <1>2, ServerTypesKept
  <2> QED
    BY <2>1, <2>2 DEF TypeOK, ServerTypes, clientVars, inputVars
<1> QED
  BY <1>1, <1>2 DEF Next, ClientStep

----------------------------------------------------------------------------
(* Connections                                                             *)

(* A client connects once, is accepted from the head of the queue, and is  *)
(* gone from it and from the sockets once it is closed.                    *)
LEMMA ConnectionsKept ==
  ASSUME IInv, Next
  PROVE  ConnectionsInv'
<1>1. TypeOK /\ ConnectionsInv /\ PollInv /\ WaitInv
  BY DEF IInv
<1>2. ASSUME NEW c \in Clients, ClientStep(c) PROVE ConnectionsInv'
  <2>1. /\ UNCHANGED <<owner, closed>>
        /\ \A d \in Clients : proc'[d] = "idle" =>
             proc[d] = "idle" /\ (link'[d] = link[d] \/ link[d] = "fin")
        /\ \/ backlog' = backlog
           \/ /\ proc[c] = "idle" /\ proc'[c] # "idle"
              /\ backlog' = Append(backlog, c)
    BY <1>1, <1>2, ClientFrame DEF serverVars
  <2>2. ASSUME NEW d \in Clients, proc'[d] = "idle"
        PROVE  /\ link'[d] = "none" /\ d \notin closed'
               /\ \A s \in Sockets : owner'[s] # d
               /\ \A i \in 1 .. Len(backlog) : backlog[i] # d
    BY <1>1, <2>1, <2>2 DEF ConnectionsInv
  <2>3. CASE backlog' = backlog
    BY <1>1, <2>1, <2>2, <2>3 DEF ConnectionsInv
  <2>4. CASE proc[c] = "idle" /\ proc'[c] # "idle" /\ backlog' = Append(backlog, c)
    <3>1. PICK n \in Nat : n = Len(backlog)
      BY <1>1 DEF TypeOK
    <3>2. /\ Len(backlog') = n + 1 /\ backlog'[n + 1] = c
          /\ \A i \in 1 .. n : backlog'[i] = backlog[i]
      <4>1. backlog \in Seq(Clients)
        BY <1>1 DEF TypeOK
      <4> QED
        BY <2>4, <3>1, <4>1, AppendProperties
    <3>3. /\ c \notin closed /\ \A s \in Sockets : owner[s] # c
          /\ \A i \in 1 .. n : backlog[i] # c
      BY <1>1, <2>4, <3>1 DEF ConnectionsInv
    <3>4. ASSUME NEW i \in 1 .. n + 1
          PROVE  /\ backlog'[i] \notin closed
                 /\ \A s \in Sockets : owner[s] # backlog'[i]
                 /\ \A d \in Clients : proc'[d] = "idle" => backlog'[i] # d
      <4>1. CASE i = n + 1
        BY <2>4, <3>2, <3>3, <4>1
      <4>2. CASE i \in 1 .. n
        BY <1>1, <2>2, <3>1, <3>2, <4>2 DEF ConnectionsInv
      <4> QED
        BY <4>1, <4>2
    <3>5. ASSUME NEW i \in 1 .. n + 1, NEW j \in 1 .. n + 1, backlog'[i] = backlog'[j]
          PROVE  i = j
      <4>1. CASE i \in 1 .. n /\ j \in 1 .. n
        BY <1>1, <3>1, <3>2, <3>5, <4>1 DEF ConnectionsInv
      <4>2. CASE i = n + 1 \/ j = n + 1
        BY <3>2, <3>3, <3>5, <4>2
      <4> QED
        BY <4>1, <4>2
    <3> QED
      BY <1>1, <2>1, <2>2, <3>2, <3>4, <3>5 DEF ConnectionsInv
  <2> QED
    BY <2>1, <2>3, <2>4
<1>3. CASE Server
  <2>1. UNCHANGED <<proc, link>>
    BY <1>1, <1>3, ServerFrame DEF clientVars
  <2>2. ASSUME NEW s \in Sockets, Opens(s) PROVE ConnectionsInv'
    <3>1. /\ owner[s] = NoClient /\ backlog # <<>> /\ backlog' = Tail(backlog)
          /\ owner' = [owner EXCEPT ![s] = Head(backlog)] /\ closed' = closed
      BY <2>2 DEF Opens
    <3>2. PICK n \in Nat : n = Len(backlog)
      BY <1>1 DEF TypeOK
    <3>3. /\ n >= 1 /\ Len(backlog') = n - 1 /\ Head(backlog) = backlog[1]
          /\ \A i \in 1 .. n - 1 : backlog'[i] = backlog[i + 1]
      <4>1. backlog \in Seq(Clients) /\ n # 0 /\ Head(backlog) = backlog[1]
        BY <1>1, <3>1, <3>2 DEF TypeOK
      <4> QED
        BY <3>1, <3>2, <4>1, HeadTailProperties
    <3>4. PICK c \in Clients : c = backlog[1]
      <4>1. backlog \in Seq(Clients) /\ 1 \in 1 .. Len(backlog)
        BY <1>1, <3>2, <3>3 DEF TypeOK
      <4> QED
        BY <4>1, ElementOfSeq
    <3>5. \A t \in Sockets : owner'[t] = IF t = s THEN c ELSE owner[t]
      BY <1>1, <3>1, <3>3, <3>4 DEF TypeOK
    <3>6. /\ c \notin closed /\ \A t \in Sockets : owner[t] # c /\ proc[c] # "idle"
      BY <1>1, <3>2, <3>3, <3>4 DEF ConnectionsInv
    <3>7. \A i \in 1 .. n - 1 : /\ i + 1 \in 1 .. n /\ backlog'[i] = backlog[i + 1]
                               /\ backlog[i + 1] # c
      BY <1>1, <3>2, <3>3, <3>4 DEF ConnectionsInv
    <3>8. ASSUME NEW d \in Clients, proc'[d] = "idle"
          PROVE  /\ link'[d] = "none" /\ d \notin closed'
                 /\ \A t \in Sockets : owner'[t] # d
                 /\ \A i \in 1 .. n - 1 : backlog'[i] # d
      BY <1>1, <2>1, <3>1, <3>2, <3>5, <3>6, <3>7, <3>8 DEF ConnectionsInv
    <3>9. \A t, u \in Sockets : owner'[t] = owner'[u] /\ owner'[t] # NoClient => t = u
      BY <1>1, <3>5, <3>6 DEF ConnectionsInv
    <3>10. \A t \in Sockets : owner'[t] \notin closed'
      BY <1>1, <3>1, <3>5, <3>6 DEF ConnectionsInv
    <3>11. \A i \in 1 .. n - 1 :
             backlog'[i] \notin closed' /\ \A t \in Sockets : owner'[t] # backlog'[i]
      BY <1>1, <3>1, <3>2, <3>5, <3>7 DEF ConnectionsInv
    <3>12. \A i, j \in 1 .. n - 1 : backlog'[i] = backlog'[j] => i = j
      <4> SUFFICES ASSUME NEW i \in 1 .. n - 1, NEW j \in 1 .. n - 1, backlog'[i] = backlog'[j]
                   PROVE  i = j
        OBVIOUS
      <4>1. i + 1 = j + 1
        BY <1>1, <3>2, <3>7 DEF ConnectionsInv
      <4> QED
        BY <4>1
    <3> QED
      BY <3>3, <3>8, <3>9, <3>10, <3>11, <3>12 DEF ConnectionsInv
  <2>3. ASSUME NEW s \in Sockets, Stays(s) PROVE ConnectionsInv'
    BY <1>1, <2>1, <2>3 DEF Stays, ConnectionsInv
  <2>4. ASSUME NEW s \in Sockets, Closes(s) PROVE ConnectionsInv'
    <3>1. PICK c \in Clients : /\ c = owner[s] /\ closed' = closed \cup {c}
                              /\ owner' = [owner EXCEPT ![s] = NoClient]
                              /\ backlog' = backlog
      BY <1>1, <2>4 DEF Closes, Disconnect, TypeOK
    <3>2. \A t \in Sockets : owner'[t] = IF t = s THEN NoClient ELSE owner[t]
      BY <1>1, <3>1 DEF TypeOK
    <3>3. \A t \in Sockets : t # s => owner[t] # c
      <4>1. c # NoClient
        BY EchoAssumption
      <4> QED
        BY <1>1, <3>1, <4>1 DEF ConnectionsInv
    <3>4. /\ proc[c] # "idle" /\ \A i \in 1 .. Len(backlog) : backlog[i] # c
      BY <1>1, <3>1 DEF ConnectionsInv
    <3>5. NoClient \notin closed' /\ NoClient \notin Clients
          /\ \A i \in 1 .. Len(backlog) : backlog[i] \in Clients
      <4>1. NoClient \notin Clients
        BY EchoAssumption
      <4>2. closed \subseteq Clients /\ backlog \in Seq(Clients)
        BY <1>1 DEF TypeOK
      <4> QED
        BY <3>1, <4>1, <4>2, ElementOfSeq
    <3> QED
      BY <1>1, <2>1, <3>1, <3>2, <3>3, <3>4, <3>5 DEF ConnectionsInv
  <2> QED
    BY <1>1, <1>3, <2>2, <2>3, <2>4, ServerFrame
<1> QED
  BY <1>2, <1>3 DEF Next, ClientStep

(* The poll set holds the open sockets and the listening one.              *)
LEMMA PollKept ==
  ASSUME IInv, Next
  PROVE  PollInv'
<1>1. TypeOK /\ PollInv /\ WaitInv
  BY DEF IInv
<1>2. ASSUME NEW c \in Clients, ClientStep(c) PROVE PollInv'
  <2>1. UNCHANGED <<pollVars, owner, status>>
    BY <1>1, <1>2, ClientFrame DEF serverVars
  <2> QED
    BY <1>1, <2>1 DEF PollInv, pollVars, Poll!Watched, OpenSockets
<1>3. CASE Server
  <2>1. /\ status = "running" /\ Poll!Watched = OpenSockets \cup {MainSocket}
        /\ \A i \in Poll!Watched : pollSet[i] = i /\ i < maxFd /\ i \in Nat
    BY <1>1, <1>3, ServerFrame DEF PollInv, Poll!Watched
  <2>2. ASSUME NEW s \in Sockets, Opens(s) PROVE PollInv'
    <3>1. PICK c \in Clients : c = Head(backlog)
      <4>1. backlog # <<>> /\ backlog \in Seq(Clients)
        BY <1>1, <2>2 DEF Opens, TypeOK
      <4> QED
        BY <4>1, HeadTailProperties
    <3>2. \A t \in Sockets : owner'[t] = IF t = s THEN c ELSE owner[t]
      BY <1>1, <2>2, <3>1 DEF Opens, TypeOK
    <3>3. OpenSockets' = OpenSockets \cup {s} /\ c # NoClient
      BY <3>2, EchoAssumption DEF OpenSockets
    <3>4. CASE Poll!AddToPollSet(s) /\ status' = status
      <4>1. /\ maxFd' \in 0 .. setSize' /\ maxFd <= maxFd' /\ s < maxFd' /\ setSize' \in Nat
            /\ Poll!Watched' = Poll!Watched \cup {s} /\ pollSet'[s] = s
            /\ \A i \in Poll!Watched \ {s} : pollSet'[i] = pollSet[i]
        BY <1>1, <2>1, <3>4, AddKeepsShape
      <4>2. maxFd \in Nat /\ maxFd' \in Nat /\ s \in Nat
        BY <1>1, <4>1, EchoAssumption DEF TypeOK
      <4>3. \A i \in Poll!Watched' : pollSet'[i] = i /\ i < maxFd'
        BY <2>1, <4>1, <4>2
      <4>4. Poll!Watched' = OpenSockets' \cup {MainSocket}
        BY <2>1, <3>3, <4>1
      <4>5. MainSocket \notin Sockets
        BY EchoAssumption
      <4>6. \A t \in Sockets : owner'[t] = NoClient => t \notin Poll!Watched'
        BY <4>4, <4>5 DEF OpenSockets
      <4> QED
        BY <4>3, <4>4, <4>6 DEF PollInv
    <3>5. CASE Poll!GrowPollSetFails(s)
      <4>1. UNCHANGED pollVars /\ status' = "exited"
        BY <3>5 DEF Poll!GrowPollSetFails, Poll!pollVars, pollVars
      <4> QED
        BY <1>1, <3>2, <3>3, <4>1 DEF PollInv, pollVars, Poll!Watched
    <3> QED
      BY <2>2, <3>4, <3>5 DEF Opens
  <2>3. ASSUME NEW s \in Sockets, Stays(s) PROVE PollInv'
    BY <1>1, <2>1, <2>3 DEF Stays, PollInv, pollVars, Poll!Watched, OpenSockets
  <2>4. ASSUME NEW s \in Sockets, Closes(s) PROVE PollInv'
    <3>1. /\ pollSet' = [pollSet EXCEPT ![s] = Poll!Stdin] /\ setSize' = setSize /\ maxFd' = maxFd
          /\ owner' = [owner EXCEPT ![s] = NoClient] /\ status' = status
      BY <2>4 DEF Closes, Disconnect, Poll!RemoveFromPollSet
    <3>2. \A i \in 0 .. setSize - 1 : pollSet'[i] = IF i = s THEN Poll!Stdin ELSE pollSet[i]
      BY <1>1, <3>1 DEF TypeOK
    <3>3. Poll!Watched' = Poll!Watched \ {s} /\ \A i \in Poll!Watched' : pollSet'[i] = pollSet[i]
      BY <3>1, <3>2 DEF Poll!Watched
    <3>4. \A t \in Sockets : owner'[t] = IF t = s THEN NoClient ELSE owner[t]
      BY <1>1, <3>1 DEF TypeOK
    <3>5. OpenSockets' = OpenSockets \ {s} /\ s # MainSocket
      BY <3>4, EchoAssumption DEF OpenSockets
    <3> QED
      BY <1>1, <2>1, <3>1, <3>3, <3>4, <3>5 DEF PollInv
  <2> QED
    BY <1>1, <1>3, <2>2, <2>3, <2>4, ServerFrame
<1> QED
  BY <1>2, <1>3 DEF Next, ClientStep

----------------------------------------------------------------------------
(* The causes of a disconnection                                           *)

(* Taking a PDU counts one that has been sent, of a client that is served. *)
LEMMA TakenGrows ==
  ASSUME TypeOK, WaitInv, NEW s \in Sockets, TakesFrom(s), up' = up
  PROVE  \E c \in Clients :
           /\ c = owner[s]
           /\ taken[c] + 1 <= Len(up[c])
           /\ \A d \in Clients : taken'[d] = IF d = c THEN taken[c] + 1 ELSE taken[d]
           /\ NextData(c) = 0 => EmptyTaken(c)'
           /\ NextData(c) > 0 => DataTaken(c)'
<1>1. PICK c \in Clients : c = owner[s]
  BY DEF TakesFrom, TypeOK
<1>2. /\ taken \in [Clients -> Nat] /\ taken[c] \in Nat /\ Len(up[c]) \in Nat
      /\ taken[c] < Len(up[c]) /\ taken' = [taken EXCEPT ![c] = @ + 1]
  BY <1>1 DEF TakesFrom, Unread, TypeOK
<1>3. \A d \in Clients : taken'[d] = IF d = c THEN taken[c] + 1 ELSE taken[d]
  BY <1>2
<1>4. taken'[c] > 0 /\ up'[c][taken'[c]] = NextData(c)
  BY <1>2, <1>3 DEF NextData
<1> QED
  BY <1>1, <1>2, <1>3, <1>4 DEF EmptyTaken, DataTaken

(* What a client sends later does not change the PDUs already taken.       *)
LEMMA EmptyStays ==
  ASSUME TypeOK, WaitInv, NEW c \in Clients, ClientStep(c), NEW d \in Clients
  PROVE  /\ taken'[d] <= Len(up'[d])
         /\ (EmptyTaken(d) => EmptyTaken(d)') /\ (DataTaken(d) => DataTaken(d)')
<1>1. taken' = taken /\ taken[d] \in Nat /\ taken[d] <= Len(up[d])
  BY ClientFrame DEF serverVars, WaitInv, TypeOK
<1>2. /\ Len(up[d]) \in Nat /\ Len(up'[d]) \in Nat /\ Len(up[d]) <= Len(up'[d])
      /\ \A i \in 1 .. Len(up[d]) : up'[d][i] = up[d][i]
  BY UpGrows
<1>3. taken[d] > 0 => up'[d][taken[d]] = up[d][taken[d]]
  BY <1>1, <1>2
<1> QED
  BY <1>1, <1>2, <1>3 DEF EmptyTaken, DataTaken

(* recv goes on waiting for a client whose last PDU was empty, send for    *)
(* one whose last was not, and neither for a PDU that has not been sent.   *)
LEMMA WaitKept ==
  ASSUME IInv, Next
  PROVE  WaitInv'
<1>1. TypeOK /\ PollInv /\ WaitInv
  BY DEF IInv
<1>2. ASSUME NEW c \in Clients, ClientStep(c) PROVE WaitInv'
  <2>1. UNCHANGED <<owner, sending, waiting>>
    BY <1>1, <1>2, ClientFrame DEF serverVars
  <2>2. /\ waiting # -1 => owner[waiting] \in Clients
        /\ sending # -1 => owner[sending] \in Clients
    BY <1>1 DEF TypeOK, WaitInv
  <2>3. \A d \in Clients : /\ taken'[d] <= Len(up'[d])
                           /\ (EmptyTaken(d) => EmptyTaken(d)') /\ (DataTaken(d) => DataTaken(d)')
    BY <1>1, <1>2, EmptyStays
  <2> QED
    BY <1>1, <2>1, <2>2, <2>3 DEF WaitInv, EmptyTaken, DataTaken
<1>3. CASE Server
  <2>1. up' = up
    BY <1>1, <1>3, ServerFrame DEF clientVars
  <2>2. ASSUME NEW s \in Sockets, TakesFrom(s)
        PROVE  \A d \in Clients : taken'[d] <= Len(up'[d])
    BY <1>1, <2>1, <2>2, TakenGrows DEF WaitInv
  <2>3. ASSUME NEW s \in Sockets, Opens(s) PROVE WaitInv'
    BY <1>1, <2>1, <2>3 DEF Opens, WaitInv
  <2>4. ASSUME NEW s \in Sockets, Stays(s) PROVE WaitInv'
    <3>1. \A d \in Clients : taken'[d] <= Len(up'[d])
      BY <1>1, <2>1, <2>2, <2>4 DEF Stays, WaitInv
    <3>2. sending' = -1 \/ waiting' = -1
      BY <2>4 DEF Stays
    <3>3. owner' = owner
      BY <2>4 DEF Stays
    <3>4. ASSUME TakesFrom(s)
          PROVE  /\ owner[s] # NoClient
                 /\ NextData(owner[s]) = 0 => EmptyTaken(owner[s])'
                 /\ NextData(owner[s]) > 0 => DataTaken(owner[s])'
      <4>1. PICK c \in Clients : /\ c = owner[s] /\ (NextData(c) = 0 => EmptyTaken(c)')
                                /\ (NextData(c) > 0 => DataTaken(c)')
        BY <1>1, <2>1, <3>4, TakenGrows
      <4> QED
        BY <3>3, <4>1, EchoAssumption DEF EmptyTaken, DataTaken
    <3>5. waiting' # -1 => owner'[waiting'] # NoClient /\ EmptyTaken(owner[waiting])'
      BY <2>4, <3>3, <3>4 DEF Stays, EmptyTaken
    <3>6. sending' # -1 => owner'[sending'] # NoClient /\ DataTaken(owner[sending])'
      BY <2>4, <3>3, <3>4 DEF Stays, DataTaken
    <3> QED
      BY <3>1, <3>2, <3>5, <3>6 DEF WaitInv
  <2>5. ASSUME NEW s \in Sockets, Closes(s) PROVE WaitInv'
    BY <1>1, <2>1, <2>2, <2>5 DEF Closes, WaitInv
  <2> QED
    BY <1>1, <1>3, <2>3, <2>4, <2>5, ServerFrame
<1> QED
  BY <1>2, <1>3 DEF Next, ClientStep

(* Whoever is closed has a cause, and keeps it.                            *)
LEMMA CauseKept ==
  ASSUME IInv, Next
  PROVE  CauseInv'
<1>1. TypeOK /\ ConnectionsInv /\ PollInv /\ WaitInv /\ CauseInv
  BY DEF IInv
<1>2. closed \subseteq Clients
  BY <1>1 DEF TypeOK
<1>3. ASSUME NEW c \in Clients, ClientStep(c) PROVE CauseInv'
  <2> SUFFICES ASSUME NEW d \in closed, link'[d] = "open" PROVE EmptyTaken(d)'
    BY <1>1, <1>3, ClientFrame DEF serverVars, CauseInv
  <2>1. link[d] = "open"
    BY <1>1, <1>2, <1>3, ClientFrame DEF ConnectionsInv
  <2> QED
    BY <1>1, <1>2, <1>3, <2>1, EmptyStays DEF CauseInv
<1>4. CASE Server
  <2>1. up' = up /\ link' = link
    BY <1>1, <1>4, ServerFrame DEF clientVars
  <2>2. ASSUME NEW s \in Sockets, TakesFrom(s), NEW d \in closed, EmptyTaken(d)
        PROVE  EmptyTaken(d)'
    <3>1. owner[s] # d
      BY <1>1 DEF ConnectionsInv
    <3>2. taken'[d] = taken[d]
      BY <1>1, <1>2, <2>1, <2>2, <3>1, TakenGrows
    <3> QED
      BY <2>1, <2>2, <3>2 DEF EmptyTaken
  <2>3. ASSUME NEW s \in Sockets, Opens(s) PROVE CauseInv'
    BY <1>1, <2>1, <2>3 DEF Opens, CauseInv, EmptyTaken
  <2>4. ASSUME NEW s \in Sockets, Stays(s) PROVE CauseInv'
    <3>1. CASE taken' = taken
      BY <1>1, <2>1, <2>4, <3>1 DEF Stays, CauseInv, EmptyTaken
    <3>2. CASE TakesFrom(s)
      BY <1>1, <2>1, <2>2, <2>4, <3>2 DEF Stays, CauseInv
    <3> QED
      BY <2>4, <3>1, <3>2 DEF Stays
  <2>5. ASSUME NEW s \in Sockets, Closes(s) PROVE CauseInv'
    <3>1. PICK c \in Clients : c = owner[s] /\ closed' = closed \cup {c}
      BY <1>1, <2>5 DEF Closes, Disconnect, TypeOK
    <3>2. CASE taken' = taken /\ (link[c] # "open" \/ EmptyTaken(c))
      BY <1>1, <2>1, <3>1, <3>2 DEF CauseInv, EmptyTaken
    <3>3. CASE TakesFrom(s) /\ NextData(c) = 0
      <4>1. EmptyTaken(c)'
        BY <1>1, <2>1, <3>1, <3>3, TakenGrows
      <4> QED
        BY <1>1, <2>1, <2>2, <3>1, <3>3, <4>1 DEF CauseInv
    <3> QED
      BY <2>5, <3>1, <3>2, <3>3 DEF Closes
  <2> QED
    BY <1>1, <1>4, <2>3, <2>4, <2>5, ServerFrame
<1> QED
  BY <1>3, <1>4 DEF Next, ClientStep

(* Both programs start in the invariant.                                   *)
LEMMA InitHolds == Init => IInv
<1> SUFFICES ASSUME Init PROVE IInv
  OBVIOUS
<1>1. /\ MainSocket \in Nat \ {0} /\ POLL_SET_SIZE \in Nat \ {0} /\ MainSocket \notin Sockets
      /\ NoClient \notin Clients /\ \A s \in Sockets : s \in Nat
  BY EchoAssumption
<1>2. PICK size \in Nat :
        size = POLL_SET_SIZE + (IF MainSocket < POLL_SET_SIZE THEN 0 ELSE MainSocket)
  BY <1>1
<1>3. MainSocket < size /\ MainSocket + 1 \in 0 .. size /\ MainSocket \in 0 .. size - 1
  BY <1>1, <1>2
<1>4. /\ setSize = size /\ maxFd = MainSocket + 1
      /\ pollSet = [i \in 0 .. size - 1 |-> IF i = MainSocket THEN i ELSE Poll!Stdin]
  BY <1>2 DEF Init
<1>5. Poll!Watched = {MainSocket} /\ pollSet[MainSocket] = MainSocket
  <2>1. Poll!Stdin = 0
    BY DEF Poll!Stdin
  <2> QED
    BY <1>1, <1>3, <1>4, <2>1 DEF Poll!Watched
<1>6. OpenSockets = {}
  BY DEF Init, OpenSockets
<1>7. Len(backlog) = 0 /\ \A c \in Clients : Len(up[c]) = 0 /\ taken[c] = 0
  BY DEF Init
<1>8. TypeOK
  <2>1. pollSet \in [0 .. setSize - 1 -> Sockets \cup {Poll!Stdin, MainSocket}]
    BY <1>4
  <2> QED
    BY <1>3, <1>4, <2>1 DEF Init, TypeOK
<1>9. ConnectionsInv
  BY <1>1, <1>7 DEF Init, ConnectionsInv
<1>10. PollInv
  BY <1>1, <1>4, <1>5, <1>6 DEF PollInv
<1>11. WaitInv /\ CauseInv
  BY <1>7 DEF Init, WaitInv, CauseInv
<1> QED
  BY <1>8, <1>9, <1>10, <1>11 DEF IInv

(* The invariant is inductive.                                             *)
LEMMA NextKeeps == IInv /\ [Next]_vars => IInv'
<1> SUFFICES ASSUME IInv, [Next]_vars PROVE IInv'
  OBVIOUS
<1>1. CASE Next
  <2>1. TypeOK'
    BY <1>1, TypeKept DEF IInv
  <2> QED
    BY <1>1, <2>1, ConnectionsKept, PollKept, WaitKept, CauseKept DEF IInv
<1>2. CASE UNCHANGED vars
  BY <1>2 DEF vars, clientVars, inputVars, serverVars, pollVars, IInv, TypeOK, ConnectionsInv,
              PollInv, WaitInv, CauseInv, EmptyTaken, DataTaken, Poll!Watched, OpenSockets
<1> QED
  BY <1>1, <1>2

----------------------------------------------------------------------------
(* Theorems                                                                *)

(* The two programs never leave the invariant.                             *)
THEOREM IInvHolds == Spec => []IInv
BY InitHolds, NextKeeps, PTL DEF Spec

(* Each variable has its type: no PDU has more data than the buffers hold, *)
(* none that is echoed is empty, and the poll set covers its descriptors.  *)
THEOREM TypeCorrect == Spec => []TypeOK
BY IInvHolds, PTL DEF IInv

(* No client is hung up on without having left or sent an empty line, and  *)
(* its socket is neither served nor polled again.                          *)
THEOREM DisconnectsHaveCause == Spec => []DisconnectHasCause
<1>1. IInv => DisconnectHasCause
  BY DEF IInv, ConnectionsInv, PollInv, CauseInv, EmptyTaken, DisconnectHasCause
<1> QED
  BY <1>1, IInvHolds, PTL

----------------------------------------------------------------------------
(* Lines and echoes                                                        *)

(* An echo repeats the last PDU taken from a client, and ends the send; a  *)
(* send begins with the next PDU of its client.                            *)
LEMMA EchoForms ==
  ASSUME TypeOK, PollInv, WaitInv, Next
  PROVE  \/ /\ down' = down
            /\ \/ UNCHANGED <<sending, owner, taken>>
               \/ sending' = -1
               \/ \E s \in Sockets, c \in Clients :
                    sending' = s /\ owner'[s] = c /\ TakesFrom(s) /\ c = owner[s]
         \/ /\ UNCHANGED <<up, taken>> /\ sending' = -1 /\ sending # -1
            /\ \E c \in Clients : /\ c = owner[sending] /\ taken[c] > 0
                                  /\ down' = [down EXCEPT ![c] = Append(@, up[c][taken[c]])]
<1>1. ASSUME NEW c \in Clients, ClientStep(c) PROVE UNCHANGED <<down, sending, owner, taken>>
  BY <1>1, ClientFrame DEF serverVars
<1>2. CASE Server /\ ~Echo
  <2>1. down' = down
    BY <1>2 DEF Server, Accept, AcceptFails, vars, serverVars, TakeData, TakeEmpty, ServeEof,
                RecvFails, WaitIsOver
  <2>2. ASSUME NEW s \in Sockets, Stays(s), sending' # -1
        PROVE  \E c \in Clients : sending' = s /\ owner'[s] = c /\ TakesFrom(s) /\ c = owner[s]
    <3>1. sending' = s /\ TakesFrom(s) /\ owner' = owner
      BY <2>2 DEF Stays
    <3>2. owner[s] \in Clients
      BY <3>1 DEF TakesFrom, TypeOK
    <3> QED
      BY <3>1, <3>2
  <2>3. ASSUME NEW s \in Sockets, Opens(s) \/ Closes(s) PROVE sending' = -1
    BY <2>3 DEF Opens, Closes
  <2> QED
    BY <1>2, <2>1, <2>2, <2>3, ServerFrame
<1>3. CASE Echo
  <2>1. PICK c \in Clients : c = owner[sending] /\ taken[c] > 0
    BY <1>3 DEF Echo, WaitInv, DataTaken, TypeOK
  <2>2. UNCHANGED <<up, taken>> /\ sending # -1 /\ sending' = -1
    BY <1>3 DEF Echo, clientVars
  <2>3. down' = down \/ down' = [down EXCEPT ![c] = Append(@, up[c][taken[c]])]
    BY <1>3, <2>1 DEF Echo, Echoed
  <2> QED
    BY <2>1, <2>2, <2>3
<1> QED
  BY <1>1, <1>2, <1>3 DEF Next, ClientStep

(* PDUs are taken one after the other, none is taken back, and those that  *)
(* were sent stay what they are.                                           *)
LEMMA TakenInOrder ==
  ASSUME TypeOK, PollInv, WaitInv, Next, NEW c \in Clients
  PROVE  /\ taken[c] \in Nat /\ taken'[c] \in Nat /\ taken[c] <= taken'[c]
         /\ \A i \in 1 .. taken[c] : up'[c][i] = up[c][i]
<1>1. taken[c] \in Nat /\ taken[c] <= Len(up[c]) /\ Len(up[c]) \in Nat
  BY DEF TypeOK, WaitInv
<1>2. ASSUME NEW d \in Clients, ClientStep(d)
      PROVE  taken' = taken /\ \A i \in 1 .. taken[c] : up'[c][i] = up[c][i]
  <2>1. taken' = taken
    BY <1>2, ClientFrame DEF serverVars
  <2>2. \A i \in 1 .. Len(up[c]) : up'[c][i] = up[c][i]
    BY <1>2, UpGrows
  <2> QED
    BY <1>1, <2>1, <2>2
<1>3. CASE Server
  <2>1. up' = up
    BY <1>3, ServerFrame DEF clientVars
  <2>2. ASSUME NEW s \in Sockets, TakesFrom(s)
        PROVE  taken'[c] = taken[c] \/ taken'[c] = taken[c] + 1
    BY <2>1, <2>2, TakenGrows
  <2>3. taken'[c] = taken[c] \/ taken'[c] = taken[c] + 1
    BY <1>3, <2>2, ServerFrame DEF Opens, Stays, Closes
  <2> QED
    BY <1>1, <2>1, <2>3
<1>4. ClientStep(c) \/ Server \/ \E d \in Clients : ClientStep(d)
  BY DEF Next, ClientStep
<1> QED
  BY <1>1, <1>2, <1>3, <1>4

(* The places of the echoes among the PDUs of c; while a send is running   *)
(* the last PDU taken has none yet.                                        *)
EchoPlaces(c, place) ==
  /\ place \in [DOMAIN down[c] -> 1 .. taken[c]]
  /\ \A i, j \in DOMAIN down[c] :
       down[c][i] = up[c][place[i]] /\ (i < j => place[i] < place[j])
  /\ \A i \in DOMAIN down[c] :
       sending # -1 /\ owner[sending] = c => place[i] < taken[c]

(* Where the echoes of one client come from stays known.                   *)
LEMMA PlacesKept ==
  ASSUME TypeOK, PollInv, WaitInv, Next, NEW c \in Clients, NEW place, EchoPlaces(c, place)
  PROVE  \E q : EchoPlaces(c, q)'
<1>1. PICK m \in Nat : m = Len(down[c]) /\ DOMAIN down[c] = 1 .. m
  BY DEF TypeOK
<1>2. /\ place \in [1 .. m -> 1 .. taken[c]]
      /\ \A i, k \in 1 .. m : down[c][i] = up[c][place[i]] /\ (i < k => place[i] < place[k])
      /\ sending # -1 /\ owner[sending] = c => \A i \in 1 .. m : place[i] < taken[c]
  BY <1>1 DEF EchoPlaces
<1>3. /\ taken[c] \in Nat /\ taken'[c] \in Nat /\ taken[c] <= taken'[c]
      /\ \A i \in 1 .. taken[c] : up'[c][i] = up[c][i]
  BY TakenInOrder
<1>4. ASSUME down'[c] = down[c],
             sending' # -1 /\ owner'[sending'] = c => \A i \in 1 .. m : place[i] < taken'[c]
      PROVE  \E q : EchoPlaces(c, q)'
  <2>1. place \in [1 .. m -> 1 .. taken'[c]]
    BY <1>2, <1>3
  <2>2. \A i, k \in 1 .. m : down'[c][i] = up'[c][place[i]] /\ (i < k => place[i] < place[k])
    BY <1>2, <1>3, <1>4
  <2>3. EchoPlaces(c, place)'
    BY <1>1, <1>4, <2>1, <2>2 DEF EchoPlaces
  <2> QED
    BY <2>3
<1>5. ASSUME down' = down,
             \/ UNCHANGED <<sending, owner, taken>>
             \/ sending' = -1
             \/ \E s \in Sockets, d \in Clients :
                  sending' = s /\ owner'[s] = d /\ TakesFrom(s) /\ d = owner[s]
      PROVE  \E q : EchoPlaces(c, q)'
  <2>1. CASE UNCHANGED <<sending, owner, taken>>
    BY <1>2, <1>4, <1>5, <2>1
  <2>2. CASE sending' = -1
    BY <1>4, <1>5, <2>2
  <2>3. ASSUME NEW s \in Sockets, sending' = s, owner'[s] = c, TakesFrom(s), c = owner[s]
        PROVE  \A i \in 1 .. m : place[i] < taken'[c]
    <3>1. taken'[c] = taken[c] + 1
      BY <2>3 DEF TakesFrom, TypeOK
    <3>2. \A i \in 1 .. m : place[i] \in 1 .. taken[c]
      BY <1>2
    <3> QED
      BY <1>3, <3>1, <3>2
  <2>4. CASE \E s \in Sockets, d \in Clients :
               sending' = s /\ owner'[s] = d /\ TakesFrom(s) /\ d = owner[s]
    BY <1>4, <1>5, <2>3, <2>4
  <2> QED
    BY <1>5, <2>1, <2>2, <2>4
<1>6. ASSUME UNCHANGED <<up, taken>>, sending # -1, sending' = -1, c = owner[sending], taken[c] > 0,
             down' = [down EXCEPT ![c] = Append(@, up[c][taken[c]])]
      PROVE  \E q : EchoPlaces(c, q)'
  <2>1. PICK n \in Nat : n = taken[c] /\ n > 0 /\ taken'[c] = n
    BY <1>3, <1>6
  <2>2. /\ DOMAIN down'[c] = 1 .. m + 1
        /\ \A i \in 1 .. m : down'[c][i] = down[c][i]
        /\ down'[c][m + 1] = up'[c][n]
    <3>1. down[c] \in Seq(1 .. MAXBUF - 2) /\ down'[c] = Append(down[c], up'[c][n])
      BY <1>6, <2>1 DEF TypeOK
    <3> QED
      BY <1>1, <3>1, LenProperties
  <2>3. PICK q : q = [i \in 1 .. m + 1 |-> IF i = m + 1 THEN n ELSE place[i]]
    OBVIOUS
  <2>4. \A i \in 1 .. m : q[i] = place[i] /\ place[i] \in 1 .. n /\ place[i] < n
    <3>1. \A i \in 1 .. m : place[i] \in 1 .. n /\ place[i] < n
      BY <1>2, <1>6, <2>1
    <3>2. \A i \in 1 .. m : i \in 1 .. m + 1 /\ i # m + 1
      OBVIOUS
    <3> QED
      BY <2>3, <3>1, <3>2
  <2>5. q \in [1 .. m + 1 -> 1 .. n] /\ q[m + 1] = n
    <3>1. m + 1 \in 1 .. m + 1 /\ \A i \in 1 .. m + 1 : i = m + 1 \/ i \in 1 .. m
      OBVIOUS
    <3>2. q[m + 1] = n /\ n \in 1 .. n
      BY <2>1, <2>3, <3>1
    <3>3. \A i \in 1 .. m + 1 : q[i] \in 1 .. n
      BY <2>4, <3>1, <3>2
    <3> QED
      BY <2>3, <3>2, <3>3
  <2>6. ASSUME NEW i \in 1 .. m + 1 PROVE down'[c][i] = up'[c][q[i]]
    <3>1. CASE i = m + 1
      BY <2>2, <2>5, <3>1
    <3>2. CASE i \in 1 .. m
      BY <1>2, <1>6, <2>2, <2>4, <3>2
    <3> QED
      BY <3>1, <3>2
  <2>7. ASSUME NEW i \in 1 .. m + 1, NEW k \in 1 .. m + 1, i < k PROVE q[i] < q[k]
    <3>1. i \in 1 .. m /\ q[i] = place[i]
      BY <2>4, <2>7
    <3>2. CASE k = m + 1
      BY <2>4, <2>5, <3>1, <3>2
    <3>3. CASE k \in 1 .. m
      BY <1>2, <2>4, <2>7, <3>1, <3>3
    <3> QED
      BY <3>2, <3>3
  <2>8. EchoPlaces(c, q)'
    <3>1. q \in [DOMAIN down'[c] -> 1 .. taken'[c]]
      BY <2>1, <2>2, <2>5
    <3>2. \A i, k \in DOMAIN down'[c] :
            down'[c][i] = up'[c][q[i]] /\ (i < k => q[i] < q[k])
      BY <2>2, <2>6, <2>7
    <3> QED
      BY <1>6, <3>1, <3>2 DEF EchoPlaces
  <2> QED
    BY <2>8
<1>7. ASSUME NEW d \in Clients, d # c, sending' = -1,
             down' = [down EXCEPT ![d] = Append(@, up[d][taken[d]])]
      PROVE  \E q : EchoPlaces(c, q)'
  <2>1. down'[c] = down[c]
    BY <1>7 DEF TypeOK
  <2> QED
    BY <1>4, <1>7, <2>1
<1> QED
  BY <1>5, <1>6, <1>7, EchoForms

(* Each client gets back its own lines only, in order and once each,       *)
(* whoever else the server accepts, echoes to, waits for or drops between  *)
(* them.                                                                   *)
THEOREM EchoesStayInOrder == Spec => []EchoesInOrder
<1> DEFINE Places == \A c \in Clients : \E place : EchoPlaces(c, place)
<1>1. Places => EchoesInOrder
  BY DEF EchoesInOrder, EchoPlaces
<1>2. Init => Places
  <2> SUFFICES ASSUME Init, NEW c \in Clients PROVE \E place : EchoPlaces(c, place)
    OBVIOUS
  <2>1. DOMAIN down[c] = {}
    BY DEF Init
  <2>2. EchoPlaces(c, [i \in {} |-> i])
    BY <2>1 DEF EchoPlaces
  <2> QED
    BY <2>2
<1>3. IInv /\ Places /\ [Next]_vars => Places'
  <2> SUFFICES ASSUME IInv, Places, [Next]_vars PROVE Places'
    OBVIOUS
  <2>1. CASE Next
    <3> SUFFICES ASSUME NEW c \in Clients PROVE \E q : EchoPlaces(c, q)'
      OBVIOUS
    <3>1. PICK place : EchoPlaces(c, place)
      OBVIOUS
    <3> QED
      BY <2>1, <3>1, PlacesKept DEF IInv
  <2>2. CASE UNCHANGED vars
    BY <2>2 DEF vars, clientVars, serverVars, EchoPlaces
  <2> QED
    BY <2>1, <2>2
<1> HIDE DEF Places
<1> QED
  BY <1>1, <1>2, <1>3, IInvHolds, PTL DEF Spec

(* The lines a client has typed: those sent, those in stdio and those in   *)
(* descriptor 0, each group in order and nothing between them.             *)
Waiting(c) == stdio[c] \o input[c]
FlowInv ==
  \A c \in Clients : Fits(c) =>
    \E left \in Seq(Nat) :
      typed[c] = up[c] \o left /\ (proc[c] # "gone" => left = Waiting(c))

(* The characters of a line that fits are one PDU.                         *)
LEMMA LineIsOnePdu ==
  ASSUME NEW c \in Clients, Fits(c), NEW n, NEW i \in DOMAIN typed[c], typed[c][i] = n
  PROVE  Data(n) = n /\ Rest(n) = <<>>
BY DEF Fits, Data, Rest

(* What fgets chooses from and what is left behind it are what waits.      *)
LEMMA BufferedIsFirst ==
  ASSUME TypeOK, NEW c \in Clients, Buffered(c) # <<>>
  PROVE  Buffered(c) \o LeftInInput(c) = Waiting(c)
<1>1. input[c] \in Seq(Nat) /\ stdio[c] \in Seq(Nat)
  BY DEF TypeOK
<1>2. CASE stdio[c] # <<>>
  BY <1>2 DEF Buffered, LeftInInput, Waiting
<1>3. CASE stdio[c] = <<>> /\ input[c] # <<>>
  <2>1. Waiting(c) = input[c]
    BY <1>1, <1>3, ConcatEmptySeq DEF Waiting
  <2>2. CASE c \in Terminals
    <3>1. Buffered(c) = <<Head(input[c])>> /\ LeftInInput(c) = Tail(input[c])
      BY <1>3, <2>2 DEF Buffered, LeftInInput
    <3>2. <<Head(input[c])>> \o Tail(input[c]) = input[c]
      BY <1>1, <1>3, HeadThenTail
    <3> QED
      BY <2>1, <3>1, <3>2
  <2>3. CASE c \notin Terminals
    <3>1. Buffered(c) = input[c] /\ LeftInInput(c) = <<>>
      BY <1>3, <2>3 DEF Buffered, LeftInInput
    <3> QED
      BY <1>1, <2>1, <3>1, ConcatEmptySeq
  <2> QED
    BY <2>2, <2>3
<1>4. stdio[c] # <<>> \/ input[c] # <<>>
  BY DEF Buffered
<1> QED
  BY <1>2, <1>3, <1>4

(* The next line fgets hands out is the next one that was typed.           *)
LEMMA SendLineFlows ==
  ASSUME TypeOK, FlowInv, NEW c \in Clients, SendLine(c), Fits(c)
  PROVE  \E left \in Seq(Nat) :
           typed[c] = up'[c] \o left /\ (proc'[c] # "gone" => left = Waiting(c)')
<1>1. PICK n \in Nat, rest \in Seq(Nat) :
        /\ n = Head(Buffered(c)) /\ rest = Tail(Buffered(c))
        /\ Buffered(c) \in Seq(Nat) /\ Buffered(c) # <<>> /\ LeftInInput(c) \in Seq(Nat)
  BY LineTaken
<1>2. PICK left \in Seq(Nat) : left = Waiting(c) /\ typed[c] = up[c] \o left
  BY DEF FlowInv, SendLine
<1>3. up[c] \in Seq(Nat) /\ typed[c] \in Seq(Nat) /\ Len(up[c]) \in Nat
  <2>1. up[c] \in Seq(0 .. MAXBUF - 2) /\ 0 .. MAXBUF - 2 \subseteq Nat
    BY EchoAssumption DEF TypeOK
  <2>2. up[c] \in Seq(Nat)
    BY <2>1, SeqMonotonic
  <2> QED
    BY <2>2, LenProperties DEF TypeOK
<1>4. PICK head \in Seq(Nat) : head = <<n>>
  <2>1. <<n>> \in Seq(Nat)
    OBVIOUS
  <2> QED
    BY <2>1
<1>5. left = head \o (rest \o LeftInInput(c))
  <2>1. Buffered(c) = head \o rest
    BY <1>1, <1>4, HeadThenTail
  <2>2. left = (head \o rest) \o LeftInInput(c)
    BY <1>1, <1>2, <2>1, BufferedIsFirst
  <2> QED
    BY <1>1, <1>4, <2>2, ConcatAssociative
<1>6. Data(n) = n /\ Rest(n) = <<>>
  <2>1. rest \o LeftInInput(c) \in Seq(Nat)
    BY <1>1, ConcatProperties
  <2>2. Len(left) \in Nat /\ Len(left) >= 1 /\ left[1] = n
    <3>1. Len(head) = 1 /\ head[1] = n
      BY <1>4
    <3>2. /\ Len(left) = 1 + Len(rest \o LeftInInput(c))
          /\ \A i \in 1 .. Len(left) : i <= 1 => left[i] = head[i]
      BY <1>5, <2>1, <3>1, ConcatProperties
    <3>3. Len(rest \o LeftInInput(c)) \in Nat
      BY <2>1, LenProperties
    <3> QED
      BY <3>1, <3>2, <3>3
  <2>3. /\ Len(up[c]) + 1 \in 1 .. Len(typed[c])
        /\ typed[c][Len(up[c]) + 1] = left[1]
    BY <1>2, <1>3, <2>2, ConcatProperties
  <2>4. Len(up[c]) + 1 \in DOMAIN typed[c]
    BY <1>3, <2>3, LenProperties
  <2> QED
    BY <2>2, <2>3, <2>4, LineIsOnePdu
<1>7. CASE up' = [up EXCEPT ![c] = Append(@, Data(n))] /\ UNCHANGED <<proc, link>>
  <2>1. up'[c] = up[c] \o head
    <3>1. up'[c] = Append(up[c], n)
      BY <1>6, <1>7 DEF TypeOK
    <3> QED
      BY <1>1, <1>3, <1>4, <3>1, AppendIsConcat
  <2>2. stdio'[c] = rest /\ input'[c] = LeftInInput(c)
    <3>1. stdio'[c] = Rest(n) \o rest /\ input'[c] = LeftInInput(c)
      BY <1>1 DEF SendLine, TypeOK
    <3>2. <<>> \o rest = rest
      BY <1>1, ConcatEmptySeq
    <3> QED
      BY <1>6, <3>1, <3>2
  <2>3. PICK after \in Seq(Nat) : after = rest \o LeftInInput(c)
    BY <1>1, ConcatProperties
  <2>4. typed[c] = (up[c] \o head) \o after
    <3>1. typed[c] = up[c] \o (head \o after)
      BY <1>2, <1>5, <2>3
    <3>2. (up[c] \o head) \o after = up[c] \o (head \o after)
      <4>1. up[c] \in Seq(Nat) /\ head \in Seq(Nat) /\ after \in Seq(Nat)
        BY <1>3
      <4> QED
        BY <4>1, ConcatOfNumbers
    <3> QED
      BY <3>1, <3>2
  <2>5. after = Waiting(c)'
    BY <2>2, <2>3 DEF Waiting
  <2> QED
    BY <2>1, <2>3, <2>4, <2>5
<1>8. CASE up' = up /\ Leave(c)
  BY <1>2, <1>8 DEF Leave, TypeOK
<1> QED
  BY <1>1, <1>7, <1>8 DEF SendLine

(* Every step keeps the lines together.                                    *)
LEMMA FlowKept ==
  ASSUME TypeOK, PollInv, WaitInv, FlowInv, [Next]_vars
  PROVE  FlowInv'
<1> DEFINE Same(d) == /\ typed'[d] = typed[d] /\ up'[d] = up[d]
                      /\ stdio'[d] = stdio[d] /\ input'[d] = input[d]
                      /\ proc'[d] # "gone" => proc[d] # "gone"
           Flows(d) == \E left \in Seq(Nat) :
                         typed[d] = up[d] \o left /\ (proc[d] # "gone" => left = Waiting(d))
<1>1. ASSUME NEW d \in Clients, Fits(d)', Same(d) PROVE Flows(d)'
  BY <1>1 DEF FlowInv, Fits, Waiting
<1>2. ASSUME NEW c \in Clients, ClientStep(c), NEW d \in Clients, d # c PROVE Same(d)
  BY <1>2 DEF ClientStep, ClientReacts, TypeLine, EndInput, ConnectToServer, SendLine, InputEnds,
              ReceiveEcho, SeeServerGone, LateReset, Leave, TypeOK, inputVars
<1>3. ASSUME NEW c \in Clients, TypeLine(c), Fits(c)' PROVE Flows(c)'
  <2>1. PICK n \in Nat : /\ typed'[c] = Append(typed[c], n) /\ input'[c] = Append(input[c], n)
                         /\ UNCHANGED <<stdio, up, proc>>
    <3>1. PICK n \in Nat : /\ typed' = [typed EXCEPT ![c] = Append(@, n)]
                           /\ input' = [input EXCEPT ![c] = Append(@, n)]
                           /\ UNCHANGED <<stdio, up, proc>>
      BY <1>3, EchoAssumption DEF TypeLine
    <3> QED
      BY <3>1 DEF TypeOK
  <2>2. typed[c] \in Seq(Nat) /\ input[c] \in Seq(Nat) /\ stdio[c] \in Seq(Nat) /\ up[c] \in Seq(Nat)
    <3>1. up[c] \in Seq(0 .. MAXBUF - 2) /\ 0 .. MAXBUF - 2 \subseteq Nat
      BY EchoAssumption DEF TypeOK
    <3> QED
      BY <3>1, SeqMonotonic DEF TypeOK
  <2>3. Fits(c)
    <3>1. /\ DOMAIN typed[c] \subseteq DOMAIN typed'[c]
          /\ \A i \in DOMAIN typed[c] : typed'[c][i] = typed[c][i]
      BY <2>1, <2>2, AppendProperties, LenProperties
    <3> QED
      BY <1>3, <3>1 DEF Fits
  <2>4. typed[c] = up[c] \o Waiting(c)
    BY <1>3, <2>3 DEF FlowInv, TypeLine
  <2>5. PICK last \in Seq(Nat) : last = <<n>>
    <3>1. <<n>> \in Seq(Nat)
      OBVIOUS
    <3> QED
      BY <3>1
  <2>6. PICK wait \in Seq(Nat) : wait = Waiting(c)
    BY <2>2, ConcatProperties DEF Waiting
  <2>7. typed'[c] = up[c] \o (wait \o last)
    <3>1. typed'[c] = (up[c] \o wait) \o last
      BY <2>1, <2>2, <2>4, <2>5, <2>6, AppendIsConcat
    <3>2. (up[c] \o wait) \o last = up[c] \o (wait \o last)
      <4>1. up[c] \in Seq(Nat) /\ wait \in Seq(Nat) /\ last \in Seq(Nat)
        BY <2>2
      <4> QED
        BY <4>1, ConcatOfNumbers
    <3> QED
      BY <3>1, <3>2
  <2>8. Waiting(c)' = wait \o last
    <3>1. input'[c] = input[c] \o last
      BY <2>1, <2>2, <2>5, AppendIsConcat
    <3>2. (stdio[c] \o input[c]) \o last = stdio[c] \o (input[c] \o last)
      <4>1. stdio[c] \in Seq(Nat) /\ input[c] \in Seq(Nat) /\ last \in Seq(Nat)
        BY <2>2
      <4> QED
        BY <4>1, ConcatOfNumbers
    <3> QED
      BY <2>1, <2>6, <3>1, <3>2 DEF Waiting
  <2>9. PICK left \in Seq(Nat) : left = wait \o last
    BY ConcatProperties
  <2> QED
    BY <2>1, <2>7, <2>8, <2>9
<1>4. ASSUME NEW c \in Clients, SendLine(c), Fits(c)' PROVE Flows(c)'
  <2>1. typed' = typed /\ Fits(c)
    BY <1>4 DEF SendLine, Fits
  <2> QED
    BY <1>4, <2>1, SendLineFlows
<1>5. ASSUME NEW c \in Clients, ClientStep(c), ~TypeLine(c), ~SendLine(c) PROVE Same(c)
  BY <1>5 DEF ClientStep, ClientReacts, EndInput, ConnectToServer, InputEnds,
              ReceiveEcho, SeeServerGone, LateReset, Leave, TypeOK, inputVars
<1>6. ASSUME Server \/ UNCHANGED vars, NEW d \in Clients PROVE Same(d)
  BY <1>6, ServerFrame DEF clientVars, inputVars, vars
<1>7. ASSUME NEW d \in Clients, Fits(d)' PROVE Flows(d)'
  <2> HIDE DEF Same, Flows
  <2>1. CASE Server \/ UNCHANGED vars
    BY <1>1, <1>6, <1>7, <2>1
  <2>2. ASSUME NEW c \in Clients, ClientStep(c) PROVE Flows(d)'
    BY <1>1, <1>2, <1>3, <1>4, <1>5, <1>7, <2>2
  <2> QED
    BY <2>1, <2>2 DEF Next, ClientStep
<1> QED
  BY <1>7 DEF FlowInv

(* Lines that fit the buffer reach the server as they were typed, through  *)
(* descriptor 0 and the buffer of stdio, for a terminal and for a pipe.    *)
THEOREM LinesStaySentAsTyped == Spec => []LinesSentAsTyped
<1>1. Init => FlowInv
  <2> SUFFICES ASSUME Init, NEW c \in Clients
               PROVE  \E left \in Seq(Nat) :
                        typed[c] = up[c] \o left /\ (proc[c] # "gone" => left = Waiting(c))
    BY DEF FlowInv
  <2>1. typed[c] = <<>> /\ up[c] = <<>> /\ stdio[c] = <<>> /\ input[c] = <<>>
    BY DEF Init
  <2>2. PICK none \in Seq(Nat) : none = <<>> /\ none \o none = none
    BY EmptySeq, ConcatEmptySeq
  <2> QED
    BY <2>1, <2>2 DEF Waiting
<1>2. IInv /\ FlowInv /\ [Next]_vars => FlowInv'
  BY FlowKept DEF IInv
<1>3. IInv /\ FlowInv => LinesSentAsTyped
  <2> SUFFICES ASSUME TypeOK, FlowInv, NEW c \in Clients, Fits(c)
               PROVE  IsPrefix(up[c], typed[c])
    BY DEF IInv, LinesSentAsTyped
  <2>1. up[c] \in Seq(0 .. MAXBUF - 2) /\ 0 .. MAXBUF - 2 \subseteq Nat
    BY EchoAssumption DEF TypeOK
  <2>2. up[c] \in Seq(Nat)
    BY <2>1, SeqMonotonic
  <2> QED
    BY <2>2, StartIsPrefix DEF FlowInv
<1> QED
  BY <1>1, <1>2, <1>3, IInvHolds, PTL DEF Spec
=============================================================================
