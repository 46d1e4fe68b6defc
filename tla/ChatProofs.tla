----------------------------- MODULE ChatProofs ----------------------------
(***************************************************************************)
(* Proofs about ChatSystem for any number of clients and sockets, every    *)
(* size of the two arrays and every set of handles and texts.              *)
(***************************************************************************)
EXTENDS ChatSystem, FiniteSetTheorems, SequenceTheorems, TLAPS

(* What is proved of the table and of the poll set on their own holds of   *)
(* those of the server.                                                    *)
TP == INSTANCE HandleTableProofs WITH MaxAdds <- 0

Inputs == ReadyClients \cup (IF backlog = <<>> THEN {} ELSE {MainSocket})

PP == INSTANCE PollLoopProofs WITH
  Sockets <- Sockets \cup {MainSocket}, members <- OpenSockets \cup {MainSocket},
  ready <- Inputs, hup <- stdinHup, returned <- -1

(* What the constants of the system give those of the table.               *)
LEMMA TableAssumptions ==
  TP!SizeAssumption /\ TP!SocketAssumption /\ TP!HandleAssumption
  BY TablesAssumption, SocketsAssumption
     DEF TP!SizeAssumption, TP!SocketAssumption, TP!HandleAssumption

(* And those of the poll set.                                              *)
LEMMA PollAssumptions == PP!PollSizeAssumption /\ PP!PollSocketAssumption
  BY TablesAssumption, SocketsAssumption
     DEF PP!PollSizeAssumption, PP!PollSocketAssumption, PP!Stdin

----------------------------------------------------------------------------
(* The operators of the model                                              *)

(* A set of naturals that is not empty has its minimum in it, below all    *)
(* others.                                                                 *)
LEMMA LowestIsMember ==
  ASSUME NEW S \in SUBSET Nat, S # {}
  PROVE  Min(S) \in S /\ \A i \in S : Min(S) <= i
  BY PP!MinIsLowest, PollAssumptions DEF Min, PP!Min

(* PDUs as they are made: with their fields blank, naming one handle, with *)
(* another flag, list or text, stamped with their sender.                  *)
LEMMA FlagsAreBytes ==
  {Connect, Accepted, Refused, Message, Multicast, NoSuchHandle, Exit, ExitAck, List,
   HandleCount, HandleEntry, ListEnd} \subseteq 0 .. 255
  BY DEF Connect, Accepted, Refused, Message, Multicast, NoSuchHandle, Exit, ExitAck,
         List, HandleCount, HandleEntry, ListEnd

(* A PDU with its fields blank is one, with the flag given.                *)
LEMMA BlankPdu ==
  ASSUME NEW f \in 0 .. 255
  PROVE  /\ Pdu(f) \in Pdus
         /\ Pdu(f).flag = f /\ Pdu(f).by = NoClient /\ Pdu(f).text = NoText
  BY DEF Pdu, Pdus

(* So is one that names a handle.                                          *)
LEMMA NamingPdu ==
  ASSUME NEW f \in 0 .. 255, NEW h \in Handles
  PROVE  /\ Naming(f, h) \in Pdus
         /\ Naming(f, h).flag = f /\ Naming(f, h).dests = <<h>>
         /\ Naming(f, h).by = NoClient /\ Naming(f, h).text = NoText
<1>1. Naming(f, h) = [flag |-> f, dests |-> <<h>>, text |-> NoText, number |-> 0,
                      by |-> NoClient, id |-> 0]
  BY DEF Naming, Pdu
<1>2. <<h>> \in Seq(Handles)
  OBVIOUS
<1> QED
  BY <1>1, <1>2 DEF Pdus

(* A PDU stays one when its flag, its handles or its text are replaced.    *)
LEMMA ChangedPdu ==
  ASSUME NEW m \in Pdus
  PROVE  /\ \A t \in Texts \cup {NoText} : [m EXCEPT !.text = t] \in Pdus
         /\ \A f \in 0 .. 255, t \in Texts \cup {NoText} :
              [m EXCEPT !.flag = f, !.text = t] \in Pdus
         /\ \A f \in 0 .. 255, d \in Seq(Handles) :
              [m EXCEPT !.flag = f, !.dests = d] \in Pdus
         /\ \A d \in Seq(Handles), t \in Texts \cup {NoText} :
              [m EXCEPT !.dests = d, !.text = t] \in Pdus
  BY DEF Pdus

(* And when a client writes its name and the place of the request in it.   *)
LEMMA StampedPdu ==
  ASSUME NEW m \in Pdus, NEW c \in Clients, NEW n \in Nat
  PROVE  LET r == [m EXCEPT !.by = c, !.id = n] IN
         /\ r \in Pdus
         /\ r.by = c /\ r.id = n
         /\ r.flag = m.flag /\ r.dests = m.dests /\ r.text = m.text
  BY DEF Pdus

(* What is relayed of a message keeps its sender, its place and its text.  *)
LEMMA RelayedPdus ==
  ASSUME NEW m \in Pdus, m.text \in Texts
  PROVE  /\ Relayed(m) \in Seq(Pdus)
         /\ \A i \in DOMAIN Relayed(m) :
              Relayed(m)[i].by = m.by /\ Relayed(m)[i].id = m.id /\ Relayed(m)[i].text = m.text
         /\ ChunkFlags[m.text] = <<>> => Relayed(m) = <<m>>
<1> DEFINE flags == ChunkFlags[m.text]
<1>1. flags \in Seq(0 .. 255)
  BY TextsAssumption
<1>2. \A i \in DOMAIN flags :
        LET p == [m EXCEPT !.flag = flags[i], !.dests = <<>>] IN
        p \in Pdus /\ p.by = m.by /\ p.id = m.id /\ p.text = m.text
  <2> HIDE DEF flags
  <2> SUFFICES ASSUME NEW i \in DOMAIN flags
               PROVE  LET p == [m EXCEPT !.flag = flags[i], !.dests = <<>>] IN
                      p \in Pdus /\ p.by = m.by /\ p.id = m.id /\ p.text = m.text
    OBVIOUS
  <2>1. flags \in [1 .. Len(flags) -> 0 .. 255]
    BY <1>1, LenProperties
  <2>2. flags[i] \in 0 .. 255
    BY <2>1
  <2>3. <<>> \in Seq(Handles)
    OBVIOUS
  <2>4. [m EXCEPT !.flag = flags[i], !.dests = <<>>] \in Pdus
    BY <2>2, <2>3, ChangedPdu
  <2> QED
    BY <2>4 DEF Pdus
<1>3. CASE flags = <<>>
  BY <1>3 DEF Relayed
<1>4. CASE flags # <<>>
  <2>1. Relayed(m) = [i \in 1 .. Len(flags) |-> [m EXCEPT !.flag = flags[i], !.dests = <<>>]]
    BY <1>4 DEF Relayed
  <2>2. DOMAIN flags = 1 .. Len(flags) /\ Len(flags) \in Nat
    BY <1>1
  <2> DEFINE p(i) == [m EXCEPT !.flag = flags[i], !.dests = <<>>]
  <2>3. \A i \in 1 .. Len(flags) :
          p(i) \in Pdus /\ p(i).by = m.by /\ p(i).id = m.id /\ p(i).text = m.text
    BY <1>2, <2>2
  <2>4. Relayed(m) = [i \in 1 .. Len(flags) |-> p(i)]
    BY <2>1
  <2> HIDE DEF flags, p
  <2>5. Relayed(m) \in Seq(Pdus) /\ DOMAIN Relayed(m) = 1 .. Len(flags)
    BY <2>3, <2>4, <2>2
  <2>6. \A i \in DOMAIN Relayed(m) :
          Relayed(m)[i].by = m.by /\ Relayed(m)[i].id = m.id /\ Relayed(m)[i].text = m.text
    BY <2>3, <2>4, <2>2
  <2> QED
    BY <1>4, <2>5, <2>6 DEF flags
<1> QED
  BY <1>3, <1>4

(* A stream that is cut keeps all but its last PDU, which goes or is a     *)
(* message still, from the same client and with the same place.            *)
LEMMA CutStream ==
  ASSUME NEW stream \in Seq(Pdus), stream # <<>>, NEW rest \in CutLast(stream),
         stream[Len(stream)].flag = Message => stream[Len(stream)].dests # <<>>,
         stream[Len(stream)].flag \in {Message, Multicast} => stream[Len(stream)].text \in Texts
  PROVE  LET n == Len(stream)
             m == stream[n]
         IN
         /\ rest \in Seq(Pdus)
         /\ \A i \in 1 .. n - 1 : rest[i] = stream[i]
         /\ \/ Len(rest) = n - 1
            \/ /\ Len(rest) = n
               /\ m.flag \in {Message, Multicast} /\ rest[n].flag = m.flag
               /\ rest[n].by = m.by /\ rest[n].id = m.id
               /\ rest[n].flag = Message => rest[n].dests # <<>>
               /\ rest[n].text \in Texts
<1> DEFINE n == Len(stream)
           m == stream[n]
<1>1. n \in Nat \ {0} /\ DOMAIN stream = 1 .. n /\ n \in 1 .. n /\ m \in Pdus
      /\ \A i \in 1 .. n : stream[i] \in Pdus
      /\ m.flag = Message => m.dests # <<>>
  OBVIOUS
<1> HIDE DEF n, m
<1>2. CASE rest = SubSeq(stream, 1, n - 1)
  <2>1. /\ rest \in Seq(Pdus) /\ Len(rest) = n - 1
        /\ \A i \in 1 .. n - 1 : rest[i] = stream[i]
    BY <1>1, <1>2, SubSeqProperties
  <2> QED
    BY <2>1 DEF n
<1>3. ASSUME NEW p \in Beginnings(m), rest = [stream EXCEPT ![n] = p]
      PROVE  /\ p \in Pdus
             /\ m.flag \in {Message, Multicast} /\ p.flag = m.flag
             /\ p.by = m.by /\ p.id = m.id
             /\ p.flag = Message => p.dests # <<>>
             /\ p.text \in Texts
  <2>1. m.flag \in {Message, Multicast} /\ m.text \in Texts
    BY <1>3 DEF Beginnings, n, m
  <2>2. ASSUME NEW t \in TextStart[m.text], p = [m EXCEPT !.text = t]
        PROVE  /\ p \in Pdus /\ p.flag = m.flag /\ p.by = m.by /\ p.id = m.id
               /\ p.dests = m.dests /\ p.text \in Texts
    <3>1. t \in Texts
      <4>1. TextStart[m.text] \in SUBSET Texts
        BY <2>1, StartsAssumption
      <4> QED
        BY <2>2, <4>1
    <3>2. p \in Pdus
      BY <1>1, <2>2, <3>1, ChangedPdu
    <3> QED
      BY <1>1, <2>2, <3>1, <3>2 DEF Pdus
  <2>3. ASSUME m.flag = Message, NEW h \in HandleStart[m.dests[1]],
               p = [m EXCEPT !.dests = <<h>>, !.text = Empty]
        PROVE  /\ p \in Pdus /\ p.flag = m.flag /\ p.by = m.by /\ p.id = m.id
               /\ p.dests # <<>> /\ p.text \in Texts
    <3>1. m.dests \in Seq(Handles) /\ m.dests # <<>>
      <4>1. m.dests \in Seq(Handles)
        BY <1>1 DEF Pdus
      <4> QED
        BY <1>1, <2>3, <4>1
    <3>2. m.dests[1] \in Handles
      BY <3>1
    <3>3. h \in Handles /\ Empty \in Texts
      <4>1. HandleStart[m.dests[1]] \in SUBSET Handles
        BY <3>2, StartsAssumption
      <4> QED
        BY <2>3, <4>1, TextsAssumption
    <3>4. <<h>> \in Seq(Handles) /\ <<h>> # <<>>
      BY <3>3
    <3>5. p \in Pdus
      BY <1>1, <2>3, <3>3, <3>4, ChangedPdu
    <3>6. /\ p.flag = m.flag /\ p.by = m.by /\ p.id = m.id
          /\ p.dests = <<h>> /\ p.text = Empty
      BY <1>1, <2>3 DEF Pdus
    <3> QED
      BY <3>3, <3>4, <3>5, <3>6
  <2>4. \/ \E t \in TextStart[m.text] : p = [m EXCEPT !.text = t]
        \/ m.flag = Message /\ \E h \in HandleStart[m.dests[1]] :
                                 p = [m EXCEPT !.dests = <<h>>, !.text = Empty]
    <3>1. CASE m.flag = Message
      BY <1>3, <3>1 DEF Beginnings
    <3>2. CASE m.flag = Multicast
      BY <1>3, <3>2 DEF Beginnings, Message, Multicast
    <3> QED
      BY <2>1, <3>1, <3>2
  <2>5. p \in Pdus /\ p.flag = m.flag /\ p.by = m.by /\ p.id = m.id /\ p.text \in Texts
        /\ (p.flag = Message => p.dests # <<>>)
    <3>1. CASE \E t \in TextStart[m.text] : p = [m EXCEPT !.text = t]
      BY <1>1, <2>2, <3>1
    <3>2. CASE m.flag = Message /\ \E h \in HandleStart[m.dests[1]] :
                                      p = [m EXCEPT !.dests = <<h>>, !.text = Empty]
      BY <2>3, <3>2
    <3> QED
      BY <2>4, <3>1, <3>2
  <2> QED
    BY <2>1, <2>5
<1>4. CASE \E p \in Beginnings(m) : rest = [stream EXCEPT ![n] = p]
  <2>1. PICK p \in Beginnings(m) : rest = [stream EXCEPT ![n] = p]
    BY <1>4
  <2>2. rest \in [1 .. n -> Pdus]
    <3>1. stream \in [1 .. n -> Pdus]
      BY <1>1
    <3>2. p \in Pdus
      BY <1>3, <2>1
    <3> QED
      BY <1>1, <2>1, <3>1, <3>2
  <2>3. rest \in Seq(Pdus) /\ Len(rest) = n
    BY <1>1, <2>2
  <2>4. rest[n] = p /\ \A i \in 1 .. n - 1 : rest[i] = stream[i]
    <3>1. \A i \in 1 .. n - 1 : i \in DOMAIN stream /\ i # n
      BY <1>1
    <3> QED
      BY <1>1, <2>1, <3>1
  <2> QED
    BY <1>3, <2>1, <2>3, <2>4 DEF n, m
<1> QED
  BY <1>2, <1>4 DEF CutLast, n, m

(* addHandle leaves the entries as they are, or adds the one asked for.    *)
LEMMA AddHandleDoes ==
  ASSUME Table!TypeOK, NEW s \in Sockets, NEW h \in Handles, NEW b \in BOOLEAN,
         Table!AddHandle(s, h, b)
  PROVE  /\ Table!TypeOK'
         /\ \/ /\ Table!Occupied' = Table!Occupied
               /\ \A i \in Table!Occupied : table'[i] = table[i]
               /\ numValid' = numValid
            \/ /\ b /\ Table!Holders(h) = {}
               /\ Table!Occupied' = Table!Occupied \cup {s}
               /\ table'[s] = h
               /\ \A i \in Table!Occupied \ {s} : table'[i] = table[i]
               /\ status' = status
<1>1. TP!TypeOK
  BY DEF TP!TypeOK, Table!TypeOK
<1>2. s \in Nat
  BY SocketsAssumption
<1>3. TP!AddHandle(s, h, b)
  BY DEF TP!AddHandle, Table!AddHandle, TP!StoreHandle, Table!StoreHandle,
         TP!RefuseHandle, Table!RefuseHandle, TP!CopyFails, Table!CopyFails,
         TP!Overrun, Table!Overrun, TP!GrowFails, Table!GrowFails,
         TP!Grow, Table!Grow, TP!GrownTable, Table!GrownTable,
         TP!GrownCapacity, Table!GrownCapacity, TP!Slots, Table!Slots,
         TP!Holders, Table!Holders, TP!Occupied, Table!Occupied
<1>4. TP!TypeOK'
  BY <1>1, <1>2, <1>3, TableAssumptions, TP!AddHandleTyped
<1>5. TP!Occupied = Table!Occupied /\ TP!Occupied' = Table!Occupied'
      /\ TP!Holders(h) = Table!Holders(h)
  BY DEF TP!Occupied, Table!Occupied, TP!Slots, Table!Slots, TP!Holders, Table!Holders
<1>6. \/ TP!EntriesStay /\ numValid' = numValid
      \/ b /\ TP!EntryAdded(s, h) /\ status' = status
  BY <1>1, <1>2, <1>3, TableAssumptions, TP!AddHandleEffect
<1>7. Table!TypeOK'
  BY <1>4 DEF TP!TypeOK, Table!TypeOK
<1> QED
  BY <1>5, <1>6, <1>7 DEF TP!EntriesStay, TP!EntryAdded

(* removeHandle removes one entry.                                         *)
LEMMA RemoveHandleDoes ==
  ASSUME Table!TypeOK, NEW s, Table!RemoveHandle(s)
  PROVE  /\ Table!TypeOK'
         /\ Table!Occupied' = Table!Occupied \ {s}
         /\ \A i \in Table!Occupied \ {s} : table'[i] = table[i]
         /\ UNCHANGED <<numValid, status>>
  BY DEF Table!RemoveHandle, Table!Occupied, Table!Slots, Table!TypeOK

(* findSocket returns a socket on which the handle is registered, or -1.   *)
LEMMA FindSocketFinds ==
  ASSUME Table!TypeOK, NEW h \in Handles
  PROVE  \/ Table!FindSocket(h) = -1
         \/ Table!FindSocket(h) \in Table!Occupied /\ table[Table!FindSocket(h)] = h
<1>1. Table!Holders(h) \in SUBSET Nat
  BY DEF Table!Holders, Table!Slots, Table!TypeOK
<1>2. h # NoHandle
  BY TablesAssumption
<1>3. CASE Table!Holders(h) # {}
  <2>1. Table!FindSocket(h) \in Table!Holders(h)
    BY <1>1, <1>3, LowestIsMember DEF Table!FindSocket, Table!Min, Min
  <2> QED
    BY <1>2, <2>1 DEF Table!Holders, Table!Occupied
<1> QED
  BY <1>3 DEF Table!FindSocket

(* The walk of getHandleAtIndex over the table: the k-th entry exists for  *)
(* every k up to their number, because the count of the entries up to a    *)
(* slot starts at 0 and grows by at most one from slot to slot.            *)
LEMMA EntriesAreInTable ==
  ASSUME Table!TypeOK, NEW k \in 1 .. Cardinality(Table!Occupied)
  PROVE  EntryAt(k) \in Table!Occupied /\ Place(EntryAt(k)) = k
<1> DEFINE O == Table!Occupied
           UpTo(i) == {j \in O : j <= i}
           S == {i \in 0 .. capacity - 1 : Place(i) >= k}
<1>1. /\ capacity \in Nat \ {0} /\ O \subseteq 0 .. capacity - 1
      /\ \A j \in O : j \in Nat /\ j <= capacity - 1
  BY DEF Table!TypeOK, Table!Occupied, Table!Slots
<1>2. IsFiniteSet(O)
  <2>1. IsFiniteSet(0 .. capacity - 1)
    BY <1>1, FS_Interval
  <2> QED
    BY <1>1, <2>1, FS_Subset
<1>3. \A i \in Int : IsFiniteSet(UpTo(i)) /\ Place(i) = Cardinality(UpTo(i)) /\ Place(i) \in Nat
  <2> TAKE i \in Int
  <2>1. UpTo(i) \in SUBSET O
    OBVIOUS
  <2> QED
    BY <1>2, <2>1, FS_Subset, FS_CardinalityType DEF Place
<1> HIDE DEF O
<1>4. UpTo(-1) = {} /\ UpTo(capacity - 1) = O
  <2>1. \A j \in O : ~(j <= -1) /\ j <= capacity - 1
    BY <1>1
  <2> QED
    BY <2>1
<1>5. Place(-1) = 0 /\ Place(capacity - 1) = Cardinality(O)
  <2>1. -1 \in Int /\ capacity - 1 \in Int
    BY <1>1
  <2>2. Place(-1) = Cardinality(UpTo(-1)) /\ Place(capacity - 1) = Cardinality(UpTo(capacity - 1))
    BY <1>3, <2>1
  <2> QED
    BY <1>4, <2>2, FS_EmptySet
<1>6. \A i \in Nat : \/ i \in O /\ Place(i) <= Place(i - 1) + 1
                     \/ Place(i) = Place(i - 1)
  <2> TAKE i \in Nat
  <2>1. UpTo(i) = IF i \in O THEN UpTo(i - 1) \cup {i} ELSE UpTo(i - 1)
    <3>1. \A j \in O : j <= i <=> j <= i - 1 \/ j = i
      BY <1>1
    <3> QED
      BY <3>1
  <2>2. IsFiniteSet(UpTo(i - 1)) /\ Place(i - 1) = Cardinality(UpTo(i - 1)) /\ Place(i - 1) \in Nat
    <3>1. i - 1 \in Int
      OBVIOUS
    <3> HIDE DEF UpTo
    <3> QED
      BY <1>3, <3>1
  <2>3. Place(i) = Cardinality(UpTo(i))
    BY <1>3
  <2>4. CASE i \in O
    BY <2>1, <2>2, <2>3, <2>4, FS_AddElement
  <2> QED
    BY <2>1, <2>2, <2>3, <2>4
<1>7. capacity - 1 \in S
  BY <1>1, <1>3, <1>5 DEF O
<1>8. Min(S) \in S /\ \A i \in S : Min(S) <= i
  <2>1. S \in SUBSET Nat /\ S # {}
    BY <1>1, <1>7
  <2> QED
    BY <2>1, LowestIsMember
<1>9. \E i \in O : Place(i) = k
  <2> DEFINE m == Min(S)
  <2>1. m \in Nat /\ Place(m) >= k /\ m \in 0 .. capacity - 1
    BY <1>1, <1>8
  <2>2. ~(Place(m - 1) >= k)
    <3>1. CASE m = 0
      BY <1>5, <3>1
    <3>2. CASE m - 1 \in 0 .. capacity - 1
      BY <1>8, <2>1, <3>2
    <3> QED
      BY <1>1, <2>1, <3>1, <3>2
  <2> HIDE DEF m
  <2>3. Place(m) \in Nat /\ Place(m - 1) \in Nat
    <3>1. m \in Int /\ m - 1 \in Int
      BY <2>1
    <3> QED
      BY <1>3, <3>1
  <2> QED
    BY <1>6, <2>1, <2>2, <2>3
<1> QED
  BY <1>9 DEF EntryAt, O


----------------------------------------------------------------------------
(* The inductive invariant                                                 *)

(* A client sends its registration first and once, if it sends one at all, *)
(* and every request has its sender and its place in it.                   *)
WellFormed(c, i, req) ==
  /\ req.by = c /\ req.id = i
  /\ req.flag = Connect <=> i = 1 /\ HandleOf[c] \notin LongHandles
  /\ req.flag = Connect => req.dests = <<HandleOf[c]>>
  /\ req.flag = Message => req.dests # <<>>
  /\ req.flag \in {Message, Multicast} => req.text \in Texts

RequestsInv ==
  \A c \in Clients :
    /\ taken[c] <= Len(up[c])
    /\ proc[c] \in {"idle", "connected"} => up[c] = <<>>
    /\ proc[c] = "looping" /\ status = "running" /\ HandleOf[c] \notin LongHandles
         => up[c] # <<>>
    /\ \A i \in DOMAIN up[c] : WellFormed(c, i, up[c][i])

(* A connection is in one place, in the queue of accept or on one socket,  *)
(* and its end at the client follows the client's process.                 *)
ConnectionsInv ==
  /\ \A i, j \in DOMAIN backlog : backlog[i] = backlog[j] => i = j
  /\ \A i \in DOMAIN backlog :
       proc[backlog[i]] # "idle" /\ \A s \in Sockets : owner[s] # backlog[i]
  /\ \A s, t \in OpenSockets : owner[s] = owner[t] => s = t
  /\ \A s \in OpenSockets : proc[owner[s]] # "idle"
  /\ \A c \in Clients :
       /\ proc[c] = "idle" => link[c] = "none"
       /\ proc[c] \in {"connected", "looping"} => link[c] = "open"

(* The poll set watches the open sockets, each in its own slot.            *)
PollInv ==
  status = "running" =>
    /\ Poll!Watched = OpenSockets \cup {MainSocket}
    /\ \A i \in Poll!Watched : pollSet[i] = i /\ i < maxFd

(* An entry of the table is the handle of the client on that socket.       *)
SocketsInv ==
  status = "running" =>
    /\ Table!Occupied \subseteq OpenSockets
    /\ \A s \in Table!Occupied : table[s] = HandleOf[owner[s]]

(* The acknowledgement of an exit is alone in the outbox.                  *)
AckInv ==
  \A i \in DOMAIN outbox :
    outbox[i].pdu = Pdu(ExitAck) => outbox[i].to \in OpenSockets /\ Len(outbox) = 1

IInv == TypeOK /\ RequestsInv /\ ConnectionsInv /\ PollInv /\ SocketsInv /\ AckInv

Mail == [to : Sockets \cup {-1}, pdu : Pdus]

----------------------------------------------------------------------------
(* The forms that steps take                                               *)

(* A client sends a request.                                               *)
Puts(c, req) ==
  /\ req \in Pdus /\ WellFormed(c, Len(up[c]) + 1, req)
  /\ up' = [up EXCEPT ![c] = Append(@, req)]
  /\ proc[c] \in {"connected", "looping"}
  /\ proc' = [proc EXCEPT ![c] = "looping"]
  /\ UNCHANGED <<backlog, taken, down, shown, link, closed, serverVars>>

(* It receives, leaves, or goes on without having registered.              *)
Moves(c) ==
  /\ proc[c] \in {"connected", "looping"}
  /\ shown' \in [Clients -> Nat]
  /\ \/ proc' = proc /\ link' = link
     \/ /\ HandleOf[c] \in LongHandles \/ status # "running"
        /\ proc[c] = "connected"
        /\ proc' = [proc EXCEPT ![c] = "looping"]
        /\ link' = link
     \/ /\ proc' = [proc EXCEPT ![c] = "gone"]
        /\ \E l \in {"fin", "rst"} : link' = [link EXCEPT ![c] = l]
  /\ UNCHANGED <<backlog, up, taken, down, closed, serverVars>>

(* It is killed in a send: of its last request, which the server has not   *)
(* taken, a part is left or nothing.                                       *)
Breaks(c, rest) ==
  /\ rest \in Seq(Pdus) /\ taken[c] <= Len(rest)
  /\ \A i \in 1 .. taken[c] : rest[i] = up[c][i]
  /\ \A i \in DOMAIN rest : WellFormed(c, i, rest[i])
  /\ up' = [up EXCEPT ![c] = rest]
  /\ proc[c] = "looping" /\ InSend(c)
  /\ proc' = [proc EXCEPT ![c] = "gone"]
  /\ \E l \in {"fin", "half", "rst"} : link' = [link EXCEPT ![c] = l]
  /\ UNCHANGED <<backlog, taken, down, shown, closed, serverVars>>

(* What remains of the requests is well formed.                            *)
LEMMA KilledForm ==
  ASSUME IInv, NEW c \in Clients, KilledInSend(c), UNCHANGED serverVars
  PROVE  \E rest \in CutLast(up[c]) : Breaks(c, rest)
<1> DEFINE n == Len(up[c])
           m == up[c][n]
<1>1. /\ up[c] \in Seq(Pdus) /\ n \in Nat /\ taken[c] \in Nat
      /\ up \in [Clients -> Seq(Pdus)] /\ shown \in [Clients -> Nat]
      /\ \A i \in DOMAIN up[c] : WellFormed(c, i, up[c][i])
      /\ link \in [Clients -> {"none", "open", "fin", "half", "rst"}]
      /\ proc[c] = "looping" /\ link[c] = "open"
  BY DEF IInv, TypeOK, NetTypeOK, RequestsInv, ConnectionsInv, KilledInSend
<1>2. n > taken[c] + 1
  BY <1>1, RoomAssumption DEF KilledInSend, InSend
<1>3. PICK rest \in CutLast(up[c]) :
        /\ up' = [up EXCEPT ![c] = rest]
        /\ proc' = [proc EXCEPT ![c] = "gone"]
        /\ \E l \in {"fin", "half", "rst"} : link' = [link EXCEPT ![c] = l]
        /\ UNCHANGED <<backlog, taken, down, shown, closed>>
  <2>1. SubSeq(up[c], 1, Len(up[c]) - 1) \in CutLast(up[c])
    BY DEF CutLast
  <2> QED
    BY <1>1, <2>1 DEF KilledInSend, Leave
<1>4. m \in Pdus /\ WellFormed(c, n, m) /\ up[c] # <<>> /\ n \in DOMAIN up[c]
  BY <1>1, <1>2
<1>5. /\ rest \in Seq(Pdus)
      /\ \A i \in 1 .. n - 1 : rest[i] = up[c][i]
      /\ \/ Len(rest) = n - 1
         \/ /\ Len(rest) = n
            /\ m.flag \in {Message, Multicast} /\ rest[n].flag = m.flag
            /\ rest[n].by = m.by /\ rest[n].id = m.id
            /\ rest[n].flag = Message => rest[n].dests # <<>>
            /\ rest[n].text \in Texts
  BY <1>1, <1>4, CutStream DEF WellFormed
<1> HIDE DEF n, m
<1>6. \A i \in 1 .. n - 1 : WellFormed(c, i, rest[i])
  BY <1>1, <1>2, <1>5 DEF n
<1>7. ASSUME Len(rest) = n
      PROVE  WellFormed(c, n, rest[n])
  BY <1>2, <1>4, <1>5, <1>7, <1>1 DEF WellFormed, Connect, Message, Multicast
<1>8. \A i \in DOMAIN rest : WellFormed(c, i, rest[i])
  <2>1. DOMAIN rest = 1 .. Len(rest)
    BY <1>5
  <2>2. \A i \in 1 .. n : i \in 1 .. n - 1 \/ i = n
    BY <1>1 DEF n
  <2> QED
    BY <1>5, <1>6, <1>7, <2>1, <2>2
<1>9. \A i \in 1 .. taken[c] : i \in 1 .. n - 1
  BY <1>1, <1>2 DEF n
<1>10. taken[c] <= Len(rest)
  BY <1>1, <1>2, <1>5 DEF n
<1>11. Breaks(c, rest)
  BY <1>1, <1>3, <1>5, <1>8, <1>9, <1>10 DEF Breaks, KilledInSend
<1> QED
  BY <1>11

(* Every step of a client connects, sends one request, moves it or breaks  *)
(* its last request off.                                                   *)
LEMMA ClientForms ==
  ASSUME IInv, NEW c \in Clients, Client(c)
  PROVE  \/ ConnectToServer(c) /\ UNCHANGED serverVars
         \/ Moves(c)
         \/ \E req \in Pdus : Puts(c, req)
         \/ \E rest \in CutLast(up[c]) : Breaks(c, rest)
<1> USE DEF Client
<1>1. /\ TypeOK /\ RequestsInv /\ ConnectionsInv
      /\ shown \in [Clients -> Nat] /\ proc \in [Clients -> {"idle", "connected", "looping", "gone"}]
      /\ link \in [Clients -> {"none", "open", "fin", "half", "rst"}]
      /\ up[c] \in Seq(Pdus) /\ Len(up[c]) \in Nat
      /\ HandleOf[c] \in Handles
  BY NamesAssumption DEF IInv, TypeOK, NetTypeOK
<1>2. ASSUME NEW req \in Pdus, WellFormed(c, Len(up[c]) + 1, [req EXCEPT !.by = c, !.id = Len(up[c]) + 1]),
             Put(c, req), UNCHANGED serverVars,
             proc[c] \in {"connected", "looping"}, proc' = [proc EXCEPT ![c] = "looping"]
      PROVE  \E r \in Pdus : Puts(c, r)
  <2> DEFINE n == Len(up[c]) + 1
             r == [req EXCEPT !.by = c, !.id = n]
  <2>1. r \in Pdus
    <3>1. n \in Nat
      BY <1>1
    <3> HIDE DEF n
    <3> QED
      BY <3>1, StampedPdu
  <2>2. Puts(c, r)
    BY <1>2, <2>1 DEF Puts, Put
  <2> QED
    BY <2>1, <2>2
<1>3. CASE Register(c)
  <2>1. CASE HandleOf[c] \in LongHandles \/ status # "running"
    BY <1>1, <1>3, <2>1 DEF Register, Moves, netVars
  <2>2. CASE ~(HandleOf[c] \in LongHandles \/ status # "running")
    <3> DEFINE req == Naming(Connect, HandleOf[c])
    <3>1. req \in Pdus /\ req.flag = Connect /\ req.dests = <<HandleOf[c]>>
      BY <1>1, FlagsAreBytes, NamingPdu
    <3>2. up[c] = <<>>
      BY <1>1, <1>3 DEF RequestsInv, Register
    <3>3. Put(c, req)
      BY <1>3, <2>2 DEF Register
    <3> HIDE DEF req
    <3>4. WellFormed(c, Len(up[c]) + 1, [req EXCEPT !.by = c, !.id = Len(up[c]) + 1])
      <4>1. Len(up[c]) + 1 = 1
        BY <3>2
      <4>2. [req EXCEPT !.by = c, !.id = 1] \in Pdus
            /\ [req EXCEPT !.by = c, !.id = 1].by = c /\ [req EXCEPT !.by = c, !.id = 1].id = 1
            /\ [req EXCEPT !.by = c, !.id = 1].flag = Connect
            /\ [req EXCEPT !.by = c, !.id = 1].dests = <<HandleOf[c]>>
        BY <3>1 DEF Pdus
      <4> QED
        BY <2>2, <4>1, <4>2 DEF WellFormed, Connect, Message, Multicast
    <3> QED
      BY <1>2, <1>3, <3>1, <3>3, <3>4 DEF Register
  <2> QED
    BY <2>1, <2>2
<1>4. ASSUME CanType(c), NEW req \in Pdus, Put(c, req), proc' = proc, UNCHANGED serverVars,
             req.flag # Connect, req.flag = Message => req.dests # <<>>,
             req.flag \in {Message, Multicast} => req.text \in Texts
      PROVE  \E r \in Pdus : Puts(c, r)
  <2>1. ~(Len(up[c]) + 1 = 1 /\ HandleOf[c] \notin LongHandles)
    BY <1>1, <1>4 DEF CanType, RequestsInv
  <2>2. WellFormed(c, Len(up[c]) + 1, [req EXCEPT !.by = c, !.id = Len(up[c]) + 1])
    BY <1>4, <2>1 DEF WellFormed, Pdus
  <2>3. proc' = [proc EXCEPT ![c] = "looping"] /\ proc[c] = "looping"
    BY <1>1, <1>4 DEF CanType
  <2> QED
    BY <1>2, <1>4, <2>2, <2>3
<1>5. CASE TypeMessage(c)
  <2>1. PICK h \in Handles, t \in Texts : Put(c, [Naming(Message, h) EXCEPT !.text = t])
    BY <1>5 DEF TypeMessage
  <2> DEFINE req == [Naming(Message, h) EXCEPT !.text = t]
  <2>2. req \in Pdus /\ req.flag = Message /\ req.dests = <<h>> /\ req.text = t
    <3> DEFINE m == Naming(Message, h)
    <3>1. m \in Pdus /\ m.flag = Message /\ m.dests = <<h>>
      BY FlagsAreBytes, NamingPdu
    <3> HIDE DEF m
    <3>2. [m EXCEPT !.text = t] \in Pdus
      BY <3>1, ChangedPdu
    <3>3. [m EXCEPT !.text = t].flag = Message /\ [m EXCEPT !.text = t].dests = <<h>>
          /\ [m EXCEPT !.text = t].text = t
      BY <3>1 DEF Pdus
    <3> QED
      BY <3>2, <3>3 DEF m
  <2>3. CanType(c) /\ proc' = proc /\ UNCHANGED serverVars /\ Put(c, req)
    BY <1>5, <2>1 DEF TypeMessage
  <2> HIDE DEF req
  <2> QED
    BY <1>4, <2>2, <2>3 DEF Message, Connect
<1>6. CASE TypeMulticast(c)
  <2>1. PICK d \in DestLists, t \in Texts : Put(c, [Pdu(Multicast) EXCEPT !.dests = d, !.text = t])
    BY <1>6 DEF TypeMulticast
  <2> DEFINE req == [Pdu(Multicast) EXCEPT !.dests = d, !.text = t]
  <2>2. req \in Pdus /\ req.flag = Multicast /\ req.text = t
    <3> DEFINE m == Pdu(Multicast)
    <3>1. m \in Pdus /\ m.flag = Multicast /\ d \in Seq(Handles)
      BY FlagsAreBytes, BlankPdu, DestListsAssumption
    <3> HIDE DEF m
    <3>2. [m EXCEPT !.dests = d, !.text = t] \in Pdus
      BY <3>1, ChangedPdu
    <3>3. [m EXCEPT !.dests = d, !.text = t].flag = Multicast
          /\ [m EXCEPT !.dests = d, !.text = t].text = t
      BY <3>1 DEF Pdus
    <3> QED
      BY <3>2, <3>3 DEF m
  <2>3. CanType(c) /\ proc' = proc /\ UNCHANGED serverVars /\ Put(c, req)
    BY <1>6, <2>1 DEF TypeMulticast
  <2> HIDE DEF req
  <2> QED
    BY <1>4, <2>2, <2>3 DEF Message, Multicast, Connect
<1>7. CASE TypeList(c) \/ TypeExit(c)
  <2>1. \A f \in {List, Exit} : Pdu(f) \in Pdus /\ Pdu(f).flag \notin {Connect, Message, Multicast}
    BY DEF Pdu, Pdus, List, Exit, Connect, Message, Multicast
  <2> QED
    BY <1>4, <1>7, <2>1 DEF TypeList, TypeExit
<1>8. CASE Receive(c)
  BY <1>1, <1>8 DEF Receive, Leave, Moves, ConnectionsInv
<1>9. CASE SeeServerGone(c)
  <2>1. proc[c] = "looping" /\ link[c] = "open"
    BY <1>1, <1>9 DEF SeeServerGone, ConnectionsInv
  <2>2. shown' \in [Clients -> Nat]
    BY <1>1, <1>9 DEF SeeServerGone
  <2> QED
    BY <1>9, <2>1, <2>2 DEF SeeServerGone, Leave, Moves
<1>10. CASE Quit(c)
  BY <1>1, <1>10 DEF Quit, Leave, Moves, ConnectionsInv
<1>11. CASE KilledInSend(c)
  BY <1>11, KilledForm
<1> QED
  BY <1>3, <1>5, <1>6, <1>7, <1>8, <1>9, <1>10, <1>11 DEF ClientStep
----------------------------------------------------------------------------
(* A handler has taken a request and its answers wait in the outbox.       *)
Answers(s) ==
  LET c == owner[s] IN
  /\ status = "running" /\ outbox = <<>>
  /\ s \in OpenSockets /\ Unread(c)
  /\ taken' = [taken EXCEPT ![c] = @ + 1]
  /\ outbox' \in Seq(Mail)
  /\ \A i \in DOMAIN outbox' :
       outbox'[i].pdu = Pdu(ExitAck) => outbox' = <<Sends(s, Pdu(ExitAck))>>
  /\ UNCHANGED <<backlog, up, down, shown, link, closed, pollVars, owner, stdinHup, limit, proc>>

(* What recvPDU takes is the next request of its client, as the client     *)
(* sent it.                                                                *)
LEMMA RequestTaken ==
  ASSUME IInv, NEW s \in Sockets, NEW f \in 0 .. 255, Takes(s, f)
  PROVE  LET c == owner[s]
             req == NextRequest(c)
         IN
         /\ status = "running" /\ outbox = <<>> /\ s \in OpenSockets
         /\ c \in Clients /\ Unread(c) /\ taken[c] \in Nat /\ Len(up[c]) \in Nat
         /\ taken[c] + 1 \in 1 .. Len(up[c])
         /\ req \in Pdus /\ req.flag = f /\ WellFormed(c, taken[c] + 1, req)
         /\ taken' = [taken EXCEPT ![c] = @ + 1]
         /\ UNCHANGED <<backlog, up, shown, link, stdinHup, limit>>
<1> DEFINE c == owner[s]
<1>1. c \in Clients /\ Unread(c) /\ s \in OpenSockets
  BY DEF Takes, OpenSockets, IInv, TypeOK, ServerTypeOK
<1>2. taken[c] \in Nat /\ Len(up[c]) \in Nat /\ up[c] \in Seq(Pdus)
  BY <1>1 DEF IInv, TypeOK, NetTypeOK
<1>3. taken[c] + 1 \in 1 .. Len(up[c])
  BY <1>1, <1>2 DEF Unread
<1>4. up[c][taken[c] + 1] \in Pdus
  BY <1>2, <1>3
<1>5. WellFormed(c, taken[c] + 1, up[c][taken[c] + 1])
  BY <1>1, <1>2, <1>3 DEF IInv, RequestsInv
<1> QED
  BY <1>1, <1>2, <1>3, <1>4, <1>5 DEF Takes, PollReturns, NextRequest

(* findSocket returns an open socket of a client with that handle, or -1.  *)
LEMMA DestinationOf ==
  ASSUME IInv, status = "running", NEW h \in Handles
  PROVE  \/ Table!FindSocket(h) = -1
         \/ /\ Table!FindSocket(h) \in Table!Occupied
            /\ Table!FindSocket(h) \in OpenSockets
            /\ h = HandleOf[owner[Table!FindSocket(h)]]
<1>1. Table!TypeOK /\ SocketsInv
  BY DEF IInv, TypeOK, ServerTypeOK
<1> QED
  BY <1>1, FindSocketFinds DEF SocketsInv

(* What the handlers of flags 1, 5, 6, 8 and 10 leave in the outbox.       *)
LEMMA ConnectAnswers ==
  ASSUME IInv, NEW s \in Sockets, ServeConnect(s), proc' = proc
  PROVE  Answers(s) /\ outbox' \in {<<Sends(s, Pdu(Accepted))>>, <<Sends(s, Pdu(Refused))>>}
<1>1. outbox' \in {<<Sends(s, Pdu(Accepted))>>, <<Sends(s, Pdu(Refused))>>}
  BY DEF ServeConnect
<1>2. \A f \in {Accepted, Refused} : Sends(s, Pdu(f)) \in Mail /\ Sends(s, Pdu(f)).pdu # Pdu(ExitAck)
  <2>1. \A f \in {Accepted, Refused} : Pdu(f) \in Pdus /\ Pdu(f).flag = f
    BY FlagsAreBytes, BlankPdu
  <2>2. Pdu(ExitAck).flag \notin {Accepted, Refused}
    BY DEF Pdu, ExitAck, Accepted, Refused
  <2> QED
    BY <2>1, <2>2 DEF Sends, Mail
<1>3. outbox' \in Seq(Mail) /\ \A i \in DOMAIN outbox' : outbox'[i].pdu # Pdu(ExitAck)
  <2>1. PICK m \in Mail : outbox' = <<m>> /\ m.pdu # Pdu(ExitAck)
    BY <1>1, <1>2
  <2> QED
    BY <2>1
<1>4. Takes(s, Connect) /\ UNCHANGED <<down, closed, pollVars, owner>>
  BY DEF ServeConnect
<1>5. Connect \in 0 .. 255
  BY FlagsAreBytes
<1> QED
  BY <1>1, <1>3, <1>4, <1>5, RequestTaken DEF Answers

(* Flag 5.                                                                 *)
LEMMA MessageAnswers ==
  ASSUME IInv, NEW s \in Sockets, ServeMessage(s), proc' = proc
  PROVE  Answers(s) /\ UNCHANGED <<status, tableVars>>
<1> DEFINE msg == NextRequest(owner[s])
           dest == Table!FindSocket(msg.dests[1])
           error == [msg EXCEPT !.flag = NoSuchHandle, !.text = NoText]
<1>1. Message \in 0 .. 255 /\ Takes(s, Message)
  BY FlagsAreBytes DEF ServeMessage
<1>2. msg \in Pdus /\ status = "running" /\ owner[s] \in Clients
      /\ msg.flag = Message /\ WellFormed(owner[s], taken[owner[s]] + 1, msg)
  BY <1>1, RequestTaken
<1>3. msg.dests[1] \in Handles /\ msg.text \in Texts /\ msg.by # NoClient
  BY <1>2, SendersAssumption DEF WellFormed, Pdus
<1>4. dest \in OpenSockets \cup {-1}
  BY <1>2, <1>3, DestinationOf
<1>5. error \in Pdus /\ error.by = msg.by
  <2> HIDE DEF msg
  <2>1. error \in Pdus
    BY <1>2, ChangedPdu, FlagsAreBytes
  <2> QED
    BY <1>2, <2>1 DEF Pdus
<1>6. Relayed(msg) \in Seq(Pdus) /\ \A i \in DOMAIN Relayed(msg) : Relayed(msg)[i].by = msg.by
  <2> HIDE DEF msg
  <2> QED
    BY <1>2, <1>3, RelayedPdus
<1>7. Pdu(ExitAck).by = NoClient
  BY DEF Pdu
<1>8. outbox' = IF dest = -1 THEN <<Sends(s, error)>>
                ELSE [i \in 1 .. Len(Relayed(msg)) |-> Sends(dest, Relayed(msg)[i])]
  BY DEF ServeMessage
<1>9. outbox' \in Seq(Mail) /\ \A i \in DOMAIN outbox' : outbox'[i].pdu.by = msg.by
  <2> HIDE DEF msg, dest, error
  <2>1. dest \in Sockets \cup {-1}
    BY <1>4 DEF OpenSockets
  <2>2. CASE dest = -1
    BY <1>5, <1>8, <2>2 DEF Sends, Mail
  <2>3. CASE dest # -1
    BY <1>6, <1>8, <2>1, <2>3 DEF Sends, Mail
  <2> QED
    BY <2>2, <2>3
<1>10. UNCHANGED <<status, down, closed, tableVars, pollVars, owner>>
  BY DEF ServeMessage
<1>11. \A i \in DOMAIN outbox' : outbox'[i].pdu # Pdu(ExitAck)
  BY <1>3, <1>7, <1>9
<1> QED
  BY <1>1, <1>9, <1>10, <1>11, RequestTaken DEF Answers

(* Flag 6.                                                                 *)
LEMMA MulticastAnswers ==
  ASSUME IInv, NEW s \in Sockets, ServeMulticast(s), proc' = proc
  PROVE  Answers(s) /\ UNCHANGED <<status, tableVars>>
<1> DEFINE msg == NextRequest(owner[s])
           Copy(h) == [msg EXCEPT !.flag = Message, !.dests = <<h>>]
           n == Len(msg.dests)
<1>1. Multicast \in 0 .. 255 /\ Takes(s, Multicast)
  BY FlagsAreBytes DEF ServeMulticast
<1>2. msg \in Pdus /\ status = "running" /\ owner[s] \in Clients
      /\ WellFormed(owner[s], taken[owner[s]] + 1, msg)
  BY <1>1, RequestTaken
<1>3. msg.by # NoClient /\ msg.dests \in Seq(Handles)
  BY <1>2, SendersAssumption DEF WellFormed, Pdus
<1>4. \A h \in Handles :
        /\ Copy(h) \in Pdus /\ Copy(h).by = msg.by
        /\ Table!FindSocket(h) \in Sockets \cup {-1}
  <2> HIDE DEF msg
  <2> TAKE h \in Handles
  <2>1. <<h>> \in Seq(Handles)
    OBVIOUS
  <2>2. Copy(h) \in Pdus
    BY <1>2, <2>1, ChangedPdu, FlagsAreBytes
  <2>3. Copy(h).by = msg.by
    BY <1>2 DEF Pdus
  <2>4. Table!FindSocket(h) \in Sockets \cup {-1}
    BY <1>2, DestinationOf DEF OpenSockets
  <2> QED
    BY <2>2, <2>3, <2>4
<1>5. outbox' = IF msg.text = Empty THEN <<>>
                ELSE [i \in 1 .. n |-> Sends(Table!FindSocket(msg.dests[i]), Copy(msg.dests[i]))]
  BY DEF ServeMulticast
<1>6. outbox' \in Seq(Mail) /\ \A i \in DOMAIN outbox' : outbox'[i].pdu.by = msg.by
  <2> DEFINE mail(i) == Sends(Table!FindSocket(msg.dests[i]), Copy(msg.dests[i]))
  <2>1. n \in Nat /\ \A i \in 1 .. n : msg.dests[i] \in Handles
    BY <1>3
  <2>2. \A i \in 1 .. n : mail(i) \in Mail /\ mail(i).pdu.by = msg.by
    <3> HIDE DEF msg, n, Copy
    <3> QED
      BY <1>4, <2>1 DEF Sends, Mail
  <2>3. outbox' = IF msg.text = Empty THEN <<>> ELSE [i \in 1 .. n |-> mail(i)]
    BY <1>5
  <2> HIDE DEF msg, n, mail
  <2>4. CASE msg.text = Empty
    BY <2>3, <2>4
  <2>5. CASE msg.text # Empty
    BY <2>1, <2>2, <2>3, <2>5
  <2> QED
    BY <2>4, <2>5
<1>7. UNCHANGED <<status, down, closed, tableVars, pollVars, owner>>
  BY DEF ServeMulticast
<1>8. \A i \in DOMAIN outbox' : outbox'[i].pdu # Pdu(ExitAck)
  BY <1>3, <1>6 DEF Pdu
<1> QED
  BY <1>1, <1>6, <1>7, <1>8, RequestTaken DEF Answers

(* The PDUs of a list are the count, an entry for each socket with a handle *)
(* and the end.                                                            *)
LEMMA ListPdus ==
  ASSUME Table!TypeOK
  PROVE  LET n == Cardinality(Table!Occupied)
             pdus == <<Count>> \o Entries \o <<Pdu(ListEnd)>>
         IN
         /\ n \in Nat
         /\ pdus \in Seq(Pdus) /\ Len(pdus) = n + 2
         /\ pdus[1] = Count /\ pdus[n + 2] = Pdu(ListEnd)
         /\ \A k \in 1 .. n :
              /\ EntryAt(k) \in Table!Occupied /\ Place(EntryAt(k)) = k
              /\ table[EntryAt(k)] \in Handles
              /\ pdus[k + 1] = Naming(HandleEntry, table[EntryAt(k)])
<1> DEFINE n == Cardinality(Table!Occupied)
<1>1. n \in Nat
  <2>1. IsFiniteSet(0 .. capacity - 1)
    BY FS_Interval DEF Table!TypeOK
  <2>2. Table!Occupied \in SUBSET (0 .. capacity - 1)
    BY DEF Table!Occupied, Table!Slots
  <2> QED
    BY <2>1, <2>2, FS_Subset, FS_CardinalityType
<1>2. \A k \in 1 .. n : /\ EntryAt(k) \in Table!Occupied /\ Place(EntryAt(k)) = k
                        /\ table[EntryAt(k)] \in Handles
  <2> TAKE k \in 1 .. n
  <2>1. EntryAt(k) \in Table!Occupied /\ Place(EntryAt(k)) = k
    BY EntriesAreInTable
  <2> QED
    BY <2>1 DEF Table!Occupied, Table!Slots, Table!TypeOK
<1>3. Count \in Pdus
  <2> DEFINE m == Pdu(HandleCount)
             k == numValid % 65536
  <2>1. m \in Pdus
    BY FlagsAreBytes, BlankPdu
  <2>2. k \in Nat
    BY DEF Table!TypeOK
  <2>3. Count = [m EXCEPT !.number = k]
    BY DEF Count
  <2> HIDE DEF m, k
  <2> QED
    BY <2>1, <2>2, <2>3 DEF Pdus
<1>4. Pdu(ListEnd) \in Pdus
  BY FlagsAreBytes, BlankPdu
<1>5. /\ Entries \in Seq(Pdus) /\ Len(Entries) = n
      /\ \A k \in 1 .. n : Entries[k] = Naming(HandleEntry, table[EntryAt(k)])
  <2> DEFINE e(k) == Naming(HandleEntry, table[EntryAt(k)])
  <2>1. \A k \in 1 .. n : e(k) \in Pdus
    BY <1>2, FlagsAreBytes, NamingPdu
  <2>2. Entries = [k \in 1 .. n |-> e(k)]
    BY DEF Entries
  <2> HIDE DEF n, e
  <2>3. Entries \in Seq(Pdus) /\ Len(Entries) = n /\ \A k \in 1 .. n : Entries[k] = e(k)
    BY <1>1, <2>1, <2>2
  <2> QED
    BY <2>3 DEF e
<1> HIDE DEF n
<1>6. <<Count>> \o Entries \in Seq(Pdus) /\ Len(<<Count>> \o Entries) = n + 1
      /\ (<<Count>> \o Entries)[1] = Count
      /\ \A k \in 1 .. n : (<<Count>> \o Entries)[k + 1] = Entries[k]
  BY <1>1, <1>3, <1>5
<1> DEFINE most == <<Count>> \o Entries
           pdus == most \o <<Pdu(ListEnd)>>
<1>7. pdus \in Seq(Pdus) /\ Len(pdus) = n + 2
      /\ pdus[n + 2] = Pdu(ListEnd)
      /\ \A k \in 1 .. n + 1 : pdus[k] = most[k]
  <2> HIDE DEF most
  <2> QED
    BY <1>1, <1>4, <1>6 DEF most
<1>8. pdus[1] = Count /\ \A k \in 1 .. n : pdus[k + 1] = Entries[k]
  <2> HIDE DEF most, pdus
  <2> QED
    BY <1>1, <1>6, <1>7 DEF most
<1> QED
  BY <1>1, <1>2, <1>5, <1>7, <1>8 DEF n

(* Flag 10.                                                                *)
LEMMA ListAnswers ==
  ASSUME IInv, NEW s \in Sockets, ServeList(s), proc' = proc
  PROVE  Answers(s) /\ UNCHANGED <<status, tableVars>>
<1> DEFINE n == Cardinality(Table!Occupied)
           pdus == <<Count>> \o Entries \o <<Pdu(ListEnd)>>
<1>1. List \in 0 .. 255 /\ Takes(s, List)
  BY FlagsAreBytes DEF ServeList
<1>2. Table!TypeOK
  BY DEF IInv, TypeOK, ServerTypeOK
<1>3. outbox' = [i \in 1 .. Len(pdus) |-> Sends(s, pdus[i])]
  BY DEF ServeList
<1>4. n \in Nat /\ pdus \in Seq(Pdus) /\ Len(pdus) = n + 2
      /\ \A i \in 1 .. n + 2 : pdus[i].flag \in {HandleCount, HandleEntry, ListEnd}
  <2>1. Count.flag = HandleCount /\ Pdu(ListEnd).flag = ListEnd
    BY DEF Count, Pdu
  <2>2. \A k \in 1 .. n : pdus[k + 1].flag = HandleEntry
    BY <1>2, ListPdus, NamingPdu, FlagsAreBytes
  <2>3. n \in Nat /\ pdus \in Seq(Pdus) /\ Len(pdus) = n + 2
        /\ pdus[1] = Count /\ pdus[n + 2] = Pdu(ListEnd)
    BY <1>2, ListPdus
  <2> HIDE DEF n, pdus
  <2>4. \A i \in 1 .. n + 2 : i = 1 \/ i = n + 2 \/ (i - 1 \in 1 .. n /\ i = (i - 1) + 1)
    BY <2>3
  <2> QED
    BY <2>1, <2>2, <2>3, <2>4
<1> HIDE DEF n, pdus
<1>5. \A i \in 1 .. n + 2 : Sends(s, pdus[i]) \in Mail /\ Sends(s, pdus[i]).pdu # Pdu(ExitAck)
  BY <1>4 DEF Sends, Mail, Pdu, ExitAck, HandleCount, HandleEntry, ListEnd
<1>6. outbox' \in Seq(Mail) /\ \A i \in DOMAIN outbox' : outbox'[i].pdu # Pdu(ExitAck)
  BY <1>3, <1>4, <1>5
<1>7. UNCHANGED <<status, down, closed, tableVars, pollVars, owner>>
  BY DEF ServeList
<1> QED
  BY <1>1, <1>6, <1>7, RequestTaken DEF Answers

(* Flag 8.                                                                 *)
LEMMA ExitAnswers ==
  ASSUME IInv, NEW s \in Sockets, ServeExit(s), proc' = proc
  PROVE  /\ Answers(s) /\ UNCHANGED <<status, tableVars>>
         /\ outbox' = <<Sends(s, Pdu(ExitAck))>>
<1>1. Exit \in 0 .. 255 /\ Takes(s, Exit)
  BY FlagsAreBytes DEF ServeExit
<1>2. Pdu(ExitAck) \in Pdus
  BY FlagsAreBytes, BlankPdu
<1>3. outbox' = <<Sends(s, Pdu(ExitAck))>> /\ outbox' \in Seq(Mail)
  BY <1>2 DEF ServeExit, Sends, Mail
<1>4. UNCHANGED <<status, down, closed, tableVars, pollVars, owner>>
  BY DEF ServeExit
<1> QED
  BY <1>1, <1>3, <1>4, RequestTaken DEF Answers
(* The connection on s ends at the server: handle, poll slot and           *)
(* descriptor go together, after an acknowledgement or without.            *)
HangsUp(s) ==
  /\ status = "running"
  /\ s \in OpenSockets
  /\ Disconnect(s)
  /\ outbox' = <<>>
  /\ \/ outbox = <<>> /\ down' = down
     \/ /\ outbox = <<Sends(s, Pdu(ExitAck))>>
        /\ link[owner[s]] # "rst"
        /\ down' = [down EXCEPT ![owner[s]] = Append(@, Pdu(ExitAck))]
  /\ UNCHANGED <<backlog, up, taken, shown, link, stdinHup, limit, proc>>

Dies ==
  /\ status = "running" /\ status' = "exited"
  /\ outbox' = <<>>
  /\ outbox = <<>> \/ \E s \in Sockets : outbox = <<Sends(s, Pdu(ExitAck))>>
  /\ UNCHANGED <<netVars, tableVars, pollVars, owner, stdinHup, limit, proc>>

(* Every step of the server, by what it does to its structures.            *)
LEMMA ServerForms ==
  ASSUME IInv, Server
  PROVE  \/ Accept /\ proc' = proc
         \/ UNCHANGED vars
         \/ \E s \in Sockets :
              /\ Serve(s) /\ Answers(s)
              /\ ServeConnect(s) \/ UNCHANGED <<status, tableVars>>
         \/ \E s \in Sockets : HangsUp(s)
         \/ Dies
         \/ SendNext /\ proc' = proc
<1>1. proc' = proc /\ ServerStep
  BY DEF Server
<1>2. ASSUME NEW s \in Sockets, Serve(s)
      PROVE  \/ Answers(s) /\ (ServeConnect(s) \/ UNCHANGED <<status, tableVars>>)
             \/ HangsUp(s)
  <2>1. CASE ServeEof(s)
    BY <1>1, <2>1 DEF ServeEof, PollReturns, HangsUp, Disconnect, Table!RemoveHandle
  <2> QED
    BY <1>1, <1>2, <2>1, ConnectAnswers, MessageAnswers, MulticastAnswers, ListAnswers, ExitAnswers
       DEF Serve
<1>3. ASSUME NEW s, RecvFails(s)
      PROVE  Dies
  BY <1>1, <1>3 DEF RecvFails, PollReturns, Dies
<1>4. CASE AckExit
  <2> DEFINE s == Head(outbox).to
  <2>1. outbox \in Seq(Mail) /\ outbox # <<>> /\ Head(outbox).pdu = Pdu(ExitAck)
    BY <1>4 DEF AckExit, IInv, TypeOK, ServerTypeOK, Mail
  <2>2. 1 \in DOMAIN outbox /\ Head(outbox) = outbox[1] /\ outbox[1] \in Mail
    BY <2>1
  <2>3. s \in OpenSockets /\ Len(outbox) = 1
    BY <2>1, <2>2 DEF IInv, AckInv
  <2>4. outbox = <<outbox[1]>>
    BY <2>1, <2>3
  <2>5. outbox[1] = Sends(s, Pdu(ExitAck))
    BY <2>1, <2>2 DEF Mail, Sends
  <2>6. Tail(outbox) = <<>>
    BY <2>4
  <2>7. outbox = <<Sends(s, Pdu(ExitAck))>>
    BY <2>4, <2>5
  <2>8. s \in Sockets /\ status = "running" /\ outbox' = <<>>
    BY <1>4, <2>3, <2>6 DEF OpenSockets, AckExit
  <2>9. UNCHANGED <<backlog, up, taken, shown, link, stdinHup, limit, proc>>
    BY <1>1, <1>4 DEF AckExit
  <2>10. \/ Disconnect(s) /\ link[owner[s]] # "rst" /\ down' = [down EXCEPT ![owner[s]] = Append(@, Pdu(ExitAck))]
         \/ status' = "exited" /\ UNCHANGED <<down, closed, tableVars, pollVars, owner>>
    BY <1>4 DEF AckExit
  <2> HIDE DEF s
  <2>11. HangsUp(s) \/ Dies
    BY <2>3, <2>7, <2>8, <2>9, <2>10 DEF HangsUp, Dies, netVars
  <2> QED
    BY <2>8, <2>11
<1>5. CASE AcceptFails
  BY <1>1, <1>5 DEF AcceptFails, vars
<1> QED
  BY <1>1, <1>2, <1>3, <1>4, <1>5 DEF ServerStep
----------------------------------------------------------------------------
(* Every step keeps the invariant: one lemma for each part.                *)

(* What no step of the server changes, and the one counter it moves on.    *)
LEMMA ServerFrame ==
  ASSUME IInv, Server
  PROVE  /\ UNCHANGED <<up, shown, link, proc, stdinHup, limit>>
         /\ status' = "running" => status = "running"
         /\ \/ taken' = taken
            \/ \E c \in Clients : Unread(c) /\ taken' = [taken EXCEPT ![c] = @ + 1]
<1>1. CASE Accept /\ proc' = proc
  BY <1>1 DEF Accept, PollReturns
<1>2. CASE UNCHANGED vars
  BY <1>2 DEF vars, netVars, serverVars
<1>3. ASSUME NEW s \in Sockets, Answers(s)
      PROVE  /\ UNCHANGED <<up, shown, link, proc, stdinHup, limit>>
             /\ status = "running"
             /\ \E c \in Clients : Unread(c) /\ taken' = [taken EXCEPT ![c] = @ + 1]
  BY <1>3 DEF Answers, OpenSockets, IInv, TypeOK, ServerTypeOK
<1>4. ASSUME NEW s \in Sockets, HangsUp(s)
      PROVE  /\ UNCHANGED <<up, shown, link, proc, stdinHup, limit, taken>>
             /\ status = "running"
  BY <1>4 DEF HangsUp
<1>5. CASE Dies
  BY <1>5 DEF Dies, netVars
<1>6. CASE SendNext /\ proc' = proc
  BY <1>6 DEF SendNext
<1> QED
  BY <1>1, <1>2, <1>3, <1>4, <1>5, <1>6, ServerForms

(* The poll set of a running server has the shape that PollLoop requires.  *)
LEMMA PollShape ==
  ASSUME IInv, status = "running"
  PROVE  PP!TypeOK /\ PP!WatchesMembers
<1>1. /\ setSize \in Nat /\ maxFd \in 0 .. setSize
      /\ pollSet \in [0 .. setSize - 1 -> Sockets \cup {Poll!Stdin, MainSocket}]
      /\ stdinHup \in BOOLEAN
  BY DEF IInv, TypeOK, ServerTypeOK
<1>2. /\ Poll!Watched = OpenSockets \cup {MainSocket}
      /\ \A i \in Poll!Watched : pollSet[i] = i /\ i < maxFd
  BY DEF IInv, PollInv
<1>3. setSize # 0
  <2>1. MainSocket \in 0 .. setSize - 1
    BY <1>2 DEF Poll!Watched
  <2> QED
    BY <1>1, <2>1, SocketsAssumption
<1>4. Inputs \subseteq OpenSockets \cup {MainSocket} /\ OpenSockets \subseteq Sockets
  BY DEF Inputs, ReadyClients, OpenSockets
<1>5. PP!Watched = Poll!Watched /\ PP!Stdin = Poll!Stdin
  BY DEF PP!Watched, Poll!Watched, PP!Stdin, Poll!Stdin
<1> QED
  BY <1>1, <1>2, <1>3, <1>4, <1>5 DEF PP!TypeOK, PP!WatchesMembers

(* What pollCall returns while the server runs is a socket with input, or  *)
(* the standard input once that has hung up.                               *)
LEMMA PollReturnsReady ==
  ASSUME IInv, NEW s, PollReturns(s)
  PROVE  s = -1 \/ IF stdinHup THEN s = Poll!Stdin ELSE s \in Inputs
<1>1. PP!TypeOK /\ PP!WatchesMembers
  BY PollShape DEF PollReturns
<1>2. LET i == PP!PollCall(Inputs, IF stdinHup THEN {PP!Stdin} ELSE {}) IN
      i # -1 => IF stdinHup THEN i = PP!Stdin ELSE i \in Inputs
  BY <1>1, PollAssumptions, PP!PollCallReturns
<1>3. s = PP!PollCall(Inputs, IF stdinHup THEN {PP!Stdin} ELSE {})
  BY DEF PollReturns, Inputs, Poll!PollCall, PP!PollCall, Poll!Reported, PP!Reported,
         Poll!Watched, PP!Watched, Poll!Stdin, PP!Stdin, Poll!Min, PP!Min
<1> QED
  BY <1>2, <1>3 DEF PP!Stdin, Poll!Stdin

(* The listening socket is only returned when a connection waits.          *)
LEMMA AcceptHasClient ==
  ASSUME IInv, PollReturns(MainSocket)
  PROVE  backlog # <<>>
<1>1. MainSocket \notin {-1, Poll!Stdin} /\ MainSocket \notin Sockets
  BY SocketsAssumption DEF Poll!Stdin
<1>2. MainSocket \in Inputs
  BY <1>1, PollReturnsReady
<1> QED
  BY <1>1, <1>2 DEF Inputs, ReadyClients, OpenSockets

(* Clients go on sending well-formed requests, and the server takes what   *)
(* was sent.                                                               *)
LEMMA RequestsKept ==
  ASSUME IInv, Next
  PROVE  RequestsInv'
<1>1. /\ RequestsInv /\ ConnectionsInv
      /\ up \in [Clients -> Seq(Pdus)] /\ taken \in [Clients -> Nat]
      /\ \A c \in Clients : up[c] \in Seq(Pdus) /\ Len(up[c]) \in Nat /\ taken[c] \in Nat
      /\ proc \in [Clients -> {"idle", "connected", "looping", "gone"}]
  BY DEF IInv, TypeOK, NetTypeOK
<1>2. ASSUME NEW c \in Clients, NEW req \in Pdus, Puts(c, req)
      PROVE  RequestsInv'
  <2>1. /\ up' = [up EXCEPT ![c] = Append(@, req)] /\ taken' = taken /\ status' = status
        /\ proc' = [proc EXCEPT ![c] = "looping"]
    BY <1>2 DEF Puts, serverVars
  <2>2. \A d \in Clients : d # c => up'[d] = up[d] /\ proc'[d] = proc[d]
    BY <1>1, <2>1
  <2>3. up'[c] = Append(up[c], req) /\ proc'[c] = "looping"
    BY <1>1, <2>1
  <2>4. Len(up'[c]) = Len(up[c]) + 1 /\ DOMAIN up'[c] = 1 .. Len(up[c]) + 1
        /\ up'[c] # <<>> /\ DOMAIN up[c] = 1 .. Len(up[c])
        /\ \A i \in 1 .. Len(up[c]) : up'[c][i] = up[c][i]
        /\ up'[c][Len(up[c]) + 1] = req
    <3>1. up[c] \in Seq(Pdus)
      BY <1>1
    <3> QED
      BY <2>3, <3>1, AppendProperties
  <2>5. \A i \in DOMAIN up'[c] : WellFormed(c, i, up'[c][i])
    BY <1>1, <1>2, <2>4 DEF RequestsInv, Puts
  <2>6. taken'[c] <= Len(up'[c])
    BY <1>1, <2>1, <2>4 DEF RequestsInv
  <2> QED
    BY <1>1, <2>1, <2>2, <2>3, <2>4, <2>5, <2>6 DEF RequestsInv, WellFormed
<1>3. ASSUME NEW c \in Clients, Moves(c)
      PROVE  RequestsInv'
  <2>1. UNCHANGED <<up, taken, status>>
    BY <1>3 DEF Moves, serverVars
  <2>2. \A d \in Clients : d # c => proc'[d] = proc[d]
    BY <1>1, <1>3 DEF Moves
  <2>3. \/ proc'[c] = proc[c] \/ proc'[c] = "gone"
        \/ proc'[c] = "looping" /\ (HandleOf[c] \in LongHandles \/ status # "running")
    BY <1>1, <1>3 DEF Moves
  <2> QED
    BY <1>1, <2>1, <2>2, <2>3 DEF RequestsInv, WellFormed
<1>4. ASSUME NEW c \in Clients, ConnectToServer(c), UNCHANGED serverVars
      PROVE  RequestsInv'
  <2>1. UNCHANGED <<up, taken, status>>
    BY <1>4 DEF ConnectToServer, serverVars
  <2>2. /\ \A d \in Clients : d # c => proc'[d] = proc[d]
        /\ proc[c] = "idle" /\ proc'[c] \in {"connected", "gone"}
    BY <1>1, <1>4 DEF ConnectToServer
  <2> QED
    BY <1>1, <2>1, <2>2 DEF RequestsInv, WellFormed
<1>5. CASE Server
  <2>1. UNCHANGED <<up, proc>> /\ (status' = "running" => status = "running")
    BY <1>5, ServerFrame
  <2>2. \A c \in Clients : taken'[c] <= Len(up[c])
    <3>1. CASE taken' = taken
      BY <1>1, <3>1 DEF RequestsInv
    <3>2. ASSUME NEW c \in Clients, Unread(c), taken' = [taken EXCEPT ![c] = @ + 1]
          PROVE  \A d \in Clients : taken'[d] <= Len(up[d])
      BY <1>1, <3>2 DEF RequestsInv, Unread
    <3> QED
      BY <1>5, <3>1, <3>2, ServerFrame
  <2> QED
    BY <1>1, <2>1, <2>2 DEF RequestsInv, WellFormed
<1>6. CASE Environment
  <2>1. UNCHANGED <<up, taken, status, proc>>
    BY <1>6 DEF Environment, StdinHangsUp, LateReset, netVars, serverVars
  <2> QED
    BY <1>1, <2>1 DEF RequestsInv, WellFormed
<1>7. ASSUME NEW c \in Clients, NEW rest, Breaks(c, rest)
      PROVE  RequestsInv'
  <2>1. UNCHANGED <<taken, status>>
    BY <1>7 DEF Breaks, serverVars
  <2>2. \A d \in Clients : d # c => up'[d] = up[d] /\ proc'[d] = proc[d]
    BY <1>1, <1>7 DEF Breaks
  <2>3. /\ up'[c] = rest /\ proc'[c] = "gone" /\ taken[c] <= Len(rest)
        /\ \A i \in DOMAIN rest : WellFormed(c, i, rest[i])
    BY <1>1, <1>7 DEF Breaks
  <2>4. \A d \in Clients : taken'[d] <= Len(up'[d])
    BY <1>1, <2>1, <2>2, <2>3 DEF RequestsInv
  <2>5. \A d \in Clients : \A i \in DOMAIN up'[d] : WellFormed(d, i, up'[d][i])
    BY <1>1, <2>2, <2>3 DEF RequestsInv
  <2>6. \A d \in Clients :
          /\ proc'[d] \in {"idle", "connected"} => up'[d] = <<>>
          /\ proc'[d] = "looping" /\ status' = "running" /\ HandleOf[d] \notin LongHandles
               => up'[d] # <<>>
    BY <1>1, <2>1, <2>2, <2>3 DEF RequestsInv
  <2> QED
    BY <2>4, <2>5, <2>6 DEF RequestsInv, WellFormed
<1> QED
  BY <1>2, <1>3, <1>4, <1>5, <1>6, <1>7, ClientForms DEF Next

(* A connection moves from the queue to one socket and goes when it is     *)
(* closed.                                                                 *)
LEMMA ConnectionsKept ==
  ASSUME IInv, Next
  PROVE  ConnectionsInv'
<1>1. /\ ConnectionsInv /\ backlog \in Seq(Clients)
      /\ owner \in [Sockets -> Clients \cup {NoClient}]
      /\ proc \in [Clients -> {"idle", "connected", "looping", "gone"}]
      /\ link \in [Clients -> {"none", "open", "fin", "half", "rst"}]
      /\ NoClient \notin Clients
  BY SendersAssumption DEF IInv, TypeOK, NetTypeOK, ServerTypeOK
<1>2. ASSUME NEW c \in Clients, proc[c] # "idle", proc'[c] # "idle",
             \A d \in Clients \ {c} : proc'[d] = proc[d] /\ link'[d] = link[d],
             proc'[c] \in {"connected", "looping"} => link'[c] = "open",
             UNCHANGED <<backlog, owner>>
      PROVE  ConnectionsInv'
  <2>1. \A d \in Clients : proc'[d] = "idle" <=> proc[d] = "idle"
    BY <1>2
  <2>2. \A s \in OpenSockets : owner[s] \in Clients
    BY <1>1 DEF OpenSockets
  <2>3. \A i \in DOMAIN backlog : backlog[i] \in Clients
    BY <1>1
  <2> QED
    BY <1>1, <1>2, <2>1, <2>2, <2>3 DEF ConnectionsInv, OpenSockets
<1>3. ASSUME NEW c \in Clients, NEW req \in Pdus, Puts(c, req)
      PROVE  ConnectionsInv'
  BY <1>1, <1>2, <1>3 DEF Puts, ConnectionsInv, serverVars
<1>4. ASSUME NEW c \in Clients, Moves(c)
      PROVE  ConnectionsInv'
  <2>1. proc[c] # "idle" /\ UNCHANGED <<backlog, owner>> /\ link[c] = "open"
    BY <1>1, <1>4 DEF Moves, serverVars, ConnectionsInv
  <2>2. \A d \in Clients \ {c} : proc'[d] = proc[d] /\ link'[d] = link[d]
    BY <1>1, <1>4 DEF Moves
  <2>3. proc'[c] # "idle" /\ (proc'[c] \in {"connected", "looping"} => link'[c] = "open")
    BY <1>1, <1>4, <2>1 DEF Moves
  <2> QED
    BY <1>2, <2>1, <2>2, <2>3
<1>5. ASSUME NEW c \in Clients, ConnectToServer(c), UNCHANGED serverVars
      PROVE  ConnectionsInv'
  <2>1. proc[c] = "idle" /\ owner' = owner
    BY <1>5 DEF ConnectToServer, serverVars
  <2>2. \A i \in DOMAIN backlog : backlog[i] # c /\ backlog[i] \in Clients
    BY <1>1, <2>1 DEF ConnectionsInv
  <2>3. \A s \in Sockets : owner[s] # c
    BY <1>1, <2>1 DEF ConnectionsInv, OpenSockets
  <2>4. CASE status = "running" /\ proc' = [proc EXCEPT ![c] = "connected"]
             /\ link' = [link EXCEPT ![c] = "open"] /\ backlog' = Append(backlog, c)
    <3>1. DOMAIN backlog' = 1 .. Len(backlog) + 1 /\ Len(backlog) \in Nat
          /\ DOMAIN backlog = 1 .. Len(backlog)
          /\ backlog'[Len(backlog) + 1] = c
          /\ \A i \in 1 .. Len(backlog) : backlog'[i] = backlog[i]
      BY <1>1, <2>4
    <3>2. \A i, j \in DOMAIN backlog' : backlog'[i] = backlog'[j] => i = j
      BY <1>1, <2>2, <3>1 DEF ConnectionsInv
    <3>3. \A d \in Clients : proc'[d] = "idle" => proc[d] = "idle" /\ link'[d] = link[d]
      BY <1>1, <2>4
    <3>4. \A i \in DOMAIN backlog' :
            proc'[backlog'[i]] # "idle" /\ \A s \in Sockets : owner[s] # backlog'[i]
      BY <1>1, <2>2, <2>3, <2>4, <3>1, <3>3 DEF ConnectionsInv
    <3>5. \A d \in Clients : proc'[d] \in {"connected", "looping"} => link'[d] = "open"
      BY <1>1, <2>4 DEF ConnectionsInv
    <3> QED
      BY <1>1, <2>1, <3>2, <3>3, <3>4, <3>5 DEF ConnectionsInv, OpenSockets
  <2>5. CASE proc' = [proc EXCEPT ![c] = "gone"] /\ UNCHANGED <<link, backlog>>
    <3>1. \A d \in Clients : d # c => proc'[d] = proc[d]
      BY <1>1, <2>5
    <3>2. proc'[c] = "gone"
      BY <1>1, <2>5
    <3>3. \A s \in OpenSockets : owner[s] \in Clients
      BY <1>1 DEF OpenSockets
    <3> QED
      BY <1>1, <2>1, <2>2, <2>5, <3>1, <3>2, <3>3 DEF ConnectionsInv, OpenSockets
  <2> QED
    BY <1>5, <2>4, <2>5 DEF ConnectToServer
<1>6. ASSUME UNCHANGED <<backlog, proc, link>>, NEW s \in Sockets,
             owner' = [owner EXCEPT ![s] = NoClient]
      PROVE  ConnectionsInv'
  <2>1. \A t \in Sockets : owner'[t] = IF t = s THEN NoClient ELSE owner[t]
    BY <1>1, <1>6
  <2>2. \A i \in DOMAIN backlog : backlog[i] \in Clients
    BY <1>1
  <2> QED
    BY <1>1, <1>6, <2>1, <2>2 DEF ConnectionsInv, OpenSockets
<1>7. CASE Accept /\ proc' = proc
  <2> DEFINE s == Min(FreeSockets)
             c == Head(backlog)
  <2>1. s \in Sockets /\ owner[s] = NoClient
    <3>1. FreeSockets \in SUBSET Nat /\ FreeSockets # {}
      BY <1>7, SocketsAssumption DEF FreeSockets, Accept
    <3> QED
      BY <3>1, LowestIsMember DEF FreeSockets, OpenSockets
  <2>2. owner' = [owner EXCEPT ![s] = c] /\ backlog' = Tail(backlog) /\ link' = link
    BY <1>7 DEF Accept
  <2>3. backlog # <<>>
    BY <1>7, AcceptHasClient DEF Accept
  <2> HIDE DEF s
  <2>4. c \in Clients /\ c = backlog[1] /\ Len(backlog) \in Nat \ {0}
        /\ DOMAIN backlog = 1 .. Len(backlog)
    BY <1>1, <2>3
  <2>5. DOMAIN Tail(backlog) = 1 .. Len(backlog) - 1
        /\ \A i \in 1 .. Len(backlog) - 1 : Tail(backlog)[i] = backlog[i + 1]
    BY <1>1, <2>3
  <2>6. \A i \in 1 .. Len(backlog) - 1 : i + 1 \in 1 .. Len(backlog) /\ 1 \in 1 .. Len(backlog) /\ i + 1 # 1
    BY <2>4
  <2>7. \A i, j \in DOMAIN backlog' : backlog'[i] = backlog'[j] => i = j
    BY <1>1, <2>2, <2>4, <2>5, <2>6 DEF ConnectionsInv
  <2>8. \A i \in DOMAIN backlog' : backlog'[i] # c /\ proc[backlog'[i]] # "idle"
          /\ \A t \in Sockets : owner[t] # backlog'[i]
    BY <1>1, <2>2, <2>4, <2>5, <2>6 DEF ConnectionsInv
  <2>9. \A t \in Sockets : owner'[t] = IF t = s THEN c ELSE owner[t]
    BY <1>1, <2>1, <2>2
  <2>10. proc[c] # "idle" /\ \A t \in Sockets : owner[t] # c
    BY <1>1, <2>4 DEF ConnectionsInv
  <2> QED
    BY <1>1, <1>7, <2>2, <2>7, <2>8, <2>9, <2>10 DEF ConnectionsInv, OpenSockets
<1>8. CASE Server
  <2>1. UNCHANGED <<proc, link>>
    BY <1>8, ServerFrame
  <2>2. ASSUME UNCHANGED <<backlog, owner>>
        PROVE  ConnectionsInv'
    BY <1>1, <2>1, <2>2 DEF ConnectionsInv, OpenSockets
  <2>3. ASSUME NEW s \in Sockets, HangsUp(s)
        PROVE  ConnectionsInv'
    BY <1>6, <2>3 DEF HangsUp, Disconnect
  <2>4. ASSUME NEW s \in Sockets, Answers(s)
        PROVE  ConnectionsInv'
    BY <2>2, <2>4 DEF Answers
  <2>5. CASE UNCHANGED vars \/ Dies \/ SendNext
    BY <2>2, <2>5 DEF vars, netVars, serverVars, Dies, SendNext
  <2> QED
    BY <1>7, <1>8, <2>3, <2>4, <2>5, ServerForms
<1>9. CASE Environment
  <2>1. CASE StdinHangsUp /\ proc' = proc
    BY <1>1, <2>1 DEF StdinHangsUp, netVars, ConnectionsInv, OpenSockets
  <2>2. ASSUME NEW c \in Clients, LateReset(c), UNCHANGED serverVars, proc' = proc
        PROVE  ConnectionsInv'
    <3>1. proc[c] \notin {"idle", "connected", "looping"}
      BY <1>1, <2>2 DEF LateReset, ConnectionsInv
    <3> QED
      BY <1>1, <1>2, <2>2, <3>1 DEF LateReset, serverVars
  <2> QED
    BY <1>9, <2>1, <2>2 DEF Environment
<1>10. ASSUME NEW c \in Clients, NEW rest, Breaks(c, rest)
      PROVE  ConnectionsInv'
  <2>1. proc[c] # "idle" /\ UNCHANGED <<backlog, owner>>
    BY <1>10 DEF Breaks, serverVars
  <2>2. \A d \in Clients \ {c} : proc'[d] = proc[d] /\ link'[d] = link[d]
    BY <1>1, <1>10 DEF Breaks
  <2>3. proc'[c] = "gone"
    BY <1>1, <1>10 DEF Breaks
  <2> QED
    BY <1>2, <2>1, <2>2, <2>3
<1> QED
  BY <1>3, <1>4, <1>5, <1>8, <1>9, <1>10, ClientForms DEF Next

(* What accept and the end of a connection do to the open sockets.         *)
LEMMA AcceptOpens ==
  ASSUME IInv, Accept
  PROVE  LET s == Min(FreeSockets)
             c == Head(backlog)
         IN
         /\ s \in Sockets /\ owner[s] = NoClient /\ c \in Clients
         /\ owner' = [owner EXCEPT ![s] = c]
         /\ OpenSockets' = OpenSockets \cup {s}
         /\ \A t \in OpenSockets : owner'[t] = owner[t]
<1> DEFINE s == Min(FreeSockets)
           c == Head(backlog)
<1>1. s \in Sockets /\ owner[s] = NoClient
  <2>1. FreeSockets \in SUBSET Nat /\ FreeSockets # {}
    BY SocketsAssumption DEF FreeSockets, Accept
  <2> QED
    BY <2>1, LowestIsMember DEF FreeSockets, OpenSockets
<1>2. c \in Clients
  BY AcceptHasClient DEF Accept, IInv, TypeOK, NetTypeOK
<1>3. owner' = [owner EXCEPT ![s] = c]
  BY DEF Accept
<1> HIDE DEF s, c
<1>4. \A t \in Sockets : owner'[t] = IF t = s THEN c ELSE owner[t]
  BY <1>3 DEF IInv, TypeOK, ServerTypeOK
<1>5. OpenSockets' = OpenSockets \cup {s}
  BY <1>1, <1>2, <1>4, SendersAssumption DEF OpenSockets
<1>6. \A t \in OpenSockets : owner'[t] = owner[t]
  BY <1>1, <1>4 DEF OpenSockets
<1> QED
  BY <1>1, <1>2, <1>3, <1>5, <1>6 DEF s, c

(* Closing a socket leaves the others as they are.                         *)
LEMMA HangUpCloses ==
  ASSUME IInv, NEW s \in Sockets, HangsUp(s)
  PROVE  /\ OpenSockets' = OpenSockets \ {s}
         /\ \A t \in OpenSockets' : owner'[t] = owner[t]
         /\ owner' \in [Sockets -> Clients \cup {NoClient}]
  BY DEF HangsUp, Disconnect, OpenSockets, IInv, TypeOK, ServerTypeOK

(* The poll set follows the open sockets, also when it grows.              *)
LEMMA PollKept ==
  ASSUME IInv, Next
  PROVE  PollInv'
<1> SUFFICES ASSUME status' = "running" PROVE PollInv'
  BY DEF PollInv
<1>1. ASSUME UNCHANGED <<pollVars, owner>>, status = "running"
      PROVE  PollInv'
  BY <1>1 DEF IInv, PollInv, pollVars, Poll!Watched, OpenSockets
<1>2. ASSUME NEW c \in Clients, Client(c)
      PROVE  PollInv'
  BY <1>1, <1>2 DEF Client, serverVars
<1>3. CASE Environment
  BY <1>1, <1>3 DEF Environment, StdinHangsUp, LateReset, serverVars
<1>4. CASE Accept
  <2> DEFINE s == Min(FreeSockets)
  <2>1. s \in Sockets /\ OpenSockets' = OpenSockets \cup {s} /\ status = "running"
    BY <1>4, AcceptOpens DEF Accept, PollReturns
  <2>2. Poll!AddToPollSet(s)
    BY <1>4 DEF Accept, Poll!GrowPollSetFails
  <2> HIDE DEF s
  <2>3. PP!TypeOK /\ PP!AddToPollSet(s)
    BY <2>1, <2>2, PollShape
       DEF Poll!AddToPollSet, PP!AddToPollSet, Poll!GrownSet, PP!GrownSet,
           Poll!GrownSize, PP!GrownSize, Poll!Stdin, PP!Stdin
  <2>4. /\ PP!Watched' = PP!Watched \cup {s} /\ pollSet'[s] = s
        /\ \A i \in PP!Watched \ {s} : pollSet'[i] = pollSet[i]
        /\ maxFd <= maxFd' /\ s < maxFd' /\ maxFd' \in 0 .. setSize' /\ setSize' \in Nat
    BY <2>1, <2>3, PollAssumptions, PP!AddTakesOwnSlot
  <2>5. PP!Watched = Poll!Watched /\ PP!Watched' = Poll!Watched'
    BY DEF PP!Watched, Poll!Watched, PP!Stdin, Poll!Stdin
  <2>6. /\ Poll!Watched = OpenSockets \cup {MainSocket}
        /\ \A i \in Poll!Watched : pollSet[i] = i /\ i < maxFd /\ i \in Nat
    BY <2>1 DEF IInv, PollInv, Poll!Watched
  <2>7. maxFd \in Nat /\ maxFd' \in Nat /\ s \in Nat
    BY <2>1, <2>4, SocketsAssumption DEF IInv, TypeOK, ServerTypeOK
  <2>8. \A i \in Poll!Watched' : pollSet'[i] = i /\ i < maxFd'
    BY <2>4, <2>5, <2>6, <2>7
  <2> QED
    BY <2>1, <2>4, <2>5, <2>6, <2>8 DEF PollInv
<1>5. ASSUME NEW s \in Sockets, HangsUp(s)
      PROVE  PollInv'
  <2>1. /\ OpenSockets' = OpenSockets \ {s} /\ s \in OpenSockets /\ status = "running"
        /\ pollSet' = [pollSet EXCEPT ![s] = Poll!Stdin] /\ setSize' = setSize /\ maxFd' = maxFd
    BY <1>5, HangUpCloses DEF HangsUp, Disconnect, Poll!RemoveFromPollSet
  <2>2. /\ Poll!Watched = OpenSockets \cup {MainSocket}
        /\ \A i \in Poll!Watched : pollSet[i] = i /\ i < maxFd
    BY <2>1 DEF IInv, PollInv
  <2>3. \A i \in 0 .. setSize - 1 : pollSet'[i] = IF i = s THEN Poll!Stdin ELSE pollSet[i]
    BY <2>1 DEF IInv, TypeOK, ServerTypeOK
  <2>4. Poll!Watched' = Poll!Watched \ {s}
    BY <2>1, <2>3 DEF Poll!Watched
  <2>5. \A i \in Poll!Watched' : pollSet'[i] = pollSet[i]
    BY <2>3, <2>4 DEF Poll!Watched
  <2>6. s # MainSocket
    BY SocketsAssumption
  <2> QED
    BY <2>1, <2>2, <2>4, <2>5, <2>6 DEF PollInv
<1>6. CASE Server
  <2>1. ASSUME NEW s \in Sockets, Answers(s)
        PROVE  PollInv'
    BY <1>1, <2>1 DEF Answers
  <2>2. CASE UNCHANGED vars \/ SendNext
    BY <1>1, <2>2 DEF vars, serverVars, SendNext
  <2> QED
    BY <1>4, <1>5, <1>6, <2>1, <2>2, ServerForms DEF Dies
<1> QED
  BY <1>2, <1>3, <1>6 DEF Next

(* The table follows them too: a descriptor is given away without its      *)
(* entry.                                                                  *)
LEMMA SocketsKept ==
  ASSUME IInv, Next
  PROVE  SocketsInv'
<1> SUFFICES ASSUME status' = "running" PROVE SocketsInv'
  BY DEF SocketsInv
<1>1. Table!TypeOK
  BY DEF IInv, TypeOK, ServerTypeOK
<1>2. ASSUME UNCHANGED <<capacity, table, owner>>, status = "running"
      PROVE  SocketsInv'
  BY <1>2 DEF IInv, SocketsInv, Table!Occupied, Table!Slots, OpenSockets
<1>3. ASSUME NEW c \in Clients, Client(c)
      PROVE  SocketsInv'
  BY <1>2, <1>3 DEF Client, serverVars, tableVars
<1>4. CASE Environment
  BY <1>2, <1>4 DEF Environment, StdinHangsUp, LateReset, serverVars, tableVars
<1>5. CASE Accept
  <2>1. /\ status = "running" /\ UNCHANGED <<capacity, table>>
        /\ OpenSockets \subseteq OpenSockets' /\ \A t \in OpenSockets : owner'[t] = owner[t]
    BY <1>5, AcceptOpens DEF Accept, PollReturns, tableVars
  <2>2. Table!Occupied' = Table!Occupied
    BY <2>1 DEF Table!Occupied, Table!Slots
  <2> QED
    BY <2>1, <2>2 DEF IInv, SocketsInv
<1>6. ASSUME NEW s \in Sockets, HangsUp(s)
      PROVE  SocketsInv'
  <2>1. /\ OpenSockets' = OpenSockets \ {s} /\ \A t \in OpenSockets' : owner'[t] = owner[t]
        /\ status = "running" /\ Table!RemoveHandle(s)
    BY <1>6, HangUpCloses DEF HangsUp, Disconnect
  <2>2. /\ Table!Occupied' = Table!Occupied \ {s}
        /\ \A i \in Table!Occupied \ {s} : table'[i] = table[i]
    BY <1>1, <2>1, RemoveHandleDoes
  <2> QED
    BY <2>1, <2>2 DEF IInv, SocketsInv
<1>7. ASSUME NEW s \in Sockets, Answers(s), ServeConnect(s)
      PROVE  SocketsInv'
  <2>1. /\ s \in OpenSockets /\ owner' = owner /\ status = "running"
        /\ OpenSockets' = OpenSockets
    BY <1>7 DEF Answers, OpenSockets
  <2>2. /\ owner[s] \in Clients /\ NextRequest(owner[s]).dests[1] = HandleOf[owner[s]]
    <3> DEFINE c == owner[s]
               req == NextRequest(c)
    <3>1. Takes(s, Connect) /\ Connect \in 0 .. 255
      BY <1>7, FlagsAreBytes DEF ServeConnect
    <3>2. c \in Clients /\ req.flag = Connect /\ WellFormed(c, taken[c] + 1, req)
      BY <3>1, RequestTaken
    <3> HIDE DEF req, c
    <3>3. req.dests = <<HandleOf[c]>>
      BY <3>2 DEF WellFormed
    <3> QED
      BY <3>2, <3>3 DEF req, c
  <2>3. HandleOf[owner[s]] \in Handles
    BY <2>2, NamesAssumption
  <2>4. PICK b \in BOOLEAN : Table!AddHandle(s, HandleOf[owner[s]], b)
    BY <1>7, <2>2 DEF ServeConnect
  <2>5. \/ /\ Table!Occupied' = Table!Occupied
           /\ \A i \in Table!Occupied : table'[i] = table[i]
        \/ /\ Table!Occupied' = Table!Occupied \cup {s}
           /\ table'[s] = HandleOf[owner[s]]
           /\ \A i \in Table!Occupied \ {s} : table'[i] = table[i]
    BY <1>1, <2>3, <2>4, AddHandleDoes
  <2> QED
    BY <2>1, <2>5 DEF IInv, SocketsInv
<1>8. CASE Server
  <2>1. ASSUME NEW s \in Sockets, Answers(s), UNCHANGED <<status, tableVars>>
        PROVE  SocketsInv'
    BY <1>2, <2>1 DEF Answers, tableVars
  <2>2. CASE UNCHANGED vars \/ SendNext
    BY <1>2, <2>2 DEF vars, serverVars, tableVars, SendNext
  <2> QED
    BY <1>5, <1>6, <1>7, <1>8, <2>1, <2>2, ServerForms DEF Dies
<1> QED
  BY <1>3, <1>4, <1>8 DEF Next

(* Only the handler of flag 8 puts an acknowledgement in the outbox,       *)
(* alone.                                                                  *)
LEMMA AckKept ==
  ASSUME IInv, Next
  PROVE  AckInv'
<1>1. ASSUME UNCHANGED <<outbox, owner>>
      PROVE  AckInv'
  BY <1>1 DEF IInv, AckInv, OpenSockets
<1>2. ASSUME outbox' = <<>>
      PROVE  AckInv'
  BY <1>2 DEF AckInv
<1>3. ASSUME NEW c \in Clients, Client(c)
      PROVE  AckInv'
  BY <1>1, <1>3 DEF Client, serverVars
<1>4. CASE Environment
  BY <1>1, <1>4 DEF Environment, StdinHangsUp, LateReset, serverVars
<1>5. ASSUME NEW s \in Sockets, Answers(s)
      PROVE  AckInv'
  <2>1. s \in OpenSockets' /\ outbox' \in Seq(Mail)
    BY <1>5 DEF Answers, OpenSockets
  <2> QED
    BY <1>5, <2>1 DEF Answers, AckInv, Sends
<1>6. CASE SendNext
  <2>1. outbox \in Seq(Mail) /\ outbox # <<>> /\ outbox' = Tail(outbox) /\ owner' = owner
        /\ Head(outbox).pdu # Pdu(ExitAck)
    BY <1>6 DEF SendNext, IInv, TypeOK, ServerTypeOK, Mail
  <2>2. \A i \in DOMAIN outbox' : i + 1 \in DOMAIN outbox /\ outbox'[i] = outbox[i + 1] /\ Len(outbox) # 1
    BY <2>1
  <2>3. \A i \in DOMAIN outbox' : outbox'[i].pdu # Pdu(ExitAck)
    BY <2>1, <2>2 DEF IInv, AckInv
  <2> QED
    BY <2>3 DEF AckInv
<1>7. CASE Server
  <2>1. CASE UNCHANGED vars
    BY <1>1, <2>1 DEF vars, serverVars
  <2>2. CASE Accept
    <3>1. outbox' = <<>>
      BY <2>2 DEF Accept, PollReturns
    <3> QED
      BY <1>2, <3>1
  <2>3. CASE Dies
    BY <1>1, <1>2, <2>3 DEF Dies
  <2>4. ASSUME NEW s \in Sockets, HangsUp(s)
        PROVE  AckInv'
    BY <1>2, <2>4 DEF HangsUp
  <2> QED
    BY <1>5, <1>6, <1>7, <2>1, <2>2, <2>3, <2>4, ServerForms
<1> QED
  BY <1>3, <1>4, <1>7 DEF Next

(* A registration carries a handle.                                        *)
LEMMA ConnectNamesItself ==
  ASSUME IInv, NEW s \in Sockets, ServeConnect(s)
  PROVE  /\ owner[s] \in Clients
         /\ NextRequest(owner[s]).dests[1] = HandleOf[owner[s]]
         /\ NextRequest(owner[s]).dests[1] \in Handles
<1> DEFINE c == owner[s]
           req == NextRequest(c)
<1>1. Takes(s, Connect) /\ Connect \in 0 .. 255
  BY FlagsAreBytes DEF ServeConnect
<1>2. c \in Clients /\ req.flag = Connect /\ WellFormed(c, taken[c] + 1, req)
  BY <1>1, RequestTaken
<1>3. HandleOf[c] \in Handles
  BY <1>2, NamesAssumption
<1> HIDE DEF req, c
<1>4. req.dests = <<HandleOf[c]>>
  BY <1>2 DEF WellFormed
<1> QED
  BY <1>2, <1>3, <1>4 DEF req, c

(* The types of what is in the network.                                    *)
LEMMA NetTypeKept ==
  ASSUME IInv, Next
  PROVE  NetTypeOK' /\ proc' \in [Clients -> {"idle", "connected", "looping", "gone"}]
<1>1. /\ backlog \in Seq(Clients) /\ up \in [Clients -> Seq(Pdus)]
      /\ taken \in [Clients -> Nat] /\ down \in [Clients -> Seq(Pdus)]
      /\ shown \in [Clients -> Nat] /\ link \in [Clients -> {"none", "open", "fin", "half", "rst"}]
      /\ closed \subseteq Clients
      /\ proc \in [Clients -> {"idle", "connected", "looping", "gone"}]
  BY DEF IInv, TypeOK, NetTypeOK
<1>2. ASSUME NEW c \in Clients, NEW m \in Pdus, NEW f \in [Clients -> Seq(Pdus)]
      PROVE  [f EXCEPT ![c] = Append(@, m)] \in [Clients -> Seq(Pdus)]
  <2>1. f[c] \in Seq(Pdus)
    OBVIOUS
  <2>2. Append(f[c], m) \in Seq(Pdus)
    BY <2>1, AppendProperties
  <2> QED
    BY <2>2
<1>3. ASSUME \E d \in Clients, m \in Pdus : down' = [down EXCEPT ![d] = Append(@, m)]
      PROVE  down' \in [Clients -> Seq(Pdus)]
  <2>1. PICK d \in Clients, m \in Pdus : down' = [down EXCEPT ![d] = Append(@, m)]
    BY <1>3
  <2> QED
    BY <1>1, <1>2, <2>1
<1>4. ASSUME NEW c \in Clients, Client(c)
      PROVE  NetTypeOK' /\ proc' \in [Clients -> {"idle", "connected", "looping", "gone"}]
  <2>1. CASE ConnectToServer(c)
    <3>1. Append(backlog, c) \in Seq(Clients)
      BY <1>1, AppendProperties
    <3>2. backlog' \in Seq(Clients)
      BY <1>1, <2>1, <3>1 DEF ConnectToServer
    <3> QED
      BY <1>1, <2>1, <3>2 DEF ConnectToServer, NetTypeOK
  <2>2. ASSUME NEW req \in Pdus, Puts(c, req)
        PROVE  NetTypeOK' /\ proc' \in [Clients -> {"idle", "connected", "looping", "gone"}]
    <3>1. up' \in [Clients -> Seq(Pdus)]
      BY <1>1, <1>2, <2>2 DEF Puts
    <3> QED
      BY <1>1, <2>2, <3>1 DEF Puts, NetTypeOK
  <2>3. CASE Moves(c)
    BY <1>1, <2>3 DEF Moves, NetTypeOK
  <2>4. ASSUME NEW rest, Breaks(c, rest)
        PROVE  NetTypeOK' /\ proc' \in [Clients -> {"idle", "connected", "looping", "gone"}]
    BY <1>1, <2>4 DEF Breaks, NetTypeOK
  <2> QED
    BY <1>4, <2>1, <2>2, <2>3, <2>4, ClientForms
<1>5. CASE Environment
  BY <1>1, <1>5 DEF Environment, StdinHangsUp, LateReset, netVars, NetTypeOK
<1>6. CASE Server
  <2>1. UNCHANGED <<up, shown, link, proc>> /\ taken' \in [Clients -> Nat]
    <3>1. \A c \in Clients : [taken EXCEPT ![c] = @ + 1] \in [Clients -> Nat]
      BY <1>1
    <3> QED
      BY <1>1, <1>6, <3>1, ServerFrame
  <2>2. ASSUME UNCHANGED <<backlog, down, closed>>
        PROVE  NetTypeOK'
    BY <1>1, <2>1, <2>2 DEF NetTypeOK
  <2>3. CASE Accept
    <3>1. backlog # <<>> /\ backlog' = Tail(backlog) /\ UNCHANGED <<down, closed>>
      BY <2>3, AcceptHasClient DEF Accept
    <3>2. backlog' \in Seq(Clients)
      BY <1>1, <3>1
    <3> QED
      BY <1>1, <2>1, <3>1, <3>2 DEF NetTypeOK
  <2>4. ASSUME NEW s \in Sockets, HangsUp(s)
        PROVE  NetTypeOK'
    <3>1. owner[s] \in Clients
      BY <2>4 DEF HangsUp, OpenSockets, IInv, TypeOK, ServerTypeOK
    <3>2. Pdu(ExitAck) \in Pdus
      BY FlagsAreBytes, BlankPdu
    <3>3. down' = down \/ down' = [down EXCEPT ![owner[s]] = Append(@, Pdu(ExitAck))]
      BY <2>4 DEF HangsUp
    <3>4. down' \in [Clients -> Seq(Pdus)]
      BY <1>1, <1>3, <3>1, <3>2, <3>3
    <3>5. closed' \subseteq Clients /\ backlog' = backlog
      BY <1>1, <2>4, <3>1 DEF HangsUp, Disconnect
    <3> QED
      BY <1>1, <2>1, <3>5, <3>4 DEF NetTypeOK
  <2>5. CASE SendNext
    <3> DEFINE s == Head(outbox).to
               m == Head(outbox).pdu
    <3>1. outbox \in Seq(Mail) /\ outbox # <<>>
      BY <2>5 DEF SendNext, IInv, TypeOK, ServerTypeOK, Mail
    <3>2. Head(outbox) \in Mail
      BY <3>1
    <3>3. m \in Pdus /\ (s \in OpenSockets => owner[s] \in Clients)
      BY <3>2 DEF Mail, OpenSockets, IInv, TypeOK, ServerTypeOK
    <3>4. /\ backlog' = backlog /\ closed' = closed
          /\ \/ down' = down
             \/ s \in OpenSockets /\ down' = [down EXCEPT ![owner[s]] = Append(@, m)]
      BY <2>5 DEF SendNext
    <3> HIDE DEF s, m
    <3>5. down' \in [Clients -> Seq(Pdus)]
      BY <1>1, <1>3, <3>3, <3>4
    <3> QED
      BY <1>1, <2>1, <3>4, <3>5 DEF NetTypeOK
  <2>6. ASSUME NEW s \in Sockets, Answers(s)
        PROVE  NetTypeOK'
    BY <2>2, <2>6 DEF Answers
  <2>7. ASSUME UNCHANGED vars \/ Dies
        PROVE  NetTypeOK'
    <3>1. UNCHANGED netVars
      BY <2>7 DEF vars, Dies
    <3> QED
      BY <2>2, <3>1 DEF netVars
  <2> QED
    BY <1>1, <1>6, <2>1, <2>3, <2>4, <2>5, <2>6, <2>7, ServerForms
<1> QED
  BY <1>4, <1>5, <1>6 DEF Next

(* The types of what is in the server.                                     *)
LEMMA ServerTypeKept ==
  ASSUME IInv, Next
  PROVE  ServerTypeOK'
<1>1. /\ Table!TypeOK /\ setSize \in Nat
      /\ pollSet \in [0 .. setSize - 1 -> Sockets \cup {Poll!Stdin, MainSocket}]
      /\ maxFd \in 0 .. setSize
      /\ owner \in [Sockets -> Clients \cup {NoClient}]
      /\ outbox \in Seq(Mail) /\ <<>> \in Seq(Mail)
      /\ stdinHup \in BOOLEAN /\ limit \in Limits
  BY DEF IInv, TypeOK, ServerTypeOK, Mail
<1>2. ASSUME UNCHANGED <<tableVars, status>>
      PROVE  Table!TypeOK'
  BY <1>1, <1>2 DEF tableVars, Table!TypeOK
<1>3. ASSUME UNCHANGED <<tableVars, pollVars, owner, outbox, status>>,
             stdinHup' \in BOOLEAN, limit' = limit
      PROVE  ServerTypeOK'
  BY <1>1, <1>2, <1>3 DEF pollVars, ServerTypeOK, Mail
<1>4. ASSUME NEW c \in Clients, Client(c)
      PROVE  ServerTypeOK'
  BY <1>1, <1>3, <1>4 DEF Client, serverVars
<1>5. CASE Environment
  BY <1>1, <1>3, <1>5 DEF Environment, StdinHangsUp, LateReset, serverVars
<1>6. CASE Accept
  <2> DEFINE s == Min(FreeSockets)
  <2>1. s \in Sockets /\ owner' = [owner EXCEPT ![s] = Head(backlog)]
        /\ Head(backlog) \in Clients /\ status = "running"
    BY <1>6, AcceptOpens DEF Accept, PollReturns
  <2>2. UNCHANGED <<tableVars, outbox, stdinHup, limit>>
        /\ ((Poll!AddToPollSet(s) /\ UNCHANGED status) \/ Poll!GrowPollSetFails(s))
    BY <1>6 DEF Accept
  <2> HIDE DEF s
  <2>3. owner' \in [Sockets -> Clients \cup {NoClient}]
    BY <1>1, <2>1
  <2>4. CASE Poll!AddToPollSet(s) /\ UNCHANGED status
    <3>1. PP!TypeOK /\ PP!AddToPollSet(s)
      BY <2>1, <2>4, PollShape
         DEF Poll!AddToPollSet, PP!AddToPollSet, Poll!GrownSet, PP!GrownSet,
             Poll!GrownSize, PP!GrownSize, Poll!Stdin, PP!Stdin
    <3>2. /\ setSize' \in Nat /\ maxFd' \in 0 .. setSize'
          /\ pollSet' \in [0 .. setSize' - 1 -> Sockets \cup {MainSocket} \cup {PP!Stdin}]
      BY <2>1, <3>1, PollAssumptions, PP!AddTakesOwnSlot
    <3> QED
      BY <1>1, <1>2, <2>2, <2>3, <2>4, <3>2 DEF ServerTypeOK, Mail, PP!Stdin, Poll!Stdin
  <2>5. CASE Poll!GrowPollSetFails(s)
    <3>1. status' = "exited" /\ UNCHANGED <<setSize, pollSet, maxFd>>
      BY <2>5 DEF Poll!GrowPollSetFails, Poll!pollVars
    <3>2. Table!TypeOK'
      BY <1>1, <2>2, <3>1 DEF Table!TypeOK, tableVars
    <3> QED
      BY <1>1, <2>2, <2>3, <3>1, <3>2 DEF ServerTypeOK, Mail
  <2> QED
    BY <2>2, <2>4, <2>5
<1>7. ASSUME NEW s \in Sockets, Answers(s), Table!TypeOK'
      PROVE  ServerTypeOK'
  BY <1>1, <1>7 DEF Answers, pollVars, ServerTypeOK, Mail
<1>8. ASSUME NEW s \in Sockets, Answers(s), ServeConnect(s)
      PROVE  Table!TypeOK'
  <2>1. NextRequest(owner[s]).dests[1] \in Handles
    BY <1>8, ConnectNamesItself DEF Answers
  <2>2. PICK b \in BOOLEAN : Table!AddHandle(s, NextRequest(owner[s]).dests[1], b)
    BY <1>8 DEF ServeConnect
  <2> QED
    BY <1>1, <2>1, <2>2, AddHandleDoes
<1>9. ASSUME NEW s \in Sockets, HangsUp(s)
      PROVE  ServerTypeOK'
  <2>1. Table!RemoveHandle(s) /\ Poll!RemoveFromPollSet(s) /\ outbox' = <<>>
        /\ UNCHANGED <<stdinHup, limit>>
    BY <1>9 DEF HangsUp, Disconnect
  <2>2. Table!TypeOK'
    BY <1>1, <2>1, RemoveHandleDoes
  <2>3. /\ setSize' = setSize /\ maxFd' = maxFd
        /\ pollSet' \in [0 .. setSize' - 1 -> Sockets \cup {Poll!Stdin, MainSocket}]
    BY <1>1, <2>1 DEF Poll!RemoveFromPollSet
  <2> QED
    BY <1>1, <1>9, <2>1, <2>2, <2>3, HangUpCloses DEF ServerTypeOK, Mail
<1>10. CASE Dies
  <2>1. Table!TypeOK'
    BY <1>1, <1>10 DEF Dies, Table!TypeOK, tableVars
  <2> QED
    BY <1>1, <1>10, <2>1 DEF Dies, pollVars, ServerTypeOK, Mail
<1>11. CASE SendNext
  <2>1. /\ outbox # <<>> /\ outbox' = Tail(outbox) /\ status' \in {"running", "exited", status}
        /\ UNCHANGED <<tableVars, pollVars, owner, stdinHup, limit>>
    BY <1>11 DEF SendNext
  <2>2. outbox' \in Seq(Mail)
    BY <1>1, <2>1
  <2>3. Table!TypeOK'
    BY <1>1, <2>1 DEF Table!TypeOK, tableVars
  <2> QED
    BY <1>1, <2>1, <2>2, <2>3 DEF pollVars, ServerTypeOK, Mail
<1>12. CASE Server
  <2>1. CASE UNCHANGED vars
    BY <1>1, <1>3, <2>1 DEF vars, serverVars
  <2>2. ASSUME NEW s \in Sockets, Answers(s), ServeConnect(s) \/ UNCHANGED <<status, tableVars>>
        PROVE  ServerTypeOK'
    BY <1>2, <1>7, <1>8, <2>2
  <2> QED
    BY <1>6, <1>9, <1>10, <1>11, <1>12, <2>1, <2>2, ServerForms
<1> QED
  BY <1>4, <1>5, <1>12 DEF Next

(* The invariant holds when everything starts.                             *)
LEMMA InitHolds == Init => IInv
<1> SUFFICES ASSUME Init PROVE IInv
  OBVIOUS
<1> USE DEF Init, NetInit, ServerInit
<1>1. NoClient \notin Clients /\ MainSocket \in Nat \ {0} /\ MainSocket \notin Sockets
      /\ POLL_SET_SIZE \in Nat \ {0} /\ InitialSize \in Nat \ {0}
  BY SendersAssumption, SocketsAssumption, TablesAssumption
<1>2. NetTypeOK
  BY DEF NetTypeOK
<1>3. Table!TypeOK /\ Table!Occupied = {}
  BY <1>1 DEF Table!Init, Table!TypeOK, Table!Occupied, Table!Slots
<1>4. /\ setSize \in Nat /\ MainSocket < setSize
      /\ pollSet = [i \in 0 .. setSize - 1 |-> IF i = MainSocket THEN i ELSE Poll!Stdin]
      /\ maxFd = MainSocket + 1
  BY <1>1
<1>5. ServerTypeOK
  <2>1. pollSet \in [0 .. setSize - 1 -> Sockets \cup {Poll!Stdin, MainSocket}]
    BY <1>4
  <2>2. maxFd \in 0 .. setSize
    BY <1>1, <1>4
  <2>3. outbox \in Seq([to : Sockets \cup {-1}, pdu : Pdus])
    OBVIOUS
  <2>4. owner \in [Sockets -> Clients \cup {NoClient}]
    OBVIOUS
  <2> QED
    BY <1>3, <1>4, <2>1, <2>2, <2>3, <2>4 DEF ServerTypeOK
<1>6. OpenSockets = {}
  BY DEF OpenSockets
<1>7. RequestsInv
  <2>1. \A c \in Clients : up[c] = <<>> /\ taken[c] = 0 /\ proc[c] = "idle"
    OBVIOUS
  <2>2. Len(<<>>) = 0 /\ DOMAIN <<>> = {}
    OBVIOUS
  <2>3. \A c \in Clients :
          /\ taken[c] <= Len(up[c]) /\ DOMAIN up[c] = {} /\ up[c] = <<>>
          /\ proc[c] = "idle"
    <3> HIDE DEF Init, NetInit, ServerInit
    <3> TAKE c \in Clients
    <3>1. up[c] = <<>> /\ taken[c] = 0 /\ proc[c] = "idle"
      BY <2>1
    <3>2. Len(up[c]) = 0 /\ DOMAIN up[c] = {}
      BY <2>2, <3>1
    <3> QED
      BY <3>1, <3>2
  <2> QED
    BY <2>3 DEF RequestsInv
<1>8. ConnectionsInv
  BY <1>6 DEF ConnectionsInv
<1>9. PollInv
  BY <1>1, <1>4, <1>6 DEF PollInv, Poll!Watched, Poll!Stdin
<1> QED
  BY <1>2, <1>3, <1>5, <1>7, <1>8, <1>9 DEF IInv, TypeOK, SocketsInv, AckInv

(* It holds while nothing happens.                                         *)
LEMMA IInvStutters == IInv /\ UNCHANGED vars => IInv'
<1> SUFFICES ASSUME IInv, UNCHANGED vars PROVE IInv'
  OBVIOUS
<1> USE DEF IInv, vars, netVars, serverVars, tableVars, pollVars, OpenSockets
<1>1. TypeOK'
  BY DEF TypeOK, NetTypeOK, ServerTypeOK, Table!TypeOK
<1>2. RequestsInv' /\ ConnectionsInv'
  BY DEF RequestsInv, WellFormed, ConnectionsInv
<1>3. PollInv' /\ SocketsInv' /\ AckInv'
  BY DEF PollInv, Poll!Watched, SocketsInv, Table!Occupied, Table!Slots, AckInv
<1> QED
  BY <1>1, <1>2, <1>3

(* IInv is inductive.                                                      *)
THEOREM IInvHolds == Spec => []IInv
<1>1. IInv /\ [Next]_vars => IInv'
  BY NetTypeKept, ServerTypeKept, RequestsKept, ConnectionsKept, PollKept, SocketsKept,
     AckKept, IInvStutters DEF IInv, TypeOK
<1> QED
  BY <1>1, InitHolds, PTL DEF Spec

(* The type invariant, of the network, the server and the clients.         *)
THEOREM TypeCorrect == Spec => []TypeOK
  BY IInvHolds, PTL DEF IInv

(* The kernel, the poll set and the table agree on the descriptors while   *)
(* the server runs, through every close and reuse.                         *)
THEOREM DescriptorsStayAgreed == Spec => []DescriptorsAgree
<1>1. IInv => DescriptorsAgree
  BY DEF IInv, PollInv, SocketsInv, ConnectionsInv, DescriptorsAgree
<1> QED
  BY <1>1, IInvHolds, PTL

(* No step of another client takes a handle away or changes it while its   *)
(* connection is open.                                                     *)
THEOREM HandlesStayWithClients == Spec => HandleKeptWhileConnected
<1> DEFINE Kept == status' = "running" =>
                     \A s \in Table!Occupied :
                       owner'[s] = owner[s] => s \in DOMAIN table' /\ table'[s] = table[s]
<1>1. ASSUME UNCHANGED <<tableVars, status>>, IInv
      PROVE  Kept
  BY <1>1 DEF tableVars, IInv, TypeOK, ServerTypeOK, Table!TypeOK, Table!Occupied, Table!Slots
<1>2. ASSUME IInv, Next
      PROVE  Kept
  <2> SUFFICES ASSUME status' = "running" PROVE Kept
    OBVIOUS
  <2>1. ASSUME NEW s \in Sockets, Answers(s), ServeConnect(s)
        PROVE  Kept
    <3>1. owner' = owner /\ status = "running"
      BY <2>1 DEF Answers
    <3>2. PICK b \in BOOLEAN : Table!AddHandle(s, HandleOf[owner[s]], b)
      BY <1>2, <2>1, ConnectNamesItself DEF ServeConnect
    <3>3. HandleOf[owner[s]] \in Handles /\ Table!TypeOK
      BY <1>2, <2>1, ConnectNamesItself DEF IInv, TypeOK, ServerTypeOK
    <3>4. \A i \in Table!Occupied :
            i \in Table!Occupied' /\ (table'[i] = table[i] \/ (i = s /\ table'[s] = HandleOf[owner[s]]))
      <4> HIDE <1>2, <2>1
      <4>1. \/ /\ Table!Occupied' = Table!Occupied
               /\ \A i \in Table!Occupied : table'[i] = table[i]
            \/ /\ Table!Occupied' = Table!Occupied \cup {s}
               /\ table'[s] = HandleOf[owner[s]]
               /\ \A i \in Table!Occupied \ {s} : table'[i] = table[i]
        BY <3>2, <3>3, AddHandleDoes
      <4> QED
        BY <4>1
    <3>5. Table!TypeOK'
      BY <3>2, <3>3, AddHandleDoes
    <3>6. \A i \in Table!Occupied : i \in DOMAIN table'
      BY <3>4, <3>5 DEF Table!Occupied, Table!Slots, Table!TypeOK
    <3>7. \A i \in Table!Occupied : table[i] = HandleOf[owner[i]]
      BY <1>2, <3>1 DEF IInv, SocketsInv
    <3> QED
      BY <3>4, <3>6, <3>7
  <2>2. ASSUME NEW s \in Sockets, HangsUp(s)
        PROVE  Kept
    <3>1. Table!TypeOK /\ Table!RemoveHandle(s) /\ capacity' = capacity
      BY <1>2, <2>2 DEF HangsUp, Disconnect, IInv, TypeOK, ServerTypeOK, Table!RemoveHandle
    <3>2. Table!TypeOK' /\ \A i \in Table!Occupied \ {s} : table'[i] = table[i]
      BY <3>1, RemoveHandleDoes
    <3>3. owner'[s] = NoClient /\ owner[s] # NoClient
      BY <1>2, <2>2 DEF HangsUp, Disconnect, OpenSockets, IInv, TypeOK, ServerTypeOK
    <3> QED
      BY <3>1, <3>2, <3>3 DEF Table!TypeOK, Table!Occupied, Table!Slots
  <2>3. ASSUME Server
        PROVE  Kept
    <3>1. CASE UNCHANGED vars
      BY <1>1, <1>2, <3>1 DEF vars, serverVars
    <3>2. CASE SendNext
      BY <1>1, <1>2, <3>2 DEF SendNext
    <3>3. CASE Accept
      BY <1>1, <1>2, <3>3 DEF Accept, PollReturns
    <3> QED
      BY <1>1, <1>2, <2>1, <2>2, <2>3, <3>1, <3>2, <3>3, ServerForms DEF Dies
  <2>4. ASSUME NEW c \in Clients, Client(c)
        PROVE  Kept
    BY <1>1, <1>2, <2>4 DEF Client, serverVars
  <2>5. CASE Environment
    BY <1>1, <1>2, <2>5 DEF Environment, StdinHangsUp, LateReset, serverVars
  <2> QED
    BY <1>2, <2>3, <2>4, <2>5 DEF Next
<1>3. IInv /\ UNCHANGED vars => Kept
  BY <1>1 DEF vars, serverVars
<1> QED
  BY <1>2, <1>3, IInvHolds, PTL DEF Spec, HandleKeptWhileConnected

(* A reset connection stays reset, one that ended in half of a header does *)
(* or is reset, and the standard input stays hung up.                      *)
LEMMA CausesLast ==
  ASSUME IInv, Next
  PROVE  /\ \A c \in Clients : /\ link[c] = "rst" => link'[c] = "rst"
                               /\ link[c] = "half" => link'[c] \in {"half", "rst"}
         /\ stdinHup => stdinHup'
<1>1. /\ link \in [Clients -> {"none", "open", "fin", "half", "rst"}]
      /\ \A c \in Clients : /\ proc[c] = "idle" => link[c] = "none"
                            /\ proc[c] \in {"connected", "looping"} => link[c] = "open"
  BY DEF IInv, TypeOK, NetTypeOK, ConnectionsInv
<1>2. ASSUME NEW c \in Clients, Client(c)
      PROVE  /\ \A d \in Clients : link[d] \in {"half", "rst"} => link'[d] = link[d]
             /\ stdinHup' = stdinHup
  <2>1. CASE ConnectToServer(c)
    BY <1>1, <1>2, <2>1 DEF ConnectToServer, Client, serverVars
  <2>2. CASE Moves(c)
    BY <1>1, <2>2 DEF Moves, serverVars
  <2>3. ASSUME NEW req \in Pdus, Puts(c, req)
        PROVE  UNCHANGED <<link, stdinHup>>
    BY <2>3 DEF Puts, serverVars
  <2>4. ASSUME NEW rest, Breaks(c, rest)
        PROVE  /\ \A d \in Clients : link[d] \in {"half", "rst"} => link'[d] = link[d]
               /\ stdinHup' = stdinHup
    BY <1>1, <2>4 DEF Breaks, serverVars
  <2> QED
    BY <1>2, <2>1, <2>2, <2>3, <2>4, ClientForms
<1>3. CASE Server
  BY <1>3, ServerFrame
<1>4. CASE Environment
  BY <1>1, <1>4 DEF Environment, StdinHangsUp, LateReset, netVars, serverVars
<1> QED
  BY <1>2, <1>3, <1>4 DEF Next

(* The server ends for a cause outside it only: no sequence of requests    *)
(* makes it exit.                                                          *)
THEOREM ServerStopsForCause == Spec => []StopHasCause
<1> DEFINE Cause == stdinHup \/ AllocMayFail \/ \E c \in Clients : link[c] \in {"half", "rst"}
<1>1. Init => StopHasCause
  BY DEF Init, ServerInit, Table!Init, StopHasCause
<1>2. ASSUME IInv, Next, status # "exited", status' = "exited"
      PROVE  Cause
  <2>1. CASE Server
    <3>1. ASSUME Accept PROVE Cause
      BY <1>2, <3>1 DEF Accept, Poll!GrowPollSetFails
    <3>2. ASSUME NEW s \in Sockets, Serve(s) PROVE Cause
      <4>1. ASSUME NEW h, NEW b, Table!AddHandle(s, h, b) PROVE Cause
        BY <1>2, <4>1 DEF Table!AddHandle, Table!StoreHandle, Table!RefuseHandle,
             Table!CopyFails, Table!Overrun, Table!GrowFails
      <4> QED
        BY <1>2, <3>2, <4>1 DEF Serve, ServeConnect, ServeMessage, ServeMulticast, ServeList,
             ServeExit, ServeEof, Disconnect, Table!RemoveHandle
    <3>3. ASSUME NEW s \in Sockets \cup {Poll!Stdin}, RecvFails(s) PROVE Cause
      <4>1. CASE s \in OpenSockets /\ link[owner[s]] \in {"half", "rst"}
        BY <1>2, <4>1 DEF OpenSockets, IInv, TypeOK, ServerTypeOK
      <4>2. CASE s \notin OpenSockets \cup {MainSocket, -1}
        <5>1. s \notin Inputs
          BY <4>2 DEF Inputs, ReadyClients
        <5> QED
          BY <1>2, <3>3, <4>2, <5>1, PollReturnsReady DEF RecvFails
      <4> QED
        BY <3>3, <4>1, <4>2 DEF RecvFails
    <3>4. ASSUME SendNext PROVE Cause
      <4>1. Head(outbox).to \in OpenSockets /\ link[owner[Head(outbox).to]] = "rst"
        BY <1>2, <3>4 DEF SendNext
      <4> QED
        BY <1>2, <4>1 DEF OpenSockets, IInv, TypeOK, ServerTypeOK
    <3>5. ASSUME AckExit PROVE Cause
      <4> DEFINE s == Head(outbox).to
      <4>1. outbox # <<>> /\ outbox \in Seq(Mail) /\ Head(outbox).pdu = Pdu(ExitAck)
        BY <1>2, <3>5 DEF AckExit, IInv, TypeOK, ServerTypeOK, Mail
      <4>2. 1 \in DOMAIN outbox /\ Head(outbox) = outbox[1]
        BY <4>1
      <4>3. s \in OpenSockets
        BY <1>2, <4>1, <4>2 DEF IInv, AckInv
      <4>4. link[owner[s]] = "rst"
        BY <1>2, <3>5 DEF AckExit, Disconnect, Table!RemoveHandle
      <4> QED
        BY <1>2, <4>3, <4>4 DEF OpenSockets, IInv, TypeOK, ServerTypeOK
    <3> QED
      BY <1>2, <2>1, <3>1, <3>2, <3>3, <3>4, <3>5
         DEF Server, ServerStep, AcceptFails, serverVars
  <2>2. ASSUME NEW c \in Clients, Client(c) PROVE FALSE
    BY <1>2, <2>2 DEF Client, serverVars
  <2> QED
    BY <1>2, <2>1, <2>2 DEF Next, Environment, StdinHangsUp, LateReset, serverVars
<1>3. IInv /\ StopHasCause /\ [Next]_vars => StopHasCause'
  <2>1. ASSUME IInv, StopHasCause, Next PROVE StopHasCause'
    <3> SUFFICES ASSUME status' = "exited" PROVE Cause'
      BY DEF StopHasCause
    <3>1. Cause
      BY <1>2, <2>1 DEF StopHasCause
    <3> QED
      BY <2>1, <3>1, CausesLast
  <2>2. StopHasCause /\ UNCHANGED vars => StopHasCause'
    BY DEF StopHasCause, vars, netVars, serverVars
  <2> QED
    BY <2>1, <2>2
<1> QED
  BY <1>1, <1>3, IInvHolds, PTL DEF Spec

(* Once no descriptor is free and a client waits to be accepted, the loop  *)
(* returns to accept for ever and serves nobody.                           *)
THEOREM NoServiceAtLimit == Spec => LimitEndsService
<1> DEFINE Stuck == AtLimit => AtLimit' /\ UNCHANGED <<taken, down, owner>>
<1>1. UNCHANGED vars => Stuck
  BY DEF vars, netVars, serverVars, AtLimit, FreeSockets, OpenSockets
<1>2. ASSUME IInv, Next, AtLimit
      PROVE  AtLimit' /\ UNCHANGED <<taken, down, owner>>
  <2>1. ASSUME UNCHANGED <<taken, down, owner, limit, outbox>>, backlog' # <<>>
        PROVE  AtLimit' /\ UNCHANGED <<taken, down, owner>>
    BY <1>2, <2>1 DEF AtLimit, FreeSockets, OpenSockets
  <2>2. ASSUME NEW c \in Clients, Client(c)
        PROVE  AtLimit' /\ UNCHANGED <<taken, down, owner>>
    <3>1. UNCHANGED <<taken, owner, limit, outbox>>
      BY <2>2 DEF Client, serverVars, ClientStep, ConnectToServer, Register, TypeMessage,
           TypeMulticast, TypeList, TypeExit, Receive, SeeServerGone, Quit, KilledInSend, Put, netVars
    <3>2. down' = down /\ (backlog' = backlog \/ backlog' = Append(backlog, c))
      BY <2>2 DEF Client, ClientStep, ConnectToServer, Register, TypeMessage,
           TypeMulticast, TypeList, TypeExit, Receive, SeeServerGone, Quit, KilledInSend, Put, netVars
    <3>3. backlog # <<>> /\ backlog \in Seq(Clients)
      BY <1>2 DEF AtLimit, IInv, TypeOK, NetTypeOK
    <3>4. backlog' # <<>>
      BY <3>2, <3>3
    <3> QED
      BY <2>1, <3>1, <3>2, <3>4
  <2>3. CASE Environment
    BY <1>2, <2>1, <2>3 DEF Environment, StdinHangsUp, LateReset, netVars, serverVars, AtLimit
  <2>4. ASSUME NEW s, PollReturns(s)
        PROVE  s \in {MainSocket, Poll!Stdin}
    <3> DEFINE ready == ReadyClients \cup (IF backlog = <<>> THEN {} ELSE {MainSocket})
               hung == IF stdinHup THEN {Poll!Stdin} ELSE {}
               R == Poll!Reported(ready, hung)
    <3>1. /\ maxFd \in Nat /\ MainSocket \in Nat \ {0}
          /\ MainSocket \in Poll!Watched /\ pollSet[MainSocket] = MainSocket
          /\ MainSocket < maxFd
          /\ \A i \in Poll!Watched : pollSet[i] = i
          /\ Poll!Watched = OpenSockets \cup {MainSocket}
      BY <1>2, <2>4, SocketsAssumption DEF PollReturns, IInv, PollInv, TypeOK, ServerTypeOK
    <3>2. MainSocket \in R
      BY <1>2, <3>1 DEF AtLimit, Poll!Reported
    <3>3. R \in SUBSET Nat
      BY <3>1 DEF Poll!Reported
    <3>4. s \in R /\ s <= MainSocket
      <4>1. s = Min(R)
        BY <2>4, <3>2 DEF PollReturns, Poll!PollCall, Poll!Min, Min
      <4> HIDE DEF R
      <4> QED
        BY <3>2, <3>3, <4>1, LowestIsMember
    <3>5. CASE s \in Poll!Watched
      BY <3>1, <3>3, <3>4, <3>5, SocketsAssumption DEF OpenSockets
    <3>6. CASE pollSet[s] \in hung
      <4>1. stdinHup
        BY <3>6
      <4>2. 0 \notin Poll!Watched /\ 0 \in 0 .. setSize - 1 /\ 0 \in 0 .. maxFd - 1
        <5>1. 0 \notin OpenSockets \cup {MainSocket}
          BY <3>1, SocketsAssumption DEF OpenSockets
        <5>2. maxFd <= setSize /\ setSize \in Nat
          BY <1>2 DEF IInv, TypeOK, ServerTypeOK
        <5> QED
          BY <3>1, <5>1, <5>2
      <4>3. 0 \in R
        BY <4>1, <4>2 DEF Poll!Reported, Poll!Watched
      <4>4. s = Min(R)
        BY <2>4, <3>2 DEF PollReturns, Poll!PollCall, Poll!Min, Min
      <4> HIDE DEF R
      <4>5. s <= 0 /\ s \in Nat
        BY <3>3, <3>4, <4>3, <4>4, LowestIsMember
      <4> QED
        BY <4>5 DEF Poll!Stdin
    <3> QED
      BY <3>4, <3>5, <3>6 DEF Poll!Reported
  <2>5. CASE Server
    <3>1. backlog # <<>> /\ FreeSockets = {} /\ outbox = <<>>
      BY <1>2 DEF AtLimit
    <3>2. ASSUME NEW s \in Sockets, Serve(s)
          PROVE  FALSE
      <4>1. PollReturns(s)
        BY <3>2 DEF Serve, ServeConnect, ServeMessage, ServeMulticast, ServeList, ServeExit,
             ServeEof, Takes
      <4>2. s \notin {MainSocket, Poll!Stdin}
        BY SocketsAssumption DEF Poll!Stdin
      <4> QED
        BY <2>4, <4>1, <4>2
    <3>3. CASE AcceptFails
      BY <1>2, <2>1, <3>1, <3>3 DEF AcceptFails, netVars, serverVars
    <3>4. ASSUME NEW s, RecvFails(s)
          PROVE  AtLimit' /\ UNCHANGED <<taken, down, owner>>
      BY <1>2, <2>1, <3>1, <3>4 DEF RecvFails, netVars
    <3> QED
      BY <2>5, <3>1, <3>2, <3>3, <3>4 DEF Server, ServerStep, Accept, SendNext, AckExit
  <2> QED
    BY <1>2, <2>2, <2>3, <2>5 DEF Next
<1> QED
  BY <1>1, <1>2, IInvHolds, PTL DEF Spec, LimitEndsService
=============================================================================
