------------------------- MODULE ChatDeliveryProofs ------------------------
(***************************************************************************)
(* Proofs about what the server of ChatSystem sends: to whom, in which     *)
(* order and how often.  The invariants follow a PDU from the request that *)
(* caused it through the outbox to the stream of a client.                 *)
(***************************************************************************)
EXTENDS ChatProofs

Verdict(s) == {<<Sends(s, Pdu(Accepted))>>, <<Sends(s, Pdu(Refused))>>}

(* A client with a handle in the table was accepted: it has heard so, is   *)
(* about to, or has left without listening.                                *)
TableInv ==
  status = "running" =>
    \A s \in Table!Occupied :
      LET c == owner[s] IN
      /\ HandleOf[c] \notin LongHandles /\ taken[c] >= 1
      /\ down[c] # <<>> => down[c][1].flag = Accepted
      /\ down[c] = <<>> => link[c] = "rst" \/ outbox = <<Sends(s, Pdu(Accepted))>>

(* Nothing is sent to a client before its first request is handled, and    *)
(* then, if it registers, first of all the verdict.                        *)
VerdictInv ==
  \A c \in Clients :
    /\ taken[c] = 0 => down[c] = <<>>
    /\ HandleOf[c] \notin LongHandles /\ taken[c] > 0 /\ down[c] = <<>> =>
         \/ link[c] = "rst"
         \/ \E s \in OpenSockets : owner[s] = c /\ outbox \in Verdict(s)

(* What m, on its way to c, has to do with the request it came from.       *)
Addressed(m, c) ==
  /\ m.id \in 1 .. taken[m.by]
  /\ IF IsError(m) THEN m.by = c
     ELSE /\ IF down[c] = <<>> THEN link[c] = "rst" ELSE down[c][1].flag = Accepted
          /\ \E k \in DOMAIN up[m.by][m.id].dests : up[m.by][m.id].dests[k] = HandleOf[c]

OutboxInv ==
  \A i \in DOMAIN outbox :
    LET s == outbox[i].to
        m == outbox[i].pdu
    IN
    s \in OpenSockets =>
      /\ taken[owner[s]] >= 1
      /\ m.by # NoClient => Addressed(m, owner[s])

StreamsInv ==
  \A c \in Clients : \A i \in DOMAIN down[c] :
    down[c][i].by # NoClient => Addressed(down[c][i], c)

MailInv == TableInv /\ VerdictInv /\ OutboxInv /\ StreamsInv

----------------------------------------------------------------------------
(* How the streams grow                                                    *)

(* A PDU reaches the stream of c only from the head of the outbox, over a  *)
(* connection that is open and not reset.                                  *)
Delivers(c) ==
  /\ outbox # <<>> /\ Head(outbox) = outbox[1] /\ outbox[1] \in Mail
  /\ 1 \in DOMAIN outbox
  /\ outbox[1].to \in OpenSockets /\ owner[outbox[1].to] = c
  /\ link[c] # "rst"
  /\ down' = [down EXCEPT ![c] = Append(@, outbox[1].pdu)]
  /\ outbox' = Tail(outbox)

(* Nothing but a delivery from the outbox changes what a client has been   *)
(* sent.                                                                   *)
LEMMA StreamsGrow ==
  ASSUME IInv, Next
  PROVE  down' = down \/ \E c \in Clients : Delivers(c)
<1>1. ASSUME NEW c \in Clients, Client(c)
      PROVE  down' = down
  BY <1>1, ClientForms DEF ConnectToServer, Moves, Puts, Breaks
<1>2. CASE Environment
  BY <1>2 DEF Environment, StdinHangsUp, LateReset, netVars
<1>3. outbox \in Seq(Mail)
  BY DEF IInv, TypeOK, ServerTypeOK, Mail
<1>4. outbox # <<>> => Head(outbox) = outbox[1] /\ outbox[1] \in Mail /\ 1 \in DOMAIN outbox
  BY <1>3
<1>5. \A s \in OpenSockets : owner[s] \in Clients
  BY DEF OpenSockets, IInv, TypeOK, ServerTypeOK
<1>6. CASE SendNext
  <2> DEFINE s == Head(outbox).to
             m == Head(outbox).pdu
  <2>1. outbox # <<>> /\ outbox' = Tail(outbox)
    BY <1>6 DEF SendNext
  <2>2. \/ down' = down
        \/ /\ s \in OpenSockets /\ link[owner[s]] # "rst"
           /\ down' = [down EXCEPT ![owner[s]] = Append(@, m)]
    BY <1>6 DEF SendNext
  <2> QED
    BY <1>4, <1>5, <2>1, <2>2 DEF Delivers
<1>7. ASSUME NEW s \in Sockets, HangsUp(s)
      PROVE  down' = down \/ \E c \in Clients : Delivers(c)
  <2> SUFFICES ASSUME down' # down PROVE Delivers(owner[s]) /\ owner[s] \in Clients
    OBVIOUS
  <2>1. /\ outbox = <<Sends(s, Pdu(ExitAck))>> /\ link[owner[s]] # "rst" /\ outbox' = <<>>
        /\ down' = [down EXCEPT ![owner[s]] = Append(@, Pdu(ExitAck))]
        /\ s \in OpenSockets
    BY <1>7 DEF HangsUp
  <2>2. outbox[1].to = s /\ outbox[1].pdu = Pdu(ExitAck) /\ outbox # <<>> /\ Tail(outbox) = <<>>
    BY <2>1 DEF Sends
  <2> QED
    BY <1>4, <1>5, <2>1, <2>2 DEF Delivers
<1>8. CASE Server
  BY <1>6, <1>7, <1>8, ServerForms DEF Accept, Answers, Dies, netVars, vars
<1> QED
  BY <1>1, <1>2, <1>8 DEF Next

(* Requests and what is taken of them only grow, and every stream to a     *)
(* client keeps what it holds.                                             *)
LEMMA HistoryKept ==
  ASSUME IInv, Next, NEW c \in Clients
  PROVE  /\ taken[c] \in Nat /\ taken'[c] \in Nat /\ taken[c] <= taken'[c]
         /\ taken[c] <= Len(up[c])
         /\ \A i \in 1 .. taken[c] : up'[c][i] = up[c][i]
         /\ \A i \in DOMAIN down[c] : i \in DOMAIN down'[c] /\ down'[c][i] = down[c][i]
         /\ down[c] # <<>> => down'[c] # <<>>
<1>1. /\ taken[c] \in Nat /\ taken'[c] \in Nat /\ taken[c] <= Len(up[c])
      /\ up[c] \in Seq(Pdus) /\ down[c] \in Seq(Pdus) /\ Len(up[c]) \in Nat
  BY NetTypeKept DEF IInv, TypeOK, NetTypeOK, RequestsInv
<1>2. taken[c] <= taken'[c]
  <2>1. ASSUME NEW d \in Clients, Client(d)
        PROVE  taken' = taken
    BY <2>1, ClientForms DEF ConnectToServer, Moves, Puts, Breaks
  <2>2. ASSUME Environment
        PROVE  taken' = taken
    BY <2>2 DEF Environment, StdinHangsUp, LateReset, netVars
  <2>3. CASE Server
    <3>1. ASSUME NEW d \in Clients, taken' = [taken EXCEPT ![d] = @ + 1]
          PROVE  taken[c] <= taken'[c]
      BY <1>1, <3>1 DEF IInv, TypeOK, NetTypeOK
    <3> QED
      BY <1>1, <2>3, <3>1, ServerFrame
  <2> QED
    BY <1>1, <2>1, <2>2, <2>3 DEF Next
<1>3. \/ up'[c] = up[c]
      \/ \E m \in Pdus : up'[c] = Append(up[c], m)
      \/ \A i \in 1 .. taken[c] : up'[c][i] = up[c][i]
  <2>1. ASSUME NEW d \in Clients, Client(d)
        PROVE  \/ up'[c] = up[c]
               \/ \E m \in Pdus : up'[c] = Append(up[c], m)
               \/ \A i \in 1 .. taken[c] : up'[c][i] = up[c][i]
    <3>1. \/ up' = up \/ \E m \in Pdus : up' = [up EXCEPT ![d] = Append(@, m)]
          \/ \E rest : Breaks(d, rest)
      BY <2>1, ClientForms DEF ConnectToServer, Moves, Puts, Breaks
    <3>2. ASSUME NEW rest, Breaks(d, rest)
          PROVE  \A i \in 1 .. taken[c] : up'[c][i] = up[c][i]
      BY <3>2 DEF Breaks, IInv, TypeOK, NetTypeOK
    <3> QED
      BY <3>1, <3>2 DEF IInv, TypeOK, NetTypeOK
  <2>2. ASSUME Environment
        PROVE  up' = up
    BY <2>2 DEF Environment, StdinHangsUp, LateReset, netVars
  <2>3. ASSUME Server
        PROVE  up' = up
    BY <2>3, ServerFrame
  <2> QED
    BY <2>1, <2>2, <2>3 DEF Next
<1>4. \A i \in 1 .. taken[c] : up'[c][i] = up[c][i]
  <2>1. ASSUME NEW m \in Pdus, up'[c] = Append(up[c], m)
        PROVE  \A i \in 1 .. Len(up[c]) : up'[c][i] = up[c][i]
    BY <1>1, <2>1, AppendProperties
  <2> QED
    BY <1>1, <1>3, <2>1
<1>5. down'[c] = down[c] \/ \E m \in Pdus : down'[c] = Append(down[c], m)
  <2>1. ASSUME NEW d \in Clients, Delivers(d)
        PROVE  down'[c] = down[c] \/ \E m \in Pdus : down'[c] = Append(down[c], m)
    <3>1. outbox[1].pdu \in Pdus
      BY <2>1 DEF Delivers, Mail
    <3> QED
      BY <2>1, <3>1 DEF Delivers, IInv, TypeOK, NetTypeOK
  <2> QED
    BY <2>1, StreamsGrow
<1>6. ASSUME NEW m \in Pdus, down'[c] = Append(down[c], m)
      PROVE  /\ down'[c] # <<>>
             /\ \A i \in DOMAIN down[c] : i \in DOMAIN down'[c] /\ down'[c][i] = down[c][i]
  <2>1. /\ DOMAIN down'[c] = 1 .. Len(down[c]) + 1 /\ DOMAIN down[c] = 1 .. Len(down[c])
        /\ Len(down[c]) \in Nat /\ Len(down'[c]) = Len(down[c]) + 1
        /\ \A i \in 1 .. Len(down[c]) : down'[c][i] = down[c][i]
    BY <1>1, <1>6, AppendProperties
  <2>2. Len(<<>>) = 0
    OBVIOUS
  <2> QED
    BY <2>1, <2>2
<1> QED
  BY <1>1, <1>2, <1>4, <1>5, <1>6

(* What is addressed well stays so, whatever the system does meanwhile.    *)
LEMMA AddressedStays ==
  ASSUME IInv, Next, NEW c \in Clients, NEW m \in Pdus, m.by \in Clients, Addressed(m, c)
  PROVE  Addressed(m, c)'
<1>1. m.id \in 1 .. taken[m.by] /\ m.id \in 1 .. taken'[m.by]
      /\ up'[m.by][m.id] = up[m.by][m.id]
  BY HistoryKept DEF Addressed
<1>2. CASE down[c] # <<>>
  <2>1. 1 \in DOMAIN down[c]
    BY <1>2 DEF IInv, TypeOK, NetTypeOK
  <2>2. down'[c] # <<>> /\ down'[c][1] = down[c][1]
    BY <1>2, <2>1, HistoryKept
  <2> QED
    BY <1>1, <1>2, <2>2 DEF Addressed, IsError
<1>3. CASE down[c] = <<>> /\ link[c] = "rst"
  <2>1. link'[c] = "rst"
    BY <1>3, CausesLast
  <2>2. down'[c] = down[c]
    BY <1>3, StreamsGrow DEF Delivers, IInv, TypeOK, NetTypeOK
  <2> QED
    BY <1>1, <1>3, <2>1, <2>2 DEF Addressed, IsError
<1>4. CASE IsError(m)
  BY <1>1, <1>4 DEF Addressed, IsError
<1> QED
  BY <1>2, <1>3, <1>4 DEF Addressed

----------------------------------------------------------------------------
(* What the handlers put in the outbox                                     *)

(* Flags 1, 8 and 10 are answered to the client that asked.                *)
Replies(s) ==
  \A i \in DOMAIN outbox' : outbox'[i].to = s /\ outbox'[i].pdu.by = NoClient

(* Flags 5 and 6: each PDU has the sender and the place of the request and *)
(* goes to a socket found for a handle it names, or is the error that goes *)
(* back.                                                                   *)
Relays(s) ==
  LET c == owner[s]
      req == NextRequest(c)
  IN
  /\ req.flag \in {Message, Multicast}
  /\ \A i \in DOMAIN outbox' :
       LET m == outbox'[i].pdu IN
       /\ m.by = c /\ m.id = taken[c] + 1
       /\ IF IsError(m) THEN outbox'[i].to = s /\ req.flag = Message
          ELSE \E k \in DOMAIN req.dests :
                 /\ outbox'[i].to = Table!FindSocket(req.dests[k])
                 /\ req.flag = Multicast => k = i
  /\ req.flag = Message =>
       /\ \/ Len(outbox') = 1
          \/ Len(outbox') = Len(ChunkFlags[req.text])
       /\ ChunkFlags[req.text] = <<>> =>
            Len(outbox') = 1 /\ outbox'[1].to \in OpenSockets

(* The answers to flags 1 and 8 go back to the client that asked.          *)
LEMMA ConnectReplies ==
  ASSUME IInv, NEW s \in Sockets, ServeConnect(s) \/ ServeExit(s), proc' = proc
  PROVE  Replies(s)
<1>1. \A f \in 0 .. 255 : Sends(s, Pdu(f)).to = s /\ Sends(s, Pdu(f)).pdu.by = NoClient
  BY BlankPdu DEF Sends
<1>2. \E f \in 0 .. 255 : outbox' = <<Sends(s, Pdu(f))>>
  BY FlagsAreBytes DEF ServeConnect, ServeExit
<1> QED
  <2>1. PICK f \in 0 .. 255 : outbox' = <<Sends(s, Pdu(f))>>
    BY <1>2
  <2>2. \A i \in DOMAIN outbox' : outbox'[i] = Sends(s, Pdu(f))
    BY <2>1
  <2> QED
    BY <1>1, <2>2 DEF Replies

(* So does the list that answers flag 10.                                  *)
LEMMA ListReplies ==
  ASSUME IInv, NEW s \in Sockets, ServeList(s)
  PROVE  Replies(s)
<1> DEFINE n == Cardinality(Table!Occupied)
           pdus == <<Count>> \o Entries \o <<Pdu(ListEnd)>>
<1>1. Table!TypeOK
  BY DEF IInv, TypeOK, ServerTypeOK
<1>2. n \in Nat /\ Len(pdus) = n + 2
      /\ pdus[1] = Count /\ pdus[n + 2] = Pdu(ListEnd)
  BY <1>1, ListPdus
<1>3. \A k \in 1 .. n : pdus[k + 1].by = NoClient
  <2> TAKE k \in 1 .. n
  <2>1. table[EntryAt(k)] \in Handles /\ pdus[k + 1] = Naming(HandleEntry, table[EntryAt(k)])
    BY <1>1, ListPdus
  <2>2. HandleEntry \in 0 .. 255
    BY FlagsAreBytes
  <2> HIDE DEF pdus
  <2> QED
    BY <2>1, <2>2, NamingPdu
<1>4. Count.by = NoClient /\ Pdu(ListEnd).by = NoClient
  BY DEF Count, Pdu
<1>5. outbox' = [i \in 1 .. Len(pdus) |-> Sends(s, pdus[i])]
  BY DEF ServeList
<1> HIDE DEF n, pdus
<1>6. \A i \in 1 .. n + 2 : i = 1 \/ i = n + 2 \/ (i - 1 \in 1 .. n /\ i = (i - 1) + 1)
  BY <1>2
<1>7. \A i \in 1 .. n + 2 : pdus[i].by = NoClient
  BY <1>2, <1>3, <1>4, <1>6
<1> QED
  BY <1>2, <1>5, <1>7 DEF Replies, Sends

(* The handler of flag 5 relays, whole or in pieces, or sends the error    *)
(* back.                                                                   *)
LEMMA MessageRelays ==
  ASSUME IInv, NEW s \in Sockets, ServeMessage(s)
  PROVE  Relays(s)
<1> DEFINE c == owner[s]
           req == NextRequest(c)
           dest == Table!FindSocket(req.dests[1])
           error == [req EXCEPT !.flag = NoSuchHandle, !.text = NoText]
           flags == ChunkFlags[req.text]
<1>1. Message \in 0 .. 255 /\ Takes(s, Message)
  BY FlagsAreBytes DEF ServeMessage
<1>2. req \in Pdus /\ status = "running" /\ c \in Clients /\ s \in OpenSockets
      /\ req.flag = Message /\ WellFormed(c, taken[c] + 1, req)
  BY <1>1, RequestTaken
<1>3. outbox' = IF dest = -1 THEN <<Sends(s, error)>>
                ELSE [i \in 1 .. Len(Relayed(req)) |-> Sends(dest, Relayed(req)[i])]
  BY DEF ServeMessage
<1> HIDE DEF req, c
<1>4. /\ req.dests \in Seq(Handles) /\ req.dests # <<>> /\ req.text \in Texts
      /\ req.by = c /\ req.id = taken[c] + 1
  BY <1>2 DEF WellFormed, Pdus
<1>5. 1 \in DOMAIN req.dests /\ req.dests[1] \in Handles
  BY <1>4
<1>6. dest = -1 \/ dest \in OpenSockets
  BY <1>2, <1>5, DestinationOf
<1>7. error.by = c /\ error.id = taken[c] + 1 /\ IsError(error)
  BY <1>2, <1>4 DEF Pdus, IsError
<1>8. \A i \in DOMAIN Relayed(req) :
        /\ Relayed(req)[i].by = c /\ Relayed(req)[i].id = taken[c] + 1
        /\ ~IsError(Relayed(req)[i])
  BY <1>2, <1>4, RelayedPdus, TextsAssumption DEF IsError
<1>9. /\ Relayed(req) \in Seq(Pdus)
      /\ flags = <<>> => Relayed(req) = <<req>>
  BY <1>2, <1>4, RelayedPdus
<1>10. Len(Relayed(req)) = 1 \/ Len(Relayed(req)) = Len(flags)
  BY <1>4, TextsAssumption DEF Relayed
<1>11. flags = <<>> => Len(Relayed(req)) = 1
  BY <1>9
<1> HIDE DEF dest, error, flags
<1>12. CASE dest = -1
  <2>1. outbox' = <<Sends(s, error)>>
    BY <1>3, <1>12
  <2>2. \A i \in DOMAIN outbox' : i = 1 /\ outbox'[i] = Sends(s, error)
    BY <2>1
  <2>3. Len(outbox') = 1 /\ outbox'[1].to = s
    BY <2>1 DEF Sends
  <2> QED
    BY <1>2, <1>7, <2>2, <2>3 DEF Relays, Sends, req, c
<1>13. CASE dest # -1
  <2>1. outbox' = [i \in 1 .. Len(Relayed(req)) |-> Sends(dest, Relayed(req)[i])]
    BY <1>3, <1>13
  <2>2. Len(Relayed(req)) \in Nat /\ DOMAIN Relayed(req) = 1 .. Len(Relayed(req))
    BY <1>9
  <2>3. /\ DOMAIN outbox' = 1 .. Len(Relayed(req)) /\ Len(outbox') = Len(Relayed(req))
        /\ \A i \in 1 .. Len(Relayed(req)) : outbox'[i] = Sends(dest, Relayed(req)[i])
    BY <2>1, <2>2
  <2>4. \A i \in DOMAIN outbox' :
          /\ outbox'[i].pdu.by = c /\ outbox'[i].pdu.id = taken[c] + 1
          /\ ~IsError(outbox'[i].pdu) /\ outbox'[i].to = dest
    BY <1>8, <2>2, <2>3 DEF Sends
  <2>5. flags = <<>> => Len(outbox') = 1 /\ outbox'[1].to \in OpenSockets
    BY <1>6, <1>11, <1>13, <2>3, <2>4
  <2>6. Message # Multicast
    BY DEF Message, Multicast
  <2> QED
    BY <1>2, <1>5, <1>10, <2>3, <2>4, <2>5, <2>6 DEF Relays, dest, flags, req, c
<1> QED
  BY <1>12, <1>13

(* The handler of flag 6 relays to each handle it finds, once for each     *)
(* time it is listed.                                                      *)
LEMMA MulticastRelays ==
  ASSUME IInv, NEW s \in Sockets, ServeMulticast(s)
  PROVE  Relays(s)
<1> DEFINE c == owner[s]
           req == NextRequest(c)
           Copy(h) == [req EXCEPT !.flag = Message, !.dests = <<h>>]
           n == Len(req.dests)
<1>1. Multicast \in 0 .. 255 /\ Takes(s, Multicast)
  BY FlagsAreBytes DEF ServeMulticast
<1>2. req \in Pdus /\ c \in Clients
      /\ req.flag = Multicast /\ WellFormed(c, taken[c] + 1, req)
  BY <1>1, RequestTaken
<1>3. outbox' = IF req.text = Empty THEN <<>>
                ELSE [i \in 1 .. n |-> Sends(Table!FindSocket(req.dests[i]), Copy(req.dests[i]))]
  BY DEF ServeMulticast
<1> HIDE DEF req, c
<1>4. /\ req.dests \in Seq(Handles) /\ req.by = c /\ req.id = taken[c] + 1
  BY <1>2 DEF WellFormed, Pdus
<1>5. \A h : Copy(h).by = c /\ Copy(h).id = taken[c] + 1 /\ ~IsError(Copy(h))
  BY <1>2, <1>4 DEF Pdus, IsError, Message, NoSuchHandle
<1>6. n \in Nat /\ DOMAIN req.dests = 1 .. n
  BY <1>4
<1> HIDE DEF n, Copy
<1>7. \A i \in DOMAIN outbox' :
        i \in 1 .. n /\ outbox'[i] = Sends(Table!FindSocket(req.dests[i]), Copy(req.dests[i]))
  BY <1>3
<1>8. Multicast # Message
  BY DEF Message, Multicast
<1> QED
  BY <1>2, <1>5, <1>6, <1>7, <1>8 DEF Relays, Sends, req, c

(* Every handler replies or relays; the reply to a registration is its     *)
(* verdict.                                                                *)
LEMMA HandlersAnswer ==
  ASSUME IInv, NEW s \in Sockets, Serve(s), Answers(s)
  PROVE  /\ Replies(s) \/ Relays(s)
         /\ NextRequest(owner[s]).flag = Connect => ServeConnect(s) /\ outbox' \in Verdict(s)
<1>1. proc' = proc /\ ~ServeEof(s)
  BY DEF Answers, ServeEof
<1>2. NextRequest(owner[s]).flag = Connect => ServeConnect(s)
  BY <1>1 DEF Serve, ServeMessage, ServeMulticast, ServeList, ServeExit, Takes,
              Connect, Message, Multicast, List, Exit
<1>3. ServeConnect(s) => outbox' \in Verdict(s)
  BY <1>1, ConnectAnswers DEF Verdict
<1> QED
  BY <1>1, <1>2, <1>3, ConnectReplies, ListReplies, MessageRelays, MulticastRelays DEF Serve

----------------------------------------------------------------------------
(* Every step keeps MailInv: one lemma for each part.                      *)

(* Steps that leave to the server and its streams what they are.           *)
Quiet == UNCHANGED <<status, tableVars, owner, outbox, taken, down>>

(* Every step of the system, by what it does to the server and to what the *)
(* server sends.                                                           *)
LEMMA StepForms ==
  ASSUME IInv, Next
  PROVE  \/ Quiet
         \/ Accept
         \/ \E s \in Sockets :
              /\ Serve(s) /\ Answers(s)
              /\ ServeConnect(s) \/ UNCHANGED <<status, tableVars>>
         \/ \E s \in Sockets : HangsUp(s)
         \/ Dies
         \/ SendNext
<1>1. ASSUME NEW c \in Clients, Client(c)
      PROVE  Quiet
  BY <1>1, ClientForms DEF ConnectToServer, Moves, Puts, Breaks, serverVars, Quiet
<1>2. ASSUME Environment
      PROVE  Quiet
  BY <1>2 DEF Environment, StdinHangsUp, LateReset, netVars, serverVars, Quiet
<1>3. UNCHANGED vars => Quiet
  BY DEF vars, netVars, serverVars, Quiet
<1> QED
  BY <1>1, <1>2, <1>3, ServerForms DEF Next

(* What has been sent stays addressed well.                                *)
LEMMA StreamsKept ==
  ASSUME IInv, MailInv, Next
  PROVE  StreamsInv'
<1>1. /\ TypeOK' /\ TypeOK
      /\ \A c \in Clients : down[c] \in Seq(Pdus) /\ down'[c] \in Seq(Pdus)
  BY NetTypeKept, ServerTypeKept DEF IInv, TypeOK, NetTypeOK
<1>2. SUFFICES ASSUME NEW c \in Clients, NEW i \in DOMAIN down'[c], NEW m \in Pdus,
                      m = down'[c][i], m.by \in Clients
               PROVE  Addressed(m, c)'
  <2>1. \A c \in Clients : \A i \in DOMAIN down'[c] :
          down'[c][i] \in Pdus /\ (down'[c][i].by # NoClient => down'[c][i].by \in Clients)
    <3> TAKE c \in Clients
    <3> TAKE i \in DOMAIN down'[c]
    <3>1. down'[c] \in Seq(Pdus)
      BY <1>1
    <3>2. down'[c][i] \in Pdus
      BY <3>1
    <3> QED
      BY <3>2 DEF Pdus
  <2> QED
    BY <2>1 DEF StreamsInv, Addressed, IsError
<1>3. CASE i \in DOMAIN down[c]
  <2>1. m = down[c][i]
    BY <1>2, <1>3, HistoryKept
  <2>2. Addressed(m, c)
    BY <1>2, <1>3, <2>1, SendersAssumption DEF MailInv, StreamsInv
  <2> QED
    BY <1>2, <2>2, AddressedStays
<1>4. CASE i \notin DOMAIN down[c]
  <2>1. Delivers(c)
    <3>1. ASSUME NEW d \in Clients, Delivers(d), d # c
          PROVE  down'[c] = down[c]
      BY <3>1 DEF Delivers, IInv, TypeOK, NetTypeOK
    <3> QED
      BY <1>2, <1>4, <3>1, StreamsGrow
  <2>2. down'[c] = Append(down[c], outbox[1].pdu) /\ outbox[1].pdu \in Pdus
    BY <2>1 DEF Delivers, Mail, IInv, TypeOK, NetTypeOK
  <2>3. i = Len(down[c]) + 1 /\ m = outbox[1].pdu
    BY <1>1, <1>2, <1>4, <2>2, AppendProperties
  <2>4. Addressed(m, c)
    BY <1>2, <2>1, <2>3, SendersAssumption DEF Delivers, MailInv, OutboxInv
  <2> QED
    BY <1>2, <2>4, AddressedStays
<1> QED
  BY <1>3, <1>4

(* Where a message goes while nothing is under way: to a client that was   *)
(* accepted.                                                               *)
LEMMA FoundIsAccepted ==
  ASSUME IInv, MailInv, status = "running", outbox = <<>>, NEW h \in Handles,
         Table!FindSocket(h) # -1
  PROVE  LET t == Table!FindSocket(h)
             d == owner[t]
         IN
         /\ t \in Table!Occupied /\ t \in OpenSockets /\ d \in Clients
         /\ h = HandleOf[d] /\ taken[d] >= 1
         /\ IF down[d] = <<>> THEN link[d] = "rst" ELSE down[d][1].flag = Accepted
<1> DEFINE t == Table!FindSocket(h)
           d == owner[t]
<1>1. t \in Table!Occupied /\ t \in OpenSockets /\ h = HandleOf[d]
  BY DestinationOf
<1>2. d \in Clients
  BY <1>1 DEF OpenSockets, IInv, TypeOK, ServerTypeOK
<1> HIDE DEF t
<1>3. taken[d] >= 1 /\ IF down[d] = <<>> THEN link[d] = "rst" ELSE down[d][1].flag = Accepted
  BY <1>1 DEF MailInv, TableInv
<1> QED
  BY <1>1, <1>2, <1>3 DEF t

(* What a handler puts in the outbox is addressed well, and stays so while *)
(* it waits.                                                               *)
LEMMA OutboxKept ==
  ASSUME IInv, MailInv, Next
  PROVE  OutboxInv'
<1>1. /\ outbox \in Seq(Mail) /\ outbox' \in Seq(Mail)
      /\ \A s \in OpenSockets : owner[s] \in Clients
      /\ \A s \in OpenSockets' : owner'[s] \in Clients
  BY NetTypeKept, ServerTypeKept DEF IInv, TypeOK, ServerTypeOK, OpenSockets, Mail
<1>2. ASSUME outbox' = <<>>
      PROVE  OutboxInv'
  BY <1>2 DEF OutboxInv
<1>3. SUFFICES ASSUME NEW i \in DOMAIN outbox', NEW s \in OpenSockets', NEW c \in Clients,
                      NEW m \in Pdus, s = outbox'[i].to, m = outbox'[i].pdu, c = owner'[s]
               PROVE  taken'[c] >= 1 /\ (m.by # NoClient => Addressed(m, c)')
  <2>1. \A i \in DOMAIN outbox' : outbox'[i].pdu \in Pdus
    <3> TAKE i \in DOMAIN outbox'
    <3>1. outbox'[i] \in Mail
      BY <1>1
    <3> QED
      BY <3>1 DEF Mail
  <2> QED
    BY <1>1, <2>1 DEF OutboxInv, Addressed, IsError
<1>4. m.by # NoClient => m.by \in Clients
  BY DEF Pdus
<1>5. ASSUME NEW k \in DOMAIN outbox, outbox'[i] = outbox[k], owner' = owner
      PROVE  taken'[c] >= 1 /\ (m.by # NoClient => Addressed(m, c)')
  <2>1. s = outbox[k].to /\ m = outbox[k].pdu /\ c = owner[s] /\ s \in OpenSockets
    BY <1>3, <1>5 DEF OpenSockets
  <2>2. taken[c] >= 1 /\ (m.by # NoClient => Addressed(m, c))
    BY <2>1 DEF MailInv, OutboxInv
  <2> QED
    BY <1>4, <2>2, AddressedStays, HistoryKept
<1>6. CASE Quiet
  BY <1>3, <1>5, <1>6 DEF Quiet
<1>7. CASE SendNext
  <2>1. outbox # <<>> /\ outbox' = Tail(outbox) /\ owner' = owner
    BY <1>7 DEF SendNext
  <2>2. i + 1 \in DOMAIN outbox /\ outbox'[i] = outbox[i + 1]
    BY <1>1, <1>3, <2>1
  <2> QED
    BY <1>5, <2>1, <2>2
<1>8. CASE Accept \/ Dies \/ \E t \in Sockets : HangsUp(t)
  BY <1>2, <1>3, <1>8 DEF Accept, PollReturns, Dies, HangsUp
<1>9. ASSUME NEW t \in Sockets, Serve(t), Answers(t)
      PROVE  taken'[c] >= 1 /\ (m.by # NoClient => Addressed(m, c)')
  <2> DEFINE b == owner[t]
             req == NextRequest(b)
  <2>1. /\ owner' = owner /\ b \in Clients /\ status = "running" /\ outbox = <<>>
        /\ taken[b] \in Nat /\ taken[b] + 1 \in DOMAIN up[b] /\ up' = up /\ down' = down
        /\ link' = link
        /\ req = up[b][taken[b] + 1]
        /\ taken' = [taken EXCEPT ![b] = @ + 1] /\ taken'[b] = taken[b] + 1
    BY <1>1, <1>9 DEF Answers, Unread, NextRequest, IInv, TypeOK, NetTypeOK
  <2>2. s \in OpenSockets /\ c = owner[s]
    BY <1>3, <2>1 DEF OpenSockets
  <2>3. CASE Replies(t)
    <3>1. s = t /\ c = b /\ m.by = NoClient
      BY <1>3, <2>2, <2>3 DEF Replies
    <3> QED
      BY <2>1, <3>1
  <2>4. CASE Relays(t)
    <3> HIDE DEF b, req
    <3>1. m.by = b /\ m.id = taken[b] + 1 /\ up'[m.by][m.id] = req
      BY <1>3, <2>1, <2>4 DEF Relays, b, req
    <3>2. CASE IsError(m)
      <4>1. s = t /\ c = b
        BY <1>3, <2>2, <2>4, <3>2 DEF Relays, b
      <4> QED
        BY <2>1, <3>1, <3>2, <4>1 DEF Addressed, IsError
    <3>3. CASE ~IsError(m)
      <4>1. PICK k \in DOMAIN req.dests : s = Table!FindSocket(req.dests[k])
        BY <1>3, <2>4, <3>3 DEF Relays, b, req
      <4>2. req.dests[k] \in Handles
        <5>1. req \in Pdus
          BY <2>1 DEF IInv, TypeOK, NetTypeOK
        <5> QED
          BY <4>1, <5>1 DEF Pdus
      <4>3. s # -1
        BY <2>2, SocketsAssumption DEF OpenSockets
      <4>4. req.dests[k] = HandleOf[c] /\ taken[c] >= 1
            /\ IF down[c] = <<>> THEN link[c] = "rst" ELSE down[c][1].flag = Accepted
        BY <2>1, <2>2, <4>1, <4>2, <4>3, FoundIsAccepted
      <4>5. taken'[c] >= 1
        BY <4>4, HistoryKept
      <4> QED
        BY <2>1, <3>1, <3>3, <4>1, <4>4, <4>5 DEF Addressed, IsError
    <3> QED
      BY <3>2, <3>3
  <2> QED
    BY <1>9, <2>3, <2>4, HandlersAnswer
<1> QED
  BY <1>6, <1>7, <1>8, <1>9, StepForms

(* A verdict in the outbox waits there, unless it is delivered or its      *)
(* client is gone.                                                         *)
LEMMA VerdictWaits ==
  ASSUME IInv, Next, NEW s \in OpenSockets, NEW c \in Clients, c = owner[s],
         NEW f \in {Accepted, Refused}, outbox = <<Sends(s, Pdu(f))>>,
         link[c] # "rst"
  PROVE  \/ outbox' = outbox /\ owner' = owner /\ down' = down
         \/ /\ down'[c] = Append(down[c], Pdu(f)) /\ down'[c] # <<>>
            /\ outbox' = <<>> /\ owner' = owner
<1>1. outbox # <<>> /\ outbox[1].to = s /\ outbox[1].pdu = Pdu(f) /\ Head(outbox) = outbox[1]
      /\ outbox[1].pdu # Pdu(ExitAck) /\ Tail(outbox) = <<>>
  BY DEF Sends, Pdu, ExitAck, Accepted, Refused
<1>2. CASE SendNext
  <2>1. down' = [down EXCEPT ![c] = Append(@, outbox[1].pdu)] /\ outbox' = <<>> /\ owner' = owner
    BY <1>1, <1>2 DEF SendNext
  <2>2. down'[c] = Append(down[c], Pdu(f)) /\ down[c] \in Seq(Pdus)
    BY <1>1, <2>1 DEF IInv, TypeOK, NetTypeOK
  <2>3. Pdu(f) \in Pdus
    BY FlagsAreBytes, BlankPdu
  <2>4. down'[c] # <<>>
    BY <2>2, <2>3, AppendProperties
  <2> QED
    BY <2>1, <2>2, <2>4
<1>3. ASSUME NEW t \in Sockets, outbox = <<Sends(t, Pdu(ExitAck))>>
      PROVE  FALSE
  BY <1>1, <1>3 DEF Sends
<1> QED
  BY <1>1, <1>2, <1>3, StepForms DEF Quiet, Accept, PollReturns, Answers, HangsUp, Dies

(* The verdict stays first, whatever else the server sends.                *)
LEMMA VerdictKept ==
  ASSUME IInv, MailInv, Next
  PROVE  VerdictInv'
<1>1. \A c \in Clients :
        /\ down[c] \in Seq(Pdus) /\ taken[c] \in Nat /\ taken'[c] \in Nat
        /\ taken[c] <= taken'[c] /\ (down[c] # <<>> => down'[c] # <<>>)
        /\ (link[c] = "rst" => link'[c] = "rst")
  BY HistoryKept, CausesLast DEF IInv, TypeOK, NetTypeOK
<1>2. ASSUME NEW c \in Clients, taken'[c] = 0
      PROVE  down'[c] = <<>>
  <2>1. taken[c] = 0 /\ down[c] = <<>>
    BY <1>1, <1>2 DEF MailInv, VerdictInv
  <2>2. ~Delivers(c)
    BY <2>1 DEF Delivers, MailInv, OutboxInv
  <2>3. \A d \in Clients : Delivers(d) => d # c /\ down'[c] = down[c]
    BY <2>2 DEF Delivers, IInv, TypeOK, NetTypeOK
  <2> QED
    BY <2>1, <2>3, StreamsGrow
<1>3. ASSUME NEW c \in Clients, HandleOf[c] \notin LongHandles, taken'[c] > 0,
             down'[c] = <<>>, link'[c] # "rst"
      PROVE  \E s \in OpenSockets' : owner'[s] = c /\ outbox' \in Verdict(s)
  <2>1. down[c] = <<>> /\ link[c] # "rst"
    BY <1>1, <1>3
  <2>2. CASE taken[c] > 0
    <3>1. PICK s \in OpenSockets : owner[s] = c /\ outbox \in Verdict(s)
      BY <1>3, <2>1, <2>2 DEF MailInv, VerdictInv
    <3>2. PICK f \in {Accepted, Refused} : outbox = <<Sends(s, Pdu(f))>>
      BY <3>1 DEF Verdict
    <3>3. outbox' = outbox /\ owner' = owner
      BY <1>3, <2>1, <3>1, <3>2, VerdictWaits
    <3> QED
      BY <3>1, <3>3 DEF OpenSockets, Verdict
  <2>3. CASE taken[c] = 0
    <3>1. ASSUME taken' = taken
          PROVE  FALSE
      BY <1>3, <2>3, <3>1
    <3>2. PICK s \in Sockets : Serve(s) /\ Answers(s)
      BY <3>1, StepForms DEF Quiet, Accept, HangsUp, Dies, netVars, SendNext
    <3>3. /\ taken' = [taken EXCEPT ![owner[s]] = @ + 1] /\ s \in OpenSockets
          /\ owner' = owner /\ Unread(owner[s])
      BY <3>2 DEF Answers
    <3>4. owner[s] = c
      BY <1>3, <2>3, <3>3 DEF IInv, TypeOK, NetTypeOK
    <3>5. NextRequest(c) = up[c][1] /\ 1 \in DOMAIN up[c]
      BY <2>3, <3>3, <3>4 DEF NextRequest, Unread, IInv, TypeOK, NetTypeOK
    <3>6. NextRequest(c).flag = Connect
      BY <1>3, <3>5 DEF IInv, RequestsInv, WellFormed
    <3>7. outbox' \in Verdict(s)
      BY <3>2, <3>4, <3>6, HandlersAnswer
    <3> QED
      BY <3>3, <3>4, <3>7 DEF OpenSockets
  <2> QED
    BY <1>1, <2>2, <2>3
<1> QED
  BY <1>2, <1>3 DEF VerdictInv, Verdict

(* A client enters the table together with its acceptance in the outbox.   *)
LEMMA TableKept ==
  ASSUME IInv, MailInv, Next
  PROVE  TableInv'
<1> SUFFICES ASSUME status' = "running",
                    NEW s \in Table!Occupied', NEW c \in Clients, c = owner'[s]
             PROVE  /\ HandleOf[c] \notin LongHandles /\ taken'[c] >= 1
                    /\ down'[c] # <<>> => down'[c][1].flag = Accepted
                    /\ down'[c] = <<>> =>
                         link'[c] = "rst" \/ outbox' = <<Sends(s, Pdu(Accepted))>>
  <2>1. status' = "running" => \A s \in Table!Occupied' : owner'[s] \in Clients
    BY SocketsKept, ServerTypeKept DEF SocketsInv, OpenSockets, ServerTypeOK
  <2> QED
    BY <2>1 DEF TableInv
<1>1. /\ s \in OpenSockets' /\ s \in Sockets
      /\ down[c] \in Seq(Pdus) /\ Table!TypeOK
      /\ (link[c] = "rst" => link'[c] = "rst")
  BY SocketsKept, CausesLast DEF SocketsInv, OpenSockets, IInv, TypeOK, NetTypeOK, ServerTypeOK
<1>2. ASSUME s \in Table!Occupied, owner[s] = c, status = "running"
      PROVE  /\ HandleOf[c] \notin LongHandles /\ taken'[c] >= 1
             /\ down'[c] # <<>> => down'[c][1].flag = Accepted
             /\ down'[c] = <<>> =>
                  link'[c] = "rst" \/ outbox' = <<Sends(s, Pdu(Accepted))>>
  <2>1. /\ HandleOf[c] \notin LongHandles /\ taken[c] >= 1
        /\ down[c] # <<>> => down[c][1].flag = Accepted
        /\ down[c] = <<>> => link[c] = "rst" \/ outbox = <<Sends(s, Pdu(Accepted))>>
    BY <1>2 DEF MailInv, TableInv
  <2>2. taken'[c] >= 1
    BY <2>1, HistoryKept
  <2>3. CASE down[c] # <<>>
    <3>1. 1 \in DOMAIN down[c]
      BY <1>1, <2>3
    <3>2. down'[c][1] = down[c][1] /\ down'[c] # <<>>
      BY <2>3, <3>1, HistoryKept
    <3> QED
      BY <2>1, <2>2, <2>3, <3>2
  <2>4. CASE down[c] = <<>> /\ link[c] = "rst"
    <3>1. down'[c] = down[c]
      BY <2>4, StreamsGrow DEF Delivers, IInv, TypeOK, NetTypeOK
    <3> QED
      BY <1>1, <2>1, <2>2, <2>4, <3>1
  <2>5. CASE down[c] = <<>> /\ link[c] # "rst"
    <3>1. outbox = <<Sends(s, Pdu(Accepted))>> /\ s \in OpenSockets
      BY <1>2, <2>1, <2>5 DEF IInv, SocketsInv
    <3>2. \/ outbox' = outbox /\ down' = down
          \/ down'[c] = Append(down[c], Pdu(Accepted)) /\ down'[c] # <<>>
      BY <1>2, <2>5, <3>1, VerdictWaits
    <3>3. Append(<<>>, Pdu(Accepted))[1] = Pdu(Accepted) /\ Pdu(Accepted).flag = Accepted
      BY DEF Pdu
    <3> QED
      BY <2>1, <2>2, <2>5, <3>1, <3>2, <3>3
  <2> QED
    BY <2>3, <2>4, <2>5
<1>3. ASSUME s \notin Table!Occupied, NEW b \in BOOLEAN, ServeConnect(s), Answers(s),
             outbox' = <<Sends(s, Pdu(IF b THEN Accepted ELSE Refused))>>, b
      PROVE  /\ HandleOf[c] \notin LongHandles /\ taken'[c] >= 1
             /\ down'[c] = <<>> /\ outbox' = <<Sends(s, Pdu(Accepted))>>
  <2>1. Takes(s, Connect) /\ Connect \in 0 .. 255 /\ owner' = owner /\ down' = down
    BY <1>3, FlagsAreBytes DEF ServeConnect
  <2> DEFINE req == NextRequest(c)
  <2>2. owner[s] = c /\ s \in Sockets
    BY <1>1, <2>1
  <2>3. /\ req.flag = Connect /\ WellFormed(c, taken[c] + 1, req)
        /\ taken' = [taken EXCEPT ![c] = @ + 1] /\ taken[c] \in Nat
    BY <2>1, <2>2, RequestTaken
  <2> HIDE DEF req
  <2>4. taken[c] + 1 = 1 /\ HandleOf[c] \notin LongHandles
    BY <2>3 DEF WellFormed
  <2>5. taken[c] = 0 /\ taken'[c] = 1
    BY <2>3, <2>4 DEF IInv, TypeOK, NetTypeOK
  <2> QED
    BY <1>3, <2>1, <2>4, <2>5 DEF MailInv, VerdictInv
<1>4. ASSUME UNCHANGED <<capacity, table>>, status = "running",
             owner' = owner \/ Accept
      PROVE  s \in Table!Occupied /\ owner[s] = c
  <2>1. s \in Table!Occupied /\ s \in OpenSockets
    BY <1>4 DEF Table!Occupied, Table!Slots, IInv, SocketsInv
  <2> QED
    BY <1>4, <2>1, AcceptOpens
<1>5. ASSUME NEW t \in Sockets, HangsUp(t)
      PROVE  s \in Table!Occupied /\ owner[s] = c /\ status = "running"
  <2>1. Table!RemoveHandle(t) /\ status = "running"
    BY <1>5 DEF HangsUp, Disconnect
  <2>2. s \in Table!Occupied
    BY <1>1, <2>1, RemoveHandleDoes
  <2> QED
    BY <1>1, <1>5, <2>1, <2>2, HangUpCloses
<1>6. ASSUME NEW t \in Sockets, Answers(t), ServeConnect(t)
      PROVE  \/ s \in Table!Occupied /\ owner[s] = c /\ status = "running"
             \/ /\ s = t /\ s \notin Table!Occupied
                /\ \E b \in BOOLEAN :
                     b /\ outbox' = <<Sends(t, Pdu(IF b THEN Accepted ELSE Refused))>>
  <2>1. owner' = owner /\ status = "running"
    BY <1>6 DEF Answers
  <2>2. PICK b \in BOOLEAN : Table!AddHandle(t, NextRequest(owner[t]).dests[1], b)
                             /\ outbox' = <<Sends(t, Pdu(IF b THEN Accepted ELSE Refused))>>
    BY <1>6 DEF ServeConnect
  <2>3. NextRequest(owner[t]).dests[1] \in Handles
    BY <1>6, ConnectNamesItself
  <2>4. \/ Table!Occupied' = Table!Occupied
        \/ b /\ Table!Occupied' = Table!Occupied \cup {t}
    BY <1>1, <2>2, <2>3, AddHandleDoes
  <2> QED
    BY <2>1, <2>2, <2>4
<1>7. CASE Quiet \/ Accept \/ SendNext
  BY <1>2, <1>4, <1>7 DEF Quiet, tableVars, Accept, PollReturns, SendNext
<1>8. ASSUME NEW t \in Sockets, Serve(t), Answers(t),
             ServeConnect(t) \/ UNCHANGED <<status, tableVars>>
      PROVE  /\ HandleOf[c] \notin LongHandles /\ taken'[c] >= 1
             /\ down'[c] # <<>> => down'[c][1].flag = Accepted
             /\ down'[c] = <<>> =>
                  link'[c] = "rst" \/ outbox' = <<Sends(s, Pdu(Accepted))>>
  <2>1. CASE ServeConnect(t)
    BY <1>2, <1>3, <1>6, <1>8, <2>1
  <2>2. CASE UNCHANGED <<status, tableVars>>
    BY <1>2, <1>4, <1>8, <2>2 DEF Answers, tableVars
  <2> QED
    BY <1>8, <2>1, <2>2
<1> QED
  BY <1>2, <1>5, <1>7, <1>8, StepForms DEF Dies

(* Nothing is lost while nothing happens.                                  *)
LEMMA MailStutters == MailInv /\ UNCHANGED vars => MailInv'
<1> SUFFICES ASSUME MailInv, UNCHANGED vars PROVE MailInv'
  OBVIOUS
<1> USE DEF MailInv, vars, netVars, serverVars, tableVars, OpenSockets
<1>1. TableInv' /\ VerdictInv'
  BY DEF TableInv, VerdictInv, Verdict, Table!Occupied, Table!Slots
<1>2. OutboxInv' /\ StreamsInv'
  BY DEF OutboxInv, StreamsInv, Addressed, IsError
<1> QED
  BY <1>1, <1>2

(* At the start there is no mail.                                          *)
LEMMA MailInitially == Init => MailInv
<1> SUFFICES ASSUME Init PROVE MailInv
  OBVIOUS
<1>1. /\ Table!Occupied = {} /\ outbox = <<>>
      /\ \A c \in Clients : down[c] = <<>> /\ taken[c] = 0
  BY DEF Init, NetInit, ServerInit, Table!Init, Table!Occupied, Table!Slots
<1> QED
  BY <1>1 DEF MailInv, TableInv, VerdictInv, OutboxInv, StreamsInv

(* MailInv is inductive, with IInv.                                        *)
THEOREM MailInvHolds == Spec => []MailInv
<1>1. IInv /\ MailInv /\ [Next]_vars => MailInv'
  BY TableKept, VerdictKept, OutboxKept, StreamsKept, MailStutters DEF MailInv
<1> QED
  BY <1>1, MailInitially, IInvHolds, PTL DEF Spec

(* Whatever of a message leaves the server reaches a client it named and   *)
(* that was accepted, or its sender as an error: FindSocket, the table and *)
(* the descriptors agree until the PDU is sent.                            *)
THEOREM MessagesStayAddressed == Spec => []MessagesReachTheirAddressee
<1>1. IInv /\ MailInv => MessagesReachTheirAddressee
  <2> SUFFICES ASSUME IInv, MailInv, NEW c \in Clients, NEW i \in DOMAIN down[c],
                      down[c][i].by # NoClient
               PROVE  LET m == down[c][i]
                          named == up[m.by][m.id].dests
                      IN IF IsError(m) THEN m.by = c
                         ELSE /\ down[c][1].flag = Accepted
                              /\ \E k \in DOMAIN named : named[k] = HandleOf[c]
    BY DEF MessagesReachTheirAddressee
  <2>1. Addressed(down[c][i], c)
    BY DEF MailInv, StreamsInv
  <2>2. down[c] # <<>>
    OBVIOUS
  <2> QED
    BY <2>1, <2>2 DEF Addressed
<1> QED
  BY <1>1, IInvHolds, MailInvHolds, PTL

(* A client that registers hears Accepted or Refused before anything else: *)
(* handlers run one at a time and their PDUs leave in order.               *)
THEOREM VerdictComesFirst == Spec => []VerdictFirst
<1>1. Init => VerdictFirst
  BY DEF Init, NetInit, VerdictFirst
<1>2. ASSUME IInv, MailInv, VerdictFirst, Next
      PROVE  VerdictFirst'
  <2> SUFFICES ASSUME NEW c \in Clients, HandleOf[c] \notin LongHandles, down'[c] # <<>>
               PROVE  down'[c][1].flag \in {Accepted, Refused}
    BY DEF VerdictFirst
  <2>1. down[c] \in Seq(Pdus) /\ taken[c] \in Nat
    BY <1>2 DEF IInv, TypeOK, NetTypeOK
  <2>2. CASE down[c] # <<>>
    <3>1. 1 \in DOMAIN down[c]
      BY <2>1, <2>2
    <3>2. down'[c][1] = down[c][1]
      BY <1>2, <3>1, HistoryKept
    <3> QED
      BY <1>2, <2>2, <3>2 DEF VerdictFirst
  <2>3. CASE down[c] = <<>>
    <3>1. Delivers(c)
      <4>1. ASSUME NEW d \in Clients, Delivers(d), d # c
            PROVE  down'[c] = down[c]
        BY <1>2, <4>1 DEF Delivers, IInv, TypeOK, NetTypeOK
      <4> QED
        BY <1>2, <2>3, <4>1, StreamsGrow
    <3>2. taken[c] > 0
      BY <1>2, <2>1, <3>1 DEF Delivers, MailInv, OutboxInv
    <3>3. PICK s \in OpenSockets : owner[s] = c /\ outbox \in Verdict(s)
      BY <1>2, <2>3, <3>1, <3>2 DEF Delivers, MailInv, VerdictInv
    <3>4. PICK f \in {Accepted, Refused} : outbox[1].pdu = Pdu(f)
      BY <3>3 DEF Verdict, Sends
    <3>5. down'[c] = Append(<<>>, Pdu(f))
      BY <1>2, <2>3, <3>1, <3>4 DEF Delivers, IInv, TypeOK, NetTypeOK
    <3>6. Append(<<>>, Pdu(f))[1] = Pdu(f) /\ Pdu(f).flag = f
      BY DEF Pdu
    <3> QED
      BY <3>5, <3>6
  <2> QED
    BY <2>2, <2>3
<1>3. VerdictFirst /\ UNCHANGED vars => VerdictFirst'
  BY DEF VerdictFirst, vars, netVars
<1> QED
  BY <1>1, <1>2, <1>3, IInvHolds, MailInvHolds, PTL DEF Spec

----------------------------------------------------------------------------
(* Order                                                                   *)

(* n may follow m on the way to c.                                         *)
InOrder(m, n, c) ==
  m.by # NoClient /\ m.by = n.by =>
    \/ m.id < n.id
    \/ m.id = n.id /\ Repeats(up[m.by][m.id], HandleOf[c])

(* What is in the outbox comes from the request taken last, in the order   *)
(* in which it will leave, and after all that was sent before.             *)
OrderInv ==
  /\ \A i \in DOMAIN outbox :
       outbox[i].pdu.by # NoClient => outbox[i].pdu.id = taken[outbox[i].pdu.by]
  /\ \A i, j \in DOMAIN outbox :
       i < j /\ outbox[i].to = outbox[j].to /\ outbox[i].to \in OpenSockets =>
         InOrder(outbox[i].pdu, outbox[j].pdu, owner[outbox[i].to])
  /\ \A i \in DOMAIN outbox :
       outbox[i].to \in OpenSockets =>
         LET c == owner[outbox[i].to] IN
         \A j \in DOMAIN down[c] : InOrder(down[c][j], outbox[i].pdu, c)

(* What was in order for a client stays in order: requests do not change   *)
(* after they are sent.                                                    *)
LEMMA InOrderStays ==
  ASSUME IInv, Next, NEW m \in Pdus, NEW n \in Pdus, NEW c, InOrder(m, n, c),
         m.by # NoClient => m.id \in 1 .. taken[m.by]
  PROVE  InOrder(m, n, c)'
<1>1. m.by # NoClient => m.by \in Clients
  BY DEF Pdus
<1>2. m.by # NoClient => up'[m.by][m.id] = up[m.by][m.id]
  BY <1>1, HistoryKept
<1> QED
  BY <1>2 DEF InOrder, Repeats

(* A finite set with two elements has more than one.                       *)
LEMMA TwoOfThem ==
  ASSUME NEW S, IsFiniteSet(S), NEW x \in S, NEW y \in S, x # y
  PROVE  Cardinality(S) > 1
<1>1. Cardinality(S) \in Nat
  BY FS_CardinalityType
<1>2. Cardinality(S) # 0
  BY FS_EmptySet
<1>3. Cardinality(S) # 1
  BY FS_Singleton
<1> QED
  BY <1>1, <1>2, <1>3

(* The PDUs in the outbox and in the streams.                              *)
LEMMA MailTyped ==
  ASSUME IInv
  PROVE  /\ \A i \in DOMAIN outbox : outbox[i] \in Mail /\ outbox[i].pdu \in Pdus /\ i \in Nat \ {0}
         /\ \A c \in Clients : \A i \in DOMAIN down[c] : down[c][i] \in Pdus /\ i \in Nat \ {0}
         /\ \A s \in OpenSockets : owner[s] \in Clients
<1>1. outbox \in Seq(Mail) /\ \A c \in Clients : down[c] \in Seq(Pdus)
  BY DEF IInv, TypeOK, NetTypeOK, ServerTypeOK, Mail
<1>2. ASSUME NEW i \in DOMAIN outbox
      PROVE  outbox[i] \in Mail /\ outbox[i].pdu \in Pdus /\ i \in Nat \ {0}
  <2>1. outbox[i] \in Mail /\ i \in Nat \ {0}
    BY <1>1
  <2> QED
    BY <2>1 DEF Mail
<1>3. ASSUME NEW c \in Clients, NEW i \in DOMAIN down[c]
      PROVE  down[c][i] \in Pdus /\ i \in Nat \ {0}
  <2>1. down[c] \in Seq(Pdus)
    BY <1>1
  <2> QED
    BY <2>1
<1>4. \A s \in OpenSockets : owner[s] \in Clients
  BY DEF OpenSockets, IInv, TypeOK, ServerTypeOK
<1> QED
  BY <1>2, <1>3, <1>4

(* The same after a step.                                                  *)
LEMMA MailTypedNext ==
  ASSUME IInv, Next
  PROVE  /\ \A i \in DOMAIN outbox' :
              outbox'[i] \in Mail /\ outbox'[i].pdu \in Pdus /\ i \in Nat \ {0}
         /\ \A c \in Clients : \A i \in DOMAIN down'[c] :
              down'[c][i] \in Pdus /\ i \in Nat \ {0}
         /\ \A s \in OpenSockets' : owner'[s] \in Clients
<1>1. outbox' \in Seq(Mail) /\ \A c \in Clients : down'[c] \in Seq(Pdus)
  BY NetTypeKept, ServerTypeKept DEF NetTypeOK, ServerTypeOK, Mail
<1>2. ASSUME NEW i \in DOMAIN outbox'
      PROVE  outbox'[i] \in Mail /\ outbox'[i].pdu \in Pdus /\ i \in Nat \ {0}
  <2>1. outbox'[i] \in Mail /\ i \in Nat \ {0}
    BY <1>1
  <2> QED
    BY <2>1 DEF Mail
<1>3. ASSUME NEW c \in Clients, NEW i \in DOMAIN down'[c]
      PROVE  down'[c][i] \in Pdus /\ i \in Nat \ {0}
  <2>1. down'[c] \in Seq(Pdus)
    BY <1>1
  <2> QED
    BY <2>1
<1>4. \A s \in OpenSockets' : owner'[s] \in Clients
  BY ServerTypeKept DEF OpenSockets, ServerTypeOK
<1> QED
  BY <1>2, <1>3, <1>4

(* What is sent grows at its end.                                          *)
LEMMA SentLast ==
  ASSUME IInv, Next, NEW c \in Clients, NEW i \in DOMAIN down'[c]
  PROVE  \/ i \in DOMAIN down[c] /\ down'[c][i] = down[c][i]
         \/ /\ Delivers(c) /\ i = Len(down[c]) + 1 /\ down'[c][i] = outbox[1].pdu
            /\ DOMAIN down[c] = 1 .. Len(down[c]) /\ Len(down[c]) \in Nat
<1>1. down[c] \in Seq(Pdus) /\ DOMAIN down[c] = 1 .. Len(down[c]) /\ Len(down[c]) \in Nat
  BY DEF IInv, TypeOK, NetTypeOK
<1>2. CASE i \in DOMAIN down[c]
  BY <1>2, HistoryKept
<1>3. CASE i \notin DOMAIN down[c]
  <2>1. Delivers(c)
    <3>1. ASSUME NEW d \in Clients, Delivers(d), d # c
          PROVE  down'[c] = down[c]
      BY <3>1 DEF Delivers, IInv, TypeOK, NetTypeOK
    <3> QED
      BY <1>3, <3>1, StreamsGrow
  <2>2. down'[c] = Append(down[c], outbox[1].pdu) /\ outbox[1].pdu \in Pdus
    BY <2>1 DEF Delivers, Mail, IInv, TypeOK, NetTypeOK
  <2>3. i = Len(down[c]) + 1 /\ down'[c][i] = outbox[1].pdu
    BY <1>1, <1>3, <2>2, AppendProperties
  <2> QED
    BY <1>1, <2>1, <2>3
<1> QED
  BY <1>2, <1>3

(* A delivery keeps the streams in order, as the outbox follows them.      *)
LEMMA OrderedKept ==
  ASSUME IInv, MailInv, OrderInv, OrderedPerSender, Next
  PROVE  OrderedPerSender'
<1>1. SUFFICES ASSUME NEW c \in Clients, NEW i \in DOMAIN down'[c], NEW j \in DOMAIN down'[c],
                      i < j, NEW m \in Pdus, NEW n \in Pdus,
                      m = down'[c][i], n = down'[c][j], m.by # NoClient, m.by = n.by
               PROVE  InOrder(m, n, c)'
  <2>1. \A c \in Clients : \A i \in DOMAIN down'[c] : down'[c][i] \in Pdus
    BY MailTypedNext
  <2> QED
    BY <2>1 DEF OrderedPerSender, InOrder, Repeats
<1>2. i \in Nat /\ j \in Nat
  BY MailTypedNext
<1>3. i \in DOMAIN down[c] /\ m = down[c][i]
  BY <1>1, <1>2, SentLast
<1>4. m.id \in 1 .. taken[m.by]
  BY <1>1, <1>3 DEF MailInv, StreamsInv, Addressed
<1>5. CASE j \in DOMAIN down[c] /\ n = down[c][j]
  <2>1. InOrder(m, n, c)
    BY <1>1, <1>3, <1>5 DEF OrderedPerSender, InOrder
  <2> QED
    BY <1>4, <2>1, InOrderStays
<1>6. CASE Delivers(c) /\ n = outbox[1].pdu
  <2>1. InOrder(m, n, c)
    BY <1>3, <1>6 DEF Delivers, OrderInv
  <2> QED
    BY <1>4, <2>1, InOrderStays
<1> QED
  BY <1>1, <1>5, <1>6, SentLast

(* A handler adds to the outbox only what follows all that was sent.       *)
LEMMA OrderKept ==
  ASSUME IInv, MailInv, OrderInv, Next
  PROVE  OrderInv'
<1>1. /\ \A i \in DOMAIN outbox' :
           outbox'[i] \in Mail /\ outbox'[i].pdu \in Pdus /\ i \in Nat \ {0}
      /\ \A c \in Clients : \A i \in DOMAIN down'[c] :
           down'[c][i] \in Pdus /\ i \in Nat \ {0}
      /\ \A s \in OpenSockets' : owner'[s] \in Clients
  BY MailTypedNext
<1>2. ASSUME outbox' = <<>>
      PROVE  OrderInv'
  BY <1>2 DEF OrderInv
<1>3. SUFFICES
        ASSUME NEW i \in DOMAIN outbox', NEW n \in Pdus, n = outbox'[i].pdu,
               NEW s, s = outbox'[i].to
        PROVE  /\ n.by # NoClient => n.id = taken'[n.by]
               /\ \A m \in Pdus, j \in DOMAIN outbox', c \in Clients :
                    /\ j < i /\ outbox'[j].to = s /\ s \in OpenSockets' /\ m = outbox'[j].pdu
                    /\ c = owner'[s] /\ m.by # NoClient /\ m.by = n.by
                    => InOrder(m, n, c)'
               /\ \A m \in Pdus, c \in Clients : \A j \in DOMAIN down'[c] :
                    /\ s \in OpenSockets' /\ m = down'[c][j]
                    /\ c = owner'[s] /\ m.by # NoClient /\ m.by = n.by
                    => InOrder(m, n, c)'
  <2>1. ASSUME NEW i \in DOMAIN outbox', outbox'[i].pdu.by # NoClient
        PROVE  outbox'[i].pdu.id = taken'[outbox'[i].pdu.by]
    <3>1. outbox'[i].pdu \in Pdus
      BY <1>1
    <3> QED
      BY <1>3, <2>1, <3>1
  <2>2. ASSUME NEW j \in DOMAIN outbox', NEW i \in DOMAIN outbox', j < i,
               outbox'[j].to = outbox'[i].to, outbox'[j].to \in OpenSockets',
               NEW m \in Pdus, m = outbox'[j].pdu, NEW n \in Pdus, n = outbox'[i].pdu,
               NEW c \in Clients, c = owner'[outbox'[j].to]
        PROVE  InOrder(m, n, c)'
    <3>1. CASE m.by # NoClient /\ m.by = n.by
      BY <1>3, <2>2, <3>1
    <3> QED
      BY <3>1 DEF InOrder
  <2>3. ASSUME NEW i \in DOMAIN outbox', outbox'[i].to \in OpenSockets',
               NEW c \in Clients, c = owner'[outbox'[i].to], NEW j \in DOMAIN down'[c],
               NEW m \in Pdus, m = down'[c][j], NEW n \in Pdus, n = outbox'[i].pdu
        PROVE  InOrder(m, n, c)'
    <3>1. CASE m.by # NoClient /\ m.by = n.by
      BY <1>3, <2>3, <3>1
    <3> QED
      BY <3>1 DEF InOrder
  <2>4. \A i \in DOMAIN outbox' : outbox'[i].to \in OpenSockets' => owner'[outbox'[i].to] \in Clients
    BY <1>1
  <2>5. ASSUME NEW j \in DOMAIN outbox', NEW i \in DOMAIN outbox', j < i,
               outbox'[j].to = outbox'[i].to, outbox'[j].to \in OpenSockets'
        PROVE  InOrder(outbox[j].pdu, outbox[i].pdu, owner[outbox[j].to])'
    <3>1. PICK m \in Pdus, n \in Pdus, c \in Clients :
            m = outbox'[j].pdu /\ n = outbox'[i].pdu /\ c = owner'[outbox'[j].to]
      BY <1>1, <2>4, <2>5
    <3>2. InOrder(m, n, c)'
      BY <2>2, <2>5, <3>1
    <3> QED
      BY <3>1, <3>2 DEF InOrder, Repeats
  <2>6. ASSUME NEW i \in DOMAIN outbox', outbox'[i].to \in OpenSockets',
               NEW j \in DOMAIN down'[owner'[outbox'[i].to]]
        PROVE  InOrder(down[owner[outbox[i].to]][j], outbox[i].pdu, owner[outbox[i].to])'
    <3>1. PICK n \in Pdus, c \in Clients : n = outbox'[i].pdu /\ c = owner'[outbox'[i].to]
      BY <1>1, <2>4, <2>6
    <3>2. PICK m \in Pdus : m = down'[c][j]
      BY <1>1, <2>6, <3>1
    <3>3. InOrder(m, n, c)'
      BY <2>3, <2>6, <3>1, <3>2
    <3> QED
      BY <3>1, <3>2, <3>3 DEF InOrder, Repeats
  <2> QED
    BY <2>1, <2>5, <2>6 DEF OrderInv
<1> DEFINE After ==
        /\ n.by # NoClient => n.id = taken'[n.by]
        /\ \A m \in Pdus, j \in DOMAIN outbox', c \in Clients :
             /\ j < i /\ outbox'[j].to = s /\ s \in OpenSockets' /\ m = outbox'[j].pdu
             /\ c = owner'[s] /\ m.by # NoClient /\ m.by = n.by
             => InOrder(m, n, c)'
        /\ \A m \in Pdus, c \in Clients : \A j \in DOMAIN down'[c] :
             /\ s \in OpenSockets' /\ m = down'[c][j]
             /\ c = owner'[s] /\ m.by # NoClient /\ m.by = n.by
             => InOrder(m, n, c)'
<1>4. ASSUME NEW k \in DOMAIN outbox, outbox'[i] = outbox[k], UNCHANGED <<owner, taken>>,
             \A j \in DOMAIN outbox' : j < i =>
               \E l \in DOMAIN outbox : l < k /\ outbox'[j] = outbox[l],
             down' = down \/ (outbox' = Tail(outbox) /\ k > 1)
      PROVE  After
  <2>1. n.by # NoClient => n.id = taken'[n.by]
    BY <1>3, <1>4 DEF OrderInv
  <2>2. ASSUME NEW m \in Pdus, NEW l \in DOMAIN outbox, l < k, NEW c \in Clients,
               outbox[l].to = s, s \in OpenSockets, m = outbox[l].pdu, c = owner[s],
               m.by # NoClient, m.by = n.by
        PROVE  InOrder(m, n, c)'
    <3>1. InOrder(m, n, c)
      BY <1>3, <1>4, <2>2 DEF OrderInv
    <3>2. m.id \in 1 .. taken[m.by]
      BY <2>2 DEF MailInv, OutboxInv, Addressed
    <3> QED
      BY <3>1, <3>2, InOrderStays
  <2>3. OpenSockets' = OpenSockets
    BY <1>4 DEF OpenSockets
  <2>4. ASSUME NEW m \in Pdus, NEW c \in Clients, NEW j \in DOMAIN down'[c],
               s \in OpenSockets', m = down'[c][j], c = owner'[s], m.by # NoClient,
               m.by = n.by
        PROVE  InOrder(m, n, c)'
    <3>1. CASE j \in DOMAIN down[c] /\ m = down[c][j]
      <4>1. InOrder(m, n, c)
        BY <1>3, <1>4, <2>3, <2>4, <3>1 DEF OrderInv
      <4>2. m.id \in 1 .. taken[m.by]
        BY <2>4, <3>1 DEF MailInv, StreamsInv, Addressed
      <4> QED
        BY <4>1, <4>2, InOrderStays
    <3>2. CASE Delivers(c) /\ m = outbox[1].pdu /\ down' # down
      <4>1. k > 1 /\ outbox[1].to \in OpenSockets /\ owner[outbox[1].to] = c
            /\ 1 \in DOMAIN outbox
        BY <1>4, <3>2 DEF Delivers
      <4>2. outbox[1].to = s
        BY <1>4, <2>3, <2>4, <4>1 DEF IInv, ConnectionsInv
      <4> QED
        BY <1>4, <2>2, <2>3, <2>4, <3>2, <4>1, <4>2
    <3>3. CASE down' = down
      BY <2>4, <3>1, <3>3
    <3> QED
      BY <2>4, <3>1, <3>2, <3>3, SentLast
  <2> QED
    BY <1>4, <2>1, <2>2, <2>3, <2>4
<1>5. CASE Quiet
  BY <1>3, <1>4, <1>5 DEF Quiet
<1>6. CASE SendNext
  <2>1. outbox # <<>> /\ outbox' = Tail(outbox) /\ UNCHANGED <<owner, taken>>
        /\ outbox \in Seq(Mail)
    BY <1>6 DEF SendNext, IInv, TypeOK, ServerTypeOK, Mail
  <2>2. \A j \in DOMAIN outbox' :
          j \in Nat \ {0} /\ j + 1 \in DOMAIN outbox /\ outbox'[j] = outbox[j + 1]
    BY <2>1
  <2>3. i + 1 > 1 /\ \A j \in DOMAIN outbox' : j < i => j + 1 < i + 1
    BY <1>3, <2>2
  <2> QED
    BY <1>3, <1>4, <2>1, <2>2, <2>3
<1>7. CASE Accept \/ Dies \/ \E t \in Sockets : HangsUp(t)
  BY <1>2, <1>3, <1>7 DEF Accept, PollReturns, Dies, HangsUp
<1>8. ASSUME NEW t \in Sockets, Serve(t), Answers(t)
      PROVE  After
  <2> DEFINE b == owner[t]
             req == NextRequest(b)
  <2>1. /\ owner' = owner /\ b \in Clients /\ status = "running" /\ outbox = <<>>
        /\ taken[b] \in Nat /\ taken[b] + 1 \in DOMAIN up[b] /\ up' = up /\ down' = down
        /\ req = up[b][taken[b] + 1] /\ req \in Pdus
        /\ taken'[b] = taken[b] + 1 /\ OpenSockets' = OpenSockets
    <3>1. t \in OpenSockets /\ up[b] \in Seq(Pdus) /\ owner' = owner
      BY <1>8 DEF Answers, IInv, TypeOK, NetTypeOK, OpenSockets, ServerTypeOK
    <3> QED
      BY <1>8, <3>1 DEF Answers, Unread, NextRequest, IInv, TypeOK, NetTypeOK, OpenSockets, ServerTypeOK
  <2>2. CASE Replies(t)
    BY <1>3, <2>2 DEF Replies
  <2>3. CASE Relays(t)
    <3> HIDE DEF b, req
    <3>1. \A j \in DOMAIN outbox' : outbox'[j].pdu.by = b /\ outbox'[j].pdu.id = taken[b] + 1
      BY <2>3 DEF Relays, b
    <3>2. n.by = b /\ n.id = taken'[b]
      BY <1>3, <2>1, <3>1
    <3>3. ASSUME NEW m \in Pdus, NEW j \in DOMAIN outbox', NEW c \in Clients,
                 j < i, outbox'[j].to = s, s \in OpenSockets, m = outbox'[j].pdu, c = owner[s]
          PROVE  Repeats(req, HandleOf[c])
      <4>1. i \in 1 .. Len(outbox') /\ j \in 1 .. Len(outbox') /\ Len(outbox') \in Nat
        <5>1. outbox' \in Seq(Mail)
          BY NetTypeKept, ServerTypeKept DEF ServerTypeOK, Mail
        <5> QED
          BY <1>3, <3>3, <5>1
      <4>2. CASE req.flag = Message
        <5>1. Len(outbox') = 1 \/ Len(outbox') = Len(ChunkFlags[req.text])
          BY <2>3, <4>2 DEF Relays, b, req
        <5> QED
          BY <3>3, <4>1, <4>2, <5>1 DEF Repeats
      <4>3. CASE req.flag = Multicast
        <5> DEFINE Named == {k \in DOMAIN req.dests : req.dests[k] = HandleOf[c]}
        <5>1. \A k \in DOMAIN outbox' :
                k \in DOMAIN req.dests /\ outbox'[k].to = Table!FindSocket(req.dests[k])
          <6>1. req.flag # Message
            BY <4>3 DEF Message, Multicast
          <6> QED
            BY <2>3, <4>3, <6>1 DEF Relays, b, req
        <5>2. s \in OpenSockets => s # -1
          BY SocketsAssumption DEF OpenSockets
        <5>3. \A k \in DOMAIN req.dests : req.dests[k] \in Handles
          <6>1. req.dests \in Seq(Handles)
            BY <2>1 DEF Pdus
          <6> QED
            BY <6>1
        <5>4. \A k \in {i, j} : k \in Named
          BY <1>3, <2>1, <3>3, <5>1, <5>2, <5>3, FoundIsAccepted
        <5>5. IsFiniteSet(Named)
          <6>1. req.dests \in Seq(Handles)
            BY <2>1 DEF Pdus
          <6>2. IsFiniteSet(1 .. Len(req.dests)) /\ DOMAIN req.dests = 1 .. Len(req.dests)
            BY <6>1, FS_Interval
          <6> QED
            BY <6>2, FS_Subset
        <5> HIDE DEF Named
        <5>6. Cardinality(Named) > 1
          BY <3>3, <4>1, <5>4, <5>5, TwoOfThem
        <5> QED
          BY <5>6 DEF Repeats, Named
      <4> QED
        BY <2>3, <4>2, <4>3 DEF Relays, b, req
    <3>4. ASSUME NEW m \in Pdus, NEW c \in Clients, NEW j \in DOMAIN down[c],
                 m = down[c][j], m.by = b
          PROVE  InOrder(m, n, c)'
      <4>1. m.id \in 1 .. taken[b]
        BY <2>1, <3>4, SendersAssumption DEF MailInv, StreamsInv, Addressed
      <4> QED
        BY <2>1, <3>2, <4>1 DEF InOrder
    <3>5. ASSUME NEW m \in Pdus, NEW j \in DOMAIN outbox', NEW c \in Clients,
                 j < i, outbox'[j].to = s, s \in OpenSockets, m = outbox'[j].pdu, c = owner[s]
          PROVE  InOrder(m, n, c)'
      <4>1. m.by = b /\ m.id = taken[b] + 1 /\ n.id = taken[b] + 1 /\ up'[m.by][m.id] = req
        BY <2>1, <3>1, <3>2, <3>5
      <4>2. Repeats(req, HandleOf[c])
        BY <3>3, <3>5
      <4> QED
        BY <4>1, <4>2 DEF InOrder, Repeats
    <3> QED
      BY <2>1, <3>2, <3>4, <3>5
  <2> QED
    BY <1>8, <2>2, <2>3, HandlersAnswer
<1> QED
  BY <1>5, <1>6, <1>7, <1>8, StepForms

(* Nothing loses its order while nothing happens.                          *)
LEMMA OrderStutters == OrderInv /\ UNCHANGED vars => OrderInv'
<1> SUFFICES ASSUME OrderInv, UNCHANGED vars PROVE OrderInv'
  OBVIOUS
<1>1. UNCHANGED <<up, taken, down, owner, outbox>> /\ OpenSockets' = OpenSockets
  BY DEF vars, netVars, serverVars, OpenSockets
<1>2. ASSUME NEW m, NEW n, NEW c, InOrder(m, n, c)
      PROVE  InOrder(m, n, c)'
  <2>1. up'[m.by][m.id] = up[m.by][m.id]
    BY <1>1
  <2> QED
    BY <1>2, <2>1 DEF InOrder, Repeats
<1>3. ASSUME NEW i \in DOMAIN outbox', NEW j \in DOMAIN outbox', i < j,
             outbox'[i].to = outbox'[j].to, outbox'[i].to \in OpenSockets'
      PROVE  InOrder(outbox[i].pdu, outbox[j].pdu, owner[outbox[i].to])'
  <2>1. PICK m, n, c : m = outbox'[i].pdu /\ n = outbox'[j].pdu /\ c = owner'[outbox'[i].to]
    OBVIOUS
  <2>2. InOrder(m, n, c)
    BY <1>1, <1>3, <2>1 DEF OrderInv
  <2>3. InOrder(m, n, c)'
    BY <1>2, <2>2
  <2> QED
    BY <2>1, <2>3 DEF InOrder, Repeats
<1>4. ASSUME NEW i \in DOMAIN outbox', outbox'[i].to \in OpenSockets',
             NEW j \in DOMAIN down'[owner'[outbox'[i].to]]
      PROVE  InOrder(down[owner[outbox[i].to]][j], outbox[i].pdu, owner[outbox[i].to])'
  <2>1. PICK m, n, c : m = down'[c][j] /\ n = outbox'[i].pdu /\ c = owner'[outbox'[i].to]
    OBVIOUS
  <2>2. InOrder(m, n, c)
    BY <1>1, <1>4, <2>1 DEF OrderInv
  <2>3. InOrder(m, n, c)'
    BY <1>2, <2>2
  <2> QED
    BY <2>1, <2>3 DEF InOrder, Repeats
<1>5. \A i \in DOMAIN outbox' :
        outbox'[i].pdu.by # NoClient => outbox'[i].pdu.id = taken'[outbox'[i].pdu.by]
  BY <1>1 DEF OrderInv
<1> QED
  BY <1>3, <1>4, <1>5 DEF OrderInv

(* OrderInv is inductive, with the other invariants.                       *)
THEOREM OrderInvHolds == Spec => []OrderInv
<1>1. Init => OrderInv
  BY DEF Init, ServerInit, OrderInv
<1>2. IInv /\ MailInv /\ OrderInv /\ [Next]_vars => OrderInv'
  BY OrderKept, OrderStutters
<1> QED
  BY <1>1, <1>2, IInvHolds, MailInvHolds, PTL DEF Spec

(* What one sender causes arrives in the order it typed it.                *)
THEOREM SendersStayInOrder == Spec => []OrderedPerSender
<1>1. Init => OrderedPerSender
  BY DEF Init, NetInit, OrderedPerSender
<1>2. OrderedPerSender /\ UNCHANGED vars => OrderedPerSender'
  <2> SUFFICES ASSUME OrderedPerSender, UNCHANGED vars, NEW c \in Clients,
                      NEW i \in DOMAIN down'[c], NEW j \in DOMAIN down'[c], i < j,
                      NEW m, m = down'[c][i], NEW n, n = down'[c][j],
                      m.by # NoClient, m.by = n.by
               PROVE  InOrder(m, n, c)'
    BY DEF OrderedPerSender, InOrder, Repeats
  <2>1. UNCHANGED <<up, down>>
    BY DEF vars, netVars
  <2>2. InOrder(m, n, c)
    BY <2>1 DEF OrderedPerSender, InOrder
  <2>3. up'[m.by][m.id] = up[m.by][m.id]
    BY <2>1
  <2> QED
    BY <2>2, <2>3 DEF InOrder, Repeats
<1>3. IInv /\ MailInv /\ OrderInv /\ OrderedPerSender /\ [Next]_vars => OrderedPerSender'
  BY <1>2, OrderedKept
<1> QED
  BY <1>1, <1>3, IInvHolds, MailInvHolds, OrderInvHolds, PTL DEF Spec

----------------------------------------------------------------------------
(* Lists                                                                   *)

(* While the server runs no handle is in the table twice.                  *)
UniqueInv ==
  status = "running" =>
    \A s, t \in Table!Occupied : table[s] = table[t] => s = t

(* An entry or the end of a list, and what precedes it back to the count.  *)
InList(m) == Made(m, {HandleEntry, ListEnd})
Precedes(m, e) == Made(m, {HandleEntry}) /\ m.dests # e.dests

(* What c will have received, once the outbox is sent to it.               *)
Coming(c, k) == IF k <= Len(down[c]) THEN down[c][k] ELSE outbox[k - Len(down[c])].pdu

(* Ahead of e, which has place i in the outbox and goes over s to c, there *)
(* are only PDUs for the same socket, and before it on its way to c are    *)
(* other entries and a count.                                              *)
Framed(i, s, c, e) ==
  LET last == Len(down[c]) + i - 1 IN
  /\ s \in OpenSockets
  /\ \A j \in 1 .. i : outbox[j].to = s
  /\ \/ link[c] = "rst"
     \/ \E k \in 1 .. last :
          /\ Made(Coming(c, k), {HandleCount})
          /\ \A j \in k + 1 .. last : Precedes(Coming(c, j), e)

ListInv ==
  \A i \in DOMAIN outbox :
    InList(outbox[i].pdu) =>
      Framed(i, outbox[i].to, owner[outbox[i].to], outbox[i].pdu)

(* addHandle refuses a handle that is in the table.                        *)
LEMMA UniqueKept ==
  ASSUME IInv, UniqueInv, Next
  PROVE  UniqueInv'
<1>1. Table!TypeOK
  BY DEF IInv, TypeOK, ServerTypeOK
<1> SUFFICES ASSUME status' = "running", NEW s \in Table!Occupied', NEW t \in Table!Occupied',
                    table'[s] = table'[t]
             PROVE  s = t
  BY DEF UniqueInv
<1>2. CASE UNCHANGED <<status, tableVars>>
  <2>1. Table!Occupied' = Table!Occupied
    BY <1>2 DEF tableVars, Table!Occupied, Table!Slots
  <2> QED
    BY <1>2, <2>1 DEF tableVars, UniqueInv
<1>3. ASSUME NEW r \in Sockets, ServeConnect(r), Answers(r)
      PROVE  s = t
  <2>1. PICK b \in BOOLEAN : Table!AddHandle(r, NextRequest(owner[r]).dests[1], b)
    BY <1>3 DEF ServeConnect
  <2> DEFINE h == NextRequest(owner[r]).dests[1]
  <2>2. h \in Handles
    BY <1>3, ConnectNamesItself
  <2> HIDE DEF h
  <2>3. status = "running"
    BY <1>3 DEF Answers
  <2>4. \A i \in Table!Occupied : table[i] = h => i \in Table!Holders(h)
    BY DEF Table!Occupied, Table!Holders
  <2>5. \/ /\ Table!Occupied' = Table!Occupied
           /\ \A i \in Table!Occupied : table'[i] = table[i]
        \/ /\ Table!Holders(h) = {}
           /\ Table!Occupied' = Table!Occupied \cup {r}
           /\ table'[r] = h
           /\ \A i \in Table!Occupied \ {r} : table'[i] = table[i]
    BY <1>1, <2>1, <2>2, AddHandleDoes DEF h
  <2> QED
    BY <2>3, <2>4, <2>5 DEF UniqueInv
<1>4. ASSUME NEW r \in Sockets, HangsUp(r)
      PROVE  s = t
  <2>1. Table!RemoveHandle(r) /\ status = "running"
    BY <1>4 DEF HangsUp, Disconnect
  <2> QED
    BY <1>1, <2>1, RemoveHandleDoes DEF UniqueInv
<1>5. CASE Accept
  <2>1. status = "running" /\ UNCHANGED tableVars
    BY <1>5 DEF Accept, PollReturns
  <2> QED
    BY <1>2, <2>1
<1>6. CASE SendNext
  <2>1. status = "running" /\ UNCHANGED tableVars
    BY <1>6 DEF SendNext
  <2> QED
    BY <1>2, <2>1
<1> QED
  BY <1>2, <1>3, <1>4, <1>5, <1>6, StepForms DEF Quiet, Dies

(* The handler that puts the count, an entry or the end of a list in the   *)
(* outbox is that of flag 10, and it puts there all of them.               *)
LEMMA ListForm ==
  ASSUME IInv, NEW s \in Sockets, Serve(s), Answers(s), NEW i \in DOMAIN outbox',
         Made(outbox'[i].pdu, {HandleCount, HandleEntry, ListEnd})
  PROVE  LET n == Cardinality(Table!Occupied) IN
         /\ ServeList(s) /\ status = "running"
         /\ n \in Nat /\ Len(outbox') = n + 2 /\ DOMAIN outbox' = 1 .. n + 2
         /\ outbox'[1] = Sends(s, Count) /\ outbox'[n + 2] = Sends(s, Pdu(ListEnd))
         /\ \A k \in 1 .. n :
              /\ EntryAt(k) \in Table!Occupied /\ Place(EntryAt(k)) = k
              /\ outbox'[k + 1] = Sends(s, Naming(HandleEntry, table[EntryAt(k)]))
<1>1. /\ \A f : Pdu(f).flag = f
      /\ \A f \in {Accepted, Refused, ExitAck} : f \notin {HandleCount, HandleEntry, ListEnd}
  BY DEF Pdu, Accepted, Refused, ExitAck, HandleCount, ListEnd, HandleEntry
<1>2. ~ServeEof(s)
  BY DEF Answers, ServeEof
<1>3. ~ServeConnect(s) /\ ~ServeExit(s)
  <2>1. ASSUME NEW f \in {Accepted, Refused, ExitAck}, outbox' = <<Sends(s, Pdu(f))>>
        PROVE  FALSE
    <3>1. outbox'[i].pdu = Pdu(f)
      BY <2>1 DEF Sends
    <3> QED
      BY <1>1, <3>1 DEF Made
  <2> QED
    BY <2>1 DEF ServeConnect, ServeExit
<1>4. ~ServeMessage(s) /\ ~ServeMulticast(s)
  <2>1. owner[s] \in Clients
    BY DEF Answers, OpenSockets, IInv, TypeOK, ServerTypeOK
  <2>2. ~Relays(s)
    BY <2>1, SendersAssumption DEF Relays, Made
  <2> QED
    BY <2>2, MessageRelays, MulticastRelays
<1>5. ServeList(s) /\ status = "running"
  BY <1>2, <1>3, <1>4 DEF Serve, Answers
<1> DEFINE n == Cardinality(Table!Occupied)
           pdus == <<Count>> \o Entries \o <<Pdu(ListEnd)>>
<1>6. Table!TypeOK
  BY DEF IInv, TypeOK, ServerTypeOK
<1>7. /\ n \in Nat /\ Len(pdus) = n + 2
      /\ pdus[1] = Count /\ pdus[n + 2] = Pdu(ListEnd)
      /\ \A k \in 1 .. n :
           /\ EntryAt(k) \in Table!Occupied /\ Place(EntryAt(k)) = k
           /\ pdus[k + 1] = Naming(HandleEntry, table[EntryAt(k)])
  BY <1>6, ListPdus
<1>8. outbox' = [k \in 1 .. Len(pdus) |-> Sends(s, pdus[k])]
  BY <1>5 DEF ServeList
<1> HIDE DEF n, pdus
<1>9. outbox' = [k \in 1 .. n + 2 |-> Sends(s, pdus[k])]
  BY <1>7, <1>8
<1>10. \A k \in 1 .. n + 2 : outbox'[k] = Sends(s, pdus[k])
  BY <1>9
<1>11. Len(outbox') = n + 2 /\ DOMAIN outbox' = 1 .. n + 2
  BY <1>7, <1>9
<1>12. 1 \in 1 .. n + 2 /\ n + 2 \in 1 .. n + 2 /\ \A k \in 1 .. n : k + 1 \in 1 .. n + 2
  BY <1>7
<1> QED
  BY <1>5, <1>7, <1>10, <1>11, <1>12 DEF n

(* An entry or an end in the outbox of a handler is that of a whole list.  *)
LEMMA EntriesListed ==
  ASSUME IInv, UniqueInv, NEW s \in Sockets, Serve(s), Answers(s),
         NEW i \in DOMAIN outbox', InList(outbox'[i].pdu)
  PROVE  /\ i \in Nat /\ i > 1
         /\ Made(outbox'[1].pdu, {HandleCount})
         /\ \A j \in 1 .. i : outbox'[j].to = s
         /\ \A j \in 2 .. i - 1 : Precedes(outbox'[j].pdu, outbox'[i].pdu)
<1>1. /\ \A f : Pdu(f).flag = f /\ Pdu(f).dests = <<>> /\ Pdu(f).by = NoClient
      /\ HandleCount \notin {HandleEntry, ListEnd}
  BY DEF Pdu, HandleCount, ListEnd, HandleEntry
<1> DEFINE n == Cardinality(Table!Occupied)
<1>2. /\ ServeList(s) /\ status = "running"
      /\ n \in Nat /\ Len(outbox') = n + 2 /\ DOMAIN outbox' = 1 .. n + 2
      /\ outbox'[1] = Sends(s, Count) /\ outbox'[n + 2] = Sends(s, Pdu(ListEnd))
      /\ \A k \in 1 .. n :
           /\ EntryAt(k) \in Table!Occupied /\ Place(EntryAt(k)) = k
           /\ outbox'[k + 1] = Sends(s, Naming(HandleEntry, table[EntryAt(k)]))
  <2>1. Made(outbox'[i].pdu, {HandleCount, HandleEntry, ListEnd})
    BY DEF InList, Made
  <2> QED
    BY <2>1, ListForm
<1> HIDE DEF n
<1>3. \A h : /\ Made(Naming(HandleEntry, h), {HandleEntry})
            /\ Naming(HandleEntry, h).dests = <<h>> /\ <<h>> # <<>>
  BY DEF Naming, Pdu, Made
<1>4. Made(Count, {HandleCount}) /\ Count.flag = HandleCount
  BY DEF Count, Pdu, Made
<1>5. \A t, m : Sends(t, m).to = t /\ Sends(t, m).pdu = m
  BY DEF Sends
<1>6. /\ outbox'[1].pdu = Count /\ outbox'[n + 2].pdu = Pdu(ListEnd)
       /\ \A k \in 1 .. n : outbox'[k + 1].pdu = Naming(HandleEntry, table[EntryAt(k)])
  BY <1>2, <1>5
<1>7. i \in 1 .. n + 2
  BY <1>2
<1>8. i # 1
  BY <1>1, <1>4, <1>6, <1>7 DEF InList, Made
<1>9. ASSUME NEW j \in 2 .. i - 1
       PROVE  Precedes(outbox'[j].pdu, outbox'[i].pdu)
  <2>1. PICK k \in 1 .. n : j = k + 1
    <3>1. j - 1 \in 1 .. n /\ j = (j - 1) + 1
      BY <1>2, <1>7, <1>8, <1>9
    <3> QED
      BY <3>1
  <2>2. outbox'[j].pdu = Naming(HandleEntry, table[EntryAt(k)])
    BY <1>6, <2>1
  <2>3. CASE i = n + 2
    <3>1. outbox'[i].pdu.dests = <<>>
      BY <1>1, <1>6, <2>3
    <3> QED
      BY <1>3, <2>2, <3>1 DEF Precedes
  <2>4. CASE i # n + 2
    <3>1. PICK l \in 1 .. n : i = l + 1 /\ k < l
      <4>1. i - 1 \in 1 .. n /\ i = (i - 1) + 1 /\ k < i - 1
        <5>1. n \in Nat
          BY <1>2
        <5> QED
          BY <5>1, <1>7, <1>8, <1>9, <2>1, <2>4
      <4> QED
        BY <4>1
    <3>2. table[EntryAt(k)] # table[EntryAt(l)]
      <4>1. EntryAt(k) \in Table!Occupied /\ EntryAt(l) \in Table!Occupied
        BY <1>2
      <4>2. EntryAt(k) # EntryAt(l)
        <5>1. Place(EntryAt(k)) = k /\ Place(EntryAt(l)) = l
          BY <1>2
        <5>2. k # l
          BY <3>1
        <5> QED
          BY <5>1, <5>2
      <4>3. status = "running"
        BY <1>2
      <4> QED
        BY <4>1, <4>2, <4>3 DEF UniqueInv
    <3>3. outbox'[i].pdu = Naming(HandleEntry, table[EntryAt(l)])
      BY <1>6, <3>1
    <3> QED
      BY <1>3, <2>2, <3>2, <3>3 DEF Precedes
  <2> QED
    BY <2>3, <2>4
<1>10. \A j \in 1 .. i : outbox'[j].to = s
  <2> SUFFICES ASSUME NEW j \in 1 .. i PROVE outbox'[j].to = s
    OBVIOUS
  <2>1. j = 1 \/ j = n + 2 \/ \E k \in 1 .. n : j = k + 1
    <3>1. j = 1 \/ j = n + 2 \/ (j - 1 \in 1 .. n /\ j = (j - 1) + 1)
      BY <1>2, <1>7
    <3> QED
      BY <3>1
  <2>2. outbox'[1].to = s /\ outbox'[n + 2].to = s
    BY <1>2, <1>5
  <2>3. \A k \in 1 .. n : outbox'[k + 1].to = s
    BY <1>2, <1>5
  <2> QED
    BY <2>1, <2>2, <2>3
<1> QED
  BY <1>4, <1>6, <1>7, <1>8, <1>9, <1>10

(* The head of the outbox leaves with what it was preceded by.             *)
LEMMA ListKept ==
  ASSUME IInv, UniqueInv, ListInv, Next
  PROVE  ListInv'
<1>1. /\ \A i \in DOMAIN outbox' :
           outbox'[i] \in Mail /\ outbox'[i].pdu \in Pdus /\ i \in Nat \ {0}
      /\ \A c \in Clients : \A i \in DOMAIN down'[c] :
           down'[c][i] \in Pdus /\ i \in Nat \ {0}
      /\ \A s \in OpenSockets' : owner'[s] \in Clients
  BY MailTypedNext
<1>2. /\ outbox' \in Seq(Mail) /\ outbox \in Seq(Mail)
      /\ \A c \in Clients : down[c] \in Seq(Pdus) /\ down'[c] \in Seq(Pdus)
      /\ \A s \in OpenSockets : owner[s] \in Clients
  BY NetTypeKept, ServerTypeKept
  DEF IInv, TypeOK, NetTypeOK, ServerTypeOK, Mail, OpenSockets
<1>3. SUFFICES ASSUME NEW i \in DOMAIN outbox', NEW s, NEW c, NEW e,
                      s = outbox'[i].to, c = owner'[s], e = outbox'[i].pdu, InList(e)
               PROVE  Framed(i, s, c, e)'
  <2> SUFFICES ASSUME NEW i \in DOMAIN outbox', InList(outbox[i].pdu)'
               PROVE  Framed(i, outbox[i].to, owner[outbox[i].to], outbox[i].pdu)'
    BY DEF ListInv
  <2>1. PICK s, c, e : s = outbox'[i].to /\ c = owner'[s] /\ e = outbox'[i].pdu
    OBVIOUS
  <2>2. Framed(i, s, c, e)'
    BY <1>3, <2>1 DEF InList
  <2>3. /\ outbox'[i].to \in OpenSockets'
        /\ \A j \in 1 .. i : outbox'[j].to = outbox'[i].to
    BY <2>1, <2>2 DEF Framed
  <2>4. CASE link'[c] = "rst"
    BY <2>1, <2>3, <2>4 DEF Framed
  <2>5. CASE link'[c] # "rst"
    <3>1. PICK k \in 1 .. Len(down'[c]) + i - 1 :
            /\ Made(Coming(c, k)', {HandleCount})
            /\ \A j \in k + 1 .. Len(down'[c]) + i - 1 : Precedes(Coming(c, j)', e)
      BY <2>2, <2>5 DEF Framed
    <3>2. Made(Coming(owner[outbox[i].to], k)', {HandleCount})
      BY <2>1, <3>1 DEF Coming
    <3>3. ASSUME NEW j \in k + 1 .. Len(down'[owner'[outbox'[i].to]]) + i - 1
          PROVE  Precedes(Coming(owner[outbox[i].to], j), outbox[i].pdu)'
      BY <2>1, <3>1, <3>3 DEF Coming, Precedes, Made
    <3> QED
      BY <2>1, <2>3, <3>1, <3>2, <3>3 DEF Framed
  <2> QED
    BY <2>4, <2>5
<1>4. i \in Nat \ {0}
  BY <1>1
<1>5. CASE Quiet
  <2>1. Framed(i, s, c, e)
    BY <1>3, <1>5 DEF Quiet, ListInv
  <2>2. OpenSockets' = OpenSockets /\ \A k : Coming(c, k)' = Coming(c, k)
    BY <1>5 DEF Quiet, OpenSockets, Coming
  <2>3. link[c] = "rst" => link'[c] = "rst"
    BY <1>2, <1>3, <1>5, <2>1, CausesLast DEF Quiet, Framed
  <2> QED
    BY <1>5, <2>1, <2>2, <2>3 DEF Quiet, Framed
<1>6. CASE SendNext
  <2>1. /\ outbox # <<>> /\ outbox' = Tail(outbox) /\ owner' = owner /\ link' = link
        /\ \/ down' = down
              /\ (Head(outbox).to \in OpenSockets => link[owner[Head(outbox).to]] = "rst")
           \/ down' = [down EXCEPT ![owner[Head(outbox).to]] = Append(@, Head(outbox).pdu)]
    BY <1>6 DEF SendNext
  <2>2. /\ Head(outbox) = outbox[1] /\ outbox[1].pdu \in Pdus
        /\ \A j \in DOMAIN outbox' : j + 1 \in DOMAIN outbox /\ outbox'[j] = outbox[j + 1]
    <3>1. outbox[1] \in Mail
      BY <1>2, <2>1
    <3> QED
      BY <1>2, <2>1, <3>1 DEF Mail
  <2>3. Framed(i + 1, s, c, e)
    BY <1>3, <2>1, <2>2 DEF ListInv
  <2>4. /\ s \in OpenSockets /\ \A j \in 1 .. i + 1 : outbox[j].to = s
        /\ \/ link[c] = "rst"
           \/ \E k \in 1 .. Len(down[c]) + (i + 1) - 1 :
                /\ Made(Coming(c, k), {HandleCount})
                /\ \A j \in k + 1 .. Len(down[c]) + (i + 1) - 1 : Precedes(Coming(c, j), e)
    BY <2>3 DEF Framed
  <2>5. \A j \in 1 .. i : outbox'[j].to = s
    <3> SUFFICES ASSUME NEW j \in 1 .. i PROVE outbox'[j].to = s
      OBVIOUS
    <3>1. j \in DOMAIN outbox' /\ j + 1 \in 1 .. i + 1
      BY <1>2, <1>3, <1>4
    <3> QED
      BY <2>2, <2>4, <3>1
  <2>6. OpenSockets' = OpenSockets
    BY <2>1 DEF OpenSockets
  <2>7. CASE link[c] = "rst"
    BY <2>1, <2>4, <2>5, <2>6, <2>7 DEF Framed
  <2>8. CASE link[c] # "rst"
    <3>1. c \in Clients /\ c = owner[s] /\ outbox[1].to = s
      BY <1>2, <1>3, <1>4, <2>1, <2>4
    <3>2. PICK L \in Nat : L = Len(down[c])
      BY <1>2, <3>1
    <3>3. down'[c] = Append(down[c], outbox[1].pdu)
      BY <1>2, <2>1, <2>2, <2>4, <2>8, <3>1 DEF IInv, TypeOK, NetTypeOK
    <3>4. /\ Len(down'[c]) = L + 1 /\ down'[c][L + 1] = outbox[1].pdu
          /\ \A k \in 1 .. L : down'[c][k] = down[c][k]
      BY <1>2, <2>2, <3>2, <3>1, <3>3, AppendProperties
    <3>5. \A k \in 1 .. L + i : Coming(c, k)' = Coming(c, k)
      <4> TAKE k \in 1 .. L + i
      <4>1. CASE k <= L
        BY <1>4, <3>2, <3>4, <4>1 DEF Coming
      <4>2. CASE k = L + 1
        BY <3>2, <3>4, <4>2 DEF Coming
      <4>3. CASE k > L + 1
        <5>1. k - (L + 1) \in 1 .. i /\ (k - (L + 1)) + 1 = k - L
          BY <1>4, <3>4, <4>3
        <5>2. k - (L + 1) \in DOMAIN outbox'
          BY <1>2, <1>3, <1>4, <5>1
        <5>3. outbox'[k - (L + 1)] = outbox[k - L]
          BY <2>2, <5>1, <5>2
        <5> QED
          BY <1>4, <3>2, <3>4, <4>3, <5>3 DEF Coming
      <4> QED
        BY <1>4, <3>4, <4>1, <4>2, <4>3
    <3>6. PICK k \in 1 .. L + i :
            /\ Made(Coming(c, k), {HandleCount})
            /\ \A j \in k + 1 .. L + i : Precedes(Coming(c, j), e)
      <4>1. L + (i + 1) - 1 = L + i
        BY <1>4, <3>4
      <4> QED
        BY <2>4, <2>8, <3>2, <4>1
    <3>7. /\ Made(Coming(c, k)', {HandleCount})
          /\ \A j \in k + 1 .. L + i : Precedes(Coming(c, j)', e)
      <4>1. \A j \in k .. L + i : j \in 1 .. L + i
        BY <1>4
      <4>2. \A j \in k + 1 .. L + i : j \in k .. L + i
        BY <1>4
      <4>3. k \in k .. L + i
        BY <1>4
      <4> QED
        BY <3>5, <3>6, <4>1, <4>2, <4>3
    <3>8. Len(down'[c]) + i - 1 = L + i
      BY <1>4, <3>4
    <3> QED
      BY <2>4, <2>5, <2>6, <3>7, <3>8 DEF Framed
  <2> QED
    BY <2>7, <2>8
<1>7. CASE Accept \/ Dies \/ \E t \in Sockets : HangsUp(t)
  BY <1>3, <1>7 DEF Accept, PollReturns, Dies, HangsUp
<1>8. ASSUME NEW t \in Sockets, Serve(t), Answers(t)
      PROVE  Framed(i, s, c, e)'
  <2>1. /\ i > 1 /\ Made(outbox'[1].pdu, {HandleCount})
        /\ \A j \in 1 .. i : outbox'[j].to = t
        /\ \A j \in 2 .. i - 1 : Precedes(outbox'[j].pdu, e)
    BY <1>3, <1>8, EntriesListed
  <2>2. s = t /\ s \in OpenSockets' /\ down' = down /\ c \in Clients
    BY <1>1, <1>2, <1>3, <1>4, <1>8, <2>1 DEF Answers, OpenSockets
  <2>3. PICK L \in Nat : L = Len(down'[c])
    BY <1>2, <2>2
  <2>4. \A j \in 1 .. i : Coming(c, L + j)' = outbox'[j].pdu
    BY <1>4, <2>3, <2>2 DEF Coming
  <2>5. Made(Coming(c, L + 1)', {HandleCount})
    BY <1>4, <2>1, <2>4
  <2>6. ASSUME NEW j \in (L + 1) + 1 .. L + i - 1
        PROVE  Precedes(Coming(c, j)', e)
    <3>1. j - L \in 2 .. i - 1 /\ j = L + (j - L)
      BY <1>4, <2>2, <2>6
    <3>2. PICK k \in 2 .. i - 1 : j = L + k
      BY <3>1
    <3>3. Coming(c, L + k)' = outbox'[k].pdu
      BY <1>4, <2>4
    <3> QED
      BY <2>1, <3>2, <3>3
  <2>7. L + 1 \in 1 .. L + i - 1 /\ Len(down'[c]) = L
    BY <1>4, <2>3, <2>1, <2>2
  <2> QED
    BY <2>1, <2>2, <2>5, <2>6, <2>7 DEF Framed
<1> QED
  BY <1>5, <1>6, <1>7, <1>8, StepForms

(* A list stays framed while nothing happens.                              *)
LEMMA ListStutters ==
  ASSUME ListInv, UNCHANGED vars
  PROVE  ListInv'
<1>1. UNCHANGED <<down, owner, outbox, link>> /\ OpenSockets' = OpenSockets
  BY DEF vars, netVars, serverVars, OpenSockets
<1> SUFFICES ASSUME NEW i \in DOMAIN outbox', InList(outbox[i].pdu)'
             PROVE  Framed(i, outbox[i].to, owner[outbox[i].to], outbox[i].pdu)'
  BY DEF ListInv
<1>2. Framed(i, outbox[i].to, owner[outbox[i].to], outbox[i].pdu)
  BY <1>1 DEF ListInv, InList
<1> QED
  BY <1>1, <1>2 DEF Framed, Coming, Precedes

(* UniqueInv and ListInv are inductive, with the other invariants.         *)
THEOREM ListInvHolds == Spec => [](UniqueInv /\ ListInv)
<1>1. Init => UniqueInv /\ ListInv
  BY DEF Init, ServerInit, Table!Init, Table!Occupied, Table!Slots, UniqueInv, ListInv
<1>2. UniqueInv /\ UNCHANGED vars => UniqueInv'
  BY DEF UniqueInv, vars, serverVars, tableVars, Table!Occupied, Table!Slots
<1>3. IInv /\ UniqueInv /\ ListInv /\ [Next]_vars => (UniqueInv /\ ListInv)'
  BY <1>2, UniqueKept, ListKept, ListStutters
<1> QED
  BY <1>1, <1>3, IInvHolds, PTL DEF Spec

(* An entry that is delivered has its count and the other entries before   *)
(* it.                                                                     *)
LEMMA FramedKept ==
  ASSUME IInv, ListInv, \A c \in Clients : EntriesAfterCount(c), Next
  PROVE  \A c \in Clients : EntriesAfterCount(c)'
<1>1. SUFFICES ASSUME NEW c \in Clients, NEW i \in DOMAIN down'[c], NEW e, e = down'[c][i],
                      InList(e)
               PROVE  \E k \in 1 .. i - 1 :
                        /\ Made(down'[c][k], {HandleCount})
                        /\ \A j \in k + 1 .. i - 1 : Precedes(down'[c][j], e)
  BY DEF EntriesAfterCount, InList, Precedes, Made
<1>2. /\ down[c] \in Seq(Pdus) /\ Len(down[c]) \in Nat /\ DOMAIN down[c] = 1 .. Len(down[c])
      /\ \A j \in DOMAIN down[c] : down'[c][j] = down[c][j]
  BY HistoryKept DEF IInv, TypeOK, NetTypeOK
<1>3. CASE i \in DOMAIN down[c]
  <2>1. PICK k \in 1 .. i - 1 :
          /\ Made(down[c][k], {HandleCount})
          /\ \A j \in k + 1 .. i - 1 : Precedes(down[c][j], e)
    <3>1. EntriesAfterCount(c) /\ down[c][i] = e
      BY <1>1, <1>2, <1>3
    <3> QED
      BY <1>1, <1>3, <3>1 DEF EntriesAfterCount, InList, Precedes
  <2>2. \A j \in k .. i - 1 : j \in DOMAIN down[c]
    BY <1>2, <1>3
  <2> QED
    BY <1>2, <1>3, <2>1, <2>2
<1>4. CASE Delivers(c) /\ i = Len(down[c]) + 1 /\ e = outbox[1].pdu
  <2>1. Framed(1, outbox[1].to, c, e) /\ link[c] # "rst"
    BY <1>1, <1>4 DEF ListInv, Delivers
  <2>2. Len(down[c]) + 1 - 1 = i - 1 /\ i - 1 = Len(down[c])
    BY <1>2, <1>4
  <2>3. PICK k \in 1 .. i - 1 :
          /\ Made(Coming(c, k), {HandleCount})
          /\ \A j \in k + 1 .. i - 1 : Precedes(Coming(c, j), e)
    BY <2>1, <2>2 DEF Framed
  <2>4. \A j \in k .. i - 1 : Coming(c, j) = down[c][j] /\ j \in DOMAIN down[c]
    BY <1>2, <2>2 DEF Coming
  <2>5. k \in k .. i - 1 /\ \A j \in k + 1 .. i - 1 : j \in k .. i - 1
    BY <1>2, <2>2
  <2> QED
    BY <1>2, <2>3, <2>4, <2>5
<1> QED
  BY <1>1, <1>3, <1>4, SentLast

(* From its count on, what is left of a list in the outbox is entries and  *)
(* then its end, which is the last PDU there, all for one socket.          *)
OfList(m) == Made(m, {HandleCount, HandleEntry, ListEnd})

RestInv ==
  \A i \in DOMAIN outbox : OfList(outbox[i].pdu) =>
    /\ outbox[i].to \in OpenSockets
    /\ outbox[Len(outbox)] = Sends(outbox[i].to, Pdu(ListEnd))
    /\ outbox[i].pdu.flag = ListEnd => i = Len(outbox)
    /\ outbox[i].pdu.flag # ListEnd => i + 1 \in DOMAIN outbox /\ InList(outbox[i + 1].pdu)

(* When the last that was sent to c is a count or an entry, the outbox     *)
(* goes on with the list.                                                  *)
TailInv ==
  \A c \in Clients :
    LET n == Len(down[c]) IN
    n > 0 /\ link[c] # "rst" /\ Made(down[c][n], {HandleCount, HandleEntry}) =>
      1 \in DOMAIN outbox /\ owner[outbox[1].to] = c /\ InList(outbox[1].pdu)

(* Every handle in the table has its entry.                                *)
LEMMA EveryoneHasAPlace ==
  ASSUME Table!TypeOK, NEW s \in Table!Occupied
  PROVE  \E k \in 1 .. Cardinality(Table!Occupied) : EntryAt(k) = s
<1> DEFINE O == Table!Occupied
           UpTo(i) == {j \in O : j <= i}
<1>1. capacity \in Nat \ {0} /\ O \subseteq 0 .. capacity - 1 /\ \A j \in O : j \in Nat
  BY DEF Table!TypeOK, Table!Occupied, Table!Slots
<1>2. IsFiniteSet(O)
  <2>1. IsFiniteSet(0 .. capacity - 1)
    BY <1>1, FS_Interval
  <2> QED
    BY <1>1, <2>1, FS_Subset
<1>3. \A i \in O : /\ UpTo(i) \in SUBSET O /\ IsFiniteSet(UpTo(i)) /\ i \in UpTo(i)
                   /\ Place(i) = Cardinality(UpTo(i)) /\ Place(i) \in Nat
                   /\ Place(i) <= Cardinality(O)
  <2> TAKE i \in O
  <2>1. UpTo(i) \in SUBSET O /\ i \in UpTo(i)
    BY <1>1
  <2>2. IsFiniteSet(UpTo(i)) /\ Cardinality(UpTo(i)) <= Cardinality(O)
    BY <1>2, <2>1, FS_Subset
  <2>3. Cardinality(UpTo(i)) \in Nat /\ Cardinality(O) \in Nat
    BY <1>2, <2>2, FS_CardinalityType
  <2>4. Place(i) = Cardinality(UpTo(i))
    BY DEF Place
  <2>5. Place(i) \in Nat /\ Place(i) <= Cardinality(O)
    BY <2>2, <2>3, <2>4
  <2> HIDE DEF UpTo, O
  <2> QED
    BY <2>1, <2>2, <2>4, <2>5
<1> HIDE DEF O, UpTo
<1>4. ASSUME NEW i \in O, NEW j \in O, i < j
      PROVE  Place(i) # Place(j)
  <2>1. UpTo(i) \in SUBSET UpTo(j) /\ j \notin UpTo(i) /\ j \in UpTo(j)
    <3>1. i \in Nat /\ j \in Nat
      BY <1>1
    <3>2. \A x \in O : x <= i => x <= j
      BY <1>1, <1>4, <3>1
    <3>3. UpTo(i) \in SUBSET UpTo(j)
      BY <3>2 DEF UpTo
    <3>4. ~(j <= i) /\ j <= j
      BY <1>4, <3>1
    <3> QED
      BY <3>3, <3>4 DEF UpTo
  <2>2. /\ IsFiniteSet(UpTo(j)) /\ UpTo(i) # UpTo(j)
        /\ Place(i) = Cardinality(UpTo(i)) /\ Place(j) = Cardinality(UpTo(j))
    BY <1>3, <2>1
  <2> QED
    BY <2>1, <2>2, FS_Subset
<1>5. Place(s) \in 1 .. Cardinality(O)
  <2>1. Cardinality(O) \in Nat /\ s \in O
    BY <1>2, FS_CardinalityType DEF O
  <2>2. Place(s) # 0
    <3>1. /\ UpTo(s) # {} /\ IsFiniteSet(UpTo(s))
          /\ Place(s) = Cardinality(UpTo(s))
      BY <1>3, <2>1
    <3> QED
      BY <3>1, FS_EmptySet
  <2>3. Place(s) \in Nat /\ Place(s) <= Cardinality(O)
    BY <1>3, <2>1
  <2> QED
    BY <2>1, <2>2, <2>3
<1>6. EntryAt(Place(s)) \in O /\ Place(EntryAt(Place(s))) = Place(s)
  BY <1>5, EntriesAreInTable DEF O
<1>7. EntryAt(Place(s)) = s
  <2>1. PICK e \in O : e = EntryAt(Place(s)) /\ Place(e) = Place(s)
    BY <1>6
  <2>2. s \in O /\ e \in Nat /\ s \in Nat
    BY <1>1 DEF O
  <2>3. ~(e < s) /\ ~(s < e)
    BY <1>4, <2>1, <2>2
  <2> QED
    BY <2>1, <2>2, <2>3
<1> QED
  BY <1>5, <1>7 DEF O

(* The head of a list leaves, and the rest of it stays.                    *)
LEMMA RestKept ==
  ASSUME IInv, RestInv, Next
  PROVE  RestInv'
<1>1. outbox \in Seq(Mail)
  BY DEF IInv, TypeOK, ServerTypeOK, Mail
<1>2. CASE Quiet
  BY <1>2 DEF Quiet, RestInv, OpenSockets
<1>3. CASE Accept \/ Dies \/ \E t \in Sockets : HangsUp(t)
  BY <1>3 DEF Accept, PollReturns, Dies, HangsUp, RestInv
<1>4. CASE SendNext
  <2>1. outbox # <<>> /\ outbox' = Tail(outbox) /\ OpenSockets' = OpenSockets
    BY <1>4 DEF SendNext, OpenSockets
  <2>2. PICK n \in Nat : Len(outbox) = n + 1
    <3>1. Len(outbox) \in Nat /\ Len(outbox) # 0
      BY <1>1, <2>1
    <3>2. Len(outbox) - 1 \in Nat /\ Len(outbox) = (Len(outbox) - 1) + 1
      BY <3>1
    <3> QED
      BY <3>2
  <2>3. /\ DOMAIN outbox = 1 .. n + 1 /\ DOMAIN outbox' = 1 .. n /\ Len(outbox') = n
        /\ \A j \in 1 .. n : outbox'[j] = outbox[j + 1]
    BY <1>1, <2>1, <2>2
  <2> SUFFICES ASSUME NEW i \in 1 .. n, OfList(outbox[i + 1].pdu)
               PROVE  /\ outbox'[i].to \in OpenSockets'
                      /\ outbox'[n] = Sends(outbox'[i].to, Pdu(ListEnd))
                      /\ outbox'[i].pdu.flag = ListEnd => i = n
                      /\ outbox'[i].pdu.flag # ListEnd =>
                           i + 1 \in 1 .. n /\ InList(outbox'[i + 1].pdu)
    BY <2>3 DEF RestInv, OfList, InList, Made, Sends
  <2>4. i + 1 \in 1 .. n + 1 /\ n \in 1 .. n
    BY <2>2
  <2>5. /\ outbox[i + 1].to \in OpenSockets
        /\ outbox[n + 1] = Sends(outbox[i + 1].to, Pdu(ListEnd))
        /\ outbox[i + 1].pdu.flag = ListEnd => i + 1 = n + 1
        /\ outbox[i + 1].pdu.flag # ListEnd =>
             (i + 1) + 1 \in 1 .. n + 1 /\ InList(outbox[(i + 1) + 1].pdu)
    BY <2>2, <2>3, <2>4 DEF RestInv
  <2>6. (i + 1) + 1 \in 1 .. n + 1 => i + 1 \in 1 .. n
    BY <2>2
  <2> QED
    BY <2>1, <2>2, <2>3, <2>4, <2>5, <2>6
<1>5. ASSUME NEW t \in Sockets, Serve(t), Answers(t)
      PROVE  RestInv'
  <2> SUFFICES ASSUME NEW i \in DOMAIN outbox', OfList(outbox'[i].pdu)
               PROVE  /\ outbox'[i].to \in OpenSockets'
                      /\ outbox'[Len(outbox')] = Sends(outbox'[i].to, Pdu(ListEnd))
                      /\ outbox'[i].pdu.flag = ListEnd => i = Len(outbox')
                      /\ outbox'[i].pdu.flag # ListEnd =>
                           i + 1 \in DOMAIN outbox' /\ InList(outbox'[i + 1].pdu)
    BY DEF RestInv, OfList, InList, Made, Sends
  <2>1. PICK n \in Nat :
          /\ Len(outbox') = n + 2 /\ DOMAIN outbox' = 1 .. n + 2
          /\ outbox'[1] = Sends(t, Count) /\ outbox'[n + 2] = Sends(t, Pdu(ListEnd))
          /\ \A k \in 1 .. n : \E h : outbox'[k + 1] = Sends(t, Naming(HandleEntry, h))
    BY <1>5, ListForm DEF OfList
  <2>2. /\ \A m : Sends(t, m).to = t /\ Sends(t, m).pdu = m
        /\ \A h : Naming(HandleEntry, h).flag = HandleEntry /\ InList(Naming(HandleEntry, h))
        /\ Pdu(ListEnd).flag = ListEnd /\ InList(Pdu(ListEnd))
        /\ Count.flag = HandleCount /\ HandleCount # ListEnd /\ HandleEntry # ListEnd
    BY DEF Sends, Naming, Pdu, InList, Made, Count, HandleCount, HandleEntry, ListEnd
  <2>3. \A k \in 1 .. n : /\ outbox'[k + 1].to = t /\ outbox'[k + 1].pdu.flag = HandleEntry
                          /\ InList(outbox'[k + 1].pdu)
    BY <2>1, <2>2
  <2>4. outbox'[1].to = t /\ outbox'[n + 2].to = t /\ outbox'[n + 2].pdu = Pdu(ListEnd)
    BY <2>1, <2>2
  <2>5. i = n + 2 \/ \E k \in 0 .. n : i = k + 1
    <3>1. i = n + 2 \/ (i - 1 \in 0 .. n /\ i = (i - 1) + 1)
      BY <2>1
    <3> QED
      BY <3>1
  <2>6. t \in OpenSockets'
    BY <1>5 DEF Answers, OpenSockets
  <2>7. CASE i = n + 2
    BY <2>1, <2>2, <2>4, <2>6, <2>7
  <2>8. CASE \E k \in 0 .. n : i = k + 1
    <3>1. PICK k \in 0 .. n : i = k + 1
      BY <2>8
    <3>2. outbox'[i].to = t /\ outbox'[i].pdu.flag # ListEnd
      <4>1. CASE k = 0
        BY <2>1, <2>2, <2>4, <3>1, <4>1
      <4>2. CASE k # 0
        <5>1. k \in 1 .. n
          BY <4>2
        <5> QED
          BY <2>2, <2>3, <3>1, <5>1
      <4> QED
        BY <4>1, <4>2
    <3>3. i + 1 \in 1 .. n + 2 /\ InList(outbox'[i + 1].pdu)
      <4>1. CASE k = n
        <5>1. i + 1 = n + 2
          BY <3>1, <4>1
        <5> QED
          BY <2>2, <2>4, <5>1
      <4>2. CASE k # n
        <5>1. k + 1 \in 1 .. n /\ (k + 1) + 1 \in 1 .. n + 2
          BY <4>2
        <5> QED
          BY <2>3, <3>1, <5>1
      <4> QED
        BY <4>1, <4>2
    <3> QED
      BY <2>1, <2>6, <3>2, <3>3
  <2> QED
    BY <2>5, <2>7, <2>8
<1> QED
  BY <1>2, <1>3, <1>4, <1>5, StepForms

(* What the sent list still lacks is for the same client.                  *)
LEMMA HeadIsForTheList ==
  ASSUME IInv, RestInv, 1 \in DOMAIN outbox, OfList(outbox[1].pdu)
  PROVE  /\ outbox[1].to \in OpenSockets /\ outbox[Len(outbox)] = Sends(outbox[1].to, Pdu(ListEnd))
         /\ outbox # <<>>
         /\ owner[outbox[1].to] \in Clients /\ Listing(owner[outbox[1].to])
<1>1. /\ outbox[1].to \in OpenSockets
      /\ outbox[Len(outbox)] = Sends(outbox[1].to, Pdu(ListEnd))
  BY DEF RestInv
<1>2. outbox # <<>>
  OBVIOUS
<1>3. owner[outbox[1].to] \in Clients
  BY <1>1, MailTyped
<1> QED
  BY <1>1, <1>2, <1>3 DEF Listing, Sends

(* A count or an entry that is delivered is followed in the outbox.        *)
LEMMA TailKept ==
  ASSUME IInv, RestInv, TailInv, Next
  PROVE  TailInv'
<1> SUFFICES ASSUME NEW c \in Clients, Len(down'[c]) > 0, link'[c] # "rst",
                    Made(down'[c][Len(down'[c])], {HandleCount, HandleEntry})
             PROVE  1 \in DOMAIN outbox' /\ owner'[outbox'[1].to] = c /\ InList(outbox'[1].pdu)
  BY DEF TailInv, Made, InList
<1>1. /\ outbox \in Seq(Mail) /\ down[c] \in Seq(Pdus) /\ down'[c] \in Seq(Pdus)
      /\ link[c] # "rst"
  BY NetTypeKept, CausesLast DEF IInv, TypeOK, NetTypeOK, ServerTypeOK, Mail
<1>2. ASSUME down'[c] = down[c]
      PROVE  1 \in DOMAIN outbox /\ owner[outbox[1].to] = c /\ InList(outbox[1].pdu)
  BY <1>1, <1>2 DEF TailInv
<1>3. CASE Quiet
  BY <1>2, <1>3 DEF Quiet
<1>4. CASE \/ Accept \/ Dies \/ \E t \in Sockets : Serve(t) /\ Answers(t)
           \/ \E t \in Sockets : HangsUp(t)
  <2>1. /\ outbox = <<>> \/ \E s : outbox = <<Sends(s, Pdu(ExitAck))>>
        /\ \/ down' = down
           \/ \E d : down' = [down EXCEPT ![d] = Append(@, Pdu(ExitAck))]
    BY <1>4 DEF Accept, PollReturns, Dies, HangsUp, Answers, netVars
  <2>2. /\ ~InList(Pdu(ExitAck)) /\ ~Made(Pdu(ExitAck), {HandleCount, HandleEntry})
        /\ Pdu(ExitAck) \in Pdus /\ \A s : Sends(s, Pdu(ExitAck)).pdu = Pdu(ExitAck)
    BY BlankPdu, FlagsAreBytes
    DEF InList, Made, Pdu, ExitAck, HandleCount, HandleEntry, ListEnd, Sends
  <2>3. down'[c] # down[c]
    BY <1>2, <2>1, <2>2
  <2>4. down'[c] = Append(down[c], Pdu(ExitAck))
    BY <2>1, <2>3 DEF IInv, TypeOK, NetTypeOK
  <2>5. down'[c][Len(down'[c])] = Pdu(ExitAck)
    BY <1>1, <2>2, <2>4, AppendProperties
  <2> QED
    BY <2>2, <2>5
<1>5. CASE SendNext
  <2>1. /\ outbox # <<>> /\ outbox' = Tail(outbox) /\ owner' = owner
        /\ \/ down' = down
              /\ (Head(outbox).to \in OpenSockets => link[owner[Head(outbox).to]] = "rst")
           \/ down' = [down EXCEPT ![owner[Head(outbox).to]] = Append(@, Head(outbox).pdu)]
    BY <1>5 DEF SendNext
  <2>2. /\ Head(outbox) = outbox[1] /\ 1 \in DOMAIN outbox /\ outbox[1].pdu \in Pdus
        /\ 2 \in DOMAIN outbox => 1 \in DOMAIN outbox' /\ outbox'[1] = outbox[2]
    <3>1. outbox[1] \in Mail
      BY <1>1, <2>1
    <3> QED
      BY <1>1, <2>1, <3>1 DEF Mail
  <2>3. down'[c] # down[c]
    <3> SUFFICES ASSUME down'[c] = down[c] PROVE FALSE
      OBVIOUS
    <3>1. owner[outbox[1].to] = c /\ InList(outbox[1].pdu)
      BY <1>2
    <3>2. outbox[1].to \in OpenSockets
      BY <2>2, <3>1, HeadIsForTheList DEF OfList, InList, Made
    <3>3. down'[c] = Append(down[c], outbox[1].pdu)
      BY <1>1, <2>1, <2>2, <3>1, <3>2 DEF IInv, TypeOK, NetTypeOK
    <3> QED
      BY <1>1, <2>2, <3>3, AppendProperties
  <2>4. owner[outbox[1].to] = c /\ down'[c] = Append(down[c], outbox[1].pdu)
    BY <2>1, <2>2, <2>3 DEF IInv, TypeOK, NetTypeOK
  <2>5. down'[c][Len(down'[c])] = outbox[1].pdu
    BY <1>1, <2>2, <2>4, AppendProperties
  <2>6. OfList(outbox[1].pdu) /\ outbox[1].pdu.flag # ListEnd
    BY <2>5 DEF OfList, Made, HandleCount, HandleEntry, ListEnd
  <2>7. 2 \in DOMAIN outbox /\ InList(outbox[2].pdu)
    BY <2>2, <2>6 DEF RestInv
  <2>8. Sends(outbox[1].to, Pdu(ListEnd)) = Sends(outbox[2].to, Pdu(ListEnd))
    BY <2>2, <2>6, <2>7 DEF RestInv, OfList, InList, Made
  <2>9. outbox[2].to = outbox[1].to
    BY <2>8 DEF Sends
  <2> QED
    BY <2>1, <2>2, <2>4, <2>7, <2>9
<1> QED
  BY <1>3, <1>4, <1>5, StepForms

(* After a count or an entry that was sent last, the list goes on.         *)
LEMMA GoesOnKept ==
  ASSUME IInv, RestInv, TailInv, NEW c \in Clients, ListGoesOn(c), Next
  PROVE  ListGoesOn(c)'
<1> SUFFICES ASSUME NEW i \in DOMAIN down'[c],
                    Made(down'[c][i], {HandleCount, HandleEntry})
             PROVE  IF i < Len(down'[c]) THEN InList(down'[c][i + 1])
                    ELSE Listing(c)' \/ link'[c] = "rst"
  BY DEF ListGoesOn, Made, InList
<1>1. /\ down[c] \in Seq(Pdus) /\ down'[c] \in Seq(Pdus)
      /\ i \in Nat /\ Len(down'[c]) \in Nat /\ i <= Len(down'[c]) /\ Len(down'[c]) > 0
  <2>1. down'[c] \in Seq(Pdus)
    BY NetTypeKept DEF NetTypeOK
  <2> QED
    BY <2>1 DEF IInv, TypeOK, NetTypeOK
<1>2. CASE i < Len(down'[c])
  <2>1. i + 1 \in DOMAIN down'[c]
    BY <1>1, <1>2
  <2>2. CASE i + 1 \in DOMAIN down[c] /\ down'[c][i + 1] = down[c][i + 1]
    <3>1. i \in DOMAIN down[c] /\ i < Len(down[c])
      BY <1>1, <2>2
    <3>2. down'[c][i] = down[c][i]
      BY <3>1, HistoryKept
    <3> QED
      BY <1>2, <2>2, <3>1, <3>2 DEF ListGoesOn, InList, Made
  <2>3. CASE Delivers(c) /\ i + 1 = Len(down[c]) + 1 /\ down'[c][i + 1] = outbox[1].pdu
    <3>1. i = Len(down[c]) /\ i \in DOMAIN down[c] /\ i > 0
      BY <1>1, <2>3
    <3>2. down'[c][i] = down[c][i] /\ link[c] # "rst"
      BY <2>3, <3>1, HistoryKept DEF Delivers
    <3>3. InList(outbox[1].pdu)
      BY <3>1, <3>2 DEF TailInv
    <3> QED
      BY <1>2, <2>3, <3>3
  <2> QED
    BY <2>1, <2>2, <2>3, SentLast
<1>3. CASE ~(i < Len(down'[c])) /\ link'[c] # "rst"
  <2>1. i = Len(down'[c])
    BY <1>1, <1>3
  <2>2. /\ 1 \in DOMAIN outbox' /\ owner'[outbox'[1].to] = c
        /\ Made(outbox'[1].pdu, {HandleEntry, ListEnd})
    <3>1. TailInv'
      BY TailKept
    <3> QED
      BY <1>1, <1>3, <2>1, <3>1 DEF TailInv, InList, Made
  <2>3. /\ outbox'[1].to \in OpenSockets'
        /\ outbox'[Len(outbox')] = Sends(outbox'[1].to, Pdu(ListEnd))
    <3>1. RestInv'
      BY RestKept
    <3> QED
      BY <2>2, <3>1 DEF RestInv, OfList, Made, Sends
  <2>4. outbox' # <<>>
    BY <2>2
  <2> QED
    BY <1>3, <2>2, <2>3, <2>4 DEF Listing, Sends
<1> QED
  BY <1>2, <1>3

(* The handler puts every handle in the outbox, and what leaves it arrives.*)
LEMMA AllListedKept ==
  ASSUME IInv, RestInv, TailInv, NEW c \in Clients, AllAreListed(c), Next
  PROVE  AllAreListed(c)'
<1> SUFFICES ASSUME Listing(c)', link'[c] # "rst", NEW s \in Table!Occupied',
                    NEW e, e = Naming(HandleEntry, table'[s])
             PROVE  \/ \E i \in DOMAIN outbox' : outbox'[i].pdu = e
                    \/ \E i \in DOMAIN down'[c] :
                         /\ down'[c][i] = e
                         /\ \A j \in i .. Len(down'[c]) : Made(down'[c][j], {HandleEntry})
  BY DEF AllAreListed, Made, Naming, Pdu
<1>1. /\ outbox \in Seq(Mail) /\ down[c] \in Seq(Pdus) /\ link[c] # "rst"
  BY CausesLast DEF IInv, TypeOK, NetTypeOK, ServerTypeOK, Mail
<1>2. /\ outbox' # <<>> /\ outbox'[Len(outbox')].pdu = Pdu(ListEnd)
      /\ outbox'[Len(outbox')].to \in OpenSockets' /\ owner'[outbox'[Len(outbox')].to] = c
  BY DEF Listing
<1>3. ASSUME Listing(c), UNCHANGED tableVars
      PROVE  \/ \E i \in DOMAIN outbox : outbox[i].pdu = e
             \/ \E i \in DOMAIN down[c] :
                  /\ down[c][i] = e
                  /\ \A j \in i .. Len(down[c]) : Made(down[c][j], {HandleEntry})
  <2>1. Table!Occupied' = Table!Occupied /\ table' = table
    BY <1>3 DEF tableVars, Table!Occupied, Table!Slots
  <2> QED
    BY <1>1, <1>3, <2>1 DEF AllAreListed
<1>4. CASE Quiet
  <2>1. Listing(c)
    BY <1>2, <1>4 DEF Quiet, Listing, OpenSockets
  <2> QED
    BY <1>3, <1>4, <2>1 DEF Quiet
<1>5. CASE Accept \/ Dies \/ \E t \in Sockets : HangsUp(t)
  BY <1>2, <1>5 DEF Accept, PollReturns, Dies, HangsUp
<1>6. ASSUME NEW t \in Sockets, Serve(t), Answers(t)
      PROVE  \E i \in DOMAIN outbox' : outbox'[i].pdu = e
  <2>1. Len(outbox') \in DOMAIN outbox'
    <3>1. outbox' \in Seq(Mail)
      BY <1>6 DEF Answers
    <3> QED
      BY <1>2, <3>1
  <2>2. Made(outbox'[Len(outbox')].pdu, {HandleCount, HandleEntry, ListEnd})
    BY <1>2 DEF Made, Pdu
  <2> DEFINE n == Cardinality(Table!Occupied)
  <2>3. /\ ServeList(t) /\ n \in Nat /\ DOMAIN outbox' = 1 .. n + 2
        /\ \A k \in 1 .. n : outbox'[k + 1] = Sends(t, Naming(HandleEntry, table[EntryAt(k)]))
    BY <1>6, <2>1, <2>2, ListForm
  <2>4. Table!Occupied' = Table!Occupied /\ table' = table
    BY <2>3 DEF ServeList, tableVars, Table!Occupied, Table!Slots
  <2>5. PICK k \in 1 .. n : EntryAt(k) = s
    BY <2>4, EveryoneHasAPlace DEF IInv, TypeOK, ServerTypeOK
  <2> HIDE DEF n
  <2>6. k + 1 \in DOMAIN outbox'
    BY <2>3
  <2>7. outbox'[k + 1] = Sends(t, e)
    <3>1. outbox'[k + 1] = Sends(t, Naming(HandleEntry, table[EntryAt(k)]))
      BY <2>3
    <3> QED
      BY <2>4, <2>5, <3>1
  <2>8. outbox'[k + 1].pdu = e
    BY <2>7 DEF Sends
  <2> QED
    BY <2>6, <2>8
<1>7. CASE SendNext
  <2>1. /\ outbox # <<>> /\ outbox' = Tail(outbox) /\ owner' = owner /\ UNCHANGED tableVars
        /\ \/ down' = down
              /\ (Head(outbox).to \in OpenSockets => link[owner[Head(outbox).to]] = "rst")
           \/ down' = [down EXCEPT ![owner[Head(outbox).to]] = Append(@, Head(outbox).pdu)]
    BY <1>7 DEF SendNext
  <2>2. PICK n \in Nat : Len(outbox) = n + 1
    <3>1. Len(outbox) \in Nat /\ Len(outbox) # 0
      BY <1>1, <2>1
    <3>2. Len(outbox) - 1 \in Nat /\ Len(outbox) = (Len(outbox) - 1) + 1
      BY <3>1
    <3> QED
      BY <3>2
  <2>3. /\ DOMAIN outbox = 1 .. n + 1 /\ DOMAIN outbox' = 1 .. n /\ Len(outbox') = n
        /\ \A j \in 1 .. n : outbox'[j] = outbox[j + 1]
        /\ Head(outbox) = outbox[1] /\ 1 \in DOMAIN outbox /\ n # 0
    BY <1>1, <1>2, <2>1, <2>2
  <2>4. outbox'[n] = outbox[Len(outbox)]
    BY <2>2, <2>3
  <2>5. Listing(c)
    BY <1>2, <2>1, <2>3, <2>4 DEF Listing, OpenSockets
  <2>6. outbox[1].pdu \in Pdus
    BY <2>3, MailTyped
  <2>7. ASSUME OfList(outbox[1].pdu)
        PROVE  down'[c] = Append(down[c], outbox[1].pdu)
    <3>1. outbox[1].to \in OpenSockets /\ outbox[Len(outbox)] = Sends(outbox[1].to, Pdu(ListEnd))
      BY <2>3, <2>7, HeadIsForTheList
    <3>2. owner[outbox[1].to] = c
      BY <1>2, <2>1, <2>3, <2>4, <3>1 DEF Sends
    <3> QED
      BY <1>1, <2>1, <2>3, <3>1, <3>2 DEF IInv, TypeOK, NetTypeOK
  <2>8. ASSUME OfList(outbox[1].pdu)
        PROVE  /\ Len(down'[c]) = Len(down[c]) + 1 /\ Len(down[c]) \in Nat
               /\ DOMAIN down'[c] = 1 .. Len(down[c]) + 1
               /\ down'[c][Len(down[c]) + 1] = outbox[1].pdu
               /\ \A j \in 1 .. Len(down[c]) : down'[c][j] = down[c][j]
    BY <1>1, <2>6, <2>7, <2>8, AppendProperties
  <2>9. CASE \E i \in DOMAIN outbox : outbox[i].pdu = e
    <3>1. PICK i \in DOMAIN outbox : outbox[i].pdu = e
      BY <2>9
    <3>2. CASE i = 1
      <4>1. OfList(outbox[1].pdu) /\ Made(e, {HandleEntry})
        BY <3>1, <3>2 DEF OfList, Made, Naming, Pdu
      <4> DEFINE m == Len(down[c]) + 1
      <4>2. /\ m \in DOMAIN down'[c] /\ down'[c][m] = e
            /\ \A j \in m .. Len(down'[c]) : j = m
        BY <2>8, <3>1, <3>2, <4>1
      <4> QED
        BY <4>1, <4>2
    <3>3. CASE i # 1
      <4>1. i - 1 \in 1 .. n /\ (i - 1) + 1 = i
        BY <2>3, <3>3
      <4>2. outbox'[i - 1] = outbox[i]
        BY <2>3, <4>1
      <4> QED
        BY <2>3, <3>1, <4>1, <4>2
    <3> QED
      BY <3>2, <3>3
  <2>10. CASE \E i \in DOMAIN down[c] :
                /\ down[c][i] = e
                /\ \A j \in i .. Len(down[c]) : Made(down[c][j], {HandleEntry})
    <3>1. PICK i \in DOMAIN down[c] :
                /\ down[c][i] = e
                /\ \A j \in i .. Len(down[c]) : Made(down[c][j], {HandleEntry})
      BY <2>10
    <3>2. Len(down[c]) \in Nat /\ i \in 1 .. Len(down[c])
      BY <1>1
    <3>3. Made(down[c][Len(down[c])], {HandleEntry})
      <4>1. Len(down[c]) \in i .. Len(down[c])
        BY <3>2
      <4> QED
        BY <3>1, <4>1
    <3>4. InList(outbox[1].pdu)
      BY <1>1, <3>2, <3>3 DEF TailInv, Made
    <3>5. outbox[1].pdu.flag # ListEnd
      <4> SUFFICES ASSUME outbox[1].pdu.flag = ListEnd PROVE FALSE
        OBVIOUS
      <4>1. 1 = Len(outbox)
        BY <2>3, <3>4 DEF RestInv, OfList, InList, Made
      <4> QED
        BY <2>2, <2>3, <4>1
    <3>6. OfList(outbox[1].pdu) /\ Made(outbox[1].pdu, {HandleEntry})
      BY <3>4, <3>5 DEF InList, OfList, Made
    <3>7. \A j \in i .. Len(down'[c]) : Made(down'[c][j], {HandleEntry})
      <4> SUFFICES ASSUME NEW j \in i .. Len(down[c]) + 1
                   PROVE  Made(down'[c][j], {HandleEntry})
        BY <2>8, <3>6
      <4>1. j = Len(down[c]) + 1 \/ (j \in i .. Len(down[c]) /\ j \in 1 .. Len(down[c]))
        BY <3>2
      <4> QED
        BY <2>8, <3>1, <3>6, <4>1
    <3>8. i \in DOMAIN down'[c] /\ down'[c][i] = e
      BY <2>8, <3>1, <3>2, <3>6
    <3> QED
      BY <3>7, <3>8
  <2> QED
    BY <1>3, <2>1, <2>5, <2>9, <2>10
<1> QED
  BY <1>4, <1>5, <1>6, <1>7, StepForms

(* RestInv and TailInv are inductive, with the other invariants.           *)
THEOREM TailInvHolds == Spec => [](RestInv /\ TailInv)
<1>1. Init => RestInv /\ TailInv
  BY DEF Init, NetInit, ServerInit, RestInv, TailInv
<1>2. RestInv /\ TailInv /\ UNCHANGED vars => RestInv' /\ TailInv'
  BY DEF RestInv, TailInv, OpenSockets, vars, netVars, serverVars
<1>3. IInv /\ RestInv /\ TailInv /\ [Next]_vars => (RestInv /\ TailInv)'
  BY <1>2, RestKept, TailKept
<1> QED
  BY <1>1, <1>3, IInvHolds, PTL DEF Spec

(* A list arrives whole and on its own: its count, an entry for every      *)
(* handle in the table, each once and with nothing in between, and its     *)
(* end; only a reset breaks it off.                                        *)
THEOREM ListsStayFramed == Spec => []ListIsFramed
<1>1. Init => ListIsFramed
  <2>1. ASSUME Init, NEW c \in Clients
        PROVE  EntriesAfterCount(c) /\ ListGoesOn(c) /\ AllAreListed(c)
    BY <2>1 DEF Init, NetInit, ServerInit, EntriesAfterCount, ListGoesOn, AllAreListed, Listing
  <2> QED
    BY <2>1 DEF ListIsFramed
<1>2. ASSUME ListIsFramed, UNCHANGED vars
      PROVE  ListIsFramed'
  <2>1. /\ UNCHANGED <<down, outbox, owner, link, table, capacity>>
        /\ OpenSockets' = OpenSockets /\ Table!Occupied' = Table!Occupied
    BY <1>2 DEF vars, netVars, serverVars, tableVars, OpenSockets, Table!Occupied, Table!Slots
  <2> SUFFICES ASSUME NEW c \in Clients
               PROVE  EntriesAfterCount(c)' /\ ListGoesOn(c)' /\ AllAreListed(c)'
    BY DEF ListIsFramed
  <2>2. EntriesAfterCount(c) /\ ListGoesOn(c) /\ AllAreListed(c)
    BY <1>2 DEF ListIsFramed
  <2>3. Listing(c)' <=> Listing(c)
    BY <2>1 DEF Listing
  <2>4. EntriesAfterCount(c)'
    BY <2>1, <2>2 DEF EntriesAfterCount
  <2>5. ListGoesOn(c)'
    BY <2>1, <2>2, <2>3 DEF ListGoesOn
  <2>6. AllAreListed(c)'
    BY <2>1, <2>2, <2>3 DEF AllAreListed
  <2> QED
    BY <2>4, <2>5, <2>6
<1>3. ASSUME IInv, ListInv, RestInv, TailInv, ListIsFramed, Next
      PROVE  ListIsFramed'
  <2>1. \A c \in Clients : EntriesAfterCount(c) /\ ListGoesOn(c) /\ AllAreListed(c)
    BY <1>3 DEF ListIsFramed
  <2>2. \A c \in Clients : EntriesAfterCount(c)'
    BY <1>3, <2>1, FramedKept
  <2>3. \A c \in Clients : ListGoesOn(c)' /\ AllAreListed(c)'
    BY <1>3, <2>1, GoesOnKept, AllListedKept
  <2> QED
    BY <2>2, <2>3 DEF ListIsFramed
<1>4. IInv /\ ListInv /\ RestInv /\ TailInv /\ ListIsFramed /\ [Next]_vars => ListIsFramed'
  BY <1>2, <1>3
<1> QED
  BY <1>1, <1>4, IInvHolds, ListInvHolds, TailInvHolds, PTL DEF Spec

----------------------------------------------------------------------------
(* Deliveries                                                              *)

Short(req) == req.flag = Message /\ ChunkFlags[req.text] = <<>>

(* m comes from request i of c.                                            *)
From(m, c, i) == m.by = c /\ m.id = i

NoneSent(c, i) == \A d \in Clients : \A k \in DOMAIN down[d] : ~From(down[d][k], c, i)

OneSent(c, i) ==
  \E d \in Clients : \E j \in DOMAIN down[d] :
    \A e \in Clients : \A k \in DOMAIN down[e] :
      From(down[e][k], c, i) <=> e = d /\ k = j

(* While no connection is reset, a short message that was taken is either  *)
(* at the head of the outbox and about to be sent, or sent, and once.      *)
OneOutcome(c, i) ==
  \/ /\ 1 \in DOMAIN outbox /\ outbox[1].to \in OpenSockets
     /\ \A k \in DOMAIN outbox : From(outbox[k].pdu, c, i) <=> k = 1
     /\ NoneSent(c, i)
  \/ /\ \A k \in DOMAIN outbox : ~From(outbox[k].pdu, c, i)
     /\ OneSent(c, i)

NoneReset == status = "running" /\ \A d \in Clients : link[d] # "rst"

DeliverInv ==
  NoneReset =>
    \A c \in Clients : \A i \in 1 .. taken[c] : Short(up[c][i]) => OneOutcome(c, i)

(* Flag 5 is handled by relaying.                                          *)
LEMMA ShortRelays ==
  ASSUME IInv, NEW t \in Sockets, Serve(t), Answers(t), NextRequest(owner[t]).flag = Message
  PROVE  Relays(t)
<1>1. ~ServeEof(t)
  BY DEF Answers, ServeEof
<1> QED
  BY <1>1, MessageRelays DEF Serve, ServeConnect, ServeMulticast, ServeList, ServeExit, Takes,
         Connect, Message, Multicast, List, Exit

(* What is sent meanwhile that does not come from the request.             *)
LEMMA OthersSent ==
  ASSUME IInv, Next, NEW c \in Clients, NEW i,
         \A d \in Clients : Delivers(d) => ~From(outbox[1].pdu, c, i)
  PROVE  /\ NoneSent(c, i) => NoneSent(c, i)'
         /\ OneSent(c, i) => OneSent(c, i)'
<1>1. \A d \in Clients : \A k \in DOMAIN down[d] :
        k \in DOMAIN down'[d] /\ down'[d][k] = down[d][k]
  BY HistoryKept
<1>2. \A d \in Clients : \A k \in DOMAIN down'[d] :
        From(down'[d][k], c, i) => k \in DOMAIN down[d] /\ down'[d][k] = down[d][k]
  BY SentLast
<1> QED
  BY <1>1, <1>2 DEF NoneSent, OneSent, From

(* A request that is taken puts one PDU in the outbox, and that PDU moves  *)
(* to one stream.                                                          *)
LEMMA DeliverKept ==
  ASSUME IInv, MailInv, DeliverInv, Next
  PROVE  DeliverInv'
<1> SUFFICES ASSUME NoneReset', NEW c \in Clients, NEW i \in 1 .. taken'[c],
                    Short(up'[c][i])
             PROVE  OneOutcome(c, i)'
  BY DEF DeliverInv, Short
<1>1. /\ status' = "running" /\ \A d \in Clients : link[d] # "rst" /\ link'[d] # "rst"
      /\ taken[c] \in Nat /\ taken'[c] \in Nat
  BY CausesLast, HistoryKept DEF NoneReset
<1>2. ASSUME i \in 1 .. taken[c], status = "running"
      PROVE  OneOutcome(c, i)
  BY <1>1, <1>2, HistoryKept DEF DeliverInv, NoneReset, Short
<1>3. CASE Quiet
  <2>1. OneOutcome(c, i)
    BY <1>1, <1>2, <1>3 DEF Quiet
  <2> QED
    BY <1>3, <2>1 DEF Quiet, OneOutcome, NoneSent, OneSent, From, OpenSockets
<1>4. CASE Accept \/ \E t \in Sockets : HangsUp(t)
  <2>1. status = "running" /\ taken' = taken /\ outbox' = <<>>
        /\ (outbox # <<>> => outbox[1].pdu = Pdu(ExitAck))
    BY <1>4 DEF Accept, PollReturns, HangsUp, Sends
  <2>2. OneOutcome(c, i)
    BY <1>2, <2>1
  <2>3. \A f : ~From(Pdu(f), c, i)
    BY SendersAssumption DEF From, Pdu
  <2>4. OneSent(c, i)
    BY <2>1, <2>2, <2>3 DEF OneOutcome
  <2>5. OneSent(c, i)'
    BY <2>1, <2>3, <2>4, OthersSent DEF Delivers
  <2> QED
    BY <2>1, <2>5 DEF OneOutcome
<1>5. CASE SendNext
  <2>1. /\ status = "running" /\ taken' = taken /\ outbox # <<>> /\ outbox' = Tail(outbox)
        /\ Head(outbox).to \in OpenSockets =>
             down' = [down EXCEPT ![owner[Head(outbox).to]] = Append(@, Head(outbox).pdu)]
    BY <1>1, <1>5, MailTyped DEF SendNext
  <2>2. /\ Head(outbox) = outbox[1] /\ 1 \in DOMAIN outbox
        /\ \A j \in DOMAIN outbox' :
             j \in Nat \ {0} /\ j + 1 \in DOMAIN outbox /\ outbox'[j] = outbox[j + 1]
    <3>1. outbox \in Seq(Mail)
      BY DEF IInv, TypeOK, ServerTypeOK, Mail
    <3> QED
      BY <2>1, <3>1
  <2>3. OneOutcome(c, i)
    BY <1>2, <2>1
  <2>4. CASE ~From(outbox[1].pdu, c, i)
    <3>1. OneSent(c, i)' /\ \A k \in DOMAIN outbox : ~From(outbox[k].pdu, c, i)
      BY <2>2, <2>3, <2>4, OthersSent DEF OneOutcome
    <3>2. \A k \in DOMAIN outbox' : ~From(outbox'[k].pdu, c, i)
      BY <2>2, <3>1
    <3> QED
      BY <3>1, <3>2 DEF OneOutcome, From
  <2>5. CASE From(outbox[1].pdu, c, i)
    <3>1. /\ NoneSent(c, i) /\ outbox[1].to \in OpenSockets
          /\ \A k \in DOMAIN outbox : From(outbox[k].pdu, c, i) <=> k = 1
      BY <2>2, <2>3, <2>5 DEF OneOutcome
    <3>2. \A k \in DOMAIN outbox' : ~From(outbox'[k].pdu, c, i)
      <4>1. \A k \in DOMAIN outbox' : k + 1 # 1
        BY <2>2
      <4> QED
        BY <2>2, <3>1, <4>1
    <3>3. PICK d \in Clients : d = owner[outbox[1].to]
      BY <3>1, MailTyped
    <3>4. outbox[1].pdu \in Pdus
      BY <2>2, MailTyped
    <3>5. down[d] \in Seq(Pdus) /\ down'[d] = Append(down[d], outbox[1].pdu)
      BY <2>1, <2>2, <3>1, <3>3 DEF IInv, TypeOK, NetTypeOK
    <3>6. PICK j \in DOMAIN down'[d] : down'[d][j] = outbox[1].pdu /\ j \notin DOMAIN down[d]
                                       /\ DOMAIN down'[d] = DOMAIN down[d] \cup {j}
      <4>1. /\ Len(down[d]) \in Nat /\ DOMAIN down[d] = 1 .. Len(down[d])
            /\ DOMAIN down'[d] = 1 .. Len(down[d]) + 1
            /\ down'[d][Len(down[d]) + 1] = outbox[1].pdu
        BY <3>4, <3>5, AppendProperties
      <4>2. Len(down[d]) + 1 \notin 1 .. Len(down[d])
            /\ 1 .. Len(down[d]) + 1 = 1 .. Len(down[d]) \cup {Len(down[d]) + 1}
        BY <4>1
      <4> QED
        BY <4>1, <4>2
    <3>7. \A e \in Clients \ {d} : down'[e] = down[e]
      BY <2>1, <2>2, <3>1, <3>3 DEF IInv, TypeOK, NetTypeOK
    <3>8. \A e \in Clients : \A k \in DOMAIN down'[e] :
            From(down'[e][k], c, i) <=> e = d /\ k = j
      <4>1. \A k \in DOMAIN down[d] : down'[d][k] = down[d][k]
        BY HistoryKept
      <4> QED
        BY <2>5, <3>1, <3>6, <3>7, <4>1 DEF NoneSent
    <3>9. OneSent(c, i)'
      BY <3>6, <3>8 DEF OneSent, From
    <3> QED
      BY <3>2, <3>9 DEF OneOutcome, From
  <2> QED
    BY <2>4, <2>5
<1>6. ASSUME NEW t \in Sockets, Serve(t), Answers(t)
      PROVE  OneOutcome(c, i)'
  <2> DEFINE b == owner[t]
             req == NextRequest(b)
  <2>1. /\ owner' = owner /\ b \in Clients /\ status = "running" /\ outbox = <<>>
        /\ taken[b] \in Nat /\ up' = up /\ down' = down
        /\ req = up[b][taken[b] + 1]
        /\ taken' = [taken EXCEPT ![b] = @ + 1] /\ OpenSockets' = OpenSockets
    BY <1>6 DEF Answers, NextRequest, IInv, TypeOK, NetTypeOK, OpenSockets, ServerTypeOK
  <2>2. CASE i \in 1 .. taken[c]
    <3>1. OneSent(c, i)
      BY <1>2, <2>1, <2>2 DEF OneOutcome
    <3>2. \A k \in DOMAIN outbox' : ~From(outbox'[k].pdu, c, i)
      <4>1. CASE Replies(t)
        BY <4>1, SendersAssumption DEF Replies, From
      <4>2. CASE Relays(t)
        <5>1. \A k \in DOMAIN outbox' : outbox'[k].pdu.by = b /\ outbox'[k].pdu.id = taken[b] + 1
          BY <4>2 DEF Relays
        <5>2. c = b => i # taken[b] + 1
          BY <2>1, <2>2
        <5> QED
          BY <5>1, <5>2 DEF From
      <4> QED
        BY <1>6, <4>1, <4>2, HandlersAnswer
    <3> QED
      BY <2>1, <3>1, <3>2 DEF OneOutcome, OneSent, From
  <2>3. CASE i \notin 1 .. taken[c]
    <3>1. c = b /\ i = taken[b] + 1
      BY <1>1, <2>1, <2>3 DEF IInv, TypeOK, NetTypeOK
    <3>2. Short(req)
      BY <2>1, <3>1
    <3>3. Relays(t)
      BY <1>6, <3>2, ShortRelays DEF Short
    <3>4. /\ Len(outbox') = 1 /\ outbox'[1].to \in OpenSockets
          /\ \A k \in DOMAIN outbox' : outbox'[k].pdu.by = c /\ outbox'[k].pdu.id = i
      BY <3>1, <3>2, <3>3 DEF Relays, Short
    <3>5. DOMAIN outbox' = {1}
      <4>1. outbox' \in Seq(Mail)
        BY <1>6 DEF Answers
      <4> QED
        BY <3>4, <4>1
    <3>6. NoneSent(c, i)
      <4> SUFFICES ASSUME NEW d \in Clients, NEW k \in DOMAIN down[d], From(down[d][k], c, i)
                   PROVE  FALSE
        BY DEF NoneSent
      <4>1. down[d][k].by # NoClient
        BY SendersAssumption DEF From
      <4>2. down[d][k].id \in 1 .. taken[c]
        BY <4>1 DEF MailInv, StreamsInv, Addressed, From
      <4> QED
        BY <2>3, <4>2 DEF From
    <3> QED
      BY <2>1, <3>4, <3>5, <3>6 DEF OneOutcome, NoneSent, From
  <2> QED
    BY <2>2, <2>3
<1>7. ~Dies
  BY <1>1 DEF Dies
<1> QED
  BY <1>3, <1>4, <1>5, <1>6, <1>7, StepForms

(* DeliverInv is inductive, with the other invariants.                     *)
THEOREM DeliverInvHolds == Spec => []DeliverInv
<1>1. Init => DeliverInv
  BY DEF Init, NetInit, DeliverInv
<1>2. DeliverInv /\ UNCHANGED vars => DeliverInv'
  BY DEF DeliverInv, NoneReset, OneOutcome, NoneSent, OneSent, From, Short, OpenSockets,
         vars, netVars, serverVars
<1>3. IInv /\ MailInv /\ DeliverInv /\ [Next]_vars => DeliverInv'
  BY <1>2, DeliverKept
<1> QED
  BY <1>1, <1>3, IInvHolds, MailInvHolds, PTL DEF Spec

(* A message for one handle reaches one client, or its sender is told.     *)
THEOREM EveryMessageHasOneOutcome == Spec => []DeliveredOrReported
<1>1. DeliverInv => DeliveredOrReported
  <2> SUFFICES ASSUME DeliverInv, NEW c \in Clients, NEW i \in 1 .. taken[c],
                      NoneReset, outbox = <<>>, Short(up[c][i])
               PROVE  Cardinality(Outcomes(c, i)) = 1
    BY DEF DeliveredOrReported, NoneReset, Short
  <2>1. OneSent(c, i)
    BY DEF DeliverInv, OneOutcome
  <2>2. PICK d \in Clients : \E j \in DOMAIN down[d] :
          \A e \in Clients : \A k \in DOMAIN down[e] :
            From(down[e][k], c, i) <=> e = d /\ k = j
    BY <2>1 DEF OneSent
  <2>3. PICK j \in DOMAIN down[d] :
          \A e \in Clients : \A k \in DOMAIN down[e] :
            From(down[e][k], c, i) <=> e = d /\ k = j
    BY <2>2
  <2>4. \A x : x \in Outcomes(c, i) <=>
          \E e \in Clients : \E k \in DOMAIN down[e] : From(down[e][k], c, i) /\ x = <<e, k>>
    BY DEF Outcomes, From
  <2>5. Outcomes(c, i) = {<<d, j>>}
    BY <2>4, <2>3
  <2> QED
    BY <2>5, FS_Singleton
<1> QED
  BY <1>1, DeliverInvHolds, PTL

----------------------------------------------------------------------------
(* PDUs that end the client that receives them                             *)

(* No piece of a long text begins with a flag that ends a client.          *)
NoPieceEndsClients ==
  \A t \in Texts : \A i \in DOMAIN ChunkFlags[t] : ChunkFlags[t][i] \notin {Refused, ExitAck}

AskedFor(c, flag) == \E k \in 1 .. taken[c] : up[c][k].flag = flag

(* A refusal answers a registration, before anything else is sent.         *)
RefusedWhenAsked ==
  \A c \in Clients : \A i \in DOMAIN down[c] :
    down[c][i].flag = Refused => i = 1 /\ Has(Served(c), Connect)

(* Then such a PDU, sent or on its way, is for a client that asked for it. *)
LeaveInv ==
  NoPieceEndsClients =>
    /\ \A i \in DOMAIN outbox :
         LET c == owner[outbox[i].to] IN
         outbox[i].to \in OpenSockets =>
           /\ outbox[i].pdu.flag = ExitAck => AskedFor(c, Exit)
           /\ outbox[i].pdu.flag = Refused => i = 1 /\ down[c] = <<>> /\ AskedFor(c, Connect)
    /\ \A c \in Clients : \A i \in DOMAIN down[c] :
         /\ down[c][i].flag = ExitAck => AskedFor(c, Exit)
         /\ down[c][i].flag = Refused => i = 1 /\ AskedFor(c, Connect)

(* Of the handlers only those of flags 1 and 8 answer with 3 and 9.        *)
LEMMA EndsAreAnswers ==
  ASSUME IInv, NoPieceEndsClients, NEW t \in Sockets, Serve(t), Answers(t),
         NEW i \in DOMAIN outbox', outbox'[i].pdu.flag \in {Refused, ExitAck}
  PROVE  /\ outbox'[i].to = t
         /\ \/ outbox'[i].pdu.flag = ExitAck /\ ServeExit(t)
            \/ outbox'[i].pdu.flag = Refused /\ i = 1 /\ ServeConnect(t)
<1>1. /\ \A f : Sends(t, Pdu(f)).pdu.flag = f /\ Sends(t, Pdu(f)).to = t
      /\ \A f \in {Accepted, HandleCount, HandleEntry, ListEnd, Message, NoSuchHandle} :
           f \notin {Refused, ExitAck}
      /\ Refused # ExitAck
  BY DEF Sends, Pdu, Accepted, Refused, ExitAck, HandleCount, ListEnd, HandleEntry,
         Message, NoSuchHandle
<1>2. ~ServeEof(t)
  BY DEF Answers, ServeEof
<1>3. ASSUME ServeConnect(t)
      PROVE  outbox'[i] = Sends(t, Pdu(Refused)) /\ i = 1
  <2>1. ASSUME NEW f \in {Accepted, Refused}, outbox' = <<Sends(t, Pdu(f))>>
        PROVE  outbox'[i] = Sends(t, Pdu(Refused)) /\ i = 1
    <3>1. outbox'[i] = Sends(t, Pdu(f)) /\ i = 1
      BY <2>1
    <3> QED
      BY <1>1, <3>1
  <2> QED
    BY <1>3, <2>1 DEF ServeConnect
<1>4. ~ServeList(t)
  <2> SUFFICES ASSUME ServeList(t) PROVE FALSE
    OBVIOUS
  <2> DEFINE n == Cardinality(Table!Occupied)
             pdus == <<Count>> \o Entries \o <<Pdu(ListEnd)>>
  <2>1. /\ n \in Nat /\ Len(pdus) = n + 2
        /\ pdus[1] = Count /\ pdus[n + 2] = Pdu(ListEnd)
        /\ \A k \in 1 .. n : pdus[k + 1] = Naming(HandleEntry, table[EntryAt(k)])
    BY ListPdus DEF IInv, TypeOK, ServerTypeOK
  <2>2. outbox' = [k \in 1 .. Len(pdus) |-> Sends(t, pdus[k])]
    BY DEF ServeList
  <2> HIDE DEF n, pdus
  <2>3. i \in 1 .. n + 2 /\ outbox'[i].pdu = pdus[i]
    BY <2>1, <2>2 DEF Sends
  <2>4. i = 1 \/ i = n + 2 \/ (i - 1 \in 1 .. n /\ i = (i - 1) + 1)
    BY <2>1, <2>3
  <2>5. Count.flag = HandleCount /\ Pdu(ListEnd).flag = ListEnd
        /\ \A h : Naming(HandleEntry, h).flag = HandleEntry
    BY DEF Count, Pdu, Naming
  <2>6. pdus[i].flag \in {HandleCount, ListEnd, HandleEntry}
    BY <2>1, <2>4, <2>5
  <2> QED
    BY <1>1, <2>3, <2>6
<1>5. ~ServeMessage(t)
  <2> SUFFICES ASSUME ServeMessage(t) PROVE FALSE
    OBVIOUS
  <2> DEFINE req == NextRequest(owner[t])
             dest == Table!FindSocket(req.dests[1])
             error == [req EXCEPT !.flag = NoSuchHandle, !.text = NoText]
             flags == ChunkFlags[req.text]
  <2>1. req \in Pdus /\ req.flag = Message /\ req.text \in Texts
    <3>1. Message \in 0 .. 255 /\ Takes(t, Message)
      BY FlagsAreBytes DEF ServeMessage
    <3>2. req \in Pdus /\ req.flag = Message /\ WellFormed(owner[t], taken[owner[t]] + 1, req)
      BY <3>1, RequestTaken
    <3> HIDE DEF req
    <3> QED
      BY <3>2 DEF WellFormed
  <2>2. outbox' = IF dest = -1 THEN <<Sends(t, error)>>
                  ELSE [k \in 1 .. Len(Relayed(req)) |-> Sends(dest, Relayed(req)[k])]
    BY DEF ServeMessage
  <2> HIDE DEF req
  <2>3. error.flag = NoSuchHandle
    BY <2>1 DEF Pdus
  <2>4. flags \in Seq(0 .. 255) /\ \A k \in DOMAIN flags : flags[k] \notin {Refused, ExitAck}
    BY <2>1, TextsAssumption DEF NoPieceEndsClients
  <2>5. /\ Relayed(req) \in Seq(Pdus)
        /\ \A k \in DOMAIN Relayed(req) : Relayed(req)[k].flag \notin {Refused, ExitAck}
    <3>1. Relayed(req) \in Seq(Pdus)
      BY <2>1, RelayedPdus
    <3> DEFINE Piece(k) == [req EXCEPT !.flag = flags[k], !.dests = <<>>]
    <3>2. \A k : Piece(k).flag = flags[k]
      BY <2>1 DEF Pdus
    <3>3. Relayed(req) = IF flags = <<>> THEN <<req>> ELSE [k \in 1 .. Len(flags) |-> Piece(k)]
      BY DEF Relayed
    <3> HIDE DEF flags, Piece
    <3>4. CASE flags = <<>>
      <4>1. \A k \in DOMAIN Relayed(req) : Relayed(req)[k] = req
        BY <3>3, <3>4
      <4> QED
        BY <1>1, <2>1, <3>1, <4>1
    <3>5. CASE flags # <<>>
      BY <2>4, <3>1, <3>2, <3>3, <3>5
    <3> QED
      BY <3>4, <3>5
  <2> HIDE DEF dest, error
  <2>6. CASE dest = -1
    <3>1. outbox'[i].pdu = error
      BY <2>2, <2>6 DEF Sends
    <3> QED
      BY <1>1, <2>3, <3>1
  <2>7. CASE dest # -1
    <3>1. i \in DOMAIN Relayed(req) /\ outbox'[i].pdu = Relayed(req)[i]
      BY <2>2, <2>5, <2>7 DEF Sends
    <3> QED
      BY <2>5, <3>1
  <2> QED
    BY <2>6, <2>7
<1>6. ~ServeMulticast(t)
  <2> SUFFICES ASSUME ServeMulticast(t) PROVE FALSE
    OBVIOUS
  <2> DEFINE req == NextRequest(owner[t])
             Copy(h) == [req EXCEPT !.flag = Message, !.dests = <<h>>]
  <2>1. req \in Pdus
    <3>1. Multicast \in 0 .. 255 /\ Takes(t, Multicast)
      BY FlagsAreBytes DEF ServeMulticast
    <3> QED
      BY <3>1, RequestTaken
  <2>2. outbox' = IF req.text = Empty THEN <<>>
                  ELSE [k \in 1 .. Len(req.dests) |->
                          Sends(Table!FindSocket(req.dests[k]), Copy(req.dests[k]))]
    BY DEF ServeMulticast
  <2> HIDE DEF req
  <2>3. \A h : Copy(h).flag = Message
    BY <2>1 DEF Pdus
  <2> HIDE DEF Copy
  <2>4. \E h : outbox'[i].pdu = Copy(h)
    BY <2>2 DEF Sends
  <2> QED
    BY <1>1, <2>3, <2>4
<1>7. ServeConnect(t) \/ ServeExit(t)
  BY <1>2, <1>4, <1>5, <1>6 DEF Serve
<1>8. ServeExit(t) => outbox'[i] = Sends(t, Pdu(ExitAck))
  BY DEF ServeExit
<1> QED
  BY <1>1, <1>3, <1>7, <1>8

(* Only a request that is handled puts such a PDU on its way.              *)
LEMMA LeaveKept ==
  ASSUME IInv, MailInv, LeaveInv, Next
  PROVE  LeaveInv'
<1>1. /\ \A i \in DOMAIN outbox' :
           outbox'[i] \in Mail /\ outbox'[i].pdu \in Pdus /\ i \in Nat \ {0}
      /\ \A s \in OpenSockets' : owner'[s] \in Clients
      /\ \A s \in OpenSockets : owner[s] \in Clients
  BY MailTyped, MailTypedNext
<1> DEFINE Due(i, c) ==
             /\ outbox[i].pdu.flag = ExitAck => AskedFor(c, Exit)
             /\ outbox[i].pdu.flag = Refused => i = 1 /\ down[c] = <<>> /\ AskedFor(c, Connect)
<1>2. SUFFICES ASSUME NoPieceEndsClients
               PROVE  /\ \A i \in DOMAIN outbox' : \A c \in Clients :
                           outbox'[i].to \in OpenSockets' /\ c = owner'[outbox'[i].to] =>
                             Due(i, c)'
                      /\ \A c \in Clients : \A i \in DOMAIN down'[c] :
                           /\ down'[c][i].flag = ExitAck => AskedFor(c, Exit)'
                           /\ down'[c][i].flag = Refused => i = 1 /\ AskedFor(c, Connect)'
  <2> SUFFICES ASSUME NoPieceEndsClients, NEW i \in DOMAIN outbox', outbox'[i].to \in OpenSockets'
               PROVE  Due(i, owner[outbox[i].to])'
    BY <1>2 DEF LeaveInv, NoPieceEndsClients
  <2>1. PICK c \in Clients : c = owner'[outbox'[i].to]
    BY <1>1
  <2>2. Due(i, c)'
    BY <1>2, <2>1
  <2> QED
    BY <2>1, <2>2 DEF AskedFor
<1>3. ASSUME NEW c \in Clients, NEW f, AskedFor(c, f)
      PROVE  AskedFor(c, f)'
  BY <1>3, HistoryKept DEF AskedFor
<1>4. ASSUME NEW c \in Clients, NEW i \in DOMAIN down'[c]
      PROVE  /\ down'[c][i].flag = ExitAck => AskedFor(c, Exit)'
             /\ down'[c][i].flag = Refused => i = 1 /\ AskedFor(c, Connect)'
  <2>1. CASE i \in DOMAIN down[c] /\ down'[c][i] = down[c][i]
    BY <1>2, <1>3, <1>4, <2>1 DEF LeaveInv
  <2>2. CASE Delivers(c) /\ i = Len(down[c]) + 1 /\ down'[c][i] = outbox[1].pdu
    <3>1. /\ outbox[1].pdu.flag = ExitAck => AskedFor(c, Exit)
          /\ outbox[1].pdu.flag = Refused => down[c] = <<>> /\ AskedFor(c, Connect)
      BY <1>2, <2>2 DEF LeaveInv, Delivers
    <3>2. down[c] = <<>> => i = 1
      BY <2>2
    <3> QED
      BY <1>3, <2>2, <3>1, <3>2
  <2> QED
    BY <1>4, <2>1, <2>2, SentLast
<1>5. ASSUME NEW i \in DOMAIN outbox', outbox'[i].to \in OpenSockets',
             NEW c \in Clients, c = owner'[outbox'[i].to]
      PROVE  Due(i, c)'
  <2>1. CASE Quiet
    <3>1. Due(i, c)
      BY <1>2, <1>5, <2>1 DEF Quiet, LeaveInv, OpenSockets
    <3> QED
      BY <1>3, <2>1, <3>1 DEF Quiet
  <2>2. CASE SendNext
    <3>1. outbox # <<>> /\ outbox' = Tail(outbox) /\ owner' = owner /\ outbox \in Seq(Mail)
      BY <2>2 DEF SendNext, IInv, TypeOK, ServerTypeOK, Mail
    <3>2. i + 1 \in DOMAIN outbox /\ outbox'[i] = outbox[i + 1] /\ i + 1 # 1
      BY <1>5, <3>1
    <3>3. Due(i + 1, c)
      BY <1>2, <1>5, <3>1, <3>2 DEF LeaveInv, OpenSockets
    <3> QED
      BY <1>3, <3>2, <3>3
  <2>3. CASE Accept \/ Dies \/ \E t \in Sockets : HangsUp(t)
    BY <1>5, <2>3 DEF Accept, PollReturns, Dies, HangsUp
  <2>4. ASSUME NEW t \in Sockets, Serve(t), Answers(t)
        PROVE  Due(i, c)'
    <3> SUFFICES ASSUME outbox'[i].pdu.flag \in {Refused, ExitAck}
                 PROVE  Due(i, c)'
      OBVIOUS
    <3>1. /\ outbox'[i].to = t
          /\ \/ outbox'[i].pdu.flag = ExitAck /\ ServeExit(t)
             \/ outbox'[i].pdu.flag = Refused /\ i = 1 /\ ServeConnect(t)
      BY <1>2, <1>5, <2>4, EndsAreAnswers
    <3>2. owner' = owner /\ c = owner[t] /\ down' = down
      BY <1>5, <2>4, <3>1 DEF Answers
    <3>3. ASSUME NEW f \in 0 .. 255, Takes(t, f)
          PROVE  AskedFor(c, f)'
      <4>1. /\ taken[c] \in Nat /\ NextRequest(c).flag = f /\ up' = up
            /\ taken' = [taken EXCEPT ![c] = @ + 1]
        BY <3>2, <3>3, RequestTaken
      <4>2. taken'[c] = taken[c] + 1
        BY <4>1 DEF IInv, TypeOK, NetTypeOK
      <4>3. taken[c] + 1 \in 1 .. taken'[c] /\ up'[c][taken[c] + 1].flag = f
        BY <4>1, <4>2 DEF NextRequest
      <4> QED
        BY <4>3 DEF AskedFor
    <3>4. CASE outbox'[i].pdu.flag = ExitAck /\ ServeExit(t)
      <4>1. Takes(t, Exit) /\ Exit \in 0 .. 255
        BY <3>4, FlagsAreBytes DEF ServeExit
      <4>2. Refused # ExitAck
        BY DEF Refused, ExitAck
      <4> QED
        BY <3>3, <3>4, <4>1, <4>2
    <3>5. CASE outbox'[i].pdu.flag = Refused /\ i = 1 /\ ServeConnect(t)
      <4>1. Takes(t, Connect) /\ Connect \in 0 .. 255
        BY <3>5, FlagsAreBytes DEF ServeConnect
      <4>2. taken[c] = 0
        <5>1. /\ taken[c] \in Nat /\ NextRequest(c).flag = Connect
              /\ WellFormed(c, taken[c] + 1, NextRequest(c))
          BY <3>2, <4>1, RequestTaken
        <5>2. taken[c] + 1 = 1
          BY <5>1 DEF WellFormed
        <5> QED
          BY <5>1, <5>2
      <4>3. down'[c] = <<>>
        BY <3>2, <4>2 DEF MailInv, VerdictInv
      <4>4. Refused # ExitAck
        BY DEF Refused, ExitAck
      <4> QED
        BY <3>3, <3>5, <4>1, <4>3, <4>4
    <3> QED
      BY <3>1, <3>4, <3>5
  <2> QED
    BY <2>1, <2>2, <2>3, <2>4, StepForms
<1> QED
  BY <1>4, <1>5

(* Unless a piece of a long text begins with the byte 3 or 9, a PDU that   *)
(* ends its client answers what this client asked for: it is the refusal   *)
(* of its registration, sent first, or acknowledges its exit.              *)
THEOREM OnlyPiecesForgeExits ==
  Spec => [](NoPieceEndsClients => ExitOnlyWhenAsked /\ RefusedWhenAsked)
<1>1. Init => LeaveInv
  BY DEF Init, NetInit, ServerInit, LeaveInv
<1>2. LeaveInv /\ UNCHANGED vars => LeaveInv'
  BY DEF LeaveInv, NoPieceEndsClients, AskedFor, OpenSockets, vars, netVars, serverVars
<1>3. IInv /\ MailInv /\ LeaveInv /\ [Next]_vars => LeaveInv'
  BY <1>2, LeaveKept
<1>4. IInv /\ LeaveInv => (NoPieceEndsClients => ExitOnlyWhenAsked /\ RefusedWhenAsked)
  <2> SUFFICES ASSUME IInv, LeaveInv, NoPieceEndsClients, NEW c \in Clients
               PROVE  /\ Has(down[c], ExitAck) => Has(Served(c), Exit)
                      /\ \A i \in DOMAIN down[c] :
                           down[c][i].flag = Refused => i = 1 /\ Has(Served(c), Connect)
    BY DEF ExitOnlyWhenAsked, RefusedWhenAsked
  <2>1. ASSUME NEW f, AskedFor(c, f)
        PROVE  Has(Served(c), f)
    <3>1. PICK k \in 1 .. taken[c] : up[c][k].flag = f
      BY <2>1 DEF AskedFor
    <3>2. taken[c] \in Nat /\ up[c] \in Seq(Pdus) /\ taken[c] <= Len(up[c])
      BY DEF IInv, TypeOK, NetTypeOK, RequestsInv
    <3>3. k \in DOMAIN Served(c) /\ Served(c)[k] = up[c][k]
      BY <3>1, <3>2 DEF Served
    <3> QED
      BY <3>1, <3>3 DEF Has
  <2> QED
    BY <2>1 DEF LeaveInv, Has
<1> QED
  BY <1>1, <1>3, <1>4, IInvHolds, MailInvHolds, PTL DEF Spec
=============================================================================
