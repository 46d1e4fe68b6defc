----------------------------- MODULE ChatService ---------------------------
(***************************************************************************)
(* What the chat of Program2 promises its users: requests are answered one *)
(* by one and each in a single step, as if nothing happened between the    *)
(* PDUs of an answer.  There are no sockets, no poll set and no table,     *)
(* only who has which name and a mailbox for each client.                  *)
(***************************************************************************)
EXTENDS ChatPdus, SequencesExt

CONSTANTS
  DestLists,      \* the lists of handles users type
  NoHandle,
  MemoryMayLack   \* whether a name nobody has may be refused

VARIABLES
  asked,        \* asked[c]: every request of client c
  answered,     \* answered[c]: how many of them have been answered
  box,          \* box[c]: every PDU for c that is not lost
  read,         \* read[c]: how many of them c has read
  link,         \* link[c]: c's end of its connection, as in ChatNet
  hungUp,       \* the clients whose connection the service has closed
  name,         \* name[c]: the handle of c, or NoHandle
  registered,   \* how many names were ever given
  running       \* whether there is a service

vars == <<asked, answered, box, read, link, hungUp, name, registered, running>>

Init ==
  /\ asked = [c \in Clients |-> <<>>]
  /\ answered = [c \in Clients |-> 0]
  /\ box = [c \in Clients |-> <<>>]
  /\ read = [c \in Clients |-> 0]
  /\ link = [c \in Clients |-> "none"]
  /\ hungUp = {}
  /\ name = [c \in Clients |-> NoHandle]
  /\ registered = 0
  /\ running = TRUE

----------------------------------------------------------------------------
(* The clients                                                             *)

Requests ==
  {Naming(Connect, h) : h \in Handles}
  \cup {[Naming(Message, h) EXCEPT !.text = t] : h \in Handles, t \in Texts}
  \cup {[Pdu(Multicast) EXCEPT !.dests = d, !.text = t] : d \in DestLists, t \in Texts}
  \cup {Pdu(List), Pdu(Exit)}

Ask(c) ==
  /\ \E r \in Requests :
       asked' = [asked EXCEPT ![c] = Append(@, [r EXCEPT !.by = c, !.id = Len(asked[c]) + 1])]
  /\ UNCHANGED <<answered, box, read, link, hungUp, name, registered, running>>

LinkAfter(l) ==
  CASE l = "none" -> {"none", "open"}
    [] l = "open" -> {"open", "fin", "rst"}
    [] OTHER -> {l, "rst"}

(* A request that its client broke off arrives in part or not at all.      *)
BreakOff(c) ==
  /\ link[c] = "open" /\ answered[c] < Len(asked[c])
  /\ \E rest \in CutLast(asked[c]) : asked' = [asked EXCEPT ![c] = rest]
  /\ \E l \in {"fin", "half", "rst"} : link' = [link EXCEPT ![c] = l]
  /\ UNCHANGED <<answered, box, read, hungUp, name, registered, running>>

(* Reads the next PDU, if there is one, or changes its end of the          *)
(* connection, or both.                                                    *)
ReadOrLeave(c) ==
  /\ read' \in {read, [read EXCEPT ![c] = @ + 1]}
  /\ read'[c] <= Len(box[c])
  /\ \E l \in LinkAfter(link[c]) : link' = [link EXCEPT ![c] = l]
  /\ UNCHANGED <<asked, answered, box, hungUp, name, registered, running>>

----------------------------------------------------------------------------
(* The service                                                             *)

Names == {name[c] : c \in Clients} \ {NoHandle}
Holder(h) == CHOOSE c \in Clients : name[c] = h

Request(c) == asked[c][answered[c] + 1]
To(c, pdu) == [to |-> c, pdu |-> pdu]

Post(mail) ==
  box' = [c \in Clients |->
            LET own == SelectSeq(mail, LAMBDA m : m.to = c)
            IN box[c] \o [i \in DOMAIN own |-> own[i].pdu]]

(* The next request of c, which is the last if it was to exit.             *)
Takes(c, flag) ==
  /\ running /\ c \notin hungUp
  /\ answered[c] < Len(asked[c])
  /\ answered[c] > 0 => asked[c][answered[c]].flag # Exit
  /\ Request(c).flag = flag
  /\ answered' = [answered EXCEPT ![c] = @ + 1]
  /\ UNCHANGED <<asked, read, link, hungUp, running>>

(* A name has one holder at a time.                                        *)
Register(c) ==
  LET h == Request(c).dests[1] IN
  /\ Takes(c, Connect)
  /\ \/ /\ h \notin Names
        /\ name' = [name EXCEPT ![c] = h]
        /\ registered' = registered + 1
        /\ Post(<<To(c, Pdu(Accepted))>>)
     \/ /\ h \in Names \/ MemoryMayLack
        /\ Post(<<To(c, Pdu(Refused))>>)
        /\ UNCHANGED <<name, registered>>

(* To the holder of the name, or back as an error.                         *)
Route(c) ==
  LET msg == Request(c)
      h == msg.dests[1]
  IN
  /\ Takes(c, Message)
  /\ Post(IF h \in Names
          THEN [i \in DOMAIN Relayed(msg) |-> To(Holder(h), Relayed(msg)[i])]
          ELSE <<To(c, [msg EXCEPT !.flag = NoSuchHandle, !.text = NoText])>>)
  /\ UNCHANGED <<name, registered>>

(* A copy for each name listed that somebody has, as often as it is listed;*)
(* nothing when there is no text, and nothing is said of the other names.  *)
RouteToAll(c) ==
  LET msg == Request(c)
      held == SelectSeq(msg.dests, LAMBDA h : h \in Names)
      Copy(h) == To(Holder(h), [msg EXCEPT !.flag = Message, !.dests = <<h>>])
  IN
  /\ Takes(c, Multicast)
  /\ Post(IF msg.text = Empty THEN <<>> ELSE [i \in DOMAIN held |-> Copy(held[i])])
  /\ UNCHANGED <<name, registered>>

(* All names in some order, after a count that also has those given back.  *)
ListNames(c) ==
  /\ Takes(c, List)
  /\ \E order \in SetToSeqs(Names) :
       LET entries == [i \in DOMAIN order |-> Naming(HandleEntry, order[i])]
           count == [Pdu(HandleCount) EXCEPT !.number = registered % 65536]
           list == <<count>> \o entries \o <<Pdu(ListEnd)>>
       IN Post([i \in DOMAIN list |-> To(c, list[i])])
  /\ UNCHANGED <<name, registered>>

Acknowledge(c) ==
  /\ Takes(c, Exit)
  /\ Post(<<To(c, Pdu(ExitAck))>>)
  /\ UNCHANGED <<name, registered>>

(* After an exit, or when the client has closed its end, name and          *)
(* connection are given back together.                                     *)
HangUp(c) ==
  /\ running /\ c \notin hungUp
  /\ \/ answered[c] > 0 /\ asked[c][answered[c]].flag = Exit
     \/ link[c] \in {"fin", "half", "rst"}
  /\ hungUp' = hungUp \cup {c}
  /\ name' = [name EXCEPT ![c] = NoHandle]
  /\ UNCHANGED <<asked, answered, box, read, link, registered, running>>

(* Only a reset loses mail, and only mail of the client that reset.        *)
Lose(c) ==
  /\ running
  /\ link[c] = "rst"
  /\ \E i \in read[c] + 1 .. Len(box[c]) : box' = [box EXCEPT ![c] = RemoveAt(@, i)]
  /\ UNCHANGED <<asked, answered, read, link, hungUp, name, registered, running>>

(* The service ends, possibly while it answers a request; of the mail that *)
(* has not been read the later part may be lost.                           *)
Stop ==
  /\ running /\ ~running'
  /\ \/ UNCHANGED answered
     \/ \E c \in Clients : /\ answered[c] < Len(asked[c])
                           /\ answered' = [answered EXCEPT ![c] = @ + 1]
  /\ \A c \in Clients : IsPrefix(box'[c], box[c]) /\ Len(box'[c]) >= read[c]
  /\ name' = [c \in Clients |-> NoHandle]
  /\ registered' = 0
  /\ UNCHANGED <<asked, read, link, hungUp>>

Next ==
  \/ \E c \in Clients :
       \/ Ask(c) \/ BreakOff(c) \/ ReadOrLeave(c)
       \/ Register(c) \/ Route(c) \/ RouteToAll(c) \/ ListNames(c) \/ Acknowledge(c)
       \/ HangUp(c) \/ Lose(c)
  \/ Stop

Spec == Init /\ [][Next]_vars
=============================================================================
