--------------------------- MODULE MessageChannel --------------------------
(***************************************************************************)
(* What sendPDU and recvPDU promise together: a first-in first-out channel *)
(* of messages.  A message of length 0 ends the channel for its receiver,  *)
(* who may learn of it only when something follows it.                     *)
(* A sender that breaks off may lose what has not been received, and may   *)
(* leave the beginning of a message behind, after which nothing follows.   *)
(***************************************************************************)
EXTENDS Integers, Sequences

CONSTANT Messages

VARIABLES
  sent,     \* every message sent
  got,      \* every message received
  sender,   \* "open", "closed" in good order, or "broken"
  over      \* whether the receiver has been told that nothing follows

vars == <<sent, got, sender, over>>

Init ==
  /\ sent = <<>>
  /\ got = <<>>
  /\ sender = "open"
  /\ over = FALSE

Send(m) ==
  /\ sender = "open"
  /\ sent' = Append(sent, m)
  /\ UNCHANGED <<got, sender, over>>

Close ==
  /\ sender = "open"
  /\ sender' = "closed"
  /\ UNCHANGED <<sent, got, over>>

Break ==
  /\ sender' = "broken"
  /\ UNCHANGED <<sent, got, over>>

(* The next message is there, and the receiver has not lost its place.     *)
Pending ==
  /\ ~over
  /\ Len(got) < Len(sent)
  /\ got = SubSeq(sent, 1, Len(got))

NextMessage == sent[Len(got) + 1]

Deliver ==
  /\ Pending
  /\ NextMessage # <<>>
  /\ got' = Append(got, NextMessage)
  /\ UNCHANGED <<sent, sender, over>>

DeliverCut ==
  /\ sender = "broken"
  /\ Pending
  /\ \E k \in 1 .. Len(NextMessage) - 1 : got' = Append(got, SubSeq(NextMessage, 1, k))
  /\ UNCHANGED <<sent, sender, over>>

ReportEnd ==
  /\ ~over
  /\ \/ sender = "closed" /\ Len(got) = Len(sent)
     \/ sender = "broken"
     \/ Pending /\ NextMessage = <<>>
  /\ over' = TRUE
  /\ UNCHANGED <<sent, got, sender>>

Next ==
  \/ \E m \in Messages : Send(m)
  \/ Close
  \/ Break
  \/ Deliver
  \/ DeliverCut
  \/ ReportEnd

(* Something follows the last message received or the empty one after it.  *)
Followed == sender # "open" \/ Len(sent) > Len(got) + 1

(* A sender that does not break off gets every message through.            *)
Fairness == WF_vars(Deliver /\ sender # "broken") /\ WF_vars(ReportEnd /\ Followed)

Spec == Init /\ [][Next]_vars /\ Fairness
=============================================================================
