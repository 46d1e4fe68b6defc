-------------------------- MODULE HandleDirectory --------------------------
(***************************************************************************)
(* What the handle table of the chat server promises: a directory that     *)
(* gives each socket at most one handle and each handle at most one        *)
(* socket, together with a count of the registrations it accepted.         *)
(* Storage, capacity and growth are not visible here.  HandleTable         *)
(* implements this module.                                                 *)
(***************************************************************************)
EXTENDS Naturals

CONSTANTS
  Sockets,   \* the socket numbers a client can be given
  Handles,   \* the handles a client can ask for
  NoHandle   \* the content of an unused entry

VARIABLES
  dir,       \* dir[s]: the handle registered on socket s, or NoHandle
  accepted,  \* the number of registrations accepted so far
  usable     \* FALSE once the process that owns the directory has stopped

dirVars == <<dir, accepted, usable>>

Registered(h) == \E s \in Sockets : dir[s] = h

Init ==
  /\ dir = [s \in Sockets |-> NoHandle]
  /\ accepted = 0
  /\ usable = TRUE

(* A handle that nobody holds is given to socket s.                        *)
Register(s, h) ==
  /\ usable
  /\ ~Registered(h)
  /\ dir' = [dir EXCEPT ![s] = h]
  /\ accepted' = accepted + 1
  /\ UNCHANGED usable

Unregister(s) ==
  /\ usable
  /\ dir' = [dir EXCEPT ![s] = NoHandle]
  /\ UNCHANGED <<accepted, usable>>

(* The process stops; what the directory held is not changed.              *)
Stop ==
  /\ usable' = FALSE
  /\ UNCHANGED <<dir, accepted>>

Next ==
  \/ \E s \in Sockets, h \in Handles : Register(s, h)
  \/ \E s \in Sockets : Unregister(s)
  \/ Stop

Spec == Init /\ [][Next]_dirVars
=============================================================================
