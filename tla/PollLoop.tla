----------------------------- MODULE PollLoop ------------------------------
(***************************************************************************)
(* The poll set as serverControl of Program2/server.c uses it: wait, serve *)
(* the one socket pollCall names, wait again.  Sockets join and leave the  *)
(* set between two calls, and input arrives at any time.                   *)
(***************************************************************************)
EXTENDS PollSet

CONSTANTS
  Sockets,          \* the descriptors the set may hold
  StdinMayHangUp    \* whether the standard input of the server may hang up

ASSUME PollSocketAssumption == Sockets \subseteq Nat \ {Stdin}

VARIABLES
  members,   \* history: the sockets added and not removed since
  ready,     \* the sockets with input
  hup,       \* whether the standard input has hung up
  returned   \* what the last pollCall returned, or -1

loopVars == <<pollSet, setSize, maxFd, status, members, ready, hup, returned>>

Init ==
  /\ SetupPollSet
  /\ status = "running"
  /\ members = {}
  /\ ready = {}
  /\ hup = FALSE
  /\ returned = -1

(* A socket is accepted: it is open, and may have input from now on.       *)
Add(s) ==
  /\ status = "running"
  /\ s \notin members
  /\ \/ AddToPollSet(s) /\ members' = members \cup {s} /\ UNCHANGED status
     \/ GrowPollSetFails(s) /\ UNCHANGED members
  /\ returned' = -1
  /\ UNCHANGED <<ready, hup>>

(* A socket is removed and closed.                                         *)
Remove(s) ==
  /\ status = "running"
  /\ s \in members
  /\ RemoveFromPollSet(s)
  /\ members' = members \ {s}
  /\ ready' = ready \ {s}
  /\ returned' = -1
  /\ UNCHANGED <<status, hup>>

Arrive(s) ==
  /\ s \in members \ ready
  /\ ready' = ready \cup {s}
  /\ UNCHANGED <<pollVars, status, members, hup, returned>>

StdinHangsUp ==
  /\ StdinMayHangUp
  /\ hup' = TRUE
  /\ UNCHANGED <<pollVars, status, members, ready, returned>>

(* pollCall returns and the input of the socket it names is consumed; a    *)
(* descriptor that is no socket cannot be read, which ends the server.     *)
Serve ==
  LET i == PollCall(ready, IF hup THEN {Stdin} ELSE {}) IN
  /\ status = "running"
  /\ i # -1
  /\ returned' = i
  /\ ready' = ready \ {i}
  /\ status' = IF i \in members THEN "running" ELSE "exited"
  /\ UNCHANGED <<pollVars, members, hup>>

Next ==
  \/ \E s \in Sockets : Add(s) \/ Remove(s) \/ Arrive(s)
  \/ StdinHangsUp
  \/ Serve

Spec == Init /\ [][Next]_loopVars /\ WF_loopVars(Serve)

----------------------------------------------------------------------------
(* The arrays and sets keep their shape.                                   *)
TypeOK ==
  /\ setSize \in Nat \ {0}
  /\ pollSet \in [0 .. setSize - 1 -> Sockets \cup {Stdin}]
  /\ maxFd \in 0 .. setSize
  /\ status \in {"running", "exited"}
  /\ members \subseteq Sockets
  /\ ready \subseteq members
  /\ hup \in BOOLEAN
  /\ returned \in members \cup {-1, Stdin}

(* Across growth, removal and reuse of a number, poll is given exactly the *)
(* open sockets: each in its own slot, below the length poll is told.      *)
WatchesMembers ==
  /\ Watched = members
  /\ \A i \in Watched : pollSet[i] = i /\ i < maxFd

(* pollCall: "returns the socket number if one is ready for read".         *)
(* serverControl hands that number to accept or processClient unchecked.   *)
ReturnsReadySocket == [][Serve => returned' \in ready]_loopVars

(* The one thing else it returns is slot 0, and only once the standard     *)
(* input, which every unused slot watches, has hung up.                    *)
OnlyStdinMasksSockets ==
  [][Serve => IF hup THEN returned' = Stdin ELSE returned' \in ready]_loopVars

(* A socket with input is served unless lower ones keep coming up: lowest  *)
(* first starves a socket only by input on a lower one.                    *)
StarvedOnlyByLower ==
  \A s \in Sockets :
    \/ []<>(s \notin ready)
    \/ []<>(\E l \in ready : l < s)
    \/ <>(status # "running")
=============================================================================
