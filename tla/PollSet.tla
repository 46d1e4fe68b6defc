------------------------------ MODULE PollSet ------------------------------
(***************************************************************************)
(* The poll set (Program2/pollLib.c): an array of struct pollfd indexed by *)
(* descriptor.  A slot in use watches its own number for input.  A slot    *)
(* that is not in use is zeroed, so it watches descriptor 0, the standard  *)
(* input, for no event at all: poll still reports that it hung up.         *)
(***************************************************************************)
EXTENDS Integers, FiniteSets, FiniteSetsExt

CONSTANTS
  POLL_SET_SIZE,   \* the size of a new set, and the slack added on growth
  AllocMayFail     \* whether srealloc may end the process

ASSUME PollSizeAssumption == POLL_SET_SIZE \in Nat \ {0}

VARIABLES
  pollSet,   \* pollSet[i]: the fd of slot i, with POLLIN unless it is Stdin
  setSize,   \* currentPollsetSize
  maxFd,     \* maxFileDescriptor
  status     \* the process: "running", "exited" or "undefined"

pollVars == <<pollSet, setSize, maxFd>>

Stdin == 0

Watched == {i \in 0 .. setSize - 1 : pollSet[i] # Stdin}

SetupPollSet ==
  /\ pollSet = [i \in 0 .. POLL_SET_SIZE - 1 |-> Stdin]
  /\ setSize = POLL_SET_SIZE
  /\ maxFd = 0

----------------------------------------------------------------------------
(* growPollSet is asked for s + POLL_SET_SIZE slots when s has none.       *)
SizeUpTo(s) == IF s < setSize THEN setSize ELSE s   \* mutant: no slot for s itself

GrownSize(s) == IF s < setSize THEN setSize ELSE s + POLL_SET_SIZE

GrownSet(s) ==
  [i \in 0 .. GrownSize(s) - 1 |-> IF i < setSize THEN pollSet[i] ELSE Stdin]

AddBelowMax(s) ==   \* mutant: maxFileDescriptor is the last slot, not one more
  /\ pollSet' = [GrownSet(s) EXCEPT ![s] = s]
  /\ setSize' = GrownSize(s)
  /\ maxFd' = IF s >= maxFd THEN s ELSE maxFd

AddToPollSet(s) ==
  /\ pollSet' = [GrownSet(s) EXCEPT ![s] = s]
  /\ setSize' = GrownSize(s)
  /\ maxFd' = IF s + 1 >= maxFd THEN s + 1 ELSE maxFd

(* srealloc calls exit(-1).                                                *)
GrowPollSetFails(s) ==
  /\ AllocMayFail
  /\ s >= setSize
  /\ status' = "exited"
  /\ UNCHANGED pollVars

(* maxFileDescriptor never shrinks.                                        *)
RemoveFromPollSet(s) ==
  /\ pollSet' = [pollSet EXCEPT ![s] = Stdin]
  /\ UNCHANGED <<setSize, maxFd>>

(* The slots whose revents poll sets, given the descriptors with input and *)
(* those that hung up or failed.                                           *)
Reported(ready, hung) ==
  {i \in 0 .. maxFd - 1 : \/ i \in Watched /\ pollSet[i] \in ready
                          \/ pollSet[i] \in hung}

(* pollCall: the lowest of them, or -1; called with -1 it waits for one.   *)
HighestFirst(ready, hung) ==   \* mutant: no break when a slot is found
  IF Reported(ready, hung) = {} THEN -1 ELSE Max(Reported(ready, hung))

NumberReady(ready, hung) ==   \* mutant: returns what poll returned
  IF Reported(ready, hung) = {} THEN -1 ELSE Cardinality(Reported(ready, hung))

PollCall(ready, hung) ==
  IF Reported(ready, hung) = {} THEN -1 ELSE Min(Reported(ready, hung))
=============================================================================
