---------------------------- MODULE HandleTable ----------------------------
(***************************************************************************)
(* The handle table of the chat server (Program2/handleTable.c): an array  *)
(* indexed by socket number whose entries hold the handle registered on    *)
(* that socket.  validFlag and the handle pointer are always set and       *)
(* cleared together, so one value per entry stands for both.               *)
(***************************************************************************)
EXTENDS Integers, FiniteSets, FiniteSetsExt

CONSTANTS
  Sockets,       \* the socket numbers the server can be given
  Handles,       \* the handles a client can ask for
  NoHandle,      \* an entry whose validFlag is 0
  InitialSize,   \* what main passes to initializeHandleTable
  AllocMayFail,  \* whether malloc and realloc may return NULL
  MaxAdds        \* bound of the model: no call of addHandle is made once
                 \* numValid has reached it (HandleTable's own Next only)

ASSUME SizeAssumption == InitialSize \in Nat \ {0}
ASSUME SocketAssumption == Sockets \subseteq Nat
ASSUME HandleAssumption == NoHandle \notin Handles

VARIABLES
  capacity,   \* handleTableCapacity, which always equals handleTableSize
  table,      \* handleTable
  numValid,   \* numValid
  status      \* the process: "running", "exited" by exit(), or "undefined"
              \* once it has done something C gives no meaning to

tableVars == <<capacity, table, numValid, status>>

Slots == 0 .. capacity - 1
Occupied == {i \in Slots : table[i] # NoHandle}
Holders(h) == {i \in Slots : table[i] = h}

Init ==
  /\ capacity = InitialSize
  /\ table = [i \in 0 .. InitialSize - 1 |-> NoHandle]
  /\ numValid = 0
  /\ status = "running"

----------------------------------------------------------------------------
(* resizeHandleTable doubles the array once, whatever size its caller      *)
(* asks for; addHandle calls it when the socket has no entry yet.          *)
GrownByOneEntry(s) == IF s < capacity THEN capacity ELSE capacity + 1   \* mutant

GrownCapacity(s) == IF s < capacity THEN capacity ELSE 2 * capacity

GrownToNothing(s) == [i \in Slots |-> table[i]]   \* mutant: realloc of the old size

GrownAnew(s) ==   \* mutant: a fresh array, the old one not copied
  [i \in 0 .. GrownCapacity(s) - 1 |->
     IF i \in Slots /\ s < capacity THEN table[i] ELSE NoHandle]

GrownTable(s) ==
  [i \in 0 .. GrownCapacity(s) - 1 |-> IF i \in Slots THEN table[i] ELSE NoHandle]

Grow(s) ==
  /\ capacity' = GrownCapacity(s)
  /\ table' = GrownTable(s)

(* addHandle refuses a handle that a valid entry already holds.            *)
CountRefused(s, h) ==   \* mutant: counts before it searches
  /\ Holders(h) # {}
  /\ Grow(s)
  /\ numValid' = numValid + 1
  /\ UNCHANGED status

RefuseHandle(s, h) ==
  /\ Holders(h) # {}
  /\ Grow(s)
  /\ UNCHANGED <<numValid, status>>

StoreUnchecked(s, h) ==   \* mutant: no search for the handle
  /\ s < GrownCapacity(s)
  /\ capacity' = GrownCapacity(s)
  /\ table' = [GrownTable(s) EXCEPT ![s] = h]
  /\ numValid' = numValid + 1
  /\ UNCHANGED status

StoreHandle(s, h) ==
  /\ Holders(h) = {}
  /\ s < GrownCapacity(s)
  /\ capacity' = GrownCapacity(s)
  /\ table' = [GrownTable(s) EXCEPT ![s] = h]
  /\ numValid' = numValid + 1
  /\ UNCHANGED status

(* One doubling was not enough: the entry written lies outside the array.  *)
Overrun(s, h) ==
  /\ Holders(h) = {}
  /\ s >= GrownCapacity(s)
  /\ status' = "undefined"
  /\ Grow(s)
  /\ UNCHANGED numValid

(* malloc of the copy fails: -1, as for a handle in use.  An entry that    *)
(* was valid before is left valid with a NULL handle.                      *)
CopyFails(s, h) ==
  /\ AllocMayFail
  /\ Holders(h) = {}
  /\ s < GrownCapacity(s)
  /\ Grow(s)
  /\ status' = IF s \in Occupied THEN "undefined" ELSE status
  /\ UNCHANGED numValid

(* realloc fails: resizeHandleTable calls exit(EXIT_FAILURE).              *)
GrowFails(s) ==
  /\ AllocMayFail
  /\ s >= capacity
  /\ status' = "exited"
  /\ UNCHANGED <<capacity, table, numValid>>

(* addHandle(s, h); accepted says whether it returned 0 rather than -1.    *)
AddHandle(s, h, accepted) ==
  \/ accepted /\ StoreHandle(s, h)
  \/ ~accepted /\ RefuseHandle(s, h)
  \/ ~accepted /\ CopyFails(s, h)
  \/ ~accepted /\ Overrun(s, h)
  \/ ~accepted /\ GrowFails(s)

(* removeHandle(s) ignores a socket beyond the table or without handle;    *)
(* numValid is left as it is.                                              *)
RemoveAndCount(s) ==   \* mutant: counts down whether there was a handle or not
  /\ table' = IF s \in Slots THEN [table EXCEPT ![s] = NoHandle] ELSE table
  /\ numValid' = numValid - 1
  /\ UNCHANGED <<capacity, status>>

RemoveHandle(s) ==
  /\ table' = IF s \in Slots THEN [table EXCEPT ![s] = NoHandle] ELSE table
  /\ UNCHANGED <<capacity, numValid, status>>

(* findSocket(h): the lowest valid entry with that handle, or -1.          *)
FindSocket(h) == IF Holders(h) = {} THEN -1 ELSE Min(Holders(h))

----------------------------------------------------------------------------
(* The table on its own: its caller may use any socket in any order.       *)
Next ==
  /\ status = "running"
  /\ \E s \in Sockets :
       \/ numValid < MaxAdds /\ \E h \in Handles, b \in BOOLEAN : AddHandle(s, h, b)
       \/ RemoveHandle(s)

Spec == Init /\ [][Next]_tableVars

----------------------------------------------------------------------------
(* Every variable stays in its range, and the table has one entry per      *)
(* socket number below the capacity.                                       *)
TypeOK ==
  /\ capacity \in Nat \ {0}
  /\ table \in [0 .. capacity - 1 -> Handles \cup {NoHandle}]
  /\ numValid \in Nat
  /\ status \in {"running", "exited", "undefined"}

(* No two sockets hold the same handle, so that findSocket names the one   *)
(* client a message is meant for.                                          *)
HandlesUnique ==
  \A i, j \in Occupied : table[i] = table[j] => i = j

(* getValids never announces fewer handles than the table holds.           *)
CountCoversTable == Cardinality(Occupied) <= numValid

(* addHandle writes outside the array only for a socket numbered at least  *)
(* twice the initial size: for the others one doubling has made room,      *)
(* whatever calls came before.                                             *)
OverrunNeedsLargeSocket ==
  [][\A s \in Sockets, h \in Handles : Overrun(s, h) => s >= 2 * InitialSize]_tableVars

(* The table implements the directory: growing keeps every registration,   *)
(* a refusal changes nothing a caller can see, a failure only stops it.    *)
Directory == INSTANCE HandleDirectory WITH
  dir <- [s \in Sockets |-> IF s \in Slots THEN table[s] ELSE NoHandle],
  accepted <- numValid,
  usable <- status = "running"

DirectorySpec == Directory!Spec
=============================================================================
