------------------------- MODULE HandleTableProofs -------------------------
(***************************************************************************)
(* Proofs about HandleTable for every initial size, every set of sockets   *)
(* and every set of handles.                                               *)
(***************************************************************************)
EXTENDS HandleTable, FiniteSetTheorems, TLAPS

Entry == Handles \cup {NoHandle}

----------------------------------------------------------------------------
(* resizeHandleTable keeps every entry where it is and adds empty ones.    *)
LEMMA GrowthKeepsEntries ==
  ASSUME TypeOK, NEW s \in Nat
  PROVE  /\ GrownCapacity(s) \in Nat \ {0}
         /\ capacity <= GrownCapacity(s)
         /\ GrownTable(s) \in [0 .. GrownCapacity(s) - 1 -> Entry]
         /\ \A i \in Slots : GrownTable(s)[i] = table[i]
         /\ \A i \in 0 .. GrownCapacity(s) - 1 :
              GrownTable(s)[i] # NoHandle => i \in Slots
<1>1. capacity \in Nat \ {0} /\ table \in [Slots -> Entry]
  BY DEF TypeOK, Slots, Entry
<1>2. GrownCapacity(s) \in Nat \ {0} /\ capacity <= GrownCapacity(s)
  BY <1>1 DEF GrownCapacity
<1>3. GrownTable(s) = [i \in 0 .. GrownCapacity(s) - 1 |->
                         IF i \in Slots THEN table[i] ELSE NoHandle]
  BY DEF GrownTable
<1>4. GrownTable(s) \in [0 .. GrownCapacity(s) - 1 -> Entry]
  BY <1>1, <1>3 DEF Entry
<1>5. \A i \in Slots : i \in 0 .. GrownCapacity(s) - 1
  BY <1>1, <1>2 DEF Slots
<1> QED
  BY <1>2, <1>3, <1>4, <1>5

(* What the table holds does not depend on its capacity.                   *)
LEMMA GrowKeepsHandles ==
  ASSUME TypeOK, NEW s \in Nat, Grow(s)
  PROVE  /\ Occupied' = Occupied
         /\ \A i \in Occupied : table'[i] = table[i]
<1>1. capacity' = GrownCapacity(s) /\ table' = GrownTable(s)
  BY DEF Grow
<1>2. /\ capacity \in Nat /\ GrownCapacity(s) \in Nat
      /\ capacity <= GrownCapacity(s)
      /\ \A i \in Slots : GrownTable(s)[i] = table[i]
      /\ \A i \in 0 .. GrownCapacity(s) - 1 :
           GrownTable(s)[i] # NoHandle => i \in Slots
  BY GrowthKeepsEntries DEF TypeOK
<1>3. \A i \in Slots : i \in Slots'
  BY <1>1, <1>2 DEF Slots
<1> QED
  BY <1>1, <1>2, <1>3 DEF Occupied, Slots

(* addHandle that succeeds adds one entry and leaves the others.           *)
LEMMA StoreAddsOne ==
  ASSUME TypeOK, NEW s \in Nat, NEW h \in Handles, StoreHandle(s, h)
  PROVE  /\ Occupied' = Occupied \cup {s}
         /\ table'[s] = h
         /\ \A i \in Occupied \ {s} : table'[i] = table[i]
<1>1. /\ capacity' = GrownCapacity(s)
      /\ table' = [GrownTable(s) EXCEPT ![s] = h]
      /\ s < GrownCapacity(s)
  BY DEF StoreHandle
<1>2. /\ capacity \in Nat /\ GrownCapacity(s) \in Nat
      /\ capacity <= GrownCapacity(s)
      /\ GrownTable(s) \in [0 .. GrownCapacity(s) - 1 -> Entry]
      /\ \A i \in Slots : GrownTable(s)[i] = table[i]
      /\ \A i \in 0 .. GrownCapacity(s) - 1 :
           GrownTable(s)[i] # NoHandle => i \in Slots
  BY GrowthKeepsEntries DEF TypeOK
<1>3. \A i \in Slots : i \in Slots'
  BY <1>1, <1>2 DEF Slots
<1>4. s \in Slots' /\ Slots' = 0 .. GrownCapacity(s) - 1
  BY <1>1, <1>2 DEF Slots
<1>5. h # NoHandle
  BY HandleAssumption
<1>6. \A i \in Slots' : table'[i] = IF i = s THEN h ELSE GrownTable(s)[i]
  BY <1>1, <1>2, <1>4
<1> QED
  BY <1>2, <1>3, <1>4, <1>5, <1>6 DEF Occupied

----------------------------------------------------------------------------
(* Every way addHandle can end keeps the shape of the table.               *)
LEMMA AddHandleTyped ==
  ASSUME TypeOK, NEW s \in Nat, NEW h \in Handles, NEW b \in BOOLEAN,
         AddHandle(s, h, b)
  PROVE  TypeOK'
<1>1. /\ GrownCapacity(s) \in Nat \ {0}
      /\ GrownTable(s) \in [0 .. GrownCapacity(s) - 1 -> Entry]
  BY GrowthKeepsEntries
<1>2. CASE StoreHandle(s, h)
  <2>1. [GrownTable(s) EXCEPT ![s] = h] \in [0 .. GrownCapacity(s) - 1 -> Entry]
    BY <1>1 DEF Entry
  <2> QED
    BY <1>1, <1>2, <2>1 DEF StoreHandle, TypeOK, Entry
<1>3. CASE RefuseHandle(s, h)
  BY <1>1, <1>3 DEF RefuseHandle, Grow, TypeOK, Entry
<1>4. CASE CopyFails(s, h)
  BY <1>1, <1>4 DEF CopyFails, Grow, TypeOK, Entry
<1>5. CASE Overrun(s, h)
  BY <1>1, <1>5 DEF Overrun, Grow, TypeOK, Entry
<1>6. CASE GrowFails(s)
  BY <1>6 DEF GrowFails, TypeOK
<1> QED
  BY <1>2, <1>3, <1>4, <1>5, <1>6 DEF AddHandle

(* The table has one entry per socket number below its capacity, in every  *)
(* state that addHandle, removeHandle and resizeHandleTable lead to.       *)
THEOREM TypeCorrect == Spec => []TypeOK
<1>1. Init => TypeOK
  BY SizeAssumption DEF Init, TypeOK
<1>2. TypeOK /\ [Next]_tableVars => TypeOK'
  <2> SUFFICES ASSUME TypeOK, [Next]_tableVars PROVE TypeOK'
    OBVIOUS
  <2>1. CASE UNCHANGED tableVars
    BY <2>1 DEF tableVars, TypeOK
  <2>2. ASSUME NEW s \in Sockets, NEW h \in Handles, NEW b \in BOOLEAN,
               AddHandle(s, h, b)
        PROVE  TypeOK'
    BY <2>2, AddHandleTyped, SocketAssumption
  <2>3. ASSUME NEW s \in Sockets, RemoveHandle(s)
        PROVE  TypeOK'
    BY <2>3 DEF RemoveHandle, Slots, TypeOK
  <2> QED
    BY <2>1, <2>2, <2>3 DEF Next
<1> QED
  BY <1>1, <1>2, PTL DEF Spec

----------------------------------------------------------------------------
(* What every step does to the entries in use, said once for the           *)
(* invariants below: they stay, one is added, or one is removed.           *)
EntriesStay ==
  /\ Occupied' = Occupied
  /\ \A i \in Occupied : table'[i] = table[i]

EntryAdded(s, h) ==
  /\ Holders(h) = {}
  /\ Occupied' = Occupied \cup {s}
  /\ table'[s] = h
  /\ \A i \in Occupied \ {s} : table'[i] = table[i]
  /\ numValid' = numValid + 1

EntryRemoved(s) ==
  /\ Occupied' = Occupied \ {s}
  /\ \A i \in Occupied \ {s} : table'[i] = table[i]

(* addHandle leaves every entry as it is or adds the one it accepts, for a *)
(* handle nobody holds.                                                    *)
LEMMA AddHandleEffect ==
  ASSUME TypeOK, NEW s \in Nat, NEW h \in Handles, NEW b \in BOOLEAN,
         AddHandle(s, h, b)
  PROVE  \/ EntriesStay /\ numValid' = numValid
         \/ b /\ EntryAdded(s, h) /\ status' = status
<1>1. CASE b /\ StoreHandle(s, h)
  BY <1>1, StoreAddsOne DEF StoreHandle, EntryAdded
<1>2. CASE Grow(s) /\ numValid' = numValid
  BY <1>2, GrowKeepsHandles DEF EntriesStay
<1>3. CASE GrowFails(s)
  BY <1>3 DEF GrowFails, EntriesStay, Occupied, Slots
<1> QED
  BY <1>1, <1>2, <1>3 DEF AddHandle, RefuseHandle, CopyFails, Overrun

(* removeHandle takes one entry out.                                       *)
LEMMA RemoveHandleEffect ==
  ASSUME TypeOK, NEW s, RemoveHandle(s)
  PROVE  EntryRemoved(s) /\ numValid' = numValid
  BY DEF RemoveHandle, EntryRemoved, Occupied, Slots, TypeOK

(* Every step of the table, by its effect on the entries.                  *)
LEMMA EveryStep ==
  ASSUME TypeOK, [Next]_tableVars
  PROVE  \/ EntriesStay /\ numValid' = numValid
         \/ \E s \in Sockets, h \in Handles : EntryAdded(s, h)
         \/ \E s \in Sockets : EntryRemoved(s) /\ numValid' = numValid
<1>1. CASE UNCHANGED tableVars
  BY <1>1 DEF tableVars, EntriesStay, Occupied, Slots
<1>2. ASSUME NEW s \in Sockets, NEW h \in Handles, NEW b \in BOOLEAN,
             AddHandle(s, h, b)
      PROVE  \/ EntriesStay /\ numValid' = numValid
             \/ EntryAdded(s, h)
  BY <1>2, AddHandleEffect, SocketAssumption
<1>3. ASSUME NEW s \in Sockets, RemoveHandle(s)
      PROVE  EntryRemoved(s) /\ numValid' = numValid
  BY <1>3, RemoveHandleEffect
<1> QED
  BY <1>1, <1>2, <1>3 DEF Next

(* findSocket can only ever name one socket: addHandle searches the whole  *)
(* table before it stores.                                                 *)
THEOREM HandlesStayUnique == Spec => []HandlesUnique
<1>1. Init => HandlesUnique
  BY DEF Init, HandlesUnique, Occupied, Slots
<1>2. TypeOK /\ HandlesUnique /\ [Next]_tableVars => HandlesUnique'
  <2> SUFFICES ASSUME TypeOK, HandlesUnique, [Next]_tableVars PROVE HandlesUnique'
    OBVIOUS
  <2>1. CASE EntriesStay
    BY <2>1 DEF EntriesStay, HandlesUnique
  <2>2. ASSUME NEW s \in Sockets, NEW h \in Handles, EntryAdded(s, h)
        PROVE  HandlesUnique'
    <3>1. \A i \in Occupied : table[i] # h
      BY <2>2 DEF EntryAdded, Holders, Occupied
    <3> QED
      BY <2>2, <3>1 DEF EntryAdded, HandlesUnique
  <2>3. ASSUME NEW s \in Sockets, EntryRemoved(s)
        PROVE  HandlesUnique'
    BY <2>3 DEF EntryRemoved, HandlesUnique
  <2> QED
    BY <2>1, <2>2, <2>3, EveryStep
<1> QED
  BY <1>1, <1>2, TypeCorrect, PTL DEF Spec

----------------------------------------------------------------------------

(* The table has finitely many entries.                                    *)
LEMMA OccupiedFinite ==
  ASSUME TypeOK
  PROVE  IsFiniteSet(Occupied) /\ Cardinality(Occupied) \in Nat
<1>1. capacity - 1 \in Int
  BY DEF TypeOK
<1>2. IsFiniteSet(0 .. capacity - 1)
  BY <1>1, FS_Interval
<1>3. Occupied \in SUBSET (0 .. capacity - 1)
  BY DEF Occupied, Slots
<1>4. IsFiniteSet(Occupied)
  BY <1>2, <1>3, FS_Subset
<1> QED
  BY <1>4, FS_CardinalityType

(* getValids is never below the number of entries that server.c lists      *)
(* after it: addHandle counts every entry it makes, and nothing else       *)
(* counts down.                                                            *)
THEOREM CountStaysAbove == Spec => []CountCoversTable
<1>1. Init => CountCoversTable
  <2> SUFFICES ASSUME Init PROVE Cardinality(Occupied) <= numValid
    BY DEF CountCoversTable
  <2>1. Occupied = {} /\ numValid = 0
    BY DEF Init, Occupied, Slots
  <2> QED
    BY <2>1, FS_EmptySet
<1>2. TypeOK /\ CountCoversTable /\ [Next]_tableVars => CountCoversTable'
  <2> SUFFICES ASSUME TypeOK, CountCoversTable, [Next]_tableVars
               PROVE  Cardinality(Occupied') <= numValid'
    BY DEF CountCoversTable
  <2>1. /\ IsFiniteSet(Occupied) /\ Cardinality(Occupied) \in Nat
        /\ numValid \in Nat /\ Cardinality(Occupied) <= numValid
    BY OccupiedFinite DEF TypeOK, CountCoversTable
  <2>2. CASE EntriesStay /\ numValid' = numValid
    BY <2>1, <2>2 DEF EntriesStay
  <2>3. ASSUME NEW s \in Sockets, NEW h \in Handles, EntryAdded(s, h)
        PROVE  Cardinality(Occupied') <= numValid'
    <3>1. Cardinality(Occupied \cup {s}) <= Cardinality(Occupied) + 1
      BY <2>1, FS_AddElement
    <3>2. Cardinality(Occupied \cup {s}) \in Nat
      BY <2>1, FS_AddElement, FS_CardinalityType
    <3> QED
      BY <2>1, <2>3, <3>1, <3>2 DEF EntryAdded
  <2>4. ASSUME NEW s \in Sockets, EntryRemoved(s), numValid' = numValid
        PROVE  Cardinality(Occupied') <= numValid'
    <3>1. Occupied' \in SUBSET Occupied
      BY <2>4 DEF EntryRemoved
    <3>2. Cardinality(Occupied') <= Cardinality(Occupied)
      BY <2>1, <3>1, FS_Subset
    <3>3. Cardinality(Occupied') \in Nat
      BY <2>1, <3>1, FS_Subset, FS_CardinalityType
    <3> QED
      BY <2>1, <2>4, <3>2, <3>3
  <2> QED
    BY <2>2, <2>3, <2>4, EveryStep
<1> QED
  BY <1>1, <1>2, TypeCorrect, PTL DEF Spec

----------------------------------------------------------------------------
(* Doubling once is enough for every socket below twice the initial size,  *)
(* 20 in the server: addHandle writes outside the array only beyond it,    *)
(* because no call ever shrinks the table.                                 *)
NeverShrunk == capacity >= InitialSize

(* Only a socket beyond what one growth makes room for is written outside  *)
(* the table.                                                              *)
THEOREM OverrunOnlyFromLargeSocket == Spec => OverrunNeedsLargeSocket
<1> USE SizeAssumption DEF NeverShrunk
<1>1. Init => NeverShrunk
  BY DEF Init
<1>2. TypeOK /\ NeverShrunk /\ [Next]_tableVars => NeverShrunk'
  <2> SUFFICES ASSUME TypeOK, NeverShrunk, [Next]_tableVars PROVE NeverShrunk'
    OBVIOUS
  <2>1. CASE UNCHANGED tableVars
    BY <2>1 DEF tableVars
  <2>2. ASSUME NEW s \in Sockets, NEW h \in Handles, NEW b \in BOOLEAN,
               AddHandle(s, h, b)
        PROVE  NeverShrunk'
    <3>1. capacity' \in {capacity, GrownCapacity(s)}
      BY <2>2 DEF AddHandle, StoreHandle, RefuseHandle, CopyFails, Overrun, GrowFails, Grow
    <3>2. GrownCapacity(s) >= capacity /\ GrownCapacity(s) \in Nat
      BY SocketAssumption, GrowthKeepsEntries
    <3> QED
      BY <3>1, <3>2 DEF TypeOK
  <2>3. ASSUME NEW s \in Sockets, RemoveHandle(s)
        PROVE  NeverShrunk'
    BY <2>3 DEF RemoveHandle
  <2> QED
    BY <2>1, <2>2, <2>3 DEF Next
<1>3. ASSUME TypeOK, NeverShrunk, NEW s \in Sockets, NEW h \in Handles, Overrun(s, h)
      PROVE  s >= 2 * InitialSize
  BY <1>3, SocketAssumption DEF TypeOK, Overrun, GrownCapacity
<1>4. TypeOK /\ NeverShrunk /\ [Next]_tableVars =>
        [\A s \in Sockets, h \in Handles : Overrun(s, h) => s >= 2 * InitialSize]_tableVars
  BY <1>3
<1> QED
  BY <1>1, <1>2, <1>4, TypeCorrect, PTL DEF Spec, OverrunNeedsLargeSocket

----------------------------------------------------------------------------
(* The refinement: what the table shows of socket t.                       *)
Dir(t) == IF t \in Slots THEN table[t] ELSE NoHandle

(* For every size and growth of the array, handleTable.c behaves as the    *)
(* directory of HandleDirectory: one handle per socket, one socket per     *)
(* handle, nothing lost and nothing changed by a refusal.                  *)
THEOREM ImplementsDirectory == Spec => DirectorySpec
<1>1. Init => Directory!Init
  BY SizeAssumption DEF Init, Slots, Directory!Init
<1>2. TypeOK /\ [Next]_tableVars => [Directory!Next]_(Directory!dirVars)
  <2> SUFFICES ASSUME TypeOK, [Next]_tableVars
               PROVE  [Directory!Next]_(Directory!dirVars)
    OBVIOUS
  <2> DEFINE dir == [t \in Sockets |-> Dir(t)]
  <2>0. /\ dir = [t \in Sockets |-> IF t \in Slots THEN table[t] ELSE NoHandle]
        /\ dir' = [t \in Sockets |-> IF t \in Slots' THEN table'[t] ELSE NoHandle]
        /\ \A t \in Sockets : dir[t] = Dir(t) /\ dir'[t] = Dir(t)'
    BY DEF Dir
  <2> HIDE DEF dir
  <2>1. CASE UNCHANGED tableVars
    BY <2>1 DEF tableVars, Directory!dirVars, Slots
  <2>2. ASSUME status = "running", NEW s \in Sockets, NEW h \in Handles,
               NEW b \in BOOLEAN, AddHandle(s, h, b)
        PROVE  [Directory!Next]_(Directory!dirVars)
    <3>1. s \in Nat
      BY SocketAssumption
    <3>2. CASE StoreHandle(s, h)
      <4>1. \A t \in Sockets : dir[t] # h
        BY <2>0, <3>2, HandleAssumption DEF Dir, StoreHandle, Holders
      <4>2. /\ Occupied' = Occupied \cup {s}
            /\ table'[s] = h
            /\ \A i \in Occupied \ {s} : table'[i] = table[i]
        BY <3>1, <3>2, StoreAddsOne
      <4>3. \A t \in Sockets : Dir(t)' = IF t = s THEN h ELSE Dir(t)
        BY <4>2 DEF Dir, Occupied
      <4>4. dir' = [dir EXCEPT ![s] = h]
        BY <2>0, <4>3
      <4>5. Directory!Register(s, h)
        BY <2>0, <2>2, <3>2, <4>1, <4>4
           DEF StoreHandle, Directory!Register, Directory!Registered
      <4> QED
        BY <4>5 DEF Directory!Next
    <3>3. CASE (Grow(s) \/ GrowFails(s)) /\ numValid' = numValid
      <4>1. Occupied' = Occupied /\ \A i \in Occupied : table'[i] = table[i]
        BY <3>1, <3>3, GrowKeepsHandles DEF GrowFails, Occupied, Slots
      <4>2. \A t \in Sockets : Dir(t)' = Dir(t)
        BY <4>1 DEF Dir, Occupied
      <4>3. dir' = dir
        BY <2>0, <4>2
      <4>4. CASE status' = "running"
        BY <2>0, <2>2, <3>3, <4>3, <4>4 DEF Directory!dirVars
      <4>5. CASE status' # "running"
        BY <2>0, <3>3, <4>3, <4>5 DEF Directory!Next, Directory!Stop
      <4> QED
        BY <4>4, <4>5
    <3> QED
      BY <2>2, <3>2, <3>3
         DEF AddHandle, RefuseHandle, CopyFails, Overrun, GrowFails
  <2>3. ASSUME status = "running", NEW s \in Sockets, RemoveHandle(s)
        PROVE  [Directory!Next]_(Directory!dirVars)
    <3>1. \A t \in Sockets : Dir(t)' = IF t = s THEN NoHandle ELSE Dir(t)
      BY <2>3 DEF RemoveHandle, Dir, Slots, TypeOK
    <3>2. dir' = [dir EXCEPT ![s] = NoHandle]
      BY <2>0, <3>1
    <3>3. Directory!Unregister(s)
      BY <2>0, <2>3, <3>2 DEF RemoveHandle, Directory!Unregister
    <3> QED
      BY <3>3 DEF Directory!Next
  <2> QED
    BY <2>1, <2>2, <2>3 DEF Next
<1> QED
  BY <1>1, <1>2, TypeCorrect, PTL DEF Spec, DirectorySpec, Directory!Spec
=============================================================================
