-------------------------- MODULE PollLoopProofs ---------------------------
(***************************************************************************)
(* Proofs about PollLoop for every set of sockets and every size.          *)
(***************************************************************************)
EXTENDS PollLoop, WellFoundedInduction, TLAPS

(* The search of pollCall from slot 0 upwards finds the lowest slot.       *)
LEMMA MinIsLowest ==
  ASSUME NEW S \in SUBSET Nat, S # {}
  PROVE  Min(S) \in S /\ \A i \in S : Min(S) <= i
<1> DEFINE R == OpToRel(<, Nat)
<1>1. R = {ss \in Nat \X Nat : ss[1] < ss[2]}
  BY Zenon DEF OpToRel
<1>2. IsWellFoundedOn(R, Nat)
  BY NatLessThanWellFounded, Zenon
<1> HIDE DEF R
<1>3. \E i \in S : \A j \in S : ~(<<j, i>> \in R)
  BY <1>2, WFMin, Zenon
<1>4. \A i, j \in Nat : j < i => <<j, i>> \in R
  <2> TAKE i, j \in Nat
  <2> DEFINE p == <<j, i>>
  <2>1. p \in Nat \X Nat /\ p[1] = j /\ p[2] = i
    OBVIOUS
  <2> HIDE DEF p
  <2>2. j < i => p \in R
    BY <1>1, <2>1
  <2> QED
    BY <2>2 DEF p
<1>5. \A i, j \in Nat : ~(j < i) => i <= j
  OBVIOUS
<1>6. \E i \in S : \A j \in S : i <= j
  BY <1>3, <1>4, <1>5
<1> QED
  BY <1>6 DEF Min

----------------------------------------------------------------------------
(* A socket joins the set in its own slot and moves no other, whether the  *)
(* set grows or not.                                                       *)
LEMMA AddTakesOwnSlot ==
  ASSUME TypeOK, NEW s \in Sockets, AddToPollSet(s)
  PROVE  /\ setSize' \in Nat \ {0} /\ setSize <= setSize' /\ s < setSize'
         /\ pollSet' \in [0 .. setSize' - 1 -> Sockets \cup {Stdin}]
         /\ maxFd' \in 0 .. setSize' /\ maxFd <= maxFd' /\ s < maxFd'
         /\ Watched' = Watched \cup {s}
         /\ pollSet'[s] = s
         /\ \A i \in Watched \ {s} : pollSet'[i] = pollSet[i]
<1>1. /\ s \in Nat /\ s # Stdin /\ setSize \in Nat \ {0} /\ maxFd \in 0 .. setSize
      /\ pollSet \in [0 .. setSize - 1 -> Sockets \cup {Stdin}]
  BY PollSocketAssumption DEF TypeOK
<1>2. GrownSize(s) \in Nat \ {0} /\ setSize <= GrownSize(s) /\ s < GrownSize(s)
  BY <1>1, PollSizeAssumption DEF GrownSize
<1>3. GrownSet(s) = [i \in 0 .. GrownSize(s) - 1 |->
                       IF i < setSize THEN pollSet[i] ELSE Stdin]
  BY DEF GrownSet
<1>4. GrownSet(s) \in [0 .. GrownSize(s) - 1 -> Sockets \cup {Stdin}]
  BY <1>1, <1>2, <1>3
<1>5. /\ setSize' = GrownSize(s)
      /\ pollSet' = [GrownSet(s) EXCEPT ![s] = s]
      /\ maxFd' = IF s + 1 >= maxFd THEN s + 1 ELSE maxFd
  BY DEF AddToPollSet
<1>6. pollSet' \in [0 .. setSize' - 1 -> Sockets \cup {Stdin}]
  BY <1>4, <1>5
<1>7. \A i \in 0 .. setSize' - 1 :
        pollSet'[i] = IF i = s THEN s ELSE IF i < setSize THEN pollSet[i] ELSE Stdin
  BY <1>1, <1>2, <1>3, <1>4, <1>5
<1>8. s \in 0 .. setSize' - 1 /\ \A i \in 0 .. setSize - 1 : i \in 0 .. setSize' - 1
  BY <1>1, <1>2, <1>5
<1>9. Watched' = Watched \cup {s} /\ \A i \in Watched \ {s} : pollSet'[i] = pollSet[i]
  BY <1>1, <1>7, <1>8 DEF Watched
<1>10. maxFd' \in 0 .. setSize' /\ maxFd <= maxFd' /\ s < maxFd'
  BY <1>1, <1>2, <1>5
<1> QED
  BY <1>2, <1>5, <1>6, <1>7, <1>8, <1>9, <1>10

(* Once the standard input has hung up, pollCall returns nothing but slot  *)
(* 0; before, it returns a socket with input.                              *)
LEMMA PollCallReturns ==
  ASSUME TypeOK, WatchesMembers
  PROVE  LET i == PollCall(ready, IF hup THEN {Stdin} ELSE {}) IN
         i # -1 => IF hup THEN i = Stdin ELSE i \in ready
<1> DEFINE H == IF hup THEN {Stdin} ELSE {}
           i == PollCall(ready, H)
           R == Reported(ready, H)
<1> SUFFICES ASSUME i # -1
             PROVE  IF hup THEN i = Stdin ELSE i \in ready
  OBVIOUS
<1>1. R \in SUBSET Nat /\ R \subseteq 0 .. maxFd - 1
  BY DEF Reported, TypeOK
<1>2. R # {} /\ i = Min(R)
  BY DEF PollCall
<1>3. i \in R /\ \A j \in R : i <= j
  BY <1>1, <1>2, MinIsLowest
<1> HIDE DEF i
<1>4. CASE ~hup
  BY <1>3, <1>4 DEF Reported, WatchesMembers
<1>5. CASE hup
  <2>1. 0 \in 0 .. maxFd - 1
    <3>1. i \in 0 .. maxFd - 1 /\ maxFd \in Int
      <4> HIDE DEF R
      <4> QED
        BY <1>1, <1>3 DEF TypeOK
    <3> QED
      BY <3>1
  <2>2. 0 \notin Watched
    BY PollSocketAssumption DEF WatchesMembers, TypeOK, Stdin
  <2>3. pollSet[0] = Stdin
    BY <2>1, <2>2 DEF Watched, TypeOK
  <2>4. 0 \in R
    BY <1>5, <2>1, <2>3 DEF Reported
  <2> QED
    BY <1>1, <1>3, <1>5, <2>4 DEF Stdin
<1> QED
  BY <1>4, <1>5

----------------------------------------------------------------------------
(* The inductive invariant: what poll is given and the open sockets can    *)
(* only be compared while the arrays have their shape.                     *)
IInv == TypeOK /\ WatchesMembers

(* Every step of the loop keeps it.                                        *)
THEOREM IInvHolds == Spec => []IInv
<1>1. Init => IInv
  <2> SUFFICES ASSUME Init PROVE TypeOK /\ WatchesMembers
    BY DEF IInv
  <2>1. /\ setSize = POLL_SET_SIZE /\ maxFd = 0 /\ members = {}
        /\ pollSet = [i \in 0 .. setSize - 1 |-> Stdin]
    BY DEF Init, SetupPollSet
  <2>2. pollSet \in [0 .. setSize - 1 -> Sockets \cup {Stdin}]
    BY <2>1
  <2>3. Watched = {}
    BY <2>1 DEF Watched
  <2>4. maxFd \in 0 .. setSize
    BY <2>1, PollSizeAssumption
  <2>5. TypeOK
    BY <2>1, <2>2, <2>4, PollSizeAssumption DEF Init, TypeOK
  <2> QED
    BY <2>1, <2>3, <2>5 DEF WatchesMembers
<1>2. IInv /\ [Next]_loopVars => IInv'
  <2> SUFFICES ASSUME TypeOK, WatchesMembers, [Next]_loopVars
               PROVE  TypeOK' /\ WatchesMembers'
    BY DEF IInv
  <2>1. CASE UNCHANGED loopVars
    BY <2>1 DEF loopVars, TypeOK, WatchesMembers, Watched
  <2>2. ASSUME NEW s \in Sockets, Add(s)
        PROVE  TypeOK' /\ WatchesMembers'
    <3>1. CASE AddToPollSet(s) /\ members' = members \cup {s} /\ UNCHANGED status
      <4>1. TypeOK'
        BY <2>2, <3>1, AddTakesOwnSlot DEF Add, TypeOK
      <4>2. /\ Watched' = Watched \cup {s} /\ pollSet'[s] = s
            /\ \A i \in Watched \ {s} : pollSet'[i] = pollSet[i]
            /\ maxFd <= maxFd' /\ s < maxFd' /\ maxFd \in Nat /\ maxFd' \in Nat
        BY <3>1, AddTakesOwnSlot DEF TypeOK
      <4>3. Watched' = members'
        BY <3>1, <4>2 DEF WatchesMembers
      <4>4. \A i \in Watched : i \in Nat /\ pollSet[i] = i /\ i < maxFd
        BY DEF WatchesMembers, Watched
      <4>5. \A i \in Watched' : pollSet'[i] = i /\ i < maxFd'
        BY <4>2, <4>4
      <4> QED
        BY <4>1, <4>3, <4>5 DEF WatchesMembers
    <3>2. CASE GrowPollSetFails(s) /\ UNCHANGED members
      BY <2>2, <3>2 DEF Add, GrowPollSetFails, pollVars, TypeOK, WatchesMembers, Watched
    <3> QED
      BY <2>2, <3>1, <3>2 DEF Add
  <2>3. ASSUME NEW s \in Sockets, Remove(s)
        PROVE  TypeOK' /\ WatchesMembers'
    <3>1. /\ pollSet' = [pollSet EXCEPT ![s] = Stdin]
          /\ setSize' = setSize /\ maxFd' = maxFd
          /\ members' = members \ {s}
      BY <2>3 DEF Remove, RemoveFromPollSet
    <3>2. TypeOK'
      BY <2>3, <3>1 DEF Remove, TypeOK
    <3>3. \A i \in 0 .. setSize - 1 : pollSet'[i] = IF i = s THEN Stdin ELSE pollSet[i]
      BY <3>1 DEF TypeOK
    <3>4. Watched' = Watched \ {s}
      BY <3>1, <3>3 DEF Watched
    <3>5. Watched \subseteq 0 .. setSize - 1
      BY DEF Watched
    <3> QED
      BY <3>1, <3>2, <3>3, <3>4, <3>5 DEF WatchesMembers
  <2>4. ASSUME NEW s \in Sockets, Arrive(s)
        PROVE  TypeOK' /\ WatchesMembers'
    BY <2>4 DEF Arrive, pollVars, TypeOK, WatchesMembers, Watched
  <2>5. CASE StdinHangsUp
    BY <2>5 DEF StdinHangsUp, pollVars, TypeOK, WatchesMembers, Watched
  <2>6. CASE Serve
    <3> DEFINE i == PollCall(ready, IF hup THEN {Stdin} ELSE {})
    <3>1. i # -1 /\ returned' = i /\ ready' = ready \ {i}
      BY <2>6 DEF Serve
    <3>2. i \in ready \cup {Stdin}
      BY <3>1, PollCallReturns
    <3> HIDE DEF i
    <3>3. returned' \in members \cup {-1, Stdin} /\ ready' \subseteq members
      BY <3>1, <3>2 DEF TypeOK
    <3>4. UNCHANGED <<pollSet, setSize, maxFd, members, hup>> /\ status' \in {"running", "exited"}
      BY <2>6 DEF Serve, pollVars
    <3> QED
      BY <3>3, <3>4 DEF TypeOK, WatchesMembers, Watched
  <2> QED
    BY <2>1, <2>2, <2>3, <2>4, <2>5, <2>6 DEF Next
<1> QED
  BY <1>1, <1>2, PTL DEF Spec

(* The arrays and the sets keep their shape.                               *)
THEOREM TypeCorrect == Spec => []TypeOK
  BY IInvHolds, PTL DEF IInv

(* Poll is given exactly the open sockets, through every growth, removal   *)
(* and reuse of a descriptor.                                              *)
THEOREM WatchedAreMembers == Spec => []WatchesMembers
  BY IInvHolds, PTL DEF IInv

(* pollCall returns a socket with input until the standard input hangs up, *)
(* and the number of the standard input from then on.                      *)
THEOREM OnlyStdinMasks == Spec => OnlyStdinMasksSockets
<1>1. IInv /\ [Next]_loopVars
      => [Serve => IF hup THEN returned' = Stdin ELSE returned' \in ready]_loopVars
  BY PollCallReturns DEF IInv, Serve
<1> QED
  BY <1>1, IInvHolds, PTL DEF Spec, OnlyStdinMasksSockets

(* As long as the standard input stays open, what pollCall returns is a    *)
(* socket with input, as its comment says.  This is the only assumption    *)
(* the comment needs.                                                      *)
THEOREM ReturnsReady ==
  ASSUME StdinMayHangUp = FALSE
  PROVE  Spec => ReturnsReadySocket
<1>1. Init => hup = FALSE
  BY DEF Init
<1>2. hup = FALSE /\ [Next]_loopVars => (hup = FALSE)'
  BY DEF Next, Add, Remove, Arrive, StdinHangsUp, Serve, loopVars
<1>3. IInv /\ hup = FALSE /\ [Next]_loopVars => [Serve => returned' \in ready]_loopVars
  BY PollCallReturns DEF IInv, Serve
<1> QED
  BY <1>1, <1>2, <1>3, IInvHolds, PTL DEF Spec, ReturnsReadySocket
=============================================================================
