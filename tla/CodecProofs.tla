---------------------------- MODULE CodecProofs ----------------------------
(***************************************************************************)
(* Proofs about Codec for requests of any lengths and buffers of any sizes.*)
(***************************************************************************)
EXTENDS Codec, FiniteSetTheorems, SequenceTheorems, WellFoundedInduction, TLAPS

(* A set of numbers that is not empty has a lowest member.  What follows   *)
(* by induction over numbers is proved from it.                            *)
LEMMA LowestExists ==
  ASSUME NEW S \in SUBSET Nat, S # {}
  PROVE  \E i \in S : \A j \in S : i <= j
<1> DEFINE R == OpToRel(<, Nat)
<1>1. R = {ss \in Nat \X Nat : ss[1] < ss[2]}
  BY Zenon DEF OpToRel
<1>2. IsWellFoundedOn(R, Nat)
  BY NatLessThanWellFounded, Zenon
<1> HIDE DEF R
<1>3. \E i \in S : \A j \in S : ~(<<j, i>> \in R)
  BY <1>2, WFMin, Zenon
<1>4. \A i, j \in Nat : j < i => <<j, i>> \in R
  <2> TAKE i, j \in Nat
  <2> DEFINE p == <<j, i>>
  <2>1. p \in Nat \X Nat /\ p[1] = j /\ p[2] = i
    OBVIOUS
  <2> HIDE DEF p
  <2>2. j < i => p \in R
    BY <1>1, <2>1
  <2> QED
    BY <2>2 DEF p
<1>5. \A i, j \in Nat : ~(j < i) => i <= j
  OBVIOUS
<1> QED
  BY <1>3, <1>4, <1>5

(* A set that has 0 and with each number the next one has every number.    *)
LEMMA EveryNumber ==
  ASSUME NEW S, 0 \in S, \A n \in Nat : n \in S => n + 1 \in S
  PROVE  Nat \subseteq S
<1> SUFFICES ASSUME Nat \ S # {} PROVE FALSE
  OBVIOUS
<1>1. PICK i \in Nat \ S : \A j \in Nat \ S : i <= j
  BY LowestExists
<1>2. i - 1 \in Nat /\ i = (i - 1) + 1 /\ i - 1 \in S
  BY <1>1
<1> QED
  BY <1>1, <1>2

----------------------------------------------------------------------------
(* Sums                                                                    *)

(* What a sum over a function is read from: the sums over the sets of its  *)
(* arguments.                                                              *)
AnyOf(T) == CHOOSE x \in T : TRUE
IsSums(f, sums) ==
  sums = [T \in SUBSET DOMAIN f |->
            IF T = {} THEN 0 ELSE f[AnyOf(T)] + sums[T \ {AnyOf(T)}]]

(* SumFunction reads its last entry.                                       *)
LEMMA SumIsRead ==
  ASSUME NEW f, \E sums : IsSums(f, sums)
  PROVE  \E sums : IsSums(f, sums) /\ SumFunction(f) = sums[DOMAIN f]
<1> DEFINE sums == CHOOSE sums : IsSums(f, sums)
<1>1. IsSums(f, sums)
  OBVIOUS
<1>2. SumFunction(f) = sums[DOMAIN f]
  BY DEF IsSums, AnyOf, SumFunction, SumFunctionOnSet, FoldFunctionOnSet, MapThenFoldSet
<1> QED
  BY <1>1, <1>2

(* The sums of the sets of at most n members.                              *)
Small(D, n) == {T \in SUBSET D : Cardinality(T) <= n}
IsSumsUpTo(f, n, sums) ==
  sums = [T \in Small(DOMAIN f, n) |->
            IF T = {} THEN 0 ELSE f[AnyOf(T)] + sums[T \ {AnyOf(T)}]]

(* To leave one member out makes a set smaller.                            *)
LEMMA OneLess ==
  ASSUME NEW D, IsFiniteSet(D), NEW n \in Nat, NEW T \in Small(D, n + 1), T # {}
  PROVE  AnyOf(T) \in T /\ T \ {AnyOf(T)} \in Small(D, n)
<1>1. AnyOf(T) \in T
  BY DEF AnyOf
<1>2. IsFiniteSet(T) /\ T \in SUBSET D
  BY FS_Subset DEF Small
<1>3. Cardinality(T \ {AnyOf(T)}) = Cardinality(T) - 1 /\ Cardinality(T) \in Nat
  BY <1>1, <1>2, FS_RemoveElement, FS_CardinalityType
<1> QED
  BY <1>1, <1>2, <1>3 DEF Small

(* There is a sum: the recursion of the fold ends.                         *)
LEMMA SumsExist ==
  ASSUME NEW f, IsFiniteSet(DOMAIN f)
  PROVE  \E sums : IsSums(f, sums)
<1> DEFINE D == DOMAIN f
           S == {n \in Nat : \E sums : IsSumsUpTo(f, n, sums)}
<1>1. 0 \in S
  <2>1. PICK none : none = [T \in Small(D, 0) |-> 0]
    OBVIOUS
  <2>2. ASSUME NEW T \in Small(D, 0) PROVE T = {}
    <3>1. IsFiniteSet(T) /\ Cardinality(T) <= 0
      BY FS_Subset DEF Small
    <3> QED
      BY <3>1, FS_CardinalityType, FS_EmptySet
  <2>3. none = [T \in Small(D, 0) |->
                  IF T = {} THEN 0 ELSE f[AnyOf(T)] + none[T \ {AnyOf(T)}]]
    BY <2>1, <2>2
  <2>4. IsSumsUpTo(f, 0, none)
    BY <2>3 DEF IsSumsUpTo
  <2> QED
    BY <2>4
<1>2. ASSUME NEW n \in Nat, n \in S PROVE n + 1 \in S
  <2>1. PICK g : IsSumsUpTo(f, n, g)
    BY <1>2
  <2>2. PICK h : h = [T \in Small(D, n + 1) |->
                        IF T = {} THEN 0 ELSE f[AnyOf(T)] + g[T \ {AnyOf(T)}]]
    OBVIOUS
  <2>3. ASSUME NEW T \in Small(D, n) PROVE h[T] = g[T]
    <3>1. T \in Small(D, n + 1)
      BY FS_Subset, FS_CardinalityType DEF Small
    <3>2. g[T] = IF T = {} THEN 0 ELSE f[AnyOf(T)] + g[T \ {AnyOf(T)}]
      BY <2>1 DEF IsSumsUpTo
    <3> QED
      BY <2>2, <3>1, <3>2
  <2>4. ASSUME NEW T \in Small(D, n + 1), T # {}
        PROVE  h[T \ {AnyOf(T)}] = g[T \ {AnyOf(T)}]
    BY <2>3, <2>4, OneLess
  <2>5. h = [T \in Small(D, n + 1) |->
               IF T = {} THEN 0 ELSE f[AnyOf(T)] + h[T \ {AnyOf(T)}]]
    BY <2>2, <2>4
  <2>6. IsSumsUpTo(f, n + 1, h)
    BY <2>5 DEF IsSumsUpTo
  <2> QED
    BY <2>6
<1>3. Cardinality(D) \in S
  <2> HIDE DEF S
  <2>1. Nat \subseteq S
    BY <1>1, <1>2, EveryNumber
  <2> QED
    BY <2>1, FS_CardinalityType
<1>4. PICK sums : IsSumsUpTo(f, Cardinality(D), sums)
  BY <1>3
<1>5. Small(D, Cardinality(D)) = SUBSET D
  BY FS_Subset DEF Small
<1>6. IsSums(f, sums)
  BY <1>4, <1>5 DEF IsSumsUpTo, IsSums
<1> QED
  BY <1>6

(* A sum of numbers is a number, and no less than any of them.             *)
LEMMA SumBounds ==
  ASSUME NEW f, IsFiniteSet(DOMAIN f), \A x \in DOMAIN f : f[x] \in Nat
  PROVE  SumFunction(f) \in Nat /\ \A x \in DOMAIN f : f[x] <= SumFunction(f)
<1> DEFINE D == DOMAIN f
<1>1. PICK sums : IsSums(f, sums) /\ SumFunction(f) = sums[D]
  BY SumsExist, SumIsRead
<1>2. \A T \in SUBSET D :
        sums[T] = IF T = {} THEN 0 ELSE f[AnyOf(T)] + sums[T \ {AnyOf(T)}]
  BY <1>1 DEF IsSums
<1> DEFINE Good(T) == sums[T] \in Nat /\ \A x \in T : f[x] <= sums[T]
           S == {n \in Nat : \A T \in Small(D, n) : Good(T)}
<1>3. 0 \in S
  <2>1. ASSUME NEW T \in Small(D, 0) PROVE T = {}
    <3>1. IsFiniteSet(T) /\ Cardinality(T) <= 0
      BY FS_Subset DEF Small
    <3> QED
      BY <3>1, FS_CardinalityType, FS_EmptySet
  <2> QED
    BY <1>2, <2>1
<1>4. ASSUME NEW n \in Nat, n \in S PROVE n + 1 \in S
  <2> SUFFICES ASSUME NEW T \in Small(D, n + 1) PROVE Good(T)
    OBVIOUS
  <2>1. CASE T = {}
    BY <1>2, <2>1
  <2>2. CASE T # {}
    <3>1. PICK x \in T : x = AnyOf(T) /\ T \ {x} \in Small(D, n)
      BY <2>2, OneLess
    <3>2. PICK R : R = T \ {x}
      OBVIOUS
    <3>3. sums[T] = f[x] + sums[R] /\ f[x] \in Nat
      BY <1>2, <2>2, <3>1, <3>2 DEF Small
    <3>4. Good(R)
      BY <1>4, <3>1, <3>2
    <3>5. \A y \in T : f[y] \in Nat /\ (y = x \/ y \in R)
      BY <3>2 DEF Small
    <3> QED
      BY <3>3, <3>4, <3>5
  <2> QED
    BY <2>1, <2>2
<1>5. Cardinality(D) \in S
  <2> HIDE DEF S
  <2>1. Nat \subseteq S
    BY <1>3, <1>4, EveryNumber
  <2> QED
    BY <2>1, FS_CardinalityType
<1>6. D \in Small(D, Cardinality(D))
  BY FS_CardinalityType DEF Small
<1> QED
  BY <1>1, <1>5, <1>6

(* The sum of one number is the number.                                    *)
LEMMA SumOfOne ==
  ASSUME NEW f, DOMAIN f = {1}, f[1] \in Nat
  PROVE  SumFunction(f) = f[1]
<1>1. PICK sums : IsSums(f, sums) /\ SumFunction(f) = sums[{1}]
  BY FS_Singleton, SumsExist, SumIsRead
<1>2. AnyOf({1}) = 1 /\ {1} \ {1} = {}
  BY DEF AnyOf
<1>3. sums[{}] = 0 /\ sums[{1}] = f[1] + sums[{}]
  BY <1>1, <1>2 DEF IsSums
<1> QED
  BY <1>1, <1>3

----------------------------------------------------------------------------
(* The loop over the handles of a multicast                                *)

(* The copies kept of the first i handles.                                 *)
IsKept(copies, known, sent) ==
  sent = [i \in 0 .. Len(copies) |->
            IF i = 0 THEN <<>>
            ELSE IF i \in known THEN Append(sent[i - 1], copies[i])
            ELSE sent[i - 1]]
IsKeptUpTo(copies, known, n, sent) ==
  sent = [i \in 0 .. n |->
            IF i = 0 THEN <<>>
            ELSE IF i \in known THEN Append(sent[i - 1], copies[i])
            ELSE sent[i - 1]]

(* Kept reads its last entry.                                              *)
LEMMA KeptIsRead ==
  ASSUME NEW copies, NEW known, \E sent : IsKept(copies, known, sent)
  PROVE  \E sent : IsKept(copies, known, sent) /\ Kept(copies, known) = sent[Len(copies)]
BY DEF IsKept, Kept

(* The loop comes to its end.                                              *)
LEMMA KeptExists ==
  ASSUME NEW copies, NEW known, Len(copies) \in Nat
  PROVE  \E sent : IsKept(copies, known, sent)
<1> DEFINE S == {n \in Nat : \E sent : IsKeptUpTo(copies, known, n, sent)}
<1>1. 0 \in S
  <2>1. PICK none : none = [i \in 0 .. 0 |-> <<>>]
    OBVIOUS
  <2>2. IsKeptUpTo(copies, known, 0, none)
    BY <2>1 DEF IsKeptUpTo
  <2> QED
    BY <2>2
<1>2. ASSUME NEW n \in Nat, n \in S PROVE n + 1 \in S
  <2>1. PICK g : IsKeptUpTo(copies, known, n, g)
    BY <1>2
  <2>2. PICK h : h = [i \in 0 .. n + 1 |->
                        IF i = 0 THEN <<>>
                        ELSE IF i \in known THEN Append(g[i - 1], copies[i])
                        ELSE g[i - 1]]
    OBVIOUS
  <2>3. ASSUME NEW i \in 0 .. n PROVE h[i] = g[i]
    <3>1. i \in 0 .. n + 1
      OBVIOUS
    <3>2. h[i] = IF i = 0 THEN <<>>
                 ELSE IF i \in known THEN Append(g[i - 1], copies[i]) ELSE g[i - 1]
      BY <2>2, <3>1
    <3>3. g[i] = IF i = 0 THEN <<>>
                 ELSE IF i \in known THEN Append(g[i - 1], copies[i]) ELSE g[i - 1]
      BY <2>1, Zenon DEF IsKeptUpTo
    <3> QED
      BY <3>2, <3>3
  <2>4. ASSUME NEW i \in 0 .. n + 1, i # 0 PROVE h[i - 1] = g[i - 1]
    BY <2>3, <2>4
  <2>5. IsKeptUpTo(copies, known, n + 1, h)
    BY <2>2, <2>4 DEF IsKeptUpTo
  <2> QED
    BY <2>5
<1>3. Nat \subseteq S
  <2> HIDE DEF S
  <2> QED
    BY <1>1, <1>2, EveryNumber
<1>4. PICK sent : IsKeptUpTo(copies, known, Len(copies), sent)
  BY <1>3
<1> QED
  BY <1>4 DEF IsKeptUpTo, IsKept

(* What is kept are copies.                                                *)
LEMMA KeptAreCopies ==
  ASSUME NEW P, NEW copies \in Seq(P), NEW known
  PROVE  Kept(copies, known) \in Seq(P)
<1>1. PICK n \in Nat : n = Len(copies)
  BY LenProperties
<1>2. PICK sent : IsKept(copies, known, sent) /\ Kept(copies, known) = sent[n]
  BY <1>1, KeptExists, KeptIsRead
<1>3. /\ sent[0] = <<>>
      /\ \A i \in 1 .. n : sent[i] = IF i \in known THEN Append(sent[i - 1], copies[i])
                                     ELSE sent[i - 1]
  <2>1. \A i \in 0 .. n :
          sent[i] = IF i = 0 THEN <<>>
                    ELSE IF i \in known THEN Append(sent[i - 1], copies[i]) ELSE sent[i - 1]
    BY <1>1, <1>2, Zenon DEF IsKept
  <2>2. 0 \in 0 .. n /\ \A i \in 1 .. n : i \in 0 .. n /\ i # 0
    OBVIOUS
  <2> QED
    BY <2>1, <2>2
<1> DEFINE S == {i \in Nat : i <= n => sent[i] \in Seq(P)}
<1>4. 0 \in S
  BY <1>3, EmptySeq
<1>5. ASSUME NEW i \in Nat, i \in S PROVE i + 1 \in S
  <2> SUFFICES ASSUME i + 1 <= n PROVE sent[i + 1] \in Seq(P)
    OBVIOUS
  <2>1. sent[i] \in Seq(P) /\ i + 1 \in 1 .. n /\ (i + 1) - 1 = i
    BY <1>5
  <2>2. copies[i + 1] \in P
    BY <1>1, <2>1, ElementOfSeq
  <2>3. Append(sent[i], copies[i + 1]) \in Seq(P)
    BY <2>1, <2>2, AppendProperties
  <2> QED
    BY <1>3, <2>1, <2>3
<1>6. n \in S
  <2> HIDE DEF S
  <2> QED
    BY <1>4, <1>5, EveryNumber
<1> QED
  BY <1>2, <1>6

----------------------------------------------------------------------------
(* The inductive invariant                                                 *)

(* Where the text starts in the PDU of the sender.                         *)
At(r) == IF r.multi THEN MulticastTextAt(r) ELSE TextAt(r.src, r.dests[1])

(* Nothing is relayed or shown before the server has taken the text, and   *)
(* the text it takes is what the buffer of the sender's PDU left of it.    *)
StageInv ==
  /\ stage \in {"typed", "sent", "dropped"} => relayed = <<>>
  /\ stage \in {"sent", "dropped", "relayed"} => arrived = TextWithin(At(request), request.text)

(* A text that is relayed whole fits the buffers on the way, and one that  *)
(* is cut in pieces is long.                                               *)
WholeInv ==
  \A i \in DOMAIN relayed :
    /\ relayed[i].kind = "whole" =>
         /\ relayed[i].to \in DOMAIN request.dests
         /\ relayed[i].first = 1 /\ relayed[i].count = arrived
         /\ WithinLimits(request) => arrived = request.text /\ arrived <= MaxText
    /\ relayed[i].kind = "piece" => arrived > MaxText

IInv ==
  /\ TypeOK /\ StageInv /\ WholeInv
  /\ StaysInside /\ ShownAsTyped /\ EndTravels /\ PiecesMakeTheRest

PduType ==
  [kind : {"whole", "piece", "error"}, to : Nat, first : Nat \ {0},
   count : Nat, length : 1 .. MaxData]

(* The lengths of a request, as numbers.                                   *)
LEMMA RequestFacts ==
  ASSUME NEW r \in Requests
  PROVE  /\ r.multi \in BOOLEAN /\ r.text \in Nat
         /\ r.src \in Nat /\ r.src <= 255
         /\ Len(r.dests) \in Nat /\ Len(r.dests) >= 1 /\ DOMAIN r.dests = 1 .. Len(r.dests)
         /\ r.multi => Len(r.dests) >= 2
         /\ ~r.multi => Len(r.dests) = 1 /\ SumFunction(r.dests) = r.dests[1]
         /\ SumFunction(r.dests) \in Nat
         /\ \A i \in DOMAIN r.dests :
              r.dests[i] \in Nat /\ r.dests[i] <= 255 /\ r.dests[i] <= SumFunction(r.dests)
         /\ r.dests[1] \in Nat
         /\ LineLength(r) < MAXBUF
<1>1. /\ r.multi \in BOOLEAN /\ r.text \in Nat /\ r.src \in 0 .. 255
      /\ r.dests \in Seq(1 .. 255) /\ LineLength(r) < MAXBUF
  BY RequestAssumption
<1>2. /\ r.multi => Len(r.dests) \in 2 .. 9
      /\ ~r.multi => Len(r.dests) \in {1}
  BY RequestAssumption
<1>3. PICK n \in Nat : n = Len(r.dests) /\ DOMAIN r.dests = 1 .. n
  BY <1>1, LenProperties
<1>4. (r.multi => n >= 2) /\ (~r.multi => n = 1) /\ n >= 1
  <2>1. (r.multi => n \in 2 .. 9) /\ (~r.multi => n \in {1})
    BY <1>2, <1>3
  <2> QED
    BY <2>1
<1>5. \A i \in 1 .. n : r.dests[i] \in 1 .. 255
  BY <1>1, <1>3, ElementOfSeq
<1>6. \A i \in 1 .. n : r.dests[i] \in Nat /\ r.dests[i] <= 255
  BY <1>5
<1>7. SumFunction(r.dests) \in Nat /\ \A i \in 1 .. n : r.dests[i] <= SumFunction(r.dests)
  <2>1. IsFiniteSet(1 .. n)
    BY FS_Interval
  <2> QED
    BY <1>3, <1>6, <2>1, SumBounds
<1>8. 1 \in 1 .. n
  BY <1>4
<1>9. ~r.multi => SumFunction(r.dests) = r.dests[1]
  <2>1. ~r.multi => 1 .. n = {1}
    BY <1>4
  <2> QED
    BY <1>3, <1>6, <1>8, <2>1, SumOfOne
<1>10. r.src \in Nat /\ r.src <= 255
  <2>1. \A s \in 0 .. 255 : s \in Nat /\ s <= 255
    OBVIOUS
  <2> QED
    BY <1>1, <2>1, Zenon
<1> QED
  BY <1>1, <1>3, <1>4, <1>6, <1>7, <1>8, <1>9, <1>10

(* The sizes of the buffers, as numbers.                                   *)
LEMMA BufferFacts ==
  /\ MAXBUF \in Nat /\ MaxData \in Nat /\ MAXHANDLE \in Nat /\ MaxText \in Nat /\ DestBuffer \in Nat
  /\ MAXBUF = MaxData + 2 /\ MaxText > 1 /\ 0 < MAXHANDLE /\ MAXHANDLE < 256
  /\ 514 + MaxText < MaxData
BY BufferAssumption

(* What is within the limits, as numbers.                                  *)
LEMMA LimitFacts ==
  ASSUME NEW r \in Requests, WithinLimits(r)
  PROVE  /\ r.src < MAXHANDLE /\ \A i \in DOMAIN r.dests : r.dests[i] < MAXHANDLE
         /\ r.multi => /\ SumFunction(r.dests) + Len(r.dests) <= DestBuffer /\ r.text <= MaxText
                       /\ MulticastTextAt(r) + r.text < MaxData
         /\ ~r.multi => PackedLength(r.src, r.dests[1], r.text) <= MAXBUF
<1>1. r.src + LineLength(r) < MAXBUF
  BY DEF WithinLimits
<1>2. PICK s \in Nat : s = r.src
  BY RequestFacts
<1>3. PICK t \in Nat : t = r.text
  BY RequestFacts
<1>4. PICK n \in Nat : n = Len(r.dests)
  BY RequestFacts
<1>5. PICK sum \in Nat : sum = SumFunction(r.dests)
  BY RequestFacts
<1>6. PICK max \in Nat : max = MaxData /\ MAXBUF = max + 2
  BY BufferFacts
<1>7. CASE r.multi
  <2>1. LineLength(r) = 4 + n + sum + 1 + t
    BY <1>3, <1>4, <1>5, <1>7 DEF LineLength
  <2>2. MulticastTextAt(r) = 3 + s + n + sum
    BY <1>2, <1>4, <1>5 DEF MulticastTextAt
  <2>3. MulticastTextAt(r) + t < max
    BY <1>1, <1>2, <1>6, <2>1, <2>2
  <2> QED
    BY <1>3, <1>6, <1>7, <2>3 DEF WithinLimits
<1>8. CASE ~r.multi
  <2>1. n = 1 /\ sum = r.dests[1]
    BY <1>4, <1>5, <1>8, RequestFacts
  <2>2. LineLength(r) = 2 + n + sum + 1 + t
    BY <1>3, <1>4, <1>5, <1>8 DEF LineLength
  <2>3. PackedLength(r.src, r.dests[1], r.text) = 4 + s + sum + t + 1
    BY <1>2, <1>3, <2>1 DEF PackedLength, TextAt
  <2>4. 4 + s + sum + t + 1 <= max + 2
    BY <1>1, <1>2, <1>6, <2>1, <2>2
  <2> QED
    BY <1>6, <1>8, <2>3, <2>4 DEF WithinLimits
<1> QED
  BY <1>7, <1>8

(* What is left of the text is at most the text, all of it where there is  *)
(* room, and ends inside the data.                                         *)
LEMMA TextWithinBounds ==
  ASSUME NEW at \in Nat, NEW t \in Nat
  PROVE  /\ TextWithin(at, t) \in 0 .. t
         /\ at + t <= MaxData => TextWithin(at, t) = t
         /\ TextWithin(at, t) > 0 => at + TextWithin(at, t) <= MaxData
         /\ TextWithin(at, t) = t \/ at > MaxData \/ at + TextWithin(at, t) = MaxData
<1>1. CASE at > MaxData
  BY <1>1, BufferFacts DEF TextWithin
<1>2. CASE at <= MaxData /\ at + t > MaxData
  <2>1. TextWithin(at, t) = MaxData - at
    BY <1>2, BufferFacts DEF TextWithin
  <2> QED
    BY <1>2, <2>1, BufferFacts
<1>3. CASE at <= MaxData /\ at + t <= MaxData
  <2>1. TextWithin(at, t) = t
    BY <1>3, BufferFacts DEF TextWithin
  <2> QED
    BY <1>3, <2>1, BufferFacts
<1> QED
  BY <1>1, <1>2, <1>3, BufferFacts

----------------------------------------------------------------------------
(* The sender                                                              *)

(* A write outside a buffer ends the model where it stands.                *)
LEMMA OverrunKeeps ==
  ASSUME IInv, Overrun, ~WithinLimits(request)
  PROVE  IInv'
BY DEF Overrun, IInv, TypeOK, StageInv, WholeInv, StaysInside, ShownAsTyped, EndTravels,
       PiecesMakeTheRest, WithinLimits

(* The text arrives as the buffers leave it.                               *)
LEMMA ArrivesKeeps ==
  ASSUME IInv, stage = "typed", Arrives(TextWithin(At(request), request.text)), At(request) \in Nat
  PROVE  IInv'
<1>1. request \in Requests /\ request.text \in Nat
  BY RequestFacts DEF IInv, TypeOK
<1>2. /\ stage' = "sent" /\ arrived' = TextWithin(At(request), request.text)
      /\ UNCHANGED <<request, relayed, shown, screen>>
  BY DEF Arrives
<1>3. relayed = <<>> /\ Len(relayed) = 0 /\ DOMAIN relayed = {} /\ shown \in 0 .. Len(relayed)
  BY DEF IInv, StageInv, TypeOK
<1>4. shown = 0
  BY <1>3
<1>5. arrived' \in 0 .. request.text
  BY <1>1, <1>2, TextWithinBounds
<1>6. TypeOK'
  BY <1>2, <1>5 DEF IInv, TypeOK
<1>7. StageInv' /\ StaysInside'
  BY <1>2, <1>3 DEF StageInv, StaysInside, At, MulticastTextAt, TextAt, TextWithin
<1>8. WholeInv' /\ EndTravels' /\ PiecesMakeTheRest'
  BY <1>2, <1>3 DEF WholeInv, EndTravels, PiecesMakeTheRest
<1>9. ShownAsTyped'
  BY <1>2, <1>4 DEF ShownAsTyped
<1> QED
  BY <1>6, <1>7, <1>8, <1>9 DEF IInv

(* A %m with more than a PDU holds is outside the limits.                  *)
LEMMA SendMessageKeeps ==
  ASSUME IInv, SendMessage
  PROVE  IInv'
<1>1. request \in Requests /\ ~request.multi /\ stage = "typed"
  BY DEF IInv, TypeOK, SendMessage
<1>2. At(request) = TextAt(request.src, request.dests[1]) /\ At(request) \in Nat
  <2>1. request.src \in Nat /\ request.dests[1] \in Nat
    BY <1>1, RequestFacts
  <2> QED
    BY <1>1, <2>1 DEF At, TextAt
<1>3. CASE Arrives(TextWithin(At(request), request.text))
  BY <1>1, <1>2, <1>3, ArrivesKeeps
<1>4. CASE Overrun /\ ~(PackedLength(request.src, request.dests[1], request.text) <= MAXBUF)
  BY <1>1, <1>4, LimitFacts, OverrunKeeps
<1> QED
  BY <1>2, <1>3, <1>4 DEF SendMessage, Inside

(* So is a %c; within them its text arrives whole.                         *)
LEMMA SendMulticastKeeps ==
  ASSUME IInv, SendMulticast
  PROVE  IInv'
<1>1. request \in Requests /\ request.multi /\ stage = "typed"
  BY DEF IInv, TypeOK, SendMulticast
<1>2. At(request) = MulticastTextAt(request) /\ At(request) \in Nat /\ request.text \in Nat
  <2>1. /\ request.src \in Nat /\ Len(request.dests) \in Nat /\ SumFunction(request.dests) \in Nat
        /\ request.text \in Nat
    BY <1>1, RequestFacts
  <2> QED
    BY <1>1, <2>1 DEF At, MulticastTextAt
<1>3. CASE Arrives(TextWithin(At(request), request.text))
  BY <1>1, <1>2, <1>3, ArrivesKeeps
<1>4. CASE Overrun /\ ~(At(request) + request.text <= MAXBUF)
  <2>1. ~(At(request) + request.text < MaxData)
    BY <1>2, <1>4, BufferFacts
  <2> QED
    BY <1>1, <1>2, <1>4, <2>1, LimitFacts, OverrunKeeps
<1> QED
  BY <1>2, <1>3, <1>4 DEF SendMulticast, Inside

----------------------------------------------------------------------------
(* The server                                                              *)

(* So many pieces of c characters hold the text, and no fewer.             *)
LEMMA RoundedUp ==
  ASSUME NEW total \in Nat, total > 0, NEW c \in Nat, c > 0,
         NEW n, n = (total + c - 1) \div c
  PROVE  n \in Nat /\ n >= 1 /\ total <= n * c /\ (n - 1) * c < total
<1>1. PICK m \in Nat : m = total + c - 1
  OBVIOUS
<1>2. n \in Int /\ n * c <= m /\ m < n * c + c
  BY <1>1
<1>3. total <= n * c /\ (n - 1) * c < total
  BY <1>1, <1>2
<1>4. n >= 1
  BY <1>2, <1>3
<1> QED
  BY <1>2, <1>3, <1>4

(* What a piece before the last one leaves for the others.                 *)
LEMMA PiecesBefore ==
  ASSUME NEW c \in Nat, NEW n \in Nat, NEW i \in 1 .. n
  PROVE  /\ i * c \in Nat /\ (i - 1) * c \in Nat /\ i * c = (i - 1) * c + c
         /\ i < n => i * c <= (n - 1) * c
         /\ (i - 1) * c <= (n - 1) * c
<1>1. i * c \in Nat /\ (i - 1) * c \in Nat /\ i * c = (i - 1) * c + c
  OBVIOUS
<1>2. \A a, b \in Nat : a <= b => a * c <= b * c
  OBVIOUS
<1>3. i - 1 \in Nat /\ n - 1 \in Nat /\ i - 1 <= n - 1 /\ (i < n => i <= n - 1)
  OBVIOUS
<1> QED
  BY <1>1, <1>2, <1>3

(* The pieces of a text: each begins where the one before ends, and the    *)
(* last ends with the text.                                                *)
LEMMA PiecesShape ==
  ASSUME IInv, stage = "sent", NEW s \in Nat, NEW d \in Nat, MessageLent(s, d) > MaxText
  PROVE  LET p == Pieces(s, d) IN
         /\ arrived > MaxText /\ p \in Seq(PduType) /\ Len(p) >= 1
         /\ \A i \in 1 .. Len(p) :
              /\ p[i].kind = "piece" /\ p[i].length <= MaxText
              /\ i < Len(p) => p[i + 1].first = p[i].first + p[i].count
         /\ p[1].first = 2
         /\ p[Len(p)].first + p[Len(p)].count - 1 = arrived
<1> DEFINE p == Pieces(s, d)
<1>1. PICK c \in Nat : c = MaxText - 1 /\ c > 0 /\ MaxText = c + 1 /\ c + 1 < MaxData
  BY BufferFacts
<1>2. MessageOffset(s, d) - TextAt(s, d) = 1 /\ arrived \in Nat
  <2>1. request \in Requests /\ arrived \in 0 .. request.text
    BY DEF IInv, TypeOK
  <2>2. arrived \in Nat
    BY <2>1, RequestFacts
  <2> QED
    BY <2>2 DEF MessageOffset, TextAt
<1>3. PICK total \in Nat : total = MessageLent(s, d) /\ total = arrived /\ total > c + 1
  <2>1. MessageLent(s, d) = (IF arrived < 1 THEN 0 ELSE arrived - 1) + 1
    BY <1>2 DEF MessageLent
  <2> QED
    BY <1>1, <1>2, <2>1
<1>4. PICK n \in Nat : n = (total + c - 1) \div c /\ n >= 1 /\ total <= n * c /\ (n - 1) * c < total
  <2>1. c \in Nat /\ c > 0 /\ total \in Nat /\ total > 0
    BY <1>1, <1>3
  <2> HIDE DEF p
  <2>2. PICK m : m = (total + c - 1) \div c
    OBVIOUS
  <2>3. m \in Nat /\ m >= 1 /\ total <= m * c /\ (m - 1) * c < total
    BY <2>1, <2>2, RoundedUp
  <2> QED
    BY <2>2, <2>3
<1> DEFINE Size(i) == IF i * c < total THEN c ELSE total - (i - 1) * c
           Chars(i) == IF i * c < total THEN c ELSE Size(i) - 1
<1>5. p = [i \in 1 .. n |-> Piece(1 + 1 + (i - 1) * c, Chars(i), Size(i) + 1)]
  BY <1>1, <1>2, <1>3, <1>4 DEF Pieces, PiecesOf
<1>6. ASSUME NEW i \in 1 .. n
      PROVE  /\ (i - 1) * c \in Nat
             /\ Chars(i) \in Nat /\ Size(i) \in 1 .. c
             /\ i < n => Chars(i) = c /\ i * c = (i - 1) * c + c
             /\ i = n => Chars(i) = total - (i - 1) * c - 1
  BY <1>3, <1>4, PiecesBefore
<1> HIDE DEF Size, Chars, p
<1>7. \A i \in 1 .. n : /\ p[i].kind = "piece" /\ p[i].to = 1 /\ p[i].first = 2 + (i - 1) * c
                        /\ p[i].count = Chars(i) /\ p[i].length = Size(i) + 1
                        /\ p[i] = Piece(2 + (i - 1) * c, Chars(i), Size(i) + 1)
  BY <1>5, <1>6 DEF Piece
<1>8. ASSUME NEW i \in 1 .. n PROVE p[i] \in PduType
  <2>1. 2 + (i - 1) * c \in Nat \ {0} /\ Chars(i) \in Nat /\ Size(i) + 1 \in 1 .. MaxData
    BY <1>1, <1>6, BufferFacts
  <2>2. Piece(2 + (i - 1) * c, Chars(i), Size(i) + 1) \in PduType
    BY <2>1 DEF Piece, PduType
  <2> QED
    BY <1>7, <2>2
<1>9. p \in Seq(PduType) /\ Len(p) = n
  BY <1>5, <1>8
<1>10. \A i \in 1 .. n : p[i].length <= MaxText
  BY <1>1, <1>6, <1>7
<1>11. ASSUME NEW i \in 1 .. n, i < n PROVE p[i + 1].first = p[i].first + p[i].count
  <2>1. i + 1 \in 1 .. n /\ (i + 1) - 1 = i
    BY <1>11
  <2>2. p[i + 1].first = 2 + i * c
    BY <1>7, <2>1
  <2> QED
    BY <1>6, <1>7, <1>11, <2>2
<1>12. p[1].first = 2
  <2>1. 1 \in 1 .. n /\ (1 - 1) * c = 0
    BY <1>4
  <2> QED
    BY <1>7, <2>1
<1>13. p[n].first + p[n].count - 1 = arrived
  <2>1. n \in 1 .. n
    BY <1>4
  <2> QED
    BY <1>3, <1>6, <1>7, <2>1
<1>14. arrived > MaxText
  BY <1>1, <1>3
<1> QED
  BY <1>4, <1>7, <1>9, <1>10, <1>11, <1>12, <1>13, <1>14 DEF p

(* PDUs are relayed once, before anything is shown.                        *)
LEMMA RelayKeeps ==
  ASSUME IInv, stage = "sent", NEW pdus \in Seq(PduType), Relay(pdus),
         WholeInv', EndTravels', PiecesMakeTheRest'
  PROVE  IInv'
<1>1. /\ stage' = "relayed" /\ relayed' = pdus
      /\ UNCHANGED <<request, arrived, shown, screen>>
  BY DEF Relay
<1>2. shown = 0
  <2>1. relayed = <<>> /\ shown \in 0 .. Len(relayed)
    BY DEF IInv, StageInv, TypeOK
  <2> QED
    BY <2>1
<1>3. Len(pdus) \in Nat
  BY LenProperties
<1>4. TypeOK'
  BY <1>1, <1>2, <1>3 DEF IInv, TypeOK, PduType
<1>5. StageInv' /\ StaysInside'
  BY <1>1 DEF IInv, StageInv, StaysInside
<1>6. ShownAsTyped'
  BY <1>1, <1>2 DEF ShownAsTyped
<1> QED
  BY <1>4, <1>5, <1>6 DEF IInv

(* A PDU for the member i of the handles, with the text whole.             *)
LEMMA WholeShape ==
  ASSUME IInv, NEW i \in Nat, NEW n \in Nat, n > 0
  PROVE  Whole(i, Capped(n)) \in PduType
<1>1. Capped(n) \in 1 .. MaxData
  BY BufferFacts DEF Capped
<1>2. arrived \in Nat
  <2>1. request \in Requests /\ arrived \in 0 .. request.text
    BY DEF IInv, TypeOK
  <2> QED
    BY <2>1, RequestFacts
<1> QED
  BY <1>1, <1>2 DEF Whole, PduType

(* What processClient makes of a text for one handle.                      *)
LEMMA ServeMessageKeeps ==
  ASSUME IInv, ServeMessage
  PROVE  IInv'
<1> DEFINE s == request.src
           d == request.dests[1]
           t == request.text
           pieces == Pieces(s, d)
<1>1. request \in Requests /\ ~request.multi /\ stage = "sent" /\ arrived \in 0 .. t
  BY DEF IInv, TypeOK, ServeMessage
<1>2. /\ s \in Nat /\ s <= 255 /\ d \in Nat /\ d <= 255 /\ t \in Nat
      /\ Len(request.dests) = 1 /\ DOMAIN request.dests = 1 .. 1
  BY <1>1, RequestFacts
<1>3. arrived \in Nat /\ arrived <= t /\ arrived = TextWithin(4 + s + d, t)
  BY <1>1, <1>2 DEF IInv, StageInv, At, TextAt
<1>4. TextAt(s, d) = 4 + s + d /\ PackedLength(s, d, t) = 4 + s + d + t + 1
  BY <1>2 DEF TextAt, PackedLength
<1>5. WithinLimits(request) => d + 1 <= MAXHANDLE /\ d + 3 <= MAXBUF
  <2>1. WithinLimits(request) => d < MAXHANDLE
    BY <1>1, <1>2, LimitFacts
  <2> QED
    BY <1>2, <2>1, BufferFacts
<1> HIDE DEF s, d, t, pieces
<1>6. CASE Relay(<<NoSuchHandle(d + 2 + 2)>>) /\ d + 1 <= MAXHANDLE
  <2>1. PICK e \in PduType : e = NoSuchHandle(d + 2 + 2) /\ e.kind = "error"
    <3>1. PICK length \in 1 .. MaxData : length = d + 2 + 2
      BY <1>2, <1>6, BufferFacts
    <3>2. NoSuchHandle(length) \in PduType
      BY DEF NoSuchHandle, PduType
    <3>3. NoSuchHandle(length).kind = "error"
      BY DEF NoSuchHandle
    <3> QED
      BY <3>1, <3>2, <3>3
  <2>2. relayed' = <<e>> /\ <<e>> \in Seq(PduType)
    BY <1>6, <2>1 DEF Relay
  <2>3. DOMAIN relayed' = {1} /\ relayed'[1] = e
    BY <2>2
  <2>4. WholeInv' /\ EndTravels' /\ PiecesMakeTheRest'
    BY <2>1, <2>3 DEF WholeInv, EndTravels, PiecesMakeTheRest
  <2> QED
    BY <1>1, <1>6, <2>1, <2>2, <2>4, RelayKeeps
<1>7. CASE /\ Relay(<<Whole(1, Capped(PackedLength(s, d, t)))>>)
           /\ ~(MessageLent(s, d) > MaxText)
  <2>1. PICK n \in Nat : n = 4 + s + d + t + 1 /\ n > 0 /\ n = PackedLength(s, d, t)
    BY <1>2, <1>4
  <2>2. PICK w \in PduType :
          /\ w = Whole(1, Capped(n))
          /\ w.kind = "whole" /\ w.to = 1 /\ w.first = 1 /\ w.count = arrived
          /\ w.length = Capped(n)
    <3>1. Whole(1, Capped(n)) \in PduType
      BY <2>1, WholeShape
    <3> QED
      BY <3>1 DEF Whole
  <2>3. relayed' = <<w>> /\ <<w>> \in Seq(PduType) /\ UNCHANGED <<request, arrived>>
    BY <1>7, <2>1, <2>2 DEF Relay
  <2>4. DOMAIN relayed' = {1} /\ relayed'[1] = w
    BY <2>3
  <2>5. arrived <= MaxText
    <3>1. MessageLent(s, d) = (IF arrived < 1 THEN 0 ELSE arrived - 1) + 1
      <4>1. MessageOffset(s, d) - TextAt(s, d) = 1
        BY <1>2 DEF MessageOffset, TextAt
      <4> QED
        BY <4>1 DEF MessageLent
    <3> QED
      BY <1>3, <1>7, <3>1, BufferFacts
  <2>6. arrived = t
    <3>1. \/ TextWithin(4 + s + d, t) = t \/ 4 + s + d > MaxData
          \/ 4 + s + d + TextWithin(4 + s + d, t) = MaxData
      BY <1>2, TextWithinBounds
    <3> QED
      BY <1>2, <1>3, <2>5, <3>1, BufferFacts
  <2>7. WholeInv'
    BY <1>2, <2>2, <2>3, <2>4, <2>5, <2>6 DEF WholeInv, t
  <2>8. EndTravels'
    <3>1. 4 + s + d + arrived < Capped(n)
      BY <1>2, <1>3, <2>1, <2>5, BufferFacts DEF Capped
    <3>2. TextAt(request.src, request.dests[1]) = 4 + s + d
      BY <1>4 DEF s, d
    <3> QED
      BY <2>2, <2>3, <2>4, <3>1, <3>2 DEF EndTravels
  <2>9. PiecesMakeTheRest'
    BY <2>2, <2>4 DEF PiecesMakeTheRest
  <2> QED
    BY <1>1, <1>7, <2>1, <2>2, <2>3, <2>7, <2>8, <2>9, RelayKeeps
<1>8. ASSUME MessageLent(s, d) > MaxText
      PROVE  /\ Inside({<<pieces[i].length, MaxText>> : i \in DOMAIN pieces})
             /\ Relay(pieces) => IInv'
  <2>1. /\ arrived > MaxText /\ pieces \in Seq(PduType) /\ Len(pieces) >= 1
        /\ \A i \in 1 .. Len(pieces) :
             /\ pieces[i].kind = "piece" /\ pieces[i].length <= MaxText
             /\ i < Len(pieces) => pieces[i + 1].first = pieces[i].first + pieces[i].count
        /\ pieces[1].first = 2
        /\ pieces[Len(pieces)].first + pieces[Len(pieces)].count - 1 = arrived
    BY <1>1, <1>2, <1>8, PiecesShape DEF pieces
  <2>2. PICK n \in Nat : n = Len(pieces) /\ DOMAIN pieces = 1 .. n /\ n >= 1
    BY <2>1, LenProperties
  <2>3. Inside({<<pieces[i].length, MaxText>> : i \in DOMAIN pieces})
    BY <2>1, <2>2 DEF Inside
  <2>4. ASSUME Relay(pieces) PROVE IInv'
    <3>1. relayed' = pieces /\ UNCHANGED <<request, arrived>>
      BY <2>4 DEF Relay
    <3>2. WholeInv' /\ EndTravels'
      BY <2>1, <2>2, <3>1 DEF WholeInv, EndTravels
    <3>3. \A i \in 1 .. n : i > 1 => pieces[i].first = pieces[i - 1].first + pieces[i - 1].count
      <4> TAKE i \in 1 .. n
      <4> HAVE i > 1
      <4>1. i - 1 \in 1 .. n /\ i - 1 < n /\ (i - 1) + 1 = i
        OBVIOUS
      <4> QED
        BY <2>1, <2>2, <4>1
    <3>4. PiecesMakeTheRest'
      BY <2>1, <2>2, <3>1, <3>3 DEF PiecesMakeTheRest
    <3> QED
      BY <1>1, <2>1, <2>4, <3>2, <3>4, RelayKeeps
  <2> QED
    BY <2>3, <2>4
<1>9. CASE Overrun /\ ~(d + 1 <= MAXHANDLE /\ d + 3 <= MAXBUF)
  BY <1>5, <1>9, OverrunKeeps
<1>10. \/ d + 1 <= MAXHANDLE /\ Relay(<<NoSuchHandle(d + 2 + 2)>>)
       \/ ~(MessageLent(s, d) > MaxText) /\ Relay(<<Whole(1, Capped(PackedLength(s, d, t)))>>)
       \/ /\ MessageLent(s, d) > MaxText
          /\ IF Inside({<<pieces[i].length, MaxText>> : i \in DOMAIN pieces})
             THEN Relay(pieces)
             ELSE Overrun
       \/ Overrun /\ ~(d + 1 <= MAXHANDLE /\ d + 3 <= MAXBUF)
  <2>1. Inside({<<d + 1, MAXHANDLE>>, <<d + 3, MAXBUF>>}) <=>
          d + 1 <= MAXHANDLE /\ d + 3 <= MAXBUF
    BY DEF Inside
  <2> QED
    BY <2>1 DEF ServeMessage, s, d, t, pieces
<1> QED
  BY <1>6, <1>7, <1>8, <1>9, <1>10

(* What unpackMulticast makes of a text for several handles.               *)
LEMMA ServeMulticastKeeps ==
  ASSUME IInv, ServeMulticast
  PROVE  IInv'
<1> DEFINE s == request.src
           dests == request.dests
           Packed(i) == PackedLength(s, dests[i], arrived)
           writes == {<<s + 1, MAXHANDLE>>} \cup HandleWrites(dests)
                     \cup {<<Packed(i), MAXBUF>> : i \in DOMAIN dests}
           copies == [i \in DOMAIN dests |-> Whole(i, Capped(Packed(i)))]
<1>1. request \in Requests /\ request.multi /\ stage = "sent" /\ arrived \in 0 .. request.text
  BY DEF IInv, TypeOK, ServeMulticast
<1>2. PICK n \in Nat : n = Len(dests) /\ DOMAIN dests = 1 .. n /\ n >= 2
  BY <1>1, RequestFacts
<1>3. PICK sum \in Nat : sum = SumFunction(dests) /\ \A i \in 1 .. n : dests[i] <= sum
  BY <1>1, <1>2, RequestFacts
<1>4. s \in Nat /\ request.text \in Nat /\ \A i \in 1 .. n : dests[i] \in Nat
  BY <1>1, <1>2, RequestFacts
<1>5. arrived \in Nat /\ arrived <= request.text /\ MulticastTextAt(request) = 3 + s + n + sum
  BY <1>1, <1>2, <1>3, <1>4 DEF MulticastTextAt
<1>6. arrived = TextWithin(3 + s + n + sum, request.text)
  BY <1>1, <1>5 DEF IInv, StageInv, At
<1>7. \A i \in 1 .. n : Packed(i) = 4 + s + dests[i] + arrived + 1
  BY DEF PackedLength, TextAt
<1>8. ASSUME WithinLimits(request)
      PROVE  arrived = request.text /\ arrived <= MaxText /\ Inside(writes)
  <2>1. /\ s < MAXHANDLE /\ \A i \in 1 .. n : dests[i] < MAXHANDLE
        /\ sum + n <= DestBuffer /\ request.text <= MaxText
        /\ 3 + s + n + sum + request.text < MaxData
    BY <1>1, <1>2, <1>3, <1>5, <1>8, LimitFacts
  <2>2. arrived = request.text
    <3>1. PICK at \in Nat : at = 3 + s + n + sum
      BY <1>4
    <3>2. PICK t \in Nat : t = request.text
      BY <1>4
    <3>3. PICK max \in Nat : max = MaxData
      BY BufferFacts
    <3>4. at + t <= max
      BY <2>1, <3>1, <3>2, <3>3
    <3> QED
      BY <1>6, <3>1, <3>2, <3>3, <3>4, TextWithinBounds
  <2>3. \A i \in 1 .. n : dests[i] + 1 <= MAXHANDLE /\ Packed(i) <= MAXBUF
    BY <1>4, <1>5, <1>7, <2>1, <2>2, BufferFacts
  <2>4. s + 1 <= MAXHANDLE
    BY <1>4, <2>1, BufferFacts
  <2> HIDE DEF s, dests, Packed
  <2>5. \A w \in HandleWrites(dests) : w[1] <= w[2]
    BY <1>2, <1>3, <2>1, <2>3 DEF HandleWrites
  <2>6. \A w \in writes : w[1] <= w[2]
    BY <1>2, <2>3, <2>4, <2>5
  <2> QED
    BY <2>1, <2>2, <2>6 DEF Inside
<1>9. ASSUME Inside(writes), arrived # 0, NEW i \in 1 .. n
      PROVE  4 + s + dests[i] + arrived < Capped(Packed(i))
  <2>1. PICK at \in Nat : at = 3 + s + n + sum
    BY <1>4
  <2>2. PICK max \in Nat : max = MaxData
    BY BufferFacts
  <2>3. at + arrived <= max
    <3>1. TextWithin(at, request.text) > 0 => at + TextWithin(at, request.text) <= MaxData
      BY <1>4, TextWithinBounds
    <3>2. arrived > 0
      BY <1>5, <1>9
    <3> QED
      BY <1>6, <2>1, <2>2, <3>1, <3>2
  <2>4. PICK d \in Nat : d = dests[i] /\ d <= sum
    BY <1>3, <1>4
  <2>5. 4 + s + d + arrived < max
    <3>1. n >= 2
      BY <1>2
    <3>2. s \in Nat /\ arrived \in Nat
      BY <1>4, <1>5
    <3> HIDE DEF s
    <3> QED
      BY <2>1, <2>3, <2>4, <3>1, <3>2
  <2> QED
    BY <1>4, <1>5, <1>7, <2>2, <2>4, <2>5 DEF Capped
<1>10. copies \in Seq(PduType)
  <2>1. ASSUME NEW i \in 1 .. n PROVE Whole(i, Capped(Packed(i))) \in PduType
    <3>1. Packed(i) \in Nat /\ Packed(i) > 0
      BY <1>4, <1>5, <1>7
    <3> QED
      BY <3>1, WholeShape
  <2> QED
    BY <1>2, <2>1
<1> HIDE DEF s, dests, Packed, writes
<1>11. CASE Overrun /\ ~Inside(writes)
  BY <1>8, <1>11, OverrunKeeps
<1>12. CASE stage' = "dropped" /\ UNCHANGED <<request, arrived, relayed, shown, screen>>
  BY <1>1, <1>12 DEF IInv, TypeOK, StageInv, WholeInv, StaysInside, ShownAsTyped, EndTravels,
                     PiecesMakeTheRest, At, MulticastTextAt, TextAt, TextWithin
<1>13. ASSUME Inside(writes), arrived # 0, NEW known, Relay(Kept(copies, known)) PROVE IInv'
  <2> DEFINE Copies == {Whole(i, Capped(Packed(i))) : i \in 1 .. n}
  <2>1. copies \in Seq(Copies)
    BY <1>2
  <2>2. PICK pdus : pdus = Kept(copies, known)
    OBVIOUS
  <2>3. pdus \in Seq(Copies) /\ pdus \in Seq(PduType)
    BY <1>10, <2>1, <2>2, KeptAreCopies
  <2>4. \A k \in DOMAIN pdus : pdus[k] \in Copies
    BY <2>3, LenProperties, ElementOfSeq
  <2>5. relayed' = pdus /\ UNCHANGED <<request, arrived>>
    BY <1>13, <2>2 DEF Relay
  <2>6. ASSUME NEW k \in DOMAIN pdus
        PROVE  \E i \in 1 .. n : /\ pdus[k].kind = "whole" /\ pdus[k].to = i /\ pdus[k].first = 1
                                 /\ pdus[k].count = arrived /\ pdus[k].length = Capped(Packed(i))
    BY <2>4 DEF Whole
  <2>7. WholeInv'
    BY <1>2, <1>8, <2>5, <2>6 DEF WholeInv, dests
  <2>8. EndTravels'
    <3>1. \A i \in 1 .. n : TextAt(s, dests[i]) + arrived < Capped(Packed(i))
      BY <1>9, <1>13 DEF TextAt
    <3> QED
      BY <2>5, <2>6, <3>1 DEF EndTravels, s, dests
  <2>9. PiecesMakeTheRest'
    <3>1. relayed' # <<>> => 1 \in DOMAIN pdus
      BY <2>3, <2>5, EmptySeq, LenProperties
    <3> QED
      BY <2>5, <2>6, <3>1 DEF PiecesMakeTheRest
  <2> QED
    BY <1>1, <1>13, <2>2, <2>3, <2>7, <2>8, <2>9, RelayKeeps
<1>14. \/ Overrun /\ ~Inside(writes)
       \/ stage' = "dropped" /\ UNCHANGED <<request, arrived, relayed, shown, screen>>
       \/ Inside(writes) /\ arrived # 0 /\ \E known : Relay(Kept(copies, known))
  BY DEF ServeMulticast, writes, copies, s, dests, Packed
<1> QED
  BY <1>11, <1>12, <1>13, <1>14

----------------------------------------------------------------------------
(* The addressee                                                           *)

(* What is printed next is the next PDU.                                   *)
LEMMA NextIsRelayed ==
  ASSUME IInv, NEW kind, Receives(kind)
  PROVE  /\ shown \in Nat /\ shown + 1 \in DOMAIN relayed
         /\ NextPdu = relayed[shown + 1] /\ NextPdu.kind = kind
         /\ shown + 1 \in 0 .. Len(relayed) /\ stage = "relayed" /\ request \in Requests
<1>1. relayed \in Seq(PduType) /\ shown \in 0 .. Len(relayed) /\ request \in Requests
  BY DEF IInv, TypeOK, PduType
<1>2. PICK n \in Nat : n = Len(relayed) /\ DOMAIN relayed = 1 .. n
  BY <1>1, LenProperties
<1> QED
  BY <1>1, <1>2 DEF Receives, NextPdu

(* Nothing but the screen and the count of what was shown changes.         *)
LEMMA ShowKeeps ==
  ASSUME IInv, UNCHANGED <<request, stage, arrived, relayed>>, shown' = shown + 1,
         shown + 1 \in 0 .. Len(relayed),
         screen' \in [src : Nat, first : Nat, count : Nat, ends : BOOLEAN],
         ShownAsTyped'
  PROVE  IInv'
<1>1. TypeOK'
  BY DEF IInv, TypeOK
<1> QED
  BY <1>1 DEF IInv, StageInv, WholeInv, StaysInside, EndTravels, PiecesMakeTheRest,
              At, MulticastTextAt, TextAt, TextWithin

(* What is printed of a whole text is all that arrived of it.              *)
LEMMA ShowMessageKeeps ==
  ASSUME IInv, ShowMessage
  PROVE  IInv'
<1> DEFINE pdu == NextPdu
           s == request.src
<1>1. /\ shown \in Nat /\ shown + 1 \in DOMAIN relayed /\ pdu = relayed[shown + 1]
      /\ pdu.kind = "whole" /\ shown + 1 \in 0 .. Len(relayed) /\ request \in Requests
  BY NextIsRelayed DEF ShowMessage
<1>2. /\ pdu.to \in DOMAIN request.dests /\ pdu.first = 1 /\ pdu.count = arrived
      /\ WithinLimits(request) => arrived = request.text /\ arrived <= MaxText
  BY <1>1 DEF IInv, WholeInv
<1>3. s \in Nat /\ request.dests[pdu.to] \in Nat
  BY <1>1, <1>2, RequestFacts
<1>4. arrived \in Nat
  <2>1. arrived \in 0 .. request.text /\ request.text \in Nat
    BY <1>1, RequestFacts DEF IInv, TypeOK
  <2> QED
    BY <2>1
<1>5. ExtractOffset(s, request.dests[pdu.to]) - TextAt(s, request.dests[pdu.to]) = 0
  BY <1>3 DEF ExtractOffset, TextAt
<1>6. pdu.count - 0 = arrived /\ pdu.first + 0 = 1
  BY <1>2, <1>4
<1>7. IF s + 1 <= MAXHANDLE /\ arrived <= MaxText THEN Printed(s, 1, arrived) ELSE Overrun
  <2>1. Inside({<<s + 1, MAXHANDLE>>, <<arrived, MaxText>>}) <=>
          s + 1 <= MAXHANDLE /\ arrived <= MaxText
    BY DEF Inside
  <2> QED
    BY <1>5, <1>6, <2>1 DEF ShowMessage
<1> HIDE DEF pdu
<1>8. CASE Printed(s, 1, arrived)
  <2>1. PICK ends \in BOOLEAN :
          screen' = [src |-> s, first |-> 1, count |-> arrived, ends |-> ends]
    BY <1>8 DEF Printed
  <2>2. shown' = shown + 1 /\ UNCHANGED <<request, stage, arrived, relayed>>
    BY <1>8 DEF Printed
  <2>3. screen' \in [src : Nat, first : Nat, count : Nat, ends : BOOLEAN]
    BY <1>3, <1>4, <2>1
  <2>4. /\ screen'.src = s /\ screen'.first = 1
        /\ screen'.count = IF WithinLimits(request) THEN request.text ELSE arrived
    BY <1>2, <2>1
  <2>5. ShownAsTyped'
    BY <2>2, <2>4 DEF ShownAsTyped, WithinLimits, LineLength
  <2> QED
    BY <1>1, <2>2, <2>3, <2>5, ShowKeeps
<1>9. CASE Overrun /\ ~(s + 1 <= MAXHANDLE /\ arrived <= MaxText)
  <2>1. WithinLimits(request) => s < MAXHANDLE
    BY <1>1, LimitFacts
  <2>2. ~WithinLimits(request)
    BY <1>2, <1>3, <1>9, <2>1, BufferFacts
  <2> QED
    BY <1>9, <2>2, OverrunKeeps
<1> QED
  BY <1>7, <1>8, <1>9

(* Of the report of an unknown handle only the handle is printed.          *)
LEMMA ShowErrorKeeps ==
  ASSUME IInv, ShowError
  PROVE  IInv'
<1>1. /\ shown \in Nat /\ NextPdu = relayed[shown + 1] /\ NextPdu.kind = "error"
      /\ shown + 1 \in 0 .. Len(relayed) /\ request \in Requests
  BY NextIsRelayed DEF ShowError
<1>2. PICK d \in Nat : d = request.dests[1] /\ (WithinLimits(request) => d < MAXHANDLE)
  <2>1. /\ request.dests[1] \in Nat /\ 1 \in DOMAIN request.dests
    BY <1>1, RequestFacts
  <2> QED
    BY <1>1, <2>1, LimitFacts
<1>3. IF d <= MAXHANDLE THEN Printed(d, 1, 0) ELSE Overrun
  BY <1>2 DEF ShowError, Inside
<1>4. CASE Printed(d, 1, 0)
  <2>1. PICK ends \in BOOLEAN : screen' = [src |-> d, first |-> 1, count |-> 0, ends |-> ends]
    BY <1>4 DEF Printed
  <2>2. shown' = shown + 1 /\ UNCHANGED <<request, stage, arrived, relayed>>
    BY <1>4 DEF Printed
  <2>3. screen' \in [src : Nat, first : Nat, count : Nat, ends : BOOLEAN]
    BY <2>1
  <2>4. ShownAsTyped'
    BY <1>1, <2>2 DEF ShownAsTyped
  <2> QED
    BY <1>1, <2>2, <2>3, <2>4, ShowKeeps
<1>5. CASE Overrun /\ ~(d <= MAXHANDLE)
  <2>1. ~WithinLimits(request)
    BY <1>2, <1>5, BufferFacts
  <2> QED
    BY <1>5, <2>1, OverrunKeeps
<1> QED
  BY <1>3, <1>4, <1>5

(* A piece prints nothing of the text, and overruns a buffer only when it  *)
(* begins with a byte that no piece of a request within the limits does.   *)
LEMMA MistakePieceKeeps ==
  ASSUME IInv, MistakePiece
  PROVE  IInv'
<1>1. /\ NextPdu = relayed[shown + 1] /\ NextPdu.kind = "piece"
      /\ shown + 1 \in 0 .. Len(relayed) /\ shown + 1 \in DOMAIN relayed
  BY NextIsRelayed DEF MistakePiece
<1>2. CASE /\ shown' = shown + 1 /\ screen' = Nothing
           /\ UNCHANGED <<request, stage, arrived, relayed>>
  <2>1. ShownAsTyped'
    BY <1>1, <1>2 DEF ShownAsTyped
  <2>2. screen' \in [src : Nat, first : Nat, count : Nat, ends : BOOLEAN]
    BY <1>2 DEF Nothing
  <2> QED
    BY <1>1, <1>2, <2>1, <2>2, ShowKeeps
<1>3. CASE request.control /\ Overrun
  <2>1. arrived > MaxText /\ request \in Requests /\ arrived \in 0 .. request.text
    BY <1>1 DEF IInv, WholeInv, TypeOK
  <2>2. request.text \in Nat
    BY <2>1, RequestFacts
  <2>3. ~(request.text <= MaxText)
    BY <2>1, <2>2, BufferFacts
  <2> QED
    BY <1>3, <2>3, OverrunKeeps DEF WithinLimits
<1> QED
  BY <1>2, <1>3 DEF MistakePiece

(* A line has been typed and nothing else has happened.                    *)
LEMMA InitHolds == Init => IInv
<1> SUFFICES ASSUME Init PROVE IInv
  OBVIOUS
<1>1. request \in Requests /\ request.text \in Nat
  BY RequestFacts DEF Init
<1>2. Len(relayed) = 0 /\ DOMAIN relayed = {} /\ relayed \in Seq(PduType)
  BY DEF Init
<1>3. TypeOK
  BY <1>1, <1>2 DEF Init, TypeOK, PduType, Nothing
<1>4. ShownAsTyped
  BY DEF Init, ShownAsTyped
<1> QED
  BY <1>2, <1>3, <1>4 DEF Init, IInv, StageInv, WholeInv, StaysInside, EndTravels,
                          PiecesMakeTheRest

(* The invariant is inductive.                                             *)
LEMMA NextKeeps == IInv /\ [Next]_vars => IInv'
<1> SUFFICES ASSUME IInv, [Next]_vars PROVE IInv'
  OBVIOUS
<1>1. CASE UNCHANGED vars
  BY <1>1 DEF vars, IInv, TypeOK, StageInv, WholeInv, StaysInside, ShownAsTyped, EndTravels,
              PiecesMakeTheRest
<1> QED
  BY <1>1, SendMessageKeeps, SendMulticastKeeps, ServeMessageKeeps, ServeMulticastKeeps,
     ShowMessageKeeps, ShowErrorKeeps, MistakePieceKeeps DEF Next

----------------------------------------------------------------------------
(* Theorems                                                                *)

(* A text on its way never leaves the invariant.                           *)
THEOREM IInvHolds == Spec => []IInv
BY InitHolds, NextKeeps, PTL DEF Spec

(* Whatever is typed, no PDU is longer than sendPDU sends, and no offset   *)
(* is negative.                                                            *)
THEOREM TypeCorrect == Spec => []TypeOK
BY IInvHolds, PTL DEF IInv

(* Within the stated limits, among them that no piece of a text is taken   *)
(* for a PDU with a handle, no function that packs or unpacks writes       *)
(* outside its buffers, for all lengths of handles and texts.              *)
THEOREM WritesStayInside == Spec => []StaysInside
BY IInvHolds, PTL DEF IInv

(* What is printed of a text that is not cut in pieces begins with all of  *)
(* it, after the handle it came from; what may follow is left open.        *)
THEOREM ShownAsItWasTyped == Spec => []ShownAsTyped
BY IInvHolds, PTL DEF IInv

(* The terminator of a text travels with it, over both hops.               *)
THEOREM EndAlwaysTravels == Spec => []EndTravels
BY IInvHolds, PTL DEF IInv

(* The pieces of a text of any length make up all of it, but for its first *)
(* character at most.                                                      *)
THEOREM PiecesAreComplete == Spec => []PiecesMakeTheRest
BY IInvHolds, PTL DEF IInv
=============================================================================
