---------------------------- MODULE LogRingProofs ---------------------------
(***************************************************************************)
(* Theorems about app/log for every size of the ring and of the chunks,    *)
(* any lengths of lines that fit, and any number of lines and clients.     *)
(***************************************************************************)
EXTENDS LogRing, FiniteSetTheorems, WellFoundedInduction, TLAPS

-----------------------------------------------------------------------------
(* The invariant *)

Units == [line : Nat, pos : Nat, last : BOOLEAN]

(* The ring's storage and the histories.                                   *)
StorageOK ==
  /\ s_ring \in [0 .. RingSize - 1 -> Units]
  /\ sent \in Units /\ delivered \in Nat /\ told \in Int
  /\ s_full => s_head = s_tail
  /\ sending <= Used

(* A greeting that is still to be logged.                                  *)
Greeting == IF socket = "established" /\ ~s_have_client THEN 1 ELSE 0

LinesBounded ==
  /\ clients \in Nat
  /\ clients + Greeting <= MaxClients
  /\ logged + clients + Greeting <= MaxLines + MaxClients

(* The ring holds lines that were logged, each unit behind those before    *)
(* it and behind the one sent last; the youngest line is whole.            *)
AllInOrder ==
  /\ sent.line <= logged
  /\ \A i \in 1 .. Used :
       /\ Contents[i].line <= logged
       /\ Before(sent, Contents[i])
       /\ \A j \in 1 .. i - 1 : Before(Contents[j], Contents[i])
  /\ Used > 0 => Contents[Used].last

LogInv == TypeOK /\ StorageOK /\ LinesBounded /\ AllInOrder /\ LossesAreCounted

-----------------------------------------------------------------------------
(* The ring's indices *)

LEMMA SizeIs == RingSize \in Nat \ {0} /\ ChunkMax \in 1 .. RingSize
  BY ConstantsAssumption

LEMMA WrapIs ==
  ASSUME NEW i \in 0 .. 2 * RingSize - 1
  PROVE  /\ Wrap(i) = IF i < RingSize THEN i ELSE i - RingSize
         /\ Wrap(i) \in 0 .. RingSize - 1
<1>1. CASE i < RingSize
  BY <1>1, SizeIs DEF Wrap
<1>2. CASE i >= RingSize
  BY <1>2, SizeIs DEF Wrap
<1> QED  BY <1>1, <1>2, SizeIs

(* ring_used of any two ends.                                              *)
UsedBy(head, tail, full) ==
  IF full THEN RingSize
  ELSE IF head >= tail THEN head - tail
  ELSE RingSize - (tail - head)

LEMMA UsedByIs ==
  ASSUME NEW head \in 0 .. RingSize - 1, NEW tail \in 0 .. RingSize - 1, NEW full \in BOOLEAN,
         full => head = tail
  PROVE  UsedBy(head, tail, full) \in 0 .. RingSize /\ head = Wrap(tail + UsedBy(head, tail, full))
<1> DEFINE used == UsedBy(head, tail, full)
<1>1. used \in 0 .. RingSize
  BY SizeIs DEF UsedBy
<1>2. tail + used \in 0 .. 2 * RingSize - 1
  BY <1>1, SizeIs
<1>3. tail + used = head \/ tail + used = head + RingSize
  BY SizeIs DEF UsedBy
<1> HIDE DEF used
<1>4. head = Wrap(tail + used)
  BY <1>2, <1>3, WrapIs, SizeIs
<1> QED  BY <1>1, <1>4 DEF used

(* A stretch that is not empty and not longer than the ring, measured.     *)
LEMMA StretchIs ==
  ASSUME NEW tail \in 0 .. RingSize - 1, NEW n \in 1 .. RingSize,
         NEW full \in BOOLEAN, full <=> Wrap(tail + n) = tail
  PROVE  UsedBy(Wrap(tail + n), tail, full) = n /\ Wrap(tail + n) \in 0 .. RingSize - 1
<1>1. tail + n \in 0 .. 2 * RingSize - 1
  BY SizeIs
<1>2. /\ Wrap(tail + n) = IF tail + n < RingSize THEN tail + n ELSE tail + n - RingSize
      /\ Wrap(tail + n) \in 0 .. RingSize - 1
  BY <1>1, WrapIs, SizeIs
<1>3. full <=> n = RingSize
  <2>1. CASE tail + n < RingSize
    BY <1>2, <2>1, SizeIs
  <2>2. CASE tail + n >= RingSize
    BY <1>2, <2>2, SizeIs
  <2> QED  BY <2>1, <2>2, SizeIs
<1> QED  BY <1>2, <1>3, SizeIs DEF UsedBy

LEMMA RingIs ==
  ASSUME TypeOK, StorageOK
  PROVE  /\ s_head \in 0 .. RingSize - 1 /\ s_tail \in 0 .. RingSize - 1 /\ s_full \in BOOLEAN
         /\ Used = UsedBy(s_head, s_tail, s_full)
         /\ Used \in 0 .. RingSize /\ s_head = Wrap(s_tail + Used)
         /\ \A i \in 1 .. Used : /\ Wrap(s_tail + i - 1) \in 0 .. RingSize - 1
                                 /\ Contents[i] = s_ring[Wrap(s_tail + i - 1)]
                                 /\ Contents[i] \in Units
<1>1. s_head \in 0 .. RingSize - 1 /\ s_tail \in 0 .. RingSize - 1 /\ s_full \in BOOLEAN
  BY DEF TypeOK, StorageOK
<1>2. Used = UsedBy(s_head, s_tail, s_full)
  BY Zenon DEF Used, UsedBy
<1>3. Used \in 0 .. RingSize /\ s_head = Wrap(s_tail + Used)
  BY <1>1, <1>2, UsedByIs DEF StorageOK
<1>4. ASSUME NEW i \in 1 .. Used
      PROVE  /\ Wrap(s_tail + i - 1) \in 0 .. RingSize - 1
             /\ Contents[i] = s_ring[Wrap(s_tail + i - 1)]
             /\ Contents[i] \in Units
  <2>1. s_tail + i - 1 \in 0 .. 2 * RingSize - 1
    BY <1>1, <1>3, SizeIs
  <2>2. Wrap(s_tail + i - 1) \in 0 .. RingSize - 1
    BY <2>1, WrapIs
  <2>3. Contents[i] = s_ring[Wrap(s_tail + i - 1)]
    BY DEF Contents
  <2> QED  BY <2>2, <2>3 DEF StorageOK
<1> QED  BY <1>1, <1>2, <1>3, <1>4

(* The same after a step.                                                  *)
LEMMA RingNext ==
  ASSUME NEW n \in 0 .. RingSize, UsedBy(s_head', s_tail', s_full') = n
  PROVE  /\ Used' = n
         /\ \A i \in 1 .. n : Contents'[i] = s_ring'[Wrap(s_tail' + i - 1)]
<1>1. Used' = UsedBy(s_head', s_tail', s_full')
  BY Zenon DEF Used, UsedBy
<1>2. Contents' = [i \in 1 .. Used' |-> s_ring'[Wrap(s_tail' + i - 1)]]
  BY DEF Contents
<1> QED  BY <1>1, <1>2

-----------------------------------------------------------------------------
(* Lines are dropped and counted *)

(* What Min chooses of numbers of units exists: the set with the fewest    *)
(* predecessors is found in the well-founded order of finite sets.         *)
LEMMA LeastExists ==
  ASSUME NEW n \in Nat, NEW T, T \subseteq 0 .. n, T # {}
  PROVE  Min(T) \in T /\ \A k \in T : Min(T) =< k
<1> DEFINE UpTo(k) == {j \in T : j =< k}
           Family  == {UpTo(k) : k \in T}
<1>1. 0 .. n \subseteq Int /\ IsFiniteSet(0 .. n)
  BY FS_Interval
<1>2. Family \subseteq FiniteSubsetsOf(0 .. n)
  <2>1. \A k \in T : UpTo(k) \in SUBSET (0 .. n)
    OBVIOUS
  <2>2. \A k \in T : UpTo(k) \in FiniteSubsetsOf(0 .. n)
    BY <1>1, <2>1, FS_FiniteSubsetsOfFinite
  <2> QED  BY <2>2
<1>3. PICK F \in Family : \A G \in Family : <<G, F>> \notin StrictSubsetOrdering(0 .. n)
  <2>1. Family # {}
    OBVIOUS
  <2> HIDE DEF Family
  <2> QED  BY <1>2, <2>1, FS_StrictSubsetOrderingWellFounded, WFMin
<1>4. PICK m \in T : F = UpTo(m)
  OBVIOUS
<1>5. ASSUME NEW k \in T PROVE m =< k
  <2> SUFFICES ASSUME k < m PROVE FALSE
    BY <1>1
  <2>1. UpTo(k) \subseteq UpTo(m)
    <3> SUFFICES ASSUME NEW j \in T, j =< k  PROVE j =< m
      OBVIOUS
    <3>1. j \in Int /\ k \in Int /\ m \in Int
      BY <1>1
    <3> QED  BY <3>1
  <2>2. UpTo(k) # UpTo(m)
    BY <1>1
  <2>3. <<UpTo(k), UpTo(m)>> \in StrictSubsetOrdering(0 .. n)
    BY <2>1, <2>2 DEF StrictSubsetOrdering
  <2> QED  BY <1>3, <1>4, <2>3
<1>6. \E x \in T : \A y \in T : x =< y
  BY <1>5
<1> QED  BY <1>6, Zenon DEF Min

(* The newlines of the first n units of anything that is shifted by k.     *)
LineEnds(units, n) == {i \in 1 .. n : units[i].last}

LEMMA EndsFinite ==
  ASSUME NEW units, NEW n \in Nat
  PROVE  IsFiniteSet(LineEnds(units, n)) /\ Cardinality(LineEnds(units, n)) \in Nat
<1>1. IsFiniteSet(1 .. n) /\ LineEnds(units, n) \in SUBSET (1 .. n)
  BY FS_Interval DEF LineEnds
<1>2. IsFiniteSet(LineEnds(units, n))
  BY <1>1, FS_Subset
<1> QED  BY <1>2, FS_CardinalityType

LEMMA EndsShift ==
  ASSUME NEW units, NEW new, NEW n \in Nat, NEW k \in 0 .. n,
         \A i \in 1 .. n - k : new[i] = units[k + i]
  PROVE  Cardinality(LineEnds(new, n - k))
           = Cardinality(LineEnds(units, n)) - Cardinality(LineEnds(units, k))
<1> DEFINE front == LineEnds(units, k)
           back  == {i \in k + 1 .. n : units[i].last}
           moved == LineEnds(new, n - k)
<1>1. k \in Nat /\ n - k \in Nat
  OBVIOUS
<1>2. LineEnds(units, n) = front \union back /\ front \cap back = {}
  BY <1>1 DEF LineEnds
<1>3. IsFiniteSet(front) /\ IsFiniteSet(back) /\ back \subseteq LineEnds(units, n)
  <2>1. IsFiniteSet(LineEnds(units, n)) /\ IsFiniteSet(front)
    BY <1>1, EndsFinite
  <2>2. back \in SUBSET LineEnds(units, n)
    BY <1>2
  <2> QED  BY <2>1, <2>2, FS_Subset
<1>4. Cardinality(LineEnds(units, n)) = Cardinality(front) + Cardinality(back)
  <2> HIDE DEF front, back
  <2>1. Cardinality(front \cap back) = 0
    BY <1>2, FS_EmptySet
  <2>2. Cardinality(front \union back) = Cardinality(front) + Cardinality(back) - Cardinality(front \cap back)
    BY <1>3, FS_Union
  <2>3. Cardinality(front) \in Nat /\ Cardinality(back) \in Nat
    BY <1>3, FS_CardinalityType
  <2> QED  BY <1>2, <2>1, <2>2, <2>3
<1>5. Cardinality(moved) = Cardinality(back)
  <2> DEFINE shift == [i \in back |-> i - k]
  <2>1. shift \in [back -> moved]
    BY DEF LineEnds
  <2>2. \A i, j \in back : shift[i] = shift[j] => i = j
    BY <1>1
  <2>3. \A m \in moved : \E i \in back : shift[i] = m
    <3> TAKE m \in moved
    <3>1. m \in 1 .. n - k /\ units[k + m].last
      BY DEF LineEnds
    <3>2. k + m \in k + 1 .. n
      BY <1>1, <3>1
    <3>3. k + m \in back
      BY <3>1, <3>2
    <3>4. PICK i \in back : i = k + m
      BY <3>3
    <3>5. shift[i] = i - k
      BY <3>4
    <3>6. i - k = m
      BY <1>1, <3>1, <3>4
    <3> QED  BY <3>5, <3>6
  <2>4. shift \in Bijection(back, moved)
    BY <2>1, <2>2, <2>3 DEF Bijection, Injection, Surjection, IsInjective
  <2> HIDE DEF back, moved, shift
  <2> QED  BY <1>3, <2>4, FS_Bijection DEF ExistsBijection
<1>6. Cardinality(front) \in Nat /\ Cardinality(back) \in Nat
  BY <1>3, FS_CardinalityType
<1> HIDE DEF front, back, moved
<1> QED  BY <1>4, <1>5, <1>6 DEF front, moved

-----------------------------------------------------------------------------
(* A line is written *)

(* Numbers that differ by a turn of the ring are the same place in it.     *)
LEMMA WrapSame ==
  ASSUME NEW i \in 0 .. 2 * RingSize - 1, NEW j \in 0 .. 2 * RingSize - 1,
         i = j \/ i = j + RingSize \/ j = i + RingSize
  PROVE  Wrap(i) = Wrap(j)
<1>1. Wrap(i) = IF i < RingSize THEN i ELSE i - RingSize
  BY WrapIs, SizeIs
<1>2. Wrap(j) = IF j < RingSize THEN j ELSE j - RingSize
  BY WrapIs, SizeIs
<1> QED  BY <1>1, <1>2, SizeIs

(* Where the units stand when k units make room for a line of len: those   *)
(* that stay are not written over, and the new ones stand behind them.     *)
Placed(tail, used, head, start, k, len) ==
  /\ Wrap(head + len) = Wrap(start + (used - k + len))
  /\ \A i \in 1 .. used - k : \E at \in 0 .. RingSize - 1 :
       /\ at = Wrap(start + i - 1) /\ at = Wrap(tail + (k + i) - 1)
       /\ Wrap(at - head + RingSize) + 1 > len
  /\ \A i \in 1 .. len : \E at \in 0 .. RingSize - 1 :
       /\ at = Wrap(start + (used - k + i) - 1)
       /\ Wrap(at - head + RingSize) + 1 = i

LEMMA WriteIndices ==
  ASSUME NEW tail \in 0 .. RingSize - 1, NEW used \in 0 .. RingSize, NEW k \in 0 .. used,
         NEW len \in 1 .. RingSize, len =< RingSize - used + k,
         NEW head \in 0 .. RingSize - 1, head = Wrap(tail + used),
         NEW start \in 0 .. RingSize - 1, start = Wrap(tail + k)
  PROVE  Placed(tail, used, head, start, k, len)
<1>1. head = tail + used \/ head = tail + used - RingSize
  <2>1. tail + used \in 0 .. 2 * RingSize - 1
    BY SizeIs
  <2> QED  BY <2>1, WrapIs, SizeIs
<1>2. start = tail + k \/ start = tail + k - RingSize
  <2>1. tail + k \in 0 .. 2 * RingSize - 1
    BY SizeIs
  <2> QED  BY <2>1, WrapIs, SizeIs
<1>3. Wrap(head + len) = Wrap(start + (used - k + len))
  <2>1. head + len \in 0 .. 2 * RingSize - 1 /\ start + (used - k + len) \in 0 .. 2 * RingSize - 1
    BY SizeIs
  <2>2. \/ head + len = start + (used - k + len)
        \/ head + len = start + (used - k + len) + RingSize
        \/ start + (used - k + len) = head + len + RingSize
    BY <1>1, <1>2, SizeIs
  <2> QED  BY <2>1, <2>2, WrapSame
<1>4. ASSUME NEW i \in 1 .. used - k
      PROVE  \E at \in 0 .. RingSize - 1 :
               /\ at = Wrap(start + i - 1) /\ at = Wrap(tail + (k + i) - 1)
               /\ Wrap(at - head + RingSize) + 1 > len
  <2>1. start + i - 1 \in 0 .. 2 * RingSize - 1 /\ tail + (k + i) - 1 \in 0 .. 2 * RingSize - 1
    BY SizeIs
  <2>2. \/ start + i - 1 = tail + (k + i) - 1
        \/ start + i - 1 = tail + (k + i) - 1 + RingSize
        \/ tail + (k + i) - 1 = start + i - 1 + RingSize
    BY <1>2, SizeIs
  <2>3. Wrap(start + i - 1) = Wrap(tail + (k + i) - 1)
    BY <2>1, <2>2, WrapSame
  <2>4. PICK at \in 0 .. RingSize - 1 : /\ at = Wrap(tail + (k + i) - 1)
                                        /\ at = tail + (k + i) - 1 \/ at = tail + (k + i) - 1 - RingSize
    BY <2>1, WrapIs, SizeIs
  <2>5. /\ at - head + RingSize \in 0 .. 2 * RingSize - 1
        /\ k + i - 1 - used + RingSize \in 0 .. RingSize - 1
    BY SizeIs
  <2>6. \/ at - head + RingSize = k + i - 1 - used + RingSize
        \/ at - head + RingSize = k + i - 1 - used + RingSize + RingSize
        \/ k + i - 1 - used + RingSize = at - head + RingSize + RingSize
    BY <1>1, <2>4, <2>5, SizeIs
  <2>7. Wrap(at - head + RingSize) = Wrap(k + i - 1 - used + RingSize)
    BY <2>5, <2>6, WrapSame, SizeIs
  <2>8. Wrap(k + i - 1 - used + RingSize) = k + i - 1 - used + RingSize
    BY <2>5, WrapIs, SizeIs
  <2>9. k + i - 1 - used + RingSize + 1 > len
    BY SizeIs
  <2> QED  BY <2>3, <2>4, <2>7, <2>8, <2>9
<1>5. ASSUME NEW i \in 1 .. len
      PROVE  \E at \in 0 .. RingSize - 1 :
               /\ at = Wrap(start + (used - k + i) - 1)
               /\ Wrap(at - head + RingSize) + 1 = i
  <2>1. start + (used - k + i) - 1 \in 0 .. 2 * RingSize - 1
    BY SizeIs
  <2>2. PICK at \in 0 .. RingSize - 1 :
          /\ at = Wrap(start + (used - k + i) - 1)
          /\ \/ at = start + (used - k + i) - 1
             \/ at = start + (used - k + i) - 1 - RingSize
    BY <2>1, WrapIs, SizeIs
  <2>3. at - head + RingSize \in 0 .. 2 * RingSize - 1 /\ i - 1 \in 0 .. RingSize - 1
    BY SizeIs
  <2>4. \/ at - head + RingSize = i - 1
        \/ at - head + RingSize = i - 1 + RingSize
        \/ i - 1 = at - head + RingSize + RingSize
    <3>1. \/ start + (used - k + i) - 1 = tail + used + i - 1
          \/ start + (used - k + i) - 1 = tail + used + i - 1 - RingSize
      BY <1>2, SizeIs
    <3>2. \/ at = tail + used + i - 1
          \/ at = tail + used + i - 1 - RingSize
          \/ at = tail + used + i - 1 - RingSize - RingSize
      BY <2>2, <3>1, SizeIs
    <3>3. CASE head = tail + used
      BY <2>3, <3>2, <3>3, SizeIs
    <3>4. CASE head = tail + used - RingSize
      <4>1. at # tail + used + i - 1
        BY <2>3, <3>4, SizeIs
      <4> QED  BY <3>2, <3>4, <4>1, SizeIs
    <3> QED  BY <1>1, <3>3, <3>4
  <2>5. Wrap(at - head + RingSize) = Wrap(i - 1)
    BY <2>3, <2>4, WrapSame, SizeIs
  <2>6. Wrap(i - 1) = i - 1
    BY <2>3, WrapIs, SizeIs
  <2>7. i - 1 + 1 = i
    OBVIOUS
  <2> QED  BY <2>2, <2>5, <2>6, <2>7
<1> QED  BY <1>3, <1>4, <1>5 DEF Placed

LEMMA LengthsFit == Lengths \subseteq 1 .. RingSize - 1 /\ RingSize \in Nat \ {0}
  BY ConstantsAssumption

(* Room is made with the oldest lines: the youngest one in the ring is     *)
(* whole, so that to drop all of them leaves it empty.                     *)
LEMMA RoomIsMade ==
  ASSUME TypeOK, StorageOK, AllInOrder, NEW len \in Lengths
  PROVE  MakeRoom(len) \in 0 .. Used /\ len =< RingSize - Used + MakeRoom(len)
<1> DEFINE T == {k \in {0} \union Ends(Used) : RingSize - Used + k >= len}
<1>1. Used \in 0 .. RingSize
  BY RingIs
<1>2. len \in 1 .. RingSize - 1 /\ RingSize \in Nat
  BY LengthsFit
<1>3. Ends(Used) \subseteq 1 .. Used
  BY DEF Ends
<1>4. T \subseteq 0 .. Used
  BY <1>1, <1>3, <1>2
<1>5. T # {}
  <2>1. CASE Used = 0
    <3>1. RingSize - Used + 0 >= len
      BY <1>2, <2>1
    <3> QED  BY <3>1
  <2>2. CASE Used > 0
    <3>1. Used \in Ends(Used)
      BY <1>1, <1>2, <2>2 DEF Ends, AllInOrder
    <3>2. RingSize - Used + Used >= len
      BY <1>1, <1>2
    <3> QED  BY <3>1, <3>2
  <2> QED  BY <1>1, <1>2, <2>1, <2>2
<1>6. Min(T) \in T
  <2> HIDE DEF T
  <2>1. Used \in Nat
    BY <1>1, <1>2
  <2> QED  BY <1>4, <1>5, <2>1, LeastExists
<1>7. MakeRoom(len) = Min(T)
  BY Zenon DEF MakeRoom
<1>8. Min(T) \in 0 .. Used
  BY <1>4, <1>6
<1>9. RingSize - Used + Min(T) >= len
  BY <1>6
<1> HIDE DEF T
<1> QED  BY <1>1, <1>2, <1>7, <1>8, <1>9

(* What ring_write does: the k oldest units are gone, the others are as    *)
(* they were, and the line stands behind them.                             *)
LEMMA WriteDoes ==
  ASSUME TypeOK, StorageOK, AllInOrder, logged \in Nat,
         NEW len \in Lengths, WriteLine(len), NEW k, k = MakeRoom(len)
  PROVE  /\ k \in 0 .. Used /\ Used' = Used - k + len /\ Used' \in 1 .. RingSize
         /\ s_ring' \in [0 .. RingSize - 1 -> Units]
         /\ s_head' \in 0 .. RingSize - 1 /\ s_tail' \in 0 .. RingSize - 1
         /\ s_full' \in BOOLEAN /\ (s_full' => s_head' = s_tail')
         /\ \A i \in 1 .. Used - k : Contents'[i] = Contents[k + i]
         /\ \A i \in 1 .. len :
              Contents'[Used - k + i] = [line |-> logged + 1, pos |-> i, last |-> i = len]
<1> DEFINE n == Used - k + len
<1>1. /\ s_head \in 0 .. RingSize - 1 /\ s_tail \in 0 .. RingSize - 1
      /\ Used \in 0 .. RingSize /\ s_head = Wrap(s_tail + Used)
      /\ \A i \in 1 .. Used : Contents[i] = s_ring[Wrap(s_tail + i - 1)]
  BY RingIs
<1>2. k \in 0 .. Used /\ len =< RingSize - Used + k /\ len \in 1 .. RingSize /\ RingSize \in Nat \ {0}
  <2>1. len \in 1 .. RingSize
    BY LengthsFit
  <2> QED  BY <2>1, RoomIsMade, LengthsFit
<1>3. n \in 1 .. RingSize
  BY <1>1, <1>2
<1>4. /\ s_head' = Wrap(s_head + len)
      /\ s_tail' = Wrap(s_tail + k)
      /\ s_full' = (Wrap(s_head + len) = Wrap(s_tail + k))
      /\ s_ring' = [i \in 0 .. RingSize - 1 |->
           IF Wrap(i - s_head + RingSize) + 1 =< len
           THEN [line |-> logged + 1, pos |-> Wrap(i - s_head + RingSize) + 1,
                 last |-> Wrap(i - s_head + RingSize) + 1 = len]
           ELSE s_ring[i]]
  <2>1. DOMAIN s_ring = 0 .. RingSize - 1
    BY DEF StorageOK
  <2> QED  BY <2>1 DEF WriteLine, FullAfterWrite
<1>5. s_tail' \in 0 .. RingSize - 1
  <2>1. s_tail + k \in 0 .. 2 * RingSize - 1
    BY <1>1, <1>2
  <2> QED  BY <1>4, <2>1, WrapIs
<1>6. Placed(s_tail, Used, s_head, s_tail', k, len)
  <2>1. PICK start \in 0 .. RingSize - 1 : start = s_tail'
    BY <1>5
  <2>2. start = Wrap(s_tail + k)
    BY <1>4, <2>1
  <2> QED  BY <1>1, <1>2, <2>1, <2>2, WriteIndices
<1>7. UsedBy(s_head', s_tail', s_full') = n /\ s_head' \in 0 .. RingSize - 1
  <2> HIDE DEF n
  <2>1. PICK start \in 0 .. RingSize - 1 : start = s_tail'
    BY <1>5
  <2>2. s_head' = Wrap(start + n) /\ s_full' \in BOOLEAN /\ (s_full' <=> Wrap(start + n) = start)
    BY <1>4, <1>6, <2>1 DEF n, Placed
  <2> QED  BY <1>3, <2>1, <2>2, StretchIs
<1>8. Used' = n /\ \A i \in 1 .. n : Contents'[i] = s_ring'[Wrap(s_tail' + i - 1)]
  <2> HIDE DEF n
  <2>1. n \in 0 .. RingSize
    BY <1>2, <1>3
  <2> QED  BY <1>7, <2>1, RingNext
<1>9. ASSUME NEW i \in 1 .. Used - k  PROVE Contents'[i] = Contents[k + i]
  <2>1. PICK at \in 0 .. RingSize - 1 : /\ at = Wrap(s_tail' + i - 1)
                                        /\ at = Wrap(s_tail + (k + i) - 1)
                                        /\ Wrap(at - s_head + RingSize) + 1 > len
    BY <1>6 DEF Placed
  <2>2. i \in 1 .. n /\ k + i \in 1 .. Used
    BY <1>1, <1>2
  <2>3. Contents'[i] = s_ring'[at]
    BY <1>8, <2>1, <2>2
  <2>4. Contents[k + i] = s_ring[at]
    BY <1>1, <2>1, <2>2
  <2>5. Wrap(at - s_head + RingSize) \in Int
    <3>1. at - s_head + RingSize \in 0 .. 2 * RingSize - 1
      BY <1>1, <1>2
    <3> QED  BY <3>1, WrapIs, <1>2
  <2>6. s_ring'[at] = s_ring[at]
    BY <1>2, <1>4, <2>1, <2>5
  <2> QED  BY <2>3, <2>4, <2>6
<1>10. ASSUME NEW i \in 1 .. len
       PROVE  Contents'[Used - k + i] = [line |-> logged + 1, pos |-> i, last |-> i = len]
  <2>1. PICK at \in 0 .. RingSize - 1 : /\ at = Wrap(s_tail' + (Used - k + i) - 1)
                                        /\ Wrap(at - s_head + RingSize) + 1 = i
    BY <1>6 DEF Placed
  <2>2. Used - k + i \in 1 .. n
    BY <1>1, <1>2
  <2>3. Contents'[Used - k + i] = s_ring'[at]
    BY <1>8, <2>1, <2>2
  <2>4. s_ring'[at] = [line |-> logged + 1, pos |-> i, last |-> i = len]
    BY <1>2, <1>4, <2>1
  <2> QED  BY <2>3, <2>4
<1>11. s_ring' \in [0 .. RingSize - 1 -> Units]
  <2>1. ASSUME NEW i \in 0 .. RingSize - 1
        PROVE  /\ Wrap(i - s_head + RingSize) + 1 \in Nat
               /\ s_ring[i] \in Units
    <3>1. i - s_head + RingSize \in 0 .. 2 * RingSize - 1
      BY <1>1, <1>2
    <3>2. Wrap(i - s_head + RingSize) \in 0 .. RingSize - 1
      BY <3>1, WrapIs
    <3> QED  BY <1>2, <3>2 DEF StorageOK
  <2>2. ASSUME NEW i \in 0 .. RingSize - 1
        PROVE  (IF Wrap(i - s_head + RingSize) + 1 =< len
                THEN [line |-> logged + 1, pos |-> Wrap(i - s_head + RingSize) + 1,
                      last |-> Wrap(i - s_head + RingSize) + 1 = len]
                ELSE s_ring[i]) \in Units
    BY <2>1 DEF Units
  <2> QED  BY <1>4, <2>2
<1>12. s_full' \in BOOLEAN /\ (s_full' => s_head' = s_tail')
  BY <1>4
<1> QED  BY <1>1, <1>2, <1>3, <1>5, <1>7, <1>8, <1>9, <1>10, <1>11, <1>12

(* The counts of ends of lines, by what the ring holds.                    *)
LEMMA EndsAre ==
  /\ \A n : Ends(n) = LineEnds(Contents, n)
  /\ Lost = logged - delivered - Cardinality(LineEnds(Contents, Used))
  /\ Lost' = logged' - delivered' - Cardinality(LineEnds(Contents', Used'))
  /\ \A n : DropCount(n) = Cardinality(LineEnds(Contents, n))
BY DEF Ends, LineEnds, Lost, DropCount

(* The newlines in the ring after a line was written.                      *)
LEMMA WriteCounts ==
  ASSUME TypeOK, StorageOK, AllInOrder, logged \in Nat,
         NEW len \in Lengths, WriteLine(len), NEW k, k = MakeRoom(len)
  PROVE  /\ Cardinality(LineEnds(Contents', Used'))
              = Cardinality(LineEnds(Contents, Used)) - Cardinality(LineEnds(Contents, k)) + 1
         /\ Cardinality(LineEnds(Contents, Used)) \in Nat
         /\ Cardinality(LineEnds(Contents, k)) \in Nat
<1>1. PICK units : units = Contents'
  OBVIOUS
<1>2. PICK n \in 0 .. RingSize : n = Used
  BY RingIs
<1>3. /\ k \in 0 .. n /\ Used' = n - k + len /\ len \in Nat \ {0} /\ n \in Nat /\ k \in Nat
      /\ n - k \in Nat
      /\ \A i \in 1 .. n - k : units[i] = Contents[k + i]
      /\ \A i \in 1 .. len : units[n - k + i].last <=> i = len
  <2>1. /\ k \in 0 .. n /\ Used' = n - k + len
        /\ \A i \in 1 .. n - k : units[i] = Contents[k + i]
        /\ \A i \in 1 .. len :
             units[n - k + i] = [line |-> logged + 1, pos |-> i, last |-> i = len]
    BY <1>1, <1>2, WriteDoes
  <2>2. len \in Nat \ {0} /\ n \in Nat /\ k \in Nat /\ n - k \in Nat
    BY <1>2, <2>1, LengthsFit
  <2>3. ASSUME NEW i \in 1 .. len  PROVE units[n - k + i].last <=> i = len
    <3>1. PICK u : u = units[n - k + i]
      OBVIOUS
    <3>2. u = [line |-> logged + 1, pos |-> i, last |-> i = len]
      BY <2>1, <3>1
    <3>3. u.last <=> i = len
      BY <3>2, Zenon
    <3> QED  BY <3>1, <3>3
  <2> QED  BY <2>1, <2>2, <2>3
<1>4. LineEnds(units, n - k + len) = LineEnds(units, n - k) \union {n - k + len}
  <2>1. ASSUME NEW i \in LineEnds(units, n - k + len), i \notin 1 .. n - k  PROVE i = n - k + len
    <3>1. i \in 1 .. n - k + len /\ units[i].last
      BY <2>1 DEF LineEnds
    <3>2. PICK m \in 1 .. len : i = n - k + m
      <4>1. i - (n - k) \in 1 .. len /\ i = n - k + (i - (n - k))
        BY <1>3, <2>1, <3>1
      <4> QED  BY <4>1
    <3> QED  BY <1>3, <3>1, <3>2
  <2>2. n - k + len \in LineEnds(units, n - k + len)
    <3>1. units[n - k + len].last /\ n - k + len \in 1 .. n - k + len
      BY <1>3
    <3> QED  BY <3>1 DEF LineEnds
  <2>3. 1 .. n - k \subseteq 1 .. n - k + len
    BY <1>3
  <2> QED  BY <2>1, <2>2, <2>3 DEF LineEnds
<1>5. n - k + len \notin LineEnds(units, n - k)
  BY <1>3 DEF LineEnds
<1>6. Cardinality(LineEnds(units, n - k))
        = Cardinality(LineEnds(Contents, n)) - Cardinality(LineEnds(Contents, k))
  <2>1. PICK old : old = Contents
    OBVIOUS
  <2>2. \A i \in 1 .. n - k : units[i] = old[k + i]
    BY <1>3, <2>1
  <2>3. Cardinality(LineEnds(units, n - k)) = Cardinality(LineEnds(old, n)) - Cardinality(LineEnds(old, k))
    <3>1. n \in Nat /\ k \in 0 .. n
      BY <1>3
    <3> QED  BY <3>1, <2>2, EndsShift, Zenon
  <2> QED  BY <2>1, <2>3
<1>7. /\ IsFiniteSet(LineEnds(units, n - k))
      /\ Cardinality(LineEnds(Contents, n)) \in Nat /\ Cardinality(LineEnds(Contents, k)) \in Nat
  BY <1>3, EndsFinite
<1>8. Cardinality(LineEnds(units, n - k) \union {n - k + len}) = Cardinality(LineEnds(units, n - k)) + 1
  BY <1>5, <1>7, FS_AddElement
<1> QED  BY <1>1, <1>2, <1>3, <1>4, <1>6, <1>7, <1>8

(* A line that is written is younger than every line before it.            *)
LEMMA WriteKeepsOrder ==
  ASSUME TypeOK, StorageOK, AllInOrder, logged \in Nat,
         NEW len \in Lengths, WriteLine(len), sent' = sent
  PROVE  AllInOrder'
<1>1. PICK k : k = MakeRoom(len)
  OBVIOUS
<1>2. /\ k \in 0 .. Used /\ Used' = Used - k + len /\ Used \in Nat /\ len \in Nat \ {0} /\ k \in Nat
      /\ \A i \in 1 .. Used - k : Contents'[i] = Contents[k + i]
      /\ \A i \in 1 .. len : Contents'[Used - k + i] = [line |-> logged + 1, pos |-> i, last |-> i = len]
  <2>1. Used \in 0 .. RingSize
    BY RingIs
  <2>2. Used \in Nat /\ len \in Nat \ {0}
    BY <2>1, LengthsFit
  <2> QED  BY <1>1, <2>2, WriteDoes
<1>3. PICK n \in Nat : n = Used - k
  BY <1>2
<1>4. logged' = logged + 1
  BY DEF WriteLine
<1>5. ASSUME NEW i \in 1 .. n
      PROVE  /\ k + i \in 1 .. Used
             /\ Contents'[i] = Contents[k + i] /\ Contents'[i] \in Units
             /\ Contents'[i].line <= logged /\ Before(sent, Contents'[i])
  <2>1. k + i \in 1 .. Used
    BY <1>2, <1>3
  <2>2. Contents'[i] = Contents[k + i]
    BY <1>2, <1>3
  <2>3. Contents[k + i] \in Units
    BY <2>1, RingIs
  <2> QED  BY <2>1, <2>2, <2>3 DEF AllInOrder
<1>6. ASSUME NEW i \in 1 .. len
      PROVE  /\ Contents'[n + i].line = logged + 1 /\ Contents'[n + i].pos = i
             /\ Contents'[n + i].last <=> i = len
  <2>1. PICK u : u = Contents'[n + i]
    OBVIOUS
  <2>2. u = [line |-> logged + 1, pos |-> i, last |-> i = len]
    BY <1>2, <1>3, <2>1
  <2>3. u.last <=> i = len
    BY <2>2, Zenon
  <2>4. u.line = logged + 1 /\ u.pos = i
    BY <2>2
  <2> QED  BY <2>1, <2>3, <2>4
<1>7. sent.line \in Nat /\ sent.line <= logged
  BY DEF StorageOK, AllInOrder, Units
<1>8. ASSUME NEW i \in 1 .. Used'
      PROVE  /\ Contents'[i].line <= logged'
             /\ Before(sent, Contents'[i])
             /\ \A j \in 1 .. i - 1 : Before(Contents'[j], Contents'[i])
  <2>1. CASE i \in 1 .. n
    <3>1. Contents'[i].line <= logged' /\ Before(sent, Contents'[i])
      BY <1>4, <1>5, <2>1 DEF Units
    <3>2. ASSUME NEW j \in 1 .. i - 1  PROVE Before(Contents'[j], Contents'[i])
      <4>1. j \in 1 .. n /\ k + j \in 1 .. (k + i) - 1
        BY <1>2, <2>1
      <4>2. Contents'[j] = Contents[k + j] /\ Contents'[i] = Contents[k + i] /\ k + i \in 1 .. Used
        BY <1>5, <2>1, <4>1
      <4>3. Before(Contents[k + j], Contents[k + i])
        BY <4>1, <4>2 DEF AllInOrder
      <4> QED  BY <4>2, <4>3
    <3> QED  BY <3>1, <3>2
  <2>2. CASE i \notin 1 .. n
    <3>1. PICK m \in 1 .. len : i = n + m
      <4>1. i - n \in 1 .. len /\ i = n + (i - n)
        BY <1>2, <1>3, <2>2
      <4> QED  BY <4>1
    <3>2. Contents'[i].line = logged + 1 /\ Contents'[i].pos = m
      BY <1>6, <3>1
    <3>3. Contents'[i].line <= logged' /\ Before(sent, Contents'[i])
      BY <1>4, <1>7, <3>2 DEF Before
    <3>4. ASSUME NEW j \in 1 .. i - 1  PROVE Before(Contents'[j], Contents'[i])
      <4>1. CASE j \in 1 .. n
        <5>1. Contents'[j].line \in Nat /\ Contents'[j].line <= logged
          BY <1>5, <4>1 DEF Units
        <5> QED  BY <3>2, <5>1 DEF Before
      <4>2. CASE j \notin 1 .. n
        <5>1. j - n \in 1 .. m - 1 /\ j = n + (j - n) /\ j - n \in 1 .. len
          BY <1>2, <1>3, <3>1, <4>2
        <5>2. PICK p \in 1 .. len : p = j - n /\ p < m /\ j = n + p
          BY <5>1
        <5>3. Contents'[j].line = logged + 1 /\ Contents'[j].pos = p
          BY <1>6, <5>2
        <5> QED  BY <3>2, <5>2, <5>3 DEF Before
      <4> QED  BY <4>1, <4>2
    <3> QED  BY <3>3, <3>4
  <2> QED  BY <2>1, <2>2
<1>9. Contents'[Used'].last
  <2>1. Used' = n + len /\ len \in 1 .. len
    BY <1>2, <1>3
  <2> QED  BY <1>6, <2>1
<1>10. sent'.line <= logged'
  BY <1>4, <1>7
<1> QED  BY <1>8, <1>9, <1>10 DEF AllInOrder

-----------------------------------------------------------------------------
(* The parts of the actions *)

RingOK ==
  /\ s_ring \in [0 .. RingSize - 1 -> Units]
  /\ s_head \in 0 .. RingSize - 1 /\ s_tail \in 0 .. RingSize - 1
  /\ s_full \in BOOLEAN /\ (s_full => s_head = s_tail)

(* A line is written: the dropped lines are those that are lost.           *)
LEMMA WriteKeeps ==
  ASSUME LogInv, NEW len \in Lengths, WriteLine(len), delivered' = delivered, sent' = sent
  PROVE  /\ RingOK' /\ AllInOrder' /\ logged' = logged + 1
         /\ Used' \in 1 .. RingSize
         /\ Lost \in Int /\ Lost' = Lost + DropCount(MakeRoom(len))
         /\ DropCount(MakeRoom(len)) \in Nat
<1>1. TypeOK /\ StorageOK /\ AllInOrder /\ logged \in Nat /\ delivered \in Nat
  BY ConstantsAssumption DEF LogInv, TypeOK, StorageOK, Lines
<1>2. PICK k : k = MakeRoom(len)
  OBVIOUS
<1>3. RingOK' /\ Used' \in 1 .. RingSize
  <2>1. /\ Used' \in 1 .. RingSize
        /\ s_ring' \in [0 .. RingSize - 1 -> Units]
        /\ s_head' \in 0 .. RingSize - 1 /\ s_tail' \in 0 .. RingSize - 1
        /\ s_full' \in BOOLEAN /\ (s_full' => s_head' = s_tail')
    BY <1>1, <1>2, WriteDoes
  <2> QED  BY <2>1 DEF RingOK
<1>4. AllInOrder'
  BY <1>1, WriteKeepsOrder
<1>5. logged' = logged + 1
  BY DEF WriteLine
<1>6. /\ Cardinality(LineEnds(Contents', Used'))
           = Cardinality(LineEnds(Contents, Used)) - Cardinality(LineEnds(Contents, k)) + 1
      /\ Cardinality(LineEnds(Contents, Used)) \in Nat /\ Cardinality(LineEnds(Contents, k)) \in Nat
  BY <1>1, <1>2, WriteCounts
<1>7. /\ Lost = logged - delivered - Cardinality(LineEnds(Contents, Used))
      /\ Lost' = logged' - delivered' - Cardinality(LineEnds(Contents', Used'))
      /\ DropCount(MakeRoom(len)) = Cardinality(LineEnds(Contents, k))
  BY <1>2, EndsAre
<1>8. /\ Lost \in Int /\ Lost' = Lost + DropCount(MakeRoom(len))
      /\ DropCount(MakeRoom(len)) \in Nat
  BY <1>1, <1>5, <1>6, <1>7
<1> QED  BY <1>3, <1>4, <1>5, <1>8

LEMMA QuietKeeps ==
  ASSUME LogInv, UNCHANGED <<ring, logged, delivered, told, sent>>
  PROVE  RingOK' /\ AllInOrder' /\ LossesAreCounted' /\ Used' = Used
<1>1. RingOK
  <2>1. DOMAIN s_ring = 0 .. RingSize - 1
    BY DEF LogInv, StorageOK
  <2> QED  BY <2>1 DEF LogInv, TypeOK, StorageOK, RingOK
<1>2. RingOK'
  BY <1>1 DEF RingOK, ring
<1>3. Used' = Used /\ Contents' = Contents
  BY DEF Used, Contents, ring
<1>4. AllInOrder'
  BY <1>3 DEF LogInv, AllInOrder
<1>5. LossesAreCounted'
  BY <1>3 DEF LogInv, LossesAreCounted, Lost, Ends, ring
<1> QED  BY <1>2, <1>3, <1>4, <1>5

(* A chunk is not longer than what the ring holds.                         *)
LEMMA PeekIs ==
  ASSUME NEW used \in 1 .. RingSize, NEW tail \in 0 .. RingSize - 1
  PROVE  Peek(used, tail) \in 1 .. ChunkMax /\ Peek(used, tail) =< used
<1> DEFINE T == {used, RingSize - tail, ChunkMax}
<1>1. RingSize \in Nat /\ T \subseteq 1 .. RingSize
  BY SizeIs
<1>2. T \subseteq 0 .. RingSize
  BY <1>1
<1>3. Min(T) \in T /\ \A k \in T : Min(T) =< k
  <2>1. T # {}
    OBVIOUS
  <2> HIDE DEF T
  <2> QED  BY <1>1, <1>2, <2>1, LeastExists
<1>4. Peek(used, tail) = Min(T)
  BY Zenon DEF Peek
<1>5. Min(T) \in 1 .. RingSize /\ Min(T) =< used /\ Min(T) =< ChunkMax
  BY <1>1, <1>3
<1> QED  BY <1>4, <1>5, SizeIs

(* What log_consume does.                                                  *)
LEMMA ConsumeDoes ==
  ASSUME LogInv, SendReturns
  PROVE  /\ RingOK' /\ Used' = Used - sending /\ sending \in 1 .. Used
         /\ \A i \in 1 .. Used - sending : Contents'[i] = Contents[sending + i]
<1>1. /\ s_head \in 0 .. RingSize - 1 /\ s_tail \in 0 .. RingSize - 1
      /\ Used \in 0 .. RingSize /\ s_head = Wrap(s_tail + Used)
      /\ \A i \in 1 .. Used : Contents[i] = s_ring[Wrap(s_tail + i - 1)]
  BY RingIs DEF LogInv
<1>2. sending \in 1 .. Used
  BY <1>1, SizeIs DEF LogInv, TypeOK, StorageOK, SendReturns
<1>3. PICK n \in 1 .. Used : n = sending
  BY <1>2
<1>4. /\ s_head' = s_head /\ s_ring' = s_ring /\ s_full' = FALSE
      /\ s_tail' = Wrap(s_tail + n)
  <2>1. s_full' = (s_full /\ sending = 0) /\ s_ring' = s_ring /\ s_head' = s_head /\ s_tail' = Wrap(s_tail + sending)
    BY DEF SendReturns, FullAfterConsume
  <2>2. sending # 0
    BY <1>2
  <2>3. s_full' = FALSE
    BY <2>1, <2>2, Zenon
  <2> QED  BY <1>3, <2>1, <2>3
<1>5. PICK start \in 0 .. RingSize - 1 :
        start = s_tail' /\ (start = s_tail + n \/ start = s_tail + n - RingSize)
  <2>1. s_tail + n \in 0 .. 2 * RingSize - 1
    BY <1>1, SizeIs
  <2>2. /\ Wrap(s_tail + n) \in 0 .. RingSize - 1
        /\ Wrap(s_tail + n) = s_tail + n \/ Wrap(s_tail + n) = s_tail + n - RingSize
    BY <1>1, <2>1, WrapIs, SizeIs
  <2> QED  BY <1>4, <2>2
<1>6. s_head = s_tail + Used \/ s_head = s_tail + Used - RingSize
  <2>1. s_tail + Used \in 0 .. 2 * RingSize - 1
    BY <1>1, SizeIs
  <2> QED  BY <1>1, <2>1, WrapIs, SizeIs
<1>7. UsedBy(s_head', s_tail', s_full') = Used - n
  BY <1>1, <1>4, <1>5, <1>6, SizeIs DEF UsedBy
<1>8. Used' = Used - n /\ \A i \in 1 .. Used - n : Contents'[i] = s_ring'[Wrap(s_tail' + i - 1)]
  <2>1. PICK m \in 0 .. RingSize : m = Used - n
    BY <1>1, SizeIs
  <2> QED  BY <1>7, <2>1, RingNext
<1>9. ASSUME NEW i \in 1 .. Used - n  PROVE Contents'[i] = Contents[n + i]
  <2>1. n + i \in 1 .. Used
    BY <1>1, SizeIs
  <2>2. start + i - 1 \in 0 .. 2 * RingSize - 1 /\ s_tail + (n + i) - 1 \in 0 .. 2 * RingSize - 1
    BY <1>1, SizeIs
  <2>3. \/ start + i - 1 = s_tail + (n + i) - 1
        \/ start + i - 1 = s_tail + (n + i) - 1 + RingSize
        \/ s_tail + (n + i) - 1 = start + i - 1 + RingSize
    <3>1. CASE start = s_tail + n
      BY <1>1, <3>1, SizeIs
    <3>2. CASE start = s_tail + n - RingSize
      BY <1>1, <3>2, SizeIs
    <3> QED  BY <1>5, <3>1, <3>2
  <2>4. Wrap(start + i - 1) = Wrap(s_tail + (n + i) - 1)
    BY <2>2, <2>3, WrapSame
  <2>5. Contents[n + i] = s_ring[Wrap(s_tail + (n + i) - 1)]
    BY <1>1, <2>1
  <2> QED  BY <1>4, <1>5, <1>8, <2>4, <2>5
<1>10. RingOK'
  <2>1. s_ring \in [0 .. RingSize - 1 -> Units]
    BY DEF LogInv, StorageOK
  <2> QED  BY <1>1, <1>4, <1>5, <2>1 DEF RingOK
<1> QED  BY <1>2, <1>3, <1>8, <1>9, <1>10

LEMMA ConsumeKeeps ==
  ASSUME LogInv, SendReturns
  PROVE  /\ RingOK' /\ AllInOrder' /\ LossesAreCounted'
         /\ sent' \in Units /\ delivered' \in Nat
<1>1. Used \in Nat /\ \A i \in 1 .. Used : Contents[i] \in Units
  BY RingIs, SizeIs DEF LogInv
<1>2. PICK n \in 1 .. Used : n = sending
  BY ConsumeDoes
<1>3. /\ RingOK' /\ Used' = Used - n
      /\ \A i \in 1 .. Used - n : Contents'[i] = Contents[n + i]
  BY <1>2, ConsumeDoes
<1>4. /\ sent' = Contents[n] /\ delivered' = delivered + Cardinality(Ends(n))
      /\ logged' = logged /\ told' = told /\ s_dropped_lines' = s_dropped_lines
  BY <1>2 DEF SendReturns
<1>5. /\ logged \in Nat /\ delivered \in Nat
      /\ \A i \in 1 .. Used : /\ Contents[i].line <= logged
                              /\ \A j \in 1 .. i - 1 : Before(Contents[j], Contents[i])
      /\ Used > 0 => Contents[Used].last
  BY ConstantsAssumption DEF LogInv, AllInOrder, TypeOK, StorageOK, Lines
<1>6. AllInOrder'
  <2>1. sent'.line <= logged'
    BY <1>4, <1>5
  <2>2. ASSUME NEW i \in 1 .. Used'
        PROVE  /\ Contents'[i].line <= logged'
               /\ Before(sent', Contents'[i])
               /\ \A j \in 1 .. i - 1 : Before(Contents'[j], Contents'[i])
    <3>1. n + i \in 1 .. Used /\ n \in 1 .. (n + i) - 1 /\ Contents'[i] = Contents[n + i]
      BY <1>1, <1>3
    <3>2. Contents'[i].line <= logged' /\ Before(sent', Contents'[i])
      BY <1>4, <1>5, <3>1
    <3>3. ASSUME NEW j \in 1 .. i - 1  PROVE Before(Contents'[j], Contents'[i])
      <4>1. n + j \in 1 .. (n + i) - 1 /\ j \in 1 .. Used - n
        BY <1>1, <1>3
      <4>2. Contents'[j] = Contents[n + j]
        BY <1>3, <4>1
      <4> QED  BY <1>5, <3>1, <4>1, <4>2
    <3> QED  BY <3>2, <3>3
  <2>3. ASSUME Used' > 0  PROVE Contents'[Used'].last
    <3>1. Used - n \in 1 .. Used - n /\ n + (Used - n) = Used /\ Used > 0
      BY <1>1, <1>3, <2>3
    <3>2. Contents'[Used'] = Contents[Used]
      BY <1>3, <3>1
    <3> QED  BY <1>5, <3>1, <3>2
  <2> QED  BY <2>1, <2>2, <2>3 DEF AllInOrder
<1>7. Cardinality(LineEnds(Contents', Used - n))
        = Cardinality(LineEnds(Contents, Used)) - Cardinality(LineEnds(Contents, n))
  <2>1. PICK new : new = Contents'
    OBVIOUS
  <2>2. PICK old : old = Contents
    OBVIOUS
  <2>3. PICK used \in Nat : used = Used /\ n \in 0 .. used
    BY <1>1
  <2>4. \A i \in 1 .. used - n : new[i] = old[n + i]
    BY <1>3, <2>1, <2>2, <2>3
  <2>5. Cardinality(LineEnds(new, used - n)) = Cardinality(LineEnds(old, used)) - Cardinality(LineEnds(old, n))
    BY <2>3, <2>4, EndsShift, Zenon
  <2> QED  BY <2>1, <2>2, <2>3, <2>5
<1>8. Cardinality(LineEnds(Contents, Used)) \in Nat /\ Cardinality(LineEnds(Contents, n)) \in Nat
  BY <1>1, EndsFinite
<1>9. delivered' = delivered + Cardinality(LineEnds(Contents, n)) /\ delivered' \in Nat
  BY <1>4, <1>5, <1>8, EndsAre
<1>10. LossesAreCounted'
  <2>1. /\ Lost = logged - delivered - Cardinality(LineEnds(Contents, Used))
        /\ Lost' = logged' - delivered' - Cardinality(LineEnds(Contents', Used'))
    BY EndsAre
  <2>2. Lost' = Lost
    BY <1>3, <1>4, <1>5, <1>7, <1>8, <1>9, <2>1
  <2> QED  BY <1>4, <2>2 DEF LogInv, LossesAreCounted
<1>11. sent' \in Units
  BY <1>1, <1>4
<1> QED  BY <1>3, <1>6, <1>9, <1>10, <1>11

-----------------------------------------------------------------------------
(* Every step *)

LEMMA InvParts ==
  ASSUME RingOK', AllInOrder', LossesAreCounted', LinesBounded',
         {s_listen_open', s_have_client', unacked'} \subseteq BOOLEAN,
         socket' \in {"closed", "listen", "established", "close_wait"},
         sending' \in 0 .. ChunkMax, sending' <= Used',
         s_dropped_lines' \in Nat, logged' \in Lines \union {0},
         sent' \in Units, delivered' \in Nat, told' \in Int
  PROVE  LogInv'
<1>1. DOMAIN s_ring' = 0 .. RingSize - 1
  BY DEF RingOK
<1>2. TypeOK'
  BY <1>1 DEF TypeOK, RingOK
<1>3. StorageOK'
  BY DEF StorageOK, RingOK
<1> QED  BY <1>2, <1>3 DEF LogInv

(* A line is written while log_tick is not in send().                      *)
LEMMA WriteInv ==
  ASSUME LogInv, LinesBounded', NEW len \in Lengths, WriteLine(len),
         s_dropped_lines' = Dropped(len), UNCHANGED history,
         sending = 0, sending' = 0, logged + 1 <= MaxLines + MaxClients,
         {s_listen_open', s_have_client', unacked'} \subseteq BOOLEAN,
         socket' \in {"closed", "listen", "established", "close_wait"}
  PROVE  LogInv'
<1>1. /\ RingOK' /\ AllInOrder' /\ logged' = logged + 1 /\ Used' \in 1 .. RingSize
      /\ Lost \in Int /\ Lost' = Lost + DropCount(MakeRoom(len))
      /\ DropCount(MakeRoom(len)) \in Nat
  BY WriteKeeps DEF history
<1>2. /\ s_dropped_lines \in Nat /\ told \in Int /\ logged \in Nat
      /\ s_dropped_lines = Lost - told
      /\ sent' \in Units /\ delivered' \in Nat /\ told' = told
  BY ConstantsAssumption DEF LogInv, TypeOK, StorageOK, LossesAreCounted, Lines, history
<1>3. LossesAreCounted' /\ s_dropped_lines' \in Nat
  BY <1>1, <1>2 DEF LossesAreCounted, Dropped
<1>4. logged' \in Lines
  BY <1>1, <1>2, ConstantsAssumption DEF Lines
<1>5. sending' \in 0 .. ChunkMax /\ sending' <= Used'
  BY <1>1, SizeIs
<1> QED  BY <1>1, <1>2, <1>3, <1>4, <1>5, InvParts

(* Nothing is written, and nothing is taken.                               *)
LEMMA QuietInv ==
  ASSUME LogInv, LinesBounded', UNCHANGED <<ring, logged, history>>,
         sending' \in 0 .. ChunkMax, sending' <= Used,
         {s_listen_open', s_have_client', unacked'} \subseteq BOOLEAN,
         socket' \in {"closed", "listen", "established", "close_wait"}
  PROVE  LogInv'
<1>1. RingOK' /\ AllInOrder' /\ LossesAreCounted' /\ Used' = Used
  BY QuietKeeps DEF history
<1>2. /\ s_dropped_lines' \in Nat /\ logged' \in Lines \union {0}
      /\ sent' \in Units /\ delivered' \in Nat /\ told' \in Int
  BY DEF LogInv, TypeOK, StorageOK, ring, history
<1> QED  BY <1>1, <1>2, InvParts

LEMMA Known ==
  ASSUME LogInv
  PROVE  /\ s_listen_open \in BOOLEAN /\ s_have_client \in BOOLEAN /\ unacked \in BOOLEAN
         /\ socket \in {"closed", "listen", "established", "close_wait"}
         /\ sending \in 0 .. ChunkMax /\ sending <= Used
         /\ clients \in Nat /\ logged \in Nat /\ Greeting \in {0, 1}
         /\ clients + Greeting <= MaxClients
         /\ logged + clients + Greeting <= MaxLines + MaxClients
         /\ MaxLines \in Nat /\ MaxClients \in Nat
BY ConstantsAssumption DEF LogInv, TypeOK, StorageOK, LinesBounded, Greeting, Lines

LEMMA LogKeeps ==
  ASSUME LogInv, NEW len \in Lengths, Log(len)
  PROVE  LogInv'
<1>1. /\ sending = 0 /\ logged < MaxLines /\ WriteLine(len) /\ s_dropped_lines' = Dropped(len)
      /\ UNCHANGED <<s_listen_open, s_have_client, socket, unacked, sending, history, clients>>
  BY DEF Log
<1>2. Greeting' = Greeting /\ logged' = logged + 1
  BY <1>1 DEF Greeting, WriteLine
<1>3. LinesBounded' /\ logged + 1 <= MaxLines + MaxClients
  BY <1>1, <1>2, Known DEF LinesBounded
<1> QED  BY <1>1, <1>3, Known, WriteInv

LEMMA NetworkKeeps ==
  ASSUME LogInv, Connect \/ Acknowledge \/ Disconnect
  PROVE  LogInv'
<1>1. /\ UNCHANGED <<ring, logged, history>> /\ sending' = sending
      /\ s_listen_open' = s_listen_open /\ s_have_client' = s_have_client
  BY DEF Connect, Acknowledge, Disconnect
<1>2. CASE Connect
  <2>1. /\ clients > 0 /\ clients' = clients - 1 /\ socket' = "established" /\ unacked' = FALSE
        /\ Greeting = 0 /\ logged' = logged
    BY <1>2 DEF Connect, Greeting
  <2>2. Greeting' \in {0, 1}
    BY DEF Greeting
  <2>3. LinesBounded'
    BY <2>1, <2>2, Known DEF LinesBounded
  <2> QED  BY <1>1, <2>1, <2>3, Known, QuietInv
<1>3. CASE Acknowledge
  <2>1. clients' = clients /\ socket' = socket /\ unacked' = FALSE /\ logged' = logged
    BY <1>3 DEF Acknowledge
  <2>2. Greeting' = Greeting
    BY <1>1, <2>1 DEF Greeting
  <2>3. LinesBounded'
    BY <2>1, <2>2, Known DEF LinesBounded
  <2> QED  BY <1>1, <2>1, <2>3, Known, QuietInv
<1>4. CASE Disconnect
  <2>1. /\ clients' = clients /\ socket' \in {"close_wait", "closed"} /\ unacked' = unacked
        /\ logged' = logged
    BY <1>4 DEF Disconnect
  <2>2. Greeting' = 0
    BY <2>1 DEF Greeting
  <2>3. LinesBounded'
    BY <2>1, <2>2, Known DEF LinesBounded
  <2> QED  BY <1>1, <2>1, <2>3, Known, QuietInv
<1> QED  BY <1>2, <1>3, <1>4

(* The listener is opened, or it fails and says so.                        *)
LEMMA OpenKeeps ==
  ASSUME LogInv, OpenListener \/ ReopenListener
  PROVE  LogInv'
<1>1. /\ sending = 0 /\ s_have_client' = FALSE /\ (Opens \/ OpenFails)
      /\ UNCHANGED <<unacked, sending, history, clients>>
  BY DEF OpenListener, ReopenListener, AtTick
<1>2. CASE Opens
  <2>1. s_listen_open' = TRUE /\ socket' = "listen" /\ UNCHANGED <<ring, logged, history>>
    BY <1>1, <1>2 DEF Opens
  <2>2. Greeting' = 0
    BY <2>1 DEF Greeting
  <2>3. LinesBounded'
    BY <1>1, <2>1, <2>2, Known DEF LinesBounded
  <2> QED  BY <1>1, <2>1, <2>3, Known, QuietInv
<1>3. CASE OpenFails
  <2>1. s_listen_open' = FALSE /\ socket' = "closed" /\ logged < MaxLines
    BY <1>3 DEF OpenFails, ListenOpenAfterFailure
  <2>2. PICK len \in Lengths : WriteLine(len) /\ s_dropped_lines' = Dropped(len)
    BY <1>3 DEF OpenFails
  <2>3. Greeting' = 0 /\ logged' = logged + 1
    BY <2>1, <2>2 DEF Greeting, WriteLine
  <2>4. LinesBounded' /\ logged + 1 <= MaxLines + MaxClients
    BY <1>1, <2>1, <2>3, Known DEF LinesBounded
  <2> QED  BY <1>1, <2>1, <2>2, <2>4, Known, WriteInv
<1> QED  BY <1>1, <1>2, <1>3

LEMMA GreetKeeps ==
  ASSUME LogInv, Greet
  PROVE  LogInv'
<1>1. /\ sending = 0 /\ s_listen_open /\ socket = "established" /\ ~s_have_client
      /\ s_have_client' = TRUE
      /\ UNCHANGED <<s_listen_open, socket, unacked, delivered, sent, clients>>
      /\ told' = IF s_dropped_lines > 0 THEN Lost' ELSE told
      /\ sending' = Peek(Used', s_tail')
  BY DEF Greet, AtTick, Peek
<1>2. PICK len \in Lengths :
        /\ WriteLine(len)
        /\ s_dropped_lines' = IF s_dropped_lines > 0 THEN 0 ELSE Dropped(len)
  BY DEF Greet
<1>3. /\ RingOK' /\ AllInOrder' /\ logged' = logged + 1 /\ Used' \in 1 .. RingSize
      /\ Lost \in Int /\ Lost' = Lost + DropCount(MakeRoom(len))
      /\ DropCount(MakeRoom(len)) \in Nat
  BY <1>1, <1>2, WriteKeeps
<1>4. /\ s_dropped_lines \in Nat /\ told \in Int /\ s_dropped_lines = Lost - told
      /\ sent' \in Units /\ delivered' \in Nat
  BY <1>1 DEF LogInv, TypeOK, StorageOK, LossesAreCounted
<1>5. Greeting = 1 /\ Greeting' = 0
  BY <1>1 DEF Greeting
<1>6. LinesBounded' /\ logged' \in Lines
  BY <1>1, <1>3, <1>5, Known DEF LinesBounded, Lines
<1>7. LossesAreCounted' /\ s_dropped_lines' \in Nat /\ told' \in Int
  <2>1. CASE s_dropped_lines > 0
    <3>1. told' = Lost' /\ s_dropped_lines' = 0 /\ Lost' \in Int
      BY <1>1, <1>2, <1>3, <2>1
    <3>2. PICK lost \in Int : lost = Lost'
      BY <3>1
    <3>3. 0 = lost - lost
      OBVIOUS
    <3>4. s_dropped_lines' = Lost' - told'
      BY <3>1, <3>2, <3>3
    <3>5. s_dropped_lines' \in Nat /\ told' \in Int
      BY <3>1
    <3> QED  BY <3>4, <3>5 DEF LossesAreCounted
  <2>2. CASE ~(s_dropped_lines > 0)
    <3>1. told' = told /\ s_dropped_lines' = s_dropped_lines + DropCount(MakeRoom(len))
      BY <1>1, <1>2, <2>2 DEF Dropped
    <3> QED  BY <1>3, <1>4, <3>1 DEF LossesAreCounted
  <2> QED  BY <2>1, <2>2
<1>8. sending' \in 0 .. ChunkMax /\ sending' <= Used'
  <2>1. PICK tail \in 0 .. RingSize - 1 : tail = s_tail'
    BY <1>3 DEF RingOK
  <2>2. PICK used \in 1 .. RingSize : used = Used'
    BY <1>3
  <2>3. Peek(used, tail) \in 1 .. ChunkMax /\ Peek(used, tail) =< used
    BY PeekIs
  <2> QED  BY <1>1, <2>1, <2>2, <2>3, SizeIs
<1> QED  BY <1>1, <1>3, <1>4, <1>6, <1>7, <1>8, Known, InvParts

LEMMA SendChunkKeeps ==
  ASSUME LogInv, SendChunk
  PROVE  LogInv'
<1>1. /\ Used > 0 /\ sending' = Peek(Used, s_tail)
      /\ UNCHANGED <<ring, s_listen_open, s_have_client, socket, unacked, logged, history, clients>>
  BY DEF SendChunk
<1>2. PICK used \in 1 .. RingSize : used = Used
  BY <1>1, RingIs, SizeIs DEF LogInv
<1>3. Peek(used, s_tail) \in 1 .. ChunkMax /\ Peek(used, s_tail) =< used
  BY RingIs, PeekIs DEF LogInv
<1>4. sending' \in 0 .. ChunkMax /\ sending' <= Used
  BY <1>1, <1>2, <1>3, SizeIs
<1>5. Greeting' = Greeting
  BY <1>1 DEF Greeting
<1>6. LinesBounded'
  BY <1>1, <1>5, Known DEF LinesBounded
<1> QED  BY <1>1, <1>4, <1>6, Known, QuietInv

LEMMA SendReturnsKeeps ==
  ASSUME LogInv, SendReturns
  PROVE  LogInv'
<1>1. /\ sending' = 0 /\ unacked' = TRUE
      /\ UNCHANGED <<s_dropped_lines, s_listen_open, s_have_client, socket, logged, told, clients>>
  BY DEF SendReturns
<1>2. /\ RingOK' /\ AllInOrder' /\ LossesAreCounted' /\ sent' \in Units /\ delivered' \in Nat
  BY ConsumeKeeps
<1>3. sending' \in 0 .. ChunkMax /\ sending' <= Used'
  <2>1. Used' = Used - sending /\ sending \in 1 .. Used /\ Used \in Nat
    BY ConsumeDoes, RingIs, SizeIs DEF LogInv
  <2> QED  BY <1>1, <2>1, SizeIs
<1>4. Greeting' = Greeting
  BY <1>1 DEF Greeting
<1>5. LinesBounded'
  BY <1>1, <1>4, Known DEF LinesBounded
<1>6. s_dropped_lines' \in Nat /\ logged' \in Lines \union {0} /\ told' \in Int
  BY <1>1 DEF LogInv, TypeOK, StorageOK
<1> QED  BY <1>1, <1>2, <1>3, <1>5, <1>6, Known, InvParts

LEMMA SendFailsKeeps ==
  ASSUME LogInv, SendFails
  PROVE  LogInv'
<1>1. /\ socket = "closed" /\ sending' = 0 /\ s_have_client' = FALSE /\ s_listen_open' = FALSE
      /\ UNCHANGED <<ring, socket, unacked, logged, history, clients>>
  BY DEF SendFails
<1>2. Greeting' = 0
  BY <1>1 DEF Greeting
<1>3. LinesBounded'
  BY <1>1, <1>2, Known DEF LinesBounded
<1>4. sending' \in 0 .. ChunkMax /\ sending' <= Used
  <2>1. Used \in Nat
    BY RingIs, SizeIs DEF LogInv
  <2> QED  BY <1>1, <2>1, SizeIs
<1> QED  BY <1>1, <1>3, <1>4, Known, QuietInv

LEMMA NextLogInv ==
  ASSUME LogInv, [Next]_vars
  PROVE  LogInv'
<1>1. CASE UNCHANGED vars
  <2>1. UNCHANGED <<ring, logged, delivered, told, sent>>
    BY <1>1 DEF vars, history
  <2>2. Greeting' = Greeting
    BY <1>1 DEF Greeting, vars
  <2>3. LinesBounded'
    BY <1>1, <2>2, Known DEF LinesBounded, vars
  <2>4. /\ UNCHANGED <<ring, logged, history>> /\ sending' = sending
        /\ s_listen_open' = s_listen_open /\ s_have_client' = s_have_client /\ unacked' = unacked
        /\ socket' = socket
    BY <1>1 DEF vars
  <2> QED  BY <2>3, <2>4, Known, QuietInv
<1>2. CASE LogTick
  BY <1>2, OpenKeeps, GreetKeeps, SendChunkKeeps, SendReturnsKeeps, SendFailsKeeps DEF LogTick
<1>3. CASE NothingToDo
  BY <1>1, <1>3 DEF NothingToDo
<1>4. CASE Connect \/ Acknowledge \/ Disconnect
  BY <1>4, NetworkKeeps
<1>5. CASE \E len \in Lengths : Log(len)
  BY <1>5, LogKeeps
<1> QED  BY <1>1, <1>2, <1>3, <1>4, <1>5 DEF Next

LEMMA InitLogInv == Init => LogInv
<1> SUFFICES ASSUME Init PROVE LogInv
  OBVIOUS
<1>1. RingSize \in Nat \ {0} /\ ChunkMax \in 1 .. RingSize /\ MaxLines \in Nat /\ MaxClients \in Nat
  BY ConstantsAssumption
<1>2. NoUnit \in Units
  BY DEF NoUnit, Units
<1>3. s_ring = [i \in 0 .. RingSize - 1 |-> NoUnit]
  BY DEF Init
<1>4. s_ring \in [0 .. RingSize - 1 -> Units] /\ DOMAIN s_ring = 0 .. RingSize - 1
  BY <1>2, <1>3
<1>5. 0 \in 0 .. RingSize - 1
  BY <1>1
<1>6. TypeOK
  <2>1. /\ s_head = 0 /\ s_tail = 0 /\ s_full = FALSE /\ s_dropped_lines = 0
        /\ s_listen_open = FALSE /\ s_have_client = FALSE
        /\ socket = "closed" /\ unacked = FALSE /\ sending = 0 /\ logged = 0
    BY DEF Init
  <2>2. s_head \in DOMAIN s_ring /\ s_tail \in DOMAIN s_ring /\ sending \in 0 .. ChunkMax
    BY <1>1, <1>4, <1>5, <2>1
  <2> QED  BY <2>1, <2>2 DEF TypeOK
<1>7. Used = 0
  BY DEF Init, Used
<1>8. StorageOK
  BY <1>1, <1>2, <1>4, <1>7 DEF Init, StorageOK
<1>9. LinesBounded
  <2>1. Greeting = 0
    BY DEF Init, Greeting
  <2> QED  BY <1>1, <2>1 DEF Init, LinesBounded
<1>10. AllInOrder
  BY <1>7 DEF Init, AllInOrder, NoUnit
<1>11. LossesAreCounted
  <2>1. Ends(Used) = {}
    BY <1>7 DEF Ends
  <2>2. Cardinality(Ends(Used)) = 0
    BY <2>1, FS_EmptySet
  <2>3. Lost = 0
    BY <2>2 DEF Init, Lost
  <2> QED  BY <2>3 DEF Init, LossesAreCounted
<1> QED  BY <1>6, <1>8, <1>9, <1>10, <1>11 DEF LogInv

-----------------------------------------------------------------------------
(* Results *)

(* app/log: the invariant above holds in every state.                      *)
THEOREM LogCorrect == Spec => []LogInv
  BY InitLogInv, NextLogInv, PTL DEF Spec

LEMMA LogInvImpliesRingInv == LogInv => RingInv
<1> SUFFICES ASSUME LogInv PROVE RingInv
  OBVIOUS
<1>1. Used \in Nat
  BY RingIs, SizeIs DEF LogInv
<1>2. ASSUME NEW i \in 1 .. Used
      PROVE  Before(IF i = 1 THEN sent ELSE Contents[i - 1], Contents[i])
  <2>1. CASE i = 1
    BY <1>1, <2>1 DEF LogInv, AllInOrder
  <2>2. CASE i # 1
    <3>1. i - 1 \in 1 .. i - 1
      BY <1>1, <2>2
    <3>2. Before(Contents[i - 1], Contents[i])
      BY <3>1 DEF LogInv, AllInOrder
    <3> QED  BY <2>2, <3>2
  <2> QED  BY <2>1, <2>2
<1> QED  BY <1>2 DEF LogInv, RingInv, ContentsInOrder

(* The ring of app/log loses nothing it does not count, and holds what is  *)
(* still to be sent in the order it was logged (ring_write, log_consume).  *)
THEOREM RingIsSound == Spec => []RingInv
  BY LogCorrect, LogInvImpliesRingInv, PTL

=============================================================================
