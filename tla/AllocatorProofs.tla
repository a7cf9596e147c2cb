-------------------------- MODULE AllocatorProofs --------------------------
(***************************************************************************)
(* Proofs about Allocator, for every size of the pool and of the bitmap    *)
(* words, every number of allocating threads and every way of freeing.     *)
(***************************************************************************)
EXTENDS Allocator, FiniteSetTheorems, WellFoundedInduction, TLAPS

USE PyramidAssumption, AllocatorAssumption

(* A pool whose summary levels and free count say what its lowest level    *)
(* says.                                                                   *)
PoolType == [l2 : SUBSET AllBlocks, l1 : SUBSET Nat, l0 : SUBSET Nat, freeCount : Nat]

PoolOK(p) ==
  /\ p \in PoolType
  /\ p.l1 = Words(p.l2) /\ p.l0 = Words(p.l1)
  /\ p.freeCount = Cardinality(p.l2)

-----------------------------------------------------------------------------
(* Min of a set of numbers is one of them.                                 *)
LEMMA MinIsIn ==
  ASSUME NEW S \in SUBSET Nat, S # {}
  PROVE  Min(S) \in S /\ \A y \in S : Min(S) <= y
<1>1. PICK x \in S : \A y \in S : ~ (<<y, x>> \in OpToRel(<, Nat))
  BY NatLessThanWellFounded, WFMin, ZenonT(60)
<1>2. \A y, z \in Nat : y < z => <<y, z>> \in OpToRel(<, Nat)
  BY ZenonT(60) DEF OpToRel
<1>3. \A y \in S : ~ (y < x)
  BY <1>1, <1>2, ZenonT(60)
<1>4. \A y \in S : x <= y
  BY <1>3, SMTT(60)
<1> QED
  BY <1>4, ZenonT(60) DEF Min

LEMMA BlocksFinite ==
  /\ AllBlocks \subseteq Nat /\ IsFiniteSet(AllBlocks)
  /\ \A S \in SUBSET AllBlocks : IsFiniteSet(S) /\ Cardinality(S) \in Nat
<1>1. AllBlocks \subseteq Nat /\ IsFiniteSet(AllBlocks)
  BY FS_Interval, SMTT(60) DEF AllBlocks
<1> QED
  BY <1>1, FS_Subset, FS_CardinalityType, ZenonT(60)

LEMMA WordTyped == \A i \in Nat : Word(i) \in Nat
  BY SMTT(60) DEF Word

LEMMA WordsTyped == \A S \in SUBSET Nat : Words(S) \in SUBSET Nat
  BY WordTyped, ZenonT(30) DEF Words

(* Taking a subset away takes its number off the count.                    *)
LEMMA CountLess ==
  ASSUME NEW A \in SUBSET AllBlocks, NEW S \in SUBSET A
  PROVE  Cardinality(A \ S) = Cardinality(A) - Cardinality(S)
<1>1. /\ IsFiniteSet(A) /\ IsFiniteSet(S) /\ IsFiniteSet(A \ S)
      /\ Cardinality(A) \in Nat /\ Cardinality(S) \in Nat /\ Cardinality(A \ S) \in Nat
  BY BlocksFinite, ZenonT(30)
<1>2. A = (A \ S) \cup S /\ (A \ S) \cap S = {}
  BY ZenonT(30)
<1>3. Cardinality(A) = Cardinality(A \ S) + Cardinality(S) - 0
  BY <1>1, <1>2, FS_Union, FS_EmptySet, ZenonT(30)
<1> QED
  BY <1>1, <1>3, SMTT(60)

LEMMA CountMore ==
  ASSUME NEW A \in SUBSET AllBlocks, NEW S \in SUBSET AllBlocks, A \cap S = {}
  PROVE  Cardinality(A \cup S) = Cardinality(A) + Cardinality(S)
<1>1. /\ IsFiniteSet(A) /\ IsFiniteSet(S)
      /\ Cardinality(A) \in Nat /\ Cardinality(S) \in Nat
  BY BlocksFinite, ZenonT(30)
<1>2. Cardinality(A \cup S) = Cardinality(A) + Cardinality(S) - 0
  BY <1>1, FS_Union, FS_EmptySet, ZenonT(30)
<1> QED
  BY <1>1, <1>2, SMTT(60)

(* One level up: clearing the bits of the words that became zero, and      *)
(* setting those of the words that were zero, keeps a level a summary.     *)
LEMMA SummaryOfFewer ==
  ASSUME NEW L, NEW S
  PROVE  Words(L) \ {w \in Words(S) : In(L \ S, w) = {}} = Words(L \ S)
  BY ZenonT(30) DEF Words, In

LEMMA SummaryOfMore ==
  ASSUME NEW L, NEW S
  PROVE  Words(L) \cup {w \in Words(S) : In(L, w) = {}} = Words(L \cup S)
  BY ZenonT(30) DEF Words, In

-----------------------------------------------------------------------------
(* ClearBits takes exactly the given free blocks out of a sound pool and   *)
(* leaves it sound.                                                        *)
LEMMA ClearBitsOK ==
  ASSUME NEW p, PoolOK(p), NEW S \in SUBSET p.l2
  PROVE  PoolOK(ClearBits(p, S)) /\ ClearBits(p, S).l2 = p.l2 \ S
<1> DEFINE n2 == p.l2 \ S
           z2 == {w \in Words(S) : In(n2, w) = {}}
           n1 == p.l1 \ z2
           z1 == {w \in Words(z2) : In(n1, w) = {}}
           q  == [l2 |-> n2, l1 |-> n1, l0 |-> p.l0 \ z1,
                  freeCount |-> p.freeCount - Cardinality(S)]
<1>1. ClearBits(p, S) = q
  BY ZenonT(30) DEF ClearBits
<1>2. /\ p.l2 \in SUBSET AllBlocks /\ p.l1 \in SUBSET Nat /\ p.l0 \in SUBSET Nat
      /\ p.l1 = Words(p.l2) /\ p.l0 = Words(p.l1)
      /\ p.freeCount = Cardinality(p.l2)
  BY ZenonT(30) DEF PoolOK, PoolType
<1>3. n1 = Words(n2)
  BY <1>2, SummaryOfFewer, ZenonT(60)
<1>4. p.l0 \ z1 = Words(n1)
  BY <1>2, SummaryOfFewer, ZenonT(60)
<1>5. p.freeCount - Cardinality(S) = Cardinality(n2)
  BY <1>2, CountLess, ZenonT(30)
<1>6. Cardinality(n2) \in Nat
  BY <1>2, BlocksFinite, ZenonT(30)
<1> HIDE DEF n2, z2, n1, z1
<1>7. n2 \in SUBSET AllBlocks /\ n1 \in SUBSET Nat /\ p.l0 \ z1 \in SUBSET Nat
  BY <1>2, ZenonT(30) DEF n2, n1
<1>8. PoolOK(q)
  BY <1>3, <1>4, <1>5, <1>6, <1>7, ZenonT(30) DEF PoolOK, PoolType
<1> QED
  BY <1>1, <1>8, SMTT(60) DEF n2

LEMMA reserveBlockZeroOK ==
  ASSUME NEW p, PoolOK(p)
  PROVE  PoolOK(reserveBlockZero(p)) /\ reserveBlockZero(p).l2 = p.l2 \ {0}
  BY ClearBitsOK, ZenonT(30) DEF reserveBlockZero, AllocMarkAllocated

(* SetBits adds the blocks of a run that the pool tracks.                  *)
SetRun(p, run) == SetBits(p, run \cap AllBlocks)

LEMMA SetRunOK ==
  ASSUME NEW p, PoolOK(p), NEW run
  PROVE  /\ PoolOK(SetRun(p, run))
         /\ SetRun(p, run).l2 = p.l2 \cup (run \cap AllBlocks)
<1> DEFINE new   == (run \cap AllBlocks) \ p.l2
           fresh == {w \in Words(new) : In(p.l2, w) = {}}
           top   == {Word(w) : w \in {v \in fresh : In(p.l1, Word(v)) = {}}}
           q     == [l2 |-> p.l2 \cup new, l1 |-> p.l1 \cup fresh, l0 |-> p.l0 \cup top,
                     freeCount |-> p.freeCount + Cardinality(new)]
<1>1. SetRun(p, run) = q
  BY ZenonT(30) DEF SetRun, SetBits
<1>2. /\ p.l2 \in SUBSET AllBlocks /\ p.l1 \in SUBSET Nat /\ p.l0 \in SUBSET Nat
      /\ p.l1 = Words(p.l2) /\ p.l0 = Words(p.l1)
      /\ p.freeCount = Cardinality(p.l2)
  BY ZenonT(30) DEF PoolOK, PoolType
<1>3. p.l1 \cup fresh = Words(p.l2 \cup new)
  BY <1>2, SummaryOfMore, ZenonT(30)
<1>4. top = {w \in Words(fresh) : In(p.l1, w) = {}}
  BY ZenonT(30) DEF Words
<1>5. p.l0 \cup top = Words(p.l1 \cup fresh)
  BY <1>2, <1>4, SummaryOfMore, ZenonT(60)
<1>6. p.l2 \cup new \in SUBSET AllBlocks /\ p.l2 \cap new = {}
  BY <1>2, ZenonT(30)
<1>7. p.freeCount + Cardinality(new) = Cardinality(p.l2 \cup new)
  BY <1>2, <1>6, CountMore, ZenonT(30)
<1>8. Cardinality(p.l2 \cup new) \in Nat
  BY <1>6, BlocksFinite, ZenonT(30)
<1>9. Words(p.l2 \cup new) \in SUBSET Nat /\ Words(p.l1 \cup fresh) \in SUBSET Nat
  BY <1>2, <1>3, <1>6, BlocksFinite, WordsTyped, ZenonT(30)
<1>10. p.l2 \cup new = p.l2 \cup (run \cap AllBlocks)
  BY ZenonT(30)
<1> HIDE DEF new, fresh, top
<1>11. PoolOK(q)
  BY <1>3, <1>5, <1>6, <1>7, <1>8, <1>9, ZenonT(60) DEF PoolOK, PoolType
<1> QED
  BY <1>1, <1>10, <1>11, SMTT(60)

(* A sound pool is determined by its free blocks.                          *)
LEMMA PoolIsItsBlocks ==
  ASSUME NEW p, NEW q, PoolOK(p), PoolOK(q), p.l2 = q.l2
  PROVE  p = q
  BY SMTT(60) DEF PoolOK, PoolType

(* The masks of the words of a run cover exactly the run.                  *)
LEMMA BitOfWord ==
  ASSUME NEW i \in Nat
  PROVE  /\ Word(i) \in Nat /\ i % WordBits \in 0..(WordBits - 1)
         /\ i = Word(i) * WordBits + (i % WordBits)
  BY SMTT(60) DEF Word

LEMMA LaterWord ==
  ASSUME NEW v \in Nat, NEW w \in Nat, v < w
  PROVE  v * WordBits + WordBits <= w * WordBits
<1>1. PICK k \in Nat : w = v + 1 + k
  <2>1. w - v - 1 \in Nat /\ w = v + 1 + (w - v - 1)
    BY SMTT(60)
  <2> QED
    BY <2>1, ZenonT(30)
<1>2. k * WordBits \in Nat /\ v * WordBits \in Nat
  BY SMTT(60)
<1>3. w * WordBits = v * WordBits + WordBits + k * WordBits
  BY <1>1, SMTT(60)
<1> QED
  BY <1>2, <1>3, SMTT(60)

LEMMA MasksAreRun ==
  ASSUME NEW first \in Nat, NEW last \in Nat, first <= last
  PROVE  UNION {RunMask(w, first, last) : w \in Word(first)..Word(last)} = first..last
<1>1. /\ Word(first) \in Nat /\ Word(last) \in Nat
      /\ first % WordBits \in 0..(WordBits - 1) /\ last % WordBits \in 0..(WordBits - 1)
      /\ first = Word(first) * WordBits + (first % WordBits)
      /\ last = Word(last) * WordBits + (last % WordBits)
  BY BitOfWord, ZenonT(30)
<1>2. ASSUME NEW b \in first..last
      PROVE  \E w \in Word(first)..Word(last) : b \in RunMask(w, first, last)
  <2>1. b \in Nat /\ first <= b /\ b <= last
    BY SMTT(60)
  <2>2. Word(b) \in Nat /\ b % WordBits \in 0..(WordBits - 1) /\ b = Word(b) * WordBits + (b % WordBits)
    BY <2>1, BitOfWord, ZenonT(30)
  <2>3. ~(Word(b) < Word(first)) /\ ~(Word(last) < Word(b))
    <3>1. ASSUME Word(b) < Word(first) PROVE FALSE
      <4>1. Word(b) * WordBits + WordBits <= Word(first) * WordBits
        BY <1>1, <2>2, <3>1, LaterWord, ZenonT(30)
      <4> QED
        BY <1>1, <2>1, <2>2, <4>1, SMTT(60)
    <3>2. ASSUME Word(last) < Word(b) PROVE FALSE
      <4>1. Word(last) * WordBits + WordBits <= Word(b) * WordBits
        BY <1>1, <2>2, <3>2, LaterWord, ZenonT(30)
      <4> QED
        BY <1>1, <2>1, <2>2, <4>1, SMTT(60)
    <3> QED
      BY <3>1, <3>2, ZenonT(30)
  <2>4. Word(b) \in Word(first)..Word(last)
    BY <1>1, <2>2, <2>3, SMTT(60)
  <2>5. /\ Word(b) = Word(first) => b % WordBits >= first % WordBits
        /\ Word(b) = Word(last) => b % WordBits <= last % WordBits
    BY <1>1, <2>1, <2>2, SMTT(60)
  <2> QED
    BY <2>2, <2>4, <2>5, ZenonT(30) DEF RunMask
<1>3. ASSUME NEW w \in Word(first)..Word(last), NEW b \in RunMask(w, first, last)
      PROVE  b \in first..last
  <2>1. PICK i \in 0..(WordBits - 1) :
          /\ b = w * WordBits + i
          /\ w = Word(first) => i >= first % WordBits
          /\ w = Word(last) => i <= last % WordBits
    BY ZenonT(30) DEF RunMask
  <2>2. w \in Nat /\ Word(first) <= w /\ w <= Word(last)
    BY <1>1, SMTT(60)
  <2>3. first <= b
    <3>1. CASE w = Word(first)
      BY <1>1, <2>1, <2>2, <3>1, SMTT(60)
    <3>2. CASE w # Word(first)
      <4>1. Word(first) < w
        BY <1>1, <2>2, <3>2, SMTT(60)
      <4>2. Word(first) * WordBits + WordBits <= w * WordBits
        BY <1>1, <2>2, <4>1, LaterWord, ZenonT(30)
      <4> QED
        BY <1>1, <2>1, <2>2, <4>2, SMTT(60)
    <3> QED
      BY <3>1, <3>2, ZenonT(30)
  <2>4. b <= last
    <3>1. CASE w = Word(last)
      BY <1>1, <2>1, <2>2, <3>1, SMTT(60)
    <3>2. CASE w # Word(last)
      <4>1. w < Word(last)
        BY <1>1, <2>2, <3>2, SMTT(60)
      <4>2. w * WordBits + WordBits <= Word(last) * WordBits
        BY <1>1, <2>2, <4>1, LaterWord, ZenonT(30)
      <4> QED
        BY <1>1, <2>1, <2>2, <4>2, SMTT(60)
    <3> QED
      BY <3>1, <3>2, ZenonT(30)
  <2>5. b \in Int
    BY <2>1, <2>2, SMTT(60)
  <2> QED
    BY <2>3, <2>4, <2>5, SMTT(60)
<1> QED
  BY <1>2, <1>3, ZenonT(30)

(* AllocMarkFreeRun adds the blocks of the run that the pool tracks.       *)
LEMMA RunIsSetRun ==
  ASSUME NEW p, PoolOK(p), NEW first \in Nat, NEW n \in Nat
  PROVE  AllocMarkFreeRun(p, first, n) = SetRun(p, first..(first + n - 1))
<1>1. CASE n = 0 \/ first >= BlockCount
  <2>1. (first..(first + n - 1)) \cap AllBlocks = {}
    BY <1>1, SMTT(60) DEF AllBlocks
  <2>2. PoolOK(SetRun(p, first..(first + n - 1))) /\ SetRun(p, first..(first + n - 1)).l2 = p.l2
    BY <2>1, SetRunOK, ZenonT(30)
  <2>3. AllocMarkFreeRun(p, first, n) = p
    BY <1>1, ZenonT(30) DEF AllocMarkFreeRun
  <2> QED
    BY <2>2, <2>3, PoolIsItsBlocks, ZenonT(30)
<1>2. CASE ~(n = 0 \/ first >= BlockCount)
  <2> DEFINE last == Min({first + n, BlockCount}) - 1
  <2>1. {first + n, BlockCount} \in SUBSET Nat /\ {first + n, BlockCount} # {}
    BY SMTT(60)
  <2>2. /\ Min({first + n, BlockCount}) \in {first + n, BlockCount}
        /\ Min({first + n, BlockCount}) <= first + n /\ Min({first + n, BlockCount}) <= BlockCount
    BY <2>1, MinIsIn, ZenonT(30)
  <2>3. last \in Nat /\ first <= last /\ first..last = (first..(first + n - 1)) \cap AllBlocks
    BY <1>2, <2>2, SMTT(60) DEF AllBlocks
  <2>4. AllocMarkFreeRun(p, first, n) =
          SetBits(p, UNION {RunMask(w, first, last) : w \in Word(first)..Word(last)})
    BY <1>2, ZenonT(30) DEF AllocMarkFreeRun
  <2> HIDE DEF last
  <2> QED
    BY <2>3, <2>4, MasksAreRun, ZenonT(30) DEF SetRun
<1> QED
  BY <1>1, <1>2, ZenonT(30)

(* AllocMarkFree adds one block to a sound pool and leaves it sound.       *)
LEMMA AllocMarkFreeOK ==
  ASSUME NEW p, PoolOK(p), NEW b \in AllBlocks
  PROVE  PoolOK(AllocMarkFree(p, b)) /\ AllocMarkFree(p, b).l2 = p.l2 \cup {b}
<1>1. CASE b \in p.l2
  BY <1>1, ZenonT(30) DEF AllocMarkFree
<1>2. CASE b \notin p.l2
  <2> DEFINE n2 == p.l2 \cup {b}
             n1 == IF In(n2, Word(b)) = {b} THEN p.l1 \cup {Word(b)} ELSE p.l1
             n0 == IF /\ In(n2, Word(b)) = {b}
                      /\ In(n1, Word(Word(b))) = {Word(b)}
                   THEN p.l0 \cup {Word(Word(b))} ELSE p.l0
             q  == [l2 |-> n2, l1 |-> n1, l0 |-> n0, freeCount |-> p.freeCount + 1]
  <2>1. AllocMarkFree(p, b) = q
    BY <1>2, ZenonT(30) DEF AllocMarkFree
  <2>2. /\ p.l2 \in SUBSET AllBlocks /\ p.l1 = Words(p.l2) /\ p.l0 = Words(p.l1)
        /\ p.freeCount = Cardinality(p.l2)
    BY ZenonT(30) DEF PoolOK, PoolType
  <2>3. n1 = Words(n2)
    BY <1>2, <2>2, ZenonT(30) DEF Words, In
  <2>4. n0 = Words(n1)
    <3>1. CASE In(n2, Word(b)) = {b}
      <4>1. n1 = Words(p.l2) \cup {Word(b)} /\ p.l0 = Words(Words(p.l2))
        BY <2>2, <3>1, ZenonT(30)
      <4>2. Word(b) \notin Words(p.l2)
        BY <1>2, <3>1, SMTT(60) DEF Words, In
      <4> HIDE DEF n1
      <4> QED
        BY <3>1, <4>1, <4>2, SMTT(60) DEF Words, In
    <3>2. CASE In(n2, Word(b)) # {b}
      BY <2>2, <3>2, ZenonT(30)
    <3> HIDE DEF n1, n0
    <3> QED
      BY <3>1, <3>2, ZenonT(60)
  <2>5. n2 \in SUBSET AllBlocks /\ n2 \in SUBSET Nat /\ Cardinality(n2) \in Nat
    <3>1. n2 \in SUBSET AllBlocks
      BY <2>2, ZenonT(30)
    <3> QED
      BY <3>1, BlocksFinite, ZenonT(30)
  <2>6. p.freeCount + 1 = Cardinality(n2)
    <3>1. Cardinality({b}) = 1
      BY FS_Singleton, ZenonT(30)
    <3> QED
      BY <1>2, <2>2, <3>1, CountMore, SMTT(60)
  <2> HIDE DEF n2, n1, n0
  <2>7. n1 \in SUBSET Nat /\ n0 \in SUBSET Nat
    BY <2>3, <2>4, <2>5, WordsTyped, ZenonT(30)
  <2>8. PoolOK(q)
    BY <2>3, <2>4, <2>5, <2>6, <2>7, ZenonT(60) DEF PoolOK, PoolType
  <2> QED
    BY <2>1, <2>8, SMTT(60) DEF n2
<1> QED
  BY <1>1, <1>2, ZenonT(30)

(* On a sound pool the scan for one block meets no stale summary bit: it   *)
(* takes a free block whenever there is one.                               *)
LEMMA scanBlockOK ==
  ASSUME NEW p, PoolOK(p)
  PROVE  \/ /\ p.l2 = {}
            /\ PoolOK(scanBlock(p).pool)
            /\ scanBlock(p).pool.l2 = {} /\ scanBlock(p).got = {}
         \/ \E b \in p.l2 :
              /\ PoolOK(scanBlock(p).pool)
              /\ scanBlock(p).pool.l2 = p.l2 \ {b} /\ scanBlock(p).got = {b} \ {0}
<1> DEFINE heads == Words(p.l0)
           good  == {w0 \in heads : ~Stale(p, w0)}
<1>1. /\ p \in PoolType
      /\ p.l2 \in SUBSET AllBlocks /\ p.l1 \in SUBSET Nat /\ p.l0 \in SUBSET Nat
      /\ p.l1 = Words(p.l2) /\ p.l0 = Words(p.l1)
      /\ p.l2 \in SUBSET Nat
  BY BlocksFinite, ZenonT(60) DEF PoolOK, PoolType
<1>2. ASSUME NEW w0 \in heads
      PROVE  ~Stale(p, w0) /\ In(p.l2, Mid(p, w0)) # {}
  <2>1. In(p.l0, w0) # {} /\ In(p.l0, w0) \in SUBSET Nat
    BY <1>1, ZenonT(30) DEF Words, In
  <2>2. Top(p, w0) \in p.l0
    BY <2>1, MinIsIn, ZenonT(30) DEF Top, In
  <2>3. In(p.l1, Top(p, w0)) # {} /\ In(p.l1, Top(p, w0)) \in SUBSET Nat
    BY <1>1, <2>2, ZenonT(30) DEF Words, In
  <2>4. Mid(p, w0) \in p.l1
    BY <2>3, MinIsIn, ZenonT(30) DEF Mid, In
  <2>5. In(p.l2, Mid(p, w0)) # {}
    BY <1>1, <2>4, ZenonT(30) DEF Words, In
  <2> QED
    BY <2>3, <2>5, ZenonT(30) DEF Stale
<1>3. good = heads
  BY <1>2, ZenonT(30)
<1>4. ClearStale(p, {}) = p
  <2>1. /\ p.l1 \ {Mid(p, w) : w \in {v \in {} : In(p.l1, Top(p, v)) # {}}} = p.l1
        /\ \A n1 : p.l0 \ {Top(p, w) : w \in {v \in {} : In(n1, Top(p, v)) = {}}} = p.l0
    BY ZenonT(30)
  <2>2. ClearStale(p, {}) = [p EXCEPT !.l1 = p.l1, !.l0 = p.l0]
    BY <2>1, ZenonT(60) DEF ClearStale
  <2> QED
    BY <1>1, <2>2, ZenonT(60) DEF PoolType
<1>5. CASE heads = {}
  <2>1. p.l2 = {}
    BY <1>1, <1>5, SMTT(60) DEF Words
  <2>2. scanBlock(p) = [pool |-> p, got |-> {}]
    BY <1>3, <1>4, <1>5, ZenonT(30) DEF scanBlock
  <2> QED
    BY <2>1, <2>2, SMTT(60)
<1>6. CASE heads # {}
  <2> DEFINE w == Min(heads)
             b == Min(In(p.l2, Mid(p, w)))
  <2>1. heads \in SUBSET Nat
    BY <1>1, WordsTyped, ZenonT(30)
  <2>2. w \in heads /\ \A v \in heads : w <= v
    BY <1>6, <2>1, MinIsIn, ZenonT(30)
  <2>3. {v \in heads : v < w} = {}
    BY <2>1, <2>2, SMTT(60)
  <2>4. b \in p.l2
    <3>1. In(p.l2, Mid(p, w)) # {} /\ In(p.l2, Mid(p, w)) \in SUBSET Nat
      BY <1>1, <1>2, <2>2, ZenonT(30) DEF In
    <3> QED
      BY <3>1, MinIsIn, ZenonT(30) DEF In
  <2>5. scanBlock(p) = [pool |-> ClearBits(p, {b}), got |-> {b} \ {0}]
    BY <1>3, <1>4, <1>6, <2>3, ZenonT(30) DEF scanBlock
  <2> HIDE DEF w, b
  <2> QED
    BY <2>4, <2>5, ClearBitsOK, SMTT(60)
<1> QED
  BY <1>5, <1>6, ZenonT(30)

LEMMA dataAvailTyped ==
  ASSUME PoolOK(pool), metaShield \in Nat
  PROVE  dataAvail \in Nat /\ dataAvail <= pool.freeCount
  BY SMTT(60) DEF dataAvail, PoolOK, PoolType

(* A scan for a run takes a run of free blocks, if there is one.           *)
LEMMA scanRunOK ==
  ASSUME NEW p, PoolOK(p), NEW n \in Nat \ {0}
  PROVE  \/ /\ scanRun(p, n) = {}
            /\ ~ \E s \in p.l2 : s..(s + n - 1) \subseteq p.l2
         \/ /\ scanRun(p, n) \subseteq p.l2
            /\ \E s \in p.l2 : scanRun(p, n) = s..(s + n - 1)
<1> DEFINE starts == {s \in p.l2 : s..(s + n - 1) \subseteq p.l2}
<1>1. starts \in SUBSET Nat
  BY BlocksFinite, ZenonT(60) DEF PoolOK, PoolType
<1>2. CASE starts = {}
  BY <1>2, ZenonT(30) DEF scanRun
<1>3. CASE starts # {}
  <2>1. Min(starts) \in starts
    BY <1>1, <1>3, MinIsIn, ZenonT(30)
  <2>2. scanRun(p, n) = Min(starts)..(Min(starts) + n - 1)
    BY <1>3, ZenonT(30) DEF scanRun
  <2> QED
    BY <2>1, <2>2, ZenonT(60)
<1> QED
  BY <1>2, <1>3, ZenonT(30)

(* One pass takes what it hands out off the free blocks and keeps the pool *)
(* sound.                                                                  *)
LEMMA TryOK ==
  ASSUME PoolOK(pool), metaShield \in Nat, NEW r \in Requests
  PROVE  /\ PoolOK(Try(r).pool)
         /\ Try(r).got \subseteq pool.l2 \ {0}
         /\ Try(r).pool.l2 \subseteq pool.l2 \ Try(r).got
<1> DEFINE fail == [pool |-> pool, got |-> {}]
           z    == reserveBlockZero(pool)
           take(S) == [pool |-> ClearBits(z, S), got |-> S]
           OK(t) == /\ PoolOK(t.pool) /\ t.got \subseteq pool.l2 \ {0}
                    /\ t.pool.l2 \subseteq pool.l2 \ t.got
<1>1. OK(fail)
  BY ZenonT(30)
<1>2. OK(scanBlock(pool))
  BY scanBlockOK, SMTT(60)
<1>3. PoolOK(z) /\ z.l2 = pool.l2 \ {0}
  BY reserveBlockZeroOK, ZenonT(30)
<1> HIDE DEF z
<1>4. \A S \in SUBSET z.l2 : OK(take(S))
  BY <1>3, ClearBitsOK, SMTT(60)
<1>5. \A n \in Nat \ {0} : scanRun(z, n) \in SUBSET z.l2
  BY <1>3, scanRunOK, ZenonT(30)
<1>6. \A n \in Nat : scanRuns(z, n) \in SUBSET z.l2
  BY ZenonT(30) DEF scanRuns
<1>7. CASE r.kind = "meta"
  <2>1. Try(r) = fail \/ Try(r) = scanBlock(pool)
    BY <1>7, ZenonT(30) DEF Try
  <2> QED
    BY <1>1, <1>2, <2>1, ZenonT(30)
<1>8. CASE r.kind = "data"
  <2>1. Try(r) = fail \/ Try(r) = scanBlock(pool)
    BY <1>8, ZenonT(30) DEF Try
  <2> QED
    BY <1>1, <1>2, <2>1, ZenonT(30)
<1>9. CASE r.kind = "run"
  <2>1. r.n \in Nat \ {0}
    BY <1>9, ZenonT(60) DEF Requests
  <2>2. Try(r) = fail \/ Try(r) = take(scanRun(z, r.n))
    BY <1>9, ZenonT(30) DEF Try, z
  <2> QED
    BY <1>1, <1>4, <1>5, <2>1, <2>2, SMTT(60)
<1>10. CASE r.kind = "upto"
  <2> DEFINE k == Min({r.n, dataAvail})
  <2>1. {r.n, dataAvail} \in SUBSET Nat /\ {r.n, dataAvail} # {}
    BY <1>10, dataAvailTyped, ZenonT(60) DEF Requests
  <2>2. k \in Nat
    BY <2>1, MinIsIn, ZenonT(30)
  <2>3. Try(r) = fail \/ Try(r) = take(scanRuns(z, k))
    BY <1>10, ZenonT(30) DEF Try, z
  <2> HIDE DEF k
  <2> QED
    BY <1>1, <1>4, <1>6, <2>2, <2>3, ZenonT(30)
<1> QED
  BY <1>7, <1>8, <1>9, <1>10, ZenonT(30) DEF Requests

-----------------------------------------------------------------------------
(* The state the proofs need to be well formed: the thread that holds j.mu *)
(* for its reclaim is in the middle of an allocation.                      *)
DataBlocks == AllBlocks \ {0}

StateOK ==
  /\ PoolOK(pool) /\ metaShield \in Nat
  /\ ZeroFree \/ 0 \notin pool.l2
  /\ owned \in SUBSET DataBlocks /\ pendingFrees \in SUBSET DataBlocks
  /\ taken \in [{"sync", "fsync"} -> SUBSET DataBlocks]
  /\ half = None \/ half \in [order : FreeOrders \cup {"free"}, run : SUBSET DataBlocks]
  /\ call \in [Callers -> {None} \cup
                [r : Requests, pc : {"reclaim", "sync", "retry"}, missed : SUBSET DataBlocks]]
  /\ jmu = None \/ jmu \in [who : Callers \cup {Syncer}, stage : {"take", "apply"}]
  /\ jmu # None /\ jmu.who # Syncer => call[jmu.who] # None /\ call[jmu.who].pc = "sync"

(* NoDoubleUse is inductive together with the blocks of the free under     *)
(* way: unless it queued them first, they are in none of the five places.  *)
HalfApart ==
  half # None /\ half.order # "defer" =>
    half.run \cap (pool.l2 \cup owned \cup pendingFrees \cup taken["sync"] \cup taken["fsync"]) = {}

(* The five places of NoDoubleUse, two by two.                             *)
Apart ==
  /\ pool.l2 \cap (owned \cup pendingFrees \cup taken["sync"] \cup taken["fsync"]) = {}
  /\ owned \cap (pendingFrees \cup taken["sync"] \cup taken["fsync"]) = {}
  /\ pendingFrees \cap (taken["sync"] \cup taken["fsync"]) = {}
  /\ taken["sync"] \cap taken["fsync"] = {}

AllocInv == StateOK /\ Apart /\ HalfApart

LEMMA ApartIsNoDoubleUse == Apart => NoDoubleUse
<1> SUFFICES ASSUME Apart, NEW i \in 1..5, NEW j \in 1..5, i # j
             PROVE  LET holds == <<pool.l2, owned, pendingFrees, taken["sync"], taken["fsync"]>>
                    IN holds[i] \cap holds[j] = {}
  BY ZenonT(30) DEF NoDoubleUse
<1> QED
  BY SMTT(60) DEF Apart

LEMMA InitHolds == Init => AllocInv
<1> SUFFICES ASSUME Init PROVE AllocInv
  BY ZenonT(30)
<1>1. PICK zero \in {{}, {0}} : /\ ZeroFree \/ zero = {}
                                /\ pool = Pyramid((AllBlocks \ {0}) \cup zero)
  BY ZenonT(30) DEF Init
<1> DEFINE free == (AllBlocks \ {0}) \cup zero
<1>2. free \in SUBSET AllBlocks
  BY SMTT(60) DEF AllBlocks
<1> HIDE DEF free
<1>3. PoolOK(pool)
  <2>1. Cardinality(free) \in Nat /\ free \in SUBSET Nat
    BY <1>2, BlocksFinite, ZenonT(30)
  <2>2. Words(free) \in SUBSET Nat /\ Words(Words(free)) \in SUBSET Nat
    BY <2>1, WordsTyped, ZenonT(30)
  <2>3. pool = [l2 |-> free, l1 |-> Words(free), l0 |-> Words(Words(free)),
                freeCount |-> Cardinality(free)]
    BY <1>1, ZenonT(30) DEF Pyramid, free
  <2> QED
    BY <1>2, <2>1, <2>2, <2>3, ZenonT(30) DEF PoolOK, PoolType
<1>4. ZeroFree \/ 0 \notin pool.l2
  BY <1>1, ZenonT(30) DEF Pyramid
<1> QED
  BY <1>3, <1>4, ZenonT(30) DEF Init, AllocInv, StateOK, Apart, HalfApart

(* A scan moves blocks from the free ones to their owner.                  *)
LEMMA ScanKeeps ==
  ASSUME AllocInv, NEW r \in Requests,
         pool' = Try(r).pool, owned' = owned \cup Try(r).got,
         UNCHANGED <<metaShield, frees>>
  PROVE  /\ PoolOK(pool)' /\ (ZeroFree \/ 0 \notin pool'.l2) /\ metaShield' \in Nat /\ owned' \in SUBSET DataBlocks
         /\ Apart' /\ HalfApart'
<1>1. /\ PoolOK(pool') /\ Try(r).got \subseteq pool.l2 \ {0}
      /\ pool'.l2 \subseteq pool.l2 \ Try(r).got
  BY TryOK, ZenonT(30) DEF AllocInv, StateOK
<1>2. Try(r).got \in SUBSET DataBlocks
  BY <1>1, ZenonT(30) DEF AllocInv, StateOK, PoolOK, PoolType, DataBlocks
<1>3. PoolOK(pool)'
  BY <1>1, ZenonT(30) DEF PoolOK
<1>4. Apart'
  BY <1>1, ZenonT(30) DEF AllocInv, Apart, frees
<1>5. HalfApart'
  BY <1>1, ZenonT(30) DEF AllocInv, HalfApart, frees
<1> QED
  BY <1>1, <1>2, <1>3, <1>4, <1>5, ZenonT(30) DEF AllocInv, StateOK

LEMMA MarkFreeIsSetRun ==
  ASSUME PoolOK(pool), NEW run \in Runs
  PROVE  MarkFree(run) = SetRun(pool, run)
<1>0. PICK r \in AllBlocks \X AllBlocks : run = r[1]..r[2] /\ run # {}
  BY ZenonT(30) DEF Runs
<1>1. PICK a \in AllBlocks, b \in AllBlocks : run = a..b /\ a..b # {}
  BY <1>0, SMTT(60)
<1>2. a \in Nat /\ b \in Nat /\ a <= b
  BY <1>1, SMTT(60) DEF AllBlocks
<1>3. a..b \in SUBSET Nat /\ a \in a..b /\ \A y \in a..b : a <= y
  BY <1>2, SMTT(60)
<1>4. Min(a..b) \in a..b /\ Min(a..b) <= a
  BY <1>1, <1>3, MinIsIn, ZenonT(30)
<1>5. Min(a..b) = a
  BY <1>2, <1>4, SMTT(60)
<1>6. Cardinality(a..b) = b - a + 1
  <2>1. a \in Int /\ b \in Int /\ ~(a > b)
    BY <1>2, SMTT(60)
  <2> QED
    BY <2>1, FS_Interval, ZenonT(30)
<1>7. b - a + 1 \in Nat /\ a + (b - a + 1) - 1 = b
  BY <1>2, SMTT(60)
<1>8. AllocMarkFreeRun(pool, a, b - a + 1) = SetRun(pool, a..(a + (b - a + 1) - 1))
  BY <1>2, <1>7, RunIsSetRun, ZenonT(30)
<1> QED
  BY <1>1, <1>5, <1>6, <1>7, <1>8, ZenonT(30) DEF MarkFree

(* Giving blocks back: those of `run` are in none of the places kept.      *)
LEMMA FreeKeeps ==
  ASSUME StateOK, NEW run \in SUBSET DataBlocks, run \in Runs, pool' = MarkFree(run)
  PROVE  PoolOK(pool)' /\ (ZeroFree \/ 0 \notin pool'.l2) /\ pool'.l2 = pool.l2 \cup run
<1>1. PoolOK(pool') /\ pool'.l2 = pool.l2 \cup (run \cap AllBlocks)
  <2>1. PoolOK(pool)
    BY ZenonT(30) DEF StateOK
  <2>2. pool' = SetRun(pool, run)
    BY <2>1, MarkFreeIsSetRun, ZenonT(30)
  <2>3. PoolOK(SetRun(pool, run)) /\ SetRun(pool, run).l2 = pool.l2 \cup (run \cap AllBlocks)
    BY <2>1, SetRunOK, ZenonT(30)
  <2> QED
    BY <2>2, <2>3, ZenonT(30)
<1>2. PoolOK(pool)'
  BY <1>1, ZenonT(30) DEF PoolOK
<1> QED
  BY <1>1, <1>2, ZenonT(30) DEF StateOK, DataBlocks

(* The shape of the call and lock variables after each step of a call.     *)
LEMMA NextHolds == AllocInv /\ [Next]_vars => AllocInv'
<1> SUFFICES ASSUME AllocInv, [Next]_vars PROVE AllocInv'
  BY ZenonT(30)
<1> USE DEF AllocInv
<1>1. ASSUME NEW c \in Callers, NEW r \in Requests, Scan(c, r) PROVE AllocInv'
  <2>1. /\ PoolOK(pool)' /\ (ZeroFree \/ 0 \notin pool'.l2) /\ metaShield' \in Nat /\ owned' \in SUBSET DataBlocks
        /\ Apart' /\ HalfApart'
    BY <1>1, ScanKeeps, ZenonT(30) DEF Scan
  <2>2. InFlight \in SUBSET DataBlocks
    BY ZenonT(30) DEF StateOK, InFlight
  <2>3. call' = call \/ call' = [call EXCEPT ![c] = [r |-> r, pc |-> "reclaim", missed |-> InFlight]]
    BY <1>1, ZenonT(30) DEF Scan
  <2>4. call' \in [Callers -> {None} \cup
                   [r : Requests, pc : {"reclaim", "sync", "retry"}, missed : SUBSET DataBlocks]]
    BY <2>2, <2>3, SMTT(60) DEF StateOK
  <2>5. jmu' # None /\ jmu'.who # Syncer => call'[jmu'.who] # None /\ call'[jmu'.who].pc = "sync"
    BY <1>1, <2>3, ZenonT(30) DEF StateOK, Scan, frees
  <2> QED
    BY <1>1, <2>1, <2>4, <2>5, ZenonT(30) DEF StateOK, Scan, frees
<1>2. ASSUME NEW c \in Callers, ReclaimNothing(c) PROVE AllocInv'
  BY <1>2, ZenonT(30) DEF StateOK, Apart, HalfApart, ReclaimNothing, heap, frees
<1>3. ASSUME NEW c \in Callers, ReclaimSync(c) PROVE AllocInv'
  BY <1>3, SMTT(60) DEF StateOK, Apart, HalfApart, ReclaimSync, heap, frees
<1>4. ASSUME NEW c \in Callers, SyncClean(c) PROVE AllocInv'
  BY <1>4, SMTT(60) DEF StateOK, Apart, HalfApart, SyncClean, heap, frees
<1>5. ASSUME NEW c \in Callers, Retry(c) PROVE AllocInv'
  <2>1. call[c].r \in Requests
    BY <1>5, ZenonT(30) DEF StateOK, Retry
  <2>2. /\ PoolOK(pool)' /\ (ZeroFree \/ 0 \notin pool'.l2) /\ metaShield' \in Nat /\ owned' \in SUBSET DataBlocks
        /\ Apart' /\ HalfApart'
    BY <1>5, <2>1, ScanKeeps, ZenonT(30) DEF Retry
  <2> QED
    BY <1>5, <2>2, ZenonT(30) DEF StateOK, Retry, frees
<1>6. ASSUME NEW t \in Callers \cup {Syncer}, SyncCommit(t) PROVE AllocInv'
  BY <1>6, ZenonT(30) DEF StateOK, Apart, HalfApart, SyncCommit, MaySync, heap
<1>7. CASE SyncTake
  <2>1. taken'["sync"] = pendingFrees /\ taken'["fsync"] = taken["fsync"] /\ pendingFrees' = {}
    BY <1>7, ZenonT(30) DEF SyncTake, StateOK
  <2>2. Apart' /\ HalfApart'
    BY <1>7, <2>1, ZenonT(30) DEF SyncTake, Apart, HalfApart, heap
  <2> QED
    BY <1>7, <2>2, ZenonT(30) DEF StateOK, SyncTake, heap
<1>8. ASSUME NEW run \in Runs, SyncApply(run) PROVE AllocInv'
  <2>1. /\ run \in SUBSET DataBlocks /\ run \subseteq taken["sync"]
        /\ taken'["sync"] = taken["sync"] \ run /\ taken'["fsync"] = taken["fsync"]
    BY <1>8, ZenonT(30) DEF SyncApply, StateOK
  <2>2. PoolOK(pool)' /\ (ZeroFree \/ 0 \notin pool'.l2) /\ pool'.l2 = pool.l2 \cup run
    BY <1>8, <2>1, FreeKeeps, ZenonT(30) DEF SyncApply
  <2>3. Apart' /\ HalfApart'
    BY <1>8, <2>1, <2>2, ZenonT(30) DEF SyncApply, Apart, HalfApart
  <2> QED
    BY <1>8, <2>1, <2>2, <2>3, ZenonT(30) DEF StateOK, SyncApply
<1>16. CASE SyncEnd
  <2>1. Apart' /\ HalfApart'
    BY <1>16, ZenonT(30) DEF SyncEnd, Apart, HalfApart, heap
  <2>2. call' \in [Callers -> {None} \cup
                   [r : Requests, pc : {"reclaim", "sync", "retry"}, missed : SUBSET DataBlocks]]
    BY <1>16, SMTT(60) DEF StateOK, SyncEnd
  <2> QED
    BY <1>16, <2>1, <2>2, ZenonT(30) DEF StateOK, SyncEnd, heap
<1>9. CASE FsyncTake
  <2>1. taken'["fsync"] = pendingFrees /\ taken'["sync"] = taken["sync"] /\ pendingFrees' = {}
    BY <1>9, ZenonT(30) DEF FsyncTake, StateOK
  <2>2. Apart' /\ HalfApart'
    BY <1>9, <2>1, ZenonT(30) DEF FsyncTake, Apart, HalfApart, heap
  <2> QED
    BY <1>9, <2>2, ZenonT(30) DEF StateOK, FsyncTake, heap
<1>10. ASSUME NEW run \in Runs, FsyncApply(run) PROVE AllocInv'
  <2>1. /\ run \in SUBSET DataBlocks /\ run \subseteq taken["fsync"]
        /\ taken'["fsync"] = taken["fsync"] \ run /\ taken'["sync"] = taken["sync"]
    BY <1>10, ZenonT(30) DEF FsyncApply, StateOK
  <2>2. PoolOK(pool)' /\ (ZeroFree \/ 0 \notin pool'.l2) /\ pool'.l2 = pool.l2 \cup run
    BY <1>10, <2>1, FreeKeeps, ZenonT(30) DEF FsyncApply
  <2>3. Apart' /\ HalfApart'
    BY <1>10, <2>1, <2>2, ZenonT(30) DEF FsyncApply, Apart, HalfApart
  <2> QED
    BY <1>10, <2>1, <2>2, <2>3, ZenonT(30) DEF StateOK, FsyncApply
<1>11. ASSUME NEW order \in FreeOrders, NEW run \in Runs, FreeBegin(order, run) PROVE AllocInv'
  <2>1. run \in SUBSET DataBlocks /\ run \subseteq owned /\ owned' = owned \ run
    BY <1>11, ZenonT(30) DEF FreeBegin, StateOK
  <2>2. half' = [order |-> order, run |-> run] /\ UNCHANGED <<pool, metaShield, taken, jmu, call>>
    BY <1>11, ZenonT(30) DEF FreeBegin
  <2>3. \/ order = "defer" /\ pendingFrees' = pendingFrees \cup run
        \/ order # "defer" /\ pendingFrees' = pendingFrees
    BY <1>11, ZenonT(30) DEF FreeBegin
  <2>4. Apart'
    BY <2>1, <2>2, <2>3, ZenonT(30) DEF Apart
  <2>5. HalfApart'
    BY <2>1, <2>2, <2>3, ZenonT(30) DEF Apart, HalfApart
  <2> QED
    BY <2>1, <2>2, <2>3, <2>4, <2>5, ZenonT(30) DEF StateOK
<1>12. CASE FreeEnd
  <2>1. /\ half # None /\ half \in [order : FreeOrders \cup {"free"}, run : SUBSET DataBlocks]
        /\ half.run \in SUBSET DataBlocks
        /\ UNCHANGED <<pool, metaShield, owned, taken, jmu, call>>
    BY <1>12, ZenonT(30) DEF FreeEnd, StateOK, heap
  <2>2. half.order \in {"log", "defer", "now"}
    BY <1>12, <2>1, ZenonT(30) DEF FreeEnd
  <2>3. CASE half.order = "log"
    <3>1. pendingFrees' = pendingFrees \cup half.run /\ half' = None
      BY <1>12, <2>3, ZenonT(30) DEF FreeEnd
    <3>2. Apart' /\ HalfApart'
      BY <2>1, <2>3, <3>1, ZenonT(30) DEF Apart, HalfApart
    <3> QED
      BY <2>1, <3>1, <3>2, ZenonT(30) DEF StateOK
  <2>4. CASE half.order = "defer"
    <3>1. UNCHANGED pendingFrees /\ half' = None
      BY <1>12, <2>4, ZenonT(30) DEF FreeEnd
    <3> QED
      BY <2>1, <3>1, ZenonT(30) DEF StateOK, Apart, HalfApart
  <2>5. CASE half.order = "now"
    <3>1. half' = [half EXCEPT !.order = "free"] /\ UNCHANGED pendingFrees
      BY <1>12, <2>5, ZenonT(30) DEF FreeEnd
    <3>2. half' \in [order : FreeOrders \cup {"free"}, run : SUBSET DataBlocks] /\ half'.run = half.run
      BY <2>1, <3>1, SMTT(60)
    <3>3. Apart' /\ HalfApart'
      BY <2>1, <2>5, <3>1, <3>2, ZenonT(30) DEF Apart, HalfApart
    <3> QED
      BY <2>1, <3>1, <3>2, <3>3, ZenonT(30) DEF StateOK
  <2> QED
    BY <2>2, <2>3, <2>4, <2>5, ZenonT(60)
<1>17. ASSUME NEW b \in AllBlocks, freeBlockNow(b) PROVE AllocInv'
  <2>1. /\ half \in [order : FreeOrders \cup {"free"}, run : SUBSET DataBlocks]
        /\ half # None /\ half.order = "free" /\ b \in half.run /\ b \in DataBlocks
        /\ UNCHANGED <<metaShield, owned, pendingFrees, taken, jmu, call>>
    BY <1>17, ZenonT(30) DEF freeBlockNow, StateOK
  <2>2. PoolOK(pool') /\ pool'.l2 = pool.l2 \cup {b}
    BY <1>17, AllocMarkFreeOK, ZenonT(30) DEF freeBlockNow, StateOK
  <2>3. PoolOK(pool)' /\ (ZeroFree \/ 0 \notin pool'.l2)
    BY <2>1, <2>2, ZenonT(30) DEF PoolOK, StateOK, DataBlocks
  <2>4. half' = None \/ half' = [half EXCEPT !.run = @ \ {b}]
    BY <1>17, ZenonT(30) DEF freeBlockNow
  <2>5. half' = None \/ (/\ half' \in [order : FreeOrders \cup {"free"}, run : SUBSET DataBlocks]
                         /\ half'.run = half.run \ {b})
    BY <2>1, <2>4, SMTT(60)
  <2>6. half.run \cap (pool.l2 \cup owned \cup pendingFrees \cup taken["sync"] \cup taken["fsync"]) = {}
    BY <2>1, ZenonT(30) DEF HalfApart
  <2>7. Apart'
    <3>1. b \notin owned \cup pendingFrees \cup taken["sync"] \cup taken["fsync"]
      BY <2>1, <2>6, ZenonT(30)
    <3>2. pool.l2 \cap (owned \cup pendingFrees \cup taken["sync"] \cup taken["fsync"]) = {}
      BY ZenonT(30) DEF Apart
    <3>3. pool'.l2 \cap (owned \cup pendingFrees \cup taken["sync"] \cup taken["fsync"]) = {}
      BY <2>2, <3>1, <3>2, ZenonT(30)
    <3> QED
      BY <2>1, <3>3, ZenonT(30) DEF Apart
  <2>8. HalfApart'
    BY <2>1, <2>2, <2>5, <2>6, ZenonT(30) DEF HalfApart
  <2> QED
    BY <2>1, <2>3, <2>5, <2>7, <2>8, ZenonT(30) DEF StateOK
<1>13. ASSUME NEW run \in Runs, FreeRun(run) PROVE AllocInv'
  <2>1. run \in SUBSET DataBlocks /\ run \subseteq owned /\ owned' = owned \ run
    BY <1>13, ZenonT(30) DEF FreeRun, StateOK
  <2>2. PoolOK(pool)' /\ (ZeroFree \/ 0 \notin pool'.l2) /\ pool'.l2 = pool.l2 \cup run
    BY <1>13, <2>1, FreeKeeps, ZenonT(30) DEF FreeRun
  <2>3. Apart'
    BY <1>13, <2>1, <2>2, ZenonT(30) DEF FreeRun, Apart, frees
  <2>4. HalfApart'
    BY <1>13, <2>1, <2>2, ZenonT(30) DEF FreeRun, HalfApart, frees
  <2> QED
    BY <1>13, <2>1, <2>2, <2>3, <2>4, ZenonT(30) DEF StateOK, FreeRun, frees
<1>14. ASSUME NEW n \in Shields, AdjustShield(n) PROVE AllocInv'
  BY <1>14, ZenonT(30) DEF StateOK, Apart, HalfApart, AdjustShield, frees
<1>15. CASE UNCHANGED vars
  BY <1>15, ZenonT(30) DEF StateOK, Apart, HalfApart, vars, heap, frees
<1> QED
  BY <1>1, <1>2, <1>3, <1>4, <1>5, <1>6, <1>7, <1>8, <1>9, <1>10, <1>11, <1>12, <1>13, <1>14, <1>15, <1>16, <1>17,
     ZenonT(30) DEF Next

(* The allocator's inductive invariant.                                    *)
THEOREM InvariantHolds == Spec => []AllocInv
  BY InitHolds, NextHolds, PTL DEF Spec

(* No interleaving of scans, frees and drains hands a block out twice or   *)
(* frees it twice (fuse/fs.go, deferBlockFree and SyncMeta).               *)
THEOREM BlocksInOnePlace == Spec => []NoDoubleUse
  BY InvariantHolds, ApartIsNoDoubleUse, PTL DEF AllocInv

(* The summary levels of the bitmap are exact after every scan and free    *)
(* (AllocMarkAllocated, AllocMarkFreeRun, tryAllocBlock).                  *)
THEOREM SummariesStayExact == Spec => []SummariesExact
<1>1. AllocInv => SummariesExact
  BY ZenonT(30) DEF AllocInv, StateOK, PoolOK, SummariesExact
<1> QED
  BY <1>1, InvariantHolds, PTL

(* The free count fsck compares with the bitmap is the number of its bits. *)
THEOREM FreeCountStaysExact == Spec => []FreeCountExact
<1>1. AllocInv => FreeCountExact
  BY ZenonT(30) DEF AllocInv, StateOK, PoolOK, FreeCountExact
<1> QED
  BY <1>1, InvariantHolds, PTL

-----------------------------------------------------------------------------
(* A set of blocks that is not empty has a greatest element.               *)
LEMMA MaxIsIn ==
  ASSUME NEW S \in SUBSET AllBlocks, S # {}
  PROVE  \E m \in S : \A y \in S : y <= m
<1> DEFINE T == {BlockCount - x : x \in S}
<1>1. \A x \in S : x \in Nat /\ x < BlockCount
  BY SMTT(60) DEF AllBlocks
<1>2. T \in SUBSET Nat /\ T # {}
  BY <1>1, SMTT(60)
<1>3. Min(T) \in T /\ \A y \in T : Min(T) <= y
  BY <1>2, MinIsIn, ZenonT(60)
<1>4. PICK m \in S : Min(T) = BlockCount - m
  BY <1>3, ZenonT(60)
<1>5. \A y \in S : BlockCount - m <= BlockCount - y
  BY <1>3, <1>4, ZenonT(30)
<1> QED
  BY <1>1, <1>5, SMTT(60)

(* The scan that is cut off after n blocks hands out at most n, and one if *)
(* there is one.                                                           *)
LEMMA scanRunsCount ==
  ASSUME NEW p, PoolOK(p), NEW n \in Nat
  PROVE  /\ Cardinality(scanRuns(p, n)) <= n
         /\ p.l2 # {} /\ n # 0 => scanRuns(p, n) # {}
<1> DEFINE S == scanRuns(p, n)
           below(b) == {c \in p.l2 : c < b}
<1>1. p.l2 \in SUBSET AllBlocks /\ p.l2 \in SUBSET Nat
  BY BlocksFinite, ZenonT(60) DEF PoolOK, PoolType
<1>2. /\ S \in SUBSET p.l2 /\ \A b \in S : Cardinality(below(b)) < n
      /\ \A b \in p.l2 : Cardinality(below(b)) < n => b \in S
  BY ZenonT(30) DEF scanRuns
<1> HIDE DEF S
<1>3. CASE S = {}
  <2>1. Cardinality(S) <= n
    BY <1>3, FS_EmptySet, SMTT(60)
  <2>2. ASSUME p.l2 # {}, n # 0 PROVE FALSE
    <3>1. Min(p.l2) \in p.l2 /\ \A y \in p.l2 : Min(p.l2) <= y
      BY <1>1, <2>2, MinIsIn, ZenonT(30)
    <3>2. below(Min(p.l2)) = {}
      BY <1>1, <3>1, SMTT(60)
    <3> QED
      BY <1>2, <1>3, <2>2, <3>1, <3>2, FS_EmptySet, SMTT(60)
  <2> QED
    BY <1>3, <2>1, <2>2, ZenonT(30) DEF S
<1>4. CASE S # {}
  <2>1. PICK m \in S : \A y \in S : y <= m
    BY <1>1, <1>2, <1>4, MaxIsIn, ZenonT(30)
  <2>2. S \ {m} \subseteq below(m)
    BY <1>1, <1>2, <2>1, SMTT(60)
  <2>3. /\ IsFiniteSet(S) /\ Cardinality(S) \in Nat
        /\ IsFiniteSet(below(m)) /\ Cardinality(below(m)) \in Nat
    <3>1. S \in SUBSET AllBlocks /\ below(m) \in SUBSET AllBlocks
      BY <1>1, <1>2, ZenonT(30)
    <3> QED
      BY <3>1, BlocksFinite, ZenonT(30)
  <2>4. Cardinality(S \ {m}) = Cardinality(S) - 1
    BY <2>1, <2>3, FS_RemoveElement, ZenonT(60)
  <2>5. Cardinality(S \ {m}) <= Cardinality(below(m))
    BY <2>2, <2>3, FS_Subset, ZenonT(30)
  <2>6. Cardinality(below(m)) < n
    BY <1>2, <2>1, ZenonT(30)
  <2>7. Cardinality(S) <= n
    BY <2>3, <2>4, <2>5, <2>6, SMTT(60)
  <2> QED
    BY <1>4, <2>7, ZenonT(30) DEF S
<1> QED
  BY <1>3, <1>4, ZenonT(30)

(* With block 0 in use a scan takes its blocks from the pool as it is.     *)
LEMMA ZeroReserved ==
  ASSUME StateOK, ~ZeroFree
  PROVE  reserveBlockZero(pool) = pool
  BY ZenonT(30) DEF StateOK, reserveBlockZero, AllocMarkAllocated

(* The least of a request and what is available to it.                     *)
LEMMA LeastOfTwo ==
  ASSUME NEW a \in Nat, NEW b \in Nat
  PROVE  /\ Min({a, b}) \in Nat /\ Min({a, b}) <= a /\ Min({a, b}) <= b
         /\ Min({a, b}) = a \/ Min({a, b}) = b
<1>1. Min({a, b}) \in {a, b} /\ \A y \in {a, b} : Min({a, b}) <= y
  BY MinIsIn, ZenonT(30)
<1> QED
  BY <1>1, ZenonT(30)

LEMMA PoolCounted ==
  ASSUME StateOK
  PROVE  /\ pool.l2 \in SUBSET AllBlocks /\ pool.freeCount = Cardinality(pool.l2)
         /\ Cardinality(pool.l2) \in Nat /\ Cardinality(pool.l2) <= BlockCount
         /\ Cardinality(pool.l2) = 0 <=> pool.l2 = {}
<1>1. pool.l2 \in SUBSET AllBlocks /\ pool.freeCount = Cardinality(pool.l2)
  BY ZenonT(30) DEF StateOK, PoolOK, PoolType
<1>2. IsFiniteSet(pool.l2) /\ Cardinality(pool.l2) \in Nat
  BY <1>1, BlocksFinite, ZenonT(30)
<1>3. Cardinality(AllBlocks) = BlockCount
  BY FS_Interval, SMTT(60) DEF AllBlocks
<1>4. Cardinality(pool.l2) <= BlockCount
  BY <1>1, <1>3, BlocksFinite, FS_Subset, ZenonT(30)
<1> QED
  BY <1>1, <1>2, <1>4, FS_EmptySet, ZenonT(30)

(* What a pass does for each kind of request once block 0 is in use.       *)
LEMMA TryCases ==
  ASSUME StateOK, ~ZeroFree, NEW r \in Requests
  PROVE  LET fail == [pool |-> pool, got |-> {}]
             take(S) == [pool |-> ClearBits(pool, S), got |-> S]
             k == Min({r.n, dataAvail})
         IN /\ r.kind = "meta" => Try(r) = IF pool.freeCount = 0 THEN fail ELSE scanBlock(pool)
            /\ r.kind = "data" => Try(r) = IF dataAvail = 0 THEN fail ELSE scanBlock(pool)
            /\ r.kind = "run"  => Try(r) = IF r.n > dataAvail \/ r.n > BlockCount THEN fail
                                         ELSE take(scanRun(pool, r.n))
            /\ r.kind = "upto" => Try(r) = IF k = 0 \/ k > BlockCount THEN fail
                                         ELSE take(scanRuns(pool, k))
<1>1. reserveBlockZero(pool) = pool
  BY ZeroReserved, ZenonT(30)
<1> QED
  BY <1>1, ZenonT(30) DEF Try

(* A pass that hands out nothing could not have.                           *)
LEMMA TryFails ==
  ASSUME StateOK, ~ZeroFree, NEW r \in Requests, Try(r).got = {}
  PROVE  ~Satisfiable(r)
<1> DEFINE data == Cardinality(pool.l2) - metaShield
<1>1. /\ PoolOK(pool) /\ metaShield \in Nat /\ 0 \notin pool.l2
      /\ dataAvail \in Nat /\ dataAvail <= pool.freeCount
  BY dataAvailTyped, ZenonT(30) DEF StateOK
<1>2. dataAvail = IF data > 0 THEN data ELSE 0
  BY <1>1, PoolCounted, SMTT(60) DEF dataAvail
<1>3. ASSUME scanBlock(pool).got = {} PROVE pool.l2 = {}
  <2>1. \A b \in pool.l2 : {b} \ {0} # {}
    BY <1>1, ZenonT(30)
  <2> QED
    BY <1>1, <1>3, <2>1, scanBlockOK, ZenonT(60)
<1>4. CASE r.kind = "meta"
  <2>1. pool.l2 = {}
    BY <1>3, <1>4, TryCases, PoolCounted, ZenonT(60)
  <2> QED
    BY <1>4, <2>1, ZenonT(30) DEF Satisfiable
<1>5. CASE r.kind = "data"
  <2>1. dataAvail = 0 \/ pool.l2 = {}
    BY <1>3, <1>5, TryCases, ZenonT(60)
  <2>2. ~(data > 0)
    BY <1>1, <1>2, <2>1, PoolCounted, SMTT(60)
  <2>3. Satisfiable(r) <=> data > 0
    BY <1>5, ZenonT(30) DEF Satisfiable
  <2> QED
    BY <2>2, <2>3, ZenonT(30)
<1>6. CASE r.kind = "run"
  <2>1. r.n \in Nat \ {0}
    BY <1>6, ZenonT(60) DEF Requests
  <2>2. r.n > dataAvail \/ r.n > BlockCount \/ scanRun(pool, r.n) = {}
    <3>1. Try(r) = IF r.n > dataAvail \/ r.n > BlockCount THEN [pool |-> pool, got |-> {}]
                   ELSE [pool |-> ClearBits(pool, scanRun(pool, r.n)), got |-> scanRun(pool, r.n)]
      BY <1>6, TryCases, ZenonT(60)
    <3> QED
      BY <3>1, SMTT(60)
  <2>3. Satisfiable(r) <=> /\ data >= r.n
                           /\ \E s \in pool.l2 : s..(s + r.n - 1) \subseteq pool.l2
    BY <1>6, ZenonT(30) DEF Satisfiable
  <2>4. CASE r.n > dataAvail \/ r.n > BlockCount
    BY <1>1, <1>2, <2>1, <2>3, <2>4, PoolCounted, SMTT(60)
  <2>5. CASE scanRun(pool, r.n) = {}
    <3>1. \A s \in pool.l2 : s..(s + r.n - 1) # {}
      <4>1. \A s \in pool.l2 : s \in Nat
        BY PoolCounted, BlocksFinite, ZenonT(60)
      <4>2. \A s \in pool.l2 : s \in s..(s + r.n - 1)
        BY <2>1, <4>1, SMTT(60)
      <4> QED
        BY <4>2, ZenonT(30)
    <3> QED
      BY <1>1, <2>1, <2>3, <2>5, <3>1, scanRunOK, ZenonT(60)
  <2> QED
    BY <2>2, <2>4, <2>5, ZenonT(30)
<1>7. CASE r.kind = "upto"
  <2> DEFINE k == Min({r.n, dataAvail})
  <2>1. r.n \in Nat \ {0}
    BY <1>7, ZenonT(60) DEF Requests
  <2>2. k \in Nat /\ k <= dataAvail /\ (k = r.n \/ k = dataAvail)
    BY <1>1, <2>1, LeastOfTwo, ZenonT(30)
  <2>3. k = 0 \/ k > BlockCount \/ scanRuns(pool, k) = {}
    BY <1>7, TryCases, SMTT(60)
  <2>4. Satisfiable(r) <=> data > 0
    BY <1>7, ZenonT(30) DEF Satisfiable
  <2>5. ~(k > BlockCount)
    BY <1>1, <2>2, PoolCounted, SMTT(60)
  <2> HIDE DEF k
  <2>6. k = 0 \/ pool.l2 = {}
    BY <1>1, <2>2, <2>3, <2>5, scanRunsCount, ZenonT(30)
  <2>7. ~(data > 0)
    BY <1>1, <1>2, <2>1, <2>2, <2>6, PoolCounted, SMTT(60)
  <2> QED
    BY <2>4, <2>7, ZenonT(30)
<1> QED
  BY <1>4, <1>5, <1>6, <1>7, ZenonT(30) DEF Requests

(* A pass for data leaves the shield.                                      *)
LEMMA TryShielded ==
  ASSUME StateOK, ~ZeroFree, NEW r \in Requests, r.kind # "meta", Try(r).got # {}
  PROVE  Cardinality(Try(r).pool.l2) >= metaShield
<1>1. /\ PoolOK(pool) /\ metaShield \in Nat /\ 0 \notin pool.l2
      /\ dataAvail \in Nat /\ dataAvail <= pool.freeCount
  BY dataAvailTyped, ZenonT(30) DEF StateOK
<1>2. dataAvail # 0 => dataAvail = Cardinality(pool.l2) - metaShield
  BY <1>1, PoolCounted, ZenonT(30) DEF dataAvail
<1>3. ASSUME NEW S \in SUBSET pool.l2, Cardinality(S) <= dataAvail, dataAvail # 0
      PROVE  Cardinality(pool.l2 \ S) >= metaShield
  <2>1. Cardinality(S) \in Nat
    BY <1>3, PoolCounted, BlocksFinite, ZenonT(30)
  <2>2. Cardinality(pool.l2 \ S) = Cardinality(pool.l2) - Cardinality(S)
    BY <1>3, PoolCounted, CountLess, ZenonT(30)
  <2> QED
    BY <1>1, <1>2, <1>3, <2>1, <2>2, PoolCounted, SMTT(60)
<1>4. CASE r.kind = "data"
  <2>1. dataAvail # 0 /\ Try(r) = scanBlock(pool)
    <3>1. Try(r) = IF dataAvail = 0 THEN [pool |-> pool, got |-> {}] ELSE scanBlock(pool)
      BY <1>4, TryCases, ZenonT(60)
    <3> QED
      BY <3>1, SMTT(60)
  <2>2. PICK b \in pool.l2 : Try(r).pool.l2 = pool.l2 \ {b}
    BY <1>1, <2>1, scanBlockOK, ZenonT(30)
  <2>3. Cardinality({b}) = 1
    BY FS_Singleton, ZenonT(30)
  <2> QED
    BY <1>1, <1>3, <2>1, <2>2, <2>3, SMTT(60)
<1>5. CASE r.kind = "run"
  <2>1. r.n \in Nat \ {0}
    BY <1>5, ZenonT(60) DEF Requests
  <2>2. /\ ~(r.n > dataAvail) /\ scanRun(pool, r.n) # {}
        /\ Try(r).pool = ClearBits(pool, scanRun(pool, r.n))
    <3>1. Try(r) = IF r.n > dataAvail \/ r.n > BlockCount THEN [pool |-> pool, got |-> {}]
                   ELSE [pool |-> ClearBits(pool, scanRun(pool, r.n)), got |-> scanRun(pool, r.n)]
      BY <1>5, TryCases, ZenonT(60)
    <3> QED
      BY <3>1, SMTT(60)
  <2>3. PICK s \in pool.l2 : scanRun(pool, r.n) = s..(s + r.n - 1)
    BY <1>1, <2>1, <2>2, scanRunOK, ZenonT(30)
  <2>4. scanRun(pool, r.n) \subseteq pool.l2
    BY <1>1, <2>1, <2>2, scanRunOK, ZenonT(30)
  <2>5. Cardinality(scanRun(pool, r.n)) = r.n
    <3> DEFINE e == s + r.n - 1
    <3>1. s \in Nat /\ e \in Int /\ ~(s > e) /\ e - s + 1 = r.n
      BY <2>1, PoolCounted, BlocksFinite, SMTT(60)
    <3> HIDE DEF e
    <3>2. Cardinality(s..e) = r.n
      BY <3>1, FS_Interval, SMTT(60)
    <3> QED
      BY <2>3, <3>2, ZenonT(30) DEF e
  <2>6. Try(r).pool.l2 = pool.l2 \ scanRun(pool, r.n)
    BY <1>1, <2>2, <2>4, ClearBitsOK, ZenonT(30)
  <2> QED
    BY <1>1, <1>3, <2>1, <2>2, <2>4, <2>5, <2>6, SMTT(60)
<1>6. CASE r.kind = "upto"
  <2> DEFINE k == Min({r.n, dataAvail})
  <2>1. k \in Nat /\ k <= dataAvail
    BY <1>1, <1>6, LeastOfTwo, ZenonT(60) DEF Requests
  <2>2. k # 0 /\ Try(r).pool = ClearBits(pool, scanRuns(pool, k))
    BY <1>6, TryCases, SMTT(60)
  <2> HIDE DEF k
  <2>3. scanRuns(pool, k) \in SUBSET pool.l2
    BY ZenonT(30) DEF scanRuns
  <2>4. Cardinality(scanRuns(pool, k)) <= k
    BY <1>1, <2>1, scanRunsCount, ZenonT(30)
  <2>5. Try(r).pool.l2 = pool.l2 \ scanRuns(pool, k)
    BY <1>1, <2>2, <2>3, ClearBitsOK, ZenonT(30)
  <2>6. Cardinality(scanRuns(pool, k)) \in Nat
    BY <2>3, PoolCounted, BlocksFinite, ZenonT(30)
  <2> QED
    BY <1>1, <1>3, <2>1, <2>2, <2>3, <2>4, <2>5, <2>6, SMTT(60)
<1> QED
  BY <1>4, <1>5, <1>6, ZenonT(30) DEF Requests

(* Only a first scan that found nothing turns a thread to its reclaim.     *)
LEMMA CallsBegin ==
  ASSUME StateOK, [Next]_vars, NEW c \in Callers, call[c] = None, call'[c] # None
  PROVE  \E r \in Requests : Try(r).got = {} /\ call'[c].r = r
<1>1. ASSUME NEW d \in Callers, NEW r \in Requests, Scan(d, r)
      PROVE  Try(r).got = {} /\ call'[c].r = r
  <2>1. \/ call' = call
        \/ /\ Try(r).got = {}
           /\ call' = [call EXCEPT ![d] = [r |-> r, pc |-> "reclaim", missed |-> InFlight]]
    BY <1>1, ZenonT(30) DEF Scan
  <2> QED
    BY <2>1, SMTT(60) DEF StateOK
<1>2. ASSUME NEW d \in Callers, ReclaimNothing(d) \/ ReclaimSync(d) \/ SyncClean(d) \/ Retry(d)
      PROVE  FALSE
  BY <1>2, ZenonT(30) DEF StateOK, ReclaimNothing, ReclaimSync, SyncClean, Retry
<1>3. ASSUME SyncEnd PROVE FALSE
  BY <1>3, ZenonT(30) DEF StateOK, SyncEnd
<1>4. ASSUME UNCHANGED call PROVE FALSE
  BY <1>4, ZenonT(30)
<1>5. ASSUME NEW t \in Callers \cup {Syncer}, SyncCommit(t) PROVE UNCHANGED call
  BY <1>5, ZenonT(30) DEF SyncCommit
<1>6. /\ SyncTake \/ FsyncTake \/ FreeEnd => UNCHANGED call
      /\ \A b \in AllBlocks : freeBlockNow(b) => UNCHANGED call
  BY ZenonT(60) DEF SyncTake, FsyncTake, FreeEnd, freeBlockNow
<1>7. \A order \in FreeOrders, run \in Runs : FreeBegin(order, run) => UNCHANGED call
  BY ZenonT(30) DEF FreeBegin
<1>8. \A run \in Runs : SyncApply(run) \/ FsyncApply(run) \/ FreeRun(run) => UNCHANGED call
  BY ZenonT(30) DEF SyncApply, FsyncApply, FreeRun
<1>9. \A n \in Shields : AdjustShield(n) => UNCHANGED call
  BY ZenonT(30) DEF AdjustShield
<1>10. UNCHANGED vars => UNCHANGED call
  BY ZenonT(30) DEF vars
<1> QED
  BY <1>1, <1>2, <1>3, <1>4, <1>5, <1>6, <1>7, <1>8, <1>9, <1>10, ZenonT(60) DEF Next

(* While block 0 is in use, as it is in every pool but one that fsck       *)
(* rebuilt, a scan that finds nothing ran on a pool that could not satisfy *)
(* the request: the summaries never hide a free block (fs.go:97-98).       *)
THEOREM ScansMissNothing == ~ZeroFree => (Spec => ScanFindsFreeBlocks)
<1> SUFFICES ASSUME ~ZeroFree PROVE Spec => ScanFindsFreeBlocks
  BY ZenonT(30)
<1>1. AllocInv /\ [Next]_vars =>
        [\A c \in Callers : call[c] = None /\ call'[c] # None => ~Satisfiable(call'[c].r)]_vars
  <2> SUFFICES ASSUME AllocInv, [Next]_vars, NEW c \in Callers, call[c] = None, call'[c] # None
               PROVE  ~Satisfiable(call'[c].r)
    BY ZenonT(30)
  <2>1. PICK r \in Requests : Try(r).got = {} /\ call'[c].r = r
    BY CallsBegin, ZenonT(30) DEF AllocInv
  <2> QED
    BY <2>1, TryFails, ZenonT(30) DEF AllocInv
<1> QED
  BY <1>1, InvariantHolds, PTL DEF Spec, ScanFindsFreeBlocks

(* There too, no scan for data takes the blocks the shield reserves for    *)
(* metadata (fs.go:132-136).                                               *)
THEOREM ShieldHolds == ~ZeroFree => (Spec => ShieldIsKept)
<1> SUFFICES ASSUME ~ZeroFree PROVE Spec => ShieldIsKept
  BY ZenonT(30)
<1> DEFINE Kept == \A c \in Callers, r \in Requests :
                     /\ owned' # owned /\ r.kind # "meta"
                     /\ Scan(c, r) \/ (call[c] # None /\ call[c].r = r /\ Retry(c))
                     => Cardinality(pool'.l2) >= metaShield
<1>1. AllocInv /\ [Next]_vars => [Kept]_vars
  <2> SUFFICES ASSUME AllocInv, NEW c \in Callers, NEW r \in Requests,
                      owned' # owned, r.kind # "meta",
                      Scan(c, r) \/ (call[c] # None /\ call[c].r = r /\ Retry(c))
               PROVE  Cardinality(pool'.l2) >= metaShield
    BY ZenonT(30)
  <2>1. pool' = Try(r).pool /\ owned' = owned \cup Try(r).got
    BY ZenonT(30) DEF Scan, Retry
  <2>2. Try(r).got # {}
    BY <2>1, ZenonT(30)
  <2>3. Cardinality(Try(r).pool.l2) >= metaShield
    BY <2>2, TryShielded, ZenonT(30) DEF AllocInv
  <2> QED
    BY <2>1, <2>3, ZenonT(30)
<1> QED
  BY <1>1, InvariantHolds, PTL DEF Spec, ShieldIsKept

-----------------------------------------------------------------------------
(* Where no Fsync drains beside the journal lock and every free is         *)
(* journaled before it is queued: a freed block whose record is not        *)
(* committed is still in the queue or in the hands of the freeing          *)
(* operation, and a drain runs with everything committed.                  *)
CommitInv ==
  /\ taken["fsync"] = {}
  /\ jmu = None \/ jmu.stage = "take" => taken["sync"] = {}
  /\ jmu # None => logged = {}
  /\ \A b \in logged : b \in pendingFrees \/ (half # None /\ b \in half.run)
  /\ half # None /\ half.order = "free" => half.run \cap logged = {}

LEMMA CommitInvHolds ==
  ASSUME ~FsyncDrains, "defer" \notin FreeOrders
  PROVE  StateOK /\ CommitInv /\ [Next]_vars => CommitInv'
<1> SUFFICES ASSUME StateOK, CommitInv, [Next]_vars PROVE CommitInv'
  BY ZenonT(30)
<1>1. ASSUME UNCHANGED frees PROVE CommitInv'
  BY <1>1, ZenonT(30) DEF CommitInv, frees
<1>2. ASSUME NEW c \in Callers, NEW r \in Requests, Scan(c, r) PROVE UNCHANGED frees
  BY <1>2, ZenonT(30) DEF Scan
<1>3. ASSUME NEW c \in Callers, ReclaimNothing(c) \/ ReclaimSync(c) \/ SyncClean(c) \/ Retry(c)
      PROVE  UNCHANGED frees
  BY <1>3, ZenonT(30) DEF ReclaimNothing, ReclaimSync, SyncClean, Retry
<1>4. ASSUME NEW t \in Callers \cup {Syncer}, SyncCommit(t) PROVE CommitInv'
  BY <1>4, ZenonT(30) DEF CommitInv, SyncCommit
<1>5. CASE SyncTake
  <2>1. taken'["fsync"] = taken["fsync"] /\ logged = {} /\ logged' = {}
    BY <1>5, ZenonT(30) DEF SyncTake, StateOK, CommitInv
  <2>2. jmu \in [who : Callers \cup {Syncer}, stage : {"take", "apply"}]
    BY <1>5, ZenonT(30) DEF SyncTake, StateOK
  <2>3. jmu' \in [who : Callers \cup {Syncer}, stage : {"take", "apply"}] /\ jmu'.stage = "apply"
    BY <1>5, <2>2, ZenonT(30) DEF SyncTake
  <2>4. jmu' # None
    BY <2>3, NoneIsAMark, ZenonT(30)
  <2> QED
    BY <2>1, <2>3, <2>4, ZenonT(30) DEF CommitInv
<1>6. ASSUME NEW run \in Runs, SyncApply(run) PROVE CommitInv'
  <2>1. taken'["fsync"] = taken["fsync"]
    BY <1>6, ZenonT(30) DEF SyncApply, StateOK
  <2>2. jmu # None /\ jmu.stage = "apply" /\ UNCHANGED <<jmu, half, logged, pendingFrees>>
    BY <1>6, ZenonT(30) DEF SyncApply
  <2> QED
    BY <2>1, <2>2, ZenonT(30) DEF CommitInv
<1>13. CASE SyncEnd
  BY <1>13, ZenonT(30) DEF CommitInv, SyncEnd
<1>7. ~FsyncTake /\ \A run \in Runs : ~FsyncApply(run)
  <2>1. \A run \in Runs : run # {}
    BY ZenonT(30) DEF Runs
  <2> QED
    BY <2>1, ZenonT(30) DEF FsyncTake, FsyncApply, CommitInv
<1>8. ASSUME NEW order \in FreeOrders, NEW run \in Runs, FreeBegin(order, run) PROVE CommitInv'
  <2>1. half = None /\ jmu = None /\ logged' = logged \cup run
    BY <1>8, ZenonT(30) DEF FreeBegin
  <2>2. half' = [order |-> order, run |-> run] /\ run \in SUBSET AllBlocks
    BY <1>8, ZenonT(30) DEF FreeBegin, StateOK, DataBlocks
  <2>3. half' # None
    BY <2>2, NoneIsAMark, SMTT(60)
  <2> QED
    BY <1>8, <2>1, <2>2, <2>3, SMTT(60) DEF CommitInv, FreeBegin
<1>9. CASE FreeEnd
  <2>1. /\ half # None /\ half.order \in {"log", "now"} /\ UNCHANGED <<taken, jmu>>
        /\ half \in [order : FreeOrders \cup {"free"}, run : SUBSET DataBlocks]
    BY <1>9, ZenonT(30) DEF FreeEnd, StateOK
  <2>2. CASE half.order = "log"
    <3>1. pendingFrees' = pendingFrees \cup half.run /\ UNCHANGED logged /\ half' = None
      BY <1>9, <2>2, ZenonT(30) DEF FreeEnd
    <3> QED
      BY <2>1, <3>1, ZenonT(30) DEF CommitInv
  <2>3. CASE half.order = "now"
    <3>1. /\ half.run \cap logged = {} /\ UNCHANGED <<pendingFrees, logged>>
          /\ half' = [half EXCEPT !.order = "free"]
      BY <1>9, <2>3, ZenonT(30) DEF FreeEnd
    <3>2. half'.run = half.run
      BY <2>1, <3>1, SMTT(60)
    <3> QED
      BY <2>1, <3>1, <3>2, ZenonT(30) DEF CommitInv
  <2> QED
    BY <2>1, <2>2, <2>3, ZenonT(30)
<1>14. ASSUME NEW b \in AllBlocks, freeBlockNow(b) PROVE CommitInv'
  <2>1. /\ half # None /\ half.order = "free" /\ UNCHANGED <<taken, jmu, pendingFrees, logged>>
        /\ half \in [order : FreeOrders \cup {"free"}, run : SUBSET DataBlocks]
    BY <1>14, ZenonT(30) DEF freeBlockNow, StateOK
  <2>2. half' = None \/ half' = [half EXCEPT !.run = @ \ {b}]
    BY <1>14, ZenonT(30) DEF freeBlockNow
  <2>3. half' = None \/ half'.run = half.run \ {b}
    BY <2>1, <2>2, SMTT(60)
  <2> QED
    BY <2>1, <2>3, ZenonT(30) DEF CommitInv
<1>10. ASSUME NEW run \in Runs, FreeRun(run) PROVE UNCHANGED frees
  BY <1>10, ZenonT(30) DEF FreeRun
<1>11. ASSUME NEW n \in Shields, AdjustShield(n) PROVE UNCHANGED frees
  BY <1>11, ZenonT(30) DEF AdjustShield
<1>12. UNCHANGED vars => UNCHANGED frees
  BY ZenonT(30) DEF vars
<1> QED
  BY <1>1, <1>2, <1>3, <1>4, <1>5, <1>6, <1>7, <1>8, <1>9, <1>10, <1>11, <1>12, <1>13, <1>14,
     ZenonT(30) DEF Next

(* Under those two conditions "a freed block can never be reallocated      *)
(* while the last committed on-disk state still references it"             *)
(* (fuse.go:87-94).                                                        *)
THEOREM FreesWaitForCommit ==
  ~FsyncDrains /\ "defer" \notin FreeOrders => (Spec => []FreedAfterCommit)
<1> SUFFICES ASSUME ~FsyncDrains, "defer" \notin FreeOrders PROVE Spec => []FreedAfterCommit
  BY ZenonT(30)
<1>1. Init => CommitInv
  BY ZenonT(30) DEF Init, CommitInv
<1>2. StateOK /\ CommitInv /\ [Next]_vars => CommitInv'
  BY CommitInvHolds, ZenonT(30)
<1>3. AllocInv /\ CommitInv => FreedAfterCommit
  <2> SUFFICES ASSUME AllocInv, CommitInv PROVE FreedAfterCommit
    BY ZenonT(30)
  <2>1. half # None => half.order # "defer"
    BY ZenonT(30) DEF AllocInv, StateOK
  <2>2. \A b \in logged : b \notin pool.l2
    BY <2>1, ZenonT(30) DEF AllocInv, Apart, HalfApart, CommitInv
  <2> QED
    BY <2>1, <2>2, ZenonT(30) DEF FreedAfterCommit
<1>4. AllocInv => StateOK
  BY ZenonT(30) DEF AllocInv
<1> QED
  BY <1>1, <1>2, <1>3, <1>4, InvariantHolds, PTL DEF Spec

-----------------------------------------------------------------------------
(* Freeing the blocks of a set one by one, in any order, is one run: what  *)
(* a fold that satisfies the recursion computes.                           *)
FoldEquation(f, p, run) ==
  f = [s \in SUBSET run |->
        IF s = {} THEN p
        ELSE AllocMarkFree(f[s \ {CHOOSE x \in s : TRUE}], CHOOSE x \in s : TRUE)]

LEMMA RunStep ==
  ASSUME NEW p, PoolOK(p), NEW s, NEW x \in s
  PROVE  AllocMarkFree(SetRun(p, s \ {x}), x) = SetRun(p, s)
<1> DEFINE q == SetRun(p, s \ {x})
<1>1. PoolOK(q) /\ q.l2 = p.l2 \cup ((s \ {x}) \cap AllBlocks)
  BY SetRunOK, ZenonT(30)
<1>2. PoolOK(SetRun(p, s)) /\ SetRun(p, s).l2 = p.l2 \cup (s \cap AllBlocks)
  BY SetRunOK, ZenonT(30)
<1> HIDE DEF q
<1>3. ASSUME x \in AllBlocks PROVE AllocMarkFree(q, x) = SetRun(p, s)
  <2>1. PoolOK(AllocMarkFree(q, x)) /\ AllocMarkFree(q, x).l2 = q.l2 \cup {x}
    BY <1>1, <1>3, AllocMarkFreeOK, ZenonT(30)
  <2>2. AllocMarkFree(q, x).l2 = SetRun(p, s).l2
    BY <1>1, <1>2, <1>3, <2>1, ZenonT(30)
  <2> QED
    BY <1>2, <2>1, <2>2, PoolIsItsBlocks, ZenonT(60)
<1>4. ASSUME x \notin AllBlocks PROVE AllocMarkFree(q, x) = SetRun(p, s)
  <2>1. AllocMarkFree(q, x) = q
    BY <1>4, ZenonT(30) DEF AllocMarkFree
  <2>2. q.l2 = SetRun(p, s).l2
    BY <1>1, <1>2, <1>4, ZenonT(30)
  <2> QED
    BY <1>1, <1>2, <2>1, <2>2, PoolIsItsBlocks, ZenonT(60)
<1>5. AllocMarkFree(q, x) = SetRun(p, s)
  BY <1>3, <1>4, ZenonT(30)
<1> QED
  BY <1>5, ZenonT(30) DEF q

LEMMA RunSolves ==
  ASSUME NEW p, PoolOK(p), NEW run
  PROVE  FoldEquation([s \in SUBSET run |-> SetRun(p, s)], p, run)
<1> DEFINE F == [s \in SUBSET run |-> SetRun(p, s)]
           c(s) == CHOOSE x \in s : TRUE
<1>1. SetRun(p, {}) = p
  <2>1. PoolOK(SetRun(p, {})) /\ SetRun(p, {}).l2 = p.l2 \cup ({} \cap AllBlocks)
    BY SetRunOK, ZenonT(60)
  <2>2. p.l2 \cup ({} \cap AllBlocks) = p.l2
    BY ZenonT(30)
  <2> QED
    BY <2>1, <2>2, PoolIsItsBlocks, ZenonT(30)
<1>2. ASSUME NEW s \in SUBSET run, s # {}
      PROVE  SetRun(p, s) = AllocMarkFree(F[s \ {c(s)}], c(s))
  <2>1. c(s) \in s
    BY <1>2, ZenonT(30)
  <2> HIDE DEF c
  <2>2. s \ {c(s)} \in SUBSET run
    BY ZenonT(30)
  <2>3. F[s \ {c(s)}] = SetRun(p, s \ {c(s)})
    BY <2>2, ZenonT(30)
  <2> QED
    BY <2>1, <2>2, <2>3, RunStep, ZenonT(30)
<1> QED
  BY <1>1, <1>2, ZenonT(60) DEF FoldEquation

(* Two solutions of the recursion agree: on the sets with few elements     *)
(* first.                                                                  *)
LEMMA FoldUnique ==
  ASSUME NEW p, NEW run, IsFiniteSet(run), NEW f, NEW g, FoldEquation(f, p, run), FoldEquation(g, p, run)
  PROVE  f = g
<1> DEFINE c(s) == CHOOSE x \in s : TRUE
           bad == {s \in SUBSET run : f[s] # g[s]}
           sizes == {Cardinality(s) : s \in bad}
<1>1. \A s \in SUBSET run : /\ f[s] = IF s = {} THEN p ELSE AllocMarkFree(f[s \ {c(s)}], c(s))
                            /\ g[s] = IF s = {} THEN p ELSE AllocMarkFree(g[s \ {c(s)}], c(s))
  BY ZenonT(60) DEF FoldEquation
<1>2. ASSUME bad # {} PROVE FALSE
  <2>0. \A s \in SUBSET run : IsFiniteSet(s) /\ Cardinality(s) \in Nat
    BY FS_Subset, FS_CardinalityType, ZenonT(60)
  <2>1. sizes \in SUBSET Nat /\ sizes # {}
    BY <1>2, <2>0, ZenonT(60)
  <2>2. Min(sizes) \in sizes /\ \A y \in sizes : Min(sizes) <= y
    BY <2>1, MinIsIn, ZenonT(60)
  <2>3. PICK s \in bad : Cardinality(s) = Min(sizes)
    BY <2>2, ZenonT(30)
  <2>4. s \in SUBSET run /\ f[s] # g[s] /\ IsFiniteSet(s) /\ Cardinality(s) \in Nat
    BY <2>0, <2>3, ZenonT(60)
  <2>5. s # {}
    BY <1>1, <2>4, ZenonT(60)
  <2>6. c(s) \in s
    BY <2>5, ZenonT(30)
  <2> HIDE DEF c
  <2>7. s \ {c(s)} \in SUBSET run /\ f[s \ {c(s)}] # g[s \ {c(s)}]
    BY <1>1, <2>4, <2>5, ZenonT(60)
  <2>8. Cardinality(s \ {c(s)}) = Cardinality(s) - 1
    BY <2>4, <2>6, FS_RemoveElement, ZenonT(60)
  <2>9. Min(sizes) <= Cardinality(s \ {c(s)})
    BY <2>2, <2>7, ZenonT(60)
  <2> HIDE DEF sizes
  <2> QED
    BY <2>3, <2>4, <2>8, <2>9, SMTT(60)
<1>3. \A s \in SUBSET run : f[s] = g[s]
  BY <1>2, ZenonT(30)
<1>4. f = [s \in SUBSET run |-> f[s]] /\ g = [s \in SUBSET run |-> g[s]]
  BY ZenonT(60) DEF FoldEquation
<1>5. [s \in SUBSET run |-> f[s]] = [s \in SUBSET run |-> g[s]]
  BY <1>3, ZenonT(60)
<1> QED
  BY <1>4, <1>5, ZenonT(60)

LEMMA FoldIsRun ==
  ASSUME NEW z, PoolOK(z), NEW run, IsFiniteSet(run)
  PROVE  FoldSet(LAMBDA b, p : AllocMarkFree(p, b), z, run) = SetRun(z, run)
<1> DEFINE F == [s \in SUBSET run |-> SetRun(z, s)]
           iter == CHOOSE f : FoldEquation(f, z, run)
<1>1. FoldEquation(F, z, run)
  BY RunSolves, ZenonT(30)
<1>2. FoldEquation(iter, z, run)
  BY <1>1, ZenonT(60)
<1>3. iter = F
  BY <1>1, <1>2, FoldUnique, ZenonT(60)
<1>4. FoldSet(LAMBDA b, p : AllocMarkFree(p, b), z, run) = iter[run]
  BY ZenonT(30) DEF FoldSet, MapThenFoldSet, FoldEquation
<1> HIDE DEF iter
<1>5. iter[run] = SetRun(z, run)
  BY <1>3, ZenonT(30)
<1> QED
  BY <1>4, <1>5, ZenonT(60)

(* FreeRun is "Equivalent to n FreeBlock calls" (fs.go:524-525), for every *)
(* run, on every pool the allocator reaches.                               *)
THEOREM FreeRunStaysFreeBlocks == Spec => []FreeRunIsFreeBlocks
<1>1. AllocInv => FreeRunIsFreeBlocks
  <2> SUFFICES ASSUME AllocInv, NEW first \in 0..BlockCount, NEW last \in 0..BlockCount
               PROVE  AllocMarkFreeRun(pool, first, Cardinality(first..last))
                        = FoldSet(LAMBDA b, p : AllocMarkFree(p, b), pool, first..last)
    BY ZenonT(60) DEF FreeRunIsFreeBlocks
  <2>1. first \in Int /\ last \in Int /\ first \in Nat
    BY SMTT(60)
  <2>2. /\ IsFiniteSet(first..last)
        /\ Cardinality(first..last) = IF first > last THEN 0 ELSE last - first + 1
    BY <2>1, FS_Interval, ZenonT(30)
  <2>3. /\ Cardinality(first..last) \in Nat
        /\ first..(first + Cardinality(first..last) - 1) = first..last
    BY <2>1, <2>2, SMTT(60)
  <2>4. PoolOK(pool)
    BY ZenonT(30) DEF AllocInv, StateOK
  <2>5. AllocMarkFreeRun(pool, first, Cardinality(first..last)) = SetRun(pool, first..last)
    BY <2>1, <2>3, <2>4, RunIsSetRun, ZenonT(30)
  <2> QED
    BY <2>2, <2>4, <2>5, FoldIsRun, ZenonT(60)
<1> QED
  BY <1>1, InvariantHolds, PTL

-----------------------------------------------------------------------------
(* The rest of the types.                                                  *)
LogOK == metaShield \in Shields /\ logged \in SUBSET DataBlocks /\ dirty \in BOOLEAN

LEMMA LogOKHolds == StateOK /\ LogOK /\ [Next]_vars => LogOK'
<1> SUFFICES ASSUME StateOK, LogOK, [Next]_vars PROVE LogOK'
  BY ZenonT(30)
<1>1. ASSUME UNCHANGED <<metaShield, logged, dirty>> PROVE LogOK'
  BY <1>1, ZenonT(60) DEF LogOK
<1>2. ASSUME NEW c \in Callers, NEW r \in Requests, Scan(c, r) PROVE UNCHANGED <<metaShield, logged, dirty>>
  BY <1>2, ZenonT(30) DEF Scan, frees
<1>3. ASSUME NEW c \in Callers, ReclaimNothing(c) \/ ReclaimSync(c) \/ SyncClean(c) \/ Retry(c)
      PROVE  UNCHANGED <<metaShield, logged, dirty>>
  BY <1>3, ZenonT(30) DEF ReclaimNothing, ReclaimSync, SyncClean, Retry, heap, frees
<1>4. ASSUME NEW t \in Callers \cup {Syncer}, SyncCommit(t) PROVE LogOK'
  <2>1. UNCHANGED metaShield /\ logged' = {} /\ dirty' = FALSE
    BY <1>4, ZenonT(30) DEF SyncCommit, heap
  <2> QED
    BY <2>1, ZenonT(60) DEF LogOK
<1>5. ASSUME SyncTake \/ SyncEnd \/ FsyncTake \/ \E b \in AllBlocks : freeBlockNow(b)
      PROVE  UNCHANGED <<metaShield, logged, dirty>>
  BY <1>5, ZenonT(30) DEF SyncTake, SyncEnd, FsyncTake, freeBlockNow, heap
<1>6. ASSUME NEW order \in FreeOrders, NEW run \in Runs, FreeBegin(order, run) PROVE LogOK'
  <2>1. run \in SUBSET DataBlocks
    BY <1>6, ZenonT(30) DEF FreeBegin, StateOK
  <2>2. /\ UNCHANGED metaShield
        /\ UNCHANGED <<logged, dirty>> \/ (logged' = logged \cup run /\ dirty' = TRUE)
    BY <1>6, ZenonT(60) DEF FreeBegin
  <2> QED
    BY <2>1, <2>2, ZenonT(60) DEF LogOK
<1>7. CASE FreeEnd
  <2>1. half # None /\ half \in [order : FreeOrders \cup {"free"}, run : SUBSET DataBlocks] /\ UNCHANGED metaShield
    BY <1>7, ZenonT(30) DEF FreeEnd, StateOK, heap
  <2>2. half.order \in {"log", "defer", "now"} /\ half.run \in SUBSET DataBlocks
    BY <1>7, <2>1, ZenonT(60) DEF FreeEnd
  <2>3. \/ UNCHANGED <<logged, dirty>>
        \/ logged' = logged \cup half.run /\ dirty' = TRUE
    BY <1>7, <2>2, ZenonT(60) DEF FreeEnd
  <2> QED
    BY <2>1, <2>2, <2>3, ZenonT(60) DEF LogOK
<1>8. ASSUME NEW run \in Runs, SyncApply(run) \/ FsyncApply(run) \/ FreeRun(run)
      PROVE  UNCHANGED <<metaShield, logged, dirty>>
  BY <1>8, ZenonT(30) DEF SyncApply, FsyncApply, FreeRun, frees
<1>9. ASSUME NEW n \in Shields, AdjustShield(n) PROVE LogOK'
  <2>1. metaShield' = n /\ UNCHANGED <<logged, dirty>>
    BY <1>9, ZenonT(30) DEF AdjustShield, frees
  <2> QED
    BY <2>1, ZenonT(60) DEF LogOK
<1>10. UNCHANGED vars => UNCHANGED <<metaShield, logged, dirty>>
  BY ZenonT(30) DEF vars, heap, frees
<1> QED
  BY <1>1, <1>2, <1>3, <1>4, <1>5, <1>6, <1>7, <1>8, <1>9, <1>10, ZenonT(60) DEF Next

(* Block 0, the failure sentinel, is never handed out, queued or given     *)
(* back, and the summary levels stay within the bitmap (with the types of  *)
(* the variables).                                                         *)
THEOREM TypesHold == Spec => []TypeOK
<1>1. Init => LogOK
  BY ZenonT(60) DEF Init, LogOK
<1>2. StateOK /\ LogOK => TypeOK
  <2> SUFFICES ASSUME StateOK, LogOK PROVE TypeOK
    BY ZenonT(30)
  <2>1. /\ pool.l2 \in SUBSET AllBlocks /\ pool.l1 = Words(pool.l2) /\ pool.l0 = Words(pool.l1)
        /\ pool.freeCount \in Nat
    BY ZenonT(30) DEF StateOK, PoolOK, PoolType
  <2>2. ASSUME NEW S \in SUBSET AllBlocks PROVE Words(S) \in SUBSET AllBlocks
    <3>1. ASSUME NEW i \in AllBlocks PROVE Word(i) \in AllBlocks
      BY SMTT(60) DEF AllBlocks, Word
    <3> QED
      BY <3>1, ZenonT(30) DEF Words
  <2>3. pool.l1 \subseteq AllBlocks /\ pool.l0 \subseteq AllBlocks
    BY <2>1, <2>2, ZenonT(30)
  <2>4. owned \cup InFlight \cup logged \subseteq DataBlocks
    BY ZenonT(30) DEF StateOK, LogOK, InFlight
  <2>5. \A c \in Callers : call[c] = None \/ call[c].pc \in {"reclaim", "sync", "retry"}
    BY ZenonT(30) DEF StateOK
  <2>6. /\ half = None \/ half \in [order : FreeOrders \cup {"free"}, run : SUBSET DataBlocks]
        /\ jmu = None \/ jmu \in [who : Callers \cup {Syncer}, stage : {"take", "apply"}]
    BY ZenonT(30) DEF StateOK
  <2> QED
    BY <2>1, <2>3, <2>4, <2>5, <2>6, ZenonT(60) DEF TypeOK, LogOK, DataBlocks
<1>3. AllocInv => StateOK
  BY ZenonT(30) DEF AllocInv
<1> QED
  BY <1>1, <1>2, <1>3, LogOKHolds, InvariantHolds, PTL DEF Spec
=============================================================================
