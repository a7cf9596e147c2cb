---------------------------- MODULE AllocPyramid ----------------------------
(***************************************************************************)
(* The bit math of the three-level free-block bitmap                       *)
(* (briefs/allocator_core.go) and the scans over it (fuse/fs.go).          *)
(*                                                                         *)
(* A level is the set of the indices of its set bits: l2 holds the free    *)
(* blocks, l1 the L2 words that are not zero, l0 the L1 words that are not *)
(* zero.  Bit i of a level lies in word i \div WordBits of that level,     *)
(* which is also the index of its summary bit one level up.                *)
(***************************************************************************)
EXTENDS Integers, FiniteSets, FiniteSetsExt

CONSTANTS
  BlockCount,    \* blocks the pool tracks
  WordBits       \* bits of a bitmap word: 64

ASSUME PyramidAssumption ==
  BlockCount \in Nat \ {0} /\ WordBits \in Nat \ {0}

AllBlocks == 0..(BlockCount - 1)
Word(i)   == i \div WordBits
Words(S)  == {Word(i) : i \in S}

(* The summary bits that belong to a level with the given bits set.        *)
In(level, w) == {i \in level : Word(i) = w}

(* NewAllocBuilder with the blocks of `free` left free.                    *)
Pyramid(free) ==
  [l2 |-> free, l1 |-> Words(free), l0 |-> Words(Words(free)),
   freeCount |-> Cardinality(free)]

-----------------------------------------------------------------------------
(* Faulty: a summary bit is cleared with the first bit of its word.        *)
ClearBitsEager(p, S) ==
  [l2 |-> p.l2 \ S, l1 |-> p.l1 \ Words(S), l0 |-> p.l0,
   freeCount |-> p.freeCount - Cardinality(S)]

(* Faulty: both the caller and the bit math take the blocks off the count. *)
ClearBitsCountTwice(p, S) ==
  [l2 |-> p.l2 \ S, l1 |-> Words(p.l2 \ S), l0 |-> Words(Words(p.l2 \ S)),
   freeCount |-> p.freeCount - 2 * Cardinality(S)]

(* Clearing the free bits S: AllocMarkAllocated for one block, and the     *)
(* loops of tryAllocBlocks and tryAllocRunsUpTo.  A word that became zero  *)
(* clears its bit one level up.                                            *)
ClearBits(p, S) ==
  LET n2 == p.l2 \ S
      z2 == {w \in Words(S) : In(n2, w) = {}}
      n1 == p.l1 \ z2
      z1 == {w \in Words(z2) : In(n1, w) = {}}
  IN [l2 |-> n2, l1 |-> n1, l0 |-> p.l0 \ z1,
      freeCount |-> p.freeCount - Cardinality(S)]

AllocMarkAllocated(p, b) == IF b \in p.l2 THEN ClearBits(p, {b}) ELSE p

(* Setting one bit; a word that holds nothing else was empty before.       *)
AllocMarkFree(p, b) ==
  IF b \in p.l2 \/ b \notin AllBlocks THEN p
  ELSE LET n2 == p.l2 \cup {b}
           n1 == IF In(n2, Word(b)) = {b} THEN p.l1 \cup {Word(b)} ELSE p.l1
           n0 == IF /\ In(n2, Word(b)) = {b}
                    /\ In(n1, Word(Word(b))) = {Word(b)}
                 THEN p.l0 \cup {Word(Word(b))} ELSE p.l0
       IN [l2 |-> n2, l1 |-> n1, l0 |-> n0, freeCount |-> p.freeCount + 1]

(* Setting the bits S, the loop body of AllocMarkFreeRun over its words: a *)
(* word that was zero sets its bit one level up.                           *)
SetBits(p, S) ==
  LET new   == S \ p.l2
      fresh == {w \in Words(new) : In(p.l2, w) = {}}
      top   == {Word(w) : w \in {v \in fresh : In(p.l1, Word(v)) = {}}}
  IN [l2 |-> p.l2 \cup new, l1 |-> p.l1 \cup fresh, l0 |-> p.l0 \cup top,
      freeCount |-> p.freeCount + Cardinality(new)]

(* The bits of word w that a run covers: the whole word, without the bits  *)
(* below `first` in its first word and above `last` in its last one.       *)
RunMask(w, first, last) ==
  {w * WordBits + i : i \in {j \in 0..(WordBits - 1) :
                              /\ w = Word(first) => j >= first % WordBits
                              /\ w = Word(last)  => j <= last % WordBits}}

(* Faulty: the run is not clipped to the pool.                             *)
AllocMarkFreeRunUnclipped(p, first, n) ==
  IF n = 0 \/ first >= BlockCount THEN p
  ELSE LET last == first + n - 1
       IN SetBits(p, UNION {RunMask(w, first, last) : w \in Word(first)..Word(last)})

(* Setting the bits of the n blocks from `first`, clipped to the pool.     *)
AllocMarkFreeRun(p, first, n) ==
  IF n = 0 \/ first >= BlockCount THEN p
  ELSE LET last == Min({first + n, BlockCount}) - 1
       IN SetBits(p, UNION {RunMask(w, first, last) : w \in Word(first)..Word(last)})

(* reserveBlockZeroLocked                                                  *)
reserveBlockZero(p) == AllocMarkAllocated(p, 0)

-----------------------------------------------------------------------------
(* The scan of tryAllocBlock looks at the lowest bit of each L0 word only, *)
(* at the lowest L1 bit below it and at the lowest L2 bit below that.  A   *)
(* summary bit with nothing below it is cleared, and the scan goes on with *)
(* the next L0 word.                                                       *)
Top(p, w0)   == Min(In(p.l0, w0))
Mid(p, w0)   == Min(In(p.l1, Top(p, w0)))
Stale(p, w0) == In(p.l1, Top(p, w0)) = {} \/ In(p.l2, Mid(p, w0)) = {}

ClearStale(p, stale) ==
  LET n1 == p.l1 \ {Mid(p, w) : w \in {v \in stale : In(p.l1, Top(p, v)) # {}}}
  IN [p EXCEPT !.l1 = n1,
               !.l0 = @ \ {Top(p, w) : w \in {v \in stale : In(n1, Top(p, v)) = {}}}]

(* The result is the new pool and the blocks handed out.  Block 0 means    *)
(* failure to the caller, whatever happened to its bit.                    *)
scanBlock(p) ==
  LET heads == Words(p.l0)
      good  == {w0 \in heads : ~Stale(p, w0)}
  IN IF good = {} THEN [pool |-> ClearStale(p, heads), got |-> {}]
     ELSE LET w0 == Min(good)
              b  == Min(In(p.l2, Mid(p, w0)))
              q  == ClearStale(p, {w \in heads : w < w0})
          IN [pool |-> ClearBits(q, {b}), got |-> {b} \ {0}]

(* scanMaximalRuns with minLen = n: the first run that reaches n blocks.   *)
scanRun(p, n) ==
  LET starts == {s \in p.l2 : s..(s + n - 1) \subseteq p.l2}
  IN IF starts = {} THEN {} ELSE Min(starts)..(Min(starts) + n - 1)

(* scanMaximalRuns with minLen = 0, cut off after n blocks.                *)
scanRuns(p, n) == {b \in p.l2 : Cardinality({c \in p.l2 : c < b}) < n}
=============================================================================
