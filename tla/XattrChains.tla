---------------------------- MODULE XattrChains ----------------------------
(***************************************************************************)
(* What replay makes of an attribute chain.  Chains are sequences of       *)
(* blocks; a view is a number of records of the journal, and says which    *)
(* chain of an inode a replay of that many records leaves.  The lemmas are *)
(* about which records and writes change a view, and about what the walks  *)
(* of chains return.  At the end is the inductive invariant XInv.          *)
(***************************************************************************)
EXTENDS Xattr, NaturalsInduction, WellFoundedInduction, TLAPS

USE XattrAssumption

(* Induction over the numbers, for a property given as the set of those    *)
(* that have it.                                                           *)
LEMMA SetInduction ==
  ASSUME NEW S, 0 \in S, \A n \in Nat : n \in S => n + 1 \in S
  PROVE  Nat \subseteq S
<1> SUFFICES ASSUME Nat \ S # {} PROVE FALSE
  BY ZenonT(30)
<1>1. PICK x \in Nat \ S : \A y \in Nat \ S : ~ (<<y, x>> \in OpToRel(<, Nat))
  BY NatLessThanWellFounded, WFMin, ZenonT(60)
<1>4. x # 0 /\ x - 1 \in Nat /\ x - 1 < x /\ (x - 1) + 1 = x
  BY SMTT(60), Z3T(60)
<1> QED
  BY <1>1, <1>4, ZenonT(30) DEF OpToRel

(* A set of numbers up to n that is not empty has a greatest element.      *)
LEMMA MaxIsIn ==
  ASSUME NEW n \in Nat, NEW K \in SUBSET (1..n), K # {}
  PROVE  Max(K) \in K /\ \A y \in K : y <= Max(K)
<1> DEFINE S == {j \in Nat : \A k \in K : k <= n - j}
<1>1. PICK m \in K : \A y \in K : y <= m
  <2> SUFFICES ASSUME \A m \in K : \E y \in K : ~ (y <= m) PROVE FALSE
    BY ZenonT(30)
  <2>1. 0 \in S
    BY SMTT(60), Z3T(60)
  <2>2. ASSUME NEW j \in Nat, j \in S PROVE j + 1 \in S
    <3>1. ASSUME NEW k \in K PROVE k <= n - (j + 1)
      <4>2. PICK y \in K : ~ (y <= k)
        BY <3>1, ZenonT(30)
      <4> QED
        BY <2>2, <3>1, <4>2, SMTT(60), Z3T(60)
    <3> QED
      BY <3>1, SMTT(60), Z3T(60)
  <2>3. Nat \subseteq S
    <3> HIDE DEF S
    <3> QED
      BY <2>1, <2>2, SetInduction, ZenonT(30)
  <2>5. PICK k \in K : k \in 1..n
    BY ZenonT(30)
  <2> QED
    BY <2>3, <2>5, SMTT(60), Z3T(60)
<1> QED
  BY <1>1, ZenonT(30) DEF Max

LEMMA LastOfIs ==
  ASSUME NEW n \in Nat, NEW K \in SUBSET (1..n)
  PROVE  /\ LastOf(K) \in 0..n
         /\ LastOf(K) = 0 => K = {}
         /\ LastOf(K) # 0 => LastOf(K) \in K
         /\ \A k \in K : k <= LastOf(K)
<1>1. CASE K = {}
  BY <1>1, SMTT(60), Z3T(60) DEF LastOf
<1>2. CASE K # {}
  <2>2. Max(K) \in K /\ \A y \in K : y <= Max(K)
    BY <1>2, MaxIsIn, ZenonT(30)
  <2>3. Max(K) \in 1..n
    BY <2>2, ZenonT(30)
  <2> QED
    BY <1>2, <2>2, <2>3, SMTT(60), Z3T(60) DEF LastOf
<1> QED
  BY <1>1, <1>2, ZenonT(30)

(* The last index is the last index of any other set with the same         *)
(* greatest member.                                                        *)
LEMMA LastOfSame ==
  ASSUME NEW n \in Nat, NEW K \in SUBSET (1..n), NEW m \in K, \A k \in K : k <= m
  PROVE  LastOf(K) = m
BY LastOfIs, SMTT(60), Z3T(60)

-----------------------------------------------------------------------------
(* A chain as the sequence of its blocks.  In the contents d every block   *)
(* of it is an attribute block that points at the next one.                *)
HeadOf(s)    == IF s = <<>> THEN 0 ELSE s[1]
NextOf(s, k) == IF k = Len(s) THEN 0 ELSE s[k + 1]

Row(s) == /\ s \in Seq(Pool) /\ Len(s) <= MaxChain
          /\ \A j, k \in 1..Len(s) : s[j] = s[k] => j = k

Holds(d, s) == \A k \in 1..Len(s) : d[s[k]].kind = "xattr" /\ d[s[k]].next = NextOf(s, k)

LEMMA RowIs ==
  ASSUME NEW s, Row(s)
  PROVE  /\ Len(s) \in Nat /\ DOMAIN s = 1..Len(s) /\ s = [k \in 1..Len(s) |-> s[k]]
         /\ \A k \in 1..Len(s) : s[k] \in Pool /\ s[k] \in Range(s) /\ s[k] # 0
         /\ \A b \in Range(s) : b \in Pool /\ \E k \in 1..Len(s) : s[k] = b
         /\ HeadOf(s) = NextOf(s, 0)
         /\ Len(s) = 0 => s = <<>>
<1>1. s \in Seq(Pool)
  BY ZenonT(30) DEF Row
<1>2. /\ Len(s) \in Nat /\ DOMAIN s = 1..Len(s) /\ s = [k \in 1..Len(s) |-> s[k]]
      /\ \A k \in 1..Len(s) : s[k] \in Pool
  BY <1>1, SMTT(60), Z3T(60)
<1> QED
  BY <1>1, <1>2, SMTT(60), Z3T(60) DEF Range, Pool, HeadOf, NextOf

(* The walk after n rounds, on a chain s that the contents hold.           *)
Trace(s, n) ==
  IF n <= Len(s) THEN [ok |-> TRUE, blocks |-> SubSeq(s, 1, n), next |-> NextOf(s, n)]
  ELSE [ok |-> TRUE, blocks |-> s, next |-> 0]

LEMMA TraceStep ==
  ASSUME NEW d, NEW s, Row(s), Holds(d, s), NEW n \in Nat
  PROVE  WalkNext(d, Trace(s, n)) = Trace(s, n + 1)
<1>0. s \in Seq(Pool) /\ Len(s) \in Nat /\ Len(s) <= MaxChain
  BY RowIs, ZenonT(30) DEF Row
<1>1. CASE n < Len(s)
  <2> DEFINE w == Trace(s, n)
             b == s[n + 1]
  <2>1. n <= Len(s) /\ n # Len(s) /\ n + 1 <= Len(s) /\ n + 1 \in 1..Len(s)
    BY <1>0, <1>1, SMTT(60), Z3T(60)
  <2>2. w = [ok |-> TRUE, blocks |-> SubSeq(s, 1, n), next |-> b]
    BY <2>1, ZenonT(30) DEF Trace, NextOf
  <2>3. b \in Pool /\ b # 0
    BY <2>1, RowIs, ZenonT(30)
  <2>4. SubSeq(s, 1, n) = [k \in 1..n |-> s[k]] /\ Len(SubSeq(s, 1, n)) = n
    BY <1>0, <2>1, SMTT(60), Z3T(60)
  <2>5. b \notin Range(SubSeq(s, 1, n))
    <3>1. ASSUME NEW k \in 1..n PROVE s[k] # b
      BY <1>0, <1>1, <2>1, SMTT(60), Z3T(60) DEF Row
    <3> QED
      BY <2>4, <3>1, ZenonT(30) DEF Range
  <2>6. ~ (Len(SubSeq(s, 1, n)) > MaxChain)
    BY <1>0, <1>1, <2>4, SMTT(60), Z3T(60)
  <2>7. d[b].kind = "xattr" /\ d[b].next = NextOf(s, n + 1)
    BY <2>1, ZenonT(30) DEF Holds
  <2>8. Append(SubSeq(s, 1, n), b) = SubSeq(s, 1, n + 1)
    BY <1>0, <2>1, SMTT(60), Z3T(60)
  <2> HIDE DEF w, b
  <2> QED
    BY <2>1, <2>2, <2>3, <2>5, <2>6, <2>7, <2>8, ZenonT(30) DEF w, Trace, WalkNext
<1>2. CASE ~ (n < Len(s))
  <2>1. Trace(s, n) = [ok |-> TRUE, blocks |-> s, next |-> 0]
    <3>1. CASE n = Len(s)
      <4>1. SubSeq(s, 1, n) = s /\ n <= Len(s)
        BY <1>0, <3>1, SMTT(60), Z3T(60)
      <4> QED
        BY <3>1, <4>1, ZenonT(30) DEF Trace, NextOf
    <3>2. CASE ~ (n <= Len(s))
      BY <3>2, ZenonT(30) DEF Trace
    <3> QED
      BY <1>0, <1>2, <3>1, <3>2, SMTT(60), Z3T(60)
  <2> QED
    BY <1>0, <1>2, <2>1, SMTT(60), Z3T(60) DEF Trace, WalkNext
<1> QED
  BY <1>1, <1>2, ZenonT(30)

(* A walk from the head of a chain finds the chain.                        *)
LEMMA WalkLinked ==
  ASSUME NEW d, NEW s, Row(s), Holds(d, s)
  PROVE  /\ walkXattrChain(d, HeadOf(s)).ok
         /\ walkXattrChain(d, HeadOf(s)).blocks = s
<1> DEFINE h == HeadOf(s)
           M == MaxChain + 2
           Body(g) == [n \in 0..M |-> IF n = 0 THEN [ok |-> TRUE, blocks |-> <<>>, next |-> h]
                                      ELSE WalkNext(d, g[n - 1])]
           Solves(g) == g = Body(g)
           f == CHOOSE g : Solves(g)
           e == [n \in 0..M |-> Trace(s, n)]
<1>0. M \in Nat /\ Len(s) \in Nat /\ s \in Seq(Pool) /\ ~ (M <= Len(s))
  BY RowIs, SMTT(60), Z3T(60) DEF Row
<1>1. walkXattrChain(d, h) = f[M]
  BY ZenonT(60) DEF walkXattrChain
<1>2. Trace(s, 0) = [ok |-> TRUE, blocks |-> <<>>, next |-> h]
  <2>1. 0 <= Len(s) /\ SubSeq(s, 1, 0) = <<>>
    BY <1>0, SMTT(60), Z3T(60)
  <2> QED
    BY <2>1, RowIs, ZenonT(30) DEF Trace
<1> HIDE DEF h, M
<1>3. Solves(e)
  <2>1. ASSUME NEW n \in 0..M, n # 0 PROVE e[n] = WalkNext(d, e[n - 1])
    BY <1>0, <2>1, TraceStep, SMTT(60), Z3T(60)
  <2>3. DOMAIN e = 0..M
    BY ZenonT(30)
  <2> HIDE DEF e
  <2> QED
    BY <1>2, <2>1, ZenonT(30) DEF e
<1>4. \A n \in 0..M : f[n] = IF n = 0 THEN [ok |-> TRUE, blocks |-> <<>>, next |-> h]
                             ELSE WalkNext(d, f[n - 1])
  <2>1. Solves(f)
    <3> HIDE DEF Solves, e
    <3> QED
      BY <1>3, ZenonT(30)
  <2> HIDE DEF f
  <2>2. \A n \in 0..M : Body(f)[n] = IF n = 0 THEN [ok |-> TRUE, blocks |-> <<>>, next |-> h]
                                     ELSE WalkNext(d, f[n - 1])
    BY ZenonT(30)
  <2> HIDE DEF Body
  <2> QED
    BY <2>1, <2>2, ZenonT(30)
<1> DEFINE S == {n \in Nat : n \in 0..M => f[n] = Trace(s, n)}
<1>5. 0 \in S
  <2> HIDE DEF f
  <2> QED
    BY <1>0, <1>2, <1>4, ZenonT(30)
<1> HIDE DEF f
<1>6. ASSUME NEW n \in Nat, n \in S PROVE n + 1 \in S
  <2> SUFFICES ASSUME n + 1 \in 0..M PROVE f[n + 1] = Trace(s, n + 1)
    BY SMTT(60), Z3T(60)
  <2>4. WalkNext(d, Trace(s, n)) = Trace(s, n + 1)
    BY TraceStep, ZenonT(30)
  <2> QED
    BY <1>0, <1>4, <1>6, <2>4, SMTT(60), Z3T(60)
<1>7. Nat \subseteq S
  <2> HIDE DEF S
  <2> QED
    BY <1>5, <1>6, SetInduction, ZenonT(30)
<1>8. f[M] = Trace(s, M)
  BY <1>0, <1>7, SMTT(60), Z3T(60)
<1> QED
  BY <1>0, <1>1, <1>8, SMTT(60), Z3T(60) DEF h, Trace

(* Replay that follows the links of a chain's content records keeps the    *)
(* blocks of the chain.                                                    *)
LEMMA LiveLinked ==
  ASSUME NEW recs, NEW s, Row(s), \A k \in 1..Len(s) : xattrNext(recs, s[k]) = NextOf(s, k)
  PROVE  LiveFrom(recs, HeadOf(s)) = Range(s)
<1> DEFINE h == HeadOf(s)
           M == MaxChain
           Body(g) == [n \in 0..M |-> IF n = 0 THEN h
                                      ELSE IF g[n - 1] = 0 THEN 0 ELSE xattrNext(recs, g[n - 1])]
           f == CHOOSE g : g = Body(g)
           link(n) == IF n <= Len(s) THEN NextOf(s, n) ELSE 0
           e == [n \in 0..M |-> link(n)]
<1>0. M \in Nat /\ Len(s) \in Nat /\ Len(s) <= M /\ NextOf(s, 0) = h
  BY RowIs, ZenonT(30) DEF Row
<1>1. LiveFrom(recs, h) = {f[n] : n \in 0..M} \ {0}
  BY ZenonT(60) DEF LiveFrom
<1> HIDE DEF h, M
<1>2. ASSUME NEW n \in Nat, n # 0
      PROVE  link(n) = IF link(n - 1) = 0 THEN 0 ELSE xattrNext(recs, link(n - 1))
  <2>1. CASE n <= Len(s)
    <3>1. n - 1 <= Len(s) /\ n - 1 # Len(s) /\ (n - 1) + 1 = n /\ n \in 1..Len(s)
      BY <1>0, <1>2, <2>1, SMTT(60), Z3T(60)
    <3>2. link(n - 1) = s[n]
      BY <3>1, ZenonT(30) DEF NextOf
    <3> QED
      BY <2>1, <3>1, <3>2, RowIs, ZenonT(30)
  <2>2. CASE ~ (n <= Len(s))
    BY <1>0, <1>2, <2>2, SMTT(60), Z3T(60) DEF NextOf
  <2> QED
    BY <2>1, <2>2, ZenonT(30)
<1>3. link(0) = h
  BY <1>0, SMTT(60), Z3T(60)
<1> HIDE DEF link
<1>4. e = Body(e)
  <2>1. ASSUME NEW n \in 0..M, n # 0
        PROVE  e[n] = IF e[n - 1] = 0 THEN 0 ELSE xattrNext(recs, e[n - 1])
    BY <1>0, <1>2, <2>1, SMTT(60), Z3T(60)
  <2>2. \A n \in 0..M : n = 0 => e[n] = h
    BY <1>3, ZenonT(30)
  <2>3. e = [n \in 0..M |-> e[n]]
    BY ZenonT(30)
  <2> HIDE DEF e
  <2> QED
    BY <2>1, <2>2, <2>3, ZenonT(60)
<1>5. \A n \in 0..M : f[n] = IF n = 0 THEN h ELSE IF f[n - 1] = 0 THEN 0 ELSE xattrNext(recs, f[n - 1])
  <2>1. f = Body(f)
    <3> HIDE DEF Body, e
    <3> QED
      BY <1>4, ZenonT(30)
  <2> HIDE DEF f
  <2>2. \A n \in 0..M : Body(f)[n] = IF n = 0 THEN h
                                     ELSE IF f[n - 1] = 0 THEN 0 ELSE xattrNext(recs, f[n - 1])
    BY ZenonT(30)
  <2> HIDE DEF Body
  <2> QED
    BY <2>1, <2>2, ZenonT(30)
<1> HIDE DEF f
<1> DEFINE S == {n \in Nat : n \in 0..M => f[n] = link(n)}
<1>6. 0 \in S
  BY <1>0, <1>3, <1>5, SMTT(60), Z3T(60)
<1>7. ASSUME NEW n \in Nat, n \in S PROVE n + 1 \in S
  <2> SUFFICES ASSUME n + 1 \in 0..M PROVE f[n + 1] = link(n + 1)
    BY SMTT(60), Z3T(60)
  <2>1. n \in 0..M /\ n + 1 # 0 /\ (n + 1) - 1 = n /\ n + 1 \in Nat
    BY <1>0, SMTT(60), Z3T(60)
  <2> QED
    BY <1>2, <1>5, <1>7, <2>1, ZenonT(30)
<1>8. Nat \subseteq S
  <2> HIDE DEF S
  <2> QED
    BY <1>6, <1>7, SetInduction, ZenonT(30)
<1>9. \A n \in 0..M : f[n] = link(n)
  BY <1>0, <1>8, SMTT(60), Z3T(60)
<1>10. ASSUME NEW n \in 0..M, f[n] # 0 PROVE f[n] \in Range(s)
  BY <1>0, <1>9, <1>10, RowIs, SMTT(60), Z3T(60) DEF link, NextOf
<1>11. ASSUME NEW b \in Range(s) PROVE b # 0 /\ \E n \in 0..M : f[n] = b
  <2>1. PICK k \in 1..Len(s) : s[k] = b
    BY <1>11, RowIs, ZenonT(30)
  <2>2. k - 1 \in 0..M /\ k - 1 <= Len(s) /\ k - 1 # Len(s) /\ (k - 1) + 1 = k
    BY <1>0, <2>1, SMTT(60), Z3T(60)
  <2>3. f[k - 1] = s[k]
    BY <1>9, <2>2, ZenonT(30) DEF link, NextOf
  <2> QED
    BY <2>1, <2>2, <2>3, RowIs, ZenonT(30)
<1> QED
  <2>1. LiveFrom(recs, h) = Range(s)
    BY <1>1, <1>10, <1>11, ZenonT(60)
  <2> QED
    BY <2>1, ZenonT(30) DEF h

-----------------------------------------------------------------------------
(* What the first n records of the log l say: which is the last INODE_FULL *)
(* record of inode i, the last record on the allocation of block b, the    *)
(* last record of the data file.                                           *)
IsLog(l)    == l \in Seq(Range(l))
IsFull(r, i) == r.t = "full" /\ r.i = i
IsBits(r, b) == r.t \in {"alloc", "data", "free"} /\ r.b = b

FullIn(l, i, n) == LastOf({k \in 1..n : IsFull(l[k], i)})
BitsIn(l, b, n) == LastOf({k \in 1..n : IsBits(l[k], b)})
FileIn(l, n)    == LastOf({k \in 1..n : l[k].t = "file"})

(* Block b is allocated after n records, the bitmap f on the device before *)
(* them; and the k-th block of s has its contents in them.                 *)
Taken(l, f, b, n) == IF BitsIn(l, b, n) = 0 THEN b \notin f ELSE l[BitsIn(l, b, n)].t # "free"

IsLink(r, s, k) == r.t = "data" /\ r.c.kind = "xattr" /\ r.c.next = NextOf(s, k)
Logged(l, s, k, n) == BitsIn(l, s[k], n) # 0 /\ IsLink(l[BitsIn(l, s[k], n)], s, k)

(* Replaying n records of l over the contents d, written back or not as in *)
(* e, gives inode i the chain s.                                           *)
ChainSeen(l, d, e, f, i, s, n) ==
  /\ \A k \in 1..Len(s) : Taken(l, f, s[k], n)
  /\ FullIn(l, i, n) = 0 =>
       d[i] = HeadOf(s) /\ e[i] = HeadOf(s) /\ Holds(d, s) /\ Holds(e, s)
  /\ FullIn(l, i, n) # 0 =>
       l[FullIn(l, i, n)].head = HeadOf(s) /\ \A k \in 1..Len(s) : Logged(l, s, k, n)

(* The log l2 has the first n records of l, and m of its own.              *)
Later(l, l2, n, m) == n \in Nat /\ m \in Nat /\ n <= m /\ \A k \in 1..n : l2[k] = l[k]

(* None of the records n + 1 .. m is of the kind; and what follows.        *)
NoFull(l, i, n, m) == \A k \in (n + 1)..m : ~ IsFull(l[k], i)
NoBits(l, b, n, m) == \A k \in (n + 1)..m : ~ IsBits(l[k], b)
NoFile(l, n, m)    == \A k \in (n + 1)..m : l[k].t # "file"

SameFull(l, l2, i, n, m) ==
  /\ FullIn(l2, i, m) = FullIn(l, i, n) /\ FullIn(l, i, n) \in 0..n
  /\ FullIn(l, i, n) # 0 => l2[FullIn(l, i, n)] = l[FullIn(l, i, n)]
SameBits(l, l2, b, n, m) ==
  /\ BitsIn(l2, b, m) = BitsIn(l, b, n) /\ BitsIn(l, b, n) \in 0..n
  /\ BitsIn(l, b, n) # 0 => l2[BitsIn(l, b, n)] = l[BitsIn(l, b, n)]
SameFile(l, l2, n, m) ==
  /\ FileIn(l2, m) = FileIn(l, n) /\ FileIn(l, n) \in 0..n
  /\ FileIn(l, n) # 0 => l2[FileIn(l, n)] = l[FileIn(l, n)]

LEMMA FullKept ==
  ASSUME NEW l, NEW l2, NEW n, NEW m, Later(l, l2, n, m), NEW i, NoFull(l2, i, n, m)
  PROVE  SameFull(l, l2, i, n, m)
<1> DEFINE K == {k \in 1..n : IsFull(l[k], i)}
<1> QED
  BY LastOfIs, SMTT(60), Z3T(60) DEF FullIn, SameFull, Later, NoFull

LEMMA BitsKept ==
  ASSUME NEW l, NEW l2, NEW n, NEW m, Later(l, l2, n, m), NEW b, NoBits(l2, b, n, m)
  PROVE  SameBits(l, l2, b, n, m)
<1> DEFINE K == {k \in 1..n : IsBits(l[k], b)}
<1> QED
  BY LastOfIs, SMTT(60), Z3T(60) DEF BitsIn, SameBits, Later, NoBits

LEMMA FileKept ==
  ASSUME NEW l, NEW l2, NEW n, NEW m, Later(l, l2, n, m), NoFile(l2, n, m)
  PROVE  SameFile(l, l2, n, m)
<1> DEFINE K == {k \in 1..n : l[k].t = "file"}
<1> QED
  BY LastOfIs, SMTT(60), Z3T(60) DEF FileIn, SameFile, Later, NoFile

(* The last record decides when it is of the kind.                         *)
LEMMA LastDecides ==
  ASSUME NEW l, NEW m \in Nat \ {0}
  PROVE  /\ \A i : IsFull(l[m], i) => FullIn(l, i, m) = m
         /\ \A b : IsBits(l[m], b) => BitsIn(l, b, m) = m
         /\ l[m].t = "file" => FileIn(l, m) = m
<1>1. m \in 1..m /\ \A k \in 1..m : k <= m
  BY SMTT(60), Z3T(60)
<1>2. ASSUME NEW K \in SUBSET (1..m), m \in K PROVE LastOf(K) = m
  BY <1>1, <1>2, LastOfSame, ZenonT(30)
<1>3. ASSUME NEW i, IsFull(l[m], i) PROVE FullIn(l, i, m) = m
  BY <1>1, <1>2, <1>3, ZenonT(30) DEF FullIn
<1>4. ASSUME NEW b, IsBits(l[m], b) PROVE BitsIn(l, b, m) = m
  BY <1>1, <1>2, <1>4, ZenonT(30) DEF BitsIn
<1>5. ASSUME l[m].t = "file" PROVE FileIn(l, m) = m
  BY <1>1, <1>2, <1>5, ZenonT(30) DEF FileIn
<1> QED
  BY <1>3, <1>4, <1>5, ZenonT(30)

(* The records after the n-th say nothing of inode i and the blocks S.     *)
Silent(l, i, S, n, m) ==
  NoFull(l, i, n, m) /\ \A b \in S : NoBits(l, b, n, m)

(* Contents d and e, and later d2 and e2, of which e2 may have been        *)
(* written back since, agree on inode i and the blocks S.                  *)
Stored(d, e, d2, e2, i, S) ==
  /\ d2[i] = d[i] /\ e2[i] \in {e[i], d[i]}
  /\ \A b \in S : d2[b] = d[b] /\ e2[b] \in {e[b], d[b]}

LEMMA SeenKept ==
  ASSUME NEW l, NEW d, NEW e, NEW f, NEW l2, NEW d2, NEW e2, NEW f2, NEW i, NEW s, NEW n, NEW m,
         Row(s), ChainSeen(l, d, e, f, i, s, n), Later(l, l2, n, m), Silent(l2, i, Range(s), n, m),
         FullIn(l, i, n) = 0 => Stored(d, e, d2, e2, i, Range(s)),
         \A b \in Range(s) : b \in f2 => b \in f
  PROVE  ChainSeen(l2, d2, e2, f2, i, s, m)
<1>1. SameFull(l, l2, i, n, m)
  BY FullKept, ZenonT(30) DEF Silent
<1>2. \A k \in 1..Len(s) : s[k] \in Range(s)
  BY RowIs, ZenonT(30)
<1>3. \A b \in Range(s) : SameBits(l, l2, b, n, m)
  BY BitsKept, ZenonT(30) DEF Silent
<1>5. ASSUME FullIn(l, i, n) = 0
      PROVE  d2[i] = HeadOf(s) /\ e2[i] = HeadOf(s) /\ Holds(d2, s) /\ Holds(e2, s)
  BY <1>2, <1>5, ZenonT(30) DEF Holds, Stored, ChainSeen
<1>6. ASSUME FullIn(l, i, n) # 0
      PROVE  l2[FullIn(l, i, n)].head = HeadOf(s) /\ \A k \in 1..Len(s) : Logged(l2, s, k, m)
  BY <1>1, <1>2, <1>3, <1>6, ZenonT(30) DEF ChainSeen, Logged, SameFull, SameBits
<1> QED
  BY <1>1, <1>2, <1>3, <1>5, <1>6, ZenonT(30) DEF ChainSeen, SameFull, Taken, SameBits

-----------------------------------------------------------------------------
(* A call o on inode i, with contents d, log l and c records committed.    *)
(* Once the call has planned its records the old chain is in o.old; before *)
(* it is the one the inode points at.  The call is pointed when its        *)
(* INODE_FULL record is in the log.                                        *)
Early(o)       == o.at \in {"idle", "alloc"}
OldOf(d, o, i) == IF Early(o) THEN walkXattrChain(d, d[i]).blocks ELSE o.old
NewOf(o)       == IF o.at = "idle" THEN <<>> ELSE o.got
Pointed(o)     == ~Early(o) /\ Len(o.recs) <= Len(o.old)

(* The chain the inode has when n records are replayed, and the blocks it  *)
(* owns: those of the new chain, and those of the old one until nothing    *)
(* can bring it back.                                                      *)
Moved(l, o, i, n)   == Pointed(o) /\ FullIn(l, i, Len(l)) <= n
Sure(d, l, o, i, n) == IF Moved(l, o, i, n) THEN o.got ELSE OldOf(d, o, i)
Kept(l, c, o, i)    == /\ o.at \notin {"flush", "inode", "done"}
                       /\ o.at = "failed" => ~Moved(l, o, i, c)
Own(d, l, c, o, i)  == Range(NewOf(o)) \cup (IF Kept(l, c, o, i) THEN Range(OldOf(d, o, i)) ELSE {})

Late   == {"commit", "free", "flush", "inode", "done"}
Stages == {"alloc", "record", "sync", "failed"} \cup Late
Fields == {"at", "call", "kvs", "descs", "had", "got", "head", "old", "recs"}

CallShape(o) ==
  /\ DOMAIN o = Fields /\ o.at \in Stages
  /\ Row(o.got) /\ Len(o.descs) \in 0..MaxChain /\ Len(o.got) <= Len(o.descs)

(* All the records of the call, and how many of them are in the log.       *)
Plan(o, i) == Records(i, o, NewChain(o), o.old)
Written(o) == 2 * Len(o.got) + 1 + Len(o.old) - Len(o.recs)

Planned(o, i) ==
  /\ Len(o.got) = Len(o.descs) /\ o.head = HeadOf(o.got) /\ Row(o.old)
  /\ IsLog(o.recs) /\ Written(o) \in Nat
  /\ \A q \in 1..Len(o.recs) : o.recs[q] = Plan(o, i)[Written(o) + q]
  /\ o.at = "record" => o.recs # <<>>
  /\ o.at \in Late \cup {"sync"} => o.recs = <<>>

InLog(l, c, o, i) ==
  /\ \A k \in 1..Len(o.got) : 2 * k <= Written(o) => Logged(l, o.got, k, Len(l))
  /\ Pointed(o) => FullIn(l, i, Len(l)) # 0 /\ l[FullIn(l, i, Len(l))].head = HeadOf(o.got)
  /\ o.at \in Late => FullIn(l, i, Len(l)) <= c

OnDevice(d, o, i) ==
  /\ o.at # "failed" => Holds(d, o.got)
  /\ o.at = "done" => d[i] = o.head
  /\ o.at \in {"record", "sync", "commit", "free"} => d[i] = HeadOf(o.old) /\ Holds(d, o.old)

CallFine(d, l, c, o, i) ==
  o # Idle => CallShape(o) /\ (o.at # "alloc" => Planned(o, i) /\ InLog(l, c, o, i) /\ OnDevice(d, o, i))

Linked(d, i, s) == Row(s) /\ d[i] = HeadOf(s) /\ Holds(d, s)

SettledFine(d, o, i) == Early(o) => Linked(d, i, OldOf(d, o, i))

ViewFine(d, e, f, l, o, i, n) == ChainSeen(l, d, e, f, i, Sure(d, l, o, i, n), n)

Fine(d, e, f, l, c, o, i) ==
  /\ CallFine(d, l, c, o, i) /\ SettledFine(d, o, i)
  /\ ViewFine(d, e, f, l, o, i, c) /\ ViewFine(d, e, f, l, o, i, Len(l))

(* The chains of a call are rows of blocks the inode owns.                 *)
LEMMA OwnParts ==
  ASSUME NEW d, NEW l, NEW c, NEW o, NEW i,
         CallFine(d, l, c, o, i), SettledFine(d, o, i), IsLog(l), c \in 0..Len(l)
  PROVE  /\ Len(l) \in Nat
         /\ Row(OldOf(d, o, i)) /\ Row(NewOf(o))
         /\ \A n \in {c, Len(l)} : /\ Row(Sure(d, l, o, i, n))
                                   /\ Range(Sure(d, l, o, i, n)) \subseteq Own(d, l, c, o, i)
<1>1. Len(l) \in Nat
  BY SMTT(60), Z3T(60) DEF IsLog
<1>3. o.at = "idle" \/ (o # Idle /\ CallShape(o))
  BY SMTT(60), Z3T(60) DEF CallFine, Idle
<1>4. Row(NewOf(o))
  BY <1>3, SMTT(60), Z3T(60) DEF NewOf, CallShape, Row
<1>5. Row(OldOf(d, o, i))
  <2>1. CASE Early(o)
    BY <2>1, ZenonT(30) DEF SettledFine, Linked
  <2>2. CASE ~Early(o)
    BY <1>3, <2>2, ZenonT(30) DEF OldOf, Early, CallFine, Planned
  <2> QED
    BY <2>1, <2>2, ZenonT(30)
<1>6. ASSUME NEW n \in {c, Len(l)}, Moved(l, o, i, n)
      PROVE  o.got = NewOf(o)
  BY <1>6, ZenonT(30) DEF Moved, Pointed, Early, NewOf
<1>7. ASSUME NEW n \in {c, Len(l)}, ~Moved(l, o, i, n)
      PROVE  Kept(l, c, o, i)
  <2>1. ASSUME o.at \in Late PROVE FALSE
    <3>6. FullIn(l, i, Len(l)) \in 0..Len(l)
      <4>1. Later(l, l, Len(l), Len(l)) /\ NoFull(l, i, Len(l), Len(l))
        BY <1>1, SMTT(60), Z3T(60) DEF Later, NoFull
      <4> QED
        BY <4>1, FullKept, ZenonT(30) DEF SameFull
    <3> QED
      BY <1>1, <1>3, <1>7, <2>1, <3>6, RowIs, SMTT(60), Z3T(60) DEF Moved, Pointed, Planned, InLog,
         CallFine, Late, Early, Idle
  <2>2. ASSUME o.at = "failed", Moved(l, o, i, c) PROVE FALSE
    <3>1. FullIn(l, i, Len(l)) \in 0..Len(l)
      <4>1. Later(l, l, Len(l), Len(l)) /\ NoFull(l, i, Len(l), Len(l))
        BY <1>1, SMTT(60), Z3T(60) DEF Later, NoFull
      <4> QED
        BY <4>1, FullKept, ZenonT(30) DEF SameFull
    <3> QED
      BY <1>1, <1>7, <2>2, <3>1, SMTT(60), Z3T(60) DEF Moved
  <2> QED
    BY <2>1, <2>2, ZenonT(30) DEF Kept, Late
<1>8. ASSUME NEW n \in {c, Len(l)}
      PROVE  Row(Sure(d, l, o, i, n)) /\ Range(Sure(d, l, o, i, n)) \subseteq Own(d, l, c, o, i)
  <2>1. CASE Moved(l, o, i, n)
    BY <1>4, <1>6, <2>1, ZenonT(30) DEF Own, Sure
  <2>2. CASE ~Moved(l, o, i, n)
    BY <1>5, <1>7, <2>2, ZenonT(30) DEF Own, Sure
  <2> QED
    BY <2>1, <2>2, ZenonT(30)
<1> QED
  BY <1>1, <1>4, <1>5, <1>8, ZenonT(30)

-----------------------------------------------------------------------------
(* What a step does to an inode that it is not about: the log grows by     *)
(* records that do not concern it, some or none of them are committed, and *)
(* its own blocks stay as they are, in use, and are written back or not.   *)
Logs(l, c, l2, c2) ==
  /\ IsLog(l) /\ IsLog(l2) /\ Later(l, l2, Len(l), Len(l2))
  /\ c \in 0..Len(l) /\ c2 \in 0..Len(l2) /\ c <= c2 /\ (c2 = c \/ c2 = Len(l2))

Quiet(d, e, f, l, d2, e2, f2, l2, i, S) ==
  /\ Stored(d, e, d2, e2, i, S) /\ Silent(l2, i, S, Len(l), Len(l2))
  /\ \A b \in S : b \in f2 => b \in f

LEMMA HoldsKept ==
  ASSUME NEW d, NEW d2, NEW s, Row(s), Holds(d, s), \A b \in Range(s) : d2[b] = d[b]
  PROVE  Holds(d2, s)
BY RowIs, ZenonT(30) DEF Holds

(* What replay gives the inode stays what it was.                          *)
LEMMA ViewsKept ==
  ASSUME NEW d, NEW e, NEW f, NEW l, NEW c, NEW d2, NEW e2, NEW f2, NEW l2, NEW c2, NEW o, NEW i,
         Fine(d, e, f, l, c, o, i), Logs(l, c, l2, c2),
         Quiet(d, e, f, l, d2, e2, f2, l2, i, Own(d, l, c, o, i))
  PROVE  /\ ChainSeen(l2, d2, e2, f2, i, Sure(d, l, o, i, c), c)
         /\ ChainSeen(l2, d2, e2, f2, i, Sure(d, l, o, i, Len(l)), Len(l2))
<1> DEFINE S == Own(d, l, c, o, i)
           sc == Sure(d, l, o, i, c)
           sl == Sure(d, l, o, i, Len(l))
<1>1. /\ Len(l) \in Nat /\ Row(sc) /\ Row(sl)
      /\ Range(sc) \subseteq S /\ Range(sl) \subseteq S
  BY OwnParts, ZenonT(30) DEF Fine, Logs
<1>2. ChainSeen(l, d, e, f, i, sc, c) /\ ChainSeen(l, d, e, f, i, sl, Len(l))
  BY ZenonT(30) DEF Fine, ViewFine
<1> HIDE DEF S, sc, sl
<1>4. ASSUME NEW s, Range(s) \subseteq S
      PROVE  /\ Stored(d, e, d2, e2, i, Range(s)) /\ \A b \in Range(s) : b \in f2 => b \in f
             /\ Silent(l2, i, Range(s), Len(l), Len(l2))
  BY <1>4, ZenonT(30) DEF Quiet, Stored, Silent, S
<1> QED
  BY <1>1, <1>2, <1>4, SeenKept, SMTT(60), Z3T(60) DEF sc, sl, Silent, NoFull, NoBits, Logs, Later

(* The call's own INODE_FULL record stays the last.                        *)
LEMMA PointerKept ==
  ASSUME NEW l, NEW c, NEW l2, NEW c2, NEW i, Logs(l, c, l2, c2), NoFull(l2, i, Len(l), Len(l2))
  PROVE  SameFull(l, l2, i, Len(l), Len(l2)) /\ Len(l) \in Nat /\ Len(l2) \in Nat
BY FullKept, ZenonT(30) DEF Later, Logs

LEMMA MovedKept ==
  ASSUME NEW l, NEW c, NEW l2, NEW c2, NEW i, NEW o, Logs(l, c, l2, c2), NoFull(l2, i, Len(l), Len(l2))
  PROVE  /\ Moved(l2, o, i, c) = Moved(l, o, i, c)
         /\ Moved(l2, o, i, Len(l2)) = Moved(l, o, i, Len(l))
         /\ Moved(l, o, i, c) => Moved(l2, o, i, c2)
<1> DEFINE F == FullIn(l, i, Len(l))
<1>1. FullIn(l2, i, Len(l2)) = F /\ F \in 0..Len(l) /\ Len(l) \in Nat /\ Len(l2) \in Nat
  <2>1. SameFull(l, l2, i, Len(l), Len(l2)) /\ Len(l) \in Nat /\ Len(l2) \in Nat
    BY PointerKept, ZenonT(30)
  <2> QED
    BY <2>1, ZenonT(30) DEF SameFull
<1> HIDE DEF F
<1> QED
  BY <1>1, SMTT(60), Z3T(60) DEF Moved, F, Logs, Later

LEMMA OldKept ==
  ASSUME NEW d, NEW d2, NEW o, NEW i, SettledFine(d, o, i), d2[i] = d[i],
         Early(o) => \A b \in Range(OldOf(d, o, i)) : d2[b] = d[b]
  PROVE  OldOf(d2, o, i) = OldOf(d, o, i) /\ SettledFine(d2, o, i)
<1>1. CASE ~Early(o)
  BY <1>1, ZenonT(30) DEF OldOf, SettledFine
<1>2. CASE Early(o)
  <2> DEFINE s == OldOf(d, o, i)
  <2>1. Linked(d, i, s)
    BY <1>2, ZenonT(30) DEF SettledFine
  <2>2. \A b \in Range(s) : d2[b] = d[b]
    BY <1>2, ZenonT(30)
  <2> HIDE DEF s
  <2>3. Holds(d2, s) /\ Row(s) /\ d2[i] = HeadOf(s)
    BY <2>1, <2>2, HoldsKept, ZenonT(30) DEF Linked
  <2>4. walkXattrChain(d2, d2[i]).blocks = s
    BY <2>3, WalkLinked, ZenonT(30)
  <2> QED
    BY <1>2, <2>3, <2>4, ZenonT(30) DEF SettledFine, Linked, s, OldOf
<1> QED
  BY <1>1, <1>2, ZenonT(30)

Unmoved(d, l, c, d2, e2, f2, l2, c2, o, i) ==
  /\ Fine(d2, e2, f2, l2, c2, o, i) /\ OldOf(d2, o, i) = OldOf(d, o, i)
  /\ Own(d2, l2, c2, o, i) \subseteq Own(d, l, c, o, i)
  /\ o.at # "failed" => Own(d2, l2, c2, o, i) = Own(d, l, c, o, i)
  /\ Kept(l2, c2, o, i) => Kept(l, c, o, i)

LEMMA FineKept ==
  ASSUME NEW d, NEW e, NEW f, NEW l, NEW c, NEW d2, NEW e2, NEW f2, NEW l2, NEW c2, NEW o, NEW i,
         Fine(d, e, f, l, c, o, i), Logs(l, c, l2, c2),
         Quiet(d, e, f, l, d2, e2, f2, l2, i, Own(d, l, c, o, i))
  PROVE  Unmoved(d, l, c, d2, e2, f2, l2, c2, o, i)
<1> DEFINE S == Own(d, l, c, o, i)
<1>1. CallFine(d, l, c, o, i) /\ SettledFine(d, o, i)
  BY ZenonT(30) DEF Fine
<1>2. /\ d2[i] = d[i] /\ \A b \in S : d2[b] = d[b]
      /\ NoFull(l2, i, Len(l), Len(l2)) /\ \A b \in S : NoBits(l2, b, Len(l), Len(l2))
  BY ZenonT(30) DEF Quiet, Stored, Silent
<1>3. Range(NewOf(o)) \subseteq S /\ (Kept(l, c, o, i) => Range(OldOf(d, o, i)) \subseteq S)
  BY ZenonT(30) DEF Own
<1> HIDE DEF S
<1>5. OldOf(d2, o, i) = OldOf(d, o, i) /\ SettledFine(d2, o, i)
  BY <1>1, <1>2, <1>3, OldKept, ZenonT(30) DEF Early, Kept
<1>6. /\ Moved(l2, o, i, c) = Moved(l, o, i, c)
      /\ Moved(l2, o, i, Len(l2)) = Moved(l, o, i, Len(l))
      /\ Moved(l, o, i, c) => Moved(l2, o, i, c2)
  BY <1>2, MovedKept, ZenonT(30)
<1>8. ViewFine(d2, e2, f2, l2, o, i, c2) /\ ViewFine(d2, e2, f2, l2, o, i, Len(l2))
  <2>1. /\ ChainSeen(l2, d2, e2, f2, i, Sure(d, l, o, i, c), c)
        /\ ChainSeen(l2, d2, e2, f2, i, Sure(d, l, o, i, Len(l)), Len(l2))
    BY ViewsKept, ZenonT(30)
  <2> QED
    BY <1>5, <1>6, <2>1, ZenonT(30) DEF ViewFine, Sure, Logs
<1>9. ASSUME o # Idle, o.at # "alloc", CallShape(o), Planned(o, i), InLog(l, c, o, i), OnDevice(d, o, i)
      PROVE  InLog(l2, c2, o, i) /\ OnDevice(d2, o, i)
  <2>1. Row(o.got) /\ Row(o.old) /\ o.at # "idle"
    BY <1>9, ZenonT(30) DEF CallShape, Planned, Stages, Late
  <2>2. Range(o.got) \subseteq S
    BY <1>3, <2>1, ZenonT(30) DEF NewOf
  <2>3. /\ FullIn(l2, i, Len(l2)) = FullIn(l, i, Len(l))
        /\ FullIn(l, i, Len(l)) # 0 => l2[FullIn(l, i, Len(l))] = l[FullIn(l, i, Len(l))]
        /\ FullIn(l, i, Len(l)) \in 0..Len(l) /\ Len(l) \in Nat /\ Len(l2) \in Nat
    <3>1. SameFull(l, l2, i, Len(l), Len(l2)) /\ Len(l) \in Nat /\ Len(l2) \in Nat
      BY <1>2, PointerKept, ZenonT(30)
    <3> QED
      BY <3>1, ZenonT(30) DEF SameFull
  <2>4. \A k \in 1..Len(o.got) : Logged(l, o.got, k, Len(l)) => Logged(l2, o.got, k, Len(l2))
    <3> SUFFICES ASSUME NEW k \in 1..Len(o.got), Logged(l, o.got, k, Len(l))
                 PROVE  Logged(l2, o.got, k, Len(l2))
      BY ZenonT(30)
    <3>3. SameBits(l, l2, o.got[k], Len(l), Len(l2))
      BY <1>2, <2>1, <2>2, BitsKept, RowIs, ZenonT(30) DEF Logs
    <3> QED
      BY <3>3, ZenonT(30) DEF Logged, SameBits
  <2>8. ASSUME o.at \in {"record", "sync", "commit", "free"}, Holds(d, o.old) PROVE Holds(d2, o.old)
    BY <1>2, <1>3, <2>1, <2>8, HoldsKept, ZenonT(30) DEF Kept, OldOf, Early
  <2> QED
    BY <1>2, <1>9, <2>1, <2>2, <2>3, <2>4, <2>8, HoldsKept, SMTT(60), Z3T(60) DEF InLog, Logs,
       OnDevice
<1> QED
  BY <1>1, <1>5, <1>6, <1>8, <1>9, ZenonT(30) DEF Fine, Unmoved, CallFine, Own, Kept

-----------------------------------------------------------------------------
(* The steps of a call on its own inode.  Most of them only move the call  *)
(* to its next stage.                                                      *)
BlocksFor(got, descs, kvs) ==
  [b \in Range(got) |->
     LET k == CHOOSE j \in DOMAIN got : got[j] = b
     IN  serializeXattrBlock(descs[k], kvs, IF k = Len(got) THEN 0 ELSE got[k + 1])]

LEMMA PlanSame ==
  ASSUME NEW o, NEW o2, NEW i, o2.got = o.got, o2.descs = o.descs, o2.kvs = o.kvs, o2.old = o.old
  PROVE  Plan(o2, i) = Plan(o, i)
<1>1. \A x : NewChain(x) = BlocksFor(x.got, x.descs, x.kvs)
  BY ZenonT(30) DEF NewChain, BlocksFor
<1> QED
  BY <1>1, ZenonT(30) DEF Plan, Records, Builds, Pointer

(* What the call needs to be at stage a.                                   *)
MayBeAt(d, l, c, o, i, a) ==
  /\ a \in Stages \ {"alloc"}
  /\ a = "record" => o.recs # <<>>
  /\ a \in Late \cup {"sync"} => o.recs = <<>>
  /\ a \in Late => FullIn(l, i, Len(l)) <= c
  /\ a # "failed" => Holds(d, o.got)
  /\ a = "done" => d[i] = o.head
  /\ a \in {"record", "sync", "commit", "free"} => d[i] = HeadOf(o.old) /\ Holds(d, o.old)

Relabelled(d, e, f, l, c, o, i, a) ==
  /\ Fine(d, e, f, l, c, [o EXCEPT !.at = a], i)
  /\ OldOf(d, [o EXCEPT !.at = a], i) = o.old /\ NewOf([o EXCEPT !.at = a]) = o.got
  /\ OldOf(d, o, i) = o.old /\ NewOf(o) = o.got
  /\ [o EXCEPT !.at = a] # Idle /\ [o EXCEPT !.at = a].at = a
  /\ \A n : Moved(l, [o EXCEPT !.at = a], i, n) = Moved(l, o, i, n)

LEMMA Relabel ==
  ASSUME NEW d, NEW e, NEW f, NEW l, NEW c, NEW o, NEW i, NEW a,
         Fine(d, e, f, l, c, o, i), o # Idle, o.at # "alloc", MayBeAt(d, l, c, o, i, a)
  PROVE  Relabelled(d, e, f, l, c, o, i, a)
<1> DEFINE o2 == [o EXCEPT !.at = a]
<1>1. CallShape(o) /\ Planned(o, i) /\ InLog(l, c, o, i) /\ OnDevice(d, o, i)
  BY ZenonT(30) DEF Fine, CallFine
<1>2. /\ DOMAIN o2 = Fields /\ o2.at = a /\ o2.got = o.got /\ o2.descs = o.descs /\ o2.kvs = o.kvs
      /\ o2.old = o.old /\ o2.recs = o.recs /\ o2.head = o.head
  BY <1>1, SMTT(60), Z3T(60) DEF CallShape, Fields
<1> HIDE DEF o2
<1>3. ~Early(o2) /\ ~Early(o) /\ o.at # "idle" /\ a # "idle"
  BY <1>1, <1>2, ZenonT(30) DEF Early, CallShape, MayBeAt, Stages, Late
<1>6. Pointed(o2) = Pointed(o) /\ Written(o2) = Written(o)
  BY <1>2, <1>3, ZenonT(30) DEF Pointed, Written
<1>11. Planned(o2, i)
  <2>1. Plan(o2, i) = Plan(o, i)
    BY <1>2, PlanSame, ZenonT(30)
  <2> QED
    BY <1>1, <1>2, <1>6, <2>1, ZenonT(30) DEF Planned, MayBeAt
<1> QED
  BY <1>1, <1>2, <1>3, <1>6, <1>11, SMTT(60), Z3T(60) DEF o2, Relabelled, Idle, Fine, CallFine,
     SettledFine,
     ViewFine, Sure, CallShape, MayBeAt, InLog, OnDevice, OldOf, NewOf, Moved

(* setXattr: a call begins.                                                *)
Begun(d, e, f, l, c, o2, i) ==
  /\ Fine(d, e, f, l, c, o2, i) /\ Own(d, l, c, o2, i) = Own(d, l, c, Idle, i)
  /\ Range(NewOf(o2)) = {}

LEMMA BeginFine ==
  ASSUME NEW d, NEW e, NEW f, NEW l, NEW c, NEW o2, NEW i,
         Fine(d, e, f, l, c, Idle, i), CallShape(o2), o2.at = "alloc", o2.got = <<>>
  PROVE  Begun(d, e, f, l, c, o2, i)
BY SMTT(60), Z3T(60) DEF Fine, ViewFine, Own, Begun, Sure, Moved, NewOf, Range, CallFine,
   SettledFine,
   OldOf, Early, Pointed, Kept, Idle

(* Between setXattr and the records the call has the inode's chain, and    *)
(* the blocks it got.                                                      *)
AllocIs(d, l, c, o, i) ==
  /\ Early(o) /\ ~Pointed(o) /\ Kept(l, c, o, i) /\ NewOf(o) = o.got
  /\ \A n : Sure(d, l, o, i, n) = OldOf(d, o, i)
  /\ OldOf(d, o, i) = OldOf(d, Idle, i)
  /\ Own(d, l, c, o, i) = Range(o.got) \cup Range(OldOf(d, o, i))

LEMMA AllocParts ==
  ASSUME NEW d, NEW l, NEW c, NEW o, NEW i, o.at = "alloc"
  PROVE  AllocIs(d, l, c, o, i)
BY ZenonT(30) DEF AllocIs, Sure, Moved, OldOf, Early, Idle, Own, Pointed, Kept, NewOf

IdleIs(d, l, c, i) ==
  /\ Early(Idle) /\ ~Pointed(Idle) /\ Kept(l, c, Idle, i)
  /\ Range(NewOf(Idle)) = {}
  /\ \A n : Sure(d, l, Idle, i, n) = OldOf(d, Idle, i)
  /\ OldOf(d, Idle, i) = walkXattrChain(d, d[i]).blocks
  /\ Own(d, l, c, Idle, i) = Range(OldOf(d, Idle, i))

LEMMA IdleParts ==
  ASSUME NEW d, NEW l, NEW c, NEW i
  PROVE  IdleIs(d, l, c, i)
BY SMTT(60), Z3T(60) DEF IdleIs, Sure, Moved, Own, Range, OldOf, Early, Pointed, Kept, NewOf, Idle

(* rollbackAlloc: the call ends with the chain it found.                   *)
RolledBack(d, e, f, l, c, o, i) ==
  Fine(d, e, f, l, c, Idle, i) /\ OldOf(d, o, i) = OldOf(d, Idle, i)

LEMMA RollbackFine ==
  ASSUME NEW d, NEW e, NEW f, NEW l, NEW c, NEW o, NEW i,
         Fine(d, e, f, l, c, o, i), o.at = "alloc"
  PROVE  RolledBack(d, e, f, l, c, o, i)
<1>1. AllocIs(d, l, c, o, i) /\ IdleIs(d, l, c, i)
  BY AllocParts, IdleParts, ZenonT(30)
<1> QED
  BY <1>1, ZenonT(30) DEF AllocIs, IdleIs, Fine, ViewFine, SettledFine, CallFine, RolledBack

(* AllocBlock: the new chain gets another block.                           *)
Longer(s, b, t) ==
  Row(t) /\ Range(t) = Range(s) \cup {b} /\ Len(t) = Len(s) + 1

LEMMA RowAppend ==
  ASSUME NEW s, Row(s), NEW b \in Pool, b \notin Range(s), Len(s) < MaxChain
  PROVE  Longer(s, b, Append(s, b))
<1> DEFINE t == Append(s, b)
<1>1. s \in Seq(Pool) /\ Len(s) \in Nat /\ DOMAIN s = 1..Len(s)
  BY RowIs, ZenonT(30) DEF Row
<1> HIDE DEF t
<1>5. \A k \in 1..Len(s) : s[k] # b
  <2>1. \A k \in 1..Len(s) : s[k] \in Range(s)
    BY RowIs, ZenonT(30)
  <2> QED
    BY <2>1, ZenonT(30)
<1> QED
  BY <1>1, <1>5, SMTT(60), Z3T(60) DEF Row, Longer, t, Range

Allocated(d, e, f, l, c, o, i, b) ==
  /\ Fine(d, e, f, l, c, [o EXCEPT !.got = Append(@, b)], i)
  /\ Range(NewOf([o EXCEPT !.got = Append(@, b)])) = Range(o.got) \cup {b}
  /\ OldOf(d, [o EXCEPT !.got = Append(@, b)], i) = OldOf(d, o, i)
  /\ [o EXCEPT !.got = Append(@, b)].at = "alloc"

LEMMA AllocFine ==
  ASSUME NEW d, NEW e, NEW f, NEW l, NEW c, NEW o, NEW i, NEW b \in Pool,
         Fine(d, e, f, l, c, o, i), o # Idle, o.at = "alloc",
         Len(o.got) < Len(o.descs), b \notin Range(o.got)
  PROVE  Allocated(d, e, f, l, c, o, i, b)
<1> DEFINE o2 == [o EXCEPT !.got = Append(@, b)]
<1>1. CallShape(o)
  BY ZenonT(30) DEF Fine, CallFine
<1>2. DOMAIN o2 = Fields /\ o2.at = "alloc" /\ o2.got = Append(o.got, b) /\ o2.descs = o.descs
  BY <1>1, SMTT(60), Z3T(60) DEF CallShape, Fields
<1> HIDE DEF o2
<1>3. Row(o.got) /\ Len(o.got) \in Nat /\ Len(o.descs) \in 0..MaxChain
  BY <1>1, RowIs, ZenonT(30) DEF CallShape
<1>5. /\ Row(o2.got) /\ Range(o2.got) = Range(o.got) \cup {b}
      /\ Len(o2.got) = Len(o.got) + 1
  <2>1. PICK g : g = o.got
    BY ZenonT(30)
  <2> QED
    BY <1>2, <1>3, <2>1, RowAppend, SMTT(60), Z3T(60) DEF Longer
<1>8. AllocIs(d, l, c, o, i) /\ AllocIs(d, l, c, o2, i)
  BY <1>2, AllocParts, ZenonT(30)
<1>9. OldOf(d, o2, i) = OldOf(d, o, i)
  BY <1>8, ZenonT(30) DEF AllocIs
<1>10. Fine(d, e, f, l, c, o2, i)
  BY <1>2, <1>3, <1>5, <1>8, <1>9, SMTT(60), Z3T(60) DEF Fine, CallFine, SettledFine, ViewFine,
     AllocIs,
     CallShape, Stages
<1> QED
  BY <1>2, <1>5, <1>8, <1>9, <1>10, ZenonT(30) DEF o2, Allocated, AllocIs

-----------------------------------------------------------------------------
(* WriteChain and WriteRecord: the records of a call.                      *)
LEMMA NewChainIs ==
  ASSUME NEW o, Row(o.got), NEW k \in 1..Len(o.got)
  PROVE  NewChain(o)[o.got[k]].kind = "xattr" /\ NewChain(o)[o.got[k]].next = NextOf(o.got, k)
<1> DEFINE g == o.got
           j == CHOOSE x \in DOMAIN g : g[x] = g[k]
<1>1. DOMAIN g = 1..Len(g) /\ g[k] \in Range(g)
  BY RowIs, ZenonT(30)
<1> HIDE DEF j
<1>5. \A x, y, z : serializeXattrBlock(x, y, z).kind = "xattr" /\ serializeXattrBlock(x, y, z).next = z
  <2> TAKE x, y, z
  <2>1. CASE x.cont
    BY <2>1, SMTT(60), Z3T(60) DEF serializeXattrBlock
  <2>2. CASE ~x.cont
    BY <2>2, SMTT(60), Z3T(60) DEF serializeXattrBlock
  <2> QED
    BY <2>1, <2>2, ZenonT(30)
<1>7. PICK n : n = NextOf(g, k)
  BY ZenonT(30)
<1> DEFINE x == o.descs[k]
           y == o.kvs
           b == serializeXattrBlock(x, y, n)
<1> HIDE DEF x, y
<1>8. b.kind = "xattr" /\ b.next = n
  BY <1>5, ZenonT(30)
<1> HIDE DEF b
<1> QED
  BY <1>1, <1>7, <1>8, ZenonT(30) DEF b, x, y, NextOf, Row, NewChain, j

LEMMA FcnIsLog ==
  ASSUME NEW a, NEW n \in Nat, a = [m \in 1..n |-> a[m]]
  PROVE  IsLog(a) /\ Len(a) = n /\ DOMAIN a = 1..n
<1>1. DOMAIN a = 1..n /\ \A m \in 1..n : a[m] \in Range(a)
  BY ZenonT(30) DEF Range
<1>2. a \in Seq(Range(a)) /\ Len(a) = n
  <2> DEFINE R == Range(a)
  <2> HIDE DEF R
  <2> QED
    BY <1>1, SMTT(60), Z3T(60) DEF R
<1> QED
  BY <1>1, <1>2, ZenonT(30) DEF IsLog

Joined(R, a, p, z) ==
  /\ IsLog(R) /\ Len(R) = Len(a) + 1 + Len(z)
  /\ \A m \in 1..Len(a) : R[m] = a[m]
  /\ R[Len(a) + 1] = p
  /\ \A k \in 1..Len(z) : R[Len(a) + 1 + k] = z[k]

LEMMA ThreeParts ==
  ASSUME NEW a, NEW p, NEW z, IsLog(a), IsLog(z)
  PROVE  Joined(a \o << p >> \o z, a, p, z)
<1> DEFINE S == Range(a) \cup {p} \cup Range(z)
           R == a \o << p >> \o z
<1>1. a \in Seq(S) /\ z \in Seq(S) /\ << p >> \in Seq(S)
  <2>2. Range(a) \subseteq S /\ Range(z) \subseteq S /\ p \in S
    BY ZenonT(30)
  <2> HIDE DEF S
  <2> QED
    BY <2>2, SMTT(60), Z3T(60) DEF IsLog
<1> HIDE DEF S
<1>2. /\ R \in Seq(S) /\ Len(R) = Len(a) + 1 + Len(z) /\ Len(a) \in Nat /\ Len(z) \in Nat
      /\ \A m \in 1..Len(a) : R[m] = a[m]
      /\ R[Len(a) + 1] = p
      /\ \A k \in 1..Len(z) : R[Len(a) + 1 + k] = z[k]
  BY <1>1, SMTT(60), Z3T(60)
<1>3. R = [m \in 1..Len(R) |-> R[m]] /\ Len(R) \in Nat
  BY <1>2, SMTT(60), Z3T(60)
<1> HIDE DEF R
<1> QED
  BY <1>2, <1>3, FcnIsLog, ZenonT(30) DEF R, Joined

(* The m-th record of a call.                                              *)
RecordAt(o, i, m, r) ==
  \/ \E k \in 1..Len(o.got) : m = 2 * k - 1 /\ r = [t |-> "alloc", b |-> o.got[k]]
  \/ \E k \in 1..Len(o.got) : m = 2 * k /\ r = [t |-> "data", b |-> o.got[k], c |-> NewChain(o)[o.got[k]]]
  \/ m = 2 * Len(o.got) + 1 /\ r = Pointer(i, o)
  \/ \E k \in 1..Len(o.old) : m = 2 * Len(o.got) + 1 + k /\ r = [t |-> "free", b |-> o.old[k]]

PlanIs(o, i) ==
  /\ IsLog(Plan(o, i)) /\ Len(Plan(o, i)) = 2 * Len(o.got) + 1 + Len(o.old)
  /\ \A m \in 1..(2 * Len(o.got) + 1 + Len(o.old)) : RecordAt(o, i, m, Plan(o, i)[m])

LEMMA PlanParts ==
  ASSUME NEW o, NEW i, Row(o.got), Row(o.old)
  PROVE  PlanIs(o, i)
<1> DEFINE a == Builds(o, NewChain(o))
           z == Frees(o.old)
           p == Pointer(i, o)
           g == Len(o.got)
           w == Len(o.old)
           R == Plan(o, i)
<1>1. g \in Nat /\ w \in Nat /\ DOMAIN o.old = 1..w /\ 2 * g \in Nat
  BY RowIs, SMTT(60), Z3T(60)
<1>2. a = [m \in 1..(2 * g) |-> a[m]] /\ z = [m \in 1..w |-> z[m]]
  BY <1>1, ZenonT(30) DEF Builds, Frees
<1>3. \A m \in 1..(2 * g) : a[m] = IF m % 2 = 1 THEN [t |-> "alloc", b |-> o.got[(m + 1) \div 2]]
                                   ELSE [t |-> "data", b |-> o.got[(m + 1) \div 2],
                                         c |-> NewChain(o)[o.got[(m + 1) \div 2]]]
  BY ZenonT(30) DEF Builds
<1>4. \A m \in 1..w : z[m] = [t |-> "free", b |-> o.old[m]]
  BY <1>1, ZenonT(30) DEF Frees
<1>5. R = a \o << p >> \o z
  BY ZenonT(30) DEF Plan, Records
<1> HIDE DEF a, z, p, R
<1>6. IsLog(a) /\ Len(a) = 2 * g
  <2> DEFINE G == 2 * g
  <2> HIDE DEF G
  <2> QED
    BY <1>1, <1>2, FcnIsLog, ZenonT(30) DEF G
<1>7. IsLog(z) /\ Len(z) = w
  <2> HIDE DEF w
  <2> QED
    BY <1>1, <1>2, FcnIsLog, ZenonT(30)
<1>8. /\ IsLog(R) /\ Len(R) = Len(a) + 1 + Len(z)
      /\ \A m \in 1..Len(a) : R[m] = a[m]
      /\ R[Len(a) + 1] = p
      /\ \A k \in 1..Len(z) : R[Len(a) + 1 + k] = z[k]
  <2>1. Joined(R, a, p, z)
    BY <1>5, <1>6, <1>7, ThreeParts, ZenonT(30)
  <2> QED
    BY <2>1, ZenonT(30) DEF Joined
<1>9. ASSUME NEW m \in 1..(2 * g + 1 + w) PROVE RecordAt(o, i, m, R[m])
  <2> HIDE DEF g, w
  <2>2. CASE m \in 1..(2 * g)
    <3> DEFINE k == (m + 1) \div 2
    <3>1. k \in 1..g /\ ((m = 2 * k - 1 /\ m % 2 = 1) \/ (m = 2 * k /\ m % 2 # 1))
      BY <1>1, <2>2, SMTT(60), Z3T(60)
    <3>2. R[m] = IF m % 2 = 1 THEN [t |-> "alloc", b |-> o.got[k]]
                 ELSE [t |-> "data", b |-> o.got[k], c |-> NewChain(o)[o.got[k]]]
      BY <1>3, <1>6, <1>8, <2>2, ZenonT(30)
    <3> HIDE DEF k
    <3> QED
      BY <3>1, <3>2, ZenonT(30) DEF RecordAt, g
  <2>3. CASE m = 2 * g + 1
    BY <1>6, <1>8, <2>3, ZenonT(30) DEF RecordAt, p, g
  <2>4. CASE m \in (2 * g + 2)..(2 * g + 1 + w)
    <3> DEFINE k == m - (2 * g + 1)
    <3>1. k \in 1..w /\ m = 2 * g + 1 + k
      BY <1>1, <2>4, SMTT(60), Z3T(60)
    <3> HIDE DEF k
    <3>2. R[m] = [t |-> "free", b |-> o.old[k]]
      BY <1>4, <1>6, <1>7, <1>8, <3>1, ZenonT(30)
    <3> QED
      BY <3>1, <3>2, ZenonT(30) DEF RecordAt, g, w
  <2> QED
    BY <1>1, <1>9, <2>2, <2>3, <2>4, SMTT(60), Z3T(60)
<1> QED
  BY <1>6, <1>7, <1>8, <1>9, ZenonT(30) DEF PlanIs, R

(* WriteChain: the new chain is on the device, and the records are planned.*)
Planning(d, o, o2, i) ==
  /\ DOMAIN o2 = DOMAIN o /\ o2.at = "record" /\ o2.old = OldOf(d, o, i)
  /\ o2.recs = Records(i, o, NewChain(o), OldOf(d, o, i))
  /\ o2.head = (IF o.got = <<>> THEN 0 ELSE o.got[1])
  /\ o2.got = o.got /\ o2.descs = o.descs /\ o2.kvs = o.kvs


ChainWritten(d, e, f, l, c, o, i, d2, o2) ==
  /\ Fine(d2, e, f, l, c, o2, i) /\ o2 # Idle
  /\ OldOf(d2, o2, i) = OldOf(d, o, i) /\ NewOf(o2) = o.got /\ Kept(l, c, o2, i)

LEMMA WriteChainFine ==
  ASSUME NEW d, NEW e, NEW f, NEW l, NEW c, NEW o, NEW i, NEW d2, NEW o2,
         Fine(d, e, f, l, c, o, i), o # Idle, o.at = "alloc", Len(o.got) = Len(o.descs),
         IsLog(l), c \in 0..Len(l), Planning(d, o, o2, i),
         d2[i] = d[i], \A b \in Range(OldOf(d, o, i)) : d2[b] = d[b],
         \A b \in Range(o.got) : d2[b] = NewChain(o)[b]
  PROVE  ChainWritten(d, e, f, l, c, o, i, d2, o2)
<1> DEFINE s == OldOf(d, o, i)
<1>1. CallShape(o) /\ SettledFine(d, o, i) /\ AllocIs(d, l, c, o, i)
  BY AllocParts, ZenonT(30) DEF Fine, CallFine
<1>2. Row(s) /\ d[i] = HeadOf(s) /\ Holds(d, s) /\ Row(o.got) /\ Len(o.got) \in Nat /\ Len(s) \in Nat
  <2>1. Linked(d, i, s)
    BY <1>1, ZenonT(30) DEF AllocIs, SettledFine
  <2>2. Row(s) /\ d[i] = HeadOf(s) /\ Holds(d, s) /\ Row(o.got)
    BY <1>1, <2>1, ZenonT(30) DEF Linked, CallShape
  <2> HIDE DEF s
  <2> QED
    BY <2>2, RowIs, ZenonT(30)
<1>3. /\ DOMAIN o2 = Fields /\ o2.at = "record" /\ o2.old = s /\ o2.head = HeadOf(o.got)
      /\ o2.got = o.got /\ o2.descs = o.descs /\ o2.kvs = o.kvs
  BY <1>1, ZenonT(30) DEF Planning, CallShape, HeadOf
<1>4. o2 # Idle
  BY <1>3, SMTT(60), Z3T(60) DEF Idle
<1>5. ~Early(o2) /\ OldOf(d2, o2, i) = s /\ NewOf(o2) = o.got /\ Kept(l, c, o2, i)
  BY <1>3, ZenonT(30) DEF Early, OldOf, NewOf, Kept
<1>6. o2.recs = Plan(o2, i)
  <2>1. \A x : NewChain(x) = BlocksFor(x.got, x.descs, x.kvs)
    BY ZenonT(30) DEF NewChain, BlocksFor
  <2>2. NewChain(o2) = NewChain(o)
    BY <1>3, <2>1, ZenonT(30)
  <2>3. o2.recs = Records(i, o, NewChain(o), s)
    BY ZenonT(30) DEF Planning
  <2> HIDE DEF s
  <2> QED
    BY <1>3, <2>2, <2>3, ZenonT(30) DEF Plan, Records, Builds, Pointer
<1>7. PlanIs(o2, i)
  <2> HIDE DEF s
  <2> QED
    BY <1>2, <1>3, PlanParts, ZenonT(30)
<1>8. IsLog(o2.recs) /\ Len(o2.recs) = 2 * Len(o.got) + 1 + Len(s)
  BY <1>3, <1>6, <1>7, ZenonT(30) DEF PlanIs
<1> HIDE DEF s
<1>9. Written(o2) = 0 /\ o2.recs # <<>> /\ ~Pointed(o2) /\ 0 \in Nat
  <2> DEFINE g == Len(o.got)
             w == Len(s)
             n == Len(o2.recs)
  <2>1. g \in Nat /\ w \in Nat /\ n = 2 * g + 1 + w
    BY <1>2, <1>8, ZenonT(30)
  <2>2. Written(o2) = 2 * g + 1 + w - n /\ (Pointed(o2) => n <= w) /\ (o2.recs = <<>> => n = Len(<<>>))
    BY <1>3, ZenonT(30) DEF Written, Pointed
  <2> HIDE DEF g, w, n
  <2>3. Len(<<>>) = 0
    BY SMTT(60), Z3T(60)
  <2> QED
    BY <2>1, <2>2, <2>3, SMTT(60), Z3T(60)
<1>10. \A q \in 1..Len(o2.recs) : o2.recs[q] = Plan(o2, i)[Written(o2) + q]
  <2>1. \A q \in 1..Len(o2.recs) : 0 + q = q
    <3> DEFINE n == Len(o2.recs)
    <3>1. n \in Nat
      BY <1>8, SMTT(60), Z3T(60) DEF IsLog
    <3> HIDE DEF n
    <3>2. \A q \in 1..n : 0 + q = q
      BY <3>1, SMTT(60), Z3T(60)
    <3> QED
      BY <3>2, ZenonT(30) DEF n
  <2> QED
    BY <1>6, <1>9, <2>1, ZenonT(30)
<1>11. CallShape(o2)
  BY <1>1, <1>3, ZenonT(30) DEF CallShape, Stages
<1>12. Planned(o2, i)
  BY <1>2, <1>3, <1>8, <1>9, <1>10, ZenonT(30) DEF Planned, Late
<1>13. InLog(l, c, o2, i)
  <2>1. \A k \in 1..Len(o2.got) : ~ (2 * k <= 0)
    <3> DEFINE g == Len(o.got)
    <3>1. g \in Nat /\ g = Len(o2.got)
      BY <1>2, <1>3, ZenonT(30)
    <3> HIDE DEF g
    <3>2. \A k \in 1..g : ~ (2 * k <= 0)
      BY <3>1, SMTT(60), Z3T(60)
    <3> QED
      BY <3>1, <3>2, ZenonT(30)
  <2> QED
    BY <1>3, <1>9, <2>1, ZenonT(30) DEF InLog, Late
<1>14. Holds(d2, o.got)
  <2>1. \A k \in 1..Len(o.got) : o.got[k] \in Range(o.got)
    BY <1>2, RowIs, ZenonT(30)
  <2>2. \A k \in 1..Len(o.got) : /\ NewChain(o)[o.got[k]].kind = "xattr"
                                /\ NewChain(o)[o.got[k]].next = NextOf(o.got, k)
    BY <1>2, NewChainIs, ZenonT(30)
  <2> QED
    BY <2>1, <2>2, ZenonT(30) DEF Holds
<1>15. Holds(d2, s)
  BY <1>2, HoldsKept, ZenonT(30) DEF s
<1>16. OnDevice(d2, o2, i)
  BY <1>2, <1>3, <1>14, <1>15, ZenonT(30) DEF OnDevice
<1>17. ASSUME NEW n \in {c, Len(l)} PROVE ViewFine(d2, e, f, l, o2, i, n)
  <2>1. Sure(d2, l, o2, i, n) = s
    BY <1>5, <1>9, ZenonT(30) DEF Sure, Moved
  <2>2. ChainSeen(l, d, e, f, i, s, n)
    BY <1>1, <1>17, ZenonT(30) DEF Fine, ViewFine, AllocIs, s
  <2>3. n \in Nat
    BY <1>17, SMTT(60), Z3T(60) DEF IsLog
  <2>4. Later(l, l, n, n) /\ Silent(l, i, Range(s), n, n)
    BY <2>3, SMTT(60), Z3T(60) DEF Later, Silent, NoFull, NoBits
  <2>5. Stored(d, e, d2, e, i, Range(s))
    BY ZenonT(30) DEF Stored, s
  <2>6. \A b \in Range(s) : b \in f => b \in f
    OBVIOUS
  <2>7. ChainSeen(l, d2, e, f, i, s, n)
    BY <1>2, <2>2, <2>4, <2>5, <2>6, SeenKept, ZenonT(30)
  <2> QED
    BY <2>1, <2>7, ZenonT(30) DEF ViewFine
<1>18. Fine(d2, e, f, l, c, o2, i)
  BY <1>5, <1>11, <1>12, <1>13, <1>16, <1>17, ZenonT(30) DEF Fine, CallFine, SettledFine
<1> QED
  BY <1>4, <1>5, <1>18, ZenonT(30) DEF s, ChainWritten

(* WriteRecord: the next record of the call goes to the log.               *)
Advanced(o, o2) ==
  /\ DOMAIN o2 = DOMAIN o /\ o2.recs = Tail(o.recs)
  /\ o2.at = (IF Len(o.recs) = 1 THEN "sync" ELSE "record")
  /\ o2.got = o.got /\ o2.descs = o.descs /\ o2.kvs = o.kvs /\ o2.old = o.old /\ o2.head = o.head

(* The record r is of the new chain, or points at it, or frees a block of  *)
(* the old one.                                                            *)
Building(o, o2, r) == ~Pointed(o) /\ ~Pointed(o2) /\ r.t \in {"alloc", "data"} /\ r.b \in Range(o.got)
Pointing(o, o2, i, r) == ~Pointed(o) /\ Pointed(o2) /\ r = Pointer(i, o)
Freeing(o, o2, r)  == Pointed(o) /\ Pointed(o2) /\ r.t = "free" /\ r.b \in Range(o.old)

LogsChain(o, w, r) ==
  \A k \in 1..Len(o.got) : 2 * k <= w + 1 =>
     \/ 2 * k <= w /\ ~IsBits(r, o.got[k])
     \/ IsBits(r, o.got[k]) /\ IsLink(r, o.got, k)

RecordTurn(o, o2, i, r) ==
  /\ Building(o, o2, r) \/ Pointing(o, o2, i, r) \/ Freeing(o, o2, r)
  /\ LogsChain(o, Written(o), r)
  /\ CallShape(o2) /\ Planned(o2, i) /\ Written(o2) = Written(o) + 1

LEMMA TailIs ==
  ASSUME NEW s, IsLog(s), s # <<>>
  PROVE  /\ Len(s) \in Nat /\ Len(s) >= 1 /\ IsLog(Tail(s)) /\ Len(Tail(s)) = Len(s) - 1
         /\ Head(s) = s[1] /\ \A q \in 1..Len(Tail(s)) : Tail(s)[q] = s[q + 1]
         /\ Len(s) = 1 => Tail(s) = <<>>
         /\ Len(s) # 1 => Tail(s) # <<>>
<1> DEFINE R == Range(s)
           u == Tail(s)
<1>1. s \in Seq(R)
  BY ZenonT(30) DEF IsLog
<1> HIDE DEF R
<1>2. /\ Len(s) \in Nat /\ Len(s) >= 1 /\ u \in Seq(R) /\ Len(u) = Len(s) - 1
      /\ Head(s) = s[1] /\ \A q \in 1..Len(u) : u[q] = s[q + 1]
  BY <1>1, SMTT(60), Z3T(60)
<1>3. u = [q \in 1..Len(u) |-> u[q]] /\ Len(u) \in Nat
  <2> HIDE DEF u
  <2> QED
    BY <1>2, SMTT(60), Z3T(60)
<1>4. (Len(s) = 1 => u = <<>>) /\ (Len(s) # 1 => u # <<>>)
  BY <1>1, <1>2, SMTT(60), Z3T(60)
<1> HIDE DEF u
<1> QED
  BY <1>2, <1>3, <1>4, FcnIsLog, ZenonT(30) DEF u

LEMMA TurnParts ==
  ASSUME NEW o, NEW o2, NEW i, CallShape(o), Planned(o, i), o.at = "record", Advanced(o, o2),
         Range(o.got) \cap Range(o.old) = {}
  PROVE  RecordTurn(o, o2, i, Head(o.recs))
<1> DEFINE g == Len(o.got)
           w == Len(o.old)
           n == Len(o.recs)
           m == Len(o2.recs)
           W == Written(o)
           r == Head(o.recs)
<1>1. /\ Row(o.got) /\ Row(o.old) /\ IsLog(o.recs) /\ o.recs # <<>> /\ W \in Nat
      /\ \A q \in 1..n : o.recs[q] = Plan(o, i)[W + q]
  BY ZenonT(30) DEF CallShape, Planned
<1>2. g \in Nat /\ w \in Nat
  BY <1>1, RowIs, ZenonT(30)
<1>3. /\ n \in Nat /\ n >= 1 /\ IsLog(o2.recs) /\ m = n - 1 /\ r = o.recs[1]
      /\ \A q \in 1..m : o2.recs[q] = o.recs[q + 1]
      /\ n = 1 => o2.recs = <<>>
      /\ n # 1 => o2.recs # <<>>
  <2>1. PICK s : s = o.recs
    BY ZenonT(30)
  <2>2. IsLog(s) /\ s # <<>>
    BY <1>1, <2>1, ZenonT(30)
  <2>3. /\ Len(s) \in Nat /\ Len(s) >= 1 /\ IsLog(Tail(s)) /\ Len(Tail(s)) = Len(s) - 1
        /\ Head(s) = s[1] /\ \A q \in 1..Len(Tail(s)) : Tail(s)[q] = s[q + 1]
        /\ Len(s) = 1 => Tail(s) = <<>>
        /\ Len(s) # 1 => Tail(s) # <<>>
    BY <2>2, TailIs, ZenonT(30)
  <2>4. o2.recs = Tail(s)
    BY <2>1, ZenonT(30) DEF Advanced
  <2> QED
    BY <2>1, <2>3, <2>4, ZenonT(30)
<1>4. W = 2 * g + 1 + w - n /\ Written(o2) = 2 * g + 1 + w - m
  BY ZenonT(30) DEF Written, Advanced
<1>5. ~Early(o) /\ ~Early(o2)
  BY ZenonT(30) DEF Early, Advanced
<1>6. (Pointed(o) <=> n <= w) /\ (Pointed(o2) <=> m <= w)
  BY <1>5, ZenonT(30) DEF Pointed, Advanced
<1>7. PlanIs(o, i) /\ Plan(o2, i) = Plan(o, i)
  BY <1>1, PlanParts, PlanSame, ZenonT(30) DEF Advanced
<1>8. /\ \A k \in 1..g : o.got[k] \in Range(o.got)
      /\ \A k \in 1..w : o.old[k] \in Range(o.old)
  BY <1>1, RowIs, ZenonT(30)
<1>9. \A j, k \in 1..g : o.got[j] = o.got[k] => j = k
  BY <1>1, ZenonT(30) DEF Row
<1>10. \A k \in 1..g : NewChain(o)[o.got[k]].kind = "xattr" /\ NewChain(o)[o.got[k]].next = NextOf(o.got, k)
  BY <1>1, NewChainIs, ZenonT(30)
<1>11. CallShape(o2)
  BY ZenonT(30) DEF CallShape, Advanced, Stages
<1> HIDE DEF g, w, n, m, W
<1>12. /\ W \in Nat /\ W + 1 \in 1..(2 * g + 1 + w) /\ 1 \in 1..n /\ Written(o2) = W + 1
       /\ W + 1 \in Nat
       /\ (W + 1 <= 2 * g => ~ (n <= w) /\ ~ (m <= w))
       /\ (W + 1 = 2 * g + 1 => ~ (n <= w) /\ m <= w)
       /\ (W + 1 > 2 * g + 1 => n <= w /\ m <= w)
  BY <1>1, <1>2, <1>3, <1>4, SMTT(60), Z3T(60)
<1>13. RecordAt(o, i, W + 1, r)
  <2>1. r = Plan(o, i)[W + 1]
    BY <1>1, <1>3, <1>12, ZenonT(30) DEF W, n
  <2> QED
    BY <1>7, <1>12, <2>1, ZenonT(30) DEF PlanIs, g, w
<1> HIDE DEF r
<1>14. ASSUME NEW k \in 1..g, W + 1 = 2 * k - 1, r = [t |-> "alloc", b |-> o.got[k]]
       PROVE  Building(o, o2, r) /\ LogsChain(o, W, r)
  <2>1. r.t = "alloc" /\ r.b = o.got[k]
    BY <1>14, SMTT(60), Z3T(60)
  <2>2. W + 1 <= 2 * g
    BY <1>2, <1>12, <1>14, SMTT(60), Z3T(60)
  <2>3. \A j \in 1..g : 2 * j <= W + 1 => 2 * j <= W /\ j # k
    BY <1>2, <1>12, <1>14, SMTT(60), Z3T(60)
  <2>4. LogsChain(o, W, r)
    BY <1>9, <2>1, <2>3, ZenonT(30) DEF LogsChain, IsBits, g
  <2> QED
    BY <1>6, <1>8, <1>12, <2>1, <2>2, <2>4, ZenonT(30) DEF Building
<1>15. ASSUME NEW k \in 1..g, W + 1 = 2 * k,
              r = [t |-> "data", b |-> o.got[k], c |-> NewChain(o)[o.got[k]]]
       PROVE  Building(o, o2, r) /\ LogsChain(o, W, r)
  <2>1. r.t = "data" /\ r.b = o.got[k] /\ r.c = NewChain(o)[o.got[k]]
    BY <1>15, SMTT(60), Z3T(60)
  <2>2. W + 1 <= 2 * g
    BY <1>2, <1>12, <1>15, SMTT(60), Z3T(60)
  <2>3. \A j \in 1..g : 2 * j <= W + 1 => j = k \/ (2 * j <= W /\ j # k)
    BY <1>2, <1>12, <1>15, SMTT(60), Z3T(60)
  <2>4. IsLink(r, o.got, k) /\ IsBits(r, o.got[k])
    BY <1>10, <2>1, ZenonT(30) DEF IsLink, IsBits
  <2>5. LogsChain(o, W, r)
    BY <1>9, <2>1, <2>3, <2>4, ZenonT(30) DEF LogsChain, IsBits, g
  <2> QED
    BY <1>6, <1>8, <1>12, <2>1, <2>2, <2>5, ZenonT(30) DEF Building
<1>16. ASSUME W + 1 = 2 * g + 1, r = Pointer(i, o)
       PROVE  Pointing(o, o2, i, r) /\ LogsChain(o, W, r)
  <2>1. r.t = "full"
    BY <1>16, SMTT(60), Z3T(60) DEF Pointer
  <2>2. \A j \in 1..g : 2 * j <= W + 1 => 2 * j <= W
    BY <1>2, <1>12, <1>16, SMTT(60), Z3T(60)
  <2>3. LogsChain(o, W, r)
    BY <2>1, <2>2, ZenonT(30) DEF LogsChain, IsBits, g
  <2> QED
    BY <1>6, <1>12, <1>16, <2>3, ZenonT(30) DEF Pointing
<1>17. ASSUME NEW k \in 1..w, W + 1 = 2 * g + 1 + k, r = [t |-> "free", b |-> o.old[k]]
       PROVE  Freeing(o, o2, r) /\ LogsChain(o, W, r)
  <2>1. r.t = "free" /\ r.b = o.old[k]
    BY <1>17, SMTT(60), Z3T(60)
  <2>2. W + 1 > 2 * g + 1
    BY <1>2, <1>12, <1>17, SMTT(60), Z3T(60)
  <2>3. \A j \in 1..g : 2 * j <= W + 1 => 2 * j <= W
    BY <1>2, <1>12, <1>17, SMTT(60), Z3T(60)
  <2>4. \A j \in 1..g : o.got[j] # o.old[k]
    BY <1>8, ZenonT(30)
  <2>5. LogsChain(o, W, r)
    BY <2>1, <2>3, <2>4, ZenonT(30) DEF LogsChain, IsBits, g
  <2> QED
    BY <1>6, <1>8, <1>12, <2>1, <2>2, <2>5, ZenonT(30) DEF Freeing
<1>18. (Building(o, o2, r) \/ Pointing(o, o2, i, r) \/ Freeing(o, o2, r)) /\ LogsChain(o, W, r)
  BY <1>13, <1>14, <1>15, <1>16, <1>17, ZenonT(30) DEF RecordAt, g, w
<1>19. Planned(o2, i)
  <2>1. \A q \in 1..m : q + 1 \in 1..n /\ (W + 1) + q = W + (q + 1)
    BY <1>1, <1>3, <1>12, SMTT(60), Z3T(60)
  <2>2. \A q \in 1..m : o2.recs[q] = Plan(o2, i)[Written(o2) + q]
    BY <1>1, <1>3, <1>7, <1>12, <2>1, ZenonT(30) DEF n, W, m
  <2>3. (o2.at = "sync" /\ o2.recs = <<>>) \/ (o2.at = "record" /\ o2.recs # <<>>)
    BY <1>3, ZenonT(30) DEF Advanced, n
  <2> QED
    BY <1>3, <1>12, <2>2, <2>3, ZenonT(30) DEF Planned, Advanced, Late, m
<1> QED
  BY <1>11, <1>12, <1>18, <1>19, ZenonT(30) DEF RecordTurn, r, W

LEMMA LogAppend ==
  ASSUME NEW l, NEW r, IsLog(l)
  PROVE  /\ IsLog(Append(l, r)) /\ Len(l) \in Nat /\ Len(Append(l, r)) = Len(l) + 1
         /\ \A k \in 1..Len(l) : Append(l, r)[k] = l[k]
         /\ Append(l, r)[Len(l) + 1] = r
<1> DEFINE S == Range(l) \cup {r}
           u == Append(l, r)
<1>1. l \in Seq(S) /\ r \in S
  <2>1. l \in Seq(Range(l)) /\ Range(l) \subseteq S /\ r \in S
    BY ZenonT(30) DEF IsLog
  <2> HIDE DEF S
  <2> QED
    BY <2>1, SMTT(60), Z3T(60)
<1> HIDE DEF S
<1>2. /\ u \in Seq(S) /\ Len(l) \in Nat /\ Len(u) = Len(l) + 1
      /\ \A k \in 1..Len(l) : u[k] = l[k]
      /\ u[Len(l) + 1] = r
  BY <1>1, SMTT(60), Z3T(60)
<1> HIDE DEF u
<1>3. u = [q \in 1..Len(u) |-> u[q]] /\ Len(u) \in Nat
  BY <1>2, SMTT(60), Z3T(60)
<1> QED
  BY <1>2, <1>3, FcnIsLog, ZenonT(30) DEF u

(* The log l2 is l and one more record.                                    *)
OneMore(l, l2, r) ==
  /\ IsLog(l) /\ IsLog(l2) /\ Len(l) \in Nat /\ Len(l2) = Len(l) + 1 /\ l2[Len(l) + 1] = r
  /\ \A k \in 1..Len(l) : l2[k] = l[k]

LEMMA OneMoreParts ==
  ASSUME NEW l, NEW l2, NEW r, OneMore(l, l2, r), NEW c \in 0..Len(l)
  PROVE  /\ Later(l, l2, Len(l), Len(l2)) /\ Later(l, l2, c, c) /\ Len(l2) \in Nat \ {0}
         /\ \A i : ~IsFull(r, i) => NoFull(l2, i, Len(l), Len(l2))
         /\ \A b : ~IsBits(r, b) => NoBits(l2, b, Len(l), Len(l2))
         /\ r.t # "file" => NoFile(l2, Len(l), Len(l2))
         /\ l2[Len(l2)] = r
         /\ \A i, S : Silent(l2, i, S, c, c)
<1> DEFINE N == Len(l)
           M == Len(l2)
<1> HIDE DEF N, M
<1> QED
  BY SMTT(60), Z3T(60) DEF N, M, Later, NoFull, NoBits, NoFile, Silent, OneMore

(* The new chain's contents that are in the log after record r.            *)
LEMMA LoggedNext ==
  ASSUME NEW l, NEW l2, NEW r, NEW o, NEW w, OneMore(l, l2, r), Row(o.got), LogsChain(o, w, r),
         \A k \in 1..Len(o.got) : 2 * k <= w => Logged(l, o.got, k, Len(l))
  PROVE  \A k \in 1..Len(o.got) : 2 * k <= w + 1 => Logged(l2, o.got, k, Len(l2))
<1> SUFFICES ASSUME NEW k \in 1..Len(o.got), 2 * k <= w + 1
             PROVE  Logged(l2, o.got, k, Len(l2))
  BY ZenonT(30)
<1> DEFINE b == o.got[k]
           N == Len(l)
           M == Len(l2)
<1>1. /\ Later(l, l2, N, M) /\ M \in Nat \ {0} /\ l2[M] = r
      /\ ~IsBits(r, b) => NoBits(l2, b, N, M)
  <2>1. 0 \in 0..N
    BY SMTT(60), Z3T(60) DEF OneMore
  <2> QED
    BY <2>1, OneMoreParts, ZenonT(30)
<1>2. CASE 2 * k <= w /\ ~IsBits(r, b)
  <2> HIDE DEF b
  <2>2. SameBits(l, l2, b, N, M)
    BY <1>1, <1>2, BitsKept, ZenonT(30)
  <2> QED
    BY <1>2, <2>2, ZenonT(30) DEF Logged, SameBits, b
<1>3. CASE IsBits(r, b) /\ IsLink(r, o.got, k)
  <2>1. BitsIn(l2, b, M) = M
    <3> HIDE DEF b, M
    <3> QED
      BY <1>1, <1>3, LastDecides, ZenonT(30)
  <2> QED
    BY <1>1, <1>3, <2>1, ZenonT(30) DEF Logged
<1> QED
  BY <1>2, <1>3, ZenonT(30) DEF LogsChain

RecordWritten(d, e, f, l, c, o, i, o2, l2) ==
  /\ Fine(d, e, f, l2, c, o2, i) /\ o2 # Idle
  /\ Kept(l, c, o, i) /\ OldOf(d, o, i) = o.old /\ NewOf(o) = o.got
  /\ Kept(l2, c, o2, i) /\ OldOf(d, o2, i) = o.old /\ NewOf(o2) = o.got

LEMMA RecordFine ==
  ASSUME NEW d, NEW e, NEW f, NEW l, NEW c, NEW o, NEW i, NEW o2, NEW l2, NEW r,
         Fine(d, e, f, l, c, o, i), o # Idle, o.at = "record", Advanced(o, o2), r = Head(o.recs),
         OneMore(l, l2, r), c \in 0..Len(l), Range(o.got) \cap Range(o.old) = {}
  PROVE  RecordWritten(d, e, f, l, c, o, i, o2, l2)
<1> DEFINE N == Len(l)
           M == Len(l2)
<1>1. CallShape(o) /\ Planned(o, i) /\ InLog(l, c, o, i) /\ OnDevice(d, o, i)
  BY ZenonT(30) DEF Fine, CallFine
<1>2. Row(o.got) /\ Row(o.old) /\ d[i] = HeadOf(o.old) /\ Holds(d, o.old) /\ Holds(d, o.got)
  BY <1>1, ZenonT(30) DEF CallShape, Planned, OnDevice
<1>3. RecordTurn(o, o2, i, r)
  BY <1>1, TurnParts, ZenonT(30)
<1>4. /\ DOMAIN o2 = Fields /\ o2.got = o.got /\ o2.old = o.old /\ o2.head = o.head
      /\ o2.at \in {"record", "sync"}
  BY <1>1, ZenonT(30) DEF CallShape, Advanced
<1>5. o2 # Idle
  BY <1>4, SMTT(60), Z3T(60) DEF Idle
<1>6. /\ ~Early(o) /\ ~Early(o2)
      /\ OldOf(d, o, i) = o.old /\ NewOf(o) = o.got /\ Kept(l, c, o, i)
      /\ OldOf(d, o2, i) = o.old /\ NewOf(o2) = o.got /\ Kept(l2, c, o2, i)
  BY <1>4, ZenonT(30) DEF Early, OldOf, NewOf, Kept
<1>7. /\ Later(l, l2, N, M) /\ Later(l, l2, c, c) /\ M \in Nat \ {0} /\ l2[M] = r
      /\ ~IsFull(r, i) => NoFull(l2, i, N, M)
      /\ \A b : ~IsBits(r, b) => NoBits(l2, b, N, M)
      /\ \A S : Silent(l2, i, S, c, c)
  BY OneMoreParts, ZenonT(30)
<1>8. N \in Nat /\ M = N + 1 /\ c \in 0..N
  BY ZenonT(30) DEF OneMore
<1> HIDE DEF N, M
<1>9. c <= N /\ c <= M /\ N <= M /\ ~ (M <= c) /\ M <= M /\ M # 0 /\ c \in Nat
  BY <1>8, SMTT(60), Z3T(60)
<1>10. FullIn(l, i, N) \in 0..N
  <2>1. Later(l, l, N, N) /\ NoFull(l, i, N, N)
    BY <1>8, SMTT(60), Z3T(60) DEF Later, NoFull
  <2> QED
    BY <2>1, FullKept, ZenonT(30) DEF SameFull
<1>11. FullIn(l, i, N) <= N /\ FullIn(l, i, N) <= M
  BY <1>8, <1>10, SMTT(60), Z3T(60)
<1>12. \A s, m : Row(s) /\ ChainSeen(l, d, e, f, i, s, m) /\ Later(l, l2, m, m) /\ Silent(l2, i, Range(s), m, m)
         => ChainSeen(l2, d, e, f, i, s, m)
  <2> TAKE s, m
  <2> HAVE Row(s) /\ ChainSeen(l, d, e, f, i, s, m) /\ Later(l, l2, m, m) /\ Silent(l2, i, Range(s), m, m)
  <2>1. Stored(d, e, d, e, i, Range(s)) /\ \A b \in Range(s) : b \in f => b \in f
    BY ZenonT(30) DEF Stored
  <2> QED
    BY <2>1, SeenKept, ZenonT(30)
<1>13. \A s : Row(s) /\ ChainSeen(l, d, e, f, i, s, N) /\ Silent(l2, i, Range(s), N, M)
         => ChainSeen(l2, d, e, f, i, s, M)
  <2> TAKE s
  <2> HAVE Row(s) /\ ChainSeen(l, d, e, f, i, s, N) /\ Silent(l2, i, Range(s), N, M)
  <2>1. Stored(d, e, d, e, i, Range(s)) /\ \A b \in Range(s) : b \in f => b \in f
    BY ZenonT(30) DEF Stored
  <2> QED
    BY <1>7, <2>1, SeenKept, ZenonT(30)
<1>14. ChainSeen(l, d, e, f, i, Sure(d, l, o, i, c), c) /\ ChainSeen(l, d, e, f, i, Sure(d, l, o, i, N), N)
  BY ZenonT(30) DEF Fine, ViewFine, N
<1>15. Row(Sure(d, l, o, i, c))
  BY <1>2, <1>6, ZenonT(30) DEF Sure
<1>16. ASSUME Moved(l2, o2, i, c) = Moved(l, o, i, c) PROVE ViewFine(d, e, f, l2, o2, i, c)
  <2>1. Sure(d, l2, o2, i, c) = Sure(d, l, o, i, c)
    BY <1>4, <1>6, <1>16, ZenonT(30) DEF Sure
  <2>2. ChainSeen(l2, d, e, f, i, Sure(d, l, o, i, c), c)
    BY <1>7, <1>12, <1>14, <1>15, ZenonT(30)
  <2> QED
    BY <2>1, <2>2, ZenonT(30) DEF ViewFine
<1>17. \A k \in 1..Len(o.got) : 2 * k <= Written(o) + 1 => Logged(l2, o.got, k, M)
  <2>1. PICK w : w = Written(o)
    BY ZenonT(30)
  <2>2. LogsChain(o, w, r) /\ \A k \in 1..Len(o.got) : 2 * k <= w => Logged(l, o.got, k, N)
    BY <1>1, <1>3, <2>1, ZenonT(30) DEF RecordTurn, InLog, N
  <2>3. \A k \in 1..Len(o.got) : 2 * k <= w + 1 => Logged(l2, o.got, k, M)
    BY <1>2, <2>2, LoggedNext, ZenonT(30) DEF N, M
  <2> QED
    BY <2>1, <2>3, ZenonT(30)
<1>18. ASSUME Building(o, o2, r)
       PROVE  /\ ViewFine(d, e, f, l2, o2, i, c) /\ ViewFine(d, e, f, l2, o2, i, M)
              /\ Pointed(o2) => FullIn(l2, i, M) # 0 /\ l2[FullIn(l2, i, M)].head = HeadOf(o.got)
  <2>1. ~IsFull(r, i) /\ \A b \in Range(o.old) : ~IsBits(r, b)
    BY <1>18, ZenonT(30) DEF Building, IsFull, IsBits
  <2>2. Silent(l2, i, Range(o.old), N, M)
    BY <1>7, <2>1, ZenonT(30) DEF Silent
  <2>3. ~Pointed(o) /\ ~Pointed(o2)
    BY <1>18, ZenonT(30) DEF Building
  <2>4. Moved(l2, o2, i, c) = Moved(l, o, i, c)
    BY <2>3, ZenonT(30) DEF Moved
  <2>5. Sure(d, l, o, i, N) = o.old /\ Sure(d, l2, o2, i, M) = o.old
    BY <1>6, <2>3, ZenonT(30) DEF Sure, Moved
  <2>6. ViewFine(d, e, f, l2, o2, i, M)
    BY <1>2, <1>13, <1>14, <2>2, <2>5, ZenonT(30) DEF ViewFine
  <2> QED
    BY <1>16, <2>3, <2>4, <2>6, ZenonT(30)
<1>19. ASSUME Freeing(o, o2, r)
       PROVE  /\ ViewFine(d, e, f, l2, o2, i, c) /\ ViewFine(d, e, f, l2, o2, i, M)
              /\ Pointed(o2) => FullIn(l2, i, M) # 0 /\ l2[FullIn(l2, i, M)].head = HeadOf(o.got)
  <2>1. ~IsFull(r, i) /\ \A b \in Range(o.got) : ~IsBits(r, b)
    BY <1>19, ZenonT(30) DEF Freeing, IsFull, IsBits
  <2>2. Silent(l2, i, Range(o.got), N, M) /\ NoFull(l2, i, N, M)
    BY <1>7, <2>1, ZenonT(30) DEF Silent
  <2>3. SameFull(l, l2, i, N, M)
    BY <1>7, <2>2, FullKept, ZenonT(30)
  <2>4. Pointed(o) /\ Pointed(o2) /\ FullIn(l2, i, M) = FullIn(l, i, N)
    BY <1>19, <2>3, ZenonT(30) DEF Freeing, SameFull
  <2>5. Moved(l2, o2, i, c) = Moved(l, o, i, c)
    BY <2>4, ZenonT(30) DEF Moved, N, M
  <2>6. Sure(d, l, o, i, N) = o.got /\ Sure(d, l2, o2, i, M) = o.got
    BY <1>4, <1>11, <2>4, ZenonT(30) DEF Sure, Moved, N, M
  <2>7. ViewFine(d, e, f, l2, o2, i, M)
    BY <1>2, <1>13, <1>14, <2>2, <2>6, ZenonT(30) DEF ViewFine
  <2>8. FullIn(l2, i, M) # 0 /\ l2[FullIn(l2, i, M)].head = HeadOf(o.got)
    BY <1>1, <2>3, <2>4, ZenonT(30) DEF InLog, SameFull, N
  <2> QED
    BY <1>16, <2>5, <2>7, <2>8, ZenonT(30)
<1>20. ASSUME Pointing(o, o2, i, r)
       PROVE  /\ ViewFine(d, e, f, l2, o2, i, c) /\ ViewFine(d, e, f, l2, o2, i, M)
              /\ Pointed(o2) => FullIn(l2, i, M) # 0 /\ l2[FullIn(l2, i, M)].head = HeadOf(o.got)
  <2>1. r.t = "full" /\ r.i = i /\ r.head = HeadOf(o.got)
    <3>1. r = [t |-> "full", i |-> i, head |-> HeadOf(o.got)]
      BY <1>20, ZenonT(30) DEF Pointing, Pointer, HeadOf
    <3> QED
      BY <3>1, SMTT(60), Z3T(60)
  <2>2. ~Pointed(o) /\ Pointed(o2)
    BY <1>20, ZenonT(30) DEF Pointing
  <2>3. FullIn(l2, i, M) = M
    <3>1. IsFull(l2[M], i)
      BY <1>7, <2>1, ZenonT(30) DEF IsFull
    <3> QED
      BY <1>7, <3>1, LastDecides, ZenonT(30)
  <2>4. ~Moved(l2, o2, i, c) /\ ~Moved(l, o, i, c)
    BY <1>9, <2>2, <2>3, ZenonT(30) DEF Moved, M
  <2>5. Sure(d, l2, o2, i, M) = o.got
    BY <1>4, <1>9, <2>2, <2>3, ZenonT(30) DEF Sure, Moved, M
  <2>6. ASSUME NEW k \in 1..Len(o.got) PROVE Logged(l2, o.got, k, M)
    <3>1. 2 * k <= Written(o) + 1
      <4> DEFINE g == Len(o.got)
                 w == Len(o.old)
                 n == Len(o.recs)
                 m == Len(o2.recs)
      <4>1. g \in Nat /\ w \in Nat
        BY <1>2, RowIs, ZenonT(30)
      <4>2. Written(o) = 2 * g + 1 + w - n /\ Written(o2) = 2 * g + 1 + w - m /\ Written(o2) = Written(o) + 1
        BY <1>3, <1>4, ZenonT(30) DEF Written, RecordTurn
      <4>3. m <= w
        BY <1>4, <2>2, ZenonT(30) DEF Pointed
      <4>4. n \in Nat /\ m \in Nat
        <5>1. IsLog(o.recs) /\ IsLog(o2.recs)
          BY <1>1, <1>3, ZenonT(30) DEF RecordTurn, Planned
        <5> QED
          BY <5>1, SMTT(60), Z3T(60) DEF IsLog
      <4>5. k \in 1..g
        BY <2>6, ZenonT(30)
      <4> HIDE DEF g, w, n, m
      <4> QED
        BY <4>1, <4>2, <4>3, <4>4, <4>5, SMTT(60), Z3T(60)
    <3> QED
      BY <1>17, <2>6, <3>1, ZenonT(30)
  <2>7. \A k \in 1..Len(o.got) : Taken(l2, f, o.got[k], M)
    BY <2>6, ZenonT(30) DEF Logged, Taken, IsLink
  <2>8. ChainSeen(l2, d, e, f, i, o.got, M)
    BY <1>7, <1>9, <2>1, <2>3, <2>6, <2>7, ZenonT(30) DEF ChainSeen
  <2> QED
    <3>1. Moved(l2, o2, i, c) = Moved(l, o, i, c)
      BY <2>4, ZenonT(30) DEF Moved
    <3>2. ViewFine(d, e, f, l2, o2, i, c)
      BY <1>16, <3>1, ZenonT(30)
    <3>3. ViewFine(d, e, f, l2, o2, i, M)
      BY <2>5, <2>8, ZenonT(30) DEF ViewFine
    <3> QED
      BY <1>7, <1>9, <2>1, <2>3, <3>2, <3>3, ZenonT(30)
<1>21. /\ ViewFine(d, e, f, l2, o2, i, c) /\ ViewFine(d, e, f, l2, o2, i, M)
       /\ Pointed(o2) => FullIn(l2, i, M) # 0 /\ l2[FullIn(l2, i, M)].head = HeadOf(o.got)
  BY <1>3, <1>18, <1>19, <1>20, ZenonT(30) DEF RecordTurn
<1>22. InLog(l2, c, o2, i)
  BY <1>3, <1>4, <1>17, <1>21, ZenonT(30) DEF InLog, RecordTurn, Late, M
<1>23. OnDevice(d, o2, i)
  BY <1>2, <1>4, ZenonT(30) DEF OnDevice
<1>24. Fine(d, e, f, l2, c, o2, i)
  BY <1>3, <1>6, <1>21, <1>22, <1>23, ZenonT(30) DEF Fine, CallFine, SettledFine, RecordTurn, M
<1> QED
  BY <1>5, <1>6, <1>24, ZenonT(30) DEF RecordWritten

-----------------------------------------------------------------------------
(* After the commit the call's chain is the inode's, whatever is replayed. *)
LEMMA FullBefore ==
  ASSUME NEW l, NEW i, NEW N \in Nat, NEW n \in 0..N, FullIn(l, i, N) # 0, FullIn(l, i, N) <= n
  PROVE  FullIn(l, i, n) # 0
<1> DEFINE K == {k \in 1..N : IsFull(l[k], i)}
           J == {k \in 1..n : IsFull(l[k], i)}
<1> QED
  BY LastOfIs, SMTT(60), Z3T(60) DEF FullIn

LateIs(d, l, c, o, i) ==
  /\ CallShape(o) /\ Planned(o, i) /\ InLog(l, c, o, i) /\ OnDevice(d, o, i)
  /\ ~Early(o) /\ Row(o.got) /\ Holds(d, o.got)
  /\ OldOf(d, o, i) = o.old /\ NewOf(o) = o.got
  /\ \A n \in {c, Len(l)} : Sure(d, l, o, i, n) = o.got /\ FullIn(l, i, n) # 0

LEMMA LateParts ==
  ASSUME NEW d, NEW l, NEW c, NEW o, NEW i, CallFine(d, l, c, o, i), o # Idle, o.at \in Late,
         IsLog(l), c \in 0..Len(l)
  PROVE  LateIs(d, l, c, o, i)
<1> DEFINE N == Len(l)
           F == FullIn(l, i, N)
<1>1. CallShape(o) /\ Planned(o, i) /\ InLog(l, c, o, i) /\ OnDevice(d, o, i)
  BY ZenonT(30) DEF CallFine, Late
<1>2. ~Early(o) /\ Row(o.got) /\ Row(o.old) /\ o.recs = <<>> /\ F <= c /\ Holds(d, o.got)
  BY <1>1, ZenonT(30) DEF Early, Late, CallShape, Planned, InLog, OnDevice
<1>4. Pointed(o)
  <2> DEFINE w == Len(o.old)
  <2> HIDE DEF w
  <2> QED
    BY <1>2, RowIs, SMTT(60), Z3T(60) DEF Pointed, w
<1>6. N \in Nat /\ c \in 0..N /\ N \in 0..N /\ c <= N /\ c \in Nat
  <2>1. N \in Nat
    BY SMTT(60), Z3T(60) DEF IsLog
  <2> HIDE DEF N
  <2>2. c \in 0..N
    BY DEF N
  <2> QED
    BY <2>1, <2>2, SMTT(60), Z3T(60)
<1>9. ASSUME NEW n \in {c, N} PROVE Sure(d, l, o, i, n) = o.got /\ FullIn(l, i, n) # 0
  <2>1. n \in 0..N /\ F <= n
    BY <1>2, <1>6, <1>9, LastOfIs, SMTT(60), Z3T(60) DEF FullIn
  <2> QED
    BY <1>1, <1>4, <1>6, <2>1, FullBefore, ZenonT(30) DEF Sure, Moved, InLog
<1> QED
  BY <1>1, <1>2, <1>9, ZenonT(30) DEF LateIs, OldOf, NewOf, Early

(* writeInodeDirect.                                                       *)
InodeWritten(d2, e, f, l, c, o, i) ==
  Fine(d2, e, f, l, c, o, i) /\ MayBeAt(d2, l, c, o, i, "done")

LEMMA InodeFine ==
  ASSUME NEW d, NEW e, NEW f, NEW l, NEW c, NEW o, NEW i, NEW d2,
         Fine(d, e, f, l, c, o, i), o # Idle, o.at = "inode", IsLog(l), c \in 0..Len(l),
         d2[i] = o.head, \A b \in Range(o.got) : d2[b] = d[b]
  PROVE  InodeWritten(d2, e, f, l, c, o, i)
<1>1. o.at \in Late
  BY ZenonT(30) DEF Late
<1>2. LateIs(d, l, c, o, i)
  BY <1>1, LateParts, ZenonT(30) DEF Fine
<1>3. Holds(d2, o.got)
  <2>1. PICK s : s = o.got
    BY ZenonT(30)
  <2>2. Row(s) /\ Holds(d, s) /\ \A b \in Range(s) : d2[b] = d[b]
    BY <1>2, <2>1, ZenonT(30) DEF LateIs
  <2>3. Holds(d2, s)
    BY <2>2, HoldsKept, ZenonT(30)
  <2> QED
    BY <2>1, <2>3, ZenonT(30)
<1>4. CallFine(d2, l, c, o, i)
  BY <1>2, <1>3, ZenonT(30) DEF CallFine, LateIs, OnDevice
<1>5. LateIs(d2, l, c, o, i)
  BY <1>1, <1>4, LateParts, ZenonT(30)
<1>6. ASSUME NEW n \in {c, Len(l)} PROVE ViewFine(d2, e, f, l, o, i, n)
  <2>1. PICK s : s = o.got
    BY ZenonT(30)
  <2>2. ChainSeen(l, d, e, f, i, s, n) /\ Row(s) /\ FullIn(l, i, n) # 0
    BY <1>2, <1>6, <2>1, ZenonT(30) DEF LateIs, Fine, ViewFine
  <2>3. n \in Nat
    BY <1>6, SMTT(60), Z3T(60) DEF IsLog
  <2>4. Later(l, l, n, n) /\ Silent(l, i, Range(s), n, n)
    BY <2>3, SMTT(60), Z3T(60) DEF Later, Silent, NoFull, NoBits
  <2>5. ChainSeen(l, d2, e, f, i, s, n)
    BY <2>2, <2>4, SeenKept, ZenonT(30)
  <2> QED
    BY <1>5, <1>6, <2>1, <2>5, ZenonT(30) DEF LateIs, ViewFine
<1>7. Fine(d2, e, f, l, c, o, i)
  BY <1>2, <1>4, <1>6, ZenonT(30) DEF Fine, SettledFine, LateIs
<1>8. MayBeAt(d2, l, c, o, i, "done")
  BY <1>1, <1>2, <1>3, ZenonT(30) DEF MayBeAt, LateIs, Planned, InLog, Stages, Late
<1> QED
  BY <1>7, <1>8, ZenonT(30) DEF InodeWritten

(* The call returns.                                                       *)
Returned(d, e, f, l, c, o, i) ==
  Fine(d, e, f, l, c, Idle, i) /\ OldOf(d, Idle, i) = o.got /\ NewOf(o) = o.got

LEMMA ReturnFine ==
  ASSUME NEW d, NEW e, NEW f, NEW l, NEW c, NEW o, NEW i,
         Fine(d, e, f, l, c, o, i), o # Idle, o.at = "done", IsLog(l), c \in 0..Len(l)
  PROVE  Returned(d, e, f, l, c, o, i)
<1>2. LateIs(d, l, c, o, i)
  BY LateParts, ZenonT(30) DEF Fine, Late
<1>3. d[i] = HeadOf(o.got) /\ Row(o.got) /\ Holds(d, o.got)
  BY <1>2, ZenonT(30) DEF LateIs, Planned, OnDevice
<1>4. walkXattrChain(d, d[i]).blocks = o.got
  <2>1. PICK s : s = o.got
    BY ZenonT(30)
  <2> QED
    BY <1>3, <2>1, WalkLinked, ZenonT(30)
<1> QED
  BY <1>2, <1>3, <1>4, IdleParts, ZenonT(30) DEF Fine, LateIs, Returned, ViewFine, SettledFine,
     Linked, CallFine, IdleIs

-----------------------------------------------------------------------------
(* The data file, F in memory, dr when a write has come since the commit.  *)
FileSure(d, l, n) == IF FileIn(l, n) = 0 THEN d[File] ELSE l[FileIn(l, n)].s

FileSeen(d, e, f, l, F, n) ==
  /\ FileSure(d, l, n) \subseteq F
  /\ FileIn(l, n) = 0 => e[File] = d[File]
  /\ \A b \in FileSure(d, l, n) : Taken(l, f, b, n)

HasData(e, S) == \A b \in S : e[b] = DataBlock

FileFine(d, e, f, l, c, F, dr) ==
  /\ FileSeen(d, e, f, l, F, c) /\ FileSeen(d, e, f, l, F, Len(l))
  /\ FileSure(d, l, Len(l)) = F /\ HasData(d, F)
  /\ HasData(e, IF dr THEN FileSure(d, l, c) ELSE F)

(* The log and the device say the same of the file after the step.         *)
FileStored(d, e, l, d2, e2, n) ==
  FileIn(l, n) = 0 => d2[File] = d[File] /\ e2[File] \in {e[File], d[File]}

NoBitsOf(l, S, n, m) == \A b \in S : NoBits(l, b, n, m)

FileSteady(d, e, f, l, d2, e2, f2, l2, F, n, m) ==
  /\ FileSeen(d, e, f, l, F, n) /\ Later(l, l2, n, m) /\ NoFile(l2, n, m) /\ NoBitsOf(l2, F, n, m)
  /\ FileStored(d, e, l, d2, e2, n) /\ \A b \in F : b \in f2 => b \in f

SeenAlike(d, l, n, d2, e2, f2, l2, F, m) ==
  FileSeen(d2, e2, f2, l2, F, m) /\ FileSure(d2, l2, m) = FileSure(d, l, n)

LEMMA FileSeenKept ==
  ASSUME NEW d, NEW e, NEW f, NEW l, NEW d2, NEW e2, NEW f2, NEW l2, NEW F, NEW n, NEW m,
         FileSteady(d, e, f, l, d2, e2, f2, l2, F, n, m)
  PROVE  SeenAlike(d, l, n, d2, e2, f2, l2, F, m)
<1>0. /\ FileSeen(d, e, f, l, F, n) /\ Later(l, l2, n, m) /\ NoFile(l2, n, m) /\ NoBitsOf(l2, F, n, m)
      /\ FileStored(d, e, l, d2, e2, n) /\ \A b \in F : b \in f2 => b \in f
  BY ZenonT(30) DEF FileSteady
<1>1. SameFile(l, l2, n, m)
  BY <1>0, FileKept, ZenonT(30)
<1>3. \A b \in F : SameBits(l, l2, b, n, m)
  BY <1>0, BitsKept, ZenonT(30) DEF NoBitsOf
<1> QED
  BY <1>0, <1>1, <1>3, ZenonT(30) DEF SeenAlike, FileSeen, Taken, SameBits, SameFile, FileStored,
     FileSure

(* A step that is not a write leaves the file as it is.                    *)
FileQuiet(d, e, f, l, c, d2, e2, f2, l2, F) ==
  /\ NoFile(l2, Len(l), Len(l2)) /\ NoBitsOf(l2, F, Len(l), Len(l2))
  /\ FileStored(d, e, l, d2, e2, c) /\ FileStored(d, e, l, d2, e2, Len(l))
  /\ \A b \in F : /\ d2[b] = d[b] /\ e2[b] \in {e[b], d[b]}
                  /\ b \in f2 => b \in f

LEMMA FileFineKept ==
  ASSUME NEW d, NEW e, NEW f, NEW l, NEW c, NEW d2, NEW e2, NEW f2, NEW l2, NEW c2, NEW F, NEW dr, NEW dr2,
         FileFine(d, e, f, l, c, F, dr), Logs(l, c, l2, c2),
         FileQuiet(d, e, f, l, c, d2, e2, f2, l2, F), (c2 = c /\ dr2 = dr) \/ HasData(e2, F)
  PROVE  FileFine(d2, e2, f2, l2, c2, F, dr2)
<1> DEFINE N == Len(l)
           M == Len(l2)
<1>1. Later(l, l2, N, M) /\ (c2 = c \/ c2 = M) /\ c \in 0..N
  BY ZenonT(30) DEF Logs
<1> HIDE DEF N, M
<1>4. \A b \in F : b \in f2 => b \in f
  BY ZenonT(30) DEF FileQuiet
<1>5. FileSeen(d2, e2, f2, l2, F, c) /\ FileSure(d2, l2, c) = FileSure(d, l, c)
  <2> QED
    <3>2. SeenAlike(d, l, c, d2, e2, f2, l2, F, c)
      BY <1>1, <1>4, FileSeenKept, SMTT(60), Z3T(60) DEF FileSteady, Later, NoFile, NoBitsOf,
         NoBits, Logs, IsLog, FileFine, FileQuiet
    <3> QED
      BY <3>2, ZenonT(30) DEF SeenAlike
<1>6. FileSeen(d2, e2, f2, l2, F, M) /\ FileSure(d2, l2, M) = FileSure(d, l, N)
  <2> QED
    <3>2. SeenAlike(d, l, N, d2, e2, f2, l2, F, M)
      BY <1>1, <1>4, FileSeenKept, ZenonT(30) DEF FileSteady, FileFine, FileQuiet, N, M
    <3> QED
      BY <3>2, ZenonT(30) DEF SeenAlike
<1>7. FileSeen(d2, e2, f2, l2, F, c2)
  BY <1>1, <1>5, <1>6, ZenonT(30)
<1>9. FileSure(d2, l2, c2) \subseteq F /\ FileSure(d, l, c) \subseteq F
  BY <1>7, ZenonT(30) DEF FileSeen, FileFine
<1>10. HasData(e2, IF dr2 THEN FileSure(d2, l2, c2) ELSE F)
  <2>1. CASE c2 = c /\ dr2 = dr
    <3>1. HasData(e, IF dr THEN FileSure(d, l, c) ELSE F) /\ HasData(d, F)
      BY ZenonT(30) DEF FileFine
    <3>2. \A b \in F : e2[b] = e[b] \/ e2[b] = d[b]
      BY ZenonT(30) DEF FileQuiet
    <3>3. CASE dr
      BY <1>5, <1>9, <2>1, <3>1, <3>2, <3>3, ZenonT(30) DEF HasData
    <3>4. CASE ~dr
      BY <1>9, <2>1, <3>1, <3>2, <3>4, ZenonT(30) DEF HasData
    <3> QED
      BY <3>3, <3>4, ZenonT(30)
  <2>2. CASE HasData(e2, F)
    BY <1>9, <2>2, ZenonT(30) DEF HasData
  <2> QED
    BY <2>1, <2>2, ZenonT(30)
<1> QED
  BY <1>6, <1>7, <1>10, ZenonT(30) DEF FileFine, M, FileQuiet, HasData, N

(* WriteData's last record: the file with its new block.                   *)
LEMMA FileGrows ==
  ASSUME NEW d, NEW e, NEW f, NEW l, NEW c, NEW F, NEW dr, NEW b, NEW l2, NEW d2,
         FileFine(d, e, f, l, c, F, dr), c \in 0..Len(l), Taken(l, f, b, Len(l)),
         OneMore(l, l2, [t |-> "file", s |-> F \cup {b}]),
         d2[File] = d[File], d2[b] = DataBlock, \A x \in F : d2[x] = d[x]
  PROVE  FileFine(d2, e, f, l2, c, F \cup {b}, TRUE)
<1> DEFINE N == Len(l)
           M == Len(l2)
           G == F \cup {b}
           r == [t |-> "file", s |-> G]
<1>1. r.t = "file" /\ r.s = G
  BY SMTT(60), Z3T(60)
<1>2. OneMore(l, l2, r)
  BY ZenonT(30)
<1> HIDE DEF r
<1>3. ~IsBits(r, 0) /\ \A x : ~IsBits(r, x)
  BY <1>1, ZenonT(30) DEF IsBits
<1>4. /\ Later(l, l2, N, M) /\ Later(l, l2, c, c) /\ M \in Nat \ {0} /\ l2[M] = r
      /\ \A x : NoBits(l2, x, N, M)
  BY <1>2, <1>3, OneMoreParts, ZenonT(30)
<1>5. FileIn(l2, M) = M /\ M # 0
  BY <1>1, <1>4, LastDecides, ZenonT(30)
<1>6. FileSure(d2, l2, M) = G
  BY <1>1, <1>4, <1>5, ZenonT(30) DEF FileSure
<1>7. \A x \in G : Taken(l, f, x, N)
  BY ZenonT(30) DEF FileFine, FileSeen
<1>8. \A x \in G : SameBits(l, l2, x, N, M)
  BY <1>4, BitsKept, ZenonT(30)
<1>9. FileSeen(d2, e, f, l2, G, M)
  BY <1>5, <1>6, <1>7, <1>8, ZenonT(30) DEF FileSeen, Taken, SameBits
<1>10. FileSeen(d2, e, f, l2, F, c) /\ FileSure(d2, l2, c) = FileSure(d, l, c)
  <2>1. FileSeen(d, e, f, l, F, c) /\ FileStored(d, e, l, d2, e, c)
    BY ZenonT(30) DEF FileFine, FileStored
  <2>2. c \in Nat
    BY SMTT(60), Z3T(60) DEF OneMore
  <2>3. NoFile(l2, c, c) /\ NoBitsOf(l2, F, c, c)
    BY <2>2, SMTT(60), Z3T(60) DEF NoFile, NoBitsOf, NoBits
  <2>4. \A x \in F : x \in f => x \in f
    OBVIOUS
  <2> QED
    <3>1. FileSteady(d, e, f, l, d2, e, f, l2, F, c, c)
      BY <1>4, <2>1, <2>3, <2>4, ZenonT(30) DEF FileSteady
    <3>2. SeenAlike(d, l, c, d2, e, f, l2, F, c)
      BY <3>1, FileSeenKept, ZenonT(30)
    <3> QED
      BY <3>2, ZenonT(30) DEF SeenAlike
<1>11. FileSeen(d2, e, f, l2, G, c) /\ FileSure(d, l, c) \subseteq F
  BY <1>10, ZenonT(30) DEF FileSeen
<1>12. HasData(d2, G)
  BY ZenonT(30) DEF FileFine, HasData
<1>13. HasData(e, FileSure(d2, l2, c))
  <2>1. CASE dr
    BY <1>10, <2>1, ZenonT(30) DEF FileFine
  <2>2. CASE ~dr
    BY <1>10, <1>11, <2>2, ZenonT(30) DEF FileFine, HasData
  <2> QED
    BY <2>1, <2>2, ZenonT(30)
<1> QED
  BY <1>6, <1>9, <1>11, <1>12, <1>13, ZenonT(30) DEF FileFine

-----------------------------------------------------------------------------
(* A crash.  The records R that replay reads are the first c of l.         *)
Cut(R, l, c) == c \in Nat /\ DOMAIN R = 1..c /\ \A k \in 1..c : R[k] = l[k]

LEMMA CutIs ==
  ASSUME NEW l, NEW c, IsLog(l), c \in 0..Len(l)
  PROVE  Cut(SubSeq(l, 1, c), l, c)
BY SMTT(60), Z3T(60) DEF Cut, IsLog

LEMMA FinalIs ==
  ASSUME NEW R, NEW l, NEW c, Cut(R, l, c), NEW i
  PROVE  xattrFinal(R, i) = IF FullIn(l, i, c) = 0 THEN 0 ELSE l[FullIn(l, i, c)].head
<1> DEFINE K == {j \in DOMAIN R : R[j].t = "full" /\ R[j].i = i}
           k == LastOf(K)
<1>1. K = {j \in 1..c : IsFull(l[j], i)} /\ K \in SUBSET (1..c) /\ c \in Nat
  BY ZenonT(30) DEF Cut, IsFull
<1>3. xattrFinal(R, i) = IF k = 0 THEN 0 ELSE R[k].head
  BY ZenonT(30) DEF xattrFinal
<1> HIDE DEF K
<1> QED
  BY <1>1, <1>3, LastOfIs, ZenonT(30) DEF Cut, FullIn

(* The last record of a block of the chain holds its contents.             *)
LastData(R, b, m) ==
  \A D : D = {j \in DOMAIN R : R[j].t = "data" /\ R[j].b = b} => LastOf(D) = m /\ m # 0 /\ m \in D

LEMMA DataLast ==
  ASSUME NEW R, NEW l, NEW c, Cut(R, l, c), NEW s, NEW k, Logged(l, s, k, c)
  PROVE  LastData(R, s[k], BitsIn(l, s[k], c)) /\ IsLink(R[BitsIn(l, s[k], c)], s, k)
<1> DEFINE b == s[k]
           B == {j \in 1..c : IsBits(l[j], b)}
           D == {j \in DOMAIN R : R[j].t = "data" /\ R[j].b = b}
           m == BitsIn(l, b, c)
<1>1. m # 0 /\ IsLink(l[m], s, k) /\ m = LastOf(B) /\ c \in Nat /\ B \in SUBSET (1..c)
  BY ZenonT(30) DEF Logged, BitsIn, Cut
<1>2. D \subseteq B /\ D \in SUBSET (1..c)
  BY ZenonT(30) DEF Cut, IsBits
<1>3. m \in B /\ \A j \in B : j <= m
  <2> HIDE DEF B, m
  <2> QED
    BY <1>1, LastOfIs, ZenonT(30)
<1>4. m \in 1..c /\ R[m] = l[m] /\ l[m].b = b
  BY <1>3, ZenonT(30) DEF Cut, IsBits
<1>5. m \in D
  BY <1>1, <1>4, ZenonT(30) DEF Cut, IsLink
<1>6. LastOf(D) = m
  <2> HIDE DEF D, B, m
  <2> QED
    BY <1>1, <1>2, <1>3, <1>5, LastOfSame, ZenonT(30)
<1> HIDE DEF m
<1> QED
  BY <1>1, <1>4, <1>5, <1>6, ZenonT(30) DEF m, LastData

NextAt(R, s, k) == xattrNext(R, s[k]) = NextOf(s, k)

LEMMA NextIs ==
  ASSUME NEW R, NEW l, NEW c, Cut(R, l, c), NEW s, NEW k, Logged(l, s, k, c)
  PROVE  NextAt(R, s, k)
<1> DEFINE m == BitsIn(l, s[k], c)
           D == {j \in DOMAIN R : R[j].t = "data" /\ R[j].b = s[k]}
<1>1. LastData(R, s[k], m) /\ IsLink(R[m], s, k)
  BY DataLast, ZenonT(30)
<1> HIDE DEF m
<1> QED
  BY <1>1, ZenonT(30) DEF IsLink, NextAt, xattrNext, LastData

(* The live blocks of an inode: its chain, if the records point at one.    *)
FromLog(l, i, s, n) ==
  FullIn(l, i, n) # 0 => l[FullIn(l, i, n)].head = HeadOf(s) /\ \A k \in 1..Len(s) : Logged(l, s, k, n)

LEMMA LiveIs ==
  ASSUME NEW R, NEW l, NEW c, Cut(R, l, c), NEW i, NEW s, Row(s), FromLog(l, i, s, c)
  PROVE  LiveFrom(R, xattrFinal(R, i)) = IF FullIn(l, i, c) = 0 THEN {} ELSE Range(s)
<1>1. xattrFinal(R, i) = IF FullIn(l, i, c) = 0 THEN 0 ELSE l[FullIn(l, i, c)].head
  BY FinalIs, ZenonT(30)
<1>2. CASE FullIn(l, i, c) = 0
  <2> DEFINE z == << >>
  <2>1. HeadOf(z) = 0 /\ Range(z) = {} /\ Len(z) = 0 /\ z \in Seq(Pool)
    BY SMTT(60), Z3T(60) DEF HeadOf, Range
  <2> HIDE DEF z
  <2>3. Row(z) /\ \A k \in 1..Len(z) : xattrNext(R, z[k]) = NextOf(z, k)
    BY <2>1, XattrAssumption, SMTT(60), Z3T(60) DEF Row
  <2> QED
    BY <1>1, <1>2, <2>1, <2>3, LiveLinked, ZenonT(30)
<1>3. CASE FullIn(l, i, c) # 0
  <2>1. xattrFinal(R, i) = HeadOf(s) /\ \A k \in 1..Len(s) : Logged(l, s, k, c)
    BY <1>1, <1>3, ZenonT(30) DEF FromLog
  <2>2. \A k \in 1..Len(s) : NextAt(R, s, k)
    BY <2>1, NextIs, ZenonT(30)
  <2> QED
    BY <1>3, <2>1, <2>2, LiveLinked, ZenonT(30) DEF NextAt
<1> QED
  BY <1>2, <1>3, ZenonT(30)

(* The bitmap after replay.                                                *)
LEMMA BitsAre ==
  ASSUME NEW R, NEW l, NEW c, Cut(R, l, c), NEW f
  PROVE  ReplayBits(f, R) \subseteq Pool /\ \A b \in ReplayBits(f, R) : ~ Taken(l, f, b, c)
<1> SUFFICES ASSUME NEW b \in ReplayBits(f, R) PROVE b \in Pool /\ ~ Taken(l, f, b, c)
  BY ZenonT(30)
<1> DEFINE K == {j \in DOMAIN R : R[j].t \in {"alloc", "data", "free"} /\ R[j].b = b}
           k == LastOf(K)
<1>1. b \in Pool /\ IF k = 0 THEN b \in f ELSE R[k].t = "free"
  BY ZenonT(30) DEF ReplayBits
<1>2. K = {j \in 1..c : IsBits(l[j], b)} /\ K \in SUBSET (1..c) /\ c \in Nat
  BY ZenonT(30) DEF Cut, IsBits
<1> HIDE DEF K
<1> QED
  BY <1>1, <1>2, LastOfIs, ZenonT(30) DEF Cut, Taken, BitsIn

-----------------------------------------------------------------------------
(* The invariant.  What an inode owns is its own; a block that is in no    *)
(* chain and not in the file is free, until a crash or an error leaves one *)
(* behind.                                                                 *)
Keys == Pool \cup Inos \cup {File}

OwnOf(i)  == Own(disk, log, com, op[i], i)
FineOf(i) == Fine(disk, stable, bitmap, log, com, op[i], i)
TwinOf(i) == Kept(log, com, op[i], i) => Range(NewOf(op[i])) \cap Range(OldOf(disk, op[i], i)) = {}
FileOf    == FileFine(disk, stable, bitmap, log, com, file, drain)

Shape ==
  /\ DOMAIN disk = Keys /\ DOMAIN stable = Keys
  /\ free \subseteq Pool /\ bitmap \subseteq Pool /\ file \subseteq Pool
  /\ IsLog(log) /\ com \in 0..Len(log)
  /\ jlock \in Inos \cup {File, Nobody} /\ (jlock # Nobody => com = Len(log))
  /\ drain \in BOOLEAN /\ readOnly \in BOOLEAN
  /\ DOMAIN op = Inos /\ \A i \in Inos : op[i].at = "failed" => readOnly

Apart ==
  /\ \A i, j \in Inos : i # j => OwnOf(i) \cap OwnOf(j) = {}
  /\ \A i \in Inos : OwnOf(i) \cap (free \cup file) = {}
  /\ file \cap free = {}

Covered ==
  crashes = 0 /\ ~readOnly =>
    \A b \in Pool : b \in file \/ b \in free \/ \E i \in Inos : b \in OwnOf(i)

Calls == \A i \in Inos : FineOf(i) /\ TwinOf(i)

XInv == Shape /\ Calls /\ FileOf /\ Apart /\ Covered

(* The inodes other than i when the step is quiet for them.                *)
QuietFor(j) == Quiet(disk, stable, bitmap, log, disk', stable', bitmap', log', j, OwnOf(j))

AsBefore(j) ==
  /\ FineOf(j)' /\ TwinOf(j)' /\ OwnOf(j)' \subseteq OwnOf(j)
  /\ op[j].at # "failed" => OwnOf(j)' = OwnOf(j)

LEMMA OtherKept ==
  ASSUME NEW j \in Inos, FineOf(j), TwinOf(j), Logs(log, com, log', com'), op'[j] = op[j], QuietFor(j)
  PROVE  AsBefore(j)
<1> DEFINE o == op[j]
<1>1. /\ Fine(disk', stable', bitmap', log', com', o, j) /\ OldOf(disk', o, j) = OldOf(disk, o, j)
      /\ Own(disk', log', com', o, j) \subseteq OwnOf(j)
      /\ o.at # "failed" => Own(disk', log', com', o, j) = OwnOf(j)
      /\ Kept(log', com', o, j) => Kept(log, com, o, j)
  <2>1. Unmoved(disk, log, com, disk', stable', bitmap', log', com', o, j)
    <3>1. Fine(disk, stable, bitmap, log, com, o, j)
      BY ZenonT(30) DEF FineOf
    <3>2. Quiet(disk, stable, bitmap, log, disk', stable', bitmap', log', j, Own(disk, log, com, o, j))
      BY ZenonT(30) DEF QuietFor, OwnOf
    <3> HIDE DEF o
    <3> QED
      BY <3>1, <3>2, FineKept, ZenonT(30)
  <2> QED
    BY <2>1, ZenonT(30) DEF Unmoved, OwnOf
<1> HIDE DEF o
<1> QED
  BY <1>1, ZenonT(30) DEF AsBefore, FineOf, OwnOf, TwinOf, o

(* Blocks that move between inode i, the file and the free set keep the    *)
(* rest apart.                                                             *)
Mine(i) == IF i \in Inos THEN OwnOf(i) ELSE {}

Moves(i) ==
  /\ Mine(i)' \subseteq Mine(i) \cup free \cup file
  /\ free' \subseteq Mine(i) \cup free \cup file
  /\ file' \subseteq Mine(i) \cup free \cup file
  /\ Mine(i)' \cap (free' \cup file') = {} /\ file' \cap free' = {}
  /\ crashes' = 0 /\ ~readOnly' =>
       /\ crashes = 0 /\ ~readOnly
       /\ Mine(i) \subseteq Mine(i)' \cup free' \cup file'
       /\ free \subseteq Mine(i)' \cup free' \cup file'
       /\ file \subseteq Mine(i)' \cup free' \cup file'

LEMMA ApartKept ==
  ASSUME Shape, Apart, Covered, NEW i, \A j \in Inos : j # i => AsBefore(j), Moves(i)
  PROVE  Apart' /\ Covered'
<1>1. \A j \in Inos : j # i => Mine(i) \cap OwnOf(j) = {}
  BY ZenonT(30) DEF Mine, Apart
<1>2. \A j \in Inos : j # i => OwnOf(j) \cap (free \cup file) = {}
  BY ZenonT(30) DEF Apart
<1>3. \A j \in Inos : j # i => OwnOf(j)' \subseteq OwnOf(j)
  BY ZenonT(30) DEF AsBefore
<1>4. i \in Inos => Mine(i) = OwnOf(i) /\ Mine(i)' = OwnOf(i)'
  BY ZenonT(30) DEF Mine
<1>5. \A j \in Inos : j # i => OwnOf(j)' \cap Mine(i)' = {}
  BY <1>1, <1>2, <1>3, ZenonT(30) DEF Moves
<1>8. \A j, k \in Inos : j # k => OwnOf(j)' \cap OwnOf(k)' = {}
  <2> TAKE j, k \in Inos
  <2> HAVE j # k
  <2>1. CASE j = i
    BY <1>4, <1>5, <2>1, ZenonT(30)
  <2>2. CASE k = i
    BY <1>4, <1>5, <2>2, ZenonT(30)
  <2>3. CASE j # i /\ k # i
    BY <1>3, <2>3, ZenonT(30) DEF Apart
  <2> QED
    BY <2>1, <2>2, <2>3, ZenonT(30)
<1>11. ASSUME crashes' = 0, ~readOnly', NEW b \in Pool
       PROVE  b \in file' \/ b \in free' \/ \E j \in Inos : b \in OwnOf(j)'
  <2>1. crashes = 0 /\ ~readOnly
    BY <1>11, ZenonT(30) DEF Moves
  <2>3. ASSUME b \in file \/ b \in free \/ b \in Mine(i)
        PROVE  b \in Mine(i)' \/ b \in free' \/ b \in file'
    BY <1>11, <2>3, ZenonT(30) DEF Moves
  <2>5. ASSUME NEW j \in Inos, b \in OwnOf(j), j # i PROVE b \in OwnOf(j)'
    BY <2>1, <2>5, ZenonT(30) DEF AsBefore, Shape
  <2>6. ASSUME NEW j \in Inos, b \in OwnOf(j), j = i PROVE b \in Mine(i)
    BY <2>6, ZenonT(30) DEF Mine
  <2> QED
    BY <1>11, <2>1, <2>3, <2>5, <2>6, ZenonT(30) DEF Covered, Mine
<1> QED
  BY <1>1, <1>2, <1>3, <1>4, <1>8, <1>11, ZenonT(30) DEF Apart, Moves, Covered

(* Steps that leave the log alone.                                         *)
SameAt(j) ==
  /\ disk'[j] = disk[j] /\ stable'[j] \in {stable[j], disk[j]}
  /\ \A b \in OwnOf(j) : /\ disk'[b] = disk[b] /\ stable'[b] \in {stable[b], disk[b]}
                         /\ b \in bitmap' => b \in bitmap

LEMMA QuietSame ==
  ASSUME NEW j, IsLog(log), log' = log, SameAt(j)
  PROVE  QuietFor(j)
<1> DEFINE N == Len(log)
<1> HIDE DEF N
<1> QED
  BY SMTT(60), Z3T(60) DEF QuietFor, Quiet, SameAt, N, Silent, NoFull, NoBits, Stored, IsLog

LEMMA SameLogs ==
  ASSUME IsLog(log), com \in 0..Len(log), log' = log, com' = com \/ com' = Len(log)
  PROVE  Logs(log, com, log', com')
<1> DEFINE N == Len(log)
<1> HIDE DEF N
<1> QED
  BY SMTT(60), Z3T(60) DEF Logs, N, Later, IsLog

(* The block AllocBlock and WriteData take.                                *)
LEMMA MinIsIn ==
  ASSUME NEW S \in SUBSET Pool, S # {}
  PROVE  Min(S) \in S
<1> DEFINE K == {PoolSize + 1 - x : x \in S}
           m == Max(K)
<1>1. K \in SUBSET (1..PoolSize) /\ K # {}
  <2>1. \A x \in Pool : PoolSize + 1 - x \in 1..PoolSize
    BY SMTT(60), Z3T(60) DEF Pool
  <2> QED
    BY <2>1, ZenonT(30)
<1>2. m \in K /\ \A y \in K : y <= m
  <2> HIDE DEF K
  <2> QED
    BY <1>1, MaxIsIn, ZenonT(30)
<1> HIDE DEF m
<1>3. PICK x \in S : m = PoolSize + 1 - x
  BY <1>2, ZenonT(30)
<1>4. \A y \in S : PoolSize + 1 - y <= m
  BY <1>2, ZenonT(30)
<1>5. \A y \in S : x <= y
  BY <1>3, <1>4, SMTT(60), Z3T(60) DEF Pool
<1> QED
  BY <1>3, <1>5, ZenonT(30) DEF Min
=============================================================================
