-------------------------- MODULE NamespaceProofs --------------------------
(***************************************************************************)
(* The tree survives every step of every call, not only the handlers: the  *)
(* sync that may come between two of them, and the bitmap steps a call     *)
(* leaves for later.  The inductive invariant NInv says what the slots and *)
(* pages stand for while a call is under way, and what is still to come.   *)
(***************************************************************************)
EXTENDS NamespaceHandlers, NaturalsInduction, WellFoundedInduction

-----------------------------------------------------------------------------
(* The calls                                                               *)

Dirs == {i \in Inos : slot[i].kind = "dir"}

\* What a tree is, in terms of the slots and pages that stand for it.
LEMMA GoodTree ==
  ASSUME NEW mm, Good(slot, ents, bits, gens, mm), NEW E, E = EntOf(slot, ents)
  PROVE  /\ ROOT \in Dirs /\ Dirs \in SUBSET Inos /\ bits = {i \in Inos : slot[i].kind # "none"}
         /\ \A d \in Inos, n \in Names : E[d][n] # None =>
              /\ d \in Dirs /\ E[d][n].ino \in Inos \ {ROOT}
              /\ slot[E[d][n].ino].kind = IF E[d][n].dir THEN "dir" ELSE "file"
         /\ \A d \in Inos, n \in Names : E[d][n].dir => E[d][n] # None /\ slot[E[d][n].ino].par = d
         /\ \A i \in Inos : slot[i].kind = "file" => slot[i].nlink # 0 /\ slot[i].nlink = Cardinality(LinkSet(E, i))
         /\ \A i \in Inos : slot[i].kind = "dir" => slot[i].nlink = 2 + Cardinality(DirSet(E, i))
         /\ \A S \in SUBSET Inos : ROOT \in S /\ ClosedDown(E, S) => Dirs \subseteq S
         /\ E \in [Inos -> Page] /\ \A d \in Inos : E[d] = Entries(slot, ents, d)
<1> DEFINE K == KindOf(slot)
           P == ParOf(slot)
           L == LinkOf(slot)
<1>1. Stored(slot, ents, gens) /\ TreeOK(K, P, L, E) /\ bits = {i \in Inos : slot[i].kind # "none"}
  BY ZenonT(30) DEF Good, Sound
<1>2. /\ TreeTyped(K, P, L, E)
      /\ \A i \in Inos : /\ K[i] = slot[i].kind /\ P[i] = slot[i].par /\ L[i] = slot[i].nlink
                         /\ E[i] = Entries(slot, ents, i)
  BY <1>1, Viewed, ZenonT(30)
<1> HIDE DEF K, P, L
<1> QED
  BY <1>1, <1>2, NoneIs, RootIn, SMTT(60), Z3T(60) DEF Parented, Counted, Connected, TreeTyped,
     Dirs,
     Resolved, TreeOK

\* A set that Reach takes for closed is closed.
LEMMA ReachClosed ==
  ASSUME NEW mm, Good(slot, ents, bits, gens, mm), NEW U \in SUBSET Inos, SubDirsOf(slot, ents, U) \subseteq U
  PROVE  ClosedDown(EntOf(slot, ents), U)
<1> DEFINE E == EntOf(slot, ents)
<1> SUFFICES ASSUME NEW d \in U, NEW n \in Names, E[d][n].dir PROVE E[d][n].ino \in U
  BY ZenonT(30) DEF ClosedDown
<1>1. E = EntOf(slot, ents)
  BY ZenonT(30)
<1> HIDE DEF E
<1> QED
  BY <1>1, RootIn, GoodTree, SMTT(60), Z3T(60) DEF SubDirsOf

LEMMA ReachRoot ==
  ASSUME NEW mm, Good(slot, ents, bits, gens, mm)
  PROVE  DirsInUse = Dirs
<1> DEFINE E == EntOf(slot, ents)
           dirs == {i \in Inos \ {ROOT} : slot[i].kind = "dir"}
           closed == {S \in SUBSET dirs : SubDirsOf(slot, ents, {ROOT} \cup S) \subseteq {ROOT} \cup S}
<1>1. DirsInUse = {ROOT} \cup {i \in dirs : \A S \in closed : i \in S}
  BY Zenon DEF DirsInUse, Reach
<1>2. ROOT \in Dirs /\ Dirs \in SUBSET Inos /\ \A S \in SUBSET Inos : ROOT \in S /\ ClosedDown(E, S) => Dirs \subseteq S
  BY GoodTree, ZenonT(30)
<1>3. \A i : i \in dirs <=> i \in Dirs /\ i # ROOT
  BY ZenonT(30) DEF Dirs
<1>4. ASSUME NEW i \in dirs, NEW S \in closed PROVE i \in S
  <2> DEFINE U == {ROOT} \cup S
  <2>0. S \in SUBSET dirs /\ SubDirsOf(slot, ents, U) \subseteq U
    BY ZenonT(30)
  <2> HIDE DEF U, closed, dirs
  <2>1. U \in SUBSET Inos /\ SubDirsOf(slot, ents, U) \subseteq U
    BY <1>2, <1>3, <2>0, ZenonT(30) DEF U
  <2> QED
    BY <1>2, <1>3, <2>1, ReachClosed, ZenonT(30) DEF U
<1> HIDE DEF dirs, closed
<1> QED
  BY <1>1, <1>2, <1>3, <1>4, ZenonT(30)

(* Whatever is below a directory, the kernel's check finds there.          *)
LEMMA ReachBelow ==
  ASSUME NEW mm, Good(slot, ents, bits, gens, mm), NEW i \in Inos, slot[i].kind = "dir"
  PROVE  BelowSet(EntOf(slot, ents), i) \subseteq Below(i)
<1> DEFINE E == EntOf(slot, ents)
           dirs == {j \in Inos \ {i} : slot[j].kind = "dir"}
           closed == {S \in SUBSET dirs : SubDirsOf(slot, ents, {i} \cup S) \subseteq {i} \cup S}
<1>2. Dirs \in SUBSET Inos /\ \A d \in Inos, n \in Names : E[d][n].dir => E[d][n].ino \in Dirs
  <2>1. E = EntOf(slot, ents)
    BY ZenonT(30)
  <2> HIDE DEF E
  <2> QED
    BY <2>1, GoodTree, SMTT(60), Z3T(60) DEF Dirs
<1>3. \A j : j \in dirs <=> j \in Dirs /\ j # i
  BY ZenonT(30) DEF Dirs
<1> SUFFICES ASSUME NEW j \in BelowSet(E, i), j # i PROVE j \in dirs /\ \A S \in closed : j \in S
  BY ZenonT(30) DEF Below, Reach
<1>5. \A U \in SUBSET Inos : i \in U /\ ClosedDown(E, U) => j \in U
  BY ZenonT(30) DEF BelowSet
<1>8. ASSUME NEW S \in closed PROVE j \in S
  <2> DEFINE U == {i} \cup S
  <2>1. U \in SUBSET Inos /\ SubDirsOf(slot, ents, U) \subseteq U
    BY <1>2, <1>3, ZenonT(30)
  <2> HIDE DEF U, closed, E
  <2> QED
    BY <1>5, <2>1, ReachClosed, ZenonT(30) DEF U, E
<1> QED
  BY <1>2, <1>3, <1>5, <1>8, ZenonT(30) DEF Dirs, ClosedDown

\* The inodes with a name are those of the bitmap: a file has its links, and a
\* directory that no entry leads to would not be below the root.
LEMMA NamedIsBits ==
  ASSUME NEW mm, Good(slot, ents, bits, gens, mm)
  PROVE  Named = bits /\ bits \in SUBSET Inos
<1> DEFINE E == EntOf(slot, ents)
<1>0. E = EntOf(slot, ents)
  BY ZenonT(30)
<1> HIDE DEF E
<1>1. /\ ROOT \in Dirs /\ Dirs \in SUBSET Inos /\ bits = {i \in Inos : slot[i].kind # "none"}
      /\ \A d \in Inos, n \in Names : E[d][n] # None =>
           /\ d \in Dirs /\ E[d][n].ino \in Inos \ {ROOT}
           /\ slot[E[d][n].ino].kind = IF E[d][n].dir THEN "dir" ELSE "file"
      /\ E \in [Inos -> Page]
  BY <1>0, GoodTree, SMTT(60), Z3T(60)
<1>4. \A d \in Inos, n \in Names : At(d, n) = E[d][n]
  BY <1>0, GoodTree, ZenonT(30) DEF At
<1>5. \A d \in Inos, n \in Names : E[d][n] \in Entry /\ (E[d][n] = None <=> E[d][n].ino = 0)
  BY <1>1, NoneIs, RootIn, ZenonT(30) DEF Page
<1>6. DirsInUse = Dirs
  BY ReachRoot, ZenonT(30)
<1>7. ASSUME NEW i \in Named PROVE i \in bits
  <2>1. CASE i = ROOT
    BY <1>1, <2>1, ZenonT(30) DEF Dirs
  <2>2. CASE i # ROOT
    <3>1. PICK d \in Dirs, n \in Names : i = At(d, n).ino /\ i # 0
      BY <1>6, <2>2, SMTT(60), Z3T(60) DEF Named
    <3> QED
      BY <1>1, <1>4, <1>5, <3>1, SMTT(60), Z3T(60)
  <2> QED
    BY <2>1, <2>2, ZenonT(30)
<1>8. ASSUME NEW d \in Inos, NEW n \in Names, E[d][n] # None PROVE E[d][n].ino \in Named
  BY <1>1, <1>4, <1>5, <1>6, <1>8, SMTT(60), Z3T(60) DEF Named
<1>9. ASSUME NEW i \in Inos, slot[i].kind = "file" PROVE i \in Named
  <2>1. Cardinality(LinkSet(E, i)) # 0
    BY <1>0, <1>9, GoodTree, ZenonT(30)
  <2>3. PICK p \in Inos \X Names : E[p[1]][p[2]].ino = i
    BY <2>1, FS_EmptySet, ZenonT(30) DEF LinkSet
  <2> QED
    BY <1>5, <1>8, <2>3, RootIn, ZenonT(30)
<1>10. ASSUME NEW i \in Dirs, i # ROOT PROVE i \in Named
  <2> DEFINE S == Inos \ {i}
  <2>3. PICK d \in S, n \in Names : E[d][n].dir /\ E[d][n].ino \notin S
    BY <1>0, <1>10, GoodTree, RootIn, ZenonT(30) DEF ClosedDown
  <2>4. d \in Inos /\ E[d][n] # None
    BY <2>3, NoneIs, ZenonT(30)
  <2> QED
    BY <1>1, <1>8, <2>3, <2>4, ZenonT(30)
<1>11. ASSUME NEW i \in bits PROVE i \in Named
  BY <1>1, <1>9, <1>10, SMTT(60), Z3T(60) DEF Kinds, Dirs, Good, Stored, SlotType, Named
<1> QED
  BY <1>1, <1>7, <1>11, ZenonT(30)

LEMMA MinIsIn ==
  ASSUME NEW S \in SUBSET Nat, S # {}
  PROVE  Min(S) \in S
<1>1. PICK x \in S : \A y \in S : ~ (<<y, x>> \in OpToRel(<, Nat))
  BY NatLessThanWellFounded, WFMin, ZenonT(60)
<1>3. \A y \in S : ~ (y < x)
  BY <1>1, ZenonT(30) DEF OpToRel
<1>4. \A y \in S : x <= y
  BY <1>3, SMTT(60), Z3T(60)
<1> QED
  BY <1>4, ZenonT(60) DEF Min

LEMMA AllocatesFree ==
  ASSUME NEW i, NEW more \in SUBSET Inos, Allocates(i, more)
  PROVE  i \in Inos \ bits \/ i \in more
<1> DEFINE avail == (Inos \ bits) \cup more
<1>1. avail \in SUBSET Nat
  BY NamespaceAssumption, ZenonT(30)
<1> HIDE DEF avail
<1> QED
  BY <1>1, MinIsIn, ZenonT(30) DEF avail, Allocates

\* What the kernel has ruled out, in terms of the tree.
LEMMA RenamesMay ==
  ASSUME NEW mm, Good(slot, ents, bits, gens, mm), NEW d \in Inos, NEW n \in Names, NEW e \in Dirs, NEW m \in Names,
         At(d, n) # None, At(d, n).ino # At(e, m).ino, e \notin Below(At(d, n).ino)
  PROVE  MayRename(d, n, e, m)
<1> DEFINE E == EntOf(slot, ents)
           x == At(d, n)
<1> HIDE DEF E
<1> QED
  BY ReachBelow, GoodTree, SMTT(60), Z3T(60) DEF MayRename, Dirs, At

LEMMA RetiredIn ==
  ASSUME NEW mm, Good(slot, ents, bits, gens, mm), NEW e \in Inos, NEW m \in Names
  PROVE  Retired(e, m) \in SUBSET Inos
<1> DEFINE E == EntOf(slot, ents)
<1>0. E = EntOf(slot, ents)
  BY ZenonT(30)
<1> HIDE DEF E
<1>1. At(e, m) = E[e][m] /\ E[e] \in Page
  BY <1>0, GoodTree, ZenonT(30) DEF At
<1> QED
  BY <1>1, ZenonT(30) DEF Retired, Page, Entry

-----------------------------------------------------------------------------
(* The invariant                                                           *)

(* No rename that has removed its target finds no room for the new entry.  *)
RenamesSucceed == "rename fails" \notin Calls

EndType == [do : {"end"}, call : CallNames, err : ErrNames, slot : [Inos -> SlotType], ents : [Gens -> Page]]

Types ==
  /\ slot \in [Inos -> SlotType] /\ ents \in [Gens -> Page] /\ \A i \in Inos : slot[i].nlink <= 3 + calls
  /\ gens \in Nat /\ gens <= 3 + calls /\ calls \in Nat /\ calls <= MaxCalls
  /\ bits \in SUBSET Inos /\ ROOT \in bits

Logs ==
  /\ log \in Seq(RecType) /\ com \in 0..Len(log)
  /\ \E S : past \in Seq(S)
  /\ safe \in 1..Len(past)

(* The remaining steps of a call lead to the tree its end has; or, of one  *)
(* that failed, back to the tree there is.                                 *)
Running(st, e) ==
  /\ e.err = "ok" => Good(e.slot, e.ents, Fin(st, bits), gens, 3 + calls)
  /\ e.err # "ok" => Good(slot, ents, Fin(st, bits), gens, 3 + calls) /\ NoArm(st)

Serving ==
  \/ todo = <<>> /\ Good(slot, ents, bits, gens, 3 + calls)
  \/ \E st \in Seq(StepType), e \in EndType : todo = st \o <<e>> /\ Running(st, e)

NInv == crashes \in Nat /\ (crashes = 0 => mounted = TRUE /\ torn = FALSE /\ Types /\ Logs /\ Serving)

LEMMA Ended ==
  ASSUME NEW st \in Seq(StepType), NEW e
  PROVE  /\ st \o <<e>> # <<>>
         /\ st = <<>> => Head(st \o <<e>>) = e /\ Tail(st \o <<e>>) = <<>>
         /\ st # <<>> => Head(st \o <<e>>) = Head(st) /\ Tail(st \o <<e>>) = Tail(st) \o <<e>>
<1> DEFINE S == StepType \cup {e}
           q == st \o <<e>>
<1>1. st \in Seq(S) /\ <<e>> \in Seq(S) /\ Len(<<e>>) = 1 /\ <<e>>[1] = e /\ Len(st) \in Nat
  BY SMTT(60), Z3T(60)
<1> HIDE DEF S
<1>2. q \in Seq(S) /\ Len(q) = Len(st) + 1 /\ \A k \in 1..Len(q) : q[k] = IF k <= Len(st) THEN st[k] ELSE e
  BY <1>1, SMTT(60), Z3T(60)
<1>3. q # <<>>
  BY <1>1, <1>2, SMTT(60), Z3T(60)
<1>4. CASE st = <<>>
  BY <1>1, <1>4, SMTT(60), Z3T(60)
<1>5. CASE st # <<>>
  <2>1. Len(st) > 0 /\ Head(st) = st[1] /\ Tail(st) \in Seq(S) /\ Len(Tail(st)) = Len(st) - 1
        /\ \A k \in 1..(Len(st) - 1) : Tail(st)[k] = st[k + 1]
    BY <1>1, <1>5, SMTT(60), Z3T(60)
  <2>2. Head(q) = q[1] /\ Tail(q) \in Seq(S) /\ Len(Tail(q)) = Len(st)
        /\ \A k \in 1..Len(st) : Tail(q)[k] = q[k + 1]
    BY <1>1, <1>2, <1>3, SMTT(60), Z3T(60)
  <2> HIDE DEF q
  <2>4. Head(q) = Head(st)
    BY <1>1, <1>2, <2>1, <2>2, SMTT(60), Z3T(60)
  <2>6. Tail(q) = Tail(st) \o <<e>>
    <3> DEFINE u == Tail(q)
               v == Tail(st) \o <<e>>
    <3>1. u \in Seq(S) /\ v \in Seq(S) /\ Len(u) = Len(v) /\ \A k \in 1..Len(u) : u[k] = v[k]
      BY <1>1, <1>2, <2>1, <2>2, SMTT(60), Z3T(60)
    <3> HIDE DEF u, v
    <3> QED
      BY <3>1, SMTT(60), Z3T(60) DEF u, v
  <2> QED
    BY <1>3, <1>5, <2>4, <2>6, ZenonT(30) DEF q
<1> QED
  BY <1>4, <1>5, ZenonT(30)

LEMMA IdleGood ==
  ASSUME NInv, crashes = 0, todo = <<>>
  PROVE  Good(slot, ents, bits, gens, 3 + calls)
BY Ended, ZenonT(30) DEF NInv, Serving

LEMMA GensLeft ==
  ASSUME NInv, crashes = 0, calls < MaxCalls
  PROVE  gens \in Nat /\ gens < MaxGen /\ gens <= MaxGen /\ 3 + calls \in Nat /\ 3 + calls >= 3
BY NamespaceAssumption, SMTT(60), Z3T(60) DEF MaxGen, NInv, Types

LEMMA GoodMore ==
  ASSUME NEW sl, NEW en, NEW B, NEW g, NEW m \in Nat, Good(sl, en, B, g, m),
         NEW g2 \in Nat, NEW m2 \in Nat, g <= g2, g2 <= MaxGen, m <= m2
  PROVE  Good(sl, en, B, g2, m2)
BY SMTT(60), Z3T(60) DEF Good, SlotType, Stored

LEMMA HandledMore ==
  ASSUME NEW t, NEW m \in Nat, Handled(t, gens, m), gens \in Nat, gens <= MaxGen
  PROVE  Handled(t, gens, m + 1)
<1>1. ASSUME t.err = "ok" PROVE Good(t.slot, t.ents, Fin(t.steps, bits), gens, m + 1)
  <2>2. m + 1 \in Nat /\ m <= m + 1 /\ gens <= gens
    BY SMTT(60), Z3T(60)
  <2> QED
    BY <1>1, <2>2, GoodMore, ZenonT(30) DEF Handled
<1> QED
  BY <1>1, ZenonT(30) DEF Handled

LEMMA StartKept ==
  ASSUME NInv, crashes = 0, todo = <<>>, calls < MaxCalls, NEW s, Start(s), gens' \in {gens, gens + 1},
         Handled(s, gens', 3 + calls + 1)
  PROVE  NInv'
<1> DEFINE e == [do |-> "end", call |-> s.call, err |-> s.err, slot |-> s.slot, ents |-> s.ents]
<1>1. /\ calls' = calls + 1 /\ todo' = s.steps \o <<e>>
      /\ UNCHANGED <<slot, ents, bits, log, com, past, safe, torn, cut, mounted, crashes>>
  BY ZenonT(30) DEF Start
<1>2. s \in HType /\ s.steps \in Seq(StepType) /\ s.err \in ErrNames /\ e \in EndType
  BY ZenonT(30) DEF Handled, HType, EndType
<1>3. e.err = s.err /\ e.slot = s.slot /\ e.ents = s.ents
  BY ZenonT(30)
<1> HIDE DEF e
<1>4. /\ calls \in Nat /\ MaxCalls \in Nat /\ gens \in Nat /\ gens' \in Nat /\ gens <= gens' /\ gens' <= 3 + calls'
      /\ gens' <= MaxGen /\ 3 + calls + 1 \in Nat /\ 3 + calls \in Nat /\ 3 + calls <= 3 + calls + 1
      /\ 3 + calls' = 3 + calls + 1 /\ calls' \in Nat /\ calls' <= MaxCalls
  <2>1. calls \in Nat /\ gens \in Nat /\ gens <= 3 + calls /\ MaxCalls \in Nat /\ calls' = calls + 1
    BY <1>1, NamespaceAssumption, ZenonT(30) DEF NInv, Types
  <2> QED
    BY <2>1, SMTT(60), Z3T(60) DEF MaxGen
<1>6. Types'
  <2>1. ASSUME NEW i \in Inos PROVE slot[i].nlink <= 3 + calls'
    BY <1>1, <1>4, SMTT(60), Z3T(60) DEF NInv, Types, SlotType
  <2> QED
    BY <1>1, <1>4, <2>1, ZenonT(30) DEF NInv, Types
<1> QED
  BY <1>1, <1>2, <1>3, <1>4, <1>6, GoodMore, IdleGood, ZenonT(30) DEF NInv, Serving, Logs, Running,
     Handled

LEMMA CallKept ==
  ASSUME NInv, crashes = 0, Call, RenamesSucceed
  PROVE  NInv'
<1> DEFINE m == 3 + calls
<1>1. calls < MaxCalls /\ todo = <<>>
  BY ZenonT(30) DEF Call, Idle
<1>2. gens \in Nat /\ gens < MaxGen /\ gens <= MaxGen /\ m \in Nat /\ m >= 3
  BY <1>1, GensLeft, Zenon
<1>3. Good(slot, ents, bits, gens, m)
  BY <1>1, IdleGood, ZenonT(30)
<1>4. Usable \in SUBSET Dirs /\ Dirs \in SUBSET Inos
  BY <1>3, ReachRoot, ZenonT(30) DEF Usable, Dirs
<1>6. \A d \in Dirs : d \in Inos /\ slot[d].kind = "dir"
  BY ZenonT(30) DEF Dirs
<1>7. \A f \in NoRoom("rename fails") : f = FALSE
  BY Zenon DEF NoRoom, RenamesSucceed
<1>8. \A f \in NoRoom("no room") : f = FALSE \/ f = TRUE
  BY Zenon DEF NoRoom
<1>9. ASSUME NEW s, Start(s), UNCHANGED gens, Handled(s, gens, m + 1) PROVE NInv'
  BY <1>1, <1>9, StartKept, ZenonT(30)
<1>10. ASSUME NEW s, Start(s), gens' = gens + 1, Handled(s, gens + 1, m + 1) PROVE NInv'
  BY <1>1, <1>10, StartKept, ZenonT(30)
<1> HIDE DEF m
<1>11. ASSUME NEW d \in Usable, NEW n \in Names, NEW i \in Inos, NEW kind \in {"file", "dir"}, NEW f \in NoRoom("no room"),
              Create(d, n, i, kind, f)
       PROVE  NInv'
  <2>7. PICK s : s = create(d, n, i, kind, f)
    BY ZenonT(30)
  <2> QED
    BY <1>2, <1>3, <1>4, <1>6, <1>8, <1>10, <1>11, <2>7, CreateHandled, CreateFails, AllocatesFree,
       ZenonT(30) DEF Create
<1>12. ASSUME NEW d \in Usable, NEW n \in Names, Unlink(d, n) PROVE NInv'
  <2>5. PICK s : s = unlink(d, n)
    BY ZenonT(30)
  <2> QED
    BY <1>2, <1>3, <1>4, <1>6, <1>9, <1>12, <2>5, HandledMore, UnlinkHandled, ZenonT(30) DEF Unlink
<1>13. ASSUME NEW d \in Usable, NEW n \in Names, NEW i \in Inos, NEW f \in NoRoom("no room"), Link(d, n, i, f)
       PROVE  NInv'
  <2>6. PICK s : s = link(d, n, i, f)
    BY ZenonT(30)
  <2> QED
    BY <1>2, <1>3, <1>4, <1>6, <1>8, <1>9, <1>13, <2>6, LinkHandled, LinkFails, ZenonT(30) DEF Link
<1>14. ASSUME NEW d \in Usable, NEW e \in Usable, NEW n \in Names, NEW k \in Names, Renames(d, n, e, k)
       PROVE  d \in Inos /\ e \in Inos /\ MayRename(d, n, e, k)
  BY <1>3, <1>4, <1>6, <1>14, RenamesMay, ZenonT(30) DEF Renames
<1>15. ASSUME NEW d \in Usable, NEW e \in Usable, NEW n \in Names, NEW k \in Names, NEW f \in NoRoom("rename fails"),
              Rename(d, n, e, k, f)
       PROVE  NInv'
  <2>6. PICK s : s = renamePlain(d, n, e, k, f)
    BY ZenonT(30)
  <2> QED
    BY <1>2, <1>3, <1>7, <1>9, <1>14, <1>15, <2>6, RenameHandled, NoneIs, ZenonT(30) DEF Replaces,
       Rename
<1>16. ASSUME NEW d \in Usable, NEW e \in Usable, NEW n \in Names, NEW k \in Names, NEW f \in NoRoom("rename fails"),
              Exchange(d, n, e, k, f)
       PROVE  NInv'
  <2>7. PICK s : s = renameExchange(d, n, e, k, f)
    BY ZenonT(30)
  <2> QED
    BY <1>2, <1>3, <1>7, <1>9, <1>14, <1>16, <2>7, ExchangeHandled, ZenonT(30) DEF Renames,
       Exchange
<1>17. ASSUME NEW d \in Usable, NEW e \in Usable, NEW n \in Names, NEW k \in Names, NEW w \in Inos,
              NEW f \in NoRoom("rename fails"), Whiteout(d, n, e, k, w, f)
       PROVE  NInv'
  <2>8. PICK s : s = renameWhiteout(d, n, e, k, w, f)
    BY ZenonT(30)
  <2> QED
    BY <1>2, <1>3, <1>7, <1>10, <1>14, <1>17, <2>8, WhiteoutHandled, NoneIs, AllocatesFree,
       RetiredIn, ZenonT(30) DEF Replaces, Whiteout
<1>18. ASSUME NEW i \in Named, NEW v \in Vals, Setattr(i, v) PROVE NInv'
  <2>5. PICK s : s = setattr(i, v)
    BY ZenonT(30)
  <2> QED
    BY <1>2, <1>3, <1>9, <1>18, <2>5, HandledMore, SetattrHandled, NamedIsBits, ZenonT(30) DEF
       Setattr
<1> QED
  BY <1>11, <1>12, <1>13, <1>15, <1>16, <1>17, <1>18, Zenon DEF Call

-----------------------------------------------------------------------------
(* The steps                                                               *)

Midway(st, e) == st \in Seq(StepType) /\ st # <<>> /\ e \in EndType /\ Running(st, e)
                 /\ Head(todo) = Head(st) /\ Tail(todo) = Tail(st) \o <<e>>

LEMMA IsMidway ==
  ASSUME NInv, crashes = 0, todo # <<>>, Head(todo).do # "end"
  PROVE  \E st, e : Midway(st, e)
<1>1. PICK st \in Seq(StepType), e \in EndType : todo = st \o <<e>> /\ Running(st, e)
  BY ZenonT(30) DEF NInv, Serving
<1>2. st # <<>>
  BY <1>1, Ended, ZenonT(30) DEF EndType
<1>3. Head(todo) = Head(st) /\ Tail(todo) = Tail(st) \o <<e>>
  BY <1>1, <1>2, Ended, ZenonT(30)
<1> QED
  BY <1>1, <1>2, <1>3, ZenonT(30) DEF Midway

(* A step changes the bitmap as its kind says, arms a slot, or logs.       *)
LEMMA StepKept ==
  ASSUME NInv, crashes = 0, todo # <<>>, Head(todo).do # "end", todo' = Tail(todo),
         bits' = After(Head(todo), bits), Logs',
         slot' = IF Head(todo).do = "arm" THEN [slot EXCEPT ![Head(todo).ino] = Head(todo).in] ELSE slot,
         UNCHANGED <<ents, gens, calls, mounted, torn, crashes>>
  PROVE  NInv'
<1> DEFINE x == Head(todo)
           B2 == bits'
<1>1. PICK st, e : Midway(st, e)
  BY IsMidway, ZenonT(30)
<1>2. /\ st \in Seq(StepType) /\ st # <<>> /\ e \in EndType /\ x = Head(st)
      /\ todo' = Tail(st) \o <<e>> /\ Running(st, e)
  BY <1>1, ZenonT(30) DEF Midway
<1>3. bits \in SUBSET Inos /\ slot \in [Inos -> SlotType] /\ calls \in Nat
      /\ \A i \in Inos : slot[i].nlink <= 3 + calls
  BY ZenonT(30) DEF NInv, Types
<1>4. B2 = After(Head(st), bits)
  BY <1>2, ZenonT(30)
<1> HIDE DEF x, B2
<1>5. /\ Fin(st, bits) = Fin(Tail(st), B2) /\ Tail(st) \in Seq(StepType) /\ x \in StepType /\ B2 \in SUBSET Inos
      /\ NoArm(st) => NoArm(Tail(st)) /\ x.do # "arm"
  BY <1>2, <1>3, <1>4, FinTail, ZenonT(30)
<1>7. slot' \in [Inos -> SlotType] /\ \A i \in Inos : slot'[i].nlink <= 3 + calls
  <2>1. CASE x.do = "arm"
    <3>1. x.ino \in Inos /\ x.in \in SlotType /\ x.in.nlink <= 3
      BY <1>5, <2>1, StepIs, ZenonT(30)
    <3>3. x.in.nlink <= 3 + calls
      <4>1. x.in.nlink \in Nat
        BY <3>1, ZenonT(30) DEF SlotType
      <4> QED
        BY <1>3, <3>1, <4>1, SMTT(60), Z3T(60)
    <3> QED
      BY <1>3, <2>1, <3>1, <3>3, ZenonT(30) DEF x
  <2>2. CASE x.do # "arm"
    BY <1>3, <2>2, ZenonT(30) DEF x
  <2> QED
    BY <2>1, <2>2, ZenonT(30)
<1> QED
  BY <1>2, <1>4, <1>5, <1>7, StepIs, ZenonT(30) DEF NInv, Types, B2, After, Serving, Running, x

LEMMA RecordKept ==
  ASSUME NInv, crashes = 0, Record
  PROVE  NInv'
<1>1. /\ todo # <<>> /\ Head(todo).do = "rec" /\ todo' = Tail(todo) /\ log' = Append(log, Head(todo).rec)
      /\ UNCHANGED <<slot, ents, bits, past, com, safe, gens, calls, mounted, torn, crashes>>
  BY ZenonT(30) DEF Record, Advance
<1>3. Logs'
  <2>1. PICK st, e : Midway(st, e)
    BY <1>1, IsMidway, ZenonT(30)
  <2> QED
    BY <1>1, <2>1, StepIs, SMTT(60), Z3T(60) DEF Logs, Midway, NInv
<1> QED
  BY <1>1, <1>3, StepKept, ZenonT(30) DEF After

LEMMA TakeKept ==
  ASSUME NInv, crashes = 0, TakeNumber
  PROVE  NInv'
BY StepKept, ZenonT(30) DEF NInv, Logs, After, TakeNumber, Advance

LEMMA GiveKept ==
  ASSUME NInv, crashes = 0, GiveNumber
  PROVE  NInv'
BY StepKept, ZenonT(30) DEF NInv, Logs, After, GiveNumber, Advance

LEMMA ArmKept ==
  ASSUME NInv, crashes = 0, Arm
  PROVE  NInv'
<1>1. /\ todo # <<>> /\ Head(todo).do = "arm" /\ todo' = Tail(todo)
      /\ slot' = [slot EXCEPT ![Head(todo).ino] = Head(todo).in]
      /\ UNCHANGED <<bits, ents, log, past, com, safe, gens, calls, mounted, torn, crashes>>
  BY ZenonT(30) DEF Arm, Advance
<1>2. bits' = After(Head(todo), bits)
  BY <1>1, ZenonT(30) DEF After
<1>3. Logs'
  BY <1>1, ZenonT(30) DEF NInv, Logs
<1>4. slot' = IF Head(todo).do = "arm" THEN [slot EXCEPT ![Head(todo).ino] = Head(todo).in] ELSE slot
  BY <1>1, ZenonT(30)
<1> QED
  BY <1>1, <1>2, <1>3, <1>4, StepKept, ZenonT(30)

(* The end of a call is its last step: the bitmap has caught up.           *)
LEMMA FinishKept ==
  ASSUME NInv, crashes = 0, Finish
  PROVE  NInv'
<1>1. /\ todo # <<>> /\ Head(todo).do = "end" /\ todo' = Tail(todo)
      /\ UNCHANGED <<bits, log, com, safe, gens, calls, mounted, torn, crashes>>
  BY ZenonT(30) DEF Finish, Advance
<1>2. PICK st \in Seq(StepType), e \in EndType : todo = st \o <<e>> /\ Running(st, e)
  BY <1>1, ZenonT(30) DEF NInv, Serving
<1>3. st = <<>>
  <2>1. ASSUME st # <<>> PROVE FALSE
    <3>2. Head(todo) = Head(st)
      BY <1>2, <2>1, Ended, ZenonT(30)
    <3> QED
      BY <1>1, <2>1, <3>2, StepIs, SMTT(60), Z3T(60)
  <2> QED
    BY <2>1, ZenonT(30)
<1>4. Head(todo) = e /\ todo' = <<>>
  BY <1>1, <1>2, <1>3, Ended, ZenonT(30)
<1>5. /\ e.err = "ok" => slot' = e.slot /\ ents' = e.ents /\ past' = Append(past, Tree(e.slot, e.ents))
      /\ e.err # "ok" => UNCHANGED <<slot, ents, past>>
  BY <1>4, ZenonT(30) DEF Finish
<1>7. Good(slot', ents', bits, gens, 3 + calls)
  BY <1>2, <1>3, <1>5, FinEmpty, ZenonT(30) DEF Running, NInv, Types
<1>9. Logs'
  <2>1. PICK S : past \in Seq(S)
    BY ZenonT(30) DEF NInv, Logs
  <2>3. CASE e.err = "ok"
    <3>1. PICK y : y = Tree(e.slot, e.ents)
      BY ZenonT(30)
    <3>4. past' \in Seq(S \cup {y}) /\ Len(past') = Len(past) + 1 /\ Len(past) \in Nat
      BY <1>5, <2>1, <2>3, <3>1, SMTT(60), Z3T(60)
    <3> QED
      BY <1>1, <3>4, SMTT(60), Z3T(60) DEF Logs, NInv
  <2>4. CASE e.err # "ok"
    BY <1>1, <1>5, <2>4, ZenonT(30) DEF NInv, Logs
  <2> QED
    BY <2>3, <2>4, ZenonT(30)
<1> QED
  BY <1>1, <1>4, <1>7, <1>9, ZenonT(30) DEF NInv, Serving, Types, Good, Stored

LEMMA SyncKept ==
  ASSUME NInv, crashes = 0, Commit \/ Drain
  PROVE  NInv'
<1>1. UNCHANGED <<slot, ents, bits, log, todo, past, gens, calls, mounted, torn, crashes>>
  BY ZenonT(30) DEF Commit, Drain
<1>4. Logs'
  <2>1. PICK S : past \in Seq(S)
    BY ZenonT(30) DEF NInv, Logs
  <2>2. log \in Seq(RecType) /\ com \in 0..Len(log) /\ safe \in 1..Len(past)
    BY ZenonT(30) DEF NInv, Logs
  <2>3. Len(log) \in 0..Len(log) /\ Len(past) \in 1..Len(past)
    BY <2>1, <2>2, SMTT(60), Z3T(60)
  <2> QED
    BY <1>1, <2>1, <2>2, <2>3, ZenonT(30) DEF Logs, Commit, Drain
<1> QED
  BY <1>1, <1>4, ZenonT(30) DEF NInv, Types, Serving, Running

LEMMA CrashCounted ==
  ASSUME NEW k \in Nat, NEW l, l = k + 1 \/ (l = k /\ k # 0)
  PROVE  l \in Nat /\ l # 0
  BY SMTT(60), Z3T(60)

LEMMA CallCalm ==
  ASSUME Call
  PROVE  crashes' = crashes
<1>1. \A d, n, i, kind, f : Create(d, n, i, kind, f) => crashes' = crashes
  BY SMTT(60), Z3T(60) DEF Create, Start
<1>3. \A d, n, i, f : Link(d, n, i, f) => crashes' = crashes
  BY SMTT(60), Z3T(60) DEF Link, Start
<1>4. \A d, n, e, m, f : Rename(d, n, e, m, f) => crashes' = crashes
  BY SMTT(60), Z3T(60) DEF Rename, Start
<1>5. \A d, n, e, m, f : Exchange(d, n, e, m, f) => crashes' = crashes
  BY SMTT(60), Z3T(60) DEF Exchange, Start
<1>6. \A d, n, e, m, w, f : Whiteout(d, n, e, m, w, f) => crashes' = crashes
  BY SMTT(60), Z3T(60) DEF Whiteout, Start
<1> QED
  BY <1>1, <1>3, <1>4, <1>5, <1>6, ZenonT(30) DEF Call, Unlink, Start, Setattr

LEMMA NextKept ==
  ASSUME NInv, [Next]_vars, RenamesSucceed
  PROVE  NInv'
<1>1. CASE crashes # 0 \/ Crash
  BY <1>1, CrashCounted, CallCalm, ZenonT(30) DEF NInv, Next, Crash, Record, TakeNumber,
     GiveNumber, Arm, Finish, Commit, Drain, Advance, vars
<1>2. CASE UNCHANGED vars
  BY <1>2, ZenonT(30) DEF vars, NInv, Types, Logs, Serving, Running
<1>3. CASE crashes = 0 /\ Call
  BY <1>3, CallKept, ZenonT(30)
<1>4. CASE crashes = 0 /\ (Record \/ TakeNumber \/ GiveNumber \/ Arm \/ Finish)
  BY <1>4, RecordKept, TakeKept, GiveKept, ArmKept, FinishKept, ZenonT(30)
<1>5. CASE crashes = 0 /\ (Commit \/ Drain)
  BY <1>5, SyncKept, ZenonT(30)
<1> QED
  BY <1>1, <1>2, <1>3, <1>4, <1>5, ZenonT(30) DEF Next

-----------------------------------------------------------------------------
(* The first trees                                                         *)

LEMMA BareTree ==
  ASSUME NEW sl, NEW en, sl = InitSlots("bare"), en = InitEnts("bare")
  PROVE  Good(sl, en, {i \in Inos : sl[i].kind # "none"}, 3, 3)
<1> DEFINE K == KindOf(sl)
           P == ParOf(sl)
           L == LinkOf(sl)
           E == EntOf(sl, en)
           r == [ZeroSlot EXCEPT !.kind = "dir", !.nlink = 2, !.gen = 1, !.par = 1, !.root = TRUE]
<1>1. sl = [i \in Inos |-> IF i = ROOT THEN r ELSE ZeroSlot]
  BY Zenon DEF InitSlots
<1>2. /\ r \in SlotType /\ r.kind = "dir" /\ r.nlink = 2 /\ r.gen = 1 /\ r.root = TRUE
      /\ ZeroSlot \in SlotType /\ ZeroSlot.kind = "none" /\ ZeroSlot.nlink = 0
  BY ZenonT(30) DEF ZeroSlot, SlotType, Kinds
<1> HIDE DEF r
<1>3. /\ sl \in [Inos -> SlotType] /\ sl[ROOT] = r /\ \A i \in Inos : i # ROOT => sl[i] = ZeroSlot
  BY <1>1, <1>2, RootIn, ZenonT(30)
<1>4. en \in [Gens -> Page] /\ en[1] = Bare
  BY PagesTyped, NamespaceAssumption, SMTT(60), Z3T(60) DEF Gens, MaxGen, InitEnts
<1>5. Stored(sl, en, 3)
  <2>5. \A i \in Inos : sl[i].kind = "dir" => sl[i].kind # "none"
    BY ZenonT(30)
  <2> QED
    BY <1>2, <1>3, <1>4, <2>5, NamespaceAssumption, PagesTyped, SMTT(60), Z3T(60) DEF Stored, MaxGen
<1>7. \A i \in Inos : K[i] = sl[i].kind /\ L[i] = sl[i].nlink /\ E[i] = Entries(sl, en, i)
  BY ZenonT(30) DEF KindOf, LinkOf, EntOf
<1>8. \A i \in Inos : E[i] = Bare
  <2>1. ASSUME NEW i \in Inos PROVE Entries(sl, en, i) = Bare
    BY <1>2, <1>3, <1>4, ZenonT(30) DEF Entries, Rooted
  <2> QED
    BY <1>7, <2>1, ZenonT(30)
<1> HIDE DEF K, P, L, E
<1>14. TreeOK(K, P, L, E)
  BY <1>2, <1>3, <1>7, <1>8, FS_EmptySet, RootIn, PagesTyped, SMTT(60), Z3T(60) DEF TreeOK,
     Resolved,
     Parented, Counted, DirSet, Connected
<1> QED
  BY <1>2, <1>3, <1>5, <1>14, SMTT(60), Z3T(60) DEF Good, Sound, K, P, L, E

LEMMA FullTree ==
  ASSUME NEW sl, NEW en, sl = InitSlots("full"), en = InitEnts("full"), {2, 3} \subseteq Inos
  PROVE  Good(sl, en, {i \in Inos : sl[i].kind # "none"}, 3, 3)
<1> DEFINE K == KindOf(sl)
           P == ParOf(sl)
           L == LinkOf(sl)
           E == EntOf(sl, en)
           r == [ZeroSlot EXCEPT !.kind = "dir", !.nlink = 3, !.gen = 1, !.par = 1, !.root = TRUE]
           d == [ZeroSlot EXCEPT !.kind = "dir", !.nlink = 2, !.gen = 2, !.par = 1, !.root = TRUE]
           f == [ZeroSlot EXCEPT !.kind = "file", !.nlink = 1, !.gen = 3]
           nm == CHOOSE n \in Names : TRUE
           x == [ino |-> 2, dir |-> TRUE]
           y == [ino |-> 3, dir |-> FALSE]
           p == [Bare EXCEPT ![nm] = x]
           q == [Bare EXCEPT ![nm] = y]
<1>1. /\ \A i \in Inos : sl[i] = IF i = 1 THEN r ELSE IF i = 2 THEN d ELSE IF i = 3 THEN f ELSE ZeroSlot
      /\ sl = [i \in Inos |-> sl[i]]
  BY SMT DEF InitSlots, ROOT
<1>2. /\ r \in SlotType /\ r.kind = "dir" /\ r.nlink = 3 /\ r.gen = 1 /\ r.root = TRUE
      /\ d \in SlotType /\ d.kind = "dir" /\ d.nlink = 2 /\ d.gen = 2 /\ d.root = TRUE /\ d.par = 1
      /\ f \in SlotType /\ f.kind = "file" /\ f.nlink = 1 /\ f.gen = 3
      /\ ZeroSlot \in SlotType /\ ZeroSlot.kind = "none" /\ ZeroSlot.nlink = 0
  BY ZenonT(30) DEF ZeroSlot, SlotType, Kinds
<1>3. ROOT = 1 /\ 1 \in Inos /\ 2 \in Inos /\ 3 \in Inos
  BY RootIn, ZenonT(30) DEF ROOT
<1>4. nm \in Names
  BY NamespaceAssumption, ZenonT(30)
<1>5. /\ x \in Entry /\ x.ino = 2 /\ x.dir /\ x # None
      /\ y \in Entry /\ y.ino = 3 /\ ~y.dir /\ y # None
  BY <1>3, SMTT(60), Z3T(60) DEF Entry, None
<1> HIDE DEF r, d, f, x, y
<1>6. /\ p \in Page /\ p[nm] = x /\ \A n \in Names : n # nm => p[n] = None
      /\ q \in Page /\ q[nm] = y /\ \A n \in Names : n # nm => q[n] = None
  BY <1>4, <1>5, PagesTyped, ZenonT(30) DEF Page
<1>7. /\ \A g \in Gens : en[g] = IF g = 1 THEN p ELSE IF g = 2 THEN q ELSE NoPage
      /\ en = [g \in Gens |-> en[g]]
  BY SMT DEF InitEnts, x, y
<1> HIDE DEF nm, p, q
<1>8. /\ sl \in [Inos -> SlotType] /\ sl[1] = r /\ sl[2] = d /\ sl[3] = f
      /\ \A i \in Inos : i \notin {1, 2, 3} => sl[i] = ZeroSlot
  BY <1>1, <1>2, <1>3, SMTT(60), Z3T(60)
<1>9. en \in [Gens -> Page] /\ en[1] = p /\ en[2] = q
  <2>1. 1 \in Gens /\ 2 \in Gens
    BY NamespaceAssumption, SMTT(60), Z3T(60) DEF Gens, MaxGen
  <2> QED
    BY <1>6, <1>7, <2>1, PagesTyped, SMTT(60), Z3T(60)
<1>10. p # NoPage /\ q # NoPage
  BY <1>4, <1>5, <1>6, PagesTyped, SMTT(60), Z3T(60)
<1>14. \A i \in Inos : K[i] = sl[i].kind /\ L[i] = sl[i].nlink /\ P[i] = sl[i].par /\ E[i] = Entries(sl, en, i)
  BY ZenonT(30) DEF KindOf, LinkOf, ParOf, EntOf
<1> HIDE DEF K, P, L, E
<1>16. /\ E[1][nm] = x /\ E[2][nm] = y
       /\ \A i \in Inos, n \in Names : n # nm \/ (i # 1 /\ i # 2) => E[i][n] = None
  BY <1>2, <1>3, <1>6, <1>8, <1>9, <1>10, <1>14, PagesTyped, SMTT(60), Z3T(60) DEF Entries, Rooted
<1>17. \A i \in Inos, n \in Names : E[i][n].dir <=> i = 1 /\ n = nm
  BY <1>3, <1>5, <1>16, NoneIs, ZenonT(30)
<1>18. /\ K[1] = "dir" /\ L[1] = 3 /\ K[2] = "dir" /\ L[2] = 2 /\ P[2] = 1 /\ K[3] = "file" /\ L[3] = 1
       /\ \A i \in Inos : i \notin {1, 2, 3} => K[i] = "none"
  BY <1>2, <1>3, <1>8, <1>14, SMTT(60), Z3T(60)
<1>21. Counted(K, L, E)
  <2>1. DirSet(E, 1) = {nm} /\ DirSet(E, 2) = {}
    BY <1>3, <1>4, <1>17, SMTT(60), Z3T(60) DEF DirSet
  <2>2. LinkSet(E, 3) = {<<2, nm>>}
    BY <1>3, <1>4, <1>5, <1>16, NoneIs, SMTT(60), Z3T(60) DEF LinkSet
  <2>3. Cardinality(DirSet(E, 1)) = 1 /\ Cardinality(DirSet(E, 2)) = 0 /\ Cardinality(LinkSet(E, 3)) = 1
    BY <2>1, <2>2, FS_EmptySet, FS_Singleton, ZenonT(30)
  <2> QED
    BY <1>18, <2>3, SMTT(60), Z3T(60) DEF Counted
<1>22. Connected(K, E)
  <2>1. ASSUME NEW S \in SUBSET Inos, ROOT \in S, ClosedDown(E, S) PROVE 1 \in S /\ 2 \in S
    BY <1>3, <1>4, <1>5, <1>16, <2>1, ZenonT(30) DEF ClosedDown
  <2> QED
    BY <1>18, <2>1, ZenonT(30) DEF Connected
<1> QED
  BY <1>2, <1>3, <1>5, <1>8, <1>9, <1>10, <1>16, <1>17, <1>18, <1>21, <1>22, NamespaceAssumption,
     NoneIs, SMTT(60), Z3T(60) DEF Good, Sound, K, P, L, E, Stored, MaxGen, TreeOK, Resolved, Parented

LEMMA InitKept ==
  ASSUME Init
  PROVE  NInv
<1>1. PICK tree \in Trees : /\ slot = InitSlots(tree) /\ ents = InitEnts(tree)
                            /\ bits = {i \in Inos : slot[i].kind # "none"}
  BY ZenonT(30) DEF Init
<1>2. /\ log = <<>> /\ com = 0 /\ todo = <<>> /\ past = <<Tree(slot, ents)>> /\ safe = 1
      /\ gens = 3 /\ calls = 0 /\ crashes = 0
  BY ZenonT(30) DEF Init
<1>4. (tree = "bare" \/ tree = "full") /\ (tree = "full" => {2, 3} \subseteq Inos)
  BY NamespaceAssumption, ZenonT(30)
<1>5. Good(slot, ents, bits, 3, 3)
  <2>1. CASE tree = "bare"
    BY <1>1, <2>1, BareTree, ZenonT(30)
  <2>2. CASE tree = "full"
    BY <1>1, <1>4, <2>2, FullTree, ZenonT(30)
  <2> QED
    BY <1>4, <2>1, <2>2, ZenonT(30)
<1>6. Good(slot, ents, bits, gens, 3 + calls)
  BY <1>2, <1>5, SMTT(60), Z3T(60)
<1>7. Types
  <2>3. gens \in Nat /\ gens <= 3 + calls /\ calls \in Nat /\ calls <= MaxCalls /\ 3 + calls = 3
    BY <1>2, NamespaceAssumption, SMTT(60), Z3T(60)
  <2> QED
    BY <1>1, <1>5, <1>6, <2>3, RootIn, GoodAt, NamespaceAssumption, ZenonT(30) DEF Types, Good,
       Stored
<1>8. Logs
  <2>1. PICK y : y = Tree(slot, ents)
    BY ZenonT(30)
  <2>3. past \in Seq({y}) /\ Len(past) = 1
    BY <1>2, <2>1, SMTT(60), Z3T(60)
  <2>4. log \in Seq(RecType) /\ Len(log) = 0
    BY <1>2, SMTT(60), Z3T(60)
  <2>5. com \in 0..Len(log) /\ safe \in 1..Len(past)
    BY <1>2, <2>3, <2>4, SMTT(60), Z3T(60)
  <2> QED
    BY <2>3, <2>4, <2>5, ZenonT(30) DEF Logs
<1>10. crashes \in Nat
  BY <1>2, ZenonT(30)
<1> QED
  BY <1>2, <1>6, <1>7, <1>8, <1>10, ZenonT(30) DEF NInv, Init, Serving

(* As long as no crash has come, a mounted file system with no call in     *)
(* progress is a tree.  (fuse/dir_ops.go, fuse/link_ops.go)                *)
THEOREM InvariantHolds ==
  ASSUME RenamesSucceed
  PROVE  Spec => []NInv
<1>1. Init => NInv
  BY InitKept, ZenonT(30)
<1>2. NInv /\ [Next]_vars => NInv'
  BY NextKept, ZenonT(30)
<1> QED
  BY <1>1, <1>2, PTL DEF Spec

-----------------------------------------------------------------------------
(* What the invariant says                                                 *)

(* Inode slots, link counts and the bitmap stay in their ranges, the root's *)
(* number stays in use, and no more records are committed than logged.     *)
THEOREM TypesHold ==
  ASSUME RenamesSucceed
  PROVE  Spec => [](crashes = 0 => TypeOK)
<1>1. NInv => (crashes = 0 => TypeOK)
  <2> SUFFICES ASSUME NInv, crashes = 0 PROVE TypeOK
    BY ZenonT(30)
  <2>1. Types /\ Logs
    BY ZenonT(30) DEF NInv
  <2>2. ASSUME NEW i \in Inos PROVE slot[i].kind \in {"none", "dir", "file"} /\ slot[i].nlink \in 0..(3 + MaxCalls)
    BY <2>1, NamespaceAssumption, SMTT(60), Z3T(60) DEF SlotType, Kinds, Types
  <2> QED
    BY <2>1, <2>2, ZenonT(30) DEF TypeOK, Types, Logs
<1> QED
  BY <1>1, InvariantHolds, PTL

(* Between calls every entry leads to a number in use whose slot holds an  *)
(* inode of the entry's type, with its trie root in place, and the parent  *)
(* pointer of a directory leads back to the directory that names it.       *)
THEOREM EntriesResolveUntilCrash ==
  ASSUME RenamesSucceed
  PROVE  Spec => [](crashes = 0 => EntriesResolve)
<1>1. NInv => (crashes = 0 => EntriesResolve)
  <2> SUFFICES ASSUME NInv, crashes = 0, Idle, NEW d \in DirsInUse, NEW n \in Names, At(d, n) # None
               PROVE  LET e == At(d, n) IN
                        /\ e.ino \in bits /\ slot[e.ino].kind = (IF e.dir THEN "dir" ELSE "file")
                        /\ e.dir /\ slot[e.ino].root => Rooted(slot, ents, e.ino)
                        /\ e.dir /\ ~torn => slot[e.ino].par = d
    BY Zenon DEF EntriesResolve
  <2>1. Good(slot, ents, bits, gens, 3 + calls)
    BY IdleGood, ZenonT(30) DEF Idle
  <2> DEFINE E == EntOf(slot, ents)
             e == At(d, n)
  <2>0. E = EntOf(slot, ents)
    BY ZenonT(30)
  <2> HIDE DEF E
  <2>2. d \in Inos
    BY <2>1, ReachRoot, ZenonT(30) DEF Dirs
  <2>3. e = E[d][n]
    BY <2>0, <2>1, <2>2, GoodTree, ZenonT(30) DEF At
  <2>4. e.ino \in Inos /\ slot[e.ino].kind = IF e.dir THEN "dir" ELSE "file"
    BY <2>0, <2>1, <2>2, <2>3, GoodTree, SMTT(60), Z3T(60)
  <2> HIDE DEF e
  <2>8. e.dir /\ slot[e.ino].root => Rooted(slot, ents, e.ino)
    BY <2>1, <2>4, ZenonT(30) DEF Good, Stored, Rooted
  <2>9. e.ino \in bits
    BY <2>1, <2>4, ZenonT(30) DEF Good
  <2>10. e.dir => slot[e.ino].par = d
    BY <2>0, <2>1, <2>2, <2>3, GoodTree, SMTT(60), Z3T(60)
  <2> QED
    BY <2>4, <2>8, <2>9, <2>10, ZenonT(30) DEF e
<1> QED
  BY <1>1, InvariantHolds, PTL

(* Between calls link counts are exact: a file's are the entries that lead *)
(* to it, a directory's are two and one for each subdirectory.             *)
THEOREM NlinksExactUntilCrash ==
  ASSUME RenamesSucceed
  PROVE  Spec => [](crashes = 0 => NlinksExact)
<1>1. NInv => (crashes = 0 => NlinksExact)
  <2> SUFFICES ASSUME NInv, crashes = 0, Idle, NEW i \in Named
               PROVE  slot[i].nlink = IF slot[i].kind = "dir" THEN 2 + SubDirs(slot, ents, i) ELSE Links(slot, ents, i)
    BY Zenon DEF NlinksExact
  <2>1. Good(slot, ents, bits, gens, 3 + calls)
    BY IdleGood, ZenonT(30) DEF Idle
  <2> DEFINE E == EntOf(slot, ents)
  <2>0. E = EntOf(slot, ents)
    BY ZenonT(30)
  <2> HIDE DEF E
  <2>2. i \in Inos /\ i \in bits
    BY <2>1, NamedIsBits, ZenonT(30)
  <2>4. \A d \in Inos : E[d] = Entries(slot, ents, d)
    BY <2>0, <2>1, GoodTree, ZenonT(30)
  <2>7. slot[i].kind = "file" => slot[i].nlink = Cardinality(LinkSet(E, i))
    BY <2>0, <2>1, <2>2, GoodTree, ZenonT(30)
  <2>8. slot[i].kind = "dir" => slot[i].nlink = 2 + Cardinality(DirSet(E, i))
    BY <2>0, <2>1, <2>2, GoodTree, ZenonT(30)
  <2> QED
    BY <2>1, <2>2, <2>4, <2>7, <2>8, ZenonT(30) DEF SlotType, Kinds, Good, Stored, Links, LinkSet,
       SubDirs, DirSet
<1> QED
  BY <1>1, InvariantHolds, PTL

(* Between calls the numbers the bitmap has in use are those of the inodes *)
(* with a name: none leaks, none is free while something leads to it.      *)
THEOREM NumbersConservedUntilCrash ==
  ASSUME RenamesSucceed
  PROVE  Spec => [](crashes = 0 => NumbersConserved)
<1>1. NInv => (crashes = 0 => NumbersConserved)
  <2> SUFFICES ASSUME NInv, crashes = 0, Idle PROVE bits = Named
    BY Zenon DEF NumbersConserved
  <2> QED
    BY NamedIsBits, IdleGood, ZenonT(30) DEF Idle
<1> QED
  BY <1>1, InvariantHolds, PTL
=============================================================================
