------------------------- MODULE NamespaceHandlers -------------------------
(***************************************************************************)
(* Each handler of the directory operations, on slots and pages that stand *)
(* for a tree, either fails and leaves the bitmap as it was, or leaves     *)
(* slots, pages and pending steps that stand for a tree again.             *)
(***************************************************************************)
EXTENDS NamespaceTrees

-----------------------------------------------------------------------------
(* The handlers                                                            *)

(* Slots and pages that stand for a tree, with the bitmap that belongs.    *)
Good(sl, en, B, g, m) ==
  /\ Stored(sl, en, g) /\ Sound(sl, en)
  /\ B = {i \in Inos : sl[i].kind # "none"} /\ \A i \in Inos : sl[i].nlink <= m

(* A handler's result: the next tree; or an error, and no bit has moved.   *)
Handled(t, g, m) ==
  /\ t \in HType
  /\ t.err = "ok" => Good(t.slot, t.ents, Fin(t.steps, bits), g, m)
  /\ t.err # "ok" => Fin(t.steps, bits) = bits /\ NoArm(t.steps)

LEMMA WholeHandled ==
  ASSUME NEW s, NEW K, NEW P, NEW L, NEW E, NEW B, NEW g, NEW m, Whole(s, K, P, L, E, B, g, m)
  PROVE  Handled(s, g, m)
BY ViewIs, SMTT(60), Z3T(60) DEF Handled, Good, Sound, Whole

LEMMA GoodBegin ==
  ASSUME NEW c \in CallNames, NEW m, Good(slot, ents, bits, gens, m)
  PROVE  /\ Whole(Begin(c), KindOf(slot), ParOf(slot), LinkOf(slot), EntOf(slot, ents), bits, gens, m)
         /\ bits \in SUBSET Inos
BY ViewBegin, ZenonT(30) DEF Good, Whole, Sound, KindOf, LinkOf

LEMMA GoodAt ==
  ASSUME NEW m, Good(slot, ents, bits, gens, m), NEW d \in Inos, NEW n \in Names
  PROVE  /\ At(d, n) = EntOf(slot, ents)[d][n] /\ KindOf(slot)[d] = slot[d].kind /\ LinkOf(slot)[d] = slot[d].nlink
         /\ EntOf(slot, ents)[d] = Entries(slot, ents, d)
         /\ At(d, n) # None => ents[slot[d].gen][n] = At(d, n) /\ slot[d].root
         /\ (d \in bits <=> slot[d].kind # "none") /\ slot[ROOT].kind = "dir" /\ bits \in SUBSET Inos
BY PagesTyped, RootIn, ZenonT(30) DEF Good, At, EntOf, KindOf, LinkOf, Entries, Rooted, Sound,
   TreeOK

(* The new inode of a create, before it has a name.                        *)
Fresh(d, i, kind) ==
  LET a == AllocInode(Begin("create"), i, kind, d, 0)
  IN  IF kind = "dir" THEN [a EXCEPT !.slot[i].root = TRUE, !.ents[gens + 1] = Bare] ELSE a

LEMMA FreshMade ==
  ASSUME NEW m, Good(slot, ents, bits, gens, m), gens < MaxGen, NEW d \in Inos, NEW i \in Inos,
         NEW kind \in {"file", "dir"}, i \notin bits
  PROVE  /\ View(Fresh(d, i, kind), [KindOf(slot) EXCEPT ![i] = kind],
                 [ParOf(slot) EXCEPT ![i] = IF kind = "dir" THEN d ELSE 0],
                 [LinkOf(slot) EXCEPT ![i] = IF kind = "dir" THEN 2 ELSE 1], EntOf(slot, ents),
                 bits \cup {i}, gens + 1)
         /\ NoArm(Fresh(d, i, kind).steps)
<1> DEFINE K == KindOf(slot)
           P == ParOf(slot)
           L == LinkOf(slot)
           E == EntOf(slot, ents)
           K1 == [K EXCEPT ![i] = kind]
           P1 == [P EXCEPT ![i] = IF kind = "dir" THEN d ELSE 0]
           L1 == [L EXCEPT ![i] = IF kind = "dir" THEN 2 ELSE 1]
           B1 == bits \cup {i}
           a == AllocInode(Begin("create"), i, kind, d, 0)
           r == [a EXCEPT !.slot[i].root = TRUE, !.ents[gens + 1] = Bare]
<1>1. Whole(Begin("create"), K, P, L, E, bits, gens, m) /\ bits \in SUBSET Inos
  BY GoodBegin, Zenon DEF CallNames
<1>2. View(Begin("create"), K, P, L, E, bits, gens) /\ TreeOK(K, P, L, E) /\ bits = {c \in Inos : K[c] # "none"}
  BY <1>1, ZenonT(30) DEF Whole
<1>3. TreeTyped(K, P, L, E) /\ K \in [Inos -> Kinds] /\ E \in [Inos -> Page]
  BY <1>2, ViewIs, ZenonT(30)
<1>4. K[i] = "none" /\ d \in Nat
  BY <1>2, NamespaceAssumption, ZenonT(30)
<1>6. View(a, K1, P1, L1, E, B1, gens + 1) /\ a.slot[i].gen = gens + 1 /\ NoArm(a.steps)
  <2> HIDE DEF K, P, L, E
  <2>1. kind \in {"dir", "file"} /\ View(Begin("create"), K, P, L, E, bits, gens) /\ K[i] = "none" /\ d \in Nat
    BY <1>2, <1>4, ZenonT(30)
  <2>3. a.slot[i].gen = gens + 1
    BY <1>1, <2>1, AllocGen, SMTT(60), Z3T(60)
  <2> QED
    BY <1>1, <2>1, <2>3, FinEmpty, ViewAlloc, AllocGen, ZenonT(30) DEF Begin
<1>7. E[i] = Bare
  BY <1>2, <1>3, <1>4, OutsideTree, SMTT(60), Z3T(60) DEF Bare, Page
<1>8. K1[i] = kind
  BY <1>3, ZenonT(30)
<1>9. Fresh(d, i, kind) = IF kind = "dir" THEN r ELSE a
  BY Zenon DEF Fresh
<1> HIDE DEF a, K, P, L, E, K1, P1, L1, B1
<1>11. CASE kind = "dir"
  <2>2. View(r, K1, P1, L1, E, B1, gens + 1)
    BY <1>6, <1>7, <1>8, <1>11, ViewRoot, ZenonT(30)
  <2> QED
    BY <1>6, <1>9, <1>11, <2>2, ViewIs, SMTT(60), Z3T(60) DEF K, P, L, E, K1, P1, L1, B1, HType
<1>12. CASE kind # "dir"
  BY <1>6, <1>9, <1>12, Zenon DEF K, P, L, E, K1, P1, L1, B1
<1> QED
  BY <1>11, <1>12, ZenonT(30)

LEMMA CreateHandled ==
  ASSUME NEW m \in Nat, m >= 3, Good(slot, ents, bits, gens, m), gens < MaxGen,
         NEW d \in Inos, NEW n \in Names, NEW i \in Inos, NEW kind \in {"file", "dir"},
         slot[d].kind = "dir", At(d, n) = None, i \notin bits
  PROVE  Handled(create(d, n, i, kind, FALSE), gens + 1, m + 1)
<1> DEFINE K == KindOf(slot)
           P == ParOf(slot)
           L == LinkOf(slot)
           E == EntOf(slot, ents)
           K1 == [K EXCEPT ![i] = kind]
           P1 == [P EXCEPT ![i] = IF kind = "dir" THEN d ELSE 0]
           L1 == [L EXCEPT ![i] = IF kind = "dir" THEN 2 ELSE 1]
           B1 == bits \cup {i}
           r == Fresh(d, i, kind)
           x == [ino |-> i, dir |-> kind = "dir"]
           l == addDirEntry(r, d, n, x, FALSE)
           w == writeThroughFreshInodeSlot(l, i)
           j == journalDirUpdate(journalInodeFull(w, i), d, n, x)
           up == IF kind = "dir" THEN 1 ELSE 0
           F  == SetEntry(E, d, n, x)
           L2 == [L1 EXCEPT ![d] = @ + up - 0]
<1>1. Whole(Begin("create"), K, P, L, E, bits, gens, m) /\ bits \in SUBSET Inos
  BY GoodBegin, Zenon DEF CallNames
<1>2. /\ View(Begin("create"), K, P, L, E, bits, gens) /\ TreeOK(K, P, L, E) /\ bits = {c \in Inos : K[c] # "none"}
      /\ \A c \in Inos : L[c] <= m
  BY <1>1, ZenonT(30) DEF Whole
<1>3. /\ TreeTyped(K, P, L, E) /\ K \in [Inos -> Kinds] /\ P \in [Inos -> Nat] /\ L \in [Inos -> Nat]
      /\ E \in [Inos -> Page]
  BY <1>2, ViewIs, ZenonT(30)
<1>4. K[d] = "dir" /\ E[d][n] = None /\ K[i] = "none" /\ i # d
  BY <1>2, GoodAt, ZenonT(30)
<1>5. create(d, n, i, kind, FALSE) = IF l.err # "ok" THEN [FreeInode([l EXCEPT !.err = "ok"], i) EXCEPT !.err = l.err]
                                     ELSE updateParentDir(j, d, up, 0)
  BY Zenon DEF create, Fresh
<1>8. x.ino = i /\ x \in Entry /\ x # None /\ x.dir = (kind = "dir") /\ x.ino \in Inos
  BY NewEntry, ZenonT(30)
<1>9. /\ K1[d] = "dir" /\ K1[i] = kind /\ L1[i] \in Nat /\ L1[i] <= 3 /\ L1 \in [Inos -> Nat] /\ L1[d] = L[d]
      /\ up \in {0, 1} /\ 0 \in {0, 1} /\ L1[d] + up >= 0
  <2> HIDE DEF K, P, L, E
  <2> QED
    BY <1>3, <1>4, SMTT(60), Z3T(60)
<1>10. View(r, K1, P1, L1, E, B1, gens + 1)
  BY FreshMade, ZenonT(30)
<1> HIDE DEF K, P, L, E, K1, P1, L1, B1, r, x
<1>11. View(l, K1, P1, L1, F, B1, gens + 1)
  BY <1>1, <1>8, <1>9, <1>10, ViewAdd, ZenonT(30)
<1> HIDE DEF l, F
<1>12. View(w, K1, P1, L1, F, B1, gens + 1)
  BY <1>1, <1>9, <1>11, ViewArm, ZenonT(30)
<1> HIDE DEF w
<1>13. View(j, K1, P1, L1, F, B1, gens + 1)
  BY <1>1, <1>8, <1>12, ViewEntryRecord, ViewRecord, ZenonT(30)
<1> HIDE DEF j
<1>15. View(updateParentDir(j, d, up, 0), K1, P1, L2, F, B1, gens + 1)
  <2> HIDE DEF up
  <2> QED
    BY <1>1, <1>9, <1>13, ViewLinks, ZenonT(30)
<1>16. TreeOK(K1, P1, L2, F)
  <2>1. CreateEdit(K, P, L, E, K1, P1, L2, F, d, n, i, x.dir, x)
    <3>1. (kind = "dir" /\ x.dir) \/ (kind = "file" /\ ~x.dir)
      BY <1>8, ZenonT(30)
    <3>3. L2[i] = (IF x.dir THEN 2 ELSE 1) /\ \A c \in Inos : c # i => L2[c] = L[c] + (IF c = d /\ x.dir THEN 1 ELSE 0)
      BY <1>3, <1>4, <3>1, SMTT(60), Z3T(60) DEF L1
    <3> HIDE DEF L2
    <3> QED
      BY <1>3, <1>4, <1>8, <3>1, <3>3, ZenonT(30) DEF CreateEdit, F, K1, P1
  <2>2. x.dir \in BOOLEAN /\ x \in Entry /\ TreeTyped(K, P, L, E) /\ TreeOK(K, P, L, E)
    BY <1>2, <1>3, <1>8, ZenonT(30)
  <2> HIDE DEF L2
  <2> QED
    BY <2>1, <2>2, TreeCreate, SMTT(60), Z3T(60)
<1>17. B1 = {c \in Inos : K1[c] # "none"} /\ \A c \in Inos : L2[c] <= m + 1
  BY <1>2, <1>3, <1>4, SMTT(60), Z3T(60) DEF B1, K1, L1
<1> HIDE DEF L2
<1> QED
  BY <1>5, <1>11, <1>15, <1>16, <1>17, WholeHandled, ViewIs, ZenonT(30) DEF Whole

(* No room for the entry: the number goes back.                            *)
LEMMA CreateFails ==
  ASSUME NEW m \in Nat, Good(slot, ents, bits, gens, m), gens < MaxGen,
         NEW d \in Inos, NEW n \in Names, NEW i \in Inos, NEW kind \in {"file", "dir"},
         slot[d].kind = "dir", i \notin bits
  PROVE  Handled(create(d, n, i, kind, TRUE), gens + 1, m + 1)
<1> DEFINE K1 == [KindOf(slot) EXCEPT ![i] = kind]
           P1 == [ParOf(slot) EXCEPT ![i] = IF kind = "dir" THEN d ELSE 0]
           L1 == [LinkOf(slot) EXCEPT ![i] = IF kind = "dir" THEN 2 ELSE 1]
           E  == EntOf(slot, ents)
           r  == Fresh(d, i, kind)
           x  == [ino |-> i, dir |-> kind = "dir"]
           l  == addDirEntry(r, d, n, x, TRUE)
           o  == [l EXCEPT !.err = "ok"]
           pg == [IF r.slot[d].root THEN r.ents[r.slot[d].gen] ELSE Bare EXCEPT ![n] = x]
           f  == FreeInode(o, i)
<1>1. View(r, K1, P1, L1, E, bits \cup {i}, gens + 1) /\ NoArm(r.steps)
  BY FreshMade, ZenonT(30)
<1>2. /\ KindOf(slot)[d] = "dir" /\ KindOf(slot)[i] = "none" /\ KindOf(slot) \in [Inos -> Kinds]
      /\ slot[ROOT].kind = "dir" /\ slot[i].kind = "none" /\ bits \in SUBSET Inos
  BY GoodAt, Viewed, ZenonT(30) DEF TreeTyped, Good
<1>3. K1[d] = "dir" /\ i \in Inos \ {ROOT} /\ x \in Entry
  BY <1>2, NewEntry, ZenonT(30)
<1>4. create(d, n, i, kind, TRUE) = IF l.err # "ok" THEN [f EXCEPT !.err = l.err]
        ELSE updateParentDir(journalDirUpdate(journalInodeFull(writeThroughFreshInodeSlot(l, i), i), d, n, x), d,
                             IF kind = "dir" THEN 1 ELSE 0, 0)
  BY Zenon DEF create, Fresh
<1> HIDE DEF K1, P1, L1, E, r, x
<1>5. r \in HType /\ r.err = "ok" /\ Fin(r.steps, bits) = bits \cup {i} /\ r.slot[d].gen \in Gens
  BY <1>1, <1>3, ViewIs, ZenonT(30)
<1>6. /\ l \in HType /\ l.err = "ENOSPC" /\ Fin(l.steps, bits) = Fin(r.steps, bits) /\ (NoArm(l.steps) <=> NoArm(r.steps))
  BY <1>2, <1>3, <1>5, EntryRefused, ZenonT(30) DEF Refused
<1> HIDE DEF l
<1>7. o \in HType /\ o.err = "ok" /\ o.steps = l.steps
  BY <1>6, ZenonT(30) DEF HType, ErrNames
<1> HIDE DEF o
<1>8. Gets(f, [o.slot EXCEPT ![i] = ZeroSlot], o.ents, Fin(o.steps, bits) \ {i}) /\ (NoArm(f.steps) <=> NoArm(o.steps))
  BY <1>2, <1>3, <1>7, Freed, ZenonT(30)
<1> HIDE DEF f
<1>9. f \in HType /\ Fin(f.steps, bits) = bits /\ NoArm(f.steps)
  BY <1>1, <1>5, <1>6, <1>7, <1>8, ZenonT(30) DEF Gets
<1> QED
  BY <1>4, <1>6, <1>9, ZenonT(30) DEF Handled, HType, ErrNames

(* The parent's times: a record of its slot, and nothing else.             *)
LEMMA WholeTouch ==
  ASSUME NEW s, NEW K, NEW P, NEW L, NEW E, NEW B, NEW g, NEW m, Whole(s, K, P, L, E, B, g, m),
         bits \in SUBSET Inos, NEW d \in Inos
  PROVE  Whole(updateParentDir(s, d, 0, 0), K, P, L, E, B, g, m)
<1>1. View(s, K, P, L, E, B, g)
  BY ZenonT(30) DEF Whole
<1>2. L \in [Inos -> Nat] /\ L[d] \in Nat
  BY <1>1, ViewIs, SMTT(60), Z3T(60)
<1>3. 0 \in {0, 1} /\ L[d] + 0 >= 0
  BY <1>2, SMTT(60), Z3T(60)
<1>4. View(updateParentDir(s, d, 0, 0), K, P, [L EXCEPT ![d] = @ + 0 - 0], E, B, g)
  BY <1>1, <1>3, ViewLinks, ZenonT(30)
<1>5. [L EXCEPT ![d] = @ + 0 - 0] = L
  BY <1>2, SMTT(60), Z3T(60)
<1> QED
  BY <1>4, <1>5, ZenonT(30) DEF Whole

LEMMA UnlinkHandled ==
  ASSUME NEW m \in Nat, Good(slot, ents, bits, gens, m), NEW d \in Inos, NEW n \in Names,
         At(d, n) # None, At(d, n).dir => dirIsEmpty(slot, ents, At(d, n).ino)
  PROVE  Handled(unlink(d, n), gens, m)
<1> DEFINE K == KindOf(slot)
           P == ParOf(slot)
           L == LinkOf(slot)
           E == EntOf(slot, ents)
           i == ents[slot[d].gen][n].ino
           u == journalInodeUpdate(Unlinked(Begin("unlink"), d, n, i), i)
           F == SetEntry(E, d, n, None)
<1>1. Whole(Begin("unlink"), K, P, L, E, bits, gens, m) /\ bits \in SUBSET Inos
  BY GoodBegin, Zenon DEF CallNames
<1>2. At(d, n) = E[d][n] /\ ents[slot[d].gen][n] = E[d][n]
  BY GoodAt, ZenonT(30)
<1>3. unlink(d, n) = updateParentDir(Retire(u, i), d, 0, 0)
  BY Zenon DEF unlink
<1>4. E[d][n] # None /\ i = E[d][n].ino
  BY <1>2, ZenonT(30)
<1>5. E[d][n].ino \in Inos
  BY <1>1, <1>4, WholeEntry, ZenonT(30)
<1>7. E[d][n].dir => E[i] = Bare
  BY <1>2, <1>4, <1>5, ZenonT(30) DEF dirIsEmpty, EntOf
<1> HIDE DEF K, P, L, E, i
<1>8. u = journalInodeUpdate(Unlinked(Begin("unlink"), d, n, i), i)
  BY ZenonT(30)
<1> HIDE DEF u
<1>9. PICK K2, P2, L2, B2 : Whole(Retire(u, i), K2, P2, L2, F, B2, gens, m)
  <2>2. Dropped(Retire(u, i), K, L, E, d, n, i, gens, m)
    BY <1>1, <1>4, <1>7, <1>8, WholeUnlink, ZenonT(30) DEF Drops
  <2> QED
    BY <2>2, ZenonT(30) DEF Dropped
<1> HIDE DEF F
<1>10. Whole(updateParentDir(Retire(u, i), d, 0, 0), K2, P2, L2, F, B2, gens, m)
  BY <1>1, <1>9, WholeTouch, ZenonT(30)
<1> QED
  BY <1>3, <1>10, WholeHandled, ZenonT(30)

LEMMA SetattrHandled ==
  ASSUME NEW m \in Nat, Good(slot, ents, bits, gens, m), NEW i \in Inos, NEW v \in Vals
  PROVE  Handled(setattr(i, v), gens, m)
<1> DEFINE K == KindOf(slot)
           P == ParOf(slot)
           L == LinkOf(slot)
           E == EntOf(slot, ents)
           b == Begin("setattr")
           u == [b EXCEPT !.slot[i].val = v]
<1>1. Whole(b, K, P, L, E, bits, gens, m) /\ bits \in SUBSET Inos
  BY GoodBegin, Zenon DEF CallNames
<1>2. setattr(i, v) = journalInodeFull(u, i)
  BY ZenonT(30) DEF setattr
<1> HIDE DEF K, P, L, E, b
<1>4. View(u, K, P, L, E, bits, gens)
  BY <1>1, ViewVal, ZenonT(30) DEF Whole
<1> HIDE DEF u
<1> QED
  BY <1>1, <1>2, <1>4, WholeHandled, ViewRecord, ZenonT(30) DEF Whole

LEMMA LinkHandled ==
  ASSUME NEW m \in Nat, Good(slot, ents, bits, gens, m), NEW d \in Inos, NEW n \in Names, NEW i \in Inos,
         slot[d].kind = "dir", At(d, n) = None, slot[i].kind = "file"
  PROVE  Handled(link(d, n, i, FALSE), gens, m + 1)
<1> DEFINE K == KindOf(slot)
           P == ParOf(slot)
           L == LinkOf(slot)
           E == EntOf(slot, ents)
           b == Begin("link")
           x == [ino |-> i, dir |-> FALSE]
           a == addDirEntry(b, d, n, x, FALSE)
           t == journalDirUpdate(a, d, n, x)
           u == [t EXCEPT !.slot[i].nlink = @ + 1]
           v == L[i] + 1
           F == SetEntry(E, d, n, x)
           L2 == [L EXCEPT ![i] = v]
<1>1. Whole(b, K, P, L, E, bits, gens, m) /\ bits \in SUBSET Inos
  BY GoodBegin, Zenon DEF CallNames
<1>2. /\ View(b, K, P, L, E, bits, gens) /\ TreeOK(K, P, L, E) /\ bits = {c \in Inos : K[c] # "none"}
      /\ \A c \in Inos : L[c] <= m
  BY <1>1, ZenonT(30) DEF Whole
<1>3. TreeTyped(K, P, L, E) /\ L \in [Inos -> Nat]
  BY <1>2, ViewIs, ZenonT(30)
<1>4. K[d] = "dir" /\ E[d][n] = None /\ K[i] = "file"
  BY GoodAt, ZenonT(30)
<1>5. link(d, n, i, FALSE) = updateParentDir(journalInodeFull(u, i), d, 0, 0)
  BY Zenon DEF link
<1>6. x.ino = i /\ x \in Entry /\ x.dir = FALSE /\ x.ino \in Inos /\ x # None
  BY RootIn, ZenonT(30) DEF Entry, None
<1> HIDE DEF K, P, L, E, b, x
<1>7. View(a, K, P, L, F, bits, gens)
  BY <1>1, <1>2, <1>4, <1>6, ViewAdd, ZenonT(30)
<1> HIDE DEF a, F
<1>8. View(t, K, P, L, F, bits, gens)
  BY <1>1, <1>6, <1>7, ViewEntryRecord, ZenonT(30)
<1> HIDE DEF t
<1>9. v \in Nat /\ u = [t EXCEPT !.slot[i].nlink = v]
  BY <1>8, ViewIs, SMTT(60), Z3T(60)
<1> HIDE DEF v
<1>10. View(u, K, P, L2, F, bits, gens)
  BY <1>8, <1>9, ViewNlink, ZenonT(30)
<1> HIDE DEF u, L2
<1>12. \A c \in Inos : L2[c] = L[c] + (IF c = i THEN 1 ELSE 0)
  BY <1>3, SMTT(60), Z3T(60) DEF L2, v
<1>13. TreeOK(K, P, L2, F)
  <2>1. LinkEdit(K, P, L, E, L2, F, d, n, i, x)
    BY <1>4, <1>6, <1>12, ZenonT(30) DEF LinkEdit, F
  <2> QED
    BY <1>2, <1>3, <1>6, <2>1, TreeLink, ZenonT(30)
<1>14. \A c \in Inos : L2[c] <= m + 1
  BY <1>2, <1>3, <1>12, SMTT(60), Z3T(60)
<1>16. Whole(updateParentDir(journalInodeFull(u, i), d, 0, 0), K, P, L2, F, bits, gens, m + 1)
  BY <1>1, <1>2, <1>10, <1>13, <1>14, WholeTouch, ViewRecord, ZenonT(30) DEF Whole
<1> QED
  BY <1>5, <1>16, WholeHandled, ZenonT(30)

(* No room for the entry: nothing is recorded and no bit moves.            *)
LEMMA LinkFails ==
  ASSUME NEW m \in Nat, Good(slot, ents, bits, gens, m), NEW d \in Inos, NEW n \in Names, NEW i \in Inos,
         slot[d].kind = "dir"
  PROVE  Handled(link(d, n, i, TRUE), gens, m + 1)
<1> DEFINE b == Begin("link")
           x == [ino |-> i, dir |-> FALSE]
           a == addDirEntry(b, d, n, x, TRUE)
           t == journalDirUpdate(a, d, n, x)
           u == [t EXCEPT !.slot[i].nlink = @ + 1]
           sl == [t.slot EXCEPT ![i].nlink = @ + 1]
           j == journalInodeFull(u, i)
           v == updateParentDir(j, d, 0, 0)
           sl2 == [j.slot EXCEPT ![d].nlink = @ + 0 - 0]
<1>1. Whole(b, KindOf(slot), ParOf(slot), LinkOf(slot), EntOf(slot, ents), bits, gens, m) /\ bits \in SUBSET Inos
  BY GoodBegin, Zenon DEF CallNames
<1>2. View(b, KindOf(slot), ParOf(slot), LinkOf(slot), EntOf(slot, ents), bits, gens)
  BY <1>1, ZenonT(30) DEF Whole
<1>3. b \in HType /\ b.err = "ok" /\ Fin(b.steps, bits) = bits
  BY <1>2, ViewIs, ZenonT(30)
<1>4. b.slot[d].gen \in Gens
  <2>1. KindOf(slot)[d] = "dir"
    BY GoodAt, ZenonT(30)
  <2> QED
    BY <1>2, <2>1, ViewIs, ZenonT(30)
<1>5. x \in Entry
  BY ZenonT(30) DEF Entry
<1>6. NoArm(b.steps)
  BY FinEmpty, <1>1, ZenonT(30) DEF Begin
<1>7. link(d, n, i, TRUE) = v
  BY Zenon DEF link
<1> HIDE DEF b, x
<1>8. a \in HType /\ a.err = "ENOSPC" /\ Fin(a.steps, bits) = bits /\ NoArm(a.steps)
  BY <1>1, <1>3, <1>4, <1>5, <1>6, EntryRefused, ZenonT(30) DEF Refused
<1> HIDE DEF a
<1>9. Does(a, t, a.slot, a.ents)
  BY <1>1, <1>5, <1>8, EntryJournaled, ZenonT(30)
<1>10. t \in HType /\ t.slot \in [Inos -> SlotType]
  BY <1>9, HIs, ZenonT(30) DEF Does
<1> HIDE DEF t
<1>11. u = [t EXCEPT !.slot = sl] /\ sl \in [Inos -> SlotType]
  BY <1>10, SMTT(60), Z3T(60) DEF SlotType
<1> HIDE DEF sl, u
<1>12. Does(t, u, sl, t.ents)
  BY <1>10, <1>11, HIs, SlotsSet, ZenonT(30)
<1>14. Does(u, j, u.slot, u.ents)
  BY <1>1, <1>12, Journaled, ZenonT(30) DEF Does
<1>15. j \in HType /\ j.slot[d].nlink + 0 >= 0 /\ 0 \in {0, 1}
  BY <1>14, HIs, SMTT(60), Z3T(60) DEF SlotType, Does
<1> HIDE DEF j
<1>16. sl2 = [j.slot EXCEPT ![d].nlink = @ + 0 - 0]
  BY ZenonT(30)
<1> HIDE DEF sl2
<1>17. Does(j, v, sl2, j.ents)
  BY <1>1, <1>15, <1>16, LinksMoved, ZenonT(30)
<1> HIDE DEF v
<1> QED
  BY <1>7, <1>8, <1>9, <1>12, <1>14, <1>17, ZenonT(30) DEF Handled, Does

(* The target of a rename, where there is one, is unlinked first.          *)
Cleared(t, K, E, e, m, mm) ==
  \E K2, P2, L2, B2 :
    /\ Whole(t, K2, P2, L2, SetEntry(E, e, m, None), B2, gens, mm)
    /\ \A j \in Inos : K2[j] = IF j \in Retired(e, m) THEN "none" ELSE K[j]

LEMMA TargetRemoved ==
  ASSUME NEW mm \in Nat, Good(slot, ents, bits, gens, mm), NEW e \in Inos, NEW m \in Names,
         At(e, m).dir => dirIsEmpty(slot, ents, At(e, m).ino)
  PROVE  Cleared(removeRenameTarget(Begin("rename"), e, m, Entries(slot, ents, e)[m].ino),
                 KindOf(slot), EntOf(slot, ents), e, m, mm)
<1> DEFINE K == KindOf(slot)
           P == ParOf(slot)
           L == LinkOf(slot)
           E == EntOf(slot, ents)
           b == Begin("rename")
           i == Entries(slot, ents, e)[m].ino
           u == journalInodeFull(Unlinked(b, e, m, i), i)
           t == removeRenameTarget(b, e, m, i)
<1>1. Whole(b, K, P, L, E, bits, gens, mm) /\ bits \in SUBSET Inos
  BY GoodBegin, Zenon DEF CallNames
<1>2. At(e, m) = E[e][m] /\ E[e][m].ino = i
  BY GoodAt, ZenonT(30) DEF At
<1>3. \A j \in Inos : E[j] = Entries(slot, ents, j) /\ L[j] = slot[j].nlink
  BY ZenonT(30) DEF EntOf, LinkOf
<1>4. t = IF i = 0 THEN b ELSE Retire(u, i)
  BY ZenonT(30) DEF removeRenameTarget
<1>5. E \in [Inos -> Page]
  BY <1>1, ViewIs, ZenonT(30) DEF Whole
<1> HIDE DEF K, P, L, E, b, i
<1>7. CASE E[e][m] = None
  <2> HIDE DEF t
  <2> QED
    BY <1>1, <1>2, <1>4, <1>5, <1>7, NoneIs, ZenonT(30) DEF K, E, b, t, i, Cleared, SetEntry, Page,
       Retired
<1>8. CASE E[e][m] # None
  <2>1. i \in Inos /\ i # 0
    <3>1. E[e][m].ino \in Inos
      BY <1>1, <1>8, WholeEntry, ZenonT(30)
    <3> QED
      BY <1>2, <3>1, RootIn, ZenonT(30)
  <2>4. Drops(b, u, E, e, m, i)
    BY <1>2, <1>3, <1>8, <2>1, ZenonT(30) DEF Drops, dirIsEmpty
  <2> HIDE DEF u, t
  <2>5. Dropped(t, K, L, E, e, m, i, gens, mm)
    BY <1>1, <1>4, <2>1, <2>4, WholeUnlink, ZenonT(30)
  <2>6. PICK K2, P2, L2, B2 :
          /\ Whole(t, K2, P2, L2, SetEntry(E, e, m, None), B2, gens, mm)
          /\ \A j \in Inos : K2[j] = IF j = i /\ (E[e][m].dir \/ L[i] = 1) THEN "none" ELSE K[j]
    BY <2>5, ZenonT(30) DEF Dropped
  <2>7. \A j \in Inos : j \in Retired(e, m) <=> j = i /\ (E[e][m].dir \/ L[i] = 1)
    BY <1>2, <1>3, <2>1, ZenonT(30) DEF Retired
  <2> QED
    BY <2>6, <2>7, ZenonT(30) DEF K, E, b, t, i, Cleared
<1> QED
  BY <1>7, <1>8, ZenonT(30)

(* The entry (d, n) of a tree may go to (e, m), where there is none.       *)
Movable(K, E, d, n, e, m, x) ==
  /\ E[d][n] = x /\ x # None /\ E[e][m] = None /\ K[e] = "dir"
  /\ x.dir => e \notin BelowSet(E, x.ino)

Relinked(K, P, L, P2, L2, d, e, i) ==
  /\ \A j \in Inos : P2[j] = IF j = i /\ d # e /\ K[i] = "dir" THEN e ELSE P[j]
  /\ \A j \in Inos : L2[j] = IF d = e \/ K[i] # "dir" \/ j \notin {d, e} THEN L[j]
                             ELSE IF j = d THEN L[j] - 1 ELSE L[j] + 1

LEMMA TreeMove ==
  ASSUME NEW s, NEW K, NEW P, NEW L, NEW E, NEW B, NEW g, NEW mm \in Nat, Whole(s, K, P, L, E, B, g, mm),
         NEW d \in Inos, NEW n \in Names, NEW e \in Inos, NEW m \in Names, NEW x, NEW i,
         Movable(K, E, d, n, e, m, x), i = x.ino, NEW P2, NEW L2, Relinked(K, P, L, P2, L2, d, e, i)
  PROVE  TreeOK(K, P2, L2, SetEntry(SetEntry(E, d, n, None), e, m, x)) /\ \A j \in Inos : L2[j] <= mm + 1
<1> DEFINE F == SetEntry(SetEntry(E, d, n, None), e, m, x)
<1>1. /\ E[d][n] = x /\ x # None /\ E[e][m] = None /\ K[e] = "dir" /\ (x.dir => e \notin BelowSet(E, x.ino))
  BY ZenonT(30) DEF Movable
<1>2. /\ i \in Inos /\ x \in Entry /\ K[i] = (IF x.dir THEN "dir" ELSE "file")
  <2>1. Leads(K, L, E, d, n)
    BY <1>1, WholeLeads, ZenonT(30)
  <2> QED
    BY <1>1, <2>1, ZenonT(30) DEF Leads
<1>3. /\ TreeOK(K, P, L, E) /\ TreeTyped(K, P, L, E) /\ L \in [Inos -> Nat] /\ P \in [Inos -> Nat]
      /\ \A j \in Inos : L[j] <= mm
  BY ViewIs, ZenonT(30) DEF Whole
<1>5. /\ \A j \in Inos : P2[j] = IF j = i /\ d # e /\ K[i] = "dir" THEN e ELSE P[j]
      /\ \A j \in Inos : L2[j] = IF d = e \/ K[i] # "dir" \/ j \notin {d, e} THEN L[j]
                                 ELSE IF j = d THEN L[j] - 1 ELSE L[j] + 1
  BY ZenonT(30) DEF Relinked
<1>8. None \in Entry /\ None.ino = 0 /\ ~None.dir /\ 0 \notin Inos
  BY NoneIs, RootIn, ZenonT(30)
<1>9. SwapEdit(K, P, L, E, P2, L2, F, x, None, d, n, e, m)
  BY <1>1, <1>2, <1>3, <1>5, <1>8, SMTT(60), Z3T(60) DEF SwapEdit, Entry, TreeOK, Parented
<1>10. TreeOK(K, P2, L2, F)
  <2> HIDE DEF F
  <2> QED
    BY <1>2, <1>3, <1>8, <1>9, TreeSwap, ZenonT(30)
<1> QED
  BY <1>3, <1>5, <1>10, SMTT(60), Z3T(60)

LEMMA WholeMove ==
  ASSUME NEW s, NEW K, NEW P, NEW L, NEW E, NEW B, NEW g, NEW mm \in Nat, Whole(s, K, P, L, E, B, g, mm),
         bits \in SUBSET Inos, NEW d \in Inos, NEW n \in Names, NEW e \in Inos, NEW m \in Names, NEW x,
         Movable(K, E, d, n, e, m, x), NEW v, NEW F, F = SetEntry(SetEntry(E, d, n, None), e, m, x),
         View(v, K, P, L, F, B, g)
  PROVE  \E P2, L2 : Whole(finishCrossDirMove(v, d, e, x.ino), K, P2, L2, F, B, g, mm + 1)
<1> DEFINE i == x.ino
<1>1. E[d][n] = x /\ x # None
  BY ZenonT(30) DEF Movable
<1>2. i \in Inos /\ (d # e /\ K[i] = "dir" => L[d] >= 1)
  <2>1. Leads(K, L, E, d, n) /\ L \in [Inos -> Nat]
    BY <1>1, WholeLeads, ViewIs, ZenonT(30) DEF Whole
  <2> QED
    BY <1>1, <2>1, SMTT(60), Z3T(60) DEF Leads
<1>4. i = x.ino
  BY ZenonT(30)
<1> HIDE DEF i
<1>5. PICK P2, L2 : View(finishCrossDirMove(v, d, e, i), K, P2, L2, F, B, g) /\ Relinked(K, P, L, P2, L2, d, e, i)
  <2>1. Moved(finishCrossDirMove(v, d, e, i), K, P, L, F, B, g, d, e, i)
    BY <1>2, ViewMoved, ZenonT(30)
  <2> QED
    BY <2>1, ZenonT(30) DEF Moved, Relinked
<1>7. Whole(finishCrossDirMove(v, d, e, i), K, P2, L2, F, B, g, mm + 1)
  BY <1>4, <1>5, TreeMove, ZenonT(30) DEF Whole
<1> QED
  BY <1>7, ZenonT(30) DEF i

(* After that the entry may move.                                          *)
Ready(t, K, E, d, n, e, m, x, mm) ==
  \E K2, P2, L2, B2 :
    /\ Whole(t, K2, P2, L2, SetEntry(E, e, m, None), B2, gens, mm)
    /\ \A j \in Inos : K2[j] = IF j \in Retired(e, m) THEN "none" ELSE K[j]
    /\ Movable(K2, SetEntry(E, e, m, None), d, n, e, m, x)

\* What lets an entry move: see Renames, Replaces.
MayRename(d, n, e, m) ==
  /\ slot[e].kind = "dir" /\ At(d, n) # None /\ At(d, n).ino # At(e, m).ino
  /\ At(d, n).dir => e \notin BelowSet(EntOf(slot, ents), At(d, n).ino)

LEMMA RenameReady ==
  ASSUME NEW mm \in Nat, Good(slot, ents, bits, gens, mm), NEW d \in Inos, NEW n \in Names,
         NEW e \in Inos, NEW m \in Names, MayRename(d, n, e, m),
         At(e, m).dir => dirIsEmpty(slot, ents, At(e, m).ino)
  PROVE  Ready(removeRenameTarget(Begin("rename"), e, m, Entries(slot, ents, e)[m].ino),
               KindOf(slot), EntOf(slot, ents), d, n, e, m, At(d, n), mm)
<1> DEFINE K == KindOf(slot)
           E == EntOf(slot, ents)
           t == removeRenameTarget(Begin("rename"), e, m, Entries(slot, ents, e)[m].ino)
           x == At(d, n)
           F == SetEntry(E, e, m, None)
<1>1. Cleared(t, K, E, e, m, mm)
  BY TargetRemoved, ZenonT(30)
<1>2. /\ At(e, m) = E[e][m] /\ x = E[d][n] /\ K[e] = "dir" /\ x # None /\ x.ino # E[e][m].ino
      /\ (x.dir => e \notin BelowSet(E, x.ino))
  BY GoodAt, ZenonT(30) DEF MayRename
<1>4. /\ F[e][m] = None /\ F[d][n] = x
      /\ \A c \in Inos, k \in Names : F[c][k].dir => E[c][k] = F[c][k]
  <2>1. /\ F[e][m] = None /\ \A c \in Inos, k \in Names : c # e \/ k # m => F[c][k] = E[c][k]
    BY EntrySet, NoneIs, Viewed, SMTT(60), Z3T(60) DEF TreeTyped, Good
  <2> HIDE DEF F, E, x
  <2> QED
    BY <1>2, <2>1, NoneIs, ZenonT(30)
<1>5. E[e][m] # None => E[e][m].ino # e
  <2>1. Whole(Begin("rename"), K, ParOf(slot), LinkOf(slot), E, bits, gens, mm)
    BY GoodBegin, Zenon DEF CallNames
  <2> QED
    BY <2>1, WholeEntry, ZenonT(30)
<1> HIDE DEF K, E, t
<1>7. PICK K2, P2, L2, B2 :
        /\ Whole(t, K2, P2, L2, F, B2, gens, mm)
        /\ \A j \in Inos : K2[j] = IF j \in Retired(e, m) THEN "none" ELSE K[j]
  BY <1>1, ZenonT(30) DEF Cleared
<1>8. x.dir => e \notin BelowSet(F, x.ino)
  <2>1. ASSUME x.dir PROVE e \notin BelowSet(F, x.ino)
    <3> HIDE DEF F, x
    <3>a. Whole(t, K2, P2, L2, F, B2, gens, mm) /\ F[d][n] # None
      BY <1>2, <1>4, <1>7, ZenonT(30)
    <3>b. F[d][n].ino \in Inos
      BY <3>a, WholeEntry, ZenonT(30)
    <3> QED
      BY <1>2, <1>4, <2>1, <3>b, BelowShrinks, ZenonT(30)
  <2> QED
    BY <2>1, ZenonT(30)
<1>9. Movable(K2, F, d, n, e, m, x)
  <2> HIDE DEF F, x
  <2> QED
    BY <1>2, <1>4, <1>5, <1>7, <1>8, NoneIs, ZenonT(30) DEF Movable, Retired
<1> QED
  BY <1>7, <1>9, ZenonT(30) DEF t, K, E, Ready

LEMMA RenameHandled ==
  ASSUME NEW mm \in Nat, Good(slot, ents, bits, gens, mm), NEW d \in Inos, NEW n \in Names,
         NEW e \in Inos, NEW m \in Names, MayRename(d, n, e, m),
         At(e, m).dir => dirIsEmpty(slot, ents, At(e, m).ino)
  PROVE  Handled(renamePlain(d, n, e, m, FALSE), gens, mm + 1)
<1> DEFINE K == KindOf(slot)
           E == EntOf(slot, ents)
           x == ents[slot[d].gen][n]
           t == removeRenameTarget(Begin("rename"), e, m, Entries(slot, ents, e)[m].ino)
           r == removeDirEntry(t, d, n)
           u == journalDirUpdate(r, d, n, None)
           a == addDirEntry(u, e, m, x, FALSE)
           v == journalDirUpdate(a, e, m, x)
           F == SetEntry(E, e, m, None)
           G == SetEntry(F, d, n, None)
           H == SetEntry(G, e, m, x)
<1>1. x = At(d, n) /\ bits \in SUBSET Inos
  BY GoodAt, ZenonT(30) DEF MayRename
<1>2. Ready(t, K, E, d, n, e, m, x, mm)
  BY <1>1, RenameReady, ZenonT(30)
<1>3. renamePlain(d, n, e, m, FALSE) = finishCrossDirMove(v, d, e, x.ino)
  BY Zenon DEF renamePlain
<1> HIDE DEF K, E, x, t
<1>4. PICK K2, P2, L2, B2 : Whole(t, K2, P2, L2, F, B2, gens, mm) /\ Movable(K2, F, d, n, e, m, x)
  BY <1>2, ZenonT(30) DEF Ready
<1> HIDE DEF F
<1>5. F[d][n] # None /\ F[d][n] = x /\ K2[e] = "dir"
  BY <1>4, ZenonT(30) DEF Movable
<1>6. K2[d] = "dir" /\ x \in Entry /\ x.ino \in Inos
  <2>2. Leads(K2, L2, F, d, n)
    BY <1>4, <1>5, WholeLeads, ZenonT(30)
  <2> QED
    BY <1>5, <2>2, ZenonT(30) DEF Leads
<1>8. View(r, K2, P2, L2, G, B2, gens)
  BY <1>1, <1>4, <1>5, <1>6, ViewRemove, ZenonT(30) DEF Whole
<1> HIDE DEF r, G
<1>9. View(u, K2, P2, L2, G, B2, gens)
  BY <1>1, <1>8, NoneIs, ViewEntryRecord, ZenonT(30)
<1> HIDE DEF u
<1>10. View(a, K2, P2, L2, H, B2, gens)
  BY <1>1, <1>5, <1>6, <1>9, ViewAdd, ZenonT(30)
<1> HIDE DEF a
<1>11. H = SetEntry(SetEntry(F, d, n, None), e, m, x)
  BY ZenonT(30) DEF G
<1> HIDE DEF H
<1>12. View(v, K2, P2, L2, H, B2, gens)
  BY <1>1, <1>6, <1>10, ViewEntryRecord, ZenonT(30)
<1> HIDE DEF v
<1>13. PICK P3, L3 : Whole(finishCrossDirMove(v, d, e, x.ino), K2, P3, L3, H, B2, gens, mm + 1)
  BY <1>1, <1>4, <1>11, <1>12, WholeMove, SMTT(60), Z3T(60)
<1> QED
  BY <1>3, <1>13, WholeHandled, ZenonT(30)

LEMMA ViewSwapped ==
  ASSUME NEW s, NEW K, NEW P, NEW L, NEW E, NEW B, NEW g, View(s, K, P, L, E, B, g), bits \in SUBSET Inos,
         NEW d \in Inos, NEW n \in Names, NEW x \in Entry, K[d] = "dir", E[d][n] # None, x.ino \in Inos
  PROVE  View(Swapped(s, d, n, x, FALSE), K, P, L, SetEntry(E, d, n, x), B, g)
<1> DEFINE r == removeDirEntry(s, d, n)
           u == journalDirUpdate(r, d, n, None)
           a == addDirEntry(u, d, n, x, FALSE)
           v == journalDirUpdate(a, d, n, x)
           F == SetEntry(E, d, n, None)
           G == SetEntry(F, d, n, x)
<1>1. Swapped(s, d, n, x, FALSE) = v
  BY Zenon DEF Swapped
<1>2. View(r, K, P, L, F, B, g)
  BY ViewRemove, ZenonT(30)
<1>3. G = SetEntry(E, d, n, x)
  BY ViewIs, ZenonT(30) DEF SetEntry, Page
<1> HIDE DEF r, F
<1>4. View(u, K, P, L, F, B, g)
  BY <1>2, NoneIs, ViewEntryRecord, ZenonT(30)
<1> HIDE DEF u
<1>5. View(a, K, P, L, G, B, g)
  BY <1>4, ViewAdd, ZenonT(30)
<1> HIDE DEF a, G
<1> QED
  BY <1>1, <1>3, <1>5, ViewEntryRecord, ZenonT(30)

LEMMA ViewCrossed ==
  ASSUME NEW s, NEW K, NEW P, NEW L, NEW E, NEW B, NEW g, View(s, K, P, L, E, B, g),
         NEW d \in Inos, NEW e \in Inos, NEW i \in Inos, d # e /\ K[i] = "dir" => L[d] >= 1
  PROVE  Moved(Crossed(s, i, d, e), K, P, L, E, B, g, d, e, i)
<1>1. /\ s.slot[i].kind = K[i] /\ L \in [Inos -> Nat] /\ P \in [Inos -> Nat] /\ e \in Nat /\ s \in HType
      /\ s.slot[d].nlink = L[d] /\ s.slot[e].nlink = L[e]
  BY ViewIs, NamespaceAssumption, SMTT(60), Z3T(60)
<1>2. CASE d = e \/ K[i] # "dir"
  BY <1>1, <1>2, ZenonT(30) DEF Crossed, Moved
<1>3. CASE d # e /\ K[i] = "dir"
  <2> DEFINE a == [s EXCEPT !.slot[i].par = e]
             v == L[d] - 1
             w == L[e] + 1
             b == [a EXCEPT !.slot[d].nlink = v]
             c == [b EXCEPT !.slot[e].nlink = w]
             P2 == [P EXCEPT ![i] = e]
             L1 == [L EXCEPT ![d] = v]
             L2 == [L1 EXCEPT ![e] = w]
  <2>2. Crossed(s, i, d, e) = c
    <3>1. v = s.slot[d].nlink - 1 /\ w = s.slot[e].nlink + 1
      BY <1>1, ZenonT(30)
    <3> HIDE DEF v, w
    <3> QED
      BY <1>1, <1>3, <3>1, ZenonT(30) DEF Crossed
  <2>3. v \in Nat /\ w \in Nat
    BY <1>1, <1>3, SMTT(60), Z3T(60)
  <2>4. View(a, K, P2, L, E, B, g)
    BY <1>1, ViewPar, Zenon
  <2>5. /\ \A j \in Inos : P2[j] = IF j = i /\ d # e /\ K[i] = "dir" THEN e ELSE P[j]
        /\ \A j \in Inos : L2[j] = IF d = e \/ K[i] # "dir" \/ j \notin {d, e} THEN L[j]
                                   ELSE IF j = d THEN L[j] - 1 ELSE L[j] + 1
    BY <1>1, <1>3, ZenonT(30)
  <2> HIDE DEF a, P2, v, w
  <2>8. View(b, K, P2, L1, E, B, g)
    BY <2>3, <2>4, ViewNlink, Zenon
  <2> HIDE DEF b, L1
  <2>11. View(c, K, P2, L2, E, B, g)
    BY <2>3, <2>8, ViewNlink, Zenon
  <2> HIDE DEF c, L2
  <2> QED
    BY <2>2, <2>5, <2>11, SMTT(60), Z3T(60) DEF Moved
<1> QED
  BY <1>2, <1>3, ZenonT(30)

LEMMA WholeRecord ==
  ASSUME NEW s, NEW K, NEW P, NEW L, NEW E, NEW B, NEW g, NEW m, Whole(s, K, P, L, E, B, g, m),
         bits \in SUBSET Inos, NEW i \in Inos
  PROVE  Whole(journalInodeFull(s, i), K, P, L, E, B, g, m)
BY ViewRecord, ZenonT(30) DEF Whole

LEMMA ExchangeHandled ==
  ASSUME NEW mm \in Nat, Good(slot, ents, bits, gens, mm), NEW d \in Inos, NEW n \in Names,
         NEW e \in Inos, NEW m \in Names, MayRename(d, n, e, m), MayRename(e, m, d, n)
  PROVE  Handled(renameExchange(d, n, e, m, FALSE), gens, mm + 1)
<1> DEFINE K == KindOf(slot)
           P == ParOf(slot)
           L == LinkOf(slot)
           E == EntOf(slot, ents)
           x == ents[slot[d].gen][n]
           y == ents[slot[e].gen][m]
           i == x.ino
           j == y.ino
           b == Begin("rename")
           a == Swapped(b, d, n, y, FALSE)
           t == Swapped(a, e, m, x, FALSE)
           p == Crossed(t, i, d, e)
           u == Crossed(p, j, e, d)
           w == journalInodeFull(journalInodeFull(u, i), j)
           v == updateParentDir(w, d, 0, 0)
           F == SetEntry(E, d, n, y)
           H == SetEntry(F, e, m, x)
<1>1. Whole(b, K, P, L, E, bits, gens, mm) /\ bits \in SUBSET Inos
  BY GoodBegin, Zenon DEF CallNames
<1>2. /\ x = E[d][n] /\ y = E[e][m] /\ x # None /\ y # None /\ i # j /\ K[d] = "dir" /\ K[e] = "dir"
      /\ (x.dir => e \notin BelowSet(E, i)) /\ (y.dir => d \notin BelowSet(E, j))
  BY GoodAt, SMTT(60), Z3T(60) DEF MayRename
<1>3. renameExchange(d, n, e, m, FALSE) = IF d # e THEN updateParentDir(v, e, 0, 0) ELSE v
  BY Zenon DEF renameExchange
<1> HIDE DEF K, P, L, E, x, y, b
<1>4. /\ View(b, K, P, L, E, bits, gens) /\ TreeOK(K, P, L, E) /\ bits = {c \in Inos : K[c] # "none"}
      /\ \A c \in Inos : L[c] <= mm
  BY <1>1, ZenonT(30) DEF Whole
<1>5. TreeTyped(K, P, L, E) /\ E \in [Inos -> Page] /\ P \in [Inos -> Nat] /\ L \in [Inos -> Nat]
  BY <1>4, ViewIs, ZenonT(30)
<1>6. /\ i \in Inos /\ x \in Entry /\ K[i] = (IF x.dir THEN "dir" ELSE "file") /\ (x.dir => L[d] >= 3)
      /\ j \in Inos /\ y \in Entry /\ K[j] = (IF y.dir THEN "dir" ELSE "file") /\ (y.dir => L[e] >= 3)
  <2>1. E[d][n] # None /\ E[e][m] # None
    BY <1>2, ZenonT(30)
  <2>2. Leads(K, L, E, d, n)
    BY <1>1, <2>1, WholeLeads, ZenonT(30)
  <2>3. Leads(K, L, E, e, m)
    BY <1>1, <2>1, WholeLeads, ZenonT(30)
  <2> QED
    BY <1>2, <2>2, <2>3, ZenonT(30) DEF Leads
<1>7. /\ x.dir \in BOOLEAN /\ y.dir \in BOOLEAN /\ (K[i] = "dir" <=> x.dir) /\ (K[j] = "dir" <=> y.dir)
  BY <1>6, ZenonT(30) DEF Entry
<1>8. View(a, K, P, L, F, bits, gens)
  BY <1>1, <1>2, <1>4, <1>6, ViewSwapped, ZenonT(30)
<1>9. F[e][m] # None
  <2>1. F[d][n] = y /\ \A c \in Inos, k \in Names : c # d \/ k # n => F[c][k] = E[c][k]
    BY <1>5, <1>6, EntrySet, SMTT(60), Z3T(60)
  <2> HIDE DEF F
  <2> QED
    BY <1>2, <2>1, ZenonT(30)
<1> HIDE DEF a, F
<1>10. View(t, K, P, L, H, bits, gens)
  BY <1>1, <1>2, <1>6, <1>8, <1>9, ViewSwapped, ZenonT(30)
<1>11. H = SetEntry(SetEntry(E, d, n, y), e, m, x)
  BY ZenonT(30) DEF F
<1> HIDE DEF t, H, i, j
<1>12. PICK P1, L1 :
         /\ View(p, K, P1, L1, H, bits, gens)
         /\ \A c \in Inos : P1[c] = IF c = i /\ d # e /\ K[i] = "dir" THEN e ELSE P[c]
         /\ \A c \in Inos : L1[c] = IF d = e \/ K[i] # "dir" \/ c \notin {d, e} THEN L[c]
                                    ELSE IF c = d THEN L[c] - 1 ELSE L[c] + 1
  <2>2. Moved(p, K, P, L, H, bits, gens, d, e, i)
    BY <1>5, <1>6, <1>7, <1>10, ViewCrossed, SMTT(60), Z3T(60)
  <2> QED
    BY <2>2, ZenonT(30) DEF Moved
<1> HIDE DEF p
<1>13. PICK P2, L2 :
         /\ View(u, K, P2, L2, H, bits, gens)
         /\ \A c \in Inos : P2[c] = IF c = j /\ e # d /\ K[j] = "dir" THEN d ELSE P1[c]
         /\ \A c \in Inos : L2[c] = IF e = d \/ K[j] # "dir" \/ c \notin {e, d} THEN L1[c]
                                    ELSE IF c = e THEN L1[c] - 1 ELSE L1[c] + 1
  <2>2. View(p, K, P1, L1, H, bits, gens)
    BY <1>12, ZenonT(30)
  <2>3. Moved(u, K, P1, L1, H, bits, gens, e, d, j)
    BY <1>5, <1>6, <1>7, <1>12, <2>2, ViewCrossed, SMTT(60), Z3T(60)
  <2> QED
    BY <2>3, ZenonT(30) DEF Moved
<1> HIDE DEF u
<1>14. SwapEdit(K, P, L, E, P2, L2, H, x, y, d, n, e, m)
  <2>1. /\ E[d][n] = x /\ E[e][m] = y /\ x # None /\ i # j /\ K[e] = "dir"
        /\ (x.dir => e \notin BelowSet(E, i)) /\ (y.dir => d \notin BelowSet(E, j))
    BY <1>2, ZenonT(30)
  <2>2. (x.dir => P[i] = d) /\ (y.dir => P[j] = e)
    BY <1>2, <1>4, ZenonT(30) DEF TreeOK, Parented, i, j
  <2>3. (x.dir => P2[i] = e) /\ (y.dir => P2[j] = d)
    BY <1>2, <1>6, <1>7, <1>12, <1>13, <2>2, ZenonT(30)
  <2>4. ASSUME NEW c \in Inos, ~(x.dir /\ c = i), ~(y.dir /\ c = j) PROVE P2[c] = P[c]
    BY <1>7, <1>12, <1>13, <2>4, ZenonT(30)
  <2>5. ASSUME NEW c \in Inos
        PROVE  L2[c] = IF d = e \/ c \notin {d, e} THEN L[c]
                       ELSE IF c = d THEN L[c] - (IF x.dir THEN 1 ELSE 0) + (IF y.dir THEN 1 ELSE 0)
                       ELSE L[c] + (IF x.dir THEN 1 ELSE 0) - (IF y.dir THEN 1 ELSE 0)
    <3>1. L1[c] = IF d = e \/ K[i] # "dir" \/ c \notin {d, e} THEN L[c]
                  ELSE IF c = d THEN L[c] - 1 ELSE L[c] + 1
      BY <1>12, ZenonT(30)
    <3>2. L2[c] = IF e = d \/ K[j] # "dir" \/ c \notin {e, d} THEN L1[c]
                  ELSE IF c = e THEN L1[c] - 1 ELSE L1[c] + 1
      BY <1>13, ZenonT(30)
    <3>3. L[c] \in Nat
      BY <1>5
    <3> QED
      BY <1>7, <3>1, <3>2, <3>3, SMTT(60)
  <2> QED
    BY <1>11, <2>1, <2>3, <2>4, <2>5, ZenonT(30) DEF SwapEdit, i, j
<1>17. Whole(u, K, P2, L2, H, bits, gens, mm + 1)
  BY <1>4, <1>5, <1>6, <1>12, <1>13, <1>14, TreeSwap, SMTT(60), Z3T(60) DEF Whole
<1>18. Whole(w, K, P2, L2, H, bits, gens, mm + 1)
  BY <1>1, <1>6, <1>17, WholeRecord, ZenonT(30)
<1> HIDE DEF w
<1>19. Whole(v, K, P2, L2, H, bits, gens, mm + 1)
  BY <1>1, <1>18, WholeTouch, ZenonT(30)
<1> HIDE DEF v
<1>20. Whole(updateParentDir(v, e, 0, 0), K, P2, L2, H, bits, gens, mm + 1)
  BY <1>1, <1>19, WholeTouch, ZenonT(30)
<1> QED
  BY <1>3, <1>19, <1>20, WholeHandled, ZenonT(30)

(* An entry gives way to another.                                          *)
LEMMA ViewReplace ==
  ASSUME NEW s, NEW K, NEW P, NEW L, NEW E, NEW B, NEW g, View(s, K, P, L, E, B, g),
         NEW d \in Inos, NEW n \in Names, NEW y \in Entry, K[d] = "dir", E[d][n] # None, y.ino \in Inos
  PROVE  View([s EXCEPT !.ents[s.slot[d].gen][n] = y], K, P, L, SetEntry(E, d, n, y), B, g)
<1> DEFINE pg == [s.ents[s.slot[d].gen] EXCEPT ![n] = y]
           en == [s.ents EXCEPT ![s.slot[d].gen] = pg]
           t  == [s EXCEPT !.ents = en]
<1>1. /\ s \in HType /\ s.slot[d].kind = "dir" /\ s.slot[d].gen \in Gens /\ Stored(s.slot, s.ents, g)
      /\ E[d] = Entries(s.slot, s.ents, d) /\ s.slot \in [Inos -> SlotType] /\ s.ents \in [Gens -> Page]
  BY ViewIs, SMTT(60), Z3T(60)
<1>2. Entries(s.slot, s.ents, d) = s.ents[s.slot[d].gen] /\ s.slot[d].root
  BY <1>1, PagesTyped, ZenonT(30) DEF Entries, Rooted
<1>4. pg = [Entries(s.slot, s.ents, d) EXCEPT ![n] = y] /\ pg \in Page /\ pg[n] = y
  BY <1>1, <1>2, Viewed, ZenonT(30) DEF Page
<1>6. [s EXCEPT !.ents[s.slot[d].gen][n] = y] = t
  BY <1>1, ZenonT(30) DEF HType
<1>7. Does(s, t, s.slot, en)
  BY <1>1, <1>4, SlotsSet, ZenonT(30)
<1>8. en = [s.ents EXCEPT ![s.slot[d].gen] = pg]
  BY ZenonT(30)
<1> HIDE DEF pg, en, t
<1>9. pg # NoPage
  BY <1>4, PagesTyped, RootIn, ZenonT(30)
<1>10. s.slot = [s.slot EXCEPT ![d].root = TRUE]
  BY <1>1, <1>2, ZenonT(30) DEF SlotType
<1>11. OnlyEntry(s.slot, s.ents, s.slot, en, d, n, y, g)
  BY <1>1, <1>4, <1>8, <1>9, <1>10, PageSet, ZenonT(30) DEF Paged
<1> QED
  BY <1>6, <1>7, <1>11, ZenonT(30) DEF Does, View, OnlyEntry

(* The whiteout, once made, takes the place of the moved entry.            *)
LEMMA WhiteoutMade ==
  ASSUME NEW t, NEW K, NEW P, NEW L, NEW E, NEW B, View(t, K, P, L, E, B, gens), bits \in SUBSET Inos,
         gens < MaxGen, NEW d \in Inos, NEW n \in Names, NEW w \in Inos, K[w] = "none", K[d] = "dir", E[d][n] # None,
         NEW y, y = [ino |-> w, dir |-> FALSE], NEW a,
         a = journalInodeFull(writeThroughFreshInodeSlot(AllocInode(t, w, "file", d, 0), w), w)
  PROVE  View(journalDirUpdate(journalDirUpdate([a EXCEPT !.ents[a.slot[d].gen][n] = y], d, n, None), d, n, y),
              [K EXCEPT ![w] = "file"], [P EXCEPT ![w] = 0], [L EXCEPT ![w] = 1], SetEntry(E, d, n, y),
              B \cup {w}, gens + 1)
<1> DEFINE K1 == [K EXCEPT ![w] = "file"]
           P1 == [P EXCEPT ![w] = 0]
           L1 == [L EXCEPT ![w] = 1]
           B1 == B \cup {w}
           F  == SetEntry(E, d, n, y)
           o  == AllocInode(t, w, "file", d, 0)
           z  == writeThroughFreshInodeSlot(o, w)
           q  == [a EXCEPT !.ents[a.slot[d].gen][n] = y]
           r  == journalDirUpdate(q, d, n, None)
<1>2. View(o, K1, P1, L1, E, B1, gens + 1)
  <2>1. View(o, [K EXCEPT ![w] = "file"], [P EXCEPT ![w] = IF "file" = "dir" THEN d ELSE 0],
             [L EXCEPT ![w] = IF "file" = "dir" THEN 2 ELSE 1], E, B \cup {w}, gens + 1)
    BY ViewAlloc, NamespaceAssumption, ZenonT(30)
  <2> HIDE DEF o
  <2> QED
    BY <2>1, ZenonT(30)
<1>3. L1[w] <= 3 /\ K1[d] = "dir"
  BY ViewIs, SMTT(60), Z3T(60)
<1>4. a = journalInodeFull(z, w)
  BY Zenon
<1> HIDE DEF K1, P1, L1, B1, o
<1>5. View(z, K1, P1, L1, E, B1, gens + 1)
  BY <1>2, <1>3, ViewArm, ZenonT(30)
<1> HIDE DEF z
<1>7. y \in Entry /\ y.ino \in Inos
  BY ZenonT(30) DEF Entry
<1>8. View(q, K1, P1, L1, F, B1, gens + 1)
  BY <1>3, <1>4, <1>5, <1>7, ViewReplace, ViewRecord, ZenonT(30)
<1> HIDE DEF q, F
<1>9. View(r, K1, P1, L1, F, B1, gens + 1)
  BY <1>8, NoneIs, ViewEntryRecord, Zenon
<1> HIDE DEF r
<1> QED
  BY <1>7, <1>9, ViewEntryRecord, ZenonT(30) DEF r, q, F, K1, P1, L1, B1

LEMMA EntriesSame ==
  ASSUME NEW A \in [Inos -> Page], NEW B \in [Inos -> Page], \A c \in Inos, k \in Names : A[c][k] = B[c][k]
  PROVE  A = B
BY SMTT(60), Z3T(60) DEF Page

SetOne(E, F, d, n, x) ==
  F \in [Inos -> Page] /\ F[d][n] = x /\ \A c \in Inos, k \in Names : c # d \/ k # n => F[c][k] = E[c][k]

LEMMA OneSet ==
  ASSUME NEW E \in [Inos -> Page], NEW d \in Inos, NEW n \in Names, NEW x \in Entry
  PROVE  SetOne(E, SetEntry(E, d, n, x), d, n, x)
  BY EntrySet, SMTT(60), Z3T(60) DEF SetOne

(* Edits of different entries commute.                                     *)
LEMMA EntriesCommute ==
  ASSUME NEW E \in [Inos -> Page], NEW d \in Inos, NEW n \in Names, NEW e \in Inos, NEW m \in Names,
         NEW x \in Entry, NEW y \in Entry, d # e \/ n # m
  PROVE  /\ SetEntry(SetEntry(E, d, n, None), e, m, x) \in [Inos -> Page]
         /\ SetEntry(SetEntry(E, d, n, None), e, m, x)[d][n] = None
         /\ SetEntry(SetEntry(SetEntry(E, d, n, None), e, m, x), d, n, y) = SetEntry(SetEntry(E, d, n, y), e, m, x)
<1> DEFINE F == SetEntry(E, d, n, None)
           G == SetEntry(F, e, m, x)
           A == SetEntry(E, d, n, y)
           B == SetEntry(A, e, m, x)
           C == SetEntry(G, d, n, y)
<1>1. SetOne(E, F, d, n, None) /\ SetOne(E, A, d, n, y)
  BY NoneIs, OneSet, ZenonT(30)
<1>2. F \in [Inos -> Page] /\ A \in [Inos -> Page]
  BY <1>1, ZenonT(30) DEF SetOne
<1> HIDE DEF F, A
<1>3. SetOne(F, G, e, m, x) /\ SetOne(A, B, e, m, x)
  BY <1>2, OneSet, ZenonT(30)
<1>4. G \in [Inos -> Page] /\ B \in [Inos -> Page]
  BY <1>3, ZenonT(30) DEF SetOne
<1> HIDE DEF G, B
<1>5. SetOne(G, C, d, n, y)
  BY <1>4, OneSet, ZenonT(30)
<1> HIDE DEF C
<1>7. \A c \in Inos, k \in Names : B[c][k] = C[c][k]
  BY <1>1, <1>3, <1>5, SMTT(60), Z3T(60) DEF SetOne
<1> QED
  BY <1>1, <1>3, <1>4, <1>5, <1>7, EntriesSame, ZenonT(30) DEF A, B, C, F, G, SetOne

(* The whiteout's tree: the entry moves, and a new file takes its place.   *)
WhiteEdit(K, P, L, K1, P1, L1, w, y, x, i) ==
  /\ i = x.ino /\ K[w] = "none" /\ y = [ino |-> w, dir |-> FALSE]
  /\ K1 = [K EXCEPT ![w] = "file"] /\ P1 = [P EXCEPT ![w] = 0] /\ L1 = [L EXCEPT ![w] = 1]

LEMMA TreeWhiteout ==
  ASSUME NEW s, NEW K, NEW P, NEW L, NEW E, NEW B, NEW g, NEW mm \in Nat, Whole(s, K, P, L, E, B, g, mm),
         NEW d \in Inos, NEW n \in Names, NEW e \in Inos, NEW m \in Names, NEW x, NEW i, NEW w \in Inos, NEW y,
         Movable(K, E, d, n, e, m, x), NEW K1, NEW P1, NEW L1, WhiteEdit(K, P, L, K1, P1, L1, w, y, x, i),
         NEW P2, NEW L2, Relinked(K1, P1, L1, P2, L2, d, e, i)
  PROVE  TreeOK(K1, P2, L2, SetEntry(SetEntry(E, d, n, y), e, m, x)) /\ \A j \in Inos : L2[j] <= mm + 1
<1> DEFINE P3 == [j \in Inos |-> IF j = w THEN P[j] ELSE P2[j]]
           L3 == [j \in Inos |-> IF j = w THEN L[j] ELSE L2[j]]
           F  == SetEntry(E, d, n, None)
           G  == SetEntry(F, e, m, x)
           H  == SetEntry(SetEntry(E, d, n, y), e, m, x)
<1>0. i = x.ino /\ K[w] = "none" /\ y = [ino |-> w, dir |-> FALSE]
  BY ZenonT(30) DEF WhiteEdit
<1>1. /\ E[d][n] = x /\ x # None /\ E[e][m] = None /\ K[e] = "dir"
  BY ZenonT(30) DEF Movable
<1>2. /\ i \in Inos /\ x \in Entry /\ K[i] = (IF x.dir THEN "dir" ELSE "file") /\ K[d] = "dir" /\ (K[i] = "dir" => L[d] >= 1)
      /\ L \in [Inos -> Nat] /\ P \in [Inos -> Nat] /\ K \in [Inos -> Kinds] /\ E \in [Inos -> Page]
  <2>1. Leads(K, L, E, d, n)
    BY <1>1, WholeLeads, ZenonT(30)
  <2> QED
    BY <1>0, <1>1, <2>1, ViewIs, SMTT(60), Z3T(60) DEF Leads, Whole
<1>3. i # w /\ d # w /\ e # w
  BY <1>0, <1>1, <1>2, ZenonT(30)
<1>4. /\ \A j \in Inos : P2[j] = IF j = i /\ d # e /\ K1[i] = "dir" THEN e ELSE P1[j]
      /\ \A j \in Inos : L2[j] = IF d = e \/ K1[i] # "dir" \/ j \notin {d, e} THEN L1[j]
                                 ELSE IF j = d THEN L1[j] - 1 ELSE L1[j] + 1
  BY ZenonT(30) DEF Relinked
<1>5. /\ K1[w] = "file" /\ P1[w] = 0 /\ L1[w] = 1
      /\ \A j \in Inos : j # w => K1[j] = K[j] /\ P1[j] = P[j] /\ L1[j] = L[j]
  BY <1>2, ZenonT(30) DEF WhiteEdit
<1>6. Relinked(K, P, L, P3, L3, d, e, i)
  <2>1. \A j \in Inos : P3[j] = IF j = i /\ d # e /\ K[i] = "dir" THEN e ELSE P[j]
    BY <1>2, <1>3, <1>4, <1>5, ZenonT(30)
  <2>2. \A j \in Inos : L3[j] = IF d = e \/ K[i] # "dir" \/ j \notin {d, e} THEN L[j]
                                ELSE IF j = d THEN L[j] - 1 ELSE L[j] + 1
    BY <1>2, <1>3, <1>4, <1>5, SMTT(60), Z3T(60)
  <2> HIDE DEF P3, L3
  <2> QED
    BY <2>1, <2>2, ZenonT(30) DEF Relinked
<1>7. P3 \in [Inos -> Nat] /\ L3 \in [Inos -> Nat]
  BY <1>2, <1>6, NamespaceAssumption, SMTT(60), Z3T(60) DEF Relinked
<1>8. \A j \in Inos : j # w => P3[j] = P2[j] /\ L3[j] = L2[j]
  BY ZenonT(30)
<1> HIDE DEF P3, L3
<1>9. TreeOK(K, P3, L3, G) /\ \A j \in Inos : L3[j] <= mm + 1
  BY <1>0, <1>6, TreeMove, ZenonT(30)
<1>10. y \in Entry /\ y # None /\ y.ino = w /\ y.dir = FALSE
  BY <1>0, NewEntry, ZenonT(30)
<1>11. G \in [Inos -> Page] /\ G[d][n] = None /\ H = SetEntry(G, d, n, y)
  BY <1>1, <1>2, <1>10, EntriesCommute, SMTT(60), Z3T(60)
<1> HIDE DEF F, G, H
<1>12. CreateEdit(K, P3, L3, G, K1, P2, L2, H, d, n, w, y.dir, y)
  BY <1>0, <1>2, <1>3, <1>4, <1>5, <1>7, <1>8, <1>10, <1>11, SMTT(60), Z3T(60) DEF CreateEdit
<1>13. TreeOK(K1, P2, L2, H)
  <2>2. TreeOK(K, P3, L3, G) /\ y \in Entry /\ y.dir \in BOOLEAN
    BY <1>9, <1>10, ZenonT(30)
  <2> QED
    BY <1>2, <1>7, <1>11, <1>12, <2>2, TreeCreate, SMTT(60), Z3T(60) DEF TreeTyped
<1> QED
  BY <1>3, <1>4, <1>5, <1>8, <1>9, <1>13, SMTT(60), Z3T(60) DEF H

LEMMA WhiteoutHandled ==
  ASSUME NEW mm \in Nat, Good(slot, ents, bits, gens, mm), gens < MaxGen, NEW d \in Inos, NEW n \in Names,
         NEW e \in Inos, NEW m \in Names, NEW w \in Inos, MayRename(d, n, e, m),
         At(e, m).dir => dirIsEmpty(slot, ents, At(e, m).ino), w \notin bits \/ w \in Retired(e, m)
  PROVE  Handled(renameWhiteout(d, n, e, m, w, FALSE), gens + 1, mm + 1)
<1> DEFINE K == KindOf(slot)
           E == EntOf(slot, ents)
           x == ents[slot[d].gen][n]
           y == [ino |-> w, dir |-> FALSE]
           t == removeRenameTarget(Begin("rename"), e, m, Entries(slot, ents, e)[m].ino)
           a == journalInodeFull(writeThroughFreshInodeSlot(AllocInode(t, w, "file", d, 0), w), w)
           r == journalDirUpdate(journalDirUpdate([a EXCEPT !.ents[a.slot[d].gen][n] = y], d, n, None), d, n, y)
           q == addDirEntry(r, e, m, x, FALSE)
           v == journalDirUpdate(q, e, m, x)
           i == x.ino
           F == SetEntry(E, e, m, None)
           G == SetEntry(F, d, n, y)
           H == SetEntry(G, e, m, x)
<1>1. x = At(d, n) /\ bits \in SUBSET Inos /\ (w \in bits <=> K[w] # "none")
  BY GoodAt, SMTT(60), Z3T(60) DEF MayRename
<1>2. Ready(t, K, E, d, n, e, m, x, mm)
  BY <1>1, RenameReady, ZenonT(30)
<1>3. renameWhiteout(d, n, e, m, w, FALSE) = finishCrossDirMove(v, d, e, i)
  BY Zenon DEF renameWhiteout
<1>y. y = [ino |-> w, dir |-> FALSE] /\ i = x.ino
  BY ZenonT(30)
<1> HIDE DEF K, E, x, t, i, y
<1>4. PICK K2, P2, L2, B2 :
        /\ Whole(t, K2, P2, L2, F, B2, gens, mm) /\ Movable(K2, F, d, n, e, m, x)
        /\ \A j \in Inos : K2[j] = IF j \in Retired(e, m) THEN "none" ELSE K[j]
  BY <1>2, ZenonT(30) DEF Ready
<1> HIDE DEF F
<1>w. K2[w] = "none"
  BY <1>1, <1>4, ZenonT(30)
<1>5. F[d][n] # None /\ F[d][n] = x /\ K2[e] = "dir"
  BY <1>4, ZenonT(30) DEF Movable
<1>6. /\ K2[d] = "dir" /\ x \in Entry /\ x.ino \in Inos /\ i \in Inos
      /\ K2[i] = (IF x.dir THEN "dir" ELSE "file") /\ (x.dir => L2[d] >= 3)
  <2>1. Whole(t, K2, P2, L2, F, B2, gens, mm) /\ F[d][n] # None
    BY <1>4, <1>5, ZenonT(30)
  <2>2. Leads(K2, L2, F, d, n)
    BY <2>1, WholeLeads, ZenonT(30)
  <2> QED
    BY <1>5, <1>y, <2>2, ZenonT(30) DEF Leads
<1>7. /\ View(t, K2, P2, L2, F, B2, gens) /\ B2 = {j \in Inos : K2[j] # "none"}
      /\ K2 \in [Inos -> Kinds] /\ P2 \in [Inos -> Nat] /\ L2 \in [Inos -> Nat]
  BY <1>4, ViewIs, ZenonT(30) DEF Whole
<1> DEFINE K3 == [K2 EXCEPT ![w] = "file"]
           P3 == [P2 EXCEPT ![w] = 0]
           L3 == [L2 EXCEPT ![w] = 1]
           B3 == B2 \cup {w}
<1>8. View(r, K3, P3, L3, G, B3, gens + 1)
  <2>1. a = journalInodeFull(writeThroughFreshInodeSlot(AllocInode(t, w, "file", d, 0), w), w)
    BY ZenonT(30)
  <2> HIDE DEF a
  <2> QED
    BY <1>y, <1>w, <1>1, <1>5, <1>6, <1>7, <2>1, WhiteoutMade, ZenonT(30)
<1>9. /\ i # w /\ d # w /\ e # w
      /\ K3[w] = "file" /\ L3[w] = 1 /\ \A j \in Inos : j # w => K3[j] = K2[j] /\ L3[j] = L2[j]
      /\ B3 = {j \in Inos : K3[j] # "none"}
  BY <1>w, <1>5, <1>6, <1>7, ZenonT(30)
<1>10. WhiteEdit(K2, P2, L2, K3, P3, L3, w, y, x, i)
  BY <1>y, <1>w, ZenonT(30) DEF WhiteEdit
<1> HIDE DEF K3, P3, L3, B3, r, G
<1>11. View(q, K3, P3, L3, H, B3, gens + 1)
  BY <1>1, <1>5, <1>6, <1>8, <1>9, ViewAdd, ZenonT(30)
<1> HIDE DEF q, H
<1>12. View(v, K3, P3, L3, H, B3, gens + 1)
  BY <1>1, <1>6, <1>11, ViewEntryRecord, ZenonT(30)
<1> HIDE DEF v
<1>13. PICK P4, L4 : /\ View(finishCrossDirMove(v, d, e, i), K3, P4, L4, H, B3, gens + 1)
                     /\ Relinked(K3, P3, L3, P4, L4, d, e, i)
  <2>3. Moved(finishCrossDirMove(v, d, e, i), K3, P3, L3, H, B3, gens + 1, d, e, i)
    BY <1>1, <1>6, <1>7, <1>9, <1>12, ViewMoved, SMTT(60), Z3T(60)
  <2> QED
    BY <2>3, ZenonT(30) DEF Moved, Relinked
<1>15. Whole(finishCrossDirMove(v, d, e, i), K3, P4, L4, H, B3, gens + 1, mm + 1)
  BY <1>4, <1>9, <1>10, <1>13, TreeWhiteout, ZenonT(30) DEF Whole, H, G
<1> QED
  BY <1>3, <1>15, WholeHandled, ZenonT(30)
=============================================================================
