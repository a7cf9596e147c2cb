--------------------------- MODULE NamespaceTrees ---------------------------
(***************************************************************************)
(* The directory operations keep the file system a tree, for any number of *)
(* inodes, names and calls, as long as no crash has come: entries lead to  *)
(* inodes of their type, parent pointers lead back, link counts are exact, *)
(* every inode has a name, and the inode bitmap has exactly those.         *)
(*                                                                         *)
(* The argument has two layers.  TreeOK is about entries, kinds, parents   *)
(* and link counts as plain functions, and every operation is one or more  *)
(* of four edits that keep it: a new entry for a new inode, one for an old *)
(* file, the removal of an entry, and the exchange of two entries (a       *)
(* rename exchanges an entry with none).  The second layer says which      *)
(* edits of the tree the handlers make on inode slots and trie pages, and  *)
(* what the steps they leave behind will do to the bitmap.  It is applied  *)
(* to each handler in NamespaceHandlers, and to the steps of the calls in  *)
(* NamespaceProofs.                                                        *)
(***************************************************************************)
EXTENDS Namespace, FiniteSetTheorems, TLAPS

Kinds == {"none", "dir", "file"}
Entry == [ino : Inos \cup {0}, dir : BOOLEAN]
Page  == [Names -> Entry]

-----------------------------------------------------------------------------
(* Trees                                                                   *)

(* Every directory is below the root: a set with the root and, with a      *)
(* directory, its subdirectories, has them all.                            *)
ClosedDown(E, S) == \A d \in S, n \in Names : E[d][n].dir => E[d][n].ino \in S

Connected(K, E) ==
  \A S \in SUBSET Inos :
    ROOT \in S /\ ClosedDown(E, S) => \A i \in Inos : K[i] = "dir" => i \in S

LinkSet(E, i) == {p \in Inos \X Names : E[p[1]][p[2]].ino = i}
DirSet(E, d)  == {n \in Names : E[d][n].dir}

(* An entry is in a directory and leads to an inode of its type.           *)
Resolved(K, E) ==
  \A d \in Inos, n \in Names : E[d][n] # None =>
    /\ K[d] = "dir" /\ E[d][n].ino \in Inos \ {ROOT}
    /\ K[E[d][n].ino] = IF E[d][n].dir THEN "dir" ELSE "file"

(* A directory has one entry, in its parent.                               *)
Parented(P, E) ==
  \A d \in Inos, n \in Names : E[d][n].dir =>
    P[E[d][n].ino] = d /\ \A m \in Names : E[d][m].ino = E[d][n].ino => m = n

Counted(K, L, E) ==
  \A i \in Inos :
    /\ K[i] = "file" => L[i] # 0 /\ L[i] = Cardinality(LinkSet(E, i))
    /\ K[i] = "dir" => L[i] = 2 + Cardinality(DirSet(E, i))

TreeOK(K, P, L, E) ==
  K[ROOT] = "dir" /\ Resolved(K, E) /\ Parented(P, E) /\ Counted(K, L, E) /\ Connected(K, E)

TreeTyped(K, P, L, E) ==
  K \in [Inos -> Kinds] /\ P \in [Inos -> Nat] /\ L \in [Inos -> Nat] /\ E \in [Inos -> Page]

LEMMA RootIn == ROOT \in Inos /\ ROOT # 0 /\ 0 \notin Inos
  BY NamespaceAssumption, ZenonT(30)

LEMMA NoneIs == None \in Entry /\ None.ino = 0 /\ None.dir = FALSE
  BY ZenonT(30) DEF None, Entry

LEMMA SetsFinite ==
  ASSUME NEW E, NEW i
  PROVE  /\ IsFiniteSet(LinkSet(E, i)) /\ Cardinality(LinkSet(E, i)) \in Nat
         /\ IsFiniteSet(DirSet(E, i)) /\ Cardinality(DirSet(E, i)) \in Nat
BY FS_CardinalityType, FS_Subset, NamespaceAssumption, FS_Product, ZenonT(30) DEF LinkSet, DirSet

(* The entry (d, n) becomes x.                                             *)
SetEntry(E, d, n, x) == [E EXCEPT ![d] = [E[d] EXCEPT ![n] = x]]

LEMMA EntrySet ==
  ASSUME NEW E \in [Inos -> Page], NEW d \in Inos, NEW n \in Names, NEW x \in Entry
  PROVE  /\ SetEntry(E, d, n, x) \in [Inos -> Page]
         /\ SetEntry(E, d, n, x)[d][n] = x
         /\ \A c \in Inos, k \in Names : c # d \/ k # n => SetEntry(E, d, n, x)[c][k] = E[c][k]
         /\ \A c \in Inos : c # d => SetEntry(E, d, n, x)[c] = E[c]
  BY ZenonT(30) DEF SetEntry, Page

(* What a changed entry does to the counts.                                *)
LEMMA LinkSetSet ==
  ASSUME NEW E \in [Inos -> Page], NEW d \in Inos, NEW n \in Names, NEW x \in Entry, NEW i \in Inos
  PROVE  /\ x.ino = i => LinkSet(SetEntry(E, d, n, x), i) = LinkSet(E, i) \cup {<<d, n>>}
         /\ x.ino # i => LinkSet(SetEntry(E, d, n, x), i) = LinkSet(E, i) \ {<<d, n>>}
         /\ <<d, n>> \in LinkSet(E, i) <=> E[d][n].ino = i
<1> DEFINE F == SetEntry(E, d, n, x)
<1> HIDE DEF F
<1> QED
  BY EntrySet, SMTT(60), Z3T(60) DEF F, LinkSet

LEMMA DirSetSet ==
  ASSUME NEW E \in [Inos -> Page], NEW d \in Inos, NEW n \in Names, NEW x \in Entry
  PROVE  /\ x.dir => DirSet(SetEntry(E, d, n, x), d) = DirSet(E, d) \cup {n}
         /\ ~x.dir => DirSet(SetEntry(E, d, n, x), d) = DirSet(E, d) \ {n}
         /\ \A c \in Inos : c # d => DirSet(SetEntry(E, d, n, x), c) = DirSet(E, c)
         /\ n \in DirSet(E, d) <=> E[d][n].dir
  BY EntrySet, SMTT(60), Z3T(60) DEF DirSet

LEMMA OneMore ==
  ASSUME NEW S, NEW x, IsFiniteSet(S)
  PROVE  /\ Cardinality(S) \in Nat
         /\ Cardinality(S \cup {x}) = Cardinality(S) + (IF x \in S THEN 0 ELSE 1)
         /\ Cardinality(S \ {x}) = Cardinality(S) - (IF x \in S THEN 1 ELSE 0)
BY FS_CardinalityType, FS_AddElement, FS_RemoveElement, SMTT(60), Z3T(60)

LEMMA CountChange ==
  ASSUME NEW S, NEW T, NEW x, NEW was, NEW is, IsFiniteSet(S),
         x \in S <=> was, is => T = S \cup {x}, ~is => T = S \ {x}
  PROVE  Cardinality(T) + (IF was THEN 1 ELSE 0) = Cardinality(S) + (IF is THEN 1 ELSE 0)
<1>1. /\ Cardinality(S) \in Nat
      /\ Cardinality(S \cup {x}) = Cardinality(S) + (IF x \in S THEN 0 ELSE 1)
      /\ Cardinality(S \ {x}) = Cardinality(S) - (IF x \in S THEN 1 ELSE 0)
  BY OneMore, Zenon
<1>2. CASE is
  <2>1. T = S \cup {x}
    BY <1>2, ZenonT(30)
  <2> QED
    BY <1>1, <1>2, <2>1, SMTT(60), Z3T(60)
<1>3. CASE ~is
  <2>1. T = S \ {x}
    BY <1>3, ZenonT(30)
  <2> QED
    BY <1>1, <1>3, <2>1, SMTT(60), Z3T(60)
<1> QED
  BY <1>2, <1>3, ZenonT(30)

(* As numbers.                                                             *)
LEMMA CountsSet ==
  ASSUME NEW E \in [Inos -> Page], NEW d \in Inos, NEW n \in Names, NEW x \in Entry, NEW i \in Inos
  PROVE  /\ Cardinality(LinkSet(SetEntry(E, d, n, x), i)) + (IF E[d][n].ino = i THEN 1 ELSE 0)
              = Cardinality(LinkSet(E, i)) + (IF x.ino = i THEN 1 ELSE 0)
         /\ Cardinality(DirSet(SetEntry(E, d, n, x), d)) + (IF E[d][n].dir THEN 1 ELSE 0)
              = Cardinality(DirSet(E, d)) + (IF x.dir THEN 1 ELSE 0)
         /\ i # d => DirSet(SetEntry(E, d, n, x), i) = DirSet(E, i)
<1> DEFINE F == SetEntry(E, d, n, x)
<1>1. /\ IsFiniteSet(LinkSet(E, i)) /\ Cardinality(LinkSet(E, i)) \in Nat
      /\ IsFiniteSet(DirSet(E, d)) /\ Cardinality(DirSet(E, d)) \in Nat
  BY SetsFinite, ZenonT(30)
<1>2. /\ x.ino = i => LinkSet(F, i) = LinkSet(E, i) \cup {<<d, n>>}
      /\ x.ino # i => LinkSet(F, i) = LinkSet(E, i) \ {<<d, n>>}
      /\ <<d, n>> \in LinkSet(E, i) <=> E[d][n].ino = i
  BY LinkSetSet, Zenon
<1>3. /\ x.dir => DirSet(F, d) = DirSet(E, d) \cup {n}
      /\ ~x.dir => DirSet(F, d) = DirSet(E, d) \ {n}
      /\ n \in DirSet(E, d) <=> E[d][n].dir
      /\ i # d => DirSet(F, i) = DirSet(E, i)
  BY DirSetSet, SMTT(60), Z3T(60)
<1>4. Cardinality(LinkSet(F, i)) + (IF E[d][n].ino = i THEN 1 ELSE 0)
        = Cardinality(LinkSet(E, i)) + (IF x.ino = i THEN 1 ELSE 0)
  BY <1>1, <1>2, CountChange, Zenon
<1> QED
  BY <1>1, <1>3, <1>4, CountChange, ZenonT(30)

-----------------------------------------------------------------------------
(* The four edits of a tree                                                *)

(* An inode no entry leads to, and a file, have no entries of their own.   *)
LEMMA OutsideTree ==
  ASSUME NEW K, NEW P, NEW L, NEW E, TreeTyped(K, P, L, E), TreeOK(K, P, L, E)
  PROVE  /\ \A i \in Inos : K[i] = "none" => \A c \in Inos, k \in Names : E[c][k].ino # i
         /\ \A i \in Inos : K[i] # "dir" => \A k \in Names : E[i][k] = None
         /\ \A c \in Inos, k \in Names : E[c][k] \in Entry /\ (E[c][k] # None => E[c][k].ino \in Inos)
         /\ \A c \in Inos, k \in Names : E[c][k].dir => E[c][k] # None
         /\ \A c \in Inos, k \in Names : E[c][k].ino # ROOT
<1>1. \A c \in Inos, k \in Names : E[c][k] \in Entry
  BY ZenonT(30) DEF TreeTyped, Page
<1>2. \A c \in Inos, k \in Names : E[c][k] # None =>
        /\ K[c] = "dir" /\ E[c][k].ino \in Inos /\ E[c][k].ino # ROOT
        /\ K[E[c][k].ino] # "none"
  BY ZenonT(30) DEF TreeOK, Resolved
<1>4. \A i \in Inos : i # 0 /\ None.ino # i /\ None.ino # ROOT
  BY NoneIs, RootIn, Zenon
<1>5. \A i \in Inos : K[i] = "none" => \A c \in Inos, k \in Names : E[c][k].ino # i
  BY <1>2, <1>4, Zenon
<1> QED
  BY <1>1, <1>2, <1>4, <1>5, NoneIs, ZenonT(30)

LEMMA NewEntry ==
  ASSUME NEW i \in Inos, NEW b \in BOOLEAN
  PROVE  /\ [ino |-> i, dir |-> b] \in Entry /\ [ino |-> i, dir |-> b] # None
         /\ [ino |-> i, dir |-> b].ino = i /\ [ino |-> i, dir |-> b].dir = b
  BY RootIn, ZenonT(30) DEF Entry, None

(* A new inode with its first entry.                                       *)
CreateEdit(K, P, L, E, K2, P2, L2, F, d, n, i, b, x) ==
  /\ x # None /\ x.ino = i /\ x.dir = b
  /\ K[d] = "dir" /\ E[d][n] = None /\ K[i] = "none"
  /\ K2[i] = (IF b THEN "dir" ELSE "file")
  /\ \A j \in Inos : j # i => K2[j] = K[j] /\ P2[j] = P[j]
  /\ (b => P2[i] = d) /\ L2[i] = (IF b THEN 2 ELSE 1)
  /\ \A j \in Inos : j # i => L2[j] = L[j] + (IF j = d /\ b THEN 1 ELSE 0)
  /\ F = SetEntry(E, d, n, x)

LEMMA TreeCreate ==
  ASSUME NEW K, NEW P, NEW L, NEW E, NEW K2, NEW P2, NEW L2, NEW F,
         NEW d \in Inos, NEW n \in Names, NEW i \in Inos, NEW b \in BOOLEAN, NEW x \in Entry,
         TreeTyped(K, P, L, E), TreeOK(K, P, L, E), CreateEdit(K, P, L, E, K2, P2, L2, F, d, n, i, b, x)
  PROVE  TreeOK(K2, P2, L2, F)
<1> SUFFICES ASSUME x # None /\ x.ino = i /\ x.dir = b,
                    K[d] = "dir" /\ E[d][n] = None /\ K[i] = "none",
                    K2[i] = (IF b THEN "dir" ELSE "file"),
                    \A j \in Inos : j # i => K2[j] = K[j] /\ P2[j] = P[j],
                    (b => P2[i] = d) /\ L2[i] = (IF b THEN 2 ELSE 1),
                    \A j \in Inos : j # i => L2[j] = L[j] + (IF j = d /\ b THEN 1 ELSE 0),
                    F = SetEntry(E, d, n, x)
             PROVE  TreeOK(K2, P2, L2, F)
  BY ZenonT(30) DEF CreateEdit
<1>1. x \in Entry /\ x # None /\ x.ino = i /\ x.dir = b
  BY ZenonT(30)
<1>2. E \in [Inos -> Page] /\ L \in [Inos -> Nat]
  BY ZenonT(30) DEF TreeTyped
<1>3. /\ F[d][n] = x
      /\ \A c \in Inos, k \in Names : c # d \/ k # n => F[c][k] = E[c][k]
  BY <1>1, <1>2, EntrySet, SMTT(60), Z3T(60)
<1>4. /\ \A c \in Inos, k \in Names : E[c][k].ino # i
      /\ \A k \in Names : E[i][k] = None
      /\ \A c \in Inos, k \in Names : E[c][k] # None => E[c][k].ino \in Inos
      /\ \A c \in Inos, k \in Names : E[c][k].dir => E[c][k] # None
  BY OutsideTree, SMTT(60), Z3T(60)
<1>5. K[ROOT] = "dir" /\ i # ROOT /\ i # d /\ K2[ROOT] = "dir" /\ K2[d] = "dir"
  BY RootIn, ZenonT(30) DEF TreeOK
<1>6. Resolved(K2, F)
  <2> SUFFICES ASSUME NEW c \in Inos, NEW k \in Names, F[c][k] # None
               PROVE  /\ K2[c] = "dir" /\ F[c][k].ino \in Inos \ {ROOT}
                      /\ K2[F[c][k].ino] = IF F[c][k].dir THEN "dir" ELSE "file"
    BY ZenonT(30) DEF Resolved
  <2>1. CASE c = d /\ k = n
    BY <1>1, <1>3, <1>5, <2>1, SMTT(60), Z3T(60)
  <2>2. CASE ~(c = d /\ k = n)
    <3>1. F[c][k] = E[c][k] /\ E[c][k] # None
      BY <1>3, <2>2, ZenonT(30)
    <3>2. /\ K[c] = "dir" /\ E[c][k].ino \in Inos \ {ROOT}
          /\ K[E[c][k].ino] = IF E[c][k].dir THEN "dir" ELSE "file"
      BY <3>1, SMTT(60), Z3T(60) DEF TreeOK, Resolved
    <3>3. K2[c] = "dir" /\ K2[E[c][k].ino] = K[E[c][k].ino]
      BY <1>4, <3>2, ZenonT(30)
    <3> QED
      BY <3>1, <3>2, <3>3, ZenonT(30)
  <2> QED
    BY <2>1, <2>2, ZenonT(30)
<1>7. Parented(P2, F)
  <2> SUFFICES ASSUME NEW c \in Inos, NEW k \in Names, F[c][k].dir
               PROVE  P2[F[c][k].ino] = c /\ \A m \in Names : F[c][m].ino = F[c][k].ino => m = k
    BY ZenonT(30) DEF Parented
  <2>1. CASE c = d /\ k = n
    BY <1>1, <1>3, <1>4, <2>1, SMTT(60), Z3T(60)
  <2>2. CASE ~(c = d /\ k = n)
    BY <1>1, <1>3, <1>4, <2>2, SMTT(60), Z3T(60) DEF TreeOK, Parented
  <2> QED
    BY <2>1, <2>2, ZenonT(30)
<1>8. Counted(K2, L2, F)
  <2> SUFFICES ASSUME NEW j \in Inos
               PROVE  /\ K2[j] = "file" => L2[j] # 0 /\ L2[j] = Cardinality(LinkSet(F, j))
                      /\ K2[j] = "dir" => L2[j] = 2 + Cardinality(DirSet(F, j))
    BY ZenonT(30) DEF Counted
  <2>1. /\ Cardinality(LinkSet(F, j)) + (IF E[d][n].ino = j THEN 1 ELSE 0)
             = Cardinality(LinkSet(E, j)) + (IF x.ino = j THEN 1 ELSE 0)
        /\ Cardinality(DirSet(F, d)) + (IF E[d][n].dir THEN 1 ELSE 0)
             = Cardinality(DirSet(E, d)) + (IF x.dir THEN 1 ELSE 0)
        /\ j # d => DirSet(F, j) = DirSet(E, j)
    BY <1>1, <1>2, CountsSet, SMTT(60), Z3T(60)
  <2>2. /\ Cardinality(LinkSet(F, j)) \in Nat /\ Cardinality(LinkSet(E, j)) \in Nat
        /\ Cardinality(DirSet(F, d)) \in Nat /\ Cardinality(DirSet(E, d)) \in Nat
    BY SetsFinite, ZenonT(30)
  <2>3. E[d][n].ino # j /\ ~E[d][n].dir
    BY NoneIs, RootIn, Zenon
  <2>4. Cardinality(LinkSet(F, j)) = Cardinality(LinkSet(E, j)) + (IF i = j THEN 1 ELSE 0)
    BY <1>1, <2>1, <2>2, <2>3, SMTT(60), Z3T(60)
  <2>6. CASE j = i
    <3>2. Cardinality(LinkSet(E, j)) = 0 /\ Cardinality(DirSet(E, j)) = 0
      BY <1>4, <2>6, FS_EmptySet, NoneIs, ZenonT(30) DEF LinkSet, DirSet
    <3> QED
      BY <1>5, <2>1, <2>4, <2>6, <3>2, SMTT(60), Z3T(60)
  <2>7. CASE j # i
    <3>1. /\ K2[j] = K[j] /\ L2[j] = L[j] + (IF j = d /\ b THEN 1 ELSE 0) /\ L[j] \in Nat
      BY <1>2, <2>7, ZenonT(30)
    <3>2. /\ K[j] = "file" => L[j] # 0 /\ L[j] = Cardinality(LinkSet(E, j))
          /\ K[j] = "dir" => L[j] = 2 + Cardinality(DirSet(E, j))
      BY ZenonT(30) DEF TreeOK, Counted
    <3>3. CASE j = d
      BY <1>1, <2>1, <2>2, <2>3, <3>1, <3>2, <3>3, SMTT(60), Z3T(60)
    <3>4. CASE j # d
      BY <2>1, <2>2, <2>4, <2>7, <3>1, <3>2, <3>4, SMTT(60), Z3T(60)
    <3> QED
      BY <3>3, <3>4, ZenonT(30)
  <2> QED
    BY <2>6, <2>7, ZenonT(30)
<1>9. Connected(K2, F)
  <2> SUFFICES ASSUME NEW S \in SUBSET Inos, ROOT \in S, ClosedDown(F, S),
                      NEW j \in Inos, K2[j] = "dir"
               PROVE  j \in S
    BY ZenonT(30) DEF Connected
  <2>1. ClosedDown(E, S)
    <3> SUFFICES ASSUME NEW c \in S, NEW k \in Names, E[c][k].dir PROVE E[c][k].ino \in S
      BY ZenonT(30) DEF ClosedDown
    <3> QED
      BY <1>3, NoneIs, SMTT(60), Z3T(60) DEF ClosedDown
  <2>2. \A c \in Inos : K[c] = "dir" => c \in S
    BY <2>1, ZenonT(30) DEF TreeOK, Connected
  <2>3. CASE j = i
    <3>1. b /\ d \in S
      BY <2>2, <2>3, ZenonT(30)
    <3>2. F[d][n].dir /\ F[d][n].ino = j
      BY <1>3, <2>3, <3>1, Zenon
    <3> QED
      BY <3>1, <3>2, Zenon DEF ClosedDown
  <2>4. CASE j # i
    BY <2>2, <2>4, ZenonT(30)
  <2> QED
    BY <2>3, <2>4, ZenonT(30)
<1> QED
  BY <1>5, <1>6, <1>7, <1>8, <1>9, ZenonT(30) DEF TreeOK

(* One more entry for a file.                                              *)
LinkEdit(K, P, L, E, L2, F, d, n, i, x) ==
  /\ x # None /\ x.ino = i /\ ~x.dir
  /\ K[d] = "dir" /\ E[d][n] = None /\ K[i] = "file"
  /\ \A j \in Inos : L2[j] = L[j] + (IF j = i THEN 1 ELSE 0)
  /\ F = SetEntry(E, d, n, x)

LEMMA TreeLink ==
  ASSUME NEW K, NEW P, NEW L, NEW E, NEW L2, NEW F,
         NEW d \in Inos, NEW n \in Names, NEW i \in Inos, NEW x \in Entry,
         TreeTyped(K, P, L, E), TreeOK(K, P, L, E), LinkEdit(K, P, L, E, L2, F, d, n, i, x)
  PROVE  TreeOK(K, P, L2, F)
<1> SUFFICES ASSUME x # None /\ x.ino = i /\ ~x.dir,
                    K[d] = "dir" /\ E[d][n] = None /\ K[i] = "file",
                    \A j \in Inos : L2[j] = L[j] + (IF j = i THEN 1 ELSE 0),
                    F = SetEntry(E, d, n, x)
             PROVE  TreeOK(K, P, L2, F)
  BY ZenonT(30) DEF LinkEdit
<1>2. E \in [Inos -> Page] /\ L \in [Inos -> Nat]
  BY ZenonT(30) DEF TreeTyped
<1>3. /\ F[d][n] = x
      /\ \A c \in Inos, k \in Names : c # d \/ k # n => F[c][k] = E[c][k]
  BY <1>2, EntrySet, SMTT(60), Z3T(60)
<1>4. K[ROOT] = "dir" /\ i # ROOT /\ i # d
  BY RootIn, ZenonT(30) DEF TreeOK
<1>5. Resolved(K, F)
  <2> SUFFICES ASSUME NEW c \in Inos, NEW k \in Names, F[c][k] # None
               PROVE  /\ K[c] = "dir" /\ F[c][k].ino \in Inos \ {ROOT}
                      /\ K[F[c][k].ino] = IF F[c][k].dir THEN "dir" ELSE "file"
    BY ZenonT(30) DEF Resolved
  <2>1. CASE c = d /\ k = n
    BY <1>3, <1>4, <2>1, ZenonT(30)
  <2>2. CASE ~(c = d /\ k = n)
    BY <1>3, <2>2, SMTT(60), Z3T(60) DEF TreeOK, Resolved
  <2> QED
    BY <2>1, <2>2, ZenonT(30)
<1>6. Parented(P, F)
  <2> SUFFICES ASSUME NEW c \in Inos, NEW k \in Names, F[c][k].dir
               PROVE  P[F[c][k].ino] = c /\ \A m \in Names : F[c][m].ino = F[c][k].ino => m = k
    BY ZenonT(30) DEF Parented
  <2> QED
    BY <1>3, NoneIs, SMTT(60), Z3T(60) DEF TreeOK, Parented, Resolved
<1>7. Counted(K, L2, F)
  <2> SUFFICES ASSUME NEW j \in Inos
               PROVE  /\ K[j] = "file" => L2[j] # 0 /\ L2[j] = Cardinality(LinkSet(F, j))
                      /\ K[j] = "dir" => L2[j] = 2 + Cardinality(DirSet(F, j))
    BY ZenonT(30) DEF Counted
  <2> QED
    BY <1>2, NoneIs, RootIn, SetsFinite, CountsSet, SMTT(60), Z3T(60) DEF TreeOK, Counted
<1>8. Connected(K, F)
  <2> SUFFICES ASSUME NEW S \in SUBSET Inos, ROOT \in S, ClosedDown(F, S),
                      NEW j \in Inos, K[j] = "dir"
               PROVE  j \in S
    BY ZenonT(30) DEF Connected
  <2>1. ClosedDown(E, S)
    <3> SUFFICES ASSUME NEW c \in S, NEW k \in Names, E[c][k].dir PROVE E[c][k].ino \in S
      BY ZenonT(30) DEF ClosedDown
    <3>1. ~(c = d /\ k = n)
      BY NoneIs, ZenonT(30)
    <3> QED
      BY <1>3, <3>1, SMTT(60), Z3T(60) DEF ClosedDown
  <2> QED
    BY <2>1, ZenonT(30) DEF TreeOK, Connected
<1> QED
  BY <1>4, <1>5, <1>6, <1>7, <1>8, ZenonT(30) DEF TreeOK

(* A directory has one entry in the whole tree.                            *)
LEMMA DirsUnique ==
  ASSUME NEW K, NEW P, NEW L, NEW E, TreeTyped(K, P, L, E), TreeOK(K, P, L, E),
         NEW c \in Inos, NEW k \in Names, E[c][k].dir,
         NEW d \in Inos, NEW n \in Names, E[d][n].ino = E[c][k].ino
  PROVE  d = c /\ n = k /\ P[E[c][k].ino] = c /\ K[E[c][k].ino] = "dir"
BY NoneIs, OutsideTree, RootIn, SMTT(60), Z3T(60) DEF TreeOK, Parented, Resolved

(* An entry is removed, and with the last one its inode.                   *)
UnlinkEdit(K, P, L, E, K2, P2, L2, F, d, n, i, dead) ==
  /\ E[d][n] # None /\ E[d][n].ino = i
  /\ E[d][n].dir => \A k \in Names : E[i][k] = None
  /\ dead \in BOOLEAN /\ (dead <=> (E[d][n].dir \/ L[i] = 1))
  /\ K2[i] = (IF dead THEN "none" ELSE K[i])
  /\ ~dead => L2[i] = L[i] - 1
  /\ \A j \in Inos : j # i =>
       K2[j] = K[j] /\ P2[j] = P[j] /\ L2[j] = L[j] - (IF j = d /\ E[d][n].dir THEN 1 ELSE 0)
  /\ F = SetEntry(E, d, n, None)

LEMMA TreeUnlink ==
  ASSUME NEW K, NEW P, NEW L, NEW E, NEW K2, NEW P2, NEW L2, NEW F,
         NEW d \in Inos, NEW n \in Names, NEW i \in Inos, NEW dead,
         TreeTyped(K, P, L, E), TreeOK(K, P, L, E), UnlinkEdit(K, P, L, E, K2, P2, L2, F, d, n, i, dead)
  PROVE  TreeOK(K2, P2, L2, F)
<1> SUFFICES ASSUME E[d][n] # None /\ E[d][n].ino = i,
                    E[d][n].dir => \A k \in Names : E[i][k] = None,
                    dead \in BOOLEAN, dead <=> (E[d][n].dir \/ L[i] = 1),
                    K2[i] = (IF dead THEN "none" ELSE K[i]),
                    ~dead => L2[i] = L[i] - 1,
                    \A j \in Inos : j # i =>
                     K2[j] = K[j] /\ P2[j] = P[j] /\ L2[j] = L[j] - (IF j = d /\ E[d][n].dir THEN 1 ELSE 0),
                    F = SetEntry(E, d, n, None)
             PROVE  TreeOK(K2, P2, L2, F)
  BY ZenonT(30) DEF UnlinkEdit
<1>2. E \in [Inos -> Page] /\ L \in [Inos -> Nat] /\ None \in Entry
  BY NoneIs, ZenonT(30) DEF TreeTyped
<1>3. /\ F[d][n] = None
      /\ \A c \in Inos, k \in Names : c # d \/ k # n => F[c][k] = E[c][k]
  BY <1>2, EntrySet, SMTT(60), Z3T(60)
<1>4. K[d] = "dir" /\ K[i] = (IF E[d][n].dir THEN "dir" ELSE "file") /\ i # ROOT /\ i # d
  BY SMTT(60), Z3T(60) DEF TreeOK, Resolved
<1>c. \A j \in Inos : 
        /\ Cardinality(LinkSet(F, j)) + (IF i = j THEN 1 ELSE 0) = Cardinality(LinkSet(E, j))
        /\ Cardinality(DirSet(F, d)) + (IF E[d][n].dir THEN 1 ELSE 0) = Cardinality(DirSet(E, d))
        /\ j # d => DirSet(F, j) = DirSet(E, j)
  <2> TAKE j \in Inos
  <2> QED
    BY <1>2, CountsSet, SetsFinite, NoneIs, RootIn, SMTT(60), Z3T(60)
<1>5. ASSUME dead, NEW c \in Inos, NEW k \in Names PROVE F[c][k].ino # i
  <2>1. CASE E[d][n].dir
    BY <1>3, <2>1, DirsUnique, NoneIs, RootIn, SMTT(60), Z3T(60)
  <2>2. CASE ~E[d][n].dir
    <3>4. LinkSet(F, i) = {}
      BY <1>c, <1>4, <1>5, <2>2, FS_EmptySet, SetsFinite, SMTT(60), Z3T(60) DEF TreeOK, Counted
    <3>5. <<c, k>> \in Inos \X Names /\ <<c, k>>[1] = c /\ <<c, k>>[2] = k
      BY ZenonT(30)
    <3> QED
      BY <3>4, <3>5, SMTT(60), Z3T(60) DEF LinkSet
  <2> QED
    BY <2>1, <2>2, ZenonT(30)
<1>6. \A c \in Inos, k \in Names : F[c][k] # None => F[c][k] = E[c][k] /\ ~(c = d /\ k = n)
  BY <1>3, ZenonT(30)
<1>7. Resolved(K2, F)
  <2> SUFFICES ASSUME NEW c \in Inos, NEW k \in Names, F[c][k] # None
               PROVE  /\ K2[c] = "dir" /\ F[c][k].ino \in Inos \ {ROOT}
                      /\ K2[F[c][k].ino] = IF F[c][k].dir THEN "dir" ELSE "file"
    BY ZenonT(30) DEF Resolved
  <2>1. F[c][k] = E[c][k] /\ E[c][k] # None
    BY <1>6, ZenonT(30)
  <2>2. /\ K[c] = "dir" /\ E[c][k].ino \in Inos \ {ROOT}
        /\ K[E[c][k].ino] = IF E[c][k].dir THEN "dir" ELSE "file"
    BY <2>1, SMTT(60), Z3T(60) DEF TreeOK, Resolved
  <2>3. CASE ~dead
    BY <2>1, <2>2, <2>3, SMTT(60), Z3T(60)
  <2>4. CASE dead
    BY <1>4, <1>5, <2>1, <2>2, <2>4, SMTT(60), Z3T(60)
  <2> QED
    BY <2>3, <2>4, ZenonT(30)
<1>8. Parented(P2, F)
  <2> SUFFICES ASSUME NEW c \in Inos, NEW k \in Names, F[c][k].dir
               PROVE  P2[F[c][k].ino] = c /\ \A m \in Names : F[c][m].ino = F[c][k].ino => m = k
    BY ZenonT(30) DEF Parented
  <2>1. F[c][k] # None /\ F[c][k] = E[c][k] /\ E[c][k].dir
    BY <1>6, NoneIs, Zenon
  <2>2. /\ P[E[c][k].ino] = c /\ K[E[c][k].ino] = "dir" /\ E[c][k].ino \in Inos /\ E[c][k].ino # 0
        /\ \A m \in Names : E[c][m].ino = E[c][k].ino => m = k
    BY <2>1, RootIn, SMTT(60), Z3T(60) DEF TreeOK, Parented, Resolved
  <2>4. ASSUME NEW m \in Names, F[c][m].ino = E[c][k].ino PROVE m = k
    BY <1>6, <2>2, <2>4, NoneIs, SMTT(60), Z3T(60)
  <2> QED
    BY <1>4, <1>5, <2>1, <2>2, <2>4, SMTT(60), Z3T(60)
<1>9. Counted(K2, L2, F)
  <2> SUFFICES ASSUME NEW j \in Inos
               PROVE  /\ K2[j] = "file" => L2[j] # 0 /\ L2[j] = Cardinality(LinkSet(F, j))
                      /\ K2[j] = "dir" => L2[j] = 2 + Cardinality(DirSet(F, j))
    BY ZenonT(30) DEF Counted
  <2>1. /\ Cardinality(LinkSet(F, j)) \in Nat /\ Cardinality(LinkSet(E, j)) \in Nat
        /\ Cardinality(DirSet(F, d)) \in Nat /\ Cardinality(DirSet(E, d)) \in Nat
        /\ Cardinality(DirSet(F, j)) \in Nat /\ L[j] \in Nat
    BY <1>2, SetsFinite, ZenonT(30)
  <2>2. /\ Cardinality(LinkSet(F, j)) + (IF i = j THEN 1 ELSE 0) = Cardinality(LinkSet(E, j))
        /\ Cardinality(DirSet(F, d)) + (IF E[d][n].dir THEN 1 ELSE 0) = Cardinality(DirSet(E, d))
        /\ j # d => DirSet(F, j) = DirSet(E, j)
    BY <1>c, ZenonT(30)
  <2>3. /\ K[j] = "file" => L[j] # 0 /\ L[j] = Cardinality(LinkSet(E, j))
        /\ K[j] = "dir" => L[j] = 2 + Cardinality(DirSet(E, j))
    BY ZenonT(30) DEF TreeOK, Counted
  <2>4. CASE j = i
    BY <1>4, <2>1, <2>2, <2>3, <2>4, SMTT(60), Z3T(60)
  <2>5. CASE j = d
    BY <1>4, <2>1, <2>2, <2>3, <2>5, SMTT(60), Z3T(60)
  <2>6. CASE j # i /\ j # d
    BY <2>1, <2>2, <2>3, <2>6, SMTT(60), Z3T(60)
  <2> QED
    BY <2>4, <2>5, <2>6, ZenonT(30)
<1>10. Connected(K2, F)
  <2> SUFFICES ASSUME NEW S \in SUBSET Inos, ROOT \in S, ClosedDown(F, S),
                      NEW j \in Inos, K2[j] = "dir"
               PROVE  j \in S
    BY ZenonT(30) DEF Connected
  <2>2. ClosedDown(E, S \cup (IF E[d][n].dir THEN {i} ELSE {}))
    <3> SUFFICES ASSUME NEW c \in S \cup (IF E[d][n].dir THEN {i} ELSE {}), NEW k \in Names, E[c][k].dir
                 PROVE  E[c][k].ino \in S \cup (IF E[d][n].dir THEN {i} ELSE {})
      BY ZenonT(30) DEF ClosedDown
    <3>1. CASE c = d /\ k = n
      BY <3>1, ZenonT(30)
    <3>2. CASE ~(c = d /\ k = n)
      BY <1>3, <3>2, NoneIs, SMTT(60), Z3T(60) DEF ClosedDown
    <3> QED
      BY <3>1, <3>2, ZenonT(30)
  <2> QED
    BY <1>4, <2>2, SMTT(60), Z3T(60) DEF TreeOK, Connected
<1> QED
  BY <1>4, <1>7, <1>8, <1>9, <1>10, RootIn, ZenonT(30) DEF TreeOK

(* The directories at and below i.                                         *)
BelowSet(E, i) == {j \in Inos : \A U \in SUBSET Inos : i \in U /\ ClosedDown(E, U) => j \in U}

LEMMA BelowLaws ==
  ASSUME NEW K, NEW E, Resolved(K, E), NEW i \in Inos
  PROVE  /\ i \in BelowSet(E, i) /\ BelowSet(E, i) \subseteq Inos /\ ClosedDown(E, BelowSet(E, i))
         /\ \A U \in SUBSET Inos : i \in U /\ ClosedDown(E, U) => BelowSet(E, i) \subseteq U
<1>1. i \in BelowSet(E, i) /\ BelowSet(E, i) \subseteq Inos
  BY Zenon DEF BelowSet
<1>2. ClosedDown(E, BelowSet(E, i))
  <2> SUFFICES ASSUME NEW c \in BelowSet(E, i), NEW k \in Names, E[c][k].dir
               PROVE  E[c][k].ino \in BelowSet(E, i)
    BY Zenon DEF ClosedDown
  <2>3. ASSUME NEW U \in SUBSET Inos, i \in U, ClosedDown(E, U) PROVE E[c][k].ino \in U
    BY <2>3, ZenonT(30) DEF ClosedDown, BelowSet
  <2> QED
    BY <1>1, <2>3, NoneIs, ZenonT(30) DEF BelowSet, Resolved
<1> QED
  BY <1>1, <1>2, ZenonT(30) DEF BelowSet

(* Fewer entries, fewer directories below.                                 *)
LEMMA BelowShrinks ==
  ASSUME NEW E, NEW F, NEW i \in Inos,
         \A c \in Inos, k \in Names : F[c][k].dir => E[c][k] = F[c][k]
  PROVE  BelowSet(F, i) \subseteq BelowSet(E, i)
BY ZenonT(30) DEF BelowSet, ClosedDown

(* No directory is below itself.                                           *)
LEMMA NotBelow ==
  ASSUME NEW K, NEW P, NEW L, NEW E, TreeTyped(K, P, L, E), TreeOK(K, P, L, E),
         NEW d \in Inos, NEW n \in Names, E[d][n].dir
  PROVE  d \notin BelowSet(E, E[d][n].ino)
<1> DEFINE i == E[d][n].ino
           B == BelowSet(E, i)
<1>1. Resolved(K, E) /\ i \in Inos /\ i # ROOT /\ K[i] = "dir"
  BY NoneIs, Zenon DEF TreeOK, Resolved
<1>2. /\ i \in B /\ B \subseteq Inos /\ ClosedDown(E, B)
      /\ \A U \in SUBSET Inos : i \in U /\ ClosedDown(E, U) => B \subseteq U
  BY <1>1, BelowLaws, SMTT(60), Z3T(60)
<1>3. \A c, a \in Inos, k, q \in Names : E[c][k].dir /\ E[a][q].ino = E[c][k].ino => a = c /\ q = k
  BY DirsUnique, SMTT(60), Z3T(60)
<1>4. \A c \in Inos, k \in Names : E[c][k].dir => E[c][k].ino \in Inos \ {ROOT}
  BY <1>1, NoneIs, Zenon DEF Resolved
<1> SUFFICES ASSUME d \in B PROVE FALSE
  BY ZenonT(30)
<1> HIDE DEF B
<1>6. ASSUME NEW c \in Inos \ B, NEW k \in Names, E[c][k].dir PROVE E[c][k].ino \in Inos \ B
  <2> DEFINE j == E[c][k].ino
  <2> SUFFICES ASSUME j \in B PROVE FALSE
    BY <1>4, <1>6, ZenonT(30)
  <2>2. j # i
    BY <1>3, <1>6, ZenonT(30)
  <2>3. ClosedDown(E, B \ {j})
    <3> SUFFICES ASSUME NEW b \in B \ {j}, NEW q \in Names, E[b][q].dir PROVE E[b][q].ino \in B \ {j}
      BY Zenon DEF ClosedDown
    <3> QED
      BY <1>2, <1>3, <1>6, ZenonT(30) DEF ClosedDown
  <2> QED
    BY <1>2, <2>2, <2>3, Zenon
<1>8. i \in Inos \ B
  BY <1>1, <1>2, <1>4, <1>6, RootIn, ZenonT(30) DEF TreeOK, Connected, ClosedDown
<1> QED
  BY <1>2, <1>8, Zenon

(* Two entries change places; the second may be none.                      *)
SwapEdit(K, P, L, E, P2, L2, F, x, y, d, n, e, m) ==
  /\ E[d][n] = x /\ E[e][m] = y /\ x # None /\ x.ino # y.ino /\ K[e] = "dir"
  /\ x.dir => e \notin BelowSet(E, x.ino)
  /\ y.dir => d \notin BelowSet(E, y.ino)
  /\ (x.dir => P2[x.ino] = e) /\ (y.dir => P2[y.ino] = d)
  /\ \A j \in Inos : ~(x.dir /\ j = x.ino) /\ ~(y.dir /\ j = y.ino) => P2[j] = P[j]
  /\ \A j \in Inos : L2[j] = IF d = e \/ j \notin {d, e} THEN L[j]
                             ELSE IF j = d THEN L[j] - (IF x.dir THEN 1 ELSE 0) + (IF y.dir THEN 1 ELSE 0)
                             ELSE L[j] + (IF x.dir THEN 1 ELSE 0) - (IF y.dir THEN 1 ELSE 0)
  /\ F = SetEntry(SetEntry(E, d, n, y), e, m, x)

(* A count b that has given p and taken q since it was a.                  *)
Traded(a, b, p, q)  == a \in Nat /\ b \in Nat /\ p \in {0, 1} /\ q \in {0, 1} /\ b + p = a + q
Balance(a, b, p, q) == b = a - p + q /\ b = a + q - p
Even(a, b) == b = a

LEMMA GivenAway ==
  ASSUME NEW a, NEW b, NEW p, NEW q, Traded(a, b, p, q)
  PROVE  Balance(a, b, p, q)
BY SMTT(60), Z3T(60) DEF Traded, Balance

LEMMA GivenBack ==
  ASSUME NEW a, NEW b, NEW c, NEW p, NEW q, Traded(a, b, p, q), Traded(b, c, q, p)
  PROVE  Even(a, c)
BY SMTT(60), Z3T(60) DEF Traded, Even

LEMMA TreeSwap ==
  ASSUME NEW K, NEW P, NEW L, NEW E, NEW P2, NEW L2, NEW F, NEW x \in Entry, NEW y \in Entry,
         NEW d \in Inos, NEW n \in Names, NEW e \in Inos, NEW m \in Names,
         TreeTyped(K, P, L, E), TreeOK(K, P, L, E), SwapEdit(K, P, L, E, P2, L2, F, x, y, d, n, e, m)
  PROVE  TreeOK(K, P2, L2, F)
<1> SUFFICES ASSUME E[d][n] = x /\ E[e][m] = y /\ x # None /\ x.ino # y.ino /\ K[e] = "dir",
                    x.dir => e \notin BelowSet(E, x.ino),
                    y.dir => d \notin BelowSet(E, y.ino),
                    (x.dir => P2[x.ino] = e) /\ (y.dir => P2[y.ino] = d),
                    \A j \in Inos : ~(x.dir /\ j = x.ino) /\ ~(y.dir /\ j = y.ino) => P2[j] = P[j],
                    \A j \in Inos : L2[j] = IF d = e \/ j \notin {d, e} THEN L[j]
                                           ELSE IF j = d THEN L[j] - (IF x.dir THEN 1 ELSE 0) + (IF y.dir THEN 1 ELSE 0)
                                           ELSE L[j] + (IF x.dir THEN 1 ELSE 0) - (IF y.dir THEN 1 ELSE 0),
                    F = SetEntry(SetEntry(E, d, n, y), e, m, x)
             PROVE  TreeOK(K, P2, L2, F)
  BY ZenonT(30) DEF SwapEdit
<1> DEFINE G == SetEntry(E, d, n, y)
<1>1. E \in [Inos -> Page] /\ L \in [Inos -> Nat] /\ Resolved(K, E) /\ ~(d = e /\ n = m)
  BY ZenonT(30) DEF TreeTyped, TreeOK
<1>2. /\ G \in [Inos -> Page] /\ G[d][n] = y
      /\ \A c \in Inos, k \in Names : c # d \/ k # n => G[c][k] = E[c][k]
  BY <1>1, EntrySet, SMTT(60), Z3T(60)
<1>3. G[e][m] = y
  BY <1>1, <1>2, ZenonT(30)
<1>c. ASSUME NEW j \in Inos
      PROVE  /\ Cardinality(LinkSet(G, j)) + (IF x.ino = j THEN 1 ELSE 0)
                  = Cardinality(LinkSet(E, j)) + (IF y.ino = j THEN 1 ELSE 0)
             /\ Cardinality(DirSet(G, d)) + (IF x.dir THEN 1 ELSE 0)
                  = Cardinality(DirSet(E, d)) + (IF y.dir THEN 1 ELSE 0)
             /\ j # d => DirSet(G, j) = DirSet(E, j)
  BY <1>1, CountsSet, SMTT(60), Z3T(60)
<1> HIDE DEF G
<1>4. F = SetEntry(G, e, m, x)
  BY ZenonT(30) DEF G
<1>5. /\ F[e][m] = x
      /\ \A c \in Inos, k \in Names : c # e \/ k # m => F[c][k] = G[c][k]
  BY <1>2, <1>4, EntrySet, SMTT(60), Z3T(60)
<1>6. /\ F[d][n] = y
      /\ \A c \in Inos, k \in Names : ~(c = d /\ k = n) /\ ~(c = e /\ k = m) => F[c][k] = E[c][k]
  BY <1>1, <1>2, <1>5, SMTT(60), Z3T(60)
<1>d. ASSUME NEW j \in Inos
      PROVE  /\ Cardinality(LinkSet(F, j)) + (IF y.ino = j THEN 1 ELSE 0)
                  = Cardinality(LinkSet(G, j)) + (IF x.ino = j THEN 1 ELSE 0)
             /\ Cardinality(DirSet(F, e)) + (IF y.dir THEN 1 ELSE 0)
                  = Cardinality(DirSet(G, e)) + (IF x.dir THEN 1 ELSE 0)
             /\ j # e => DirSet(F, j) = DirSet(G, j)
  BY <1>2, <1>3, <1>4, CountsSet, SMTT(60), Z3T(60)
<1>7. /\ K[d] = "dir" /\ x.ino \in Inos \ {ROOT} /\ K[x.ino] = (IF x.dir THEN "dir" ELSE "file")
      /\ y # None => y.ino \in Inos \ {ROOT} /\ K[y.ino] = (IF y.dir THEN "dir" ELSE "file")
  BY <1>1, SMTT(60), Z3T(60) DEF Resolved
<1>8. \A c, a \in Inos, k, q \in Names : E[c][k].dir /\ E[a][q].ino = E[c][k].ino => a = c /\ q = k
  BY DirsUnique, SMTT(60), Z3T(60)
<1>9. Resolved(K, F)
  BY <1>1, <1>5, <1>6, <1>7, SMTT(60), Z3T(60) DEF Resolved
<1>10. Parented(P2, F)
  <2> SUFFICES ASSUME NEW c \in Inos, NEW k \in Names, F[c][k].dir
               PROVE  P2[F[c][k].ino] = c /\ \A q \in Names : F[c][q].ino = F[c][k].ino => q = k
    BY ZenonT(30) DEF Parented
  <2>1. CASE c = d /\ k = n
    <3>1. y.dir /\ F[c][k] = y /\ P2[y.ino] = d
      BY <1>6, <2>1, ZenonT(30)
    <3>2. ASSUME NEW q \in Names, F[d][q].ino = y.ino, q # n PROVE FALSE
      <4>1. ~(d = e /\ q = m)
        BY <1>5, <3>2, SMTT(60), Z3T(60)
      <4>2. E[d][q].ino = E[e][m].ino
        BY <1>6, <3>2, <4>1, SMTT(60), Z3T(60)
      <4> QED
        BY <1>8, <3>1, <4>1, <4>2, SMTT(60), Z3T(60)
    <3> QED
      BY <2>1, <3>1, <3>2, SMTT(60), Z3T(60)
  <2>2. CASE c = e /\ k = m
    <3>1. x.dir /\ F[c][k] = x /\ P2[x.ino] = e
      BY <1>5, <2>2, ZenonT(30)
    <3>2. ASSUME NEW q \in Names, F[e][q].ino = x.ino, q # m PROVE FALSE
      <4>1. ~(e = d /\ q = n)
        BY <1>6, <3>2, SMTT(60), Z3T(60)
      <4>2. E[e][q].ino = E[d][n].ino
        BY <1>6, <3>2, <4>1, SMTT(60), Z3T(60)
      <4> QED
        BY <1>8, <3>1, <4>1, <4>2, SMTT(60), Z3T(60)
    <3> QED
      BY <2>2, <3>1, <3>2, SMTT(60), Z3T(60)
  <2>3. CASE ~(c = d /\ k = n) /\ ~(c = e /\ k = m)
    <3>1. F[c][k] = E[c][k] /\ E[c][k].dir
      BY <1>6, <2>3, SMTT(60), Z3T(60)
    <3>2. E[c][k].ino # x.ino /\ E[c][k].ino # y.ino /\ E[c][k].ino \in Inos
      <4>1. E[c][k].ino \in Inos
        BY <1>1, <3>1, NoneIs, ZenonT(30) DEF Resolved
      <4>2. ASSUME E[c][k].ino = E[d][n].ino PROVE FALSE
        BY <1>8, <2>3, <3>1, <4>2, SMTT(60), Z3T(60)
      <4>3. ASSUME E[c][k].ino = E[e][m].ino PROVE FALSE
        BY <1>8, <2>3, <3>1, <4>3, SMTT(60), Z3T(60)
      <4> QED
        BY <4>1, <4>2, <4>3, ZenonT(30)
    <3>3. P2[E[c][k].ino] = c
      BY <3>1, <3>2, SMTT(60), Z3T(60) DEF TreeOK, Parented
    <3>4. ASSUME NEW q \in Names, F[c][q].ino = E[c][k].ino PROVE q = k
      <4>1. ~(c = d /\ q = n) /\ ~(c = e /\ q = m)
        BY <1>5, <1>6, <3>2, <3>4, SMTT(60), Z3T(60)
      <4>2. E[c][q].ino = E[c][k].ino
        BY <1>6, <3>4, <4>1, SMTT(60), Z3T(60)
      <4> QED
        BY <1>8, <3>1, <4>2, SMTT(60), Z3T(60)
    <3> QED
      BY <3>1, <3>3, <3>4, SMTT(60), Z3T(60)
  <2> QED
    BY <2>1, <2>2, <2>3, ZenonT(30)
<1>11. Counted(K, L2, F)
  <2> SUFFICES ASSUME NEW j \in Inos
               PROVE  /\ K[j] = "file" => L2[j] # 0 /\ L2[j] = Cardinality(LinkSet(F, j))
                      /\ K[j] = "dir" => L2[j] = 2 + Cardinality(DirSet(F, j))
    BY ZenonT(30) DEF Counted
  <2>1. /\ Cardinality(LinkSet(F, j)) \in Nat /\ Cardinality(LinkSet(E, j)) \in Nat
        /\ Cardinality(LinkSet(G, j)) \in Nat /\ L[j] \in Nat
        /\ Cardinality(DirSet(F, d)) \in Nat /\ Cardinality(DirSet(E, d)) \in Nat
        /\ Cardinality(DirSet(G, d)) \in Nat
        /\ Cardinality(DirSet(F, e)) \in Nat /\ Cardinality(DirSet(E, e)) \in Nat
        /\ Cardinality(DirSet(G, e)) \in Nat
    BY <1>1, SetsFinite, ZenonT(30)
  <2>2. /\ K[j] = "file" => L[j] # 0 /\ L[j] = Cardinality(LinkSet(E, j))
        /\ K[j] = "dir" => L[j] = 2 + Cardinality(DirSet(E, j))
    BY ZenonT(30) DEF TreeOK, Counted
  <2>3. Cardinality(LinkSet(F, j)) = Cardinality(LinkSet(E, j))
    BY <1>c, <1>d, <2>1, SMTT(60), Z3T(60)
  <2>4. /\ d = e => Cardinality(DirSet(F, d)) = Cardinality(DirSet(E, d))
        /\ d # e => /\ Cardinality(DirSet(F, d)) = Cardinality(DirSet(E, d)) - (IF x.dir THEN 1 ELSE 0)
                                                                             + (IF y.dir THEN 1 ELSE 0)
                    /\ Cardinality(DirSet(F, e)) = Cardinality(DirSet(E, e)) + (IF x.dir THEN 1 ELSE 0)
                                                                             - (IF y.dir THEN 1 ELSE 0)
    <3> DEFINE p  == IF x.dir THEN 1 ELSE 0
               q  == IF y.dir THEN 1 ELSE 0
               ed == Cardinality(DirSet(E, d))
               gd == Cardinality(DirSet(G, d))
               fd == Cardinality(DirSet(F, d))
               ee == Cardinality(DirSet(E, e))
               ge == Cardinality(DirSet(G, e))
               fe == Cardinality(DirSet(F, e))
    <3>1. p \in {0, 1} /\ q \in {0, 1}
      BY ZenonT(30)
    <3>2. gd + p = ed + q /\ (d # e => ge = ee)
      BY <1>c, ZenonT(30)
    <3>3. fe + q = ge + p /\ (d # e => fd = gd)
      BY <1>d, ZenonT(30)
    <3>4. ed \in Nat /\ gd \in Nat /\ fd \in Nat /\ ee \in Nat /\ ge \in Nat /\ fe \in Nat
      BY <2>1, ZenonT(30)
    <3>5. d = e => fe = fd /\ ge = gd
      BY ZenonT(30)
    <3> HIDE DEF p, q, ed, gd, fd, ee, ge, fe
    <3>6. ASSUME d = e PROVE fd = ed
      <4>1. Traded(ed, gd, p, q) /\ Traded(gd, fd, q, p)
        BY <3>1, <3>2, <3>3, <3>4, <3>5, <3>6, ZenonT(30) DEF Traded
      <4>2. Even(ed, fd)
        BY <4>1, GivenBack, ZenonT(30)
      <4> QED
        BY <4>2, ZenonT(30) DEF Even
    <3>7. ASSUME d # e PROVE fd = ed - p + q /\ fe = ee + p - q
      <4>1. Traded(ed, fd, p, q) /\ Traded(ee, fe, q, p)
        BY <3>1, <3>2, <3>3, <3>4, <3>7, ZenonT(30) DEF Traded
      <4>2. Balance(ed, fd, p, q) /\ Balance(ee, fe, q, p)
        BY <4>1, GivenAway, ZenonT(30)
      <4> QED
        BY <4>2, ZenonT(30) DEF Balance
    <3> QED
      BY <3>6, <3>7, ZenonT(30) DEF p, q, ed, fd, ee, fe
  <2>5. j \notin {d, e} => DirSet(F, j) = DirSet(E, j)
    BY <1>c, <1>d, ZenonT(30)
  <2>6. CASE K[j] = "file"
    BY <1>7, <2>1, <2>2, <2>3, <2>6, ZenonT(30)
  <2>7. CASE K[j] = "dir"
    BY <2>1, <2>2, <2>4, <2>5, <2>7, SMTT(60), Z3T(60)
  <2> QED
    BY <2>6, <2>7, ZenonT(30)
<1>12. Connected(K, F)
  <2> DEFINE X == IF x.dir THEN BelowSet(E, x.ino) ELSE {}
             Y == IF y.dir THEN BelowSet(E, y.ino) ELSE {}
  <2> SUFFICES ASSUME NEW S \in SUBSET Inos, ROOT \in S, ClosedDown(F, S),
                      NEW j \in Inos, K[j] = "dir"
               PROVE  j \in S
    BY ZenonT(30) DEF Connected
  <2>1. /\ X \in SUBSET Inos /\ ClosedDown(E, X) /\ d \notin X /\ e \notin X
        /\ x.dir => x.ino \in X
        /\ \A U \in SUBSET Inos : x.dir /\ x.ino \in U /\ ClosedDown(E, U) => X \subseteq U
    <3>1. CASE x.dir
      <4>1. /\ x.ino \in BelowSet(E, x.ino) /\ BelowSet(E, x.ino) \subseteq Inos /\ ClosedDown(E, BelowSet(E, x.ino))
            /\ \A U \in SUBSET Inos : x.ino \in U /\ ClosedDown(E, U) => BelowSet(E, x.ino) \subseteq U
        BY <1>1, <1>7, BelowLaws, ZenonT(30)
      <4>2. d \notin BelowSet(E, x.ino)
        BY <3>1, NotBelow, ZenonT(30)
      <4> QED
        BY <3>1, <4>1, <4>2, ZenonT(30)
    <3>2. CASE ~x.dir
      BY <3>2, ZenonT(30) DEF ClosedDown
    <3> QED
      BY <3>1, <3>2, ZenonT(30)
  <2>2. /\ Y \in SUBSET Inos /\ ClosedDown(E, Y) /\ d \notin Y /\ e \notin Y
        /\ y.dir => y.ino \in Y
        /\ \A U \in SUBSET Inos : y.dir /\ y.ino \in U /\ ClosedDown(E, U) => Y \subseteq U
    <3>1. CASE y.dir
      <4>0. y.ino \in Inos
        BY <1>7, <3>1, NoneIs, ZenonT(30)
      <4>1. /\ y.ino \in BelowSet(E, y.ino) /\ BelowSet(E, y.ino) \subseteq Inos /\ ClosedDown(E, BelowSet(E, y.ino))
            /\ \A U \in SUBSET Inos : y.ino \in U /\ ClosedDown(E, U) => BelowSet(E, y.ino) \subseteq U
        BY <1>1, <4>0, BelowLaws, ZenonT(30)
      <4>2. e \notin BelowSet(E, y.ino)
        BY <3>1, NotBelow, ZenonT(30)
      <4> QED
        BY <3>1, <4>1, <4>2, ZenonT(30)
    <3>2. CASE ~y.dir
      BY <3>2, ZenonT(30) DEF ClosedDown
    <3> QED
      BY <3>1, <3>2, ZenonT(30)
  <2> HIDE DEF X, Y
  <2>3. ClosedDown(E, S \cup X \cup Y)
    <3> SUFFICES ASSUME NEW c \in S \cup X \cup Y, NEW k \in Names, E[c][k].dir
                 PROVE  E[c][k].ino \in S \cup X \cup Y
      BY Zenon DEF ClosedDown
    <3>1. CASE c \in X \cup Y
      BY <2>1, <2>2, <3>1, Zenon DEF ClosedDown
    <3>2. CASE c \in S
      <4>1. CASE c = d /\ k = n
        BY <2>1, <4>1, ZenonT(30)
      <4>2. CASE c = e /\ k = m
        BY <2>2, <4>2, ZenonT(30)
      <4>3. CASE ~(c = d /\ k = n) /\ ~(c = e /\ k = m)
        <5>1. F[c][k] = E[c][k]
          BY <1>6, <3>2, <4>3, ZenonT(60)
        <5> QED
          BY <3>2, <5>1, ZenonT(30) DEF ClosedDown
      <4> QED
        BY <4>1, <4>2, <4>3, ZenonT(30)
    <3> QED
      BY <3>1, <3>2, Zenon
  <2>4. S \cup X \cup Y \in SUBSET Inos /\ ROOT \in S \cup X \cup Y
    BY <2>1, <2>2, ZenonT(30)
  <2>5. \A i \in Inos : K[i] = "dir" => i \in S \cup X \cup Y
    BY <2>3, <2>4, Zenon DEF TreeOK, Connected
  <2>6. d \in S /\ e \in S
    BY <1>7, <2>1, <2>2, <2>5, Zenon
  <2>7. (x.dir => x.ino \in S) /\ (y.dir => y.ino \in S)
    BY <1>5, <1>6, <2>6, SMTT(60), Z3T(60) DEF ClosedDown
  <2>8. ASSUME NEW B \in SUBSET Inos, ClosedDown(E, B), d \notin B, e \notin B PROVE ClosedDown(E, S \cap B)
    <3> SUFFICES ASSUME NEW c \in S \cap B, NEW k \in Names, E[c][k].dir PROVE E[c][k].ino \in S \cap B
      BY Zenon DEF ClosedDown
    <3>1. c # d /\ c # e /\ c \in Inos
      BY <2>8, Zenon
    <3>2. F[c][k] = E[c][k]
      BY <1>6, <3>1, Zenon
    <3>3. E[c][k].ino \in B
      BY <2>8, Zenon DEF ClosedDown
    <3>4. E[c][k].ino \in S
      BY <3>2, ZenonT(30) DEF ClosedDown
    <3> QED
      BY <3>3, <3>4, Zenon
  <2>9. X \subseteq S
    <3>1. CASE x.dir
      <4>1. S \cap X \in SUBSET Inos /\ x.ino \in S \cap X /\ ClosedDown(E, S \cap X)
        BY <2>1, <2>7, <2>8, <3>1, Zenon
      <4>2. X \subseteq S \cap X
        BY <2>1, <3>1, <4>1, Zenon
      <4> QED
        BY <4>2, Zenon
    <3>2. CASE ~x.dir
      BY <3>2, ZenonT(30) DEF X
    <3> QED
      BY <3>1, <3>2, ZenonT(30)
  <2>10. Y \subseteq S
    <3>1. CASE y.dir
      <4>1. S \cap Y \in SUBSET Inos /\ y.ino \in S \cap Y /\ ClosedDown(E, S \cap Y)
        BY <2>2, <2>7, <2>8, <3>1, Zenon
      <4>2. Y \subseteq S \cap Y
        BY <2>2, <3>1, <4>1, Zenon
      <4> QED
        BY <4>2, Zenon
    <3>2. CASE ~y.dir
      BY <3>2, ZenonT(30) DEF Y
    <3> QED
      BY <3>1, <3>2, ZenonT(30)
  <2> QED
    BY <2>5, <2>9, <2>10, Zenon
<1> QED
  BY <1>9, <1>10, <1>11, <1>12, ZenonT(30) DEF TreeOK

-----------------------------------------------------------------------------
(* Slots and pages                                                         *)
SlotType == [kind : Kinds, nlink : Nat, gen : Nat, par : Nat, root : BOOLEAN, val : Vals \cup {0}]

(* The tree that slots and pages stand for.                                *)
KindOf(sl)    == [i \in Inos |-> sl[i].kind]
ParOf(sl)     == [i \in Inos |-> sl[i].par]
LinkOf(sl)    == [i \in Inos |-> sl[i].nlink]
EntOf(sl, en) == [d \in Inos |-> Entries(sl, en, d)]

(* Every inode has a generation of its own, up to g, and a directory with  *)
(* a root has its page.                                                    *)
Stored(sl, en, g) ==
  /\ g \in Nat /\ g <= MaxGen /\ sl \in [Inos -> SlotType] /\ en \in [Gens -> Page]
  /\ \A i \in Inos : sl[i].kind # "none" => sl[i].gen \in 1..g
  /\ \A i, j \in Inos : sl[i].kind # "none" /\ sl[j].kind # "none" /\ sl[i].gen = sl[j].gen => i = j
  /\ \A i \in Inos : sl[i].kind = "dir" /\ sl[i].root => en[sl[i].gen] # NoPage

Sound(sl, en) == TreeOK(KindOf(sl), ParOf(sl), LinkOf(sl), EntOf(sl, en))

LEMMA PagesTyped == Bare \in Page /\ NoPage \in Page /\ Bare # NoPage
                    /\ \A n \in Names : Bare[n] = None /\ ~Bare[n].dir /\ NoPage[n].dir /\ NoPage[n].ino = 0
<1>3. PICK n \in Names : TRUE
  BY NamespaceAssumption, ZenonT(30)
<1> QED
  BY <1>3, ZenonT(30) DEF Bare, NoPage, None, Page, Entry

LEMMA Viewed ==
  ASSUME NEW sl, NEW en, NEW g, Stored(sl, en, g)
  PROVE  /\ TreeTyped(KindOf(sl), ParOf(sl), LinkOf(sl), EntOf(sl, en))
         /\ \A i \in Inos : /\ KindOf(sl)[i] = sl[i].kind /\ ParOf(sl)[i] = sl[i].par
                            /\ LinkOf(sl)[i] = sl[i].nlink
                            /\ EntOf(sl, en)[i] = Entries(sl, en, i)
                            /\ Entries(sl, en, i) \in Page
                            /\ sl[i].kind # "none" => en[sl[i].gen] \in Page
<1>2. ASSUME NEW i \in Inos, sl[i].kind # "none" PROVE en[sl[i].gen] \in Page
  BY <1>2, NamespaceAssumption, SMTT(60), Z3T(60) DEF Stored, MaxGen, Gens
<1> QED
  BY <1>2, PagesTyped, ZenonT(30) DEF TreeTyped, KindOf, ParOf, LinkOf, EntOf, Stored, SlotType,
     Entries, Rooted

(* An entry of a directory with a page changes with the page.              *)
Paged(sl, en, sl2, en2, d, n, x) ==
  \E pg \in Page, rt \in BOOLEAN :
    /\ pg = [Entries(sl, en, d) EXCEPT ![n] = x] /\ pg # NoPage /\ (~rt => pg = Bare)
    /\ en2 = [en EXCEPT ![sl[d].gen] = pg] /\ sl2 = [sl EXCEPT ![d].root = rt]

OnlyEntry(sl, en, sl2, en2, d, n, x, g) ==
  /\ Stored(sl2, en2, g)
  /\ EntOf(sl2, en2) = SetEntry(EntOf(sl, en), d, n, x)
  /\ KindOf(sl2) = KindOf(sl) /\ ParOf(sl2) = ParOf(sl) /\ LinkOf(sl2) = LinkOf(sl)

LEMMA PageSet ==
  ASSUME NEW sl, NEW en, NEW sl2, NEW en2, NEW g, NEW d \in Inos, NEW n \in Names, NEW x \in Entry,
         Stored(sl, en, g), sl[d].kind = "dir", Paged(sl, en, sl2, en2, d, n, x)
  PROVE  OnlyEntry(sl, en, sl2, en2, d, n, x, g)
<1>0. PICK pg \in Page, rt \in BOOLEAN :
        /\ pg = [Entries(sl, en, d) EXCEPT ![n] = x] /\ pg # NoPage /\ (~rt => pg = Bare)
        /\ en2 = [en EXCEPT ![sl[d].gen] = pg] /\ sl2 = [sl EXCEPT ![d].root = rt]
  BY Zenon DEF Paged
<1>1. sl \in [Inos -> SlotType] /\ en \in [Gens -> Page] /\ sl[d].gen \in Gens
  BY NamespaceAssumption, SMTT(60), Z3T(60) DEF Stored, MaxGen, Gens
<1>2. /\ sl2 \in [Inos -> SlotType] /\ en2 \in [Gens -> Page]
      /\ sl2[d] = [sl[d] EXCEPT !.root = rt] /\ \A i \in Inos : i # d => sl2[i] = sl[i]
      /\ en2[sl[d].gen] = pg /\ \A h \in Gens : h # sl[d].gen => en2[h] = en[h]
  BY <1>0, <1>1, ZenonT(30) DEF SlotType
<1>3. \A i \in Inos : /\ sl2[i].kind = sl[i].kind /\ sl2[i].par = sl[i].par /\ sl2[i].nlink = sl[i].nlink
                      /\ sl2[i].gen = sl[i].gen /\ sl2[i] = [sl[i] EXCEPT !.root = sl2[i].root]
                      /\ sl2[i].root = IF i = d THEN rt ELSE sl[i].root
  BY <1>1, <1>2, SMTT(60), Z3T(60) DEF SlotType
<1>4. \A i \in Inos : i # d /\ sl[i].kind # "none" => en2[sl[i].gen] = en[sl[i].gen]
  BY <1>0, <1>2, SMTT(60), Z3T(60) DEF Stored, Gens, MaxGen
<1>6. \A i \in Inos : i # d => Entries(sl2, en2, i) = Entries(sl, en, i)
  BY <1>2, <1>4, ZenonT(30) DEF Entries, Rooted
<1>7. Entries(sl2, en2, d) = pg
  BY <1>0, <1>2, <1>3, ZenonT(30) DEF Entries, Rooted
<1>8. EntOf(sl2, en2) = SetEntry(EntOf(sl, en), d, n, x)
  BY <1>0, <1>6, <1>7, ZenonT(30) DEF EntOf, SetEntry
<1> QED
  BY <1>0, <1>2, <1>3, <1>4, <1>8, SMTT(60), Z3T(60) DEF KindOf, ParOf, LinkOf, OnlyEntry, Stored

(* Slots that keep kind, generation and root keep the entries.             *)
LEMMA FieldsSet ==
  ASSUME NEW sl, NEW en, NEW sl2, NEW g, Stored(sl, en, g), sl2 \in [Inos -> SlotType],
         \A i \in Inos : sl2[i].kind = sl[i].kind /\ sl2[i].gen = sl[i].gen /\ sl2[i].root = sl[i].root
  PROVE  Stored(sl2, en, g) /\ EntOf(sl2, en) = EntOf(sl, en) /\ KindOf(sl2) = KindOf(sl)
BY SMTT(60), Z3T(60) DEF EntOf, KindOf, Stored, Entries, Rooted

(* Slot i changes to z.                                                    *)
Put(sl, sl2, i, z) == sl2 = [sl EXCEPT ![i] = z]

(* A free slot is filled, with a generation of its own and no entries.     *)
LEMMA SlotTaken ==
  ASSUME NEW sl, NEW en, NEW sl2, NEW g, NEW i \in Inos, NEW z \in SlotType,
         Stored(sl, en, g), g < MaxGen, sl[i].kind = "none", z.kind # "none", z.gen = g + 1, ~z.root,
         Put(sl, sl2, i, z)
  PROVE  /\ Stored(sl2, en, g + 1) /\ EntOf(sl2, en) = EntOf(sl, en)
         /\ sl2[i] = z /\ \A j \in Inos : j # i => sl2[j] = sl[j]
<1>1. /\ sl \in [Inos -> SlotType] /\ en \in [Gens -> Page] /\ g + 1 \in Gens /\ g \in Nat
      /\ MaxGen \in Nat
  BY NamespaceAssumption, SMTT(60), Z3T(60) DEF Stored, MaxGen, Gens
<1> QED
  BY <1>1, PagesTyped, SMTT(60), Z3T(60) DEF Stored, Gens, EntOf, Entries, Rooted, Put

(* The slot of an inode without entries is emptied.                        *)
Emptied(sl, en, sl2, i, g) ==
  /\ Stored(sl2, en, g) /\ EntOf(sl2, en) = EntOf(sl, en)
  /\ sl2[i] = ZeroSlot /\ \A j \in Inos : j # i => sl2[j] = sl[j]

LEMMA SlotGiven ==
  ASSUME NEW sl, NEW en, NEW sl2, NEW g, NEW i \in Inos, Stored(sl, en, g), Entries(sl, en, i) = Bare,
         Put(sl, sl2, i, ZeroSlot)
  PROVE  Emptied(sl, en, sl2, i, g)
BY SMTT(60), Z3T(60) DEF EntOf, Emptied, Stored, Entries, Rooted, Put, ZeroSlot, SlotType, Kinds

-----------------------------------------------------------------------------
(* Steps                                                                   *)

CallNames == {"create", "unlink", "link", "rename", "setattr"}
ErrNames  == {"ok", "ENOSPC"}
ArmSlot   == {z \in SlotType : z.nlink <= 3}

RecType == [t : {"full", "upd"}, ino : Inos, in : SlotType]
           \cup [t : {"add", "del"}, dir : Inos, name : Names, ent : Entry]
           \cup [t : {"ialloc", "ifree"}, ino : Inos]

StepType == [do : {"rec"}, rec : RecType] \cup [do : {"take"}, ino : Inos]
            \cup [do : {"give"}, ino : Inos \ {ROOT}] \cup [do : {"arm"}, ino : Inos, in : ArmSlot]

HType == [call : CallNames, steps : Seq(StepType), slot : [Inos -> SlotType], ents : [Gens -> Page], err : ErrNames]

Takes(x, i) == x.do = "take" /\ x.ino = i
Gives(x, i) == x.do = "give" /\ x.ino = i

(* What the bitmap B is after the steps st: the numbers taken and not      *)
(* given since, and those of B that are not given.                         *)
Fin(st, B) ==
  {i \in Inos : \/ \E k \in DOMAIN st : Takes(st[k], i) /\ \A l \in DOMAIN st : l > k => ~Gives(st[l], i)
                \/ i \in B /\ \A l \in DOMAIN st : ~Gives(st[l], i)}

After(x, B) == IF x.do = "take" THEN B \cup {x.ino} ELSE IF x.do = "give" THEN B \ {x.ino} ELSE B

NoArm(st) == \A k \in DOMAIN st : st[k].do # "arm"

LEMMA StepIs ==
  ASSUME NEW x \in StepType
  PROVE  /\ x.do \in {"rec", "take", "give", "arm"}
         /\ x.do = "rec" => x.rec \in RecType
         /\ x.do = "take" => x.ino \in Inos
         /\ x.do = "give" => x.ino \in Inos \ {ROOT}
         /\ x.do = "arm" => x.ino \in Inos /\ x.in \in SlotType /\ x.in.nlink <= 3
  BY ZenonT(30) DEF StepType, ArmSlot

LEMMA FinEmpty ==
  ASSUME NEW B \in SUBSET Inos
  PROVE  Fin(<<>>, B) = B /\ NoArm(<<>>)
  BY SMTT(60), Z3T(60) DEF Fin, NoArm

LEMMA FinTyped ==
  ASSUME NEW st, NEW B
  PROVE  Fin(st, B) \in SUBSET Inos
  BY ZenonT(30) DEF Fin

LEMMA FinAppend ==
  ASSUME NEW st \in Seq(StepType), NEW x \in StepType, NEW B \in SUBSET Inos
  PROVE  /\ Fin(Append(st, x), B) = After(x, Fin(st, B))
         /\ Append(st, x) \in Seq(StepType)
         /\ NoArm(Append(st, x)) <=> NoArm(st) /\ x.do # "arm"
<1> DEFINE ap == Append(st, x)
<1>1. /\ ap \in Seq(StepType) /\ Len(st) \in Nat /\ Len(ap) = Len(st) + 1
      /\ DOMAIN st = 1..Len(st) /\ DOMAIN ap = 1..(Len(st) + 1)
      /\ ap[Len(st) + 1] = x /\ \A k \in 1..Len(st) : ap[k] = st[k]
  BY SMTT(60), Z3T(60)
<1> HIDE DEF ap
<1>3. ASSUME NEW i \in Inos
      PROVE  (\E k \in DOMAIN ap : Takes(ap[k], i) /\ \A l \in DOMAIN ap : l > k => ~Gives(ap[l], i))
               <=> \/ Takes(x, i)
                   \/ /\ ~Gives(x, i)
                      /\ \E k \in DOMAIN st : Takes(st[k], i) /\ \A l \in DOMAIN st : l > k => ~Gives(st[l], i)
  <2>1. ASSUME NEW k \in DOMAIN ap, Takes(ap[k], i), \A l \in DOMAIN ap : l > k => ~Gives(ap[l], i)
        PROVE  \/ Takes(x, i)
               \/ /\ ~Gives(x, i)
                  /\ \E q \in DOMAIN st : Takes(st[q], i) /\ \A l \in DOMAIN st : l > q => ~Gives(st[l], i)
    <3>1. CASE k = Len(st) + 1
      BY <1>1, <2>1, <3>1, ZenonT(30)
    <3>2. CASE k # Len(st) + 1
      BY <1>1, <2>1, <3>2, SMTT(60), Z3T(60)
    <3> QED
      BY <3>1, <3>2, ZenonT(30)
  <2>2. ASSUME Takes(x, i)
        PROVE  \E k \in DOMAIN ap : Takes(ap[k], i) /\ \A l \in DOMAIN ap : l > k => ~Gives(ap[l], i)
    BY <1>1, <2>2, SMTT(60), Z3T(60)
  <2>3. ASSUME ~Gives(x, i), NEW k \in DOMAIN st, Takes(st[k], i), \A l \in DOMAIN st : l > k => ~Gives(st[l], i)
        PROVE  \E q \in DOMAIN ap : Takes(ap[q], i) /\ \A l \in DOMAIN ap : l > q => ~Gives(ap[l], i)
    BY <1>1, <2>3, SMTT(60), Z3T(60)
  <2> QED
    BY <2>1, <2>2, <2>3, Zenon
<1> QED
  BY <1>1, <1>3, FinTyped, StepIs, SMTT(60), Z3T(60) DEF ap, Takes, Gives, After, Fin, NoArm

LEMMA FinTail ==
  ASSUME NEW st \in Seq(StepType), st # <<>>, NEW B \in SUBSET Inos
  PROVE  /\ Fin(st, B) = Fin(Tail(st), After(Head(st), B))
         /\ Tail(st) \in Seq(StepType) /\ Head(st) \in StepType
         /\ After(Head(st), B) \in SUBSET Inos
         /\ NoArm(st) => NoArm(Tail(st)) /\ Head(st).do # "arm"
<1> DEFINE tl == Tail(st)
           x  == Head(st)
<1>1. /\ tl \in Seq(StepType) /\ x \in StepType /\ x = st[1] /\ Len(st) \in Nat \ {0} /\ Len(tl) = Len(st) - 1
      /\ DOMAIN st = 1..Len(st) /\ DOMAIN tl = 1..(Len(st) - 1)
      /\ \A k \in 1..(Len(st) - 1) : tl[k] = st[k + 1]
  BY SMTT(60), Z3T(60)
<1> HIDE DEF tl, x
<1>2. \A i \in Inos : (\A l \in DOMAIN st : ~Gives(st[l], i)) <=> (\A l \in DOMAIN tl : ~Gives(tl[l], i)) /\ ~Gives(x, i)
  <2> TAKE i \in Inos
  <2>1. ASSUME \A l \in DOMAIN tl : ~Gives(tl[l], i), ~Gives(x, i), NEW l \in DOMAIN st PROVE ~Gives(st[l], i)
    <3>1. CASE l = 1
      BY <1>1, <2>1, <3>1, ZenonT(30)
    <3>2. CASE l # 1
      <4>1. l - 1 \in 1..(Len(st) - 1) /\ (l - 1) + 1 = l
        BY <1>1, <3>2, SMTT(60), Z3T(60)
      <4> QED
        BY <1>1, <2>1, <4>1, ZenonT(30)
    <3> QED
      BY <3>1, <3>2, ZenonT(30)
  <2>2. ASSUME \A l \in DOMAIN st : ~Gives(st[l], i), NEW l \in DOMAIN tl PROVE ~Gives(tl[l], i)
    BY <1>1, <2>2, SMTT(60), Z3T(60)
  <2> QED
    BY <1>1, <2>1, <2>2, SMTT(60), Z3T(60)
<1>3. ASSUME NEW i \in Inos
      PROVE  (\E k \in DOMAIN st : Takes(st[k], i) /\ \A l \in DOMAIN st : l > k => ~Gives(st[l], i))
               <=> \/ Takes(x, i) /\ \A l \in DOMAIN tl : ~Gives(tl[l], i)
                   \/ \E k \in DOMAIN tl : Takes(tl[k], i) /\ \A l \in DOMAIN tl : l > k => ~Gives(tl[l], i)
  <2>1. ASSUME NEW k \in DOMAIN st, Takes(st[k], i), \A l \in DOMAIN st : l > k => ~Gives(st[l], i)
        PROVE  \/ Takes(x, i) /\ \A l \in DOMAIN tl : ~Gives(tl[l], i)
               \/ \E q \in DOMAIN tl : Takes(tl[q], i) /\ \A l \in DOMAIN tl : l > q => ~Gives(tl[l], i)
    <3>1. CASE k = 1
      BY <1>1, <2>1, <3>1, SMTT(60), Z3T(60)
    <3>2. CASE k # 1
      <4>2. ASSUME NEW l \in DOMAIN tl, l > k - 1 PROVE ~Gives(tl[l], i)
        <5>1. l + 1 \in DOMAIN st /\ l + 1 > k /\ tl[l] = st[l + 1]
          BY <1>1, <4>2, SMTT(60), Z3T(60)
        <5> QED
          BY <2>1, <5>1, ZenonT(30)
      <4> QED
        BY <1>1, <2>1, <3>2, <4>2, SMTT(60), Z3T(60)
    <3> QED
      BY <3>1, <3>2, ZenonT(30)
  <2>2. ASSUME Takes(x, i), \A l \in DOMAIN tl : ~Gives(tl[l], i)
        PROVE  \E k \in DOMAIN st : Takes(st[k], i) /\ \A l \in DOMAIN st : l > k => ~Gives(st[l], i)
    <3>1. ASSUME NEW l \in DOMAIN st, l > 1 PROVE ~Gives(st[l], i)
      <4>1. l - 1 \in 1..(Len(st) - 1) /\ (l - 1) + 1 = l
        BY <1>1, <3>1, SMTT(60), Z3T(60)
      <4> QED
        BY <1>1, <2>2, <4>1, ZenonT(30)
    <3> QED
      BY <1>1, <2>2, <3>1, SMTT(60), Z3T(60)
  <2>3. ASSUME NEW k \in DOMAIN tl, Takes(tl[k], i), \A l \in DOMAIN tl : l > k => ~Gives(tl[l], i)
        PROVE  \E q \in DOMAIN st : Takes(st[q], i) /\ \A l \in DOMAIN st : l > q => ~Gives(st[l], i)
    <3>2. ASSUME NEW l \in DOMAIN st, l > k + 1 PROVE ~Gives(st[l], i)
      <4>1. l - 1 \in 1..(Len(st) - 1) /\ (l - 1) + 1 = l /\ l - 1 > k
        BY <1>1, <3>2, SMTT(60), Z3T(60)
      <4> QED
        BY <1>1, <2>3, <4>1, ZenonT(30)
    <3> QED
      BY <1>1, <2>3, <3>2, SMTT(60), Z3T(60)
  <2> QED
    BY <2>1, <2>2, <2>3, Zenon
<1>6. \A i \in Inos : i \in Fin(st, B) <=> i \in Fin(tl, After(x, B))
  BY <1>2, <1>3, ZenonT(30) DEF Fin, After, Takes, Gives
<1>7. NoArm(st) => NoArm(tl) /\ x.do # "arm"
  <2>1. \A k \in DOMAIN tl : k + 1 \in DOMAIN st /\ tl[k] = st[k + 1]
    BY <1>1, SMTT(60), Z3T(60)
  <2> QED
    BY <1>1, <2>1, SMTT(60), Z3T(60) DEF NoArm
<1>8. Fin(st, B) \in SUBSET Inos /\ Fin(tl, After(x, B)) \in SUBSET Inos
  BY FinTyped, Zenon
<1> QED
  BY <1>1, <1>6, <1>7, <1>8, StepIs, ZenonT(30) DEF tl, x, After

-----------------------------------------------------------------------------
(* Handlers                                                                *)

(* From s to t the handler sets slots and pages and writes records.        *)
Does(s, t, sl, en) ==
  /\ t \in HType /\ t.slot = sl /\ t.ents = en /\ t.err = s.err /\ t.call = s.call
  /\ Fin(t.steps, bits) = Fin(s.steps, bits) /\ (NoArm(t.steps) <=> NoArm(s.steps))

LEMMA HIs ==
  ASSUME NEW s \in HType
  PROVE  /\ s.call \in CallNames /\ s.steps \in Seq(StepType) /\ s.slot \in [Inos -> SlotType]
         /\ s.ents \in [Gens -> Page] /\ s.err \in ErrNames
         /\ Does(s, s, s.slot, s.ents)
  BY ZenonT(30) DEF HType, Does

LEMMA Stepped ==
  ASSUME NEW s \in HType, NEW x \in StepType, bits \in SUBSET Inos
  PROVE  /\ Step(s, x) \in HType
         /\ Step(s, x).slot = s.slot /\ Step(s, x).ents = s.ents /\ Step(s, x).err = s.err
         /\ Step(s, x).call = s.call
         /\ s.err = "ok" => /\ Fin(Step(s, x).steps, bits) = After(x, Fin(s.steps, bits))
                            /\ NoArm(Step(s, x).steps) <=> NoArm(s.steps) /\ x.do # "arm"
         /\ s.err # "ok" => Step(s, x) = s
<1>1. CASE s.err # "ok"
  BY <1>1, ZenonT(30) DEF Step
<1>2. CASE s.err = "ok"
  BY <1>2, HIs, FinAppend, ZenonT(30) DEF HType, Step
<1> QED
  BY <1>1, <1>2, ZenonT(30)

LEMMA Recorded ==
  ASSUME NEW s \in HType, NEW r \in RecType, bits \in SUBSET Inos
  PROVE  Does(s, WriteRecord(s, r), s.slot, s.ents)
<1> DEFINE x == [do |-> "rec", rec |-> r]
<1>1. x \in StepType /\ x.do = "rec"
  BY ZenonT(30) DEF StepType
<1>2. WriteRecord(s, r) = Step(s, x)
  BY ZenonT(30) DEF WriteRecord
<1> HIDE DEF x
<1>3. After(x, Fin(s.steps, bits)) = Fin(s.steps, bits)
  BY <1>1, ZenonT(30) DEF After
<1> QED
  BY <1>1, <1>2, <1>3, Stepped, SMTT(60), Z3T(60) DEF Does

LEMMA Journaled ==
  ASSUME NEW s \in HType, bits \in SUBSET Inos, NEW i \in Inos
  PROVE  /\ Does(s, journalInodeFull(s, i), s.slot, s.ents)
         /\ Does(s, journalInodeUpdate(s, i), s.slot, s.ents)
BY Recorded, HIs, ZenonT(30) DEF journalInodeFull, journalInodeUpdate, RecType

LEMMA EntryJournaled ==
  ASSUME NEW s \in HType, bits \in SUBSET Inos, NEW d \in Inos, NEW n \in Names, NEW e \in Entry
  PROVE  Does(s, journalDirUpdate(s, d, n, e), s.slot, s.ents)
BY Recorded, ZenonT(30) DEF journalDirUpdate, RecType

LEMMA DoesChain ==
  ASSUME NEW s, NEW t, NEW u, NEW sl, NEW en, NEW sl2, NEW en2, Does(s, t, sl, en), Does(t, u, sl2, en2)
  PROVE  Does(s, u, sl2, en2)
  BY ZenonT(30) DEF Does

(* Other slots, other pages, no steps.                                     *)
LEMMA SlotsSet ==
  ASSUME NEW s \in HType, NEW sl \in [Inos -> SlotType], NEW en \in [Gens -> Page]
  PROVE  /\ Does(s, [s EXCEPT !.slot = sl], sl, s.ents)
         /\ Does(s, [s EXCEPT !.ents = en], s.slot, en)
         /\ Does(s, [s EXCEPT !.slot = sl, !.ents = en], sl, en)
  BY ZenonT(30) DEF HType, Does

LEMMA LinksMoved ==
  ASSUME NEW s \in HType, bits \in SUBSET Inos, NEW d \in Inos, NEW up \in {0, 1}, NEW down \in {0, 1},
         s.slot[d].nlink + up >= down, NEW sl,
         sl = [s.slot EXCEPT ![d].nlink = @ + up - down]
  PROVE  sl \in [Inos -> SlotType] /\ Does(s, updateParentDir(s, d, up, down), sl, s.ents)
<1>1. s.slot \in [Inos -> SlotType] /\ s.slot[d].nlink + up - down \in Nat
  BY HIs, SMTT(60), Z3T(60) DEF SlotType
<1>2. sl \in [Inos -> SlotType]
  BY <1>1, SMTT(60), Z3T(60) DEF SlotType
<1> DEFINE t == [s EXCEPT !.slot[d].nlink = @ + up - down]
<1>3. t = [s EXCEPT !.slot = sl]
  BY ZenonT(30) DEF HType
<1>4. updateParentDir(s, d, up, down) = journalInodeFull(t, d)
  BY ZenonT(30) DEF updateParentDir
<1> HIDE DEF t
<1>5. Does(s, t, sl, s.ents)
  BY <1>2, <1>3, SlotsSet, HIs, ZenonT(30)
<1>7. Does(t, journalInodeFull(t, d), sl, s.ents)
  BY <1>5, Journaled, ZenonT(30) DEF Does
<1> QED
  BY <1>2, <1>4, <1>5, <1>7, DoesChain, SMTT(60), Z3T(60)

LEMMA EntryRemoved ==
  ASSUME NEW s \in HType, bits \in SUBSET Inos, s.err = "ok", NEW d \in Inos, NEW n \in Names,
         s.slot[d].gen \in Gens, NEW pg, pg = [s.ents[s.slot[d].gen] EXCEPT ![n] = None],
         NEW sl, sl = [s.slot EXCEPT ![d].root = (pg # Bare)], NEW en, en = [s.ents EXCEPT ![s.slot[d].gen] = pg]
  PROVE  Does(s, removeDirEntry(s, d, n), sl, en)
<1>1. s.slot \in [Inos -> SlotType] /\ s.ents \in [Gens -> Page]
  BY HIs, ZenonT(30)
<1>2. pg \in Page
  BY <1>1, NoneIs, ZenonT(30) DEF Page
<1>3. en \in [Gens -> Page] /\ sl \in [Inos -> SlotType] /\ en[s.slot[d].gen] = pg
  BY <1>1, <1>2, ZenonT(60) DEF SlotType
<1> DEFINE t == [s EXCEPT !.ents[s.slot[d].gen][n] = None]
<1>4. t = [s EXCEPT !.ents = en]
  BY ZenonT(30) DEF HType
<1>5. removeDirEntry(s, d, n) = [t EXCEPT !.slot[d].root = t.ents[s.slot[d].gen] # Bare]
  BY ZenonT(30) DEF removeDirEntry
<1> HIDE DEF t
<1>6. Does(s, t, s.slot, en)
  BY <1>3, <1>4, SlotsSet, ZenonT(30)
<1>7. t \in HType /\ t.slot = s.slot /\ t.ents = en
  BY <1>6, ZenonT(30) DEF Does
<1>9. Does(t, removeDirEntry(s, d, n), sl, en)
  <2>1. Does(t, [t EXCEPT !.slot = sl], sl, t.ents)
    BY <1>3, <1>7, SlotsSet, Zenon
  <2> QED
    BY <1>3, <1>5, <1>7, <2>1, ZenonT(30) DEF HType
<1> QED
  BY <1>6, <1>9, ZenonT(30) DEF Does

Refused(s, f) ==
  /\ f \in HType /\ f.err = "ENOSPC" /\ Fin(f.steps, bits) = Fin(s.steps, bits) /\ (NoArm(f.steps) <=> NoArm(s.steps))

LEMMA EntryAdded ==
  ASSUME NEW s \in HType, bits \in SUBSET Inos, s.err = "ok", NEW d \in Inos, NEW n \in Names, NEW e \in Entry,
         s.slot[d].gen \in Gens,
         NEW pg, pg = [IF s.slot[d].root THEN s.ents[s.slot[d].gen] ELSE Bare EXCEPT ![n] = e],
         NEW sl, sl = [s.slot EXCEPT ![d].root = TRUE], NEW en, en = [s.ents EXCEPT ![s.slot[d].gen] = pg]
  PROVE  /\ Does(s, addDirEntry(s, d, n, e, FALSE), sl, en)
         /\ Refused(s, addDirEntry(s, d, n, e, TRUE))
<1> DEFINE g  == s.slot[d].gen
           e0 == [s.ents EXCEPT ![g] = Bare]
           q  == [s EXCEPT !.slot[d].root = TRUE, !.ents[s.slot[d].gen] = Bare]
           p  == IF s.slot[d].root THEN s ELSE journalInodeFull(q, d)
           eq == IF s.slot[d].root THEN s.ents ELSE e0
<1>1. s.slot \in [Inos -> SlotType] /\ s.ents \in [Gens -> Page]
  BY HIs, ZenonT(30)
<1>2. sl \in [Inos -> SlotType] /\ e0 \in [Gens -> Page] /\ sl[d].gen = g /\ (s.slot[d].root => sl = s.slot)
  <2>1. sl \in [Inos -> SlotType] /\ sl[d].gen = g
    BY <1>1, ZenonT(60) DEF SlotType
  <2>4. s.slot[d].root => sl = s.slot
    BY <1>1, ZenonT(30) DEF SlotType
  <2> QED
    BY <1>1, <2>1, <2>4, PagesTyped, ZenonT(30)
<1>3. Does(s, p, sl, eq)
  <2>1. CASE s.slot[d].root
    BY <1>2, <2>1, HIs, ZenonT(30)
  <2>2. CASE ~s.slot[d].root
    <3>1. q = [s EXCEPT !.slot = sl, !.ents = e0]
      BY ZenonT(30) DEF HType
    <3> HIDE DEF q, e0
    <3>2. Does(s, q, sl, e0)
      BY <1>2, <3>1, SlotsSet, ZenonT(30)
    <3>4. Does(q, journalInodeFull(q, d), sl, e0)
      BY <3>2, Journaled, ZenonT(30) DEF Does
    <3> QED
      BY <2>2, <3>2, <3>4, DoesChain, SMTT(60), Z3T(60)
  <2> QED
    BY <2>1, <2>2, ZenonT(30)
<1>4. eq \in [Gens -> Page] /\ pg = [eq[g] EXCEPT ![n] = e] /\ en = [eq EXCEPT ![g] = pg] /\ pg \in Page
  BY <1>1, PagesTyped, ZenonT(30) DEF Page
<1>5. /\ addDirEntry(s, d, n, e, FALSE) = [p EXCEPT !.ents[p.slot[d].gen][n] = e]
      /\ addDirEntry(s, d, n, e, TRUE) = Fail(p, "ENOSPC")
  BY ZenonT(30) DEF addDirEntry
<1> HIDE DEF p, eq
<1>6. p \in HType /\ p.slot = sl /\ p.ents = eq /\ p.err = "ok"
  BY <1>3, ZenonT(30) DEF Does
<1>8. addDirEntry(s, d, n, e, FALSE) = [p EXCEPT !.ents = en]
  <2>1. en = [p.ents EXCEPT ![p.slot[d].gen] = [p.ents[p.slot[d].gen] EXCEPT ![n] = e]]
    BY <1>2, <1>4, <1>6, ZenonT(30)
  <2> QED
    BY <1>5, <2>1, ZenonT(30)
<1>9. Does(p, addDirEntry(s, d, n, e, FALSE), sl, en)
  <2>1. Does(p, [p EXCEPT !.ents = en], p.slot, en)
    BY <1>2, <1>4, <1>6, SlotsSet, ZenonT(30)
  <2> QED
    BY <1>6, <1>8, <2>1, Zenon
<1>11. /\ [p EXCEPT !.err = "ENOSPC"] \in HType /\ [p EXCEPT !.err = "ENOSPC"].err = "ENOSPC"
       /\ [p EXCEPT !.err = "ENOSPC"].call = p.call /\ [p EXCEPT !.err = "ENOSPC"].slot = p.slot
       /\ [p EXCEPT !.err = "ENOSPC"].steps = p.steps
  BY <1>6, ZenonT(30) DEF HType, ErrNames
<1> QED
  BY <1>3, <1>5, <1>6, <1>9, <1>11, ZenonT(30) DEF Does, Refused, Fail

LEMMA EntryRefused ==
  ASSUME NEW s \in HType, bits \in SUBSET Inos, s.err = "ok", NEW d \in Inos, NEW n \in Names, NEW e \in Entry,
         s.slot[d].gen \in Gens
  PROVE  Refused(s, addDirEntry(s, d, n, e, TRUE))
<1> DEFINE pg == [IF s.slot[d].root THEN s.ents[s.slot[d].gen] ELSE Bare EXCEPT ![n] = e]
           sl == [s.slot EXCEPT ![d].root = TRUE]
           en == [s.ents EXCEPT ![s.slot[d].gen] = pg]
           f  == addDirEntry(s, d, n, e, TRUE)
<1>1. /\ pg = [IF s.slot[d].root THEN s.ents[s.slot[d].gen] ELSE Bare EXCEPT ![n] = e]
      /\ sl = [s.slot EXCEPT ![d].root = TRUE] /\ en = [s.ents EXCEPT ![s.slot[d].gen] = pg]
  BY ZenonT(30)
<1> HIDE DEF pg, sl, en
<1> QED
  BY <1>1, EntryAdded, ZenonT(30)

(* The handler has got as far as t, without an error.                      *)
Gets(t, sl, en, B) ==
  t \in HType /\ t.slot = sl /\ t.ents = en /\ t.err = "ok" /\ Fin(t.steps, bits) = B

LEMMA GetsOn ==
  ASSUME NEW s, NEW t, NEW sl, NEW en, NEW sl2, NEW en2, NEW B, Gets(s, sl, en, B), Does(s, t, sl2, en2)
  PROVE  Gets(t, sl2, en2, B)
  BY ZenonT(30) DEF Gets, Does

LEMMA Begun ==
  ASSUME NEW c \in CallNames, slot \in [Inos -> SlotType], ents \in [Gens -> Page], bits \in SUBSET Inos
  PROVE  Gets(Begin(c), slot, ents, bits) /\ NoArm(Begin(c).steps) /\ Begin(c).call = c
BY FinEmpty, SMTT(60), Z3T(60) DEF Gets, Begin, HType, ErrNames

LEMMA Allocated ==
  ASSUME NEW s \in HType, bits \in SUBSET Inos, s.err = "ok", NEW i \in Inos, NEW kind \in {"dir", "file"},
         NEW par \in Nat, NEW val \in Vals \cup {0}, gens \in Nat,
         NEW z, z = [kind |-> kind, nlink |-> IF kind = "dir" THEN 2 ELSE 1, gen |-> gens + 1,
                     par |-> IF kind = "dir" THEN par ELSE 0, root |-> FALSE, val |-> val],
         NEW sl, sl = [s.slot EXCEPT ![i] = z]
  PROVE  /\ z \in SlotType
         /\ Gets(AllocInode(s, i, kind, par, val), sl, s.ents, Fin(s.steps, bits) \cup {i})
         /\ NoArm(AllocInode(s, i, kind, par, val).steps) <=> NoArm(s.steps)
         /\ AllocInode(s, i, kind, par, val).call = s.call
<1> DEFINE x == [do |-> "take", ino |-> i]
           r == [t |-> "ialloc", ino |-> i]
           u == Step(s, x)
           t == WriteRecord(u, r)
<1>1. x \in StepType /\ x.do = "take" /\ x.ino = i /\ r \in RecType
  BY ZenonT(30) DEF StepType, RecType
<1>2. z \in SlotType
  BY SMTT(60), Z3T(60) DEF SlotType, Kinds
<1>3. AllocInode(s, i, kind, par, val) = [t EXCEPT !.slot[i] = z]
  BY Zenon DEF AllocInode
<1> HIDE DEF x, r
<1>5. /\ u \in HType /\ u.slot = s.slot /\ u.ents = s.ents /\ u.err = "ok" /\ u.call = s.call
      /\ Fin(u.steps, bits) = Fin(s.steps, bits) \cup {i}
      /\ NoArm(u.steps) <=> NoArm(s.steps)
  BY <1>1, Stepped, ZenonT(30) DEF After
<1> HIDE DEF u
<1>7. /\ t \in HType /\ t.slot = s.slot /\ t.ents = s.ents /\ t.err = "ok" /\ t.call = s.call
      /\ Fin(t.steps, bits) = Fin(s.steps, bits) \cup {i}
      /\ NoArm(t.steps) <=> NoArm(s.steps)
  BY <1>1, <1>5, Recorded, ZenonT(30) DEF Does
<1> HIDE DEF t
<1>10. Does(t, [t EXCEPT !.slot = sl], sl, t.ents)
  BY <1>2, <1>7, SlotsSet, HIs, ZenonT(30)
<1> QED
  BY <1>2, <1>3, <1>7, <1>10, ZenonT(30) DEF Does, Gets

LEMMA Freed ==
  ASSUME NEW s \in HType, bits \in SUBSET Inos, s.err = "ok", NEW i \in Inos \ {ROOT},
         NEW sl, sl = [s.slot EXCEPT ![i] = ZeroSlot]
  PROVE  /\ Gets(FreeInode(s, i), sl, s.ents, Fin(s.steps, bits) \ {i})
         /\ NoArm(FreeInode(s, i).steps) <=> NoArm(s.steps)
         /\ FreeInode(s, i).call = s.call
<1> DEFINE x == [do |-> "give", ino |-> i]
           r == [t |-> "ifree", ino |-> i]
           u == [s EXCEPT !.slot[i] = ZeroSlot]
           t == WriteRecord(u, r)
<1>1. x \in StepType /\ x.do = "give" /\ x.ino = i /\ r \in RecType
  BY ZenonT(30) DEF StepType, RecType
<1>2. FreeInode(s, i) = Step(t, x)
  BY Zenon DEF FreeInode
<1> HIDE DEF x, r
<1>4. u = [s EXCEPT !.slot = sl]
  BY ZenonT(30)
<1> HIDE DEF u
<1>5. Does(s, u, sl, s.ents)
  BY <1>4, SlotsSet, HIs, ZenonT(30) DEF ZeroSlot, SlotType, Kinds
<1>8. /\ t \in HType /\ t.slot = sl /\ t.ents = s.ents /\ t.err = "ok" /\ t.call = s.call
      /\ Fin(t.steps, bits) = Fin(s.steps, bits)
      /\ NoArm(t.steps) <=> NoArm(s.steps)
  BY <1>1, <1>5, Recorded, ZenonT(30) DEF Does
<1> HIDE DEF t
<1>9. After(x, Fin(t.steps, bits)) = Fin(s.steps, bits) \ {i}
  BY <1>1, <1>8, ZenonT(30) DEF After
<1> QED
  BY <1>1, <1>2, <1>8, <1>9, Stepped, SMTT(60), Z3T(60) DEF Gets

LEMMA Armed ==
  ASSUME NEW s \in HType, bits \in SUBSET Inos, s.err = "ok", NEW i \in Inos, s.slot[i].nlink <= 3
  PROVE  Gets(writeThroughFreshInodeSlot(s, i), s.slot, s.ents, Fin(s.steps, bits))
<1> DEFINE x == [do |-> "arm", ino |-> i, in |-> s.slot[i]]
<1>2. x \in StepType /\ x.do = "arm"
  BY HIs, ZenonT(30) DEF StepType, ArmSlot
<1>3. writeThroughFreshInodeSlot(s, i) = Step(s, x)
  BY ZenonT(30) DEF writeThroughFreshInodeSlot
<1> HIDE DEF x
<1>4. After(x, Fin(s.steps, bits)) = Fin(s.steps, bits)
  BY <1>2, ZenonT(30) DEF After
<1> QED
  BY <1>2, <1>3, <1>4, Stepped, SMTT(60), Z3T(60) DEF Gets

(* The handler has got as far as t, and what it has made is the tree of    *)
(* kinds K, parents P, link counts L and entries E, and the bitmap B.      *)
View(t, K, P, L, E, B, g) ==
  /\ t \in HType /\ t.err = "ok" /\ Fin(t.steps, bits) = B /\ Stored(t.slot, t.ents, g)
  /\ KindOf(t.slot) = K /\ ParOf(t.slot) = P /\ LinkOf(t.slot) = L /\ EntOf(t.slot, t.ents) = E

LEMMA ViewIs ==
  ASSUME NEW s, NEW K, NEW P, NEW L, NEW E, NEW B, NEW g, View(s, K, P, L, E, B, g)
  PROVE  /\ TreeTyped(K, P, L, E) /\ s \in HType /\ s.err = "ok" /\ Fin(s.steps, bits) = B
         /\ Stored(s.slot, s.ents, g) /\ B \in SUBSET Inos /\ g \in Nat
         /\ KindOf(s.slot) = K /\ ParOf(s.slot) = P /\ LinkOf(s.slot) = L /\ EntOf(s.slot, s.ents) = E
         /\ s.slot \in [Inos -> SlotType] /\ s.ents \in [Gens -> Page]
         /\ K \in [Inos -> Kinds] /\ P \in [Inos -> Nat] /\ L \in [Inos -> Nat] /\ E \in [Inos -> Page]
         /\ \A i \in Inos : /\ s.slot[i] \in SlotType
                            /\ K[i] = s.slot[i].kind /\ P[i] = s.slot[i].par /\ L[i] = s.slot[i].nlink
                            /\ E[i] = Entries(s.slot, s.ents, i)
                            /\ K[i] # "none" => s.slot[i].gen \in Gens
<1>1. s \in HType /\ s.err = "ok" /\ Fin(s.steps, bits) = B /\ Stored(s.slot, s.ents, g)
      /\ KindOf(s.slot) = K /\ ParOf(s.slot) = P /\ LinkOf(s.slot) = L /\ EntOf(s.slot, s.ents) = E
  BY ZenonT(30) DEF View
<1>3. TreeTyped(K, P, L, E)
  BY <1>1, Viewed, ZenonT(30)
<1>4. \A i \in Inos : /\ K[i] = s.slot[i].kind /\ P[i] = s.slot[i].par /\ L[i] = s.slot[i].nlink
                      /\ E[i] = Entries(s.slot, s.ents, i)
  BY <1>1, Viewed, ZenonT(30)
<1>5. \A i \in Inos : s.slot[i].kind # "none" => s.slot[i].gen \in Gens
  BY <1>1, NamespaceAssumption, SMTT(60), Z3T(60) DEF Stored, Gens, MaxGen
<1> QED
  BY <1>1, <1>3, <1>4, <1>5, FinTyped, HIs, ZenonT(30) DEF TreeTyped, Stored

LEMMA ViewKept ==
  ASSUME NEW s, NEW t, NEW K, NEW P, NEW L, NEW E, NEW B, NEW g, View(s, K, P, L, E, B, g),
         Does(s, t, s.slot, s.ents)
  PROVE  View(t, K, P, L, E, B, g)
  BY ZenonT(30) DEF View, Does

LEMMA ViewRecord ==
  ASSUME NEW s, NEW K, NEW P, NEW L, NEW E, NEW B, NEW g, View(s, K, P, L, E, B, g), bits \in SUBSET Inos,
         NEW i \in Inos
  PROVE  /\ View(journalInodeFull(s, i), K, P, L, E, B, g)
         /\ View(journalInodeUpdate(s, i), K, P, L, E, B, g)
BY ViewKept, Journaled, ViewIs, ZenonT(30)

LEMMA ViewEntryRecord ==
  ASSUME NEW s, NEW K, NEW P, NEW L, NEW E, NEW B, NEW g, View(s, K, P, L, E, B, g), bits \in SUBSET Inos,
         NEW d \in Inos, NEW n \in Names, NEW e \in Entry
  PROVE  View(journalDirUpdate(s, d, n, e), K, P, L, E, B, g)
BY ViewKept, EntryJournaled, ViewIs, ZenonT(30)

LEMMA ViewAdd ==
  ASSUME NEW s, NEW K, NEW P, NEW L, NEW E, NEW B, NEW g, View(s, K, P, L, E, B, g), bits \in SUBSET Inos,
         NEW d \in Inos, NEW n \in Names, NEW x \in Entry, K[d] = "dir", x.ino \in Inos
  PROVE  View(addDirEntry(s, d, n, x, FALSE), K, P, L, SetEntry(E, d, n, x), B, g)
<1> DEFINE pg == [IF s.slot[d].root THEN s.ents[s.slot[d].gen] ELSE Bare EXCEPT ![n] = x]
           sl == [s.slot EXCEPT ![d].root = TRUE]
           en == [s.ents EXCEPT ![s.slot[d].gen] = pg]
           t  == addDirEntry(s, d, n, x, FALSE)
<1>1. s \in HType /\ s.err = "ok" /\ s.slot[d].kind = "dir" /\ s.slot[d].gen \in Gens /\ Stored(s.slot, s.ents, g)
  BY ViewIs, ZenonT(30)
<1>3. Entries(s.slot, s.ents, d) \in Page
  BY <1>1, Viewed, ZenonT(30)
<1>4. pg = [Entries(s.slot, s.ents, d) EXCEPT ![n] = x] /\ pg \in Page /\ pg[n] = x
  BY <1>1, <1>3, ZenonT(30) DEF Page, Entries, Rooted, Stored
<1>5. Does(s, t, sl, en)
  BY <1>1, EntryAdded, ZenonT(30)
<1>e. sl = [s.slot EXCEPT ![d].root = TRUE] /\ en = [s.ents EXCEPT ![s.slot[d].gen] = pg]
  BY ZenonT(30)
<1> HIDE DEF pg, t, sl, en
<1>6. pg # NoPage
  <2>1. pg[n].ino # 0 /\ NoPage[n].ino = 0
    BY <1>4, PagesTyped, RootIn, SMTT(60), Z3T(60)
  <2> QED
    BY <2>1, ZenonT(30)
<1>7. OnlyEntry(s.slot, s.ents, sl, en, d, n, x, g)
  BY <1>e, <1>1, <1>4, <1>6, PageSet, ZenonT(30) DEF Paged
<1> QED
  BY <1>5, <1>7, ZenonT(30) DEF Does, View, t, OnlyEntry

LEMMA ViewRemove ==
  ASSUME NEW s, NEW K, NEW P, NEW L, NEW E, NEW B, NEW g, View(s, K, P, L, E, B, g), bits \in SUBSET Inos,
         NEW d \in Inos, NEW n \in Names, K[d] = "dir", E[d][n] # None
  PROVE  View(removeDirEntry(s, d, n), K, P, L, SetEntry(E, d, n, None), B, g)
<1> DEFINE pg == [s.ents[s.slot[d].gen] EXCEPT ![n] = None]
           sl == [s.slot EXCEPT ![d].root = (pg # Bare)]
           en == [s.ents EXCEPT ![s.slot[d].gen] = pg]
           t  == removeDirEntry(s, d, n)
<1>1. /\ s \in HType /\ s.err = "ok" /\ s.slot[d].kind = "dir" /\ s.slot[d].gen \in Gens /\ Stored(s.slot, s.ents, g)
      /\ E[d] = Entries(s.slot, s.ents, d)
  BY ViewIs, SMTT(60), Z3T(60)
<1>3. Entries(s.slot, s.ents, d) \in Page
  BY <1>1, Viewed, ZenonT(30)
<1>4. pg = [Entries(s.slot, s.ents, d) EXCEPT ![n] = None] /\ pg \in Page /\ pg[n] = None
  BY <1>1, <1>3, NoneIs, PagesTyped, ZenonT(30) DEF Page, Entries
<1>5. Does(s, t, sl, en)
  BY <1>1, EntryRemoved, ZenonT(30)
<1>e. sl = [s.slot EXCEPT ![d].root = (pg # Bare)] /\ en = [s.ents EXCEPT ![s.slot[d].gen] = pg]
  BY ZenonT(30)
<1> HIDE DEF pg, t, sl, en
<1>6. pg # NoPage /\ (pg # Bare) \in BOOLEAN
  BY <1>4, PagesTyped, NoneIs, ZenonT(30)
<1>7. OnlyEntry(s.slot, s.ents, sl, en, d, n, None, g)
  <2>1. PICK rt \in BOOLEAN : rt = (pg # Bare)
    BY <1>6, ZenonT(30)
  <2> QED
    BY <1>e, <1>1, <1>4, <1>6, <2>1, NoneIs, PageSet, ZenonT(30) DEF Paged
<1> QED
  BY <1>5, <1>7, ZenonT(30) DEF Does, View, t, OnlyEntry

(* Fields that no entry depends on.                                        *)
LEMMA ViewSlots ==
  ASSUME NEW s, NEW K, NEW P, NEW L, NEW E, NEW B, NEW g, View(s, K, P, L, E, B, g), NEW sl \in [Inos -> SlotType],
         \A i \in Inos : sl[i].kind = s.slot[i].kind /\ sl[i].gen = s.slot[i].gen /\ sl[i].root = s.slot[i].root
  PROVE  View([s EXCEPT !.slot = sl], K, ParOf(sl), LinkOf(sl), E, B, g)
<1>1. s \in HType /\ Stored(s.slot, s.ents, g) /\ s.ents \in [Gens -> Page]
  BY HIs, ZenonT(30) DEF View
<1>2. Stored(sl, s.ents, g) /\ EntOf(sl, s.ents) = EntOf(s.slot, s.ents) /\ KindOf(sl) = KindOf(s.slot)
  BY <1>1, FieldsSet, Zenon
<1>3. Does(s, [s EXCEPT !.slot = sl], sl, s.ents)
  BY <1>1, SlotsSet, Zenon
<1> QED
  BY <1>2, <1>3, ZenonT(30) DEF View, Does

LEMMA ViewNlink ==
  ASSUME NEW s, NEW K, NEW P, NEW L, NEW E, NEW B, NEW g, View(s, K, P, L, E, B, g), NEW i \in Inos, NEW v \in Nat
  PROVE  View([s EXCEPT !.slot[i].nlink = v], K, P, [L EXCEPT ![i] = v], E, B, g)
<1> DEFINE sl == [s.slot EXCEPT ![i].nlink = v]
<1>1. s \in HType /\ s.slot \in [Inos -> SlotType] /\ KindOf(s.slot) = K /\ ParOf(s.slot) = P /\ LinkOf(s.slot) = L
  BY HIs, ZenonT(30) DEF View
<1>2. /\ sl \in [Inos -> SlotType]
      /\ \A j \in Inos : /\ sl[j].kind = s.slot[j].kind /\ sl[j].gen = s.slot[j].gen /\ sl[j].root = s.slot[j].root
                         /\ sl[j].par = s.slot[j].par /\ sl[j].nlink = IF j = i THEN v ELSE s.slot[j].nlink
  BY <1>1, ZenonT(30) DEF SlotType
<1>3. [s EXCEPT !.slot[i].nlink = v] = [s EXCEPT !.slot = sl]
  BY <1>1, ZenonT(30) DEF HType
<1> HIDE DEF sl
<1>4. View([s EXCEPT !.slot = sl], K, ParOf(sl), LinkOf(sl), E, B, g)
  BY <1>2, ViewSlots, Zenon
<1> QED
  BY <1>1, <1>2, <1>3, <1>4, ZenonT(30) DEF ParOf, LinkOf

LEMMA ViewPar ==
  ASSUME NEW s, NEW K, NEW P, NEW L, NEW E, NEW B, NEW g, View(s, K, P, L, E, B, g), NEW i \in Inos, NEW v \in Nat
  PROVE  View([s EXCEPT !.slot[i].par = v], K, [P EXCEPT ![i] = v], L, E, B, g)
<1> DEFINE sl == [s.slot EXCEPT ![i].par = v]
<1>1. s \in HType /\ s.slot \in [Inos -> SlotType] /\ KindOf(s.slot) = K /\ ParOf(s.slot) = P /\ LinkOf(s.slot) = L
  BY HIs, ZenonT(30) DEF View
<1>2. /\ sl \in [Inos -> SlotType]
      /\ \A j \in Inos : /\ sl[j].kind = s.slot[j].kind /\ sl[j].gen = s.slot[j].gen /\ sl[j].root = s.slot[j].root
                         /\ sl[j].nlink = s.slot[j].nlink /\ sl[j].par = IF j = i THEN v ELSE s.slot[j].par
  BY <1>1, SMTT(60), Z3T(60) DEF SlotType
<1>3. [s EXCEPT !.slot[i].par = v] = [s EXCEPT !.slot = sl]
  BY <1>1, ZenonT(30) DEF HType
<1> HIDE DEF sl
<1>4. View([s EXCEPT !.slot = sl], K, ParOf(sl), LinkOf(sl), E, B, g)
  BY <1>2, ViewSlots, Zenon
<1> QED
  BY <1>1, <1>2, <1>3, <1>4, ZenonT(30) DEF ParOf, LinkOf

LEMMA ViewVal ==
  ASSUME NEW s, NEW K, NEW P, NEW L, NEW E, NEW B, NEW g, View(s, K, P, L, E, B, g), NEW i \in Inos, NEW v \in Vals
  PROVE  View([s EXCEPT !.slot[i].val = v], K, P, L, E, B, g)
<1> DEFINE sl == [s.slot EXCEPT ![i].val = v]
<1>1. s \in HType /\ s.slot \in [Inos -> SlotType] /\ KindOf(s.slot) = K /\ ParOf(s.slot) = P /\ LinkOf(s.slot) = L
  BY HIs, ZenonT(30) DEF View
<1>2. /\ sl \in [Inos -> SlotType]
      /\ \A j \in Inos : /\ sl[j].kind = s.slot[j].kind /\ sl[j].gen = s.slot[j].gen /\ sl[j].root = s.slot[j].root
                         /\ sl[j].nlink = s.slot[j].nlink /\ sl[j].par = s.slot[j].par
  BY <1>1, SMTT(60), Z3T(60) DEF SlotType
<1>3. [s EXCEPT !.slot[i].val = v] = [s EXCEPT !.slot = sl]
  BY <1>1, ZenonT(30) DEF HType
<1> HIDE DEF sl
<1>4. View([s EXCEPT !.slot = sl], K, ParOf(sl), LinkOf(sl), E, B, g)
  BY <1>2, ViewSlots, Zenon
<1> QED
  BY <1>1, <1>2, <1>3, <1>4, ZenonT(30) DEF ParOf, LinkOf

LEMMA ViewLinks ==
  ASSUME NEW s, NEW K, NEW P, NEW L, NEW E, NEW B, NEW g, View(s, K, P, L, E, B, g), bits \in SUBSET Inos,
         NEW d \in Inos, NEW up \in {0, 1}, NEW down \in {0, 1}, L[d] + up >= down
  PROVE  View(updateParentDir(s, d, up, down), K, P, [L EXCEPT ![d] = @ + up - down], E, B, g)
<1>1. s \in HType /\ L[d] = s.slot[d].nlink /\ L \in [Inos -> Nat]
  BY ViewIs, SMTT(60), Z3T(60) DEF TreeTyped
<1> DEFINE v == L[d] + up - down
           t == [s EXCEPT !.slot[d].nlink = v]
<1>2. v \in Nat
  BY <1>1, SMTT(60), Z3T(60)
<1>3. updateParentDir(s, d, up, down) = journalInodeFull(t, d)
  BY <1>1, ZenonT(30) DEF updateParentDir
<1> HIDE DEF v
<1>4. View(t, K, P, [L EXCEPT ![d] = v], E, B, g)
  BY <1>2, ViewNlink, Zenon
<1> HIDE DEF t
<1> QED
  BY <1>3, <1>4, ViewRecord, ZenonT(30) DEF v

(* A number is taken, and given back.                                      *)
LEMMA ViewAlloc ==
  ASSUME NEW s, NEW K, NEW P, NEW L, NEW E, NEW B, View(s, K, P, L, E, B, gens), bits \in SUBSET Inos,
         gens < MaxGen, NEW i \in Inos, NEW kind \in {"dir", "file"}, NEW par \in Nat, K[i] = "none"
  PROVE  View(AllocInode(s, i, kind, par, 0), [K EXCEPT ![i] = kind],
              [P EXCEPT ![i] = IF kind = "dir" THEN par ELSE 0],
              [L EXCEPT ![i] = IF kind = "dir" THEN 2 ELSE 1], E, B \cup {i}, gens + 1)
<1> DEFINE z == [kind |-> kind, nlink |-> IF kind = "dir" THEN 2 ELSE 1, gen |-> gens + 1,
                 par |-> IF kind = "dir" THEN par ELSE 0, root |-> FALSE, val |-> 0]
           sl == [s.slot EXCEPT ![i] = z]
           t  == AllocInode(s, i, kind, par, 0)
<1>1. /\ s \in HType /\ s.err = "ok" /\ Stored(s.slot, s.ents, gens) /\ gens \in Nat /\ s.slot[i].kind = "none"
      /\ KindOf(s.slot) = K /\ ParOf(s.slot) = P /\ LinkOf(s.slot) = L /\ EntOf(s.slot, s.ents) = E
      /\ Fin(s.steps, bits) = B
  BY ViewIs, SMTT(60), Z3T(60)
<1>2. z \in SlotType /\ Gets(t, sl, s.ents, B \cup {i}) /\ (NoArm(s.steps) => NoArm(t.steps))
  BY <1>1, Allocated, ZenonT(60)
<1>3. /\ z.kind = kind /\ z.nlink = (IF kind = "dir" THEN 2 ELSE 1) /\ z.gen = gens + 1 /\ z.root = FALSE
      /\ z.par = IF kind = "dir" THEN par ELSE 0
  BY ZenonT(30)
<1>4. sl = [s.slot EXCEPT ![i] = z]
  BY ZenonT(30)
<1> HIDE DEF t, sl, z
<1>6. /\ Stored(sl, s.ents, gens + 1) /\ EntOf(sl, s.ents) = EntOf(s.slot, s.ents)
      /\ sl[i] = z /\ \A j \in Inos : j # i => sl[j] = s.slot[j]
  <2>1. z.kind # "none" /\ ~z.root /\ z.gen = gens + 1 /\ Put(s.slot, sl, i, z)
    BY <1>3, <1>4, ZenonT(30) DEF Put
  <2>2. Stored(s.slot, s.ents, gens) /\ s.slot[i].kind = "none"
    BY <1>1, ZenonT(30)
  <2> QED
    BY <1>2, <2>1, <2>2, SlotTaken, SMTT(60), Z3T(60)
<1>8. View(t, KindOf(sl), ParOf(sl), LinkOf(sl), E, B \cup {i}, gens + 1)
  BY <1>1, <1>2, <1>6, ZenonT(30) DEF View, Gets
<1> QED
  BY <1>1, <1>3, <1>6, <1>8, ZenonT(30) DEF t, KindOf, ParOf, LinkOf

LEMMA AllocGen ==
  ASSUME NEW s, NEW K, NEW P, NEW L, NEW E, NEW B, View(s, K, P, L, E, B, gens), bits \in SUBSET Inos,
         gens < MaxGen, NEW i \in Inos, NEW kind \in {"dir", "file"}, NEW par \in Nat, K[i] = "none"
  PROVE  /\ AllocInode(s, i, kind, par, 0).slot[i].gen = gens + 1
         /\ NoArm(s.steps) => NoArm(AllocInode(s, i, kind, par, 0).steps)
<1> DEFINE z == [kind |-> kind, nlink |-> IF kind = "dir" THEN 2 ELSE 1, gen |-> gens + 1,
                 par |-> IF kind = "dir" THEN par ELSE 0, root |-> FALSE, val |-> 0]
           sl == [s.slot EXCEPT ![i] = z]
           t  == AllocInode(s, i, kind, par, 0)
<1>1. s \in HType /\ s.err = "ok" /\ gens \in Nat /\ s.slot \in [Inos -> SlotType]
  BY ViewIs, ZenonT(30)
<1>2. z \in SlotType /\ Gets(t, sl, s.ents, Fin(s.steps, bits) \cup {i}) /\ (NoArm(s.steps) => NoArm(t.steps))
  BY <1>1, Allocated, ZenonT(60)
<1>3. sl[i].gen = gens + 1
  BY <1>1, ZenonT(30)
<1> HIDE DEF sl, z
<1> QED
  BY <1>2, <1>3, ZenonT(30) DEF Gets

LEMMA ViewRoot ==
  ASSUME NEW s, NEW K, NEW P, NEW L, NEW E, NEW B, NEW g, View(s, K, P, L, E, B, g), NEW i \in Inos,
         K[i] = "dir", E[i] = Bare, NEW h, s.slot[i].gen = h
  PROVE  View([s EXCEPT !.slot[i].root = TRUE, !.ents[h] = Bare], K, P, L, E, B, g)
<1> DEFINE sl == [s.slot EXCEPT ![i].root = TRUE]
           en == [s.ents EXCEPT ![h] = Bare]
           t  == [s EXCEPT !.slot = sl, !.ents = en]
<1>1. /\ s \in HType /\ s.slot[i].kind = "dir" /\ Stored(s.slot, s.ents, g) /\ h \in Gens
      /\ Entries(s.slot, s.ents, i) = Bare /\ s.slot \in [Inos -> SlotType] /\ s.ents \in [Gens -> Page]
      /\ E \in [Inos -> Page] /\ E = EntOf(s.slot, s.ents)
  BY ViewIs, SMTT(60), Z3T(60)
<1>2. sl \in [Inos -> SlotType] /\ en \in [Gens -> Page]
  BY <1>1, PagesTyped, ZenonT(60) DEF SlotType
<1>3. [s EXCEPT !.slot[i].root = TRUE, !.ents[h] = Bare] = t
  BY <1>1, ZenonT(30) DEF HType
<1>4. PICK n \in Names : TRUE
  BY NamespaceAssumption, ZenonT(30)
<1>5. Bare = [Bare EXCEPT ![n] = None]
  BY ZenonT(30) DEF Bare
<1>6. sl = [s.slot EXCEPT ![i].root = TRUE] /\ en = [s.ents EXCEPT ![h] = Bare]
  BY ZenonT(30)
<1>7. Does(s, t, sl, en)
  BY <1>1, <1>2, SlotsSet, Zenon
<1> HIDE DEF sl, en
<1>9. OnlyEntry(s.slot, s.ents, sl, en, i, n, None, g)
  BY <1>1, <1>5, <1>6, NoneIs, PageSet, PagesTyped, ZenonT(30) DEF Paged
<1>10. SetEntry(E, i, n, None) = E
  BY <1>1, <1>5, ZenonT(30) DEF SetEntry
<1> HIDE DEF t
<1> QED
  BY <1>1, <1>3, <1>7, <1>9, <1>10, ZenonT(30) DEF View, Does, OnlyEntry

LEMMA ViewFree ==
  ASSUME NEW s, NEW K, NEW P, NEW L, NEW E, NEW B, NEW g, View(s, K, P, L, E, B, g), bits \in SUBSET Inos,
         NEW i \in Inos \ {ROOT}, E[i] = Bare
  PROVE  View(FreeInode(s, i), [K EXCEPT ![i] = "none"], [P EXCEPT ![i] = 0], [L EXCEPT ![i] = 0], E, B \ {i}, g)
<1> DEFINE sl == [s.slot EXCEPT ![i] = ZeroSlot]
           t  == FreeInode(s, i)
<1>1. /\ s \in HType /\ s.err = "ok" /\ Stored(s.slot, s.ents, g) /\ Entries(s.slot, s.ents, i) = Bare
      /\ KindOf(s.slot) = K /\ ParOf(s.slot) = P /\ LinkOf(s.slot) = L /\ EntOf(s.slot, s.ents) = E
      /\ Fin(s.steps, bits) = B
  BY ViewIs, SMTT(60), Z3T(60)
<1>2. Gets(t, sl, s.ents, B \ {i})
  BY <1>1, Freed, ZenonT(30)
<1>3. sl = [s.slot EXCEPT ![i] = ZeroSlot]
  BY ZenonT(30)
<1> HIDE DEF t, sl
<1>4. Emptied(s.slot, s.ents, sl, i, g)
  BY <1>1, <1>3, SlotGiven, ZenonT(30) DEF Put
<1>5. KindOf(sl) = [K EXCEPT ![i] = "none"] /\ LinkOf(sl) = [L EXCEPT ![i] = 0] /\ ParOf(sl) = [P EXCEPT ![i] = 0]
  <2>1. ZeroSlot.kind = "none" /\ ZeroSlot.nlink = 0 /\ ZeroSlot.par = 0
    BY ZenonT(30) DEF ZeroSlot
  <2> QED
    BY <1>1, <1>4, <2>1, ZenonT(30) DEF KindOf, ParOf, LinkOf, Emptied
<1> QED
  BY <1>1, <1>2, <1>4, <1>5, ZenonT(30) DEF View, Gets, t, Emptied

LEMMA ViewArm ==
  ASSUME NEW s, NEW K, NEW P, NEW L, NEW E, NEW B, NEW g, View(s, K, P, L, E, B, g), bits \in SUBSET Inos,
         NEW i \in Inos, L[i] <= 3
  PROVE  View(writeThroughFreshInodeSlot(s, i), K, P, L, E, B, g)
<1>2. Gets(writeThroughFreshInodeSlot(s, i), s.slot, s.ents, B)
  BY Armed, ViewIs, SMTT(60), Z3T(60)
<1> QED
  BY <1>2, ZenonT(30) DEF Gets, View

LEMMA ViewBegin ==
  ASSUME NEW c \in CallNames, Stored(slot, ents, gens), bits \in SUBSET Inos
  PROVE  View(Begin(c), KindOf(slot), ParOf(slot), LinkOf(slot), EntOf(slot, ents), bits, gens)
<1>1. slot \in [Inos -> SlotType] /\ ents \in [Gens -> Page]
  BY ZenonT(30) DEF Stored
<1> QED
  BY <1>1, Begun, ZenonT(30) DEF Gets, View

LEMMA ViewUnlinked ==
  ASSUME NEW s, NEW K, NEW P, NEW L, NEW E, NEW B, NEW g, View(s, K, P, L, E, B, g), bits \in SUBSET Inos,
         NEW d \in Inos, NEW n \in Names, NEW i \in Inos, K[d] = "dir", E[d][n] # None, i # d,
         NEW b \in {0, 1}, b = IF K[i] = "dir" THEN 1 ELSE 0, L[d] >= b, b = 0 => L[i] >= 1
  PROVE  View(Unlinked(s, d, n, i), K, P, [[L EXCEPT ![d] = @ - b] EXCEPT ![i] = IF b = 1 THEN 0 ELSE @ - 1],
              SetEntry(E, d, n, None), B, g)
<1> DEFINE F == SetEntry(E, d, n, None)
           t == journalDirUpdate(removeDirEntry(s, d, n), d, n, None)
           v == L[d] - b
           w == IF b = 1 THEN 0 ELSE L[i] - 1
           u == [t EXCEPT !.slot[d].nlink = v]
<1>1. View(t, K, P, L, F, B, g)
  <2>1. View(removeDirEntry(s, d, n), K, P, L, F, B, g)
    BY ViewRemove, Zenon
  <2> HIDE DEF F
  <2> QED
    BY <2>1, ViewEntryRecord, NoneIs, Zenon
<1>2. s.slot[i].kind = K[i] /\ L \in [Inos -> Nat]
  BY ViewIs, SMTT(60), Z3T(60)
<1>3. v \in Nat /\ w \in Nat
  BY <1>2, SMTT(60), Z3T(60)
<1> DEFINE isDir == s.slot[i].kind = "dir"
<1>4. Unlinked(s, d, n, i) = [t EXCEPT !.slot[d].nlink = @ - (IF isDir THEN 1 ELSE 0),
                                       !.slot[i].nlink = IF isDir THEN 0 ELSE @ - 1]
  BY Zenon DEF Unlinked
<1>a. (isDir /\ b = 1) \/ (~isDir /\ b = 0)
  BY <1>2, ZenonT(30)
<1> HIDE DEF t, F, isDir
<1>6. Unlinked(s, d, n, i) = [u EXCEPT !.slot[i].nlink = w]
  <2>1. /\ v = t.slot[d].nlink - (IF isDir THEN 1 ELSE 0)
        /\ w = IF isDir THEN 0 ELSE t.slot[i].nlink - 1
    BY <1>a, <1>1, <1>2, ViewIs, SMTT(60), Z3T(60)
  <2> HIDE DEF v, w
  <2> QED
    BY <1>4, <2>1, Zenon
<1> HIDE DEF v, w
<1>7. View(u, K, P, [L EXCEPT ![d] = v], F, B, g)
  BY <1>1, <1>3, ViewNlink, Zenon
<1> HIDE DEF u
<1>8. View([u EXCEPT !.slot[i].nlink = w], K, P, [[L EXCEPT ![d] = v] EXCEPT ![i] = w], F, B, g)
  BY <1>3, <1>7, ViewNlink, Zenon
<1> QED
  BY <1>2, <1>6, <1>8, ZenonT(30) DEF F, v, w

LEMMA ViewRetire ==
  ASSUME NEW s, NEW K, NEW P, NEW L, NEW E, NEW B, NEW g, View(s, K, P, L, E, B, g), bits \in SUBSET Inos,
         NEW i \in Inos \ {ROOT}
  PROVE  /\ L[i] = 0 /\ E[i] = Bare =>
              View(Retire(s, i), [K EXCEPT ![i] = "none"], [P EXCEPT ![i] = 0], [L EXCEPT ![i] = 0], E, B \ {i}, g)
         /\ L[i] # 0 => View(Retire(s, i), K, P, L, E, B, g)
<1>1. s.err = "ok" /\ L[i] = s.slot[i].nlink
  BY ZenonT(30) DEF View, LinkOf
<1>2. Retire(s, i) = IF L[i] = 0 THEN FreeInode(s, i) ELSE s
  BY <1>1, ZenonT(30) DEF Retire
<1>3. ASSUME E[i] = Bare
      PROVE  View(FreeInode(s, i), [K EXCEPT ![i] = "none"], [P EXCEPT ![i] = 0], [L EXCEPT ![i] = 0], E, B \ {i}, g)
  BY <1>3, ViewFree, ZenonT(30)
<1> QED
  BY <1>2, <1>3, ZenonT(30)

(* A handler that has got as far as t has made a whole tree, with link     *)
(* counts of at most m and the bitmap B that belongs to it.                *)
Whole(t, K, P, L, E, B, g, m) ==
  /\ View(t, K, P, L, E, B, g) /\ TreeOK(K, P, L, E)
  /\ B = {i \in Inos : K[i] # "none"} /\ \A i \in Inos : L[i] <= m

\* What an entry of a whole tree leads to.
LEMMA WholeEntry ==
  ASSUME NEW s, NEW K, NEW P, NEW L, NEW E, NEW B, NEW g, NEW m, Whole(s, K, P, L, E, B, g, m),
         NEW d \in Inos, NEW n \in Names, E[d][n] # None
  PROVE  /\ K[d] = "dir" /\ E[d][n].ino \in Inos \ {ROOT} /\ E[d][n].ino # d /\ E[d][n] \in Entry
         /\ K[E[d][n].ino] = IF E[d][n].dir THEN "dir" ELSE "file"
         /\ E[d][n].dir => L[d] >= 3
         /\ ~E[d][n].dir => L[E[d][n].ino] >= 1
<1> DEFINE i == E[d][n].ino
<1>1. TreeOK(K, P, L, E) /\ TreeTyped(K, P, L, E)
  BY ViewIs, ZenonT(30) DEF Whole
<1>2. /\ K[d] = "dir" /\ i \in Inos \ {ROOT} /\ K[i] = (IF E[d][n].dir THEN "dir" ELSE "file") /\ E[d][n] \in Entry
      /\ L \in [Inos -> Nat]
  BY <1>1, SMTT(60), Z3T(60) DEF TreeOK, Resolved, TreeTyped, Page
<1>3. i # d
  <2>1. CASE E[d][n].dir
    <3>1. d \notin BelowSet(E, i)
      BY <1>1, <2>1, NotBelow, Zenon
    <3>2. i \in BelowSet(E, i)
      BY <1>1, <1>2, BelowLaws, ZenonT(30) DEF TreeOK
    <3> QED
      BY <3>1, <3>2, ZenonT(30)
  <2>2. CASE ~E[d][n].dir
    BY <1>2, <2>2, ZenonT(30)
  <2> QED
    BY <2>1, <2>2, ZenonT(30)
<1>4. ASSUME E[d][n].dir PROVE L[d] >= 3
  <2>1. L[d] = 2 + Cardinality(DirSet(E, d)) /\ n \in DirSet(E, d)
    BY <1>1, <1>2, <1>4, ZenonT(30) DEF TreeOK, Counted, DirSet
  <2>2. IsFiniteSet(DirSet(E, d)) /\ Cardinality(DirSet(E, d)) \in Nat
    BY SetsFinite, Zenon
  <2>3. Cardinality(DirSet(E, d)) # 0
    BY <2>1, <2>2, FS_EmptySet, Zenon
  <2> QED
    BY <2>1, <2>2, <2>3, SMTT(60), Z3T(60)
<1>5. ASSUME ~E[d][n].dir PROVE L[i] >= 1
  <2>1. L[i] # 0 /\ L[i] \in Nat
    BY <1>1, <1>2, <1>5, ZenonT(30) DEF TreeOK, Counted
  <2> QED
    BY <2>1, SMTT(60), Z3T(60)
<1> QED
  BY <1>2, <1>3, <1>4, <1>5, ZenonT(30)

Leads(K, L, E, d, n) ==
  /\ K[d] = "dir" /\ E[d][n].ino \in Inos \ {ROOT} /\ E[d][n].ino # d /\ E[d][n] \in Entry
  /\ K[E[d][n].ino] = IF E[d][n].dir THEN "dir" ELSE "file"
  /\ E[d][n].dir => L[d] >= 3
  /\ ~E[d][n].dir => L[E[d][n].ino] >= 1

LEMMA WholeLeads ==
  ASSUME NEW s, NEW K, NEW P, NEW L, NEW E, NEW B, NEW g, NEW m, Whole(s, K, P, L, E, B, g, m),
         NEW d \in Inos, NEW n \in Names, E[d][n] # None
  PROVE  Leads(K, L, E, d, n)
  BY WholeEntry, ZenonT(60) DEF Leads

(* An entry goes, and with the last entry of an inode the inode.           *)
Drops(s, u, E, d, n, i) ==
  /\ E[d][n] # None /\ i = E[d][n].ino /\ (E[d][n].dir => E[i] = Bare)
  /\ \/ u = journalInodeFull(Unlinked(s, d, n, i), i)
     \/ u = journalInodeUpdate(Unlinked(s, d, n, i), i)

Dropped(t, K, L, E, d, n, i, g, m) ==
  \E K2, P2, L2, B2 :
    /\ Whole(t, K2, P2, L2, SetEntry(E, d, n, None), B2, g, m)
    /\ \A j \in Inos : K2[j] = IF j = i /\ (E[d][n].dir \/ L[i] = 1) THEN "none" ELSE K[j]

LEMMA WholeUnlink ==
  ASSUME NEW s, NEW K, NEW P, NEW L, NEW E, NEW B, NEW g, NEW m \in Nat, Whole(s, K, P, L, E, B, g, m),
         bits \in SUBSET Inos, NEW d \in Inos, NEW n \in Names, NEW i, NEW u, Drops(s, u, E, d, n, i)
  PROVE  Dropped(Retire(u, i), K, L, E, d, n, i, g, m)
<1>a. SUFFICES ASSUME E[d][n] # None, i = E[d][n].ino, E[d][n].dir => E[i] = Bare,
                    \/ u = journalInodeFull(Unlinked(s, d, n, i), i)
                    \/ u = journalInodeUpdate(Unlinked(s, d, n, i), i)
             PROVE  \E K2, P2, L2, B2 :
                      /\ Whole(Retire(u, i), K2, P2, L2, SetEntry(E, d, n, None), B2, g, m)
                      /\ \A j \in Inos : K2[j] = IF j = i /\ (E[d][n].dir \/ L[i] = 1) THEN "none" ELSE K[j]
  BY Zenon DEF Drops, Dropped
<1> DEFINE x  == E[d][n]
           F  == SetEntry(E, d, n, None)
           b  == IF K[i] = "dir" THEN 1 ELSE 0
           L1 == [[L EXCEPT ![d] = @ - b] EXCEPT ![i] = IF b = 1 THEN 0 ELSE @ - 1]
<1>1. /\ View(s, K, P, L, E, B, g) /\ TreeOK(K, P, L, E) /\ B = {j \in Inos : K[j] # "none"}
      /\ \A j \in Inos : L[j] <= m
  BY <1>a, ZenonT(30) DEF Whole
<1>2. /\ TreeTyped(K, P, L, E) /\ K \in [Inos -> Kinds] /\ L \in [Inos -> Nat] /\ P \in [Inos -> Nat]
      /\ E \in [Inos -> Page]
  BY <1>a, <1>1, ViewIs, ZenonT(30)
<1>3. /\ K[d] = "dir" /\ i \in Inos \ {ROOT} /\ i # d /\ x \in Entry /\ K[i] = (IF x.dir THEN "dir" ELSE "file")
      /\ (x.dir => L[d] >= 3) /\ (~x.dir => L[i] >= 1) /\ x.dir \in BOOLEAN /\ i \in Inos
  <2>1. /\ K[d] = "dir" /\ x.ino \in Inos \ {ROOT} /\ x.ino # d /\ x \in Entry
        /\ K[x.ino] = (IF x.dir THEN "dir" ELSE "file")
        /\ (x.dir => L[d] >= 3) /\ (~x.dir => L[x.ino] >= 1)
    BY <1>a, WholeEntry, ZenonT(30)
  <2>2. x.dir \in BOOLEAN
    BY <1>a, <2>1, ZenonT(30) DEF Entry
  <2> QED
    BY <1>a, <2>1, <2>2, ZenonT(30)
<1>4. b \in {0, 1} /\ L[d] >= b /\ (b = 0 => L[i] >= 1) /\ b = (IF x.dir THEN 1 ELSE 0) /\ L[i] \in Nat /\ L[d] \in Nat
  BY <1>a, <1>2, <1>3, SMTT(60), Z3T(60)
<1>5. b = IF K[i] = "dir" THEN 1 ELSE 0
  BY <1>a, ZenonT(30)
<1>6. /\ L1 \in [Inos -> Nat] /\ L1[i] = (IF x.dir THEN 0 ELSE L[i] - 1)
      /\ \A j \in Inos : j # i => L1[j] = L[j] - (IF j = d /\ x.dir THEN 1 ELSE 0)
  BY <1>a, <1>2, <1>3, <1>4, SMTT(60), Z3T(60)
<1> HIDE DEF b
<1>7. View(Unlinked(s, d, n, i), K, P, L1, F, B, g)
  <2>1. /\ View(s, K, P, L, E, B, g) /\ i \in Inos /\ K[d] = "dir" /\ i # d /\ b \in {0, 1}
        /\ L[d] >= b /\ (b = 0 => L[i] >= 1)
    BY <1>a, <1>1, <1>3, <1>4, ZenonT(30)
  <2> QED
    BY <1>a, <1>5, <2>1, ViewUnlinked, ZenonT(30)
<1> HIDE DEF L1
<1>8. View(u, K, P, L1, F, B, g)
  <2> HIDE DEF F
  <2>1. /\ View(journalInodeFull(Unlinked(s, d, n, i), i), K, P, L1, F, B, g)
        /\ View(journalInodeUpdate(Unlinked(s, d, n, i), i), K, P, L1, F, B, g)
    BY <1>a, <1>3, <1>7, ViewRecord, Zenon
  <2> QED
    BY <1>a, <2>1, Zenon
<1>9. F \in [Inos -> Page] /\ F[i] = E[i]
  BY <1>a, <1>2, <1>3, EntrySet, NoneIs, SMTT(60), Z3T(60)
<1>10. CASE x.dir \/ L[i] = 1
  <2> DEFINE K2 == [K EXCEPT ![i] = "none"]
             P2 == [P EXCEPT ![i] = 0]
             L2 == [L1 EXCEPT ![i] = 0]
             B2 == B \ {i}
  <2>1. F[i] = Bare
    <3>1. CASE x.dir
      BY <1>a, <1>9, <3>1, ZenonT(30)
    <3>2. CASE ~x.dir
      <4>1. \A k \in Names : E[i][k] = None
        BY <1>a, <1>1, <1>2, <1>3, <3>2, OutsideTree, SMTT(60), Z3T(60)
      <4> QED
        BY <1>a, <1>2, <1>3, <1>9, <4>1, ZenonT(30) DEF Bare, Page
    <3> QED
      BY <1>a, <3>1, <3>2, ZenonT(30)
  <2>2. L1[i] = 0
    BY <1>a, <1>6, <1>10, SMTT(60), Z3T(60)
  <2>3. View(Retire(u, i), K2, P2, L2, F, B2, g)
    BY <1>a, <1>3, <1>8, <2>1, <2>2, ViewRetire, Zenon
  <2>4. /\ K2[i] = "none" /\ \A j \in Inos : j # i =>
             K2[j] = K[j] /\ P2[j] = P[j] /\ L2[j] = L[j] - (IF j = d /\ x.dir THEN 1 ELSE 0)
        /\ L2[i] = 0
    BY <1>a, <1>2, <1>3, <1>6, ZenonT(30)
  <2>5. B2 = {j \in Inos : K2[j] # "none"}
    BY <1>a, <1>1, <2>4, ZenonT(30)
  <2>6. \A j \in Inos : L2[j] <= m
    BY <1>a, <1>1, <1>2, <2>4, SMTT(60), Z3T(60)
  <2> HIDE DEF K2, P2, L2, B2
  <2>7. TreeOK(K2, P2, L2, F)
    <3> DEFINE dead == TRUE
    <3>1. /\ dead \in BOOLEAN /\ (dead <=> (x.dir \/ L[i] = 1)) /\ K2[i] = (IF dead THEN "none" ELSE K[i])
          /\ (~dead => L2[i] = L[i] - 1)
      BY <1>a, <1>10, <2>4, ZenonT(30)
    <3>2. x.dir => \A k \in Names : E[i][k] = None
      BY <1>a, ZenonT(30) DEF Bare
    <3>3. UnlinkEdit(K, P, L, E, K2, P2, L2, F, d, n, i, dead)
      BY <1>a, <2>4, <3>1, <3>2, ZenonT(30) DEF UnlinkEdit
    <3>4. TreeTyped(K, P, L, E) /\ TreeOK(K, P, L, E) /\ i \in Inos
      BY <1>a, <1>1, <1>2, <1>3, ZenonT(30)
    <3> HIDE DEF F, dead
    <3> QED
      BY <3>3, <3>4, TreeUnlink, ZenonT(30)
  <2>8. Whole(Retire(u, i), K2, P2, L2, F, B2, g, m)
    BY <1>a, <2>3, <2>5, <2>6, <2>7, ZenonT(30) DEF Whole
  <2>9. \A j \in Inos : K2[j] = IF j = i /\ (x.dir \/ L[i] = 1) THEN "none" ELSE K[j]
    BY <1>a, <1>10, <2>4, ZenonT(30)
  <2> QED
    BY <1>a, <2>8, <2>9, ZenonT(30)
<1>11. CASE ~(x.dir \/ L[i] = 1)
  <2>1. L1[i] # 0
    <3>1. L1[i] = L[i] - 1 /\ L[i] # 1 /\ L[i] \in Nat
      BY <1>4, <1>6, <1>11, ZenonT(30)
    <3> QED
      BY <3>1, SMTT(60), Z3T(60)
  <2>2. View(Retire(u, i), K, P, L1, F, B, g)
    BY <1>a, <1>3, <1>8, <2>1, ViewRetire, Zenon
  <2>3. \A j \in Inos : L1[j] <= m
    BY <1>a, <1>1, <1>2, <1>3, <1>6, SMTT(60), Z3T(60)
  <2>4. TreeOK(K, P, L1, F)
    <3> DEFINE dead == FALSE
    <3>1. /\ dead \in BOOLEAN /\ (dead <=> (x.dir \/ L[i] = 1)) /\ K[i] = (IF dead THEN "none" ELSE K[i])
          /\ (~dead => L1[i] = L[i] - 1)
      BY <1>a, <1>6, <1>11, ZenonT(30)
    <3>2. x.dir => \A k \in Names : E[i][k] = None
      BY <1>a, ZenonT(30) DEF Bare
    <3>3. UnlinkEdit(K, P, L, E, K, P, L1, F, d, n, i, dead)
      BY <1>a, <1>6, <3>1, <3>2, ZenonT(30) DEF UnlinkEdit
    <3>4. TreeTyped(K, P, L, E) /\ TreeOK(K, P, L, E) /\ i \in Inos
      BY <1>a, <1>1, <1>2, <1>3, ZenonT(30)
    <3> HIDE DEF F, dead
    <3> QED
      BY <3>3, <3>4, TreeUnlink, ZenonT(30)
  <2>5. Whole(Retire(u, i), K, P, L1, F, B, g, m)
    BY <1>a, <1>1, <2>2, <2>3, <2>4, ZenonT(30) DEF Whole
  <2> QED
    BY <1>a, <1>11, <2>5, ZenonT(30)
<1> QED
  BY <1>a, <1>10, <1>11, ZenonT(30)

(* A directory's parent pointer, and the links of its parents.             *)
Moved(t, K, P, L, E, B, g, d, e, i) ==
  \E P2, L2 :
    /\ View(t, K, P2, L2, E, B, g)
    /\ \A j \in Inos : P2[j] = IF j = i /\ d # e /\ K[i] = "dir" THEN e ELSE P[j]
    /\ \A j \in Inos : L2[j] = IF d = e \/ K[i] # "dir" \/ j \notin {d, e} THEN L[j]
                               ELSE IF j = d THEN L[j] - 1 ELSE L[j] + 1

LEMMA ViewMoved ==
  ASSUME NEW s, NEW K, NEW P, NEW L, NEW E, NEW B, NEW g, View(s, K, P, L, E, B, g), bits \in SUBSET Inos,
         NEW d \in Inos, NEW e \in Inos, NEW i \in Inos, d # e /\ K[i] = "dir" => L[d] >= 1
  PROVE  Moved(finishCrossDirMove(s, d, e, i), K, P, L, E, B, g, d, e, i)
<1> DEFINE dirMove == d # e /\ s.slot[i].kind = "dir"
           up == IF dirMove THEN 1 ELSE 0
           p  == IF dirMove THEN journalInodeFull([s EXCEPT !.slot[i].par = e], i) ELSE s
           q  == updateParentDir(p, d, 0, up)
           r  == IF d # e THEN updateParentDir(q, e, up, 0) ELSE q
           P2 == IF dirMove THEN [P EXCEPT ![i] = e] ELSE P
           L1 == [L EXCEPT ![d] = @ + 0 - up]
           L2 == IF d # e THEN [L1 EXCEPT ![e] = @ + up - 0] ELSE L1
<1>1. finishCrossDirMove(s, d, e, i) = journalInodeFull(r, i)
  BY Zenon DEF finishCrossDirMove
<1>2. s.slot[i].kind = K[i] /\ L \in [Inos -> Nat] /\ P \in [Inos -> Nat] /\ e \in Nat
  BY ViewIs, NamespaceAssumption, SMTT(60), Z3T(60)
<1>3. View(p, K, P2, L, E, B, g)
  <2>1. CASE dirMove
    <3>1. View([s EXCEPT !.slot[i].par = e], K, [P EXCEPT ![i] = e], L, E, B, g)
      BY <1>2, ViewPar, Zenon
    <3>2. View(journalInodeFull([s EXCEPT !.slot[i].par = e], i), K, [P EXCEPT ![i] = e], L, E, B, g)
      BY <3>1, ViewRecord, Zenon
    <3> QED
      BY <2>1, <3>2, Zenon
  <2>2. CASE ~dirMove
    BY <2>2, Zenon
  <2> QED
    BY <2>1, <2>2, ZenonT(30)
<1>4. up \in {0, 1} /\ 0 \in {0, 1} /\ L[d] + 0 >= up /\ L1 \in [Inos -> Nat] /\ (up = 1 <=> dirMove) /\ L1[e] + up >= 0
  BY <1>2, SMTT(60), Z3T(60)
<1> HIDE DEF dirMove, p, P2
<1>5. View(q, K, P2, L1, E, B, g)
  <2> HIDE DEF up
  <2> QED
    BY <1>3, <1>4, ViewLinks, Zenon
<1> HIDE DEF q, L1
<1>6. View(r, K, P2, L2, E, B, g)
  <2>1. CASE d # e
    <3> HIDE DEF up
    <3>1. View(updateParentDir(q, e, up, 0), K, P2, [L1 EXCEPT ![e] = @ + up - 0], E, B, g)
      BY <1>4, <1>5, ViewLinks, Zenon
    <3> QED
      BY <2>1, <3>1, Zenon
  <2>2. CASE d = e
    BY <1>5, <2>2, Zenon
  <2> QED
    BY <2>1, <2>2, ZenonT(30)
<1> HIDE DEF r, L2
<1>7. View(journalInodeFull(r, i), K, P2, L2, E, B, g)
  BY <1>6, ViewRecord, Zenon
<1>8. \A j \in Inos : P2[j] = IF j = i /\ d # e /\ K[i] = "dir" THEN e ELSE P[j]
  BY <1>2, ZenonT(30) DEF P2, dirMove
<1>9. \A j \in Inos : L2[j] = IF d = e \/ K[i] # "dir" \/ j \notin {d, e} THEN L[j]
                              ELSE IF j = d THEN L[j] - 1 ELSE L[j] + 1
  <2>1. CASE dirMove
    BY <1>2, <2>1, SMTT(60), Z3T(60) DEF L2, L1, dirMove
  <2>2. CASE ~dirMove
    BY <1>2, <2>2, SMTT(60), Z3T(60) DEF L2, L1, dirMove
  <2> QED
    BY <2>1, <2>2, ZenonT(30)
<1> QED
  BY <1>1, <1>7, <1>8, <1>9, ZenonT(30) DEF Moved
=============================================================================
