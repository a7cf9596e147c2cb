-------------------------------- MODULE Trie --------------------------------
(***************************************************************************)
(* Directory tries (fuse/trie_mutate.go, fuse/trie.go, briefs/trie_walk.go,*)
(* briefs/trie_disk.go): packed pages of node slots with a name heap, the  *)
(* pool of partial pages every directory shares, and the engine calls a    *)
(* directory operation makes under the global directory lock.              *)
(*                                                                         *)
(* An operation works on the operation cache and ends by merging it or, on *)
(* any error, by dropping it.  The partial pool, the allocator and the     *)
(* queue of pending frees are outside that cache: they keep what a failed  *)
(* operation did to them.                                                  *)
(***************************************************************************)
EXTENDS Naturals, FiniteSets, Sequences, SequencesExt, FiniteSetsExt

CONSTANTS Dirs, Names, Inos,
          SubDirs,         \* the directories mkdir and rmdir come and go with
          PoolSize,        \* data blocks
          SlotsPerPage,    \* TrieSlotsPerBlock
          HeapSize,        \* room for names in a page
          LenPrefix,       \* the length prefix of a stored name
          SiblingMax,      \* briefs.TrieSiblingMax
          Calls, MaxCalls

VARIABLES page,    \* block -> what a reader finds there
          root,    \* directory -> DirTrieRoot
          part,    \* triePartials
          free,    \* the allocator's free blocks
          pend,    \* pendingFrees
          made,    \* the directories that exist
          failed,  \* some call has failed since mount
          op, ret, calls,
          view     \* what TrieLookup answers, per directory and name

vars == <<page, root, part, free, pend, made, failed, op, ret, calls, view>>

Blocks  == 1..PoolSize
SlotNos == 0..(SlotsPerPage - 1)
Null    == <<0, 0>>
Refs    == (Blocks \X SlotNos) \cup {Null}
NoName  == <<>>
Size(n) == Len(n) + LenPrefix

ZeroSlot ==
  [byte |-> 0, interm |-> FALSE, leaf |-> FALSE, ino |-> 0, first |-> Null,
   next |-> Null, count |-> 0, noff |-> 0, nlen |-> 0]

\* A block without the trie page magic.
NotAPage == [magic |-> FALSE, live |-> 0, used |-> 0, free |-> {},
             slot |-> [i \in SlotNos |-> ZeroSlot],
             heap |-> [k \in 1..HeapSize |-> <<>>]]

(***************************************************************************)
(* The working state of one operation.  `base` is the block content the    *)
(* operation started from, `ref` the last node allocated.                  *)
(***************************************************************************)
Begin == [page |-> page, root |-> root, part |-> part, free |-> free, pend |-> pend,
          base |-> page, err |-> "ok", ref |-> Null]

Fail(s, e)       == [s EXCEPT !.err = e]
Then(s, F(_))    == IF s.err = "ok" THEN F(s) ELSE s
Node(p, r)       == p[r[1]].slot[r[2]]
putSlot(s, r, n) == [s EXCEPT !.page[r[1]].slot[r[2]] = n]
TrieIsLeaf(n)    == ~n.interm \/ n.leaf

\* The nodes of a sibling chain, in order; the walk gives up after SiblingMax.
RECURSIVE Chain(_, _, _)
Chain(p, r, hops) ==
  IF r = Null \/ hops = SiblingMax \/ ~p[r[1]].magic THEN <<>>
  ELSE <<r>> \o Chain(p, Node(p, r).next, hops + 1)

Children(p, r) == Chain(p, Node(p, r).first, 0)

trieScanSiblings(p, r, b) ==
  LET c == Children(p, r)
      i == SelectInSeq(c, LAMBDA x : Node(p, x).byte = b)
  IN  [child |-> IF i = 0 THEN Null ELSE c[i],
       prev  |-> IF i <= 1 THEN Null ELSE c[i - 1]]

TrieFindChild(p, r, b) == trieScanSiblings(p, r, b).child

(***************************************************************************)
(* The name heap.  A cell holds one unit of one stored name.               *)
(***************************************************************************)
ReadTrieName(pg, n) ==
  LET fits == {m \in Names : /\ n.noff # 0 /\ n.nlen = Size(m)
                             /\ \A k \in 1..n.nlen : /\ n.noff - k + 1 \in DOMAIN pg.heap
                                                     /\ pg.heap[n.noff - k + 1] = <<m, k>>}
  IN  IF fits = {} THEN NoName ELSE CHOOSE m \in fits : TRUE

WriteTrieName(pg, off, m) ==
  [pg EXCEPT !.heap = [c \in DOMAIN @ |-> IF c \in (off - Size(m) + 1)..off
                                          THEN <<m, off - c + 1>> ELSE @[c]]]

triePageHasNameHeap(pg, size) == size = 0 \/ pg.used + size <= HeapSize

\* Live names packed in slot order, through a scratch copy of the heap.
Named(pg) == {i \in SlotNos \ pg.free : pg.slot[i].noff # 0 /\ pg.slot[i].nlen # 0}

PackedOff(pg, i) == MapThenSumSet(LAMBDA j : pg.slot[j].nlen, {j \in Named(pg) : j <= i})

Packed(pg) ==
  [pg EXCEPT
     !.used = MapThenSumSet(LAMBDA j : pg.slot[j].nlen, Named(pg)),
     !.heap = [c \in DOMAIN @ |->
                 LET at == {i \in Named(pg) : c \in (PackedOff(pg, i) - pg.slot[i].nlen + 1)..PackedOff(pg, i)}
                 IN  IF at = {} THEN @[c]
                     ELSE LET i == CHOOSE i \in at : TRUE
                          IN  @[c - PackedOff(pg, i) + pg.slot[i].noff]]]

\* Faulty: the names move but the slots keep their old offsets.
CompactWithoutRepoint(pg) == Packed(pg)

triePageCompactNames(pg) ==
  [Packed(pg) EXCEPT
     !.slot = [i \in SlotNos |-> IF i \in Named(pg) THEN [@[i] EXCEPT !.noff = PackedOff(pg, i)]
                                 ELSE @[i]]]

reserveNameHeap(pg, i, size) ==
  IF size = 0 THEN pg
  ELSE [pg EXCEPT !.used = @ + size, !.slot[i].noff = pg.used + size, !.slot[i].nlen = size]

\* trieStoreName with triePageAllocName: a large enough reservation is reused;
\* a full heap is compacted once, and stays compacted if that was not enough.
Stored(pg, n, i, off, m) ==
  [WriteTrieName(pg, off, m) EXCEPT !.slot[i] = [n EXCEPT !.noff = off, !.nlen = Size(m)]]

trieStoreName(s, r, m) ==
  LET n == Node(s.page, r)
      triePageAllocName(pg) ==
        IF ~triePageHasNameHeap(pg, Size(m)) THEN Fail([s EXCEPT !.page[r[1]] = pg], "ENOSPC")
        ELSE [s EXCEPT !.page[r[1]] =
                Stored([pg EXCEPT !.used = @ + Size(m)], n, r[2], pg.used + Size(m), m)]
      Room(pg) == pg.used = 0 \/ triePageHasNameHeap(pg, Size(m))
  IN  IF n.noff > 0 /\ n.nlen >= Size(m)
        THEN [s EXCEPT !.page[r[1]] = Stored(@, n, r[2], n.noff, m)]
        ELSE triePageAllocName(IF Room(s.page[r[1]]) THEN s.page[r[1]] ELSE triePageCompactNames(s.page[r[1]]))

(***************************************************************************)
(* Pages and nodes                                                         *)
(***************************************************************************)
\* AllocBlock: the lowest free block; a failed scan makes pending frees
\* available once (the reclaim hook syncs the journal) and tries again.
allocBlock(s) ==
  LET t == IF s.free # {} THEN s ELSE [s EXCEPT !.free = s.pend, !.pend = {}]
  IN  IF t.free = {} THEN Fail(t, "ENOSPC")
      ELSE [t EXCEPT !.free = @ \ {Min(t.free)}, !.ref = <<Min(t.free), 0>>]

addPartial(s, b)    == IF Contains(s.part, b) THEN s ELSE [s EXCEPT !.part = Append(@, b)]
removePartial(s, b) == [s EXCEPT !.part = SelectSeq(@, LAMBDA x : x # b)]

triePageInit(s, interm) ==
  Then(allocBlock(s), LAMBDA t :
    addPartial([t EXCEPT !.page[t.ref[1]] =
                  [NotAPage EXCEPT !.magic = TRUE, !.live = 1, !.free = SlotNos \ {0},
                                   !.slot[0].interm = interm]], t.ref[1]))

\* The first pool page with heap room and a free slot takes the node at its
\* lowest free slot.  Full and unreadable pages met on the way leave the pool.
trieAllocNode(s, size) ==
  LET Drop(b) == LET pg == s.page[b]
                 IN  ~pg.magic \/ (triePageHasNameHeap(pg, size) /\ pg.free = {})
      Take(b) == LET pg == s.page[b]
                 IN  pg.magic /\ triePageHasNameHeap(pg, size) /\ pg.free # {}
      i    == SelectInSeq(s.part, Take)
      seen == IF i = 0 THEN Len(s.part) ELSE i - 1
      kept == SelectSeq(SubSeq(s.part, 1, seen), LAMBDA b : ~Drop(b))
      b    == s.part[i]
      k    == Min(s.page[b].free)
      last == s.page[b].free = {k}
  IN  IF i = 0
        THEN Then(triePageInit([s EXCEPT !.part = kept], FALSE), LAMBDA t :
               [t EXCEPT !.page[t.ref[1]] = reserveNameHeap(@, 0, size)])
        ELSE [s EXCEPT
                !.part = kept \o (IF last THEN <<>> ELSE <<b>>) \o SubSeq(s.part, i + 1, Len(s.part)),
                !.page[b] = reserveNameHeap([@ EXCEPT !.free = @ \ {k}, !.live = @ + 1,
                                                      !.slot[k] = ZeroSlot], k, size),
                !.ref = <<b, k>>]

\* Faulty: an emptied page goes back to the pool instead of to the allocator.
FreeNodeKeepingPage(s, r) ==
  IF r = Null \/ r[2] \in s.page[r[1]].free THEN s
  ELSE addPartial([s EXCEPT !.page[r[1]] = [@ EXCEPT !.free = @ \cup {r[2]}, !.live = @ - 1,
                                                    !.slot[r[2]] = ZeroSlot]], r[1])

\* Faulty: the page goes while one node is left.
FreeNodeEarly(s, r) ==
  LET pg == s.page[r[1]]
  IN  IF r = Null \/ r[2] \in pg.free THEN s
      ELSE IF pg.live > 2 THEN FreeNodeKeepingPage(s, r)
      ELSE removePartial([s EXCEPT !.page[r[1]] = s.base[r[1]], !.pend = @ \cup {r[1]}], r[1])

\* The last node of a page takes the page with it: the cached copy is dropped
\* (readers find what was there before), and the block is free once committed.
trieFreeNode(s, r) ==
  LET b  == r[1]
      pg == s.page[b]
  IN  IF r = Null \/ r[2] \in pg.free THEN s
      ELSE IF pg.live > 1
        THEN addPartial([s EXCEPT !.page[b] = [pg EXCEPT !.free = @ \cup {r[2]}, !.live = @ - 1,
                                                         !.slot[r[2]] = ZeroSlot]], b)
        ELSE removePartial([s EXCEPT !.page[b] = s.base[b], !.pend = @ \cup {b}], b)

trieLinkChild(s, parent, child) ==
  LET c == Children(s.page, parent)
      t == IF c = <<>> THEN [s EXCEPT !.page[parent[1]].slot[parent[2]].first = child]
           ELSE [s EXCEPT !.page[Last(c)[1]].slot[Last(c)[2]].next = child]
  IN  [t EXCEPT !.page[parent[1]].slot[parent[2]].count = @ + 1]

trieCreateChild(s, parent, b, interm, size) ==
  Then(trieAllocNode(s, size), LAMBDA t :
    trieLinkChild(putSlot(t, t.ref, [Node(t.page, t.ref) EXCEPT !.byte = b, !.interm = interm]),
                  parent, t.ref))

\* Whatever points at `old` in the parent's chain points at `new`.
trieRelinkSibling(s, parent, old, new) ==
  LET c == Children(s.page, parent)
      i == SelectInSeq(c, LAMBDA x : x = old)
  IN  IF i = 1 THEN [s EXCEPT !.page[parent[1]].slot[parent[2]].first = new]
      ELSE IF i > 1 THEN [s EXCEPT !.page[c[i - 1][1]].slot[c[i - 1][2]].next = new]
      ELSE s

\* Faulty: the parent still counts the child.
UnlinkUncounted(s, parent, child) ==
  trieRelinkSibling(s, parent, child, Node(s.page, child).next)

trieUnlinkChild(s, parent, child) ==
  [trieRelinkSibling(s, parent, child, Node(s.page, child).next) EXCEPT
     !.page[parent[1]].slot[parent[2]].count = @ - 1]

(***************************************************************************)
(* Insert, update, remove                                                  *)
(***************************************************************************)
trieCreateRoot(s, d) ==
  Then(triePageInit(s, TRUE), LAMBDA t : [t EXCEPT !.root[d] = t.ref])

\* The name is stored before the node becomes a leaf.
commitLeafNode(s, r, m, i) ==
  Then(trieStoreName(s, r, m), LAMBDA t :
    putSlot(t, r, [Node(t.page, r) EXCEPT !.leaf = Node(s.page, r).interm, !.ino = i]))

\* A leaf met on the way down is a prefix of the new name: it also becomes an
\* inner node.  (LeavesEndTheirNames: it cannot be anything else.)
trieSplitLeaf(s, r) == putSlot(s, r, [Node(s.page, r) EXCEPT !.interm = TRUE, !.leaf = TRUE])

RECURSIVE InsertBelow(_, _, _, _, _)
InsertBelow(s, cur, m, pos, i) ==
  LET last == pos = Len(m)
      At(c) ==
        IF c = Null THEN trieCreateChild(s, cur, m[pos], ~last, IF last THEN Size(m) ELSE 0)
        ELSE LET n == Node(s.page, c)
             IN  IF last /\ TrieIsLeaf(n) /\ ReadTrieName(s.page[c[1]], n) = m THEN Fail(s, "EEXIST")
                 ELSE [(IF last \/ n.interm THEN s ELSE trieSplitLeaf(s, c)) EXCEPT !.ref = c]
  IN  Then(At(TrieFindChild(s.page, cur, m[pos])), LAMBDA t :
        IF last THEN commitLeafNode(t, t.ref, m, i) ELSE InsertBelow(t, t.ref, m, pos + 1, i))

TrieInsert(s, d, m, i) ==
  Then(IF s.root[d] = Null THEN trieCreateRoot(s, d) ELSE s, LAMBDA t :
    InsertBelow(t, t.root[d], m, 1, i))

\* The node a name leads to, through inner nodes only, or Null.
RECURSIVE Walk(_, _, _, _)
Walk(p, cur, m, pos) ==
  LET At(c) == IF c = Null \/ pos = Len(m) THEN c
               ELSE IF ~Node(p, c).interm THEN Null ELSE Walk(p, c, m, pos + 1)
  IN  At(TrieFindChild(p, cur, m[pos]))

Entry(p, r, m) ==
  LET Check(c) ==
        IF c # Null /\ TrieIsLeaf(Node(p, c)) /\ ReadTrieName(p[c[1]], Node(p, c)) = m THEN c ELSE Null
  IN  Check(IF r = Null THEN Null ELSE Walk(p, r, m, 1))

TrieUpdateEntry(s, d, m, i) ==
  LET Put(c) == IF c = Null THEN Fail(s, "ENOENT")
                ELSE putSlot(s, c, [Node(s.page, c) EXCEPT !.ino = i])
  IN  Put(Entry(s.page, s.root[d], m))

Empty(n) == n.interm /\ ~n.leaf /\ n.count = 0 /\ n.first = Null

\* Empty inner nodes go, from the removed leaf's parent upward; then the root.
RECURSIVE collapseAncestry(_, _, _)
collapseAncestry(s, d, path) ==
  IF Len(path) > 1 /\ Empty(Node(s.page, Last(path)))
    THEN collapseAncestry(trieFreeNode(trieUnlinkChild(s, path[Len(path) - 1], Last(path)), Last(path)),
                          d, Front(path))
    ELSE IF Empty(Node(s.page, s.root[d]))
      THEN trieFreeNode([s EXCEPT !.root[d] = Null], s.root[d])
      ELSE s

\* The nodes from r down to the last byte of the name, as far as they exist.
RECURSIVE Path(_, _, _, _)
Path(p, r, m, pos) ==
  LET c == IF pos > Len(m) THEN Null ELSE TrieFindChild(p, r, m[pos])
  IN  IF c = Null THEN <<r>> ELSE <<r>> \o Path(p, c, m, pos + 1)

\* `path` leads to the node of m.
RemoveLeaf(s, d, m, path) ==
  LET c == Last(path)
      n == Node(s.page, c)
  IN  IF s.root[d] = Null \/ Len(path) # Len(m) + 1 \/ ~TrieIsLeaf(n) THEN Fail(s, "ENOENT")
      ELSE IF n.interm /\ (n.first # Null \/ n.count # 0)
        THEN putSlot(s, c, [n EXCEPT !.leaf = FALSE])
        ELSE collapseAncestry(trieFreeNode(trieUnlinkChild(s, path[Len(m)], c), c), d, Front(path))

TrieRemove(s, d, m) == RemoveLeaf(s, d, m, Path(s.page, s.root[d], m, 1))

\* An entry that exists is updated; failing that it is removed and inserted.
Again(s, e, F(_)) == IF s.err = e THEN F([s EXCEPT !.err = "ok"]) ELSE s

addDirEntry(s, d, i, m) ==
  Then(s, LAMBDA r :
    Again(TrieInsert(r, d, m, i), "EEXIST", LAMBDA t :
      Again(TrieUpdateEntry(t, d, m, i), "ENOENT", LAMBDA u :
        Then(TrieRemove(u, d, m), LAMBDA v : TrieInsert(v, d, m, i)))))

removeDirEntry(s, d, m) == Then(s, LAMBDA t : TrieRemove(t, d, m))

(***************************************************************************)
(* Reading: lookup and the depth-first walk of readdir and fsck            *)
(***************************************************************************)
InoOf(p, c) == IF c = Null THEN 0 ELSE Node(p, c).ino

TrieLookup(p, r, m) == InoOf(p, Entry(p, r, m))

\* Faulty: a leaf is never met a second time.
PushOnce(refs, again) == [i \in 1..Len(refs) |-> [ref |-> refs[i], again |-> FALSE]]

Push(refs, again) == [i \in 1..Len(refs) |-> [ref |-> refs[i], again |-> again]]

\* TrieWalker.Next until the stack is empty: the nodes in the order reached.
\* A leaf with children is met a second time to schedule them.
RECURSIVE WalkTrie(_, _, _)
WalkTrie(p, stack, met) ==
  IF stack = <<>> THEN met
  ELSE LET r     == Last(stack).ref
           again == Last(stack).again
           n     == Node(p, r)
           more  == IF again \/ ~TrieIsLeaf(n) THEN Push(Reverse(Children(p, r)), FALSE)
                    ELSE IF n.first # Null THEN Push(<<r>>, TRUE) ELSE <<>>
       IN  IF (~again /\ Contains(met, r)) \/ ~p[r[1]].magic THEN WalkTrie(p, Front(stack), met)
           ELSE WalkTrie(p, Front(stack) \o more, IF again THEN met ELSE Append(met, r))

Visited(p, r) == IF r = Null THEN <<>> ELSE WalkTrie(p, Push(<<r>>, FALSE), <<>>)

\* TrieIterator: the leaves whose names can be read.
Listing(p, r) ==
  LET Name(x)  == ReadTrieName(p[x[1]], Node(p, x))
      leaves == SelectSeq(Visited(p, r), LAMBDA x : TrieIsLeaf(Node(p, x)) /\ Name(x) # NoName)
  IN  [i \in 1..Len(leaves) |-> <<Name(leaves[i]), Node(p, leaves[i]).ino>>]

dirIsEmpty(d) == Listing(page, root[d]) = <<>>

(***************************************************************************)
(* The calls, each under the directory lock                                *)
(***************************************************************************)
LivePages(p, r) == UNION {{x[1] : x \in ToSet(Visited(p, r[d]))} : d \in Dirs}

\* A call that freed a page and then failed.
FreedInVain(s) == s.err # "ok" /\ LivePages(page, root) \cap (s.free \cup s.pend) # {}

Lookups(p, r) == [d \in Dirs |-> [n \in Names |-> TrieLookup(p, r[d], n)]]

\* cacheEpilogue: merge on success, drop the operation's blocks on an error.
End(s, o) ==
  /\ calls < MaxCalls /\ calls' = calls + 1
  /\ "freed in vain" \in Calls \/ ~FreedInVain(s)
  /\ \E p \in {IF s.err = "ok" THEN s.page ELSE page}, r \in {IF s.err = "ok" THEN s.root ELSE root} :
        page' = p /\ root' = r /\ view' = Lookups(p, r)
  /\ part' = s.part /\ free' = s.free /\ pend' = s.pend
  /\ failed' = (failed \/ s.err = "ENOSPC")
  /\ op' = o /\ ret' = s.err

\* AllocInode: the lowest number no entry uses.
Unused == Inos \ UNION {Range(view[d]) : d \in Dirs}

\* create and link look the name up first; replay does not, and relies on
\* TrieInsert's EEXIST and TrieRemove's ENOENT.
AddEntry(d, n, i) ==
  /\ "add" \in Calls /\ d \in made /\ i = Min(Unused)
  /\ End(IF view[d][n] # 0 THEN TrieInsert(Begin, d, n, i) ELSE addDirEntry(Begin, d, i, n), <<"add", d, n, i>>)
  /\ UNCHANGED made

RemoveEntry(d, n) ==
  /\ "remove" \in Calls /\ d \in made
  /\ End(removeDirEntry(Begin, d, n), <<"remove", d, n>>)
  /\ UNCHANGED made

\* A rename's prologue has found the source entry.
Renames(d, n, e, m) == {d, e} \subseteq made /\ <<d, n>> # <<e, m>> /\ view[d][n] # 0

\* removeRenameTarget's part in the trie.
Replaced(s, e, m) == IF view[e][m] = 0 THEN s ELSE removeDirEntry(s, e, m)

Move(d, n, e, m) ==
  /\ "move" \in Calls /\ Renames(d, n, e, m)
  /\ End(addDirEntry(removeDirEntry(Replaced(Begin, e, m), d, n), e, view[d][n], m), <<"move", d, n, e, m>>)
  /\ UNCHANGED made

Exchange(d, n, e, m) ==
  /\ "exchange" \in Calls /\ Renames(d, n, e, m) /\ view[e][m] # 0
  /\ End(addDirEntry(removeDirEntry(addDirEntry(removeDirEntry(Begin, d, n), d, view[e][m], n),
                                    e, m), e, view[d][n], m),
         <<"exchange", d, n, e, m>>)
  /\ UNCHANGED made

Whiteout(d, n, e, m, w) ==
  /\ "whiteout" \in Calls /\ Renames(d, n, e, m) /\ w = Min(Unused)
  /\ End(addDirEntry(Then(Replaced(Begin, e, m), LAMBDA s : TrieUpdateEntry(s, d, n, w)),
                     e, view[d][n], m), <<"whiteout", d, n, e, m, w>>)
  /\ UNCHANGED made

\* mkdir gives the new directory its root page, rmdir takes it back.
Mkdir(d) ==
  /\ "mkdir" \in Calls /\ d \in SubDirs \ made
  /\ LET s == trieCreateRoot(Begin, d)
     IN  /\ End(s, IF s.err = "ok" THEN <<>> ELSE <<"mkdir">>)
         /\ made' = IF s.err = "ok" THEN made \cup {d} ELSE made

Rmdir(d) ==
  /\ "mkdir" \in Calls /\ d \in SubDirs \cap made /\ dirIsEmpty(d)
  /\ End(trieFreeNode([Begin EXCEPT !.root[d] = Null], root[d]), <<>>)
  /\ made' = made \ {d}

\* A journal sync commits the freeing records, then applies the frees.
Sync ==
  /\ pend # {}
  /\ free' = free \cup pend /\ pend' = {}
  /\ op' = <<>> /\ ret' = "ok"
  /\ UNCHANGED <<page, root, part, made, failed, calls, view>>

Init ==
  /\ page = [b \in Blocks |-> NotAPage] /\ root = [d \in Dirs |-> Null]
  /\ part = <<>> /\ free = Blocks /\ pend = {} /\ made = Dirs \ SubDirs
  /\ failed = FALSE /\ op = <<>> /\ ret = "ok" /\ calls = 0
  /\ view = [d \in Dirs |-> [n \in Names |-> 0]]

Next ==
  \/ \E d \in Dirs, n \in Names, i \in Unused : AddEntry(d, n, i)
  \/ \E d \in Dirs, n \in Names : RemoveEntry(d, n)
  \/ \E d, e \in Dirs, n, m \in Names : Move(d, n, e, m)
  \/ \E d, e \in Dirs, n, m \in Names : Exchange(d, n, e, m)
  \/ \E d, e \in Dirs, n, m \in Names, w \in Unused : Whiteout(d, n, e, m, w)
  \/ \E d \in Dirs : Mkdir(d)
  \/ \E d \in Dirs : Rmdir(d)
  \/ Sync

Spec == Init /\ [][Next]_vars

-----------------------------------------------------------------------------
(***************************************************************************)
(* Properties                                                              *)
(***************************************************************************)
TypeOK ==
  /\ \A b \in Blocks :
       /\ page[b].live \in 0..SlotsPerPage /\ page[b].used \in 0..HeapSize
       /\ page[b].free \subseteq SlotNos
       /\ \A i \in SlotNos : LET n == page[b].slot[i]
                             IN  {n.first, n.next} \subseteq Refs /\ n.noff \in 0..HeapSize /\ n.ino \in Inos \cup {0}
  /\ root \in [Dirs -> Refs] /\ IsInjective(part) /\ ToSet(part) \subseteq Blocks
  /\ free \cap pend = {} /\ free \cup pend \subseteq Blocks /\ made \subseteq Dirs

\* Lookup answers as a map from names to inodes would, through inserts that
\* split leaves and compact heaps, removals that collapse paths, and renames
\* that do several of these; a call that fails changes no answer.
Map == INSTANCE DirMap WITH entries <- view
DirRefinement == Map!Spec

\* readdir (TrieIterator) lists exactly the entries lookup finds, each once.
ListingIsLookup ==
  \A d \in Dirs : LET l == Listing(page, root[d])
                  IN  /\ IsInjective(l)
                      /\ ToSet(l) = {<<n, view[d][n]>> : n \in {m \in Names : view[d][m] # 0}}

\* The nodes of all directories form disjoint trees of used slots: child
\* counts match the chains, siblings differ in their byte, only a root may be
\* an empty inner node, and every leaf is what its own stored name leads to
\* (so a leaf met on the way down an insert is a proper prefix: trieSplitLeaf
\* never needs its second branch); and every variable keeps its type.
TrieWellFormed ==
  LET all(d) == Visited(page, root[d])
  IN  /\ TypeOK
      /\ \A d, e \in Dirs : d # e => ToSet(all(d)) \cap ToSet(all(e)) = {}
      /\ \A d \in Dirs : \A r \in ToSet(all(d)) :
           LET n == Node(page, r)
               c == Children(page, r)
           IN  /\ page[r[1]].magic /\ r[2] \notin page[r[1]].free
               /\ n.count = Len(c)
               /\ IsInjective([i \in 1..Len(c) |-> Node(page, c[i]).byte])
               /\ Empty(n) => r = root[d]
               /\ TrieIsLeaf(n) => Entry(page, root[d], ReadTrieName(page[r[1]], n)) = r
               /\ ~n.interm => n.first = Null

\* No page of a directory is free or waiting to be freed.
LivePagesKept == LivePages(page, root) \cap (free \cup pend) = {}

\* Until a call fails, every block is free, pending or a page of a directory, a
\* page's used slots are exactly the nodes of the tries, and the pool offers
\* exactly the pages with a free slot.
NoPageLeaks ==
  ~failed =>
    /\ Blocks = LivePages(page, root) \cup free \cup pend
    /\ \A b \in LivePages(page, root) :
         /\ page[b].live = Cardinality(SlotNos \ page[b].free)
         /\ {b} \X (SlotNos \ page[b].free) \subseteq UNION {ToSet(Visited(page, root[d])) : d \in Dirs}
    /\ ToSet(part) = {b \in LivePages(page, root) : page[b].free # {}}
=============================================================================
