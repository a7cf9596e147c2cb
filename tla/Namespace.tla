------------------------------ MODULE Namespace ------------------------------
(***************************************************************************)
(* Names, inodes and recovery: the directory operations (fuse/dir_ops.go,  *)
(* fuse/link_ops.go, fuse/inode_alloc.go) as the sequences of journal      *)
(* records, bitmap changes and slot writes they are, the journal sync that *)
(* may run between any two of those, the crash (kill -9: memory is lost,   *)
(* what was written stays), and the replay at the next mount               *)
(* (fuse/journal_replay.go).                                               *)
(*                                                                         *)
(* A directory's trie is a map here, whose pages reach the disk together;  *)
(* Trie has the pages.  Directory operations exclude each other (b.mu), so *)
(* one list of remaining steps is enough.  A handler is computed at its    *)
(* start: its lookups see the state it keeps locked until its last step,   *)
(* the merge into the deferred blocks.                                     *)
(***************************************************************************)
EXTENDS Naturals, FiniteSets, Sequences, FiniteSetsExt, TLC

CONSTANTS Inos,          \* inode numbers 1..n; 1 is the root directory
          Names, Vals,   \* entry names; values of the other attributes
          Trees,         \* file systems to start from: "bare", "full"
          Calls, MaxCalls, MaxSyncs, MaxCrashes

VARIABLES slot,      \* inode table as readers see it
          ents,      \* generation -> entries of that directory's trie
          bits,      \* inode bitmap: the numbers in use
          disk,      \* the same three on the device
          dirty,     \* deferred blocks not yet drained
          log, com,  \* records since mount, and how many are committed
          todo,      \* steps left of the running operation
          syncing,   \* the commit point is written, the drain is not done
          past, safe,  \* trees after each call since mount; the first still owed
          cut,       \* the last sync ran in the middle of an operation
          torn,      \* a crash came after such a sync
          mounted, gens, calls, syncs, crashes

vars == <<slot, ents, bits, disk, dirty, log, com, todo, syncing, past, safe, cut, torn, mounted, gens,
          calls, syncs, crashes>>

ROOT   == 1

ASSUME NamespaceAssumption ==
  /\ Inos \subseteq Nat \ {0} /\ IsFiniteSet(Inos) /\ ROOT \in Inos
  /\ IsFiniteSet(Names) /\ Names # {}
  /\ Trees \subseteq {"bare", "full"} /\ ("full" \in Trees => {2, 3} \subseteq Inos)
  /\ {MaxCalls, MaxSyncs, MaxCrashes} \subseteq Nat

MaxGen == 3 + MaxCalls
Gens   == 1..MaxGen

None   == [ino |-> 0, dir |-> FALSE]                  \* no such entry
Bare   == [n \in Names |-> None]                      \* an empty trie
NoPage == [n \in Names |-> [ino |-> 0, dir |-> TRUE]] \* no trie page there

ZeroSlot == [kind |-> "none", nlink |-> 0, gen |-> 0, par |-> 0, root |-> FALSE, val |-> 0]

\* What a directory inode leads to; no root page, no entries.
Rooted(sl, en, d)  == sl[d].kind = "dir" /\ sl[d].root /\ en[sl[d].gen] # NoPage
Entries(sl, en, d) == IF Rooted(sl, en, d) THEN en[sl[d].gen] ELSE Bare

Links(sl, en, i)   == Cardinality({p \in Inos \X Names : Entries(sl, en, p[1])[p[2]].ino = i})
SubDirs(sl, en, d) == Cardinality({n \in Names : Entries(sl, en, d)[n].dir})
dirIsEmpty(sl, en, d) == Entries(sl, en, d) = Bare

(***************************************************************************)
(* The steps of an operation                                               *)
(***************************************************************************)
Begin(c) == [call |-> c, steps |-> <<>>, slot |-> slot, ents |-> ents, err |-> "ok"]

Step(s, st)        == IF s.err # "ok" THEN s ELSE [s EXCEPT !.steps = Append(@, st)]
WriteRecord(s, r)  == Step(s, [do |-> "rec", rec |-> r])
Fail(s, e)         == IF s.err # "ok" THEN s ELSE [s EXCEPT !.err = e]

journalInodeFull(s, i)   == WriteRecord(s, [t |-> "full", ino |-> i, in |-> s.slot[i]])
journalInodeUpdate(s, i) == WriteRecord(s, [t |-> "upd", ino |-> i, in |-> s.slot[i]])

journalDirUpdate(s, d, n, e) ==
  WriteRecord(s, [t |-> IF e = None THEN "del" ELSE "add", dir |-> d, name |-> n, ent |-> e])

\* The trie insert may find no room.
addDirEntry(s, d, n, e, full) ==
  LET p == IF s.slot[d].root THEN s
           ELSE journalInodeFull([s EXCEPT !.slot[d].root = TRUE, !.ents[s.slot[d].gen] = Bare], d)
  IN  IF s.err # "ok" THEN s
      ELSE IF full THEN Fail(p, "ENOSPC")
      ELSE [p EXCEPT !.ents[p.slot[d].gen][n] = e]

\* Removing the last entry gives the root page back.
removeDirEntry(s, d, n) ==
  LET g == s.slot[d].gen
      t == [s EXCEPT !.ents[g][n] = None]
  IN  IF s.err # "ok" THEN s ELSE [t EXCEPT !.slot[d].root = t.ents[g] # Bare]

updateParentDir(s, d, up, down) ==
  journalInodeFull([s EXCEPT !.slot[d].nlink = @ + up - down], d)

\* The lowest free number is taken, where `more` have just been freed by the
\* same operation.  A number whose freeing is not committed is as free as any
\* other; only runs with "reuse" follow the code there.
FreeUncommitted == {log[k].ino : k \in {j \in (com + 1)..Len(log) : log[j].t = "ifree"}}

Allocates(i, more) ==
  LET avail == (Inos \ bits) \cup more
  IN  /\ avail # {} /\ i = Min(avail)
      /\ "reuse" \in Calls \/ i \notin FreeUncommitted \cup more

AllocInode(s, i, kind, par, val) ==
  LET t == WriteRecord(Step(s, [do |-> "take", ino |-> i]), [t |-> "ialloc", ino |-> i])
  IN  [t EXCEPT !.slot[i] = [kind |-> kind, nlink |-> IF kind = "dir" THEN 2 ELSE 1, gen |-> gens + 1,
                             par |-> IF kind = "dir" THEN par ELSE 0, root |-> FALSE, val |-> val]]

\* Faulty: the bit of the number before it.
FreeInodeOffByOne(s, i) ==
  Step(WriteRecord([s EXCEPT !.slot[i] = ZeroSlot], [t |-> "ifree", ino |-> i]), [do |-> "give", ino |-> i - 1])

FreeInode(s, i) ==
  Step(WriteRecord([s EXCEPT !.slot[i] = ZeroSlot], [t |-> "ifree", ino |-> i]), [do |-> "give", ino |-> i])

\* Faulty: the slot reaches the device with the next drain only.
FreshSlotDeferred(s, i) == s

writeThroughFreshInodeSlot(s, i) == Step(s, [do |-> "arm", ino |-> i, in |-> s.slot[i]])

\* createNamedInode: no room for the entry frees the new inode again.
create(d, n, i, kind, full) ==
  LET a == AllocInode(Begin("create"), i, kind, d, 0)
      r == IF kind = "dir" THEN [a EXCEPT !.slot[i].root = TRUE, !.ents[gens + 1] = Bare] ELSE a
      e == [ino |-> i, dir |-> kind = "dir"]
      l == addDirEntry(r, d, n, e, full)
      j == journalDirUpdate(journalInodeFull(writeThroughFreshInodeSlot(l, i), i), d, n, e)
  IN  IF l.err # "ok"
        THEN [FreeInode([l EXCEPT !.err = "ok"], i) EXCEPT !.err = l.err]
        ELSE updateParentDir(j, d, IF kind = "dir" THEN 1 ELSE 0, 0)

\* The last link takes the inode with it.
Retire(s, i) == IF s.err = "ok" /\ s.slot[i].nlink = 0 THEN FreeInode(s, i) ELSE s

Unlinked(s, d, n, i) ==
  LET isDir == s.slot[i].kind = "dir"
      t     == journalDirUpdate(removeDirEntry(s, d, n), d, n, None)
  IN  [t EXCEPT !.slot[d].nlink = @ - (IF isDir THEN 1 ELSE 0),
                !.slot[i].nlink = IF isDir THEN 0 ELSE @ - 1]

unlink(d, n) ==
  LET i == ents[slot[d].gen][n].ino
      t == journalInodeUpdate(Unlinked(Begin("unlink"), d, n, i), i)
  IN  updateParentDir(Retire(t, i), d, 0, 0)

link(d, n, i, full) ==
  LET e == [ino |-> i, dir |-> FALSE]
      t == journalDirUpdate(addDirEntry(Begin("link"), d, n, e, full), d, n, e)
  IN  updateParentDir(journalInodeFull([t EXCEPT !.slot[i].nlink = @ + 1], i), d, 0, 0)

(***************************************************************************)
(* Renames                                                                 *)
(***************************************************************************)
removeRenameTarget(s, e, m, i) ==
  IF i = 0 THEN s ELSE Retire(journalInodeFull(Unlinked(s, e, m, i), i), i)

finishCrossDirMove(s, d, e, i) ==
  LET dirMove == d # e /\ s.slot[i].kind = "dir"
      up      == IF dirMove THEN 1 ELSE 0
      p == IF dirMove THEN journalInodeFull([s EXCEPT !.slot[i].par = e], i) ELSE s
      q == updateParentDir(p, d, 0, up)
  IN  journalInodeFull(IF d # e THEN updateParentDir(q, e, up, 0) ELSE q, i)

renamePlain(d, n, e, m, full) ==
  LET x == ents[slot[d].gen][n]
      t == removeRenameTarget(Begin("rename"), e, m, Entries(slot, ents, e)[m].ino)
      u == journalDirUpdate(removeDirEntry(t, d, n), d, n, None)
      v == journalDirUpdate(addDirEntry(u, e, m, x, full), e, m, x)
  IN  finishCrossDirMove(v, d, e, x.ino)

\* Parent pointers and ".." links follow directories across.
Crossed(s, i, from, to) ==
  IF from = to \/ s.slot[i].kind # "dir" THEN s
  ELSE [s EXCEPT !.slot[i].par = to, !.slot[from].nlink = @ - 1, !.slot[to].nlink = @ + 1]

Swapped(s, d, n, x, full) ==
  journalDirUpdate(addDirEntry(journalDirUpdate(removeDirEntry(s, d, n), d, n, None), d, n, x, full), d, n, x)

renameExchange(d, n, e, m, full) ==
  LET x == ents[slot[d].gen][n]
      y == ents[slot[e].gen][m]
      t == Swapped(Swapped(Begin("rename"), d, n, y, full), e, m, x, full)
      u == Crossed(Crossed(t, x.ino, d, e), y.ino, e, d)
      v == updateParentDir(journalInodeFull(journalInodeFull(u, x.ino), y.ino), d, 0, 0)
  IN  IF d # e THEN updateParentDir(v, e, 0, 0) ELSE v

\* No room for the new entry leaves the whiteout's number taken.
renameWhiteout(d, n, e, m, w, full) ==
  LET x == ents[slot[d].gen][n]
      y == [ino |-> w, dir |-> FALSE]
      t == removeRenameTarget(Begin("rename"), e, m, Entries(slot, ents, e)[m].ino)
      a == journalInodeFull(writeThroughFreshInodeSlot(AllocInode(t, w, "file", d, 0), w), w)
      r == journalDirUpdate(journalDirUpdate([a EXCEPT !.ents[a.slot[d].gen][n] = y], d, n, None), d, n, y)
      v == journalDirUpdate(addDirEntry(r, e, m, x, full), e, m, x)
  IN  finishCrossDirMove(v, d, e, x.ino)

\* setattrOp, and any other change of one inode's own fields.
setattr(i, v) == journalInodeFull([Begin("setattr") EXCEPT !.slot[i].val = v], i)

(***************************************************************************)
(* Replay                                                                  *)
(***************************************************************************)
\* The inode a directory's records are replayed against: cached by the first
\* of them, from the slot as it was before this replay restored a snapshot.
Anchor(z, d) == IF d \in DOMAIN z.parents THEN z.parents[d]
                ELSE IF d \in DOMAIN z.pristine THEN z.pristine[d] ELSE z.slot[d]

\* Add tolerates an entry that is there, delete one that is not.  Either way
\* the anchor goes back into the slot.
replayDirUpdate(z, r) ==
  LET a    == Anchor(z, r.dir)
      g    == a.gen
      old  == IF a.root THEN z.ents[g] ELSE Bare
      new  == IF r.t = "del" THEN [old EXCEPT ![r.name] = None]
              ELSE IF old[r.name] # None THEN old ELSE [old EXCEPT ![r.name] = r.ent]
      root == IF r.t = "add" THEN TRUE ELSE IF new # old THEN new # Bare ELSE a.root
      b    == [a EXCEPT !.root = root]
  IN  IF a.kind = "none" THEN z
      ELSE IF old = NoPage THEN [z EXCEPT !.ok = FALSE]
      ELSE [z EXCEPT !.parents = (r.dir :> b) @@ @, !.slot[r.dir] = b, !.ents[g] = new]

\* Faulty: a snapshot only fills a slot of an older generation.
FullIfNewer(z, r) ==
  IF z.slot[r.ino].kind = "none" \/ z.slot[r.ino].gen >= r.in.gen THEN z
  ELSE [z EXCEPT !.slot[r.ino] = r.in]

replayInodeFull(z, r) ==
  LET i == r.ino
      p == IF i \in DOMAIN z.parents \cup DOMAIN z.pristine THEN z
           ELSE [z EXCEPT !.pristine = (i :> z.slot[i]) @@ @]
  IN  IF z.slot[i].kind = "none" \/ z.slot[i].gen # r.in.gen THEN p
      ELSE [p EXCEPT !.slot[i] = r.in]

\* Mode, links, size, times and flags; not the parent, not the trie root.
replayInodeUpdate(z, r) ==
  LET i == r.ino
  IN  IF z.slot[i].kind = "none" \/ z.slot[i].gen # r.in.gen THEN z
      ELSE [z EXCEPT !.slot[i] = [r.in EXCEPT !.par = z.slot[i].par, !.root = z.slot[i].root]]

\* Faulty: the numbers of removed inodes are not released.
ApplyWithoutFrees(z, r) ==
  IF ~z.ok THEN z
  ELSE CASE r.t \in {"add", "del"} -> replayDirUpdate(z, r)
         [] r.t = "full"   -> replayInodeFull(z, r)
         [] r.t = "upd"    -> replayInodeUpdate(z, r)
         [] r.t = "ialloc" -> [z EXCEPT !.bits = @ \cup {r.ino}]
         [] OTHER          -> z

\* The first pass and the second both move the bits of the inode bitmap, the
\* second to where the first left them.
applyRecord(z, r) ==
  IF ~z.ok THEN z
  ELSE CASE r.t \in {"add", "del"} -> replayDirUpdate(z, r)
         [] r.t = "full"   -> replayInodeFull(z, r)
         [] r.t = "upd"    -> replayInodeUpdate(z, r)
         [] r.t = "ialloc" -> [z EXCEPT !.bits = @ \cup {r.ino}]
         [] r.t = "ifree"  -> [z EXCEPT !.bits = @ \ {r.ino}]

\* Faulty: link counts stay as the last snapshot had them.
KeepNlinks(z) == z

\* Links are counted again over the directories in use.
replayReconcileNlinks(z) ==
  LET live == [i \in Inos |-> IF i \in z.bits THEN z.slot[i] ELSE ZeroSlot]
  IN  [z EXCEPT !.slot = [i \in Inos |->
         IF live[i].kind = "none" THEN z.slot[i]
         ELSE [z.slot[i] EXCEPT !.nlink =
                 IF live[i].kind = "dir" THEN 2 + SubDirs(live, z.ents, i) ELSE Links(live, z.ents, i)]]]

walkJournal(z, recs) ==
  LET walk[k \in 0..Len(recs)] == IF k = 0 THEN z ELSE applyRecord(walk[k - 1], recs[k])
  IN  walk[Len(recs)]

replayJournal(dk, recs) ==
  LET z == walkJournal([slot |-> dk.slot, ents |-> dk.ents, bits |-> dk.bits,
                        parents |-> <<>>, pristine |-> <<>>, ok |-> TRUE], recs)
  IN  IF recs = <<>> THEN z ELSE replayReconcileNlinks(z)

(***************************************************************************)
(* Calls and their steps                                                   *)
(***************************************************************************)
\* The tree a user sees: entries by the identity of directory and child.
\* The directories at or below those of ds: the least set that has them and,
\* with a directory, its subdirectories.
SubDirsOf(sl, en, ds) ==
  {i \in {Entries(sl, en, d)[n].ino : d \in ds, n \in Names} \ {0} : sl[i].kind = "dir"}

Reach(sl, en, ds) ==
  LET dirs   == {i \in Inos \ ds : sl[i].kind = "dir"}
      closed == {S \in SUBSET dirs : SubDirsOf(sl, en, ds \cup S) \subseteq ds \cup S}
  IN  ds \cup {i \in dirs : \A S \in closed : i \in S}

Tree(sl, en) ==
  LET dirs == Reach(sl, en, {ROOT})
      tr(d, n) == LET i == Entries(sl, en, d)[n].ino
                  IN  <<sl[d].gen, n, IF i = 0 THEN ZeroSlot ELSE [sl[i] EXCEPT !.nlink = 0, !.root = FALSE]>>
  IN  {tr(d, n) : d \in dirs, n \in Names}

Idle == todo = <<>> /\ mounted

\* b.mu is free: the handler runs up to its last step.
Start(s) ==
  /\ calls' = calls + 1
  /\ todo' = s.steps \o <<[do |-> "end", call |-> s.call, err |-> s.err, slot |-> s.slot, ents |-> s.ents]>>
  /\ UNCHANGED <<slot, ents, bits, disk, dirty, log, com, syncing, past, safe, cut, torn, mounted, syncs, crashes>>

\* The directories with a name, and those whose trie can be read.
DirsInUse == Reach(slot, ents, {ROOT})
Usable    == {d \in DirsInUse : slot[d].root => Rooted(slot, ents, d)}
At(d, n) == Entries(slot, ents, d)[n]
Named == {ROOT} \cup ({At(d, n).ino : d \in DirsInUse, n \in Names} \ {0})

Create(d, n, i, kind, full) ==
  /\ "create" \in Calls /\ At(d, n) = None /\ Allocates(i, {})
  /\ Start(create(d, n, i, kind, full)) /\ gens' = gens + 1

\* unlink refuses directories; rmdir takes only empty ones.
Unlink(d, n) ==
  /\ "unlink" \in Calls /\ At(d, n) # None
  /\ At(d, n).dir => dirIsEmpty(slot, ents, At(d, n).ino)
  /\ Start(unlink(d, n)) /\ UNCHANGED gens

Link(d, n, i, full) ==
  /\ "link" \in Calls /\ At(d, n) = None /\ i \in Named /\ slot[i].kind = "file"
  /\ Start(link(d, n, i, full)) /\ UNCHANGED gens

\* A rename's prologue, and what the kernel's VFS has ruled out before it: the
\* same inode twice, a directory over a file, a directory moved below itself.
Below(i) == Reach(slot, ents, IF slot[i].kind = "dir" THEN {i} ELSE {})

Renames(d, n, e, m) ==
  /\ At(d, n) # None /\ At(d, n).ino # At(e, m).ino
  /\ e \notin Below(At(d, n).ino)

Replaces(d, n, e, m) ==
  At(e, m) # None => /\ At(e, m).dir = At(d, n).dir
                     /\ At(e, m).dir => dirIsEmpty(slot, ents, At(e, m).ino)

\* The number a rename over the last link of (e, m) frees on its way.
Retired(e, m) == {i \in {At(e, m).ino} \ {0} : At(e, m).dir \/ slot[i].nlink = 1}

Rename(d, n, e, m, full) ==
  /\ "rename" \in Calls /\ Renames(d, n, e, m) /\ Replaces(d, n, e, m)
  /\ Start(renamePlain(d, n, e, m, full)) /\ UNCHANGED gens

Exchange(d, n, e, m, full) ==
  /\ "exchange" \in Calls /\ Renames(d, n, e, m) /\ At(e, m) # None
  /\ d \notin Below(At(e, m).ino)
  /\ Start(renameExchange(d, n, e, m, full)) /\ UNCHANGED gens

Whiteout(d, n, e, m, w, full) ==
  /\ "whiteout" \in Calls /\ Renames(d, n, e, m) /\ Replaces(d, n, e, m)
  /\ Allocates(w, Retired(e, m))
  /\ Start(renameWhiteout(d, n, e, m, w, full)) /\ gens' = gens + 1

Setattr(i, v) ==
  /\ "setattr" \in Calls /\ slot[i].val # v
  /\ Start(setattr(i, v)) /\ UNCHANGED gens

\* Blocks, as what they hold; and device dk with blocks us as slots sl and
\* tries en have them.
Units(dk, sl, en) == {<<"slot", i>> : i \in {j \in Inos : sl[j] # dk.slot[j]}}
                     \cup {<<"dir", g>> : g \in {h \in Gens : en[h] # dk.ents[h]}}

Written(dk, us, sl, en) ==
  [dk EXCEPT !.slot = [i \in Inos |-> IF <<"slot", i>> \in us THEN sl[i] ELSE @[i]],
             !.ents = [g \in Gens |-> IF <<"dir", g>> \in us THEN en[g] ELSE @[g]]]

\* One step of the running operation.  A record waits for the journal lock,
\* which a sync holds until its drain is done.  (So does the merge here: what
\* a drain's snapshot misses, the next one writes.)
Advance(do) ==
  /\ todo # <<>> /\ Head(todo).do = do /\ todo' = Tail(todo)
  /\ UNCHANGED <<com, syncing, cut, torn, mounted, gens, calls, syncs, crashes, safe>>

Record ==
  /\ Advance("rec") /\ ~syncing
  /\ log' = Append(log, Head(todo).rec)
  /\ UNCHANGED <<slot, ents, bits, disk, dirty, past>>

TakeNumber ==
  /\ Advance("take") /\ bits' = bits \cup {Head(todo).ino}
  /\ UNCHANGED <<slot, ents, disk, dirty, log, past>>

GiveNumber ==
  /\ Advance("give") /\ bits' = bits \ {Head(todo).ino}
  /\ UNCHANGED <<slot, ents, disk, dirty, log, past>>

\* The slot goes to the device, and into the deferred copy of its block.
Arm ==
  /\ Advance("arm")
  /\ disk' = [disk EXCEPT !.slot[Head(todo).ino] = Head(todo).in]
  /\ slot' = [slot EXCEPT ![Head(todo).ino] = Head(todo).in]
  /\ UNCHANGED <<ents, bits, dirty, log, past>>

\* cacheEpilogue: merge the operation's blocks, or drop them.
Finish ==
  /\ Advance("end") /\ ~syncing
  /\ LET e == Head(todo)
     IN  IF e.err # "ok" THEN UNCHANGED <<slot, ents, dirty, past>>
         ELSE /\ slot' = e.slot /\ ents' = e.ents
              /\ dirty' = dirty \cup Units([slot |-> slot, ents |-> ents], e.slot, e.ents)
              /\ past' = Append(past, Tree(e.slot, e.ents))
  /\ UNCHANGED <<bits, disk, log>>

(***************************************************************************)
(* Sync, crash                                                             *)
(***************************************************************************)
\* fsync takes no operation's lock: it may commit the first records of one.
\* Only runs with "fsync in rename" let it cut a rename.
Commit ==
  /\ syncs < MaxSyncs /\ syncs' = syncs + 1
  /\ ~syncing /\ mounted /\ (com < Len(log) \/ dirty # {})
  /\ todo # <<>> => ("fsync in rename" \in Calls \/ todo[Len(todo)].call # "rename")
  /\ com' = Len(log) /\ syncing' = TRUE /\ safe' = Len(past) /\ cut' = (todo # <<>>)
  /\ UNCHANGED <<slot, ents, bits, disk, dirty, log, todo, past, torn, mounted, gens, calls, crashes>>

\* SyncMeta, then SyncAllocators.
Drain ==
  /\ syncing /\ syncing' = FALSE
  /\ disk' = [Written(disk, dirty, slot, ents) EXCEPT !.bits = bits] /\ dirty' = {}
  /\ cut' = (cut \/ todo # <<>>)
  /\ UNCHANGED <<slot, ents, bits, log, com, todo, past, safe, torn, mounted, gens, calls, syncs, crashes>>

\* The mount replays the committed records over a device that has some of the
\* blocks of an unfinished drain, or of an earlier replay that was itself cut
\* off while it wrote its result.  A failed replay fails the mount.
\* Two cases are only in runs that ask for them: "fresh pages", a directory whose
\* root page never reached the device, and "cut and torn", a crash in the drain of
\* a sync that cut an operation.
Recovers(dk) ==
  \E z \in {replayJournal(dk, SubSeq(log, 1, com))} :
     /\ "fresh pages" \in Calls \/ (z.ok /\ \A i \in Inos : z.slot[i].root => Rooted(z.slot, z.ents, i))
     /\ slot' = z.slot /\ ents' = z.ents /\ bits' = z.bits /\ mounted' = z.ok
     /\ disk' = [slot |-> z.slot, ents |-> z.ents, bits |-> z.bits]
     /\ past' = <<Tree(z.slot, z.ents)>>

Crash ==
  /\ crashes < MaxCrashes /\ crashes' = crashes + 1 /\ mounted
  /\ \E us \in IF syncing THEN SUBSET dirty ELSE {{}} :
       /\ "cut and torn" \in Calls \/ ~syncing \/ us = dirty \/ todo = <<>>
       /\ \E dk \in {Written(disk, us, slot, ents)} :
            \/ Recovers(dk)
            \/ /\ "crash in replay" \in Calls /\ com > 0
               /\ \E z \in {replayJournal(dk, SubSeq(log, 1, com))} :
                  \E ws \in (SUBSET Units(dk, z.slot, z.ents)) \ {{}} :
                     z.ok /\ Recovers(Written(dk, ws, z.slot, z.ents))
  /\ torn' = (torn \/ cut) /\ cut' = FALSE
  /\ log' = <<>> /\ com' = 0 /\ dirty' = {} /\ todo' = <<>> /\ syncing' = FALSE /\ safe' = 1
  /\ UNCHANGED <<gens, calls, syncs>>

\* A root directory alone, or with a directory holding a file.
InitSlots(tree) ==
  [i \in Inos |->
     CASE i = ROOT /\ tree = "bare" -> [ZeroSlot EXCEPT !.kind = "dir", !.nlink = 2, !.gen = 1, !.par = 1, !.root = TRUE]
       [] i = ROOT /\ tree = "full" -> [ZeroSlot EXCEPT !.kind = "dir", !.nlink = 3, !.gen = 1, !.par = 1, !.root = TRUE]
       [] i = 2 /\ tree = "full"    -> [ZeroSlot EXCEPT !.kind = "dir", !.nlink = 2, !.gen = 2, !.par = 1, !.root = TRUE]
       [] i = 3 /\ tree = "full"    -> [ZeroSlot EXCEPT !.kind = "file", !.nlink = 1, !.gen = 3]
       [] OTHER -> ZeroSlot]

InitEnts(tree) ==
  LET nm == CHOOSE n \in Names : TRUE
  IN  [g \in Gens |->
         CASE g = 1 -> IF tree = "full" THEN [Bare EXCEPT ![nm] = [ino |-> 2, dir |-> TRUE]] ELSE Bare
           [] g = 2 /\ tree = "full" -> [Bare EXCEPT ![nm] = [ino |-> 3, dir |-> FALSE]]
           [] OTHER -> NoPage]

Init ==
  /\ \E tree \in Trees :
       /\ slot = InitSlots(tree) /\ ents = InitEnts(tree)
       /\ bits = {i \in Inos : slot[i].kind # "none"}
  /\ disk = [slot |-> slot, ents |-> ents, bits |-> bits] /\ dirty = {}
  /\ log = <<>> /\ com = 0 /\ todo = <<>> /\ syncing = FALSE
  /\ past = <<Tree(slot, ents)>> /\ safe = 1 /\ cut = FALSE /\ torn = FALSE /\ mounted = TRUE
  /\ gens = 3 /\ calls = 0 /\ syncs = 0 /\ crashes = 0

NoRoom(call) == {FALSE} \cup (IF call \in Calls THEN {TRUE} ELSE {})

Call ==
  /\ calls < MaxCalls /\ Idle
  /\ \/ \E d \in Usable, n \in Names, i \in Inos, kind \in {"file", "dir"}, f \in NoRoom("no room") :
          Create(d, n, i, kind, f)
     \/ \E d \in Usable, n \in Names : Unlink(d, n)
     \/ \E d \in Usable, n \in Names, i \in Inos, f \in NoRoom("no room") : Link(d, n, i, f)
     \/ \E d, e \in Usable, n, m \in Names, f \in NoRoom("rename fails") : Rename(d, n, e, m, f)
     \/ \E d, e \in Usable, n, m \in Names, f \in NoRoom("rename fails") : Exchange(d, n, e, m, f)
     \/ \E d, e \in Usable, n, m \in Names, w \in Inos, f \in NoRoom("rename fails") :
          Whiteout(d, n, e, m, w, f)
     \/ \E i \in Named, v \in Vals : Setattr(i, v)

Next == Call \/ Record \/ TakeNumber \/ GiveNumber \/ Arm \/ Finish \/ Commit \/ Drain \/ Crash

Spec == Init /\ [][Next]_vars

-----------------------------------------------------------------------------
(***************************************************************************)
(* Properties                                                              *)
(***************************************************************************)
TypeOK ==
  /\ \A i \in Inos : slot[i].kind \in {"none", "dir", "file"} /\ slot[i].nlink \in 0..(3 + MaxCalls)
  /\ bits \subseteq Inos /\ ROOT \in bits /\ com \in 0..Len(log) /\ safe \in 1..Len(past)

\* Every entry leads to a number in use whose slot holds an inode of the
\* entry's type, and a directory's parent pointer leads back: while the system
\* runs and after every recovery.
EntriesResolve ==
  Idle => \A d \in DirsInUse, n \in Names : LET e == At(d, n) IN
    e # None => /\ e.ino \in bits /\ slot[e.ino].kind = (IF e.dir THEN "dir" ELSE "file")
                /\ e.dir /\ slot[e.ino].root => Rooted(slot, ents, e.ino)
                /\ e.dir /\ ~torn => slot[e.ino].par = d

\* Link counts are exact: a file's entries, a directory's subdirectories.
NlinksExact ==
  Idle => \A i \in Named :
    slot[i].nlink = IF slot[i].kind = "dir" THEN 2 + SubDirs(slot, ents, i) ELSE Links(slot, ents, i)

\* Unless a crash cut an operation in two, the numbers in use are the inodes
\* with a name.
NumbersConserved ==
  Idle /\ ~torn => bits = Named

\* After a crash the tree is the one after some call since the last completed
\* sync: synced calls have happened, others happened entirely or not at all.
RecoversToACall ==
  [][crashes' # crashes =>
       \/ \E k \in safe..Len(past) : past'[1] = past[k]
       \/ todo # <<>> /\ todo[Len(todo)].err = "ok" /\ past'[1] = Tree(todo[Len(todo)].slot, todo[Len(todo)].ents)]_vars

\* No crash leaves records that fail the next mount.
MountSucceeds == mounted
=============================================================================
