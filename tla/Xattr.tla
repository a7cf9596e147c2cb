------------------------------- MODULE Xattr --------------------------------
(***************************************************************************)
(* Extended attributes (fuse/xattr.go, briefs/xattr_disk.go) and their part*)
(* of journal replay (fuse/journal_replay.go).  An inode's attributes are a*)
(* chain of blocks; a call packs the changed set into a fresh chain, writes*)
(* and journals it, commits, frees the old chain and writes the inode.     *)
(*                                                                         *)
(* `disk` is what a read of the device returns, `stable` what has been     *)
(* written back.  A crash keeps any part of the difference: the crash model*)
(* fuse/device.go states for FlushPendingWB.                               *)
(*                                                                         *)
(* A data file that takes blocks, and the journal's commit, stand for the  *)
(* rest of the bridge (modules Extents and Journal).                       *)
(***************************************************************************)
EXTENDS Naturals, Sequences, FiniteSets, FiniteSetsExt

CONSTANTS Inos, Names, Absent,
          File,          \* the inode of the data file
          NameLen,       \* name -> its length
          ValueLens,     \* the lengths of the values callers store
          Align,         \* align4
          HdrSize,       \* XattrHeaderSize
          EntrySize,     \* XattrEntrySize
          PayloadCap,    \* xattrPayloadCap
          LenMod,        \* 2^16: ValueLen is a uint16
          MaxEntries,    \* xattrBlockMaxEntries
          MaxChain,      \* XattrMaxChain
          PoolSize,      \* data blocks
          Flags,         \* the setxattr flags callers use
          FaultAt,       \* the steps an I/O error may hit
          MaxCalls, MaxWrites, MaxCrashes

VARIABLES disk, stable,  \* block or inode -> contents: read, written back
          free, bitmap,  \* the allocator's free blocks: memory, device
          log, com,      \* the journal records, and how many are committed
          op,            \* inode -> the call that holds its lock
          jlock,         \* who is between the commit point and the flush
          file,          \* the data file's blocks, in memory
          drain,         \* dataDrainPending
          readOnly,
          attrs,         \* inode -> name -> what getxattr answers
          calls, writes, crashes

vars == <<disk, stable, free, bitmap, log, com, op, jlock, file, drain,
          readOnly, attrs, calls, writes, crashes>>

Pool   == 1..PoolSize
Zero   == <<>>
Nobody == "nobody"

\* Blocks, inodes, the data file and nobody are told apart.
ASSUME XattrAssumption ==
  /\ PoolSize \in Nat /\ MaxChain \in Nat
  /\ Inos \cap Pool = {} /\ File \notin Pool \cup Inos /\ Nobody \notin Inos \cup {File}

\* A value is its units in order, so that a misplaced one shows.
Value(len) == [k \in 1..len |-> <<len, k>>]
Values     == {Value(l) : l \in ValueLens}

NoBlock   == [kind |-> "none"]
DataBlock == [kind |-> "data"]

align4(n) == ((n + Align - 1) \div Align) * Align

\* A loop over 1..n, and the pieces of a sequence put together by one.
InOrder(Body(_, _), start, n) ==
  MapThenFoldSet(LAMBDA i, acc : Body(acc, i), start, LAMBDA i : i, LAMBDA S : Max(S), 1..n)

Concat(ss) == InOrder(LAMBDA acc, i : acc \o ss[i], <<>>, Len(ss))

(***************************************************************************)
(* Packing.  kvs is the sequence of [name, value]; a descriptor plans one  *)
(* block of the chain.                                                     *)
(***************************************************************************)
EntryDesc == [cont |-> FALSE, kv |-> <<>>, inline |-> <<>>, used |-> 0]

ContDescs(i, off, len) ==
  [k \in 1..((len - off + PayloadCap - 1) \div PayloadCap) |->
     LET o == off + (k - 1) * PayloadCap
     IN  [cont |-> TRUE, kvIdx |-> i, off |-> o, frag |-> Min({PayloadCap, len - o})]]

InlineLen(len, remaining) ==
  CASE len = 0 \/ remaining < Align -> 0
    [] OTHER -> Min({len, remaining - (remaining % Align)})

\* One entry: into the current block if it fits, its overflow behind it.
Pack(kvs, acc, i) ==
  LET need  == EntrySize + align4(NameLen[kvs[i].name])
      len   == Len(kvs[i].value)
      fits  == /\ need <= PayloadCap - acc.descs[acc.cur].used
               /\ Len(acc.descs[acc.cur].kv) < MaxEntries
      ds    == IF fits THEN acc.descs ELSE Append(acc.descs, EntryDesc)
      cur   == IF fits THEN acc.cur ELSE Len(ds)
      inl   == InlineLen(len, PayloadCap - ds[cur].used - need)
  IN  [descs |-> [ds EXCEPT ![cur] = [@ EXCEPT !.kv = Append(@, i),
                                               !.inline = Append(@, inl),
                                               !.used = @ + need + align4(inl)]]
                   \o ContDescs(i, inl, len),
       cur   |-> cur]

buildXattrChain(kvs) ==
  InOrder(LAMBDA acc, i : Pack(kvs, acc, i),
          [descs |-> <<EntryDesc>>, cur |-> 1], Len(kvs)).descs

\* Where entry j of a descriptor puts its name: after the table and the
\* names and values before it.
NameOffset(d, kvs) ==
  LET at[j \in 1..(Len(d.kv) + 1)] ==
        IF j = 1 THEN HdrSize + Len(d.kv) * EntrySize
        ELSE at[j - 1] + align4(NameLen[kvs[d.kv[j - 1]].name]) + align4(d.inline[j - 1])
  IN  at

ZeroBytes == [o \in 0..(HdrSize + PayloadCap - 1) |-> Zero]

\* A copy into a buffer at offset o.
Copy(buf, o, s) == [x \in DOMAIN buf |-> IF x \in o..(o + Len(s) - 1) THEN s[x - o + 1] ELSE buf[x]]

serializeXattrBlock(d, kvs, next) ==
  IF d.cont
    THEN [kind |-> "xattr", next |-> next, cont |-> TRUE, used |-> HdrSize + d.frag,
          entry |-> <<>>,
          buf  |-> Copy(ZeroBytes, HdrSize,
                        SubSeq(kvs[d.kvIdx].value, d.off + 1, d.off + d.frag))]
    ELSE LET at     == NameOffset(d, kvs)
             kv(j)  == kvs[d.kv[j]]
             off(j) == at[j] + align4(NameLen[kv(j).name])
         IN  [kind  |-> "xattr", next |-> next, cont |-> FALSE, used |-> at[Len(d.kv) + 1],
              entry |-> [j \in DOMAIN d.kv |->
                           [name |-> kv(j).name, valueLen |-> Len(kv(j).value) % LenMod,
                            valueOff |-> IF d.inline[j] = 0 THEN 0 ELSE off(j)]],
              buf   |-> InOrder(LAMBDA b, j : Copy(b, off(j), SubSeq(kv(j).value, 1, d.inline[j])),
                                ZeroBytes, Len(d.kv))]

(***************************************************************************)
(* Reading a chain.  ok is FALSE where the code returns an error.          *)
(***************************************************************************)
WalkNext(d, w) ==
  IF ~w.ok \/ w.next = 0 THEN w
  ELSE IF w.next \in Range(w.blocks) \/ Len(w.blocks) > MaxChain \/ d[w.next].kind # "xattr"
         THEN [ok |-> FALSE, blocks |-> <<>>, next |-> 0]
         ELSE [ok |-> TRUE, blocks |-> Append(w.blocks, w.next), next |-> d[w.next].next]

\* The loop ends within MaxChain + 2 rounds.
walkXattrChain(d, head) ==
  LET after[n \in 0..(MaxChain + 2)] ==
        IF n = 0 THEN [ok |-> TRUE, blocks |-> <<>>, next |-> head] ELSE WalkNext(d, after[n - 1])
  IN  after[MaxChain + 2]

\* At most len units of the run of continuation blocks from c on.
Remainder(blk, c, len) ==
  LET run      == {k \in c..Len(blk) : \A j \in c..k : blk[j].cont}
      frag(b)  == [k \in 1..(b.used - HdrSize) |-> b.buf[HdrSize + k - 1]]
      supplied == Concat([k \in 1..Cardinality(run) |-> frag(blk[c + k - 1])])
  IN  SubSeq(supplied, 1, Min({len, Len(supplied)}))

\* Entry e of block i.  What no block supplies stays zero.
ReadEntry(blk, i, e) ==
  LET take   == IF e.valueOff = 0 THEN 0 ELSE Min({blk[i].used - e.valueOff, e.valueLen})
      copied == [k \in 1..take |-> blk[i].buf[e.valueOff + k - 1]]
                  \o Remainder(blk, i + 1, e.valueLen - take)
  IN  [name  |-> e.name,
       value |-> [k \in 1..e.valueLen |-> IF k <= Len(copied) THEN copied[k] ELSE Zero]]

loadXattrEntries(d, head) ==
  LET w   == walkXattrChain(d, head)
      blk == [k \in DOMAIN w.blocks |-> d[w.blocks[k]]]
  IN  [ok  |-> w.ok,
       kvs |-> Concat([i \in DOMAIN blk |->
                 [j \in DOMAIN blk[i].entry |-> ReadEntry(blk, i, blk[i].entry[j])]])]

\* The first entry called n, 0 when there is none.
IndexOf(kvs, n) ==
  LET K == {i \in DOMAIN kvs : kvs[i].name = n} IN IF K = {} THEN 0 ELSE Min(K)

\* What getxattr answers for every name.
getXattr(kvs) ==
  [n \in Names |-> LET i == IndexOf(kvs, n)
                   IN  IF i = 0 THEN Absent ELSE kvs[i].value]

Idle    == [at |-> "idle"]
Garbled == << <<0, 0>> >>
Running(o) == o.at \notin {"idle", "failed"}

\* What a reader of an inode finds after a step.  While a call holds the
\* inode's lock nobody reads, and the map is still the one the call found.
See ==
  attrs' = [i \in Inos |->
              LET has == loadXattrEntries(disk', disk'[i])
              IN  IF Running(op'[i]) THEN op'[i].had
                  ELSE IF has.ok THEN getXattr(has.kvs) ELSE [n \in Names |-> Garbled]]

(***************************************************************************)
(* A call.  It holds its inode's lock from setXattr to its return.         *)
(***************************************************************************)
\* The entry set after a call c that its flags allow.
Changed(kvs, c) ==
  LET i == IndexOf(kvs, c.name)
  IN  CASE c.value = Absent -> SubSeq(kvs, 1, i - 1) \o SubSeq(kvs, i + 1, Len(kvs))
        [] i # 0 /\ c.value # Absent -> [kvs EXCEPT ![i].value = c.value]
        [] OTHER -> Append(kvs, [name |-> c.name, value |-> c.value])

\* ENODATA and EEXIST.
Permitted(kvs, c) ==
  LET i == IndexOf(kvs, c.name)
  IN  /\ c.value = Absent   => i # 0
      /\ c.flag = "create"  => i = 0
      /\ c.flag = "replace" => i # 0

setXattr(i) ==
  /\ ~readOnly /\ op[i] = Idle /\ calls < MaxCalls
  /\ \E n \in Names, v \in Values \cup {Absent}, f \in Flags :
       LET c   == [name |-> n, value |-> v, flag |-> IF v = Absent THEN "" ELSE f]
           has == loadXattrEntries(disk, disk[i])
           kvs == Changed(has.kvs, c)
           ds  == IF kvs = <<>> THEN <<>> ELSE buildXattrChain(kvs)
       IN  /\ has.ok /\ Permitted(has.kvs, c) /\ Len(ds) \in 0..MaxChain
           /\ op' = [op EXCEPT ![i] = [at |-> "alloc", call |-> c, kvs |-> kvs, descs |-> ds,
                                       had |-> attrs[i], got |-> <<>>, head |-> 0, old |-> <<>>, recs |-> <<>>]]
  /\ calls' = calls + 1
  /\ UNCHANGED <<disk, stable, free, bitmap, log, com, jlock, file, drain,
                 readOnly, writes, crashes>>
  /\ See

At(i, s)   == op[i].at = s
Goto(i, s) == op' = [op EXCEPT ![i].at = s]

\* Faulty: ENOSPC without the rollback.
AllocBlockKeeping(i) ==
  /\ At(i, "alloc") /\ Len(op[i].got) < Len(op[i].descs)
  /\ free' = free \ (IF free = {} THEN {} ELSE {Min(free)})
  /\ op' = [op EXCEPT ![i] = IF free = {} THEN Idle ELSE [@ EXCEPT !.got = Append(@, Min(free))]]
  /\ UNCHANGED <<disk, stable, bitmap, log, com, jlock, file, drain, readOnly,
                 calls, writes, crashes>>
  /\ See

\* One block per descriptor; rollbackAlloc and ENOSPC when there is none.
AllocBlock(i) ==
  /\ At(i, "alloc") /\ Len(op[i].got) < Len(op[i].descs)
  /\ \/ /\ free # {}
        /\ free' = free \ {Min(free)}
        /\ op' = [op EXCEPT ![i].got = Append(@, Min(free))]
     \/ /\ free = {}
        /\ free' = Range(op[i].got)
        /\ op' = [op EXCEPT ![i] = Idle]
  /\ UNCHANGED <<disk, stable, bitmap, log, com, jlock, file, drain, readOnly,
                 calls, writes, crashes>>
  /\ See

\* The blocks of the new chain with their contents.
NewChain(o) ==
  [b \in Range(o.got) |->
     LET k == CHOOSE j \in DOMAIN o.got : o.got[j] = b
     IN  serializeXattrBlock(o.descs[k], o.kvs, IF k = Len(o.got) THEN 0 ELSE o.got[k + 1])]

Pointer(i, o) == [t |-> "full", i |-> i, head |-> IF o.got = <<>> THEN 0 ELSE o.got[1]]
Frees(old)    == [k \in DOMAIN old |-> [t |-> "free", b |-> old[k]]]

\* For every block of the new chain its allocation and its contents.
Builds(o, new) ==
  [m \in 1..(2 * Len(o.got)) |->
     LET b == o.got[(m + 1) \div 2]
     IN  IF m % 2 = 1 THEN [t |-> "alloc", b |-> b] ELSE [t |-> "data", b |-> b, c |-> new[b]]]

\* Faulty: the inode is journalled before what it points at.
RecordsHeadFirst(i, o, new, old) == << Pointer(i, o) >> \o Builds(o, new) \o Frees(old)

\* commitXattrOp's records, in order.
Records(i, o, new, old) == Builds(o, new) \o << Pointer(i, o) >> \o Frees(old)

\* Writes the new chain and plans the records.  The code walks the old chain
\* after its INODE_FULL record; nobody else can have changed it by then.
WriteChain(i) ==
  /\ At(i, "alloc") /\ Len(op[i].got) = Len(op[i].descs)
  /\ LET new == NewChain(op[i])
         old == walkXattrChain(disk, disk[i]).blocks
     IN  /\ disk' = [x \in DOMAIN disk |-> IF x \in Range(op[i].got) THEN new[x] ELSE disk[x]]
         /\ op' = [op EXCEPT ![i] = [@ EXCEPT !.at = "record", !.old = old,
                                               !.recs = Records(i, op[i], new, old),
                                               !.head = IF op[i].got = <<>> THEN 0 ELSE op[i].got[1]]]
  /\ UNCHANGED <<stable, free, bitmap, log, com, jlock, file, drain, readOnly,
                 calls, writes, crashes>>
  /\ See

WriteRecord(i) ==
  /\ At(i, "record") /\ jlock = Nobody
  /\ log' = Append(log, Head(op[i].recs))
  /\ op' = [op EXCEPT ![i] = [@ EXCEPT !.recs = Tail(op[i].recs),
                                        !.at = IF Len(op[i].recs) = 1 THEN "sync" ELSE "record"]]
  /\ UNCHANGED <<disk, stable, free, bitmap, com, jlock, file, drain, readOnly,
                 calls, writes, crashes>>
  /\ See

(***************************************************************************)
(* Journal.Sync: up to the commit point, then the deferred metadata, the   *)
(* bitmaps and the writeback.                                              *)
(***************************************************************************)
CommitPoint(who) ==
  /\ jlock = Nobody /\ com < Len(log)
  /\ com' = Len(log) /\ jlock' = who
  /\ stable' = IF drain THEN disk ELSE stable
  /\ drain' = FALSE
  /\ UNCHANGED <<disk, free, bitmap, log, file, readOnly, calls, writes, crashes>>

FlushCommitted(who) ==
  /\ jlock = who /\ jlock' = Nobody
  /\ bitmap' = free
  /\ disk' = [disk EXCEPT ![File] = file] /\ stable' = disk'
  /\ UNCHANGED <<free, log, com, file, drain, readOnly, calls, writes, crashes>>

Sync(i) ==
  \/ At(i, "sync") /\ CommitPoint(i) /\ Goto(i, "commit") /\ See
  \/ At(i, "commit") /\ FlushCommitted(i) /\ Goto(i, "free") /\ See
  \/ /\ At(i, "sync") /\ jlock = Nobody /\ com = Len(log) /\ Goto(i, "free")
     /\ UNCHANGED <<disk, stable, free, bitmap, log, com, jlock, file, drain,
                    readOnly, calls, writes, crashes>>
     /\ See

Fsync == (CommitPoint(File) \/ FlushCommitted(File)) /\ UNCHANGED op /\ See

\* After the commit: the old chain, the writeback, the inode, the writeback.
freeBlockNow(i) ==
  /\ At(i, "free") /\ Goto(i, "flush")
  /\ free' = free \cup Range(op[i].old)
  /\ UNCHANGED <<disk, stable, bitmap, log, com, jlock, file, drain, readOnly,
                 calls, writes, crashes>>
  /\ See

FlushPendingWB(i) ==
  /\ \/ At(i, "flush") /\ Goto(i, "inode")
     \/ At(i, "done")  /\ op' = [op EXCEPT ![i] = Idle]
  /\ stable' = disk
  /\ UNCHANGED <<disk, free, bitmap, log, com, jlock, file, drain, readOnly,
                 calls, writes, crashes>>
  /\ See

writeInodeDirect(i) ==
  /\ At(i, "inode") /\ Goto(i, "done")
  /\ disk' = [disk EXCEPT ![i] = op[i].head]
  /\ UNCHANGED <<stable, free, bitmap, log, com, jlock, file, drain, readOnly,
                 calls, writes, crashes>>
  /\ See

\* An I/O error.  Before the first record the blocks are rolled back; from
\* then on failWrite makes the mount read-only and the call returns.
IOError(i) ==
  /\ op[i].at \in FaultAt
  /\ \/ /\ At(i, "alloc") /\ Len(op[i].got) = Len(op[i].descs)
        /\ free' = free \cup Range(op[i].got)
        /\ op' = [op EXCEPT ![i] = Idle]
        /\ UNCHANGED <<jlock, readOnly>>
     \/ /\ op[i].at \in {"record", "sync"} /\ jlock = Nobody
        /\ readOnly' = TRUE /\ Goto(i, "failed") /\ UNCHANGED <<free, jlock>>
     \/ /\ op[i].at \in {"commit", "flush", "inode", "done"}
        /\ jlock' = IF At(i, "commit") THEN Nobody ELSE jlock
        /\ readOnly' = TRUE /\ Goto(i, "failed") /\ UNCHANGED free
  /\ UNCHANGED <<disk, stable, bitmap, log, com, file, drain, calls, writes, crashes>>
  /\ See

(***************************************************************************)
(* The data file: a write takes a block and journals it.                   *)
(***************************************************************************)
WriteData ==
  /\ ~readOnly /\ jlock = Nobody /\ free # {} /\ writes < MaxWrites
  /\ LET b == Min(free)
     IN  /\ free' = free \ {b} /\ file' = file \cup {b}
         /\ disk' = [disk EXCEPT ![b] = DataBlock]
         /\ log' = log \o << [t |-> "alloc", b |-> b], [t |-> "file", s |-> file'] >>
  /\ drain' = TRUE /\ writes' = writes + 1
  /\ UNCHANGED <<stable, bitmap, com, op, jlock, readOnly, calls, crashes>>
  /\ See

(***************************************************************************)
(* Replay.  Pass 1 collects each inode's final head and each block's last  *)
(* next link; pass 2 restores only blocks of a final chain.                *)
(***************************************************************************)
LastOf(K) == IF K = {} THEN 0 ELSE Max(K)

xattrFinal(recs, i) ==
  LET k == LastOf({j \in DOMAIN recs : recs[j].t = "full" /\ recs[j].i = i})
  IN  IF k = 0 THEN 0 ELSE recs[k].head

xattrNext(recs, b) ==
  LET k == LastOf({j \in DOMAIN recs : recs[j].t = "data" /\ recs[j].b = b})
  IN  IF k = 0 THEN 0 ELSE recs[k].c.next

LiveFrom(recs, head) ==
  LET at[n \in 0..MaxChain] ==
        IF n = 0 THEN head ELSE IF at[n - 1] = 0 THEN 0 ELSE xattrNext(recs, at[n - 1])
  IN  {at[n] : n \in 0..MaxChain} \ {0}

\* Faulty: every block with a content record is restored.
LiveSetOfAll(recs) == {recs[k].b : k \in {j \in DOMAIN recs : recs[j].t = "data"}}

buildXattrLiveSet(recs) == UNION {LiveFrom(recs, xattrFinal(recs, i)) : i \in Inos}

\* Pass 2: the block or inode a record restores, and what to.
Restores(r, live) ==
  CASE r.t = "full" -> {r.i}
    [] r.t = "file" -> {File}
    [] r.t = "data" -> {r.b} \cap live
    [] OTHER -> {}
Contents(r) == CASE r.t = "full" -> r.head [] r.t = "file" -> r.s [] r.t = "data" -> r.c

\* Replay reads none of what it restores, so the last record of each block or
\* inode decides, and a replay cut short by another crash changes nothing.
Replayed(recs) ==
  LET live == buildXattrLiveSet(recs)
      keys == UNION {Restores(recs[k], live) : k \in DOMAIN recs}
  IN  [x \in keys |-> Contents(recs[LastOf({k \in DOMAIN recs : x \in Restores(recs[k], live)})])]

\* The bitmaps: both passes apply the reservations and the frees in order.
ReplayBits(f, recs) ==
  {b \in Pool :
     LET k == LastOf({j \in DOMAIN recs : recs[j].t \in {"alloc", "data", "free"} /\ recs[j].b = b})
     IN  IF k = 0 THEN b \in f ELSE recs[k].t = "free"}

\* A crash loses any of the blocks not yet written back; then replay.
Crash ==
  /\ crashes < MaxCrashes
  /\ LET recs == SubSeq(log, 1, com)
         res  == Replayed(recs)
     IN  /\ \E lost \in SUBSET {x \in DOMAIN disk \ DOMAIN res : disk[x] # stable[x]} :
              disk' = [x \in DOMAIN disk |-> IF x \in DOMAIN res THEN res[x]
                                             ELSE IF x \in lost THEN stable[x] ELSE disk[x]]
         /\ free' = ReplayBits(bitmap, recs)
  /\ stable' = disk' /\ bitmap' = free' /\ file' = disk'[File]
  /\ log' = <<>> /\ com' = 0 /\ op' = [i \in Inos |-> Idle] /\ jlock' = Nobody
  /\ drain' = FALSE /\ readOnly' = FALSE
  /\ crashes' = crashes + 1
  /\ UNCHANGED <<calls, writes>>
  /\ See

Init ==
  /\ disk = [x \in Pool \cup Inos \cup {File} |->
               CASE x \in Pool -> NoBlock [] x \in Inos -> 0 [] OTHER -> {}]
  /\ stable = disk
  /\ free = Pool /\ bitmap = Pool
  /\ log = <<>> /\ com = 0
  /\ op = [i \in Inos |-> Idle] /\ jlock = Nobody
  /\ file = {} /\ drain = FALSE /\ readOnly = FALSE
  /\ attrs = [i \in Inos |-> [n \in Names |-> Absent]]
  /\ calls = 0 /\ writes = 0 /\ crashes = 0

Next ==
  \/ \E i \in Inos : setXattr(i) \/ AllocBlock(i) \/ WriteChain(i) \/ WriteRecord(i) \/ Sync(i)
                       \/ freeBlockNow(i) \/ FlushPendingWB(i) \/ writeInodeDirect(i) \/ IOError(i)
  \/ Fsync \/ WriteData \/ Crash

Spec == Init /\ [][Next]_vars

-----------------------------------------------------------------------------
ChainOf(i) == Range(walkXattrChain(disk, disk[i]).blocks)

\* Every variable keeps its shape, and no chain a call has planned is longer
\* than buildXattrChain lets it be.
TypeOK ==
  /\ DOMAIN disk = Pool \cup Inos \cup {File} /\ DOMAIN stable = DOMAIN disk
  /\ free \subseteq Pool /\ bitmap \subseteq Pool /\ file \subseteq Pool
  /\ com \in 0..Len(log)
  /\ \A i \in Inos : Running(op[i]) => Len(op[i].got) <= Len(op[i].descs) /\ Len(op[i].descs) <= MaxChain
  /\ jlock \in Inos \cup {File, Nobody}
  /\ drain \in BOOLEAN /\ readOnly \in BOOLEAN

\* What the inode owns: its chain, and the one a call is building.  Once the
\* call has freed the old chain only the new one is left.
Owned(i) ==
  CASE ~Running(op[i]) -> ChainOf(i)
    [] op[i].at \in {"flush", "inode", "done"} -> Range(op[i].got)
    [] OTHER -> ChainOf(i) \cup Range(op[i].got)

\* While the mount is writable no block is in two of: an inode's chains, another
\* inode's, the data file, the free set; and until a crash cuts a call short,
\* every block is in one of them (the allocations and rollbacks of
\* setXattrLocked, the frees of commitXattrOp, pass 1 of replay).
ChainsApart ==
  TypeOK /\ (~readOnly =>
    /\ \A i, j \in Inos : i # j => Owned(i) \cap Owned(j) = {}
    /\ \A i \in Inos : Owned(i) \cap (file \cup free) = {}
    /\ file \cap free = {}
    /\ crashes = 0 => Pool = (UNION {Owned(i) : i \in Inos}) \cup file \cup free)

\* A block of the data file holds the file's data, however many attribute
\* blocks it has been before: no JRN_XATTR_DATA record of a freed chain is
\* restored over it (buildXattrLiveSet, replayXattrData).
DataKept == \A b \in file : disk[b] = DataBlock

Map == INSTANCE AttrMap WITH
         attrs <- attrs,
         call  <- [i \in Inos |-> IF op[i] = Idle THEN <<>> ELSE op[i].call]

\* The chains implement the attribute maps: reads return exactly what was set,
\* a call that has returned success survives a crash at any point (unwritten
\* blocks lost or not, replay itself cut short or not), and a call that was cut
\* short by a crash or by failWrite has happened entirely or not at all.
AttrRefinement == Map!Spec
=============================================================================
