----------------------------- MODULE MetaCache -----------------------------
(***************************************************************************)
(* The deferred-metadata map of the FUSE bridge (fuse/cache.go) between    *)
(* its writers and the device page cache.                                  *)
(*                                                                         *)
(* An operation stores whole metadata blocks in dirtyBlocks; SyncMeta      *)
(* later copies the map, writes the copies to the device, releases the     *)
(* block frees deferred meanwhile, and deletes the entries nobody stored   *)
(* again.  Readers look in the map first and on the device second.         *)
(*                                                                         *)
(* A writer holds the shard lock of the block it changes until it is done; *)
(* SyncMeta takes no shard lock, so each of its steps interleaves with the *)
(* writers'.  Journal.Sync calls it under j.mu ("sync"); Fsync and unmount *)
(* also call it through flushDirtyMeta without that lock ("fsync").        *)
(*                                                                         *)
(* Inode-table blocks pack several slots.  Pool blocks come from the data  *)
(* allocator and hold a trie page (deferred) or file data (written through *)
(* to the device at once).                                                 *)
(***************************************************************************)
EXTENDS Integers, Sequences, FiniteSets

CONSTANTS
  InodeBlocks,  \* blocks of the inode table
  PoolBlocks,   \* blocks of the data region
  Slots,        \* inode slots of a block (any sub-block range, for data)
  Values,       \* contents of a slot
  Zero,         \* the content of the slot of a freed inode: all bytes zero
  Undef,        \* the content of a slot no writer vouches for
  Writers,      \* operations in progress
  SyncDrainers, \* SyncMeta calls under j.mu: at most one
  FsyncDrainers \* SyncMeta calls from flushDirtyMeta

ASSUME MetaCacheAssumption ==
  /\ InodeBlocks \cap PoolBlocks = {}
  /\ Undef \notin Values /\ Zero \in Values
  /\ SyncDrainers \cap FsyncDrainers = {}
  /\ \A d, e \in SyncDrainers : d = e

Blocks   == InodeBlocks \cup PoolBlocks
Drainers == SyncDrainers \cup FsyncDrainers
Content  == [Slots -> Values]

VARIABLES
  device,        \* page cache: block -> content
  dirtyBlocks,   \* deferred block -> content; its domain is the map's keys
  pendingFrees,  \* blocks whose free waits for the next SyncMeta
  allocFree,     \* blocks free in the data allocator
  owner,         \* pool block -> "none", "page", "data" or "leaked"
  op,            \* writer -> the operation it is in
  drain,         \* drainer -> the SyncMeta it is in
  latest         \* history: block -> slot -> content last written, or Undef

vars == <<device, dirtyBlocks, pendingFrees, allocFree, owner, op, drain, latest>>

(* An operation changes one slot of one block, by its kind:                *)
(*   owned   writeInodeOwned, as in commitInodeMetadata, commitExtentChange *)
(*   direct  writeInodeDirect, as in commitXattrOp                         *)
(*   cached  a directory operation through the op cache and mergeCache     *)
(*   create  createNamedInode: cached, with writeThroughFreshInodeSlot     *)
(*   page    triePageInit: a fresh block, merged as a trie page            *)
(*   data    writeExtentData overwriting part of a block                   *)
(*   fill    writeExtentData filling a hole with a fresh block             *)
Kinds == {"owned", "direct", "cached", "create", "page", "data", "fill"}

(* The step that follows a step, in code order: file operations journal    *)
(* before they read the inode block, directory operations before they      *)
(* merge it, data writes last.  The journal step takes j.mu.               *)
After(kind, step) ==
  CASE step = "begin" /\ kind \in {"owned", "direct", "page"} -> "journal"
    [] step = "begin" /\ kind \in {"cached", "create", "data"} -> "load"
    [] step = "begin" /\ kind = "fill" -> "write"
    [] step = "load" /\ kind = "owned" -> "store"
    [] step = "load" /\ kind \in {"direct", "data"} -> "write"
    [] step = "load" /\ kind = "cached" -> "journal"
    [] step = "load" /\ kind = "create" -> "arm"
    [] step = "arm" -> "patch"
    [] step = "patch" -> "journal"
    [] step = "write" -> IF kind = "direct" THEN "store" ELSE "journal"
    [] step = "journal" /\ kind \in {"owned", "direct"} -> "load"
    [] step = "journal" /\ kind \in {"cached", "create", "page"} -> "store"
    [] step = "journal" /\ kind \in {"data", "fill"} -> "idle"
    [] step = "store" -> "idle"

Idle == [pc |-> "idle"]   \* no operation in progress
Rest == [pc |-> "rest"]   \* no SyncMeta in progress

At(w, step) == op[w].pc = step

(* op[w] has become o and the given step of it is done.                    *)
StepDone(w, o, step) ==
  LET next == After(o.kind, step)
  IN op' = [op EXCEPT ![w] = IF next = "idle" THEN Idle ELSE [o EXCEPT !.pc = next]]

Locked(b)  == \E w \in Writers : op[w] # Idle /\ op[w].blk = b
Patched(o) == [o.buf EXCEPT ![o.slot] = o.val]
Deferred   == DOMAIN dirtyBlocks

(* BlockDevice.ReadBlock: the dirty view first, then the device.           *)
ReadBlock(b) == IF b \in Deferred THEN dirtyBlocks[b] ELSE device[b]

Init ==
  /\ device \in [Blocks -> {[s \in Slots |-> v] : v \in Values}]
  /\ dirtyBlocks = [b \in {} |-> device[b]]
  /\ pendingFrees = {} /\ allocFree = PoolBlocks
  /\ owner = [b \in PoolBlocks |-> "none"]
  /\ op = [w \in Writers |-> Idle]
  /\ drain = [d \in Drainers |-> Rest]
  /\ latest = device

-----------------------------------------------------------------------------
(* setDirtyBlock                                                           *)
setDirtyBlock(b, buf) ==
  dirtyBlocks' = [x \in Deferred \cup {b} |-> IF x = b THEN buf ELSE dirtyBlocks[x]]

(* Directory operations, which alone create inodes and change trie pages,  *)
(* run one at a time under b.mu.                                           *)
DirKinds == {"cached", "create", "page"}
MuFree   == \A w \in Writers : op[w] # Idle => op[w].kind \notin DirKinds

(* An inode carries its change time, so what an operation stores of it     *)
(* differs from every older copy.  A trie page or data may repeat.         *)
Fresh(b, s, v) ==
  /\ v \notin {device[b][s], latest[b][s], ReadBlock(b)[s]}
  /\ \A d \in Drainers :
       drain[d] # Rest /\ b \in DOMAIN drain[d].snap => v # drain[d].snap[b][s]

(* A content that stands for no inode in use.                              *)
NoInode(v) == v \in {Undef, Zero}

(* What an operation may store in an inode slot: a new inode; a new        *)
(* version of the inode in use there; or zeroes in its place, the same     *)
(* each time, when FreeInode runs in a directory operation.                *)
SlotChange(kind, b, s, v) ==
  /\ kind # "create" => ~NoInode(latest[b][s])
  /\ IF v = Zero THEN kind = "cached" ELSE Fresh(b, s, v)

(* Which blocks an operation of each kind changes.                         *)
MayChange(kind, b) ==
  \/ kind \in {"owned", "direct", "cached", "create"} /\ b \in InodeBlocks
  \/ kind = "cached" /\ b \in PoolBlocks /\ owner[b] = "page"
  \/ kind = "data" /\ b \in PoolBlocks /\ owner[b] = "data"

(* An operation takes the locks of its block.                              *)
BeginOp(w, kind, b, s, v) ==
  /\ op[w] = Idle /\ ~Locked(b) /\ MayChange(kind, b)
  /\ kind \in DirKinds => MuFree
  /\ b \in InodeBlocks => SlotChange(kind, b, s, v)
  /\ op' = [op EXCEPT ![w] =
       [pc |-> After(kind, "begin"), kind |-> kind, blk |-> b, slot |-> s,
        val |-> v, buf |-> [t \in Slots |-> v]]]
  /\ UNCHANGED <<device, dirtyBlocks, pendingFrees, allocFree, owner, drain, latest>>

(* AllocBlock for a trie page or for file data.                            *)
AllocBlock(w, kind, b, s, v) ==
  /\ op[w] = Idle /\ kind \in {"page", "fill"} /\ b \in allocFree
  /\ kind \in DirKinds => MuFree
  /\ allocFree' = allocFree \ {b}
  /\ owner' = [owner EXCEPT ![b] = IF kind = "page" THEN "page" ELSE "data"]
  /\ op' = [op EXCEPT ![w] =
       [pc |-> After(kind, "begin"), kind |-> kind, blk |-> b, slot |-> s,
        val |-> v, buf |-> [t \in Slots |-> v]]]
  /\ latest' = [latest EXCEPT ![b] = [t \in Slots |-> Undef]]
  /\ UNCHANGED <<device, dirtyBlocks, pendingFrees, drain>>

(* ReadBlock: a hit in the dirty view, or a miss and then a device read.   *)
LoadHit(w) ==
  /\ At(w, "load") /\ op[w].blk \in Deferred
  /\ StepDone(w, [op[w] EXCEPT !.buf = dirtyBlocks[op[w].blk]], "load")
  /\ UNCHANGED <<device, dirtyBlocks, pendingFrees, allocFree, owner, drain, latest>>

LoadMiss(w) ==
  /\ At(w, "load") /\ op[w].blk \notin Deferred
  /\ op' = [op EXCEPT ![w].pc = "read"]
  /\ UNCHANGED <<device, dirtyBlocks, pendingFrees, allocFree, owner, drain, latest>>

ReadDevice(w) ==
  /\ At(w, "read")
  /\ StepDone(w, [op[w] EXCEPT !.buf = device[op[w].blk]], "load")
  /\ UNCHANGED <<device, dirtyBlocks, pendingFrees, allocFree, owner, drain, latest>>

(* WriteRecord waits for j.mu, which Journal.Sync holds across SyncMeta.   *)
JournalRecord(w) ==
  /\ At(w, "journal")
  /\ \A d \in SyncDrainers : drain[d] = Rest
  /\ StepDone(w, op[w], "journal")
  /\ UNCHANGED <<device, dirtyBlocks, pendingFrees, allocFree, owner, drain, latest>>

(* The content an operation has written counts from here on.               *)
Written(o) ==
  latest' = [latest EXCEPT ![o.blk] =
    IF o.kind \in {"page", "fill"} THEN Patched(o) ELSE [@ EXCEPT ![o.slot] = o.val]]

(* mergeCache, writeInodeOwned and the end of writeInodeDirect.            *)
StoreBlock(w) ==
  /\ At(w, "store")
  /\ setDirtyBlock(op[w].blk, Patched(op[w]))
  /\ Written(op[w])
  /\ StepDone(w, op[w], "store")
  /\ UNCHANGED <<device, pendingFrees, allocFree, owner, drain>>

(* WriteBlock: the first half of writeInodeDirect, all of a data write.    *)
WriteBlock(w) ==
  /\ At(w, "write")
  /\ device' = [device EXCEPT ![op[w].blk] = Patched(op[w])]
  /\ IF op[w].kind = "direct" THEN UNCHANGED latest ELSE Written(op[w])
  /\ StepDone(w, op[w], "write")
  /\ UNCHANGED <<dirtyBlocks, pendingFrees, allocFree, owner, drain>>

(* writeThroughFreshInodeSlot: the slot on the device, then the slot in    *)
(* the stored copy if there is one.                                        *)
ArmSlot(w) ==
  LET o == op[w] IN
  /\ At(w, "arm")
  /\ device' = [device EXCEPT ![o.blk][o.slot] = o.val]
  /\ latest' = [latest EXCEPT ![o.blk][o.slot] = Undef]
  /\ StepDone(w, o, "arm")
  /\ UNCHANGED <<dirtyBlocks, pendingFrees, allocFree, owner, drain>>

PatchDeferred(w) ==
  LET o == op[w] IN
  /\ At(w, "patch")
  /\ dirtyBlocks' = [b \in Deferred |->
       IF b = o.blk THEN [dirtyBlocks[b] EXCEPT ![o.slot] = o.val] ELSE dirtyBlocks[b]]
  /\ StepDone(w, o, "patch")
  /\ UNCHANGED <<device, pendingFrees, allocFree, owner, drain, latest>>

(* A failed operation.  rollbackAlloc hands a fresh data block straight    *)
(* back, as triePageInit does with its page when the record of it fails.   *)
(* After that record cacheAbort drops what the directory operation changed *)
(* and the page stays allocated.                                           *)
AbortOp(w) ==
  LET o    == op[w]
      back == o.kind = "fill" \/ (o.kind = "page" /\ o.pc = "journal") IN
  /\ o # Idle /\ o.kind \notin {"owned", "direct"}
  /\ allocFree' = IF back THEN allocFree \cup {o.blk} ELSE allocFree
  /\ owner' = CASE back -> [owner EXCEPT ![o.blk] = "none"]
                [] o.kind = "page" /\ ~back -> [owner EXCEPT ![o.blk] = "leaked"]
                [] OTHER -> owner
  /\ op' = [op EXCEPT ![w] = Idle]
  /\ UNCHANGED <<device, dirtyBlocks, pendingFrees, drain, latest>>

(* deferBlockFree: the owner drops the block; its deferred copy is kept.   *)
(* trieFreeNode does so inside a directory operation.                      *)
deferBlockFree(b) ==
  /\ owner[b] \in {"page", "data"} /\ ~Locked(b)
  /\ owner[b] = "page" => MuFree
  /\ owner' = [owner EXCEPT ![b] = "none"]
  /\ pendingFrees' = pendingFrees \cup {b}
  /\ UNCHANGED <<device, dirtyBlocks, allocFree, op, drain, latest>>

(* freeBlockNow, for a block that was written through: the old chain of a  *)
(* setxattr that has synced the journal itself.                            *)
freeBlockNow(b) ==
  /\ owner[b] = "data" /\ ~Locked(b)
  /\ dirtyBlocks' = [x \in Deferred \ {b} |-> dirtyBlocks[x]]
  /\ owner' = [owner EXCEPT ![b] = "none"]
  /\ allocFree' = allocFree \cup {b}
  /\ UNCHANGED <<device, pendingFrees, op, drain, latest>>

-----------------------------------------------------------------------------
(* Faulty: the frees go to the allocator before the copies are written;    *)
(* the queue is not reset.                                                 *)
DrainBeginFreeFirst(d) ==
  /\ drain[d] = Rest
  /\ drain' = [drain EXCEPT ![d] =
       [pc |-> "write", snap |-> dirtyBlocks, todo |-> Deferred, frees |-> {}]]
  /\ allocFree' = allocFree \cup pendingFrees
  /\ pendingFrees' = {}
  /\ UNCHANGED <<device, dirtyBlocks, owner, op, latest>>

DrainBeginKeepQueue(d) ==
  /\ drain[d] = Rest
  /\ drain' = [drain EXCEPT ![d] =
       [pc |-> "write", snap |-> dirtyBlocks, todo |-> Deferred, frees |-> pendingFrees]]
  /\ UNCHANGED <<device, dirtyBlocks, pendingFrees, allocFree, owner, op, latest>>

(* SyncMeta, first section under dirtyMu: take the frees and copy the map. *)
(* flushDirtyMeta does not call it with an empty map.                      *)
DrainBegin(d) ==
  /\ drain[d] = Rest
  /\ d \in FsyncDrainers => Deferred # {}
  /\ drain' = [drain EXCEPT ![d] =
       [pc |-> "write", snap |-> dirtyBlocks, todo |-> Deferred, frees |-> pendingFrees]]
  /\ pendingFrees' = {}
  /\ UNCHANGED <<device, dirtyBlocks, allocFree, owner, op, latest>>

(* The loop of device writes, in map order: any order.                     *)
DrainWrite(d, b) ==
  /\ drain[d].pc = "write" /\ b \in drain[d].todo
  /\ device' = [device EXCEPT ![b] = drain[d].snap[b]]
  /\ drain' = [drain EXCEPT ![d].todo = @ \ {b}]
  /\ UNCHANGED <<dirtyBlocks, pendingFrees, allocFree, owner, op, latest>>

(* A write fails: the map is untouched and the frees are put back.         *)
DrainWriteFails(d) ==
  /\ drain[d].pc = "write" /\ drain[d].todo # {}
  /\ pendingFrees' = pendingFrees \cup drain[d].frees
  /\ drain' = [drain EXCEPT ![d] = Rest]
  /\ UNCHANGED <<device, dirtyBlocks, allocFree, owner, op, latest>>

(* The frees go to the allocator once every copy is written.               *)
DrainFree(d) ==
  /\ drain[d].pc = "write" /\ drain[d].todo = {}
  /\ allocFree' = allocFree \cup drain[d].frees
  /\ drain' = [drain EXCEPT ![d].pc = "delete", ![d].frees = {}]
  /\ UNCHANGED <<device, dirtyBlocks, pendingFrees, owner, op, latest>>

(* Faulty: the copied entries are deleted whatever they hold by now.       *)
DrainDeleteAll(d) ==
  /\ drain[d].pc = "delete"
  /\ dirtyBlocks' = [b \in Deferred \ DOMAIN drain[d].snap |-> dirtyBlocks[b]]
  /\ drain' = [drain EXCEPT ![d] = Rest]
  /\ UNCHANGED <<device, pendingFrees, allocFree, owner, op, latest>>

(* Last section under dirtyMu: delete the entries still equal to the copy. *)
DrainDelete(d) ==
  LET kept == {b \in Deferred :
                 b \notin DOMAIN drain[d].snap \/ dirtyBlocks[b] # drain[d].snap[b]}
  IN
  /\ drain[d].pc = "delete"
  /\ dirtyBlocks' = [b \in kept |-> dirtyBlocks[b]]
  /\ drain' = [drain EXCEPT ![d] = Rest]
  /\ UNCHANGED <<device, pendingFrees, allocFree, owner, op, latest>>

-----------------------------------------------------------------------------
OpStep(w) ==
  \/ LoadHit(w) \/ LoadMiss(w) \/ ReadDevice(w) \/ JournalRecord(w) \/ StoreBlock(w)
  \/ WriteBlock(w) \/ ArmSlot(w) \/ PatchDeferred(w) \/ AbortOp(w)

DrainStep(d) ==
  \/ \E b \in Blocks : DrainWrite(d, b)
  \/ DrainWriteFails(d) \/ DrainFree(d) \/ DrainDelete(d)

Next ==
  \/ \E w \in Writers, k \in Kinds, b \in Blocks, s \in Slots, v \in Values :
       BeginOp(w, k, b, s, v) \/ AllocBlock(w, k, b, s, v)
  \/ \E w \in Writers : OpStep(w)
  \/ \E b \in PoolBlocks : deferBlockFree(b) \/ freeBlockNow(b)
  \/ \E d \in Drainers : DrainBegin(d) \/ DrainStep(d)

Spec == Init /\ [][Next]_vars

-----------------------------------------------------------------------------
Partial == UNION {[D -> Content] : D \in SUBSET Blocks}

OpType ==
  {Idle} \cup
  [pc : {"load", "read", "journal", "store", "write", "arm", "patch"},
   kind : Kinds, blk : Blocks, slot : Slots, val : Values, buf : Content]

DrainType ==
  {Rest} \cup
  [pc : {"write", "delete"}, snap : Partial, todo : SUBSET Blocks,
   frees : SUBSET PoolBlocks]

(* Every variable has its type, and a drain only has blocks of its own     *)
(* copy left to write.                                                     *)
TypeOK ==
  /\ device \in [Blocks -> Content]
  /\ Deferred \subseteq Blocks /\ \A b \in Deferred : dirtyBlocks[b] \in Content
  /\ pendingFrees \subseteq PoolBlocks /\ allocFree \subseteq PoolBlocks
  /\ owner \in [PoolBlocks -> {"none", "page", "data", "leaked"}]
  /\ \A w \in Writers : op[w] \in OpType
  /\ \A d \in Drainers : drain[d] # Rest =>
       drain[d] \in DrainType /\ drain[d].todo \subseteq DOMAIN drain[d].snap
  /\ latest \in [Blocks -> [Slots -> Values \cup {Undef}]]

(* A slot without an inode in use: freed, or armed by a create that has    *)
(* not merged it; or one writeInodeDirect has written and not stored yet.  *)
Unsettled(b, s) ==
  \/ NoInode(latest[b][s])
  \/ \E w \in Writers :
       At(w, "store") /\ op[w].kind = "direct" /\ op[w].blk = b /\ op[w].slot = s

(* Readers of the inode table see, in the slot of every inode in use, what *)
(* the last operation on it wrote, however a SyncMeta in progress has      *)
(* mixed older copies into the page cache: the dirty view's promise that   *)
(* lookups and stats stay coherent between the merge and the drain.        *)
SlotsCoherent ==
  \A b \in InodeBlocks, s \in Slots :
    Unsettled(b, s) \/ ReadBlock(b)[s] = latest[b][s]

(* "zero the slot so fsck does not see a free inode with valid magic"      *)
(* (inode_alloc.go:66-67): a freed slot reads as zero.                     *)
FreedSlotsZero ==
  \A b \in InodeBlocks, s \in Slots : latest[b][s] = Zero => ReadBlock(b)[s] = Zero

(* The same of trie pages.                                                 *)
PagesCoherent ==
  \A b \in PoolBlocks, s \in Slots :
    owner[b] = "page" => (Locked(b) \/ ReadBlock(b)[s] = latest[b][s])

(* SyncMeta never has a copy left to write of a block that is free or that *)
(* a file's data now lives in, so it cannot overwrite a new owner.         *)
DrainNeverClobbers ==
  \A d \in Drainers : drain[d] # Rest =>
    \A b \in drain[d].todo \cap PoolBlocks : b \notin allocFree /\ owner[b] # "data"

(* Where a pool block can be.                                              *)
Owned(b)    == owner[b] # "none"
Queued(b)   == b \in pendingFrees
Free(b)     == b \in allocFree
Holds(d, b) == drain[d] # Rest /\ b \in drain[d].frees

(* Every pool block is in exactly one place: held by an owner (or leaked   *)
(* by an aborted operation), queued, in the hands of one SyncMeta, or free *)
(* in the allocator.  No free is lost or applied twice, also when a drain  *)
(* fails and puts its frees back.                                          *)
FreesConserved ==
  \A b \in PoolBlocks :
    /\ Owned(b) \/ Queued(b) \/ Free(b) \/ \E d \in Drainers : Holds(d, b)
    /\ Owned(b) => ~Queued(b) /\ ~Free(b)
    /\ Queued(b) => ~Free(b)
    /\ \A d \in Drainers : Holds(d, b) =>
         /\ ~Owned(b) /\ ~Queued(b) /\ ~Free(b)
         /\ \A e \in Drainers : Holds(e, b) => e = d

(* Once the slot of a new inode is armed and its record can be journaled,  *)
(* the slot is on the device whenever no SyncMeta is running.              *)
ArmedSlotOnDevice ==
  \A w \in Writers :
    op[w] # Idle /\ op[w].kind = "create" /\ op[w].pc \in {"journal", "store"}
      /\ (\A d \in Drainers : drain[d] = Rest)
      => device[op[w].blk][op[w].slot] = op[w].val

(* File data is never served from the dirty view.                          *)
DataNotDeferred ==
  \A b \in PoolBlocks : owner[b] = "data" => b \notin Deferred
=============================================================================
