----------------------------- MODULE Allocator -----------------------------
(***************************************************************************)
(* The runtime allocator of the FUSE bridge (fuse/fs.go) and the deferred  *)
(* frees that feed it (fuse/cache.go).  One scan, free or adjustment runs  *)
(* under a.mu and is one step.  An allocation is several: a scan that finds *)
(* nothing releases a.mu, looks at the pending frees, syncs the journal if *)
(* there are any, and scans once more.  Other callers, the freeing         *)
(* operation and the drains run in between.  Failing device writes are the *)
(* subject of MetaCache and are left out here.                             *)
(***************************************************************************)
EXTENDS AllocPyramid

CONSTANTS
  Callers,      \* threads that allocate
  Sizes,        \* lengths of the runs that callers ask for
  Shields,      \* values the metadata shield takes
  FreeOrders,   \* how operations free: subset of {"log", "defer", "now"}
  FsyncDrains,  \* may Fsync's flushDirtyMeta drain without the journal lock?
  ZeroFree,     \* may the pool start with block 0 free, as fsck rebuilds it?
  Syncer,       \* a thread that only syncs the journal
  None          \* no request, no lock holder, no free under way

ASSUME AllocatorAssumption ==
  /\ Sizes \subseteq Nat \ {0} /\ Shields \subseteq Nat /\ 0 \in Shields
  /\ FreeOrders \subseteq {"log", "defer", "now"}
  /\ FsyncDrains \in BOOLEAN /\ ZeroFree \in BOOLEAN
  /\ Syncer \notin Callers /\ None \notin Callers \cup {Syncer}

(* None stands for no free under way and for a journal lock nobody holds.  *)
ASSUME NoneIsAMark ==
  /\ None \notin [order : FreeOrders \cup {"free"}, run : SUBSET AllBlocks]
  /\ None \notin [who : Callers \cup {Syncer}, stage : {"take", "apply"}]

(* AllocBlock, AllocBlockMeta, AllocBlocks(n) and AllocRunsUpTo(n).        *)
Requests ==
  [kind : {"data", "meta"}, n : {1}] \cup [kind : {"run", "upto"}, n : Sizes]

VARIABLES
  pool,         \* the pyramid and its free count
  metaShield,   \* free blocks reserved for metadata
  owned,        \* blocks handed out and not given back
  pendingFrees, \* queued for the next drain
  taken,        \* per kind of drain, the frees it took off the queue
  half,         \* the free an operation is in the middle of, or None
  logged,       \* freed blocks whose freeing record is not committed
  dirty,        \* Journal.dirty: an uncommitted record exists
  jmu,          \* the sync that holds j.mu and its stage, or None
  call,         \* per caller, the allocation in progress, or None
  failed        \* history: the call this step answered with ENOSPC, or None

heap == <<pool, metaShield, owned>>
frees == <<pendingFrees, taken, half, logged, dirty, jmu>>
vars == <<heap, frees, call, failed>>

Runs == {r[1]..r[2] : r \in AllBlocks \X AllBlocks} \ {{}}
MarkFree(run) == AllocMarkFreeRun(pool, Min(run), Cardinality(run))
InFlight == pendingFrees \cup taken["sync"] \cup taken["fsync"]

Init ==
  /\ \E zero \in {{}, {0}} :
       /\ ZeroFree \/ zero = {}
       /\ pool = Pyramid((AllBlocks \ {0}) \cup zero)
  /\ metaShield = 0 /\ owned = {}
  /\ pendingFrees = {} /\ taken = [k \in {"sync", "fsync"} |-> {}]
  /\ half = None /\ logged = {} /\ dirty = FALSE /\ jmu = None
  /\ call = [c \in Callers |-> None] /\ failed = None

-----------------------------------------------------------------------------
(* Faulty: the shield does not hold back a data allocation.                *)
dataAvailAll == pool.freeCount

dataAvail ==
  IF pool.freeCount > metaShield THEN pool.freeCount - metaShield ELSE 0

(* One pass of tryAllocBlock, tryAllocBlocks or tryAllocRunsUpTo.          *)
Try(r) ==
  LET fail == [pool |-> pool, got |-> {}]
      z    == reserveBlockZero(pool)
      take(S) == [pool |-> ClearBits(z, S), got |-> S]
  IN CASE r.kind = "meta" -> IF pool.freeCount = 0 THEN fail ELSE scanBlock(pool)
       [] r.kind = "data" -> IF dataAvail = 0 THEN fail ELSE scanBlock(pool)
       [] r.kind = "run"  ->
            IF r.n > dataAvail \/ r.n > BlockCount THEN fail ELSE take(scanRun(z, r.n))
       [] r.kind = "upto" ->
            LET k == Min({r.n, dataAvail})
            IN IF k = 0 \/ k > BlockCount THEN fail ELSE take(scanRuns(z, k))

(* The first scan; `missed` notes the frees it could not see yet.          *)
Scan(c, r) ==
  /\ call[c] = None
  /\ pool' = Try(r).pool
  /\ owned' = owned \cup Try(r).got
  /\ call' = IF Try(r).got # {} THEN call
             ELSE [call EXCEPT ![c] = [r |-> r, pc |-> "reclaim", missed |-> InFlight]]
  /\ failed' = None
  /\ UNCHANGED <<metaShield, frees>>

(* reclaimPendingFrees: no free is pending, so the allocation fails.       *)
ReclaimNothing(c) ==
  /\ call[c] # None /\ call[c].pc = "reclaim" /\ pendingFrees = {}
  /\ failed' = call[c]
  /\ call' = [call EXCEPT ![c] = None]
  /\ UNCHANGED <<heap, frees>>

(* reclaimPendingFrees: frees are pending, so it calls journal.Sync.       *)
ReclaimSync(c) ==
  /\ call[c] # None /\ call[c].pc = "reclaim" /\ pendingFrees # {}
  /\ call' = [call EXCEPT ![c].pc = "sync"]
  /\ failed' = None
  /\ UNCHANGED <<heap, frees>>

(* syncLocked returns at once when no record is uncommitted.               *)
SyncClean(c) ==
  /\ call[c] # None /\ call[c].pc = "sync" /\ jmu = None /\ ~dirty
  /\ call' = [call EXCEPT ![c].pc = "retry"]
  /\ failed' = None
  /\ UNCHANGED <<heap, frees>>

(* The second and last scan.                                               *)
Retry(c) ==
  LET missed == call[c].missed \cap InFlight IN
  /\ call[c] # None /\ call[c].pc = "retry"
  /\ pool' = Try(call[c].r).pool
  /\ owned' = owned \cup Try(call[c].r).got
  /\ failed' = IF Try(call[c].r).got # {} THEN None ELSE [call[c] EXCEPT !.missed = missed]
  /\ call' = [call EXCEPT ![c] = None]
  /\ UNCHANGED <<metaShield, frees>>

-----------------------------------------------------------------------------
MaySync(s) == IF s = Syncer THEN TRUE ELSE call[s] # None /\ call[s].pc = "sync"

(* syncLocked up to its commit point: every record so far is committed.    *)
SyncCommit(s) ==
  /\ jmu = None /\ dirty
  /\ MaySync(s)
  /\ jmu' = [who |-> s, stage |-> "take"]
  /\ dirty' = FALSE /\ logged' = {} /\ failed' = None
  /\ UNCHANGED <<heap, pendingFrees, taken, half, call>>

(* Faulty: the queue is copied, not emptied.                               *)
SyncTakeKeepQueue ==
  /\ jmu # None /\ jmu.stage = "take"
  /\ jmu' = [jmu EXCEPT !.stage = "apply"]
  /\ taken' = [taken EXCEPT !["sync"] = pendingFrees] /\ failed' = None
  /\ UNCHANGED <<heap, pendingFrees, half, logged, dirty, call>>

(* SyncMeta takes the whole queue before it writes anything.               *)
SyncTake ==
  /\ jmu # None /\ jmu.stage = "take"
  /\ jmu' = [jmu EXCEPT !.stage = "apply"]
  /\ taken' = [taken EXCEPT !["sync"] = pendingFrees] /\ pendingFrees' = {}
  /\ failed' = None
  /\ UNCHANGED <<heap, half, logged, dirty, call>>

(* After its writes SyncMeta returns the frees to the allocator, one call  *)
(* of FreeRun for each run it took.                                        *)
SyncApply(run) ==
  /\ jmu # None /\ jmu.stage = "apply" /\ run \subseteq taken["sync"]
  /\ pool' = MarkFree(run)
  /\ taken' = [taken EXCEPT !["sync"] = @ \ run]
  /\ failed' = None
  /\ UNCHANGED <<metaShield, owned, pendingFrees, half, logged, dirty, jmu, call>>

(* It deletes the drained entries, the pools are persisted and the sync    *)
(* releases j.mu.                                                          *)
SyncEnd ==
  /\ jmu # None /\ jmu.stage = "apply" /\ taken["sync"] = {}
  /\ jmu' = None
  /\ call' = IF jmu.who = Syncer THEN call ELSE [call EXCEPT ![jmu.who].pc = "retry"]
  /\ failed' = None
  /\ UNCHANGED <<heap, pendingFrees, taken, half, logged, dirty>>

(* flushDirtyMeta of Fsync: SyncMeta without j.mu.                         *)
FsyncTake ==
  /\ FsyncDrains /\ taken["fsync"] = {} /\ pendingFrees # {}
  /\ taken' = [taken EXCEPT !["fsync"] = pendingFrees] /\ pendingFrees' = {}
  /\ failed' = None
  /\ UNCHANGED <<heap, half, logged, dirty, jmu, call>>

FsyncApply(run) ==
  /\ run \subseteq taken["fsync"]
  /\ pool' = MarkFree(run)
  /\ taken' = [taken EXCEPT !["fsync"] = @ \ run]
  /\ failed' = None
  /\ UNCHANGED <<metaShield, owned, pendingFrees, half, logged, dirty, jmu, call>>

-----------------------------------------------------------------------------
(* commitExtentChange and trieFreeNode journal the free, then queue it;    *)
(* freeInodeData queues it, then journals it; commitXattrOp journals it,   *)
(* syncs and frees.  A record waits for j.mu.                              *)
FreeBegin(order, run) ==
  /\ half = None /\ run \subseteq owned
  /\ owned' = owned \ run
  /\ half' = [order |-> order, run |-> run]
  /\ IF order = "defer"
     THEN pendingFrees' = pendingFrees \cup run /\ UNCHANGED <<logged, dirty>>
     ELSE /\ jmu = None
          /\ logged' = logged \cup run /\ dirty' = TRUE /\ UNCHANGED pendingFrees
  /\ failed' = None
  /\ UNCHANGED <<pool, metaShield, taken, jmu, call>>

(* Faulty: the old xattr blocks are freed without waiting for the sync.    *)
FreeEndNoSync ==
  /\ half # None /\ failed' = None
  /\ CASE half.order = "log" ->
            half' = None /\ pendingFrees' = pendingFrees \cup half.run /\ UNCHANGED <<logged, dirty>>
       [] half.order = "defer" ->
            jmu = None /\ half' = None /\ logged' = logged \cup half.run /\ dirty' = TRUE
            /\ UNCHANGED pendingFrees
       [] half.order = "now" ->
            half' = [half EXCEPT !.order = "free"] /\ UNCHANGED <<pendingFrees, logged, dirty>>
       [] OTHER -> FALSE
  /\ UNCHANGED <<heap, taken, jmu, call>>

(* The other half of a free: it is queued, it is journaled, or the sync    *)
(* that commits its record returns.                                        *)
FreeEnd ==
  /\ half # None /\ failed' = None
  /\ CASE half.order = "log" ->
            half' = None /\ pendingFrees' = pendingFrees \cup half.run /\ UNCHANGED <<logged, dirty>>
       [] half.order = "defer" ->
            jmu = None /\ half' = None /\ logged' = logged \cup half.run /\ dirty' = TRUE
            /\ UNCHANGED pendingFrees
       [] half.order = "now" ->
            jmu = None /\ half.run \cap logged = {}
            /\ half' = [half EXCEPT !.order = "free"] /\ UNCHANGED <<pendingFrees, logged, dirty>>
       [] OTHER -> FALSE
  /\ UNCHANGED <<heap, taken, jmu, call>>

(* freeBlockNow, block by block once the sync has returned.                *)
freeBlockNow(b) ==
  /\ half # None /\ half.order = "free" /\ b \in half.run
  /\ pool' = AllocMarkFree(pool, b)
  /\ half' = IF half.run = {b} THEN None ELSE [half EXCEPT !.run = @ \ {b}]
  /\ failed' = None
  /\ UNCHANGED <<metaShield, owned, pendingFrees, taken, logged, dirty, jmu, call>>

(* FreeBlock and FreeRun: an operation rolls back what it allocated.       *)
FreeRun(run) ==
  /\ run \subseteq owned
  /\ owned' = owned \ run
  /\ pool' = MarkFree(run)
  /\ failed' = None
  /\ UNCHANGED <<metaShield, frees, call>>

AdjustShield(n) ==
  /\ n # metaShield
  /\ metaShield' = n /\ failed' = None
  /\ UNCHANGED <<pool, owned, frees, call>>

Next ==
  \/ \E c \in Callers :
       \/ \E r \in Requests : Scan(c, r)
       \/ ReclaimNothing(c) \/ ReclaimSync(c) \/ SyncClean(c) \/ Retry(c)
  \/ \E s \in Callers \cup {Syncer} : SyncCommit(s)
  \/ SyncTake \/ SyncEnd \/ FsyncTake \/ FreeEnd
  \/ \E run \in Runs : SyncApply(run) \/ FsyncApply(run) \/ FreeRun(run)
  \/ \E order \in FreeOrders, run \in Runs : FreeBegin(order, run)
  \/ \E b \in AllBlocks : freeBlockNow(b)
  \/ \E n \in Shields : AdjustShield(n)

Spec == Init /\ [][Next]_vars

-----------------------------------------------------------------------------
(* The types of the variables (Allocator, BrieFS.pendingFrees); block 0,   *)
(* the failure sentinel, is never handed out or given back.                *)
TypeOK ==
  /\ pool.l2 \subseteq AllBlocks /\ pool.l1 \subseteq AllBlocks /\ pool.l0 \subseteq AllBlocks
  /\ pool.freeCount \in Nat /\ metaShield \in Shields
  /\ owned \cup InFlight \cup logged \subseteq AllBlocks \ {0}
  /\ half = None \/ half \in [order : FreeOrders \cup {"free"}, run : SUBSET (AllBlocks \ {0})]
  /\ dirty \in BOOLEAN
  /\ jmu = None \/ jmu \in [who : Callers \cup {Syncer}, stage : {"take", "apply"}]
  /\ \A c \in Callers : call[c] = None \/ call[c].pc \in {"reclaim", "sync", "retry"}

(* Each summary bit is set exactly when its word below is not zero, so a   *)
(* scan from the top misses no free block and meets no stale bit           *)
(* (AllocMarkAllocated, AllocMarkFree, AllocMarkFreeRun, the scans).       *)
SummariesExact ==
  pool.l1 = Words(pool.l2) /\ pool.l0 = Words(pool.l1)

(* freeCount is the number of set L2 bits, which is what fsck computes and *)
(* compares it with (cmd/fsck/allocator.go).                               *)
FreeCountExact == pool.freeCount = Cardinality(pool.l2)

(* A block is free, in use, waiting in the queue or in one drain's hands,  *)
(* and never two of these: no interleaving of scans, frees and drains      *)
(* hands a block out twice or frees it twice.                              *)
NoDoubleUse ==
  LET holds == <<pool.l2, owned, pendingFrees, taken["sync"], taken["fsync"]>>
  IN \A i, j \in 1..5 : i # j => holds[i] \cap holds[j] = {}

(* FreeRun is "Equivalent to n FreeBlock calls (out-of-range and           *)
(* already-free blocks change nothing)" (fs.go:524-525): on every          *)
(* reachable pyramid, for every run, also one that leaves the pool.        *)
FreeRunIsFreeBlocks ==
  \A first, last \in 0..BlockCount :
    AllocMarkFreeRun(pool, first, Cardinality(first..last))
      = FoldSet(LAMBDA b, p : AllocMarkFree(p, b), pool, first..last)

(* What a request needs, from the free blocks alone.                       *)
Satisfiable(r) ==
  LET data == Cardinality(pool.l2) - metaShield
  IN CASE r.kind = "meta" -> pool.l2 # {}
       [] r.kind = "run"  -> data >= r.n /\ \E s \in pool.l2 : s..(s + r.n - 1) \subseteq pool.l2
       [] OTHER           -> data > 0

(* AllocBlock returns "0 if out of space" (fs.go:97-98), and the other     *)
(* scans likewise: a scan that finds nothing ran on a pool that could not  *)
(* satisfy the request.                                                    *)
ScanFindsFreeBlocks ==
  [][\A c \in Callers : call[c] = None /\ call'[c] # None => ~Satisfiable(call'[c].r)]_vars

(* "Data allocations must respect the metadata shield" (fs.go:132-136): a  *)
(* scan for data leaves at least metaShield blocks free.                   *)
ShieldIsKept ==
  [][\A c \in Callers, r \in Requests :
       /\ owned' # owned /\ r.kind # "meta"
       /\ Scan(c, r) \/ (call[c] # None /\ call[c].r = r /\ Retry(c))
       => Cardinality(pool'.l2) >= metaShield]_vars

(* "the in-memory bitmap can be exhausted while thousands of freed blocks  *)
(* are merely pending -- the retry commits them and scans again"           *)
(* (fs.go:116-118): no allocation fails while a free that was outstanding  *)
(* at its first scan has still not been offered to it.                     *)
PendingFreesReachAllocations == failed # None => failed.missed = {}

(* "a freed block can never be reallocated while the last committed        *)
(* on-disk state still references it" (fuse.go:87-94): a block is free in  *)
(* the bitmap only once its freeing record is committed.                   *)
FreedAfterCommit ==
  /\ pool.l2 \cap logged = {}
  /\ half # None /\ half.order = "defer" => pool.l2 \cap half.run = {}
=============================================================================
