-------------------------- MODULE MetaCacheProofs --------------------------
(***************************************************************************)
(* What the deferred-metadata map promises, for any blocks, slots, values, *)
(* writers and SyncMeta calls:                                             *)
(*   - no free of a pool block is lost or applied twice (FreesAreConserved, *)
(*     for any number of SyncMeta calls at once);                          *)
(*   - SyncMeta never overwrites a new owner of a block, and every slot of *)
(*     the inode table reads as it was last written, when SyncMeta calls   *)
(*     do not overlap (OneDrain);                                          *)
(*   - every trie page reads as it was last written, when only             *)
(*     Journal.Sync drains (SyncOnly).                                     *)
(* Each layer is an inductive invariant on top of the ones before it:      *)
(* ConsInv, Good, ClobberInv, and then PageInv or SlotInv.                 *)
(***************************************************************************)
EXTENDS MetaCache, TLAPS

(* A running operation or drain is a record with all its fields.           *)
OpShape(o) ==
  o = [pc |-> o.pc, kind |-> o.kind, blk |-> o.blk, slot |-> o.slot, val |-> o.val, buf |-> o.buf]

DrainShape(x) == x = [pc |-> x.pc, snap |-> x.snap, todo |-> x.todo, frees |-> x.frees]

(* A pool block an operation works on has an owner, and no other operation *)
(* works on it: what an abort hands back is that operation's to give.      *)
OpInv ==
  /\ op = [w \in Writers |-> op[w]]
  /\ \A w \in Writers : op[w] # Idle =>
       /\ OpShape(op[w])
       /\ op[w].kind \in {"page", "fill"} => op[w].blk \in PoolBlocks
       /\ op[w].blk \in PoolBlocks => owner[op[w].blk] # "none"
       /\ \A v \in Writers : op[v] # Idle /\ op[v].blk = op[w].blk => v = w

DrainInv ==
  /\ drain = [d \in Drainers |-> drain[d]]
  /\ \A d \in Drainers : drain[d] # Rest =>
       /\ DrainShape(drain[d]) /\ drain[d].frees \subseteq PoolBlocks
       /\ drain[d].pc = "write" \/ (drain[d].pc = "delete" /\ drain[d].frees = {})

PlaceInv ==
  /\ pendingFrees \subseteq PoolBlocks /\ allocFree \subseteq PoolBlocks
  /\ owner = [b \in PoolBlocks |-> owner[b]]
  /\ FreesConserved

ConsInv == OpInv /\ DrainInv /\ PlaceInv

Places == <<pendingFrees, allocFree, owner, drain>>

-----------------------------------------------------------------------------
LEMMA FreedShape ==
  ASSUME NEW x, DrainShape(x)
  PROVE  [x EXCEPT !.pc = "delete", !.frees = {}] =
           [pc |-> "delete", snap |-> x.snap, todo |-> x.todo, frees |-> {}]
<1> DEFINE y == [pc |-> "delete", snap |-> x.snap, todo |-> x.todo, frees |-> x.frees]
<1>1. [x EXCEPT !.pc = "delete"] = y
  BY SMTT(60) DEF DrainShape
<1>2. [y EXCEPT !.frees = {}] = [pc |-> "delete", snap |-> x.snap, todo |-> x.todo, frees |-> {}]
  BY SMTT(60)
<1>3. [x EXCEPT !.pc = "delete", !.frees = {}] = [[x EXCEPT !.pc = "delete"] EXCEPT !.frees = {}]
  BY ZenonT(30)
<1> QED
  BY <1>1, <1>2, <1>3, ZenonT(60)

LEMMA PlacesKept == ConsInv /\ UNCHANGED Places => DrainInv' /\ PlaceInv'
  BY SMTT(60) DEF ConsInv, DrainInv, PlaceInv, FreesConserved, Owned, Queued, Free, Holds, Places

(* An operation that moves on keeps its kind and its block.                *)
LEMMA StepKeepsOps ==
  ASSUME OpInv, NEW w \in Writers, NEW x, op[w] # Idle, UNCHANGED owner,
         op' = [op EXCEPT ![w] = x],
         x = Idle \/ (OpShape(x) /\ x.kind = op[w].kind /\ x.blk = op[w].blk)
  PROVE  OpInv'
<1>1. op'[w] = x /\ \A v \in Writers : v # w => op'[v] = op[v]
  BY ZenonT(30) DEF OpInv
<1>2. op' = [v \in Writers |-> op'[v]]
  BY ZenonT(30) DEF OpInv
<1>3. \A v \in Writers : op'[v] # Idle =>
        op[v] # Idle /\ OpShape(op'[v]) /\ op'[v].kind = op[v].kind /\ op'[v].blk = op[v].blk
  BY <1>1, ZenonT(30) DEF OpInv
<1> QED
  BY <1>2, <1>3, SMTT(60) DEF OpInv

LEMMA StepDoneKeepsOps ==
  ASSUME OpInv, NEW w \in Writers, NEW o, NEW step, op[w] # Idle, UNCHANGED owner,
         OpShape(o), o.kind = op[w].kind, o.blk = op[w].blk, StepDone(w, o, step)
  PROVE  OpInv'
<1> DEFINE next == After(o.kind, step)
           x == IF next = "idle" THEN Idle ELSE [o EXCEPT !.pc = next]
<1>1. op' = [op EXCEPT ![w] = x]
  BY ZenonT(30) DEF StepDone
<1> HIDE DEF next
<1>2. x = Idle \/ (OpShape(x) /\ x.kind = op[w].kind /\ x.blk = op[w].blk)
  <2>1. [o EXCEPT !.pc = next] =
          [pc |-> next, kind |-> o.kind, blk |-> o.blk, slot |-> o.slot, val |-> o.val, buf |-> o.buf]
    BY SMTT(60) DEF OpShape
  <2> QED
    BY <2>1, ZenonT(30) DEF OpShape
<1> HIDE DEF x
<1> QED
  BY <1>1, <1>2, StepKeepsOps, ZenonT(60)

(* Every step of an operation but its abort leaves the blocks where they   *)
(* are.                                                                    *)
LEMMA OpStepKeeps ==
  ASSUME ConsInv, NEW w \in Writers, OpStep(w), ~AbortOp(w)
  PROVE  ConsInv'
<1>1. UNCHANGED Places
  BY ZenonT(30) DEF OpStep, LoadHit, LoadMiss, ReadDevice, JournalRecord, StoreBlock, WriteBlock, ArmSlot,
         PatchDeferred, Places
<1> SUFFICES OpInv'
  BY <1>1, PlacesKept, ZenonT(30) DEF ConsInv
<1>2. op[w] # Idle
  BY SMTT(60) DEF OpStep, LoadHit, LoadMiss, ReadDevice, JournalRecord, StoreBlock, WriteBlock, ArmSlot,
         PatchDeferred, At, Idle
<1>3. OpInv /\ OpShape(op[w]) /\ UNCHANGED owner
  BY <1>1, <1>2, ZenonT(30) DEF ConsInv, OpInv, Places
<1>4. ASSUME NEW step, StepDone(w, op[w], step) PROVE OpInv'
  BY <1>2, <1>3, <1>4, StepDoneKeepsOps, ZenonT(30)
<1>5. ASSUME NEW step, NEW buf, StepDone(w, [op[w] EXCEPT !.buf = buf], step) PROVE OpInv'
  <2> DEFINE o == [op[w] EXCEPT !.buf = buf]
  <2>1. o = [pc |-> op[w].pc, kind |-> op[w].kind, blk |-> op[w].blk, slot |-> op[w].slot,
             val |-> op[w].val, buf |-> buf]
    BY <1>3, SMTT(60) DEF OpShape
  <2>2. OpShape(o) /\ o.kind = op[w].kind /\ o.blk = op[w].blk
    BY <2>1, ZenonT(30) DEF OpShape
  <2>3. StepDone(w, o, step)
    BY <1>5, ZenonT(30)
  <2> HIDE DEF o
  <2> QED
    BY <1>2, <1>3, <2>2, <2>3, StepDoneKeepsOps, ZenonT(30)
<1>6. CASE LoadMiss(w)
  <2> DEFINE x == [op[w] EXCEPT !.pc = "read"]
  <2>1. op' = [op EXCEPT ![w] = x]
    BY <1>6, ZenonT(30) DEF LoadMiss
  <2>2. x = [pc |-> "read", kind |-> op[w].kind, blk |-> op[w].blk, slot |-> op[w].slot,
             val |-> op[w].val, buf |-> op[w].buf]
    BY <1>3, SMTT(60) DEF OpShape
  <2>3. OpShape(x) /\ x.kind = op[w].kind /\ x.blk = op[w].blk
    BY <2>2, ZenonT(30) DEF OpShape
  <2> HIDE DEF x
  <2> QED
    BY <1>2, <1>3, <2>1, <2>3, StepKeepsOps, ZenonT(60)
<1>7. CASE LoadHit(w) \/ ReadDevice(w)
  <2>1. CASE LoadHit(w)
    <3>1. StepDone(w, [op[w] EXCEPT !.buf = dirtyBlocks[op[w].blk]], "load")
      BY <2>1, ZenonT(30) DEF LoadHit
    <3> QED
      BY <1>5, <3>1, ZenonT(60)
  <2>2. CASE ReadDevice(w)
    <3>1. StepDone(w, [op[w] EXCEPT !.buf = device[op[w].blk]], "load")
      BY <2>2, ZenonT(30) DEF ReadDevice
    <3> QED
      BY <1>5, <3>1, ZenonT(60)
  <2> QED
    BY <1>7, <2>1, <2>2, ZenonT(30)
<1>8. CASE JournalRecord(w) \/ StoreBlock(w) \/ WriteBlock(w) \/ ArmSlot(w) \/ PatchDeferred(w)
  <2>1. \E step \in {"journal", "store", "write", "arm", "patch"} : StepDone(w, op[w], step)
    BY <1>8, ZenonT(60) DEF JournalRecord, StoreBlock, WriteBlock, ArmSlot, PatchDeferred
  <2> QED
    BY <1>4, <2>1, ZenonT(30)
<1> QED
  BY <1>6, <1>7, <1>8, ZenonT(60) DEF OpStep

(* What an abort hands back or leaks is its own block, and nobody else's.  *)
LEMMA AbortKeeps ==
  ASSUME ConsInv, NEW w \in Writers, AbortOp(w)
  PROVE  ConsInv'
<1> DEFINE o == op[w]
           back == o.kind = "fill" \/ (o.kind = "page" /\ o.pc = "journal")
<1>1. o # Idle /\ op' = [op EXCEPT ![w] = Idle] /\ UNCHANGED <<pendingFrees, drain>>
  BY ZenonT(30) DEF AbortOp
<1>2. op'[w] = Idle /\ (\A v \in Writers : v # w => op'[v] = op[v]) /\ op' = [v \in Writers |-> op'[v]]
  BY <1>1, ZenonT(30) DEF ConsInv, OpInv
<1>3. CASE back
  <2>1. o.blk \in PoolBlocks /\ owner[o.blk] # "none"
    BY <1>1, <1>3, ZenonT(30) DEF ConsInv, OpInv
  <2>2. allocFree' = allocFree \cup {o.blk} /\ owner' = [owner EXCEPT ![o.blk] = "none"]
    BY <1>3, ZenonT(60) DEF AbortOp
  <2>3. /\ owner' = [b \in PoolBlocks |-> owner'[b]] /\ owner'[o.blk] = "none"
        /\ \A b \in PoolBlocks : b # o.blk => owner'[b] = owner[b]
    BY <2>1, <2>2, ZenonT(30) DEF ConsInv, PlaceInv
  <2>4. OpInv'
    BY <1>1, <1>2, <2>1, <2>3, ZenonT(30) DEF ConsInv, OpInv
  <2>5. FreesConserved'
    BY <1>1, <2>1, <2>2, <2>3, SMTT(60) DEF ConsInv, PlaceInv, FreesConserved, Owned, Queued, Free, Holds
  <2> QED
    BY <1>1, <2>1, <2>2, <2>3, <2>4, <2>5, ZenonT(30) DEF ConsInv, PlaceInv, DrainInv
<1>4. CASE ~back
  <2>1. allocFree' = allocFree
    BY <1>4, ZenonT(30) DEF AbortOp
  <2>2. /\ owner' = [b \in PoolBlocks |-> owner'[b]]
        /\ \A b \in PoolBlocks : owner'[b] # "none" <=> owner[b] # "none"
    <3>1. CASE o.kind = "page"
      <4>1. o.blk \in PoolBlocks /\ owner[o.blk] # "none"
        BY <1>1, <3>1, ZenonT(30) DEF ConsInv, OpInv
      <4>2. owner' = [owner EXCEPT ![o.blk] = "leaked"]
        BY <1>4, <3>1, ZenonT(60) DEF AbortOp
      <4> QED
        BY <4>1, <4>2, ZenonT(30) DEF ConsInv, PlaceInv
    <3>2. CASE o.kind # "page"
      <4>1. owner' = owner
        BY <1>4, <3>2, ZenonT(60) DEF AbortOp
      <4> QED
        BY <4>1, ZenonT(30) DEF ConsInv, PlaceInv
    <3> QED
      BY <3>1, <3>2, ZenonT(30)
  <2>3. OpInv'
    BY <1>1, <1>2, <2>2, ZenonT(30) DEF ConsInv, OpInv
  <2>4. FreesConserved'
    BY <1>1, <2>1, <2>2, ZenonT(30) DEF ConsInv, PlaceInv, FreesConserved, Owned, Queued, Free, Holds
  <2> QED
    BY <1>1, <2>1, <2>2, <2>3, <2>4, ZenonT(30) DEF ConsInv, PlaceInv, DrainInv
<1> QED
  BY <1>3, <1>4, ZenonT(30)

(* A new operation locks its block, or takes it from the allocator.        *)
LEMMA BeginKeeps ==
  ASSUME ConsInv, NEW w \in Writers, NEW k, NEW b \in Blocks, NEW s, NEW v,
         BeginOp(w, k, b, s, v) \/ AllocBlock(w, k, b, s, v)
  PROVE  ConsInv'
<1> DEFINE o == [pc |-> After(k, "begin"), kind |-> k, blk |-> b, slot |-> s, val |-> v,
                 buf |-> [t \in Slots |-> v]]
<1>1. op[w] = Idle /\ op' = [op EXCEPT ![w] = o]
  BY ZenonT(30) DEF BeginOp, AllocBlock
<1>2. OpShape(o) /\ o.kind = k /\ o.blk = b
  BY ZenonT(30) DEF OpShape
<1> HIDE DEF o
<1>3. op'[w] = o /\ (\A u \in Writers : u # w => op'[u] = op[u]) /\ op' = [u \in Writers |-> op'[u]]
  BY <1>1, ZenonT(30) DEF ConsInv, OpInv
<1>4. CASE BeginOp(w, k, b, s, v)
  <2>1. UNCHANGED Places /\ ~Locked(b)
    BY <1>4, ZenonT(30) DEF BeginOp, Places
  <2>2. k \notin {"page", "fill"}
    BY <1>4, ZenonT(30) DEF BeginOp, MayChange
  <2>3. b \in PoolBlocks => owner[b] # "none"
    BY <1>4, MetaCacheAssumption, ZenonT(30) DEF BeginOp, MayChange
  <2>4. OpInv'
    BY <1>2, <1>3, <2>1, <2>2, <2>3, SMTT(60) DEF ConsInv, OpInv, Locked, Places
  <2> QED
    BY <2>1, <2>4, PlacesKept, ZenonT(30) DEF ConsInv
<1>5. CASE AllocBlock(w, k, b, s, v)
  <2>1. b \in allocFree /\ b \in PoolBlocks /\ UNCHANGED <<pendingFrees, drain>>
    BY <1>5, ZenonT(30) DEF AllocBlock, ConsInv, PlaceInv
  <2>2. allocFree' = allocFree \ {b}
    BY <1>5, ZenonT(30) DEF AllocBlock
  <2>3. /\ owner' = [x \in PoolBlocks |-> owner'[x]] /\ owner'[b] # "none"
        /\ \A x \in PoolBlocks : x # b => owner'[x] = owner[x]
    BY <1>5, <2>1, ZenonT(30) DEF AllocBlock, ConsInv, PlaceInv
  <2>4. owner[b] = "none" /\ \A u \in Writers : op[u] # Idle => op[u].blk # b
    BY <2>1, ZenonT(30) DEF ConsInv, PlaceInv, FreesConserved, Owned, Free, OpInv
  <2>5. OpInv'
    BY <1>2, <1>3, <2>1, <2>3, <2>4, SMTT(60) DEF ConsInv, OpInv
  <2>6. FreesConserved'
    BY <2>1, <2>2, <2>3, SMTT(60) DEF ConsInv, PlaceInv, FreesConserved, Owned, Queued, Free, Holds
  <2> QED
    BY <2>1, <2>2, <2>3, <2>5, <2>6, ZenonT(30) DEF ConsInv, PlaceInv, DrainInv
<1> QED
  BY <1>4, <1>5, ZenonT(30)

(* The owner gives a block up: to the queue, or straight to the allocator. *)
LEMMA FreeKeeps ==
  ASSUME ConsInv, NEW b \in PoolBlocks, deferBlockFree(b) \/ freeBlockNow(b)
  PROVE  ConsInv'
<1>1. /\ owner[b] # "none" /\ ~Locked(b) /\ owner' = [owner EXCEPT ![b] = "none"]
      /\ UNCHANGED <<op, drain>>
      /\ \/ pendingFrees' = pendingFrees \cup {b} /\ UNCHANGED allocFree
         \/ allocFree' = allocFree \cup {b} /\ UNCHANGED pendingFrees
  BY ZenonT(30) DEF deferBlockFree, freeBlockNow
<1>2. /\ owner' = [x \in PoolBlocks |-> owner'[x]] /\ owner'[b] = "none"
      /\ \A x \in PoolBlocks : x # b => owner'[x] = owner[x]
  BY <1>1, ZenonT(30) DEF ConsInv, PlaceInv
<1>3. OpInv'
  BY <1>1, <1>2, SMTT(60) DEF ConsInv, OpInv, Locked
<1>4. FreesConserved'
  BY <1>1, <1>2, SMTT(60) DEF ConsInv, PlaceInv, FreesConserved, Owned, Queued, Free, Holds
<1> QED
  BY <1>1, <1>2, <1>3, <1>4, ZenonT(30) DEF ConsInv, PlaceInv, DrainInv

(* A drain moves the queue into its hands, and from there to the allocator *)
(* or back.                                                                *)
LEMMA DrainKeeps ==
  ASSUME ConsInv, NEW d \in Drainers, DrainBegin(d) \/ DrainStep(d)
  PROVE  ConsInv'
<1>1. UNCHANGED <<op, owner>>
  BY ZenonT(30) DEF DrainBegin, DrainStep, DrainWrite, DrainWriteFails, DrainFree, DrainDelete
<1>2. OpInv'
  BY <1>1, ZenonT(30) DEF ConsInv, OpInv
<1>3. ASSUME NEW x, drain' = [drain EXCEPT ![d] = x]
      PROVE  /\ drain'[d] = x /\ drain' = [e \in Drainers |-> drain'[e]]
             /\ \A e \in Drainers : e # d => drain'[e] = drain[e]
  BY <1>3, ZenonT(30) DEF ConsInv, DrainInv
<1>4. DrainInv' /\ PlaceInv'
  <2>1. CASE DrainBegin(d)
    <3> DEFINE x == [pc |-> "write", snap |-> dirtyBlocks, todo |-> Deferred, frees |-> pendingFrees]
    <3>1. drain[d] = Rest /\ drain' = [drain EXCEPT ![d] = x] /\ pendingFrees' = {} /\ UNCHANGED allocFree
      BY <2>1, ZenonT(30) DEF DrainBegin
    <3>2. x # Rest /\ DrainShape(x) /\ x.frees = pendingFrees /\ x.pc = "write"
      BY ZenonT(30) DEF Rest, DrainShape
    <3> HIDE DEF x
    <3>3. DrainInv'
      BY <1>3, <3>1, <3>2, ZenonT(30) DEF ConsInv, DrainInv, PlaceInv
    <3>4. FreesConserved'
      <4>1. \A e \in Drainers, b \in PoolBlocks : Holds(e, b)' <=> (IF e = d THEN Queued(b) ELSE Holds(e, b))
        BY <1>3, <3>1, <3>2, ZenonT(60) DEF Holds, Queued
      <4>2. \A b \in PoolBlocks : Owned(b)' <=> Owned(b)
        BY <1>1, ZenonT(30) DEF Owned
      <4>3. FreesConserved /\ pendingFrees \subseteq PoolBlocks
        BY ZenonT(30) DEF ConsInv, PlaceInv
      <4>4. \A b \in PoolBlocks : ~Holds(d, b)
        BY <3>1, ZenonT(30) DEF Holds
      <4> QED
        BY <3>1, <4>1, <4>2, <4>3, <4>4, SMTT(60) DEF FreesConserved, Queued, Free
    <3> QED
      BY <1>1, <3>1, <3>3, <3>4, ZenonT(30) DEF ConsInv, PlaceInv
  <2>2. ASSUME NEW b \in Blocks, DrainWrite(d, b) PROVE DrainInv' /\ PlaceInv'
    <3> DEFINE x == [drain[d] EXCEPT !.todo = @ \ {b}]
    <3>1. drain[d] # Rest /\ drain' = [drain EXCEPT ![d] = x] /\ UNCHANGED <<pendingFrees, allocFree>>
      BY <2>2, SMTT(60) DEF DrainWrite, Rest
    <3>s. DrainShape(drain[d])
      BY <3>1, ZenonT(30) DEF ConsInv, DrainInv
    <3>2. x = [pc |-> drain[d].pc, snap |-> drain[d].snap, todo |-> drain[d].todo \ {b},
               frees |-> drain[d].frees]
      BY <3>s, SMTT(60) DEF DrainShape
    <3>3. x # Rest /\ DrainShape(x) /\ x.frees = drain[d].frees /\ x.pc = "write"
      BY <2>2, <3>2, ZenonT(60) DEF DrainWrite, Rest, DrainShape
    <3> HIDE DEF x
    <3>4. DrainInv'
      BY <1>3, <3>1, <3>3, ZenonT(30) DEF ConsInv, DrainInv
    <3>5. FreesConserved'
      BY <1>1, <1>3, <3>1, <3>3, SMTT(60) DEF ConsInv, PlaceInv, FreesConserved, Owned, Queued, Free, Holds
    <3> QED
      BY <1>1, <3>1, <3>4, <3>5, ZenonT(30) DEF ConsInv, PlaceInv
  <2>3. CASE DrainWriteFails(d)
    <3>1. /\ drain[d] # Rest /\ drain' = [drain EXCEPT ![d] = Rest] /\ UNCHANGED allocFree
          /\ pendingFrees' = pendingFrees \cup drain[d].frees
      BY <2>3, SMTT(60) DEF DrainWriteFails, Rest
    <3>2. DrainInv'
      BY <1>3, <3>1, ZenonT(30) DEF ConsInv, DrainInv
    <3>3. FreesConserved'
      <4>1. \A e \in Drainers, b \in PoolBlocks : Holds(e, b)' <=> e # d /\ Holds(e, b)
        BY <1>3, <3>1, ZenonT(60) DEF Holds
      <4>2. \A b \in PoolBlocks : Owned(b)' <=> Owned(b)
        BY <1>1, ZenonT(30) DEF Owned
      <4>3. FreesConserved /\ pendingFrees \subseteq PoolBlocks
        BY ZenonT(30) DEF ConsInv, PlaceInv
      <4>4. \A b \in PoolBlocks : Holds(d, b) <=> b \in drain[d].frees
        BY <3>1, ZenonT(30) DEF Holds
      <4> QED
        BY <3>1, <4>1, <4>2, <4>3, <4>4, ZenonT(30) DEF FreesConserved, Queued, Free
    <3> QED
      BY <1>1, <3>1, <3>2, <3>3, ZenonT(30) DEF ConsInv, DrainInv, PlaceInv
  <2>4. CASE DrainFree(d)
    <3> DEFINE x == [drain[d] EXCEPT !.pc = "delete", !.frees = {}]
    <3>1. /\ drain[d] # Rest /\ drain' = [drain EXCEPT ![d] = x] /\ UNCHANGED pendingFrees
          /\ allocFree' = allocFree \cup drain[d].frees
      <4>1. drain[d] # Rest /\ UNCHANGED pendingFrees /\ allocFree' = allocFree \cup drain[d].frees
        BY <2>4, SMTT(60) DEF DrainFree, Rest
      <4>2. drain' = [drain EXCEPT ![d].pc = "delete", ![d].frees = {}]
        BY <2>4, ZenonT(30) DEF DrainFree
      <4>3. drain' = [drain EXCEPT ![d] = x]
        BY <4>2, ZenonT(60) DEF ConsInv, DrainInv
      <4> QED
        BY <4>1, <4>3, ZenonT(30)
    <3>s. DrainShape(drain[d])
      BY <3>1, ZenonT(30) DEF ConsInv, DrainInv
    <3>2. x = [pc |-> "delete", snap |-> drain[d].snap, todo |-> drain[d].todo, frees |-> {}]
      BY <3>s, FreedShape, ZenonT(60)
    <3>3. x # Rest /\ DrainShape(x) /\ x.frees = {} /\ x.pc = "delete"
      BY <3>2, ZenonT(30) DEF Rest, DrainShape
    <3> HIDE DEF x
    <3>4. DrainInv'
      BY <1>3, <3>1, <3>3, ZenonT(30) DEF ConsInv, DrainInv
    <3>5. FreesConserved'
      <4>1. \A e \in Drainers, b \in PoolBlocks : Holds(e, b)' <=> e # d /\ Holds(e, b)
        BY <1>3, <3>1, <3>3, ZenonT(60) DEF Holds
      <4>2. \A b \in PoolBlocks : Owned(b)' <=> Owned(b)
        BY <1>1, ZenonT(30) DEF Owned
      <4>3. FreesConserved /\ pendingFrees \subseteq PoolBlocks
        BY ZenonT(30) DEF ConsInv, PlaceInv
      <4>4. \A b \in PoolBlocks : Holds(d, b) <=> b \in drain[d].frees
        BY <3>1, ZenonT(30) DEF Holds
      <4> QED
        BY <3>1, <4>1, <4>2, <4>3, <4>4, ZenonT(30) DEF FreesConserved, Queued, Free
    <3> QED
      BY <1>1, <3>1, <3>4, <3>5, ZenonT(30) DEF ConsInv, DrainInv, PlaceInv
  <2>5. CASE DrainDelete(d)
    <3>1. /\ drain[d] # Rest /\ drain[d].pc = "delete" /\ drain' = [drain EXCEPT ![d] = Rest]
          /\ UNCHANGED <<pendingFrees, allocFree>>
      BY <2>5, SMTT(60) DEF DrainDelete, Rest
    <3>4. drain[d].frees = {}
      BY <3>1, ZenonT(30) DEF ConsInv, DrainInv
    <3>2. DrainInv'
      BY <1>3, <3>1, ZenonT(30) DEF ConsInv, DrainInv
    <3>3. FreesConserved'
      <4>1. \A e \in Drainers, b \in PoolBlocks : Holds(e, b)' <=> Holds(e, b)
        BY <1>3, <3>1, <3>4, ZenonT(30) DEF Holds
      <4>2. \A b \in PoolBlocks : Owned(b)' <=> Owned(b)
        BY <1>1, ZenonT(30) DEF Owned
      <4>3. FreesConserved /\ pendingFrees \subseteq PoolBlocks
        BY ZenonT(30) DEF ConsInv, PlaceInv
      <4> QED
        BY <3>1, <4>1, <4>2, <4>3, ZenonT(30) DEF FreesConserved, Queued, Free
    <3> QED
      BY <1>1, <3>1, <3>2, <3>3, ZenonT(30) DEF ConsInv, PlaceInv
  <2> QED
    BY <2>1, <2>2, <2>3, <2>4, <2>5, ZenonT(30) DEF DrainStep
<1> QED
  BY <1>2, <1>4, ZenonT(30) DEF ConsInv

LEMMA StepCons == ConsInv /\ [Next]_vars => ConsInv'
<1> SUFFICES ASSUME ConsInv, [Next]_vars PROVE ConsInv'
  BY ZenonT(30)
<1>1. CASE UNCHANGED vars
  BY <1>1, SMTT(60) DEF vars, ConsInv, OpInv, DrainInv, PlaceInv, FreesConserved, Owned, Queued, Free, Holds
<1>2. ASSUME NEW w \in Writers, OpStep(w) PROVE ConsInv'
  BY <1>2, OpStepKeeps, AbortKeeps, ZenonT(30)
<1> QED
  BY <1>1, <1>2, BeginKeeps, FreeKeeps, DrainKeeps, ZenonT(30) DEF Next

(* Every pool block is in exactly one place: with its owner, in the queue, *)
(* in the hands of one SyncMeta, or in the allocator.                      *)
THEOREM FreesAreConserved == Spec => []FreesConserved
<1>1. Init => ConsInv
  BY ZenonT(30) DEF Init, ConsInv, OpInv, DrainInv, PlaceInv, FreesConserved, Owned, Queued, Free, Holds
<1>2. ConsInv => FreesConserved
  BY ZenonT(30) DEF ConsInv, PlaceInv
<1> QED
  BY <1>1, <1>2, StepCons, PTL DEF Spec

-----------------------------------------------------------------------------
(* The types, and what an operation of each kind does when and to which    *)
(* blocks.                                                                 *)
Busy(w)    == op[w] # Idle
Running(d) == drain[d] # Rest

Stages ==
  [owned  |-> {"journal", "load", "read", "store"},
   direct |-> {"journal", "load", "read", "write", "store"},
   cached |-> {"load", "read", "journal", "store"},
   create |-> {"load", "read", "arm", "patch", "journal", "store"},
   page   |-> {"journal", "store"},
   data   |-> {"load", "read", "write", "journal"},
   fill   |-> {"write", "journal"}]

(* A file's inode and a created one are in the inode table; a page in the  *)
(* making and a directory's page are pages; the rest is file data.         *)
KindOK(o, own) ==
  /\ o.pc \in Stages[o.kind]
  /\ o.kind \in {"owned", "direct", "create"} => o.blk \in InodeBlocks
  /\ o.kind \in {"data", "fill"} => o.blk \in PoolBlocks /\ own[o.blk] = "data"
  /\ o.kind = "page" => o.blk \in PoolBlocks
  /\ o.kind \in {"page", "cached"} /\ o.blk \in PoolBlocks => own[o.blk] = "page"

KindInv ==
  /\ dirtyBlocks = [b \in Deferred |-> dirtyBlocks[b]]
  /\ \A w \in Writers : Busy(w) => KindOK(op[w], owner)

Good == ConsInv /\ TypeOK /\ KindInv

(* The operation w becomes x, and the others stay as they are.             *)
OpBecomes(w, x) ==
  /\ op' = [v \in Writers |-> op'[v]] /\ op'[w] = x
  /\ \A v \in Writers : v # w => op'[v] = op[v]

(* The operation o at another step and with another copy of its block.     *)
OpAt(o, n, buf) ==
  [pc |-> n, kind |-> o.kind, blk |-> o.blk, slot |-> o.slot, val |-> o.val, buf |-> buf]

LEMMA AfterIs ==
  /\ After("owned", "load") = "store" /\ After("direct", "load") = "write"
  /\ After("cached", "load") = "journal" /\ After("create", "load") = "arm"
  /\ After("data", "load") = "write"
  /\ After("create", "arm") = "patch" /\ After("create", "patch") = "journal"
  /\ After("direct", "write") = "store"
  /\ After("data", "write") = "journal" /\ After("fill", "write") = "journal"
  /\ After("owned", "journal") = "load" /\ After("direct", "journal") = "load"
  /\ After("cached", "journal") = "store" /\ After("create", "journal") = "store"
  /\ After("page", "journal") = "store"
  /\ After("data", "journal") = "idle" /\ After("fill", "journal") = "idle"
  /\ \A k \in Kinds : After(k, "store") = "idle"
  /\ After("owned", "begin") = "journal" /\ After("direct", "begin") = "journal"
  /\ After("page", "begin") = "journal" /\ After("cached", "begin") = "load"
  /\ After("create", "begin") = "load" /\ After("data", "begin") = "load"
  /\ After("fill", "begin") = "write"
  BY ZenonT(30) DEF After, Kinds

LEMMA StepDoneIs ==
  ASSUME ConsInv, NEW w \in Writers, NEW o, NEW step, NEW n, OpShape(o), StepDone(w, o, step),
         After(o.kind, step) = n
  PROVE  OpBecomes(w, IF n = "idle" THEN Idle ELSE OpAt(o, n, o.buf))
<1> DEFINE x == IF n = "idle" THEN Idle ELSE [o EXCEPT !.pc = n]
<1>1. op' = [op EXCEPT ![w] = x]
  BY ZenonT(30) DEF StepDone
<1>2. x = IF n = "idle" THEN Idle ELSE OpAt(o, n, o.buf)
  BY SMTT(60) DEF OpShape, OpAt
<1> HIDE DEF x
<1>3. op = [v \in Writers |-> op[v]]
  BY ZenonT(30) DEF ConsInv, OpInv
<1>4. OpBecomes(w, x)
  BY <1>1, <1>3, ZenonT(30) DEF OpBecomes
<1> QED
  BY <1>2, <1>4, ZenonT(60)

(* What each step of an operation does to it.                              *)
LEMMA OpMoves ==
  ASSUME Good, NEW w \in Writers
  PROVE  /\ LoadHit(w) \/ ReadDevice(w) =>
              \E n, buf :
                /\ OpBecomes(w, OpAt(op[w], n, buf))
                /\ buf = IF LoadHit(w) THEN dirtyBlocks[op[w].blk] ELSE device[op[w].blk]
                /\ \/ op[w].kind = "owned" /\ n = "store"
                   \/ op[w].kind \in {"direct", "data"} /\ n = "write"
                   \/ op[w].kind = "cached" /\ n = "journal"
                   \/ op[w].kind = "create" /\ n = "arm"
         /\ LoadMiss(w) =>
              /\ op[w].kind \in {"owned", "direct", "cached", "create", "data"}
              /\ OpBecomes(w, OpAt(op[w], "read", op[w].buf))
         /\ JournalRecord(w) =>
              \/ op[w].kind \in {"owned", "direct"} /\ OpBecomes(w, OpAt(op[w], "load", op[w].buf))
              \/ op[w].kind \in {"cached", "create", "page"} /\ OpBecomes(w, OpAt(op[w], "store", op[w].buf))
              \/ op[w].kind \in {"data", "fill"} /\ OpBecomes(w, Idle)
         /\ StoreBlock(w) => OpBecomes(w, Idle) /\ op[w].kind \in {"owned", "direct", "cached", "create", "page"}
         /\ WriteBlock(w) =>
              \/ op[w].kind = "direct" /\ OpBecomes(w, OpAt(op[w], "store", op[w].buf))
              \/ op[w].kind \in {"data", "fill"} /\ OpBecomes(w, OpAt(op[w], "journal", op[w].buf))
         /\ ArmSlot(w) => op[w].kind = "create" /\ OpBecomes(w, OpAt(op[w], "patch", op[w].buf))
         /\ PatchDeferred(w) => op[w].kind = "create" /\ OpBecomes(w, OpAt(op[w], "journal", op[w].buf))
<1> DEFINE o == op[w]
<1>1. ASSUME NEW st, At(w, st), st # "idle"
      PROVE  Busy(w) /\ OpShape(o) /\ o.kind \in Kinds /\ st \in Stages[o.kind]
  <2>1. Busy(w)
    BY <1>1, SMTT(60) DEF At, Busy, Idle
  <2>2. o \in OpType /\ OpShape(o) /\ KindOK(o, owner)
    BY <2>1, ZenonT(30) DEF Good, ConsInv, OpInv, TypeOK, KindInv, Busy
  <2>3. o.kind \in Kinds
    BY <2>1, <2>2, ZenonT(30) DEF OpType, Busy
  <2> QED
    BY <1>1, <2>1, <2>2, <2>3, ZenonT(30) DEF KindOK, At
<1>c. ConsInv
  BY ZenonT(30) DEF Good
<1>k. \A n : n # "idle" => (IF n = "idle" THEN Idle ELSE OpAt(o, n, o.buf)) = OpAt(o, n, o.buf)
  BY ZenonT(30)
<1>2. ASSUME NEW buf, NEW st \in {"load", "read"}, At(w, st),
             StepDone(w, [op[w] EXCEPT !.buf = buf], "load")
      PROVE  \E n : /\ OpBecomes(w, OpAt(o, n, buf))
                    /\ \/ o.kind = "owned" /\ n = "store"
                       \/ o.kind \in {"direct", "data"} /\ n = "write"
                       \/ o.kind = "cached" /\ n = "journal"
                       \/ o.kind = "create" /\ n = "arm"
  <2> DEFINE q == [op[w] EXCEPT !.buf = buf]
             n == After(o.kind, "load")
  <2>1. OpShape(o) /\ o.kind \in Kinds /\ st \in Stages[o.kind]
    BY <1>1, <1>2, ZenonT(30)
  <2>2. q = OpAt(o, o.pc, buf)
    BY <2>1, SMTT(60) DEF OpShape, OpAt
  <2>3. OpShape(q) /\ q.kind = o.kind /\ q.buf = buf
    BY <2>2, ZenonT(30) DEF OpShape, OpAt
  <2>4. \/ o.kind = "owned" /\ n = "store"
        \/ o.kind \in {"direct", "data"} /\ n = "write"
        \/ o.kind = "cached" /\ n = "journal"
        \/ o.kind = "create" /\ n = "arm"
    BY <2>1, AfterIs, SMTT(60) DEF Kinds, Stages
  <2>5. StepDone(w, q, "load")
    BY <1>2, ZenonT(30)
  <2>6. OpAt(q, n, q.buf) = OpAt(o, n, buf)
    BY <2>2, ZenonT(30) DEF OpAt
  <2> HIDE DEF q, n
  <2>7. OpBecomes(w, IF n = "idle" THEN Idle ELSE OpAt(q, n, q.buf))
    BY <1>c, <2>3, <2>5, StepDoneIs, ZenonT(60) DEF n
  <2>8. n # "idle"
    BY <2>4, ZenonT(30)
  <2>9. OpBecomes(w, OpAt(q, n, q.buf))
    BY <2>7, <2>8, ZenonT(60)
  <2> QED
    BY <2>4, <2>6, <2>9, ZenonT(60)
<1>3. ASSUME LoadHit(w) \/ ReadDevice(w)
      PROVE  \E n, buf :
                /\ OpBecomes(w, OpAt(op[w], n, buf))
                /\ buf = IF LoadHit(w) THEN dirtyBlocks[op[w].blk] ELSE device[op[w].blk]
                /\ \/ op[w].kind = "owned" /\ n = "store"
                   \/ op[w].kind \in {"direct", "data"} /\ n = "write"
                   \/ op[w].kind = "cached" /\ n = "journal"
                   \/ op[w].kind = "create" /\ n = "arm"
  <2>1. CASE LoadHit(w)
    <3>1. At(w, "load") /\ StepDone(w, [op[w] EXCEPT !.buf = dirtyBlocks[op[w].blk]], "load")
      BY <2>1, ZenonT(30) DEF LoadHit
    <3> QED
      BY <1>2, <2>1, <3>1, ZenonT(60)
  <2>2. CASE ~LoadHit(w)
    <3>1. At(w, "read") /\ StepDone(w, [op[w] EXCEPT !.buf = device[op[w].blk]], "load")
      BY <1>3, <2>2, ZenonT(30) DEF ReadDevice
    <3> QED
      BY <1>2, <2>2, <3>1, ZenonT(60)
  <2> QED
    BY <2>1, <2>2, ZenonT(30)
<1>4. ASSUME LoadMiss(w)
      PROVE  /\ op[w].kind \in {"owned", "direct", "cached", "create", "data"}
             /\ OpBecomes(w, OpAt(op[w], "read", op[w].buf))
  <2>1. OpShape(o) /\ o.kind \in Kinds /\ "load" \in Stages[o.kind]
    BY <1>1, <1>4, ZenonT(30) DEF LoadMiss
  <2>2. op' = [op EXCEPT ![w] = [o EXCEPT !.pc = "read"]]
    BY <1>4, ZenonT(30) DEF LoadMiss
  <2>3. [o EXCEPT !.pc = "read"] = OpAt(o, "read", o.buf)
    BY <2>1, SMTT(60) DEF OpShape, OpAt
  <2>4. op = [v \in Writers |-> op[v]]
    BY <1>c, ZenonT(30) DEF ConsInv, OpInv
  <2>5. op' = [op EXCEPT ![w] = OpAt(o, "read", o.buf)]
    BY <2>2, <2>3, ZenonT(60)
  <2>6. OpBecomes(w, OpAt(o, "read", o.buf))
    BY <2>4, <2>5, ZenonT(30) DEF OpBecomes
  <2> QED
    BY <2>1, <2>6, SMTT(60) DEF Kinds, Stages
<1>5. ASSUME NEW st, At(w, st), st # "idle", StepDone(w, op[w], st)
      PROVE  /\ o.kind \in Kinds /\ st \in Stages[o.kind]
             /\ \A n : n = After(o.kind, st) /\ n # "idle" => OpBecomes(w, OpAt(o, n, o.buf))
             /\ After(o.kind, st) = "idle" => OpBecomes(w, Idle)
  <2>1. OpShape(o) /\ o.kind \in Kinds /\ st \in Stages[o.kind]
    BY <1>1, <1>5, ZenonT(30)
  <2>2. ASSUME NEW n, n = After(o.kind, st)
        PROVE  OpBecomes(w, IF n = "idle" THEN Idle ELSE OpAt(o, n, o.buf))
    BY <1>c, <1>5, <2>1, <2>2, StepDoneIs, ZenonT(60)
  <2> QED
    BY <2>1, <2>2, ZenonT(60)
<1>6. ASSUME JournalRecord(w)
      PROVE  \/ op[w].kind \in {"owned", "direct"} /\ OpBecomes(w, OpAt(op[w], "load", op[w].buf))
             \/ op[w].kind \in {"cached", "create", "page"} /\ OpBecomes(w, OpAt(op[w], "store", op[w].buf))
             \/ op[w].kind \in {"data", "fill"} /\ OpBecomes(w, Idle)
  <2>1. At(w, "journal") /\ StepDone(w, op[w], "journal")
    BY <1>6, ZenonT(30) DEF JournalRecord
  <2> QED
    BY <2>1, <1>5, AfterIs, ZenonT(30) DEF Kinds
<1>7. ASSUME StoreBlock(w)
      PROVE  OpBecomes(w, Idle) /\ op[w].kind \in {"owned", "direct", "cached", "create", "page"}
  <2>1. At(w, "store") /\ StepDone(w, op[w], "store")
    BY <1>7, ZenonT(30) DEF StoreBlock
  <2> QED
    BY <2>1, <1>5, AfterIs, SMTT(60) DEF Kinds, Stages
<1>8. ASSUME WriteBlock(w)
      PROVE  \/ op[w].kind = "direct" /\ OpBecomes(w, OpAt(op[w], "store", op[w].buf))
             \/ op[w].kind \in {"data", "fill"} /\ OpBecomes(w, OpAt(op[w], "journal", op[w].buf))
  <2>1. At(w, "write") /\ StepDone(w, op[w], "write")
    BY <1>8, ZenonT(30) DEF WriteBlock
  <2> QED
    BY <2>1, <1>5, AfterIs, SMTT(60) DEF Kinds, Stages
<1>9. ASSUME ArmSlot(w)
      PROVE  op[w].kind = "create" /\ OpBecomes(w, OpAt(op[w], "patch", op[w].buf))
  <2>1. At(w, "arm") /\ StepDone(w, op[w], "arm")
    BY <1>9, ZenonT(30) DEF ArmSlot
  <2> QED
    BY <2>1, <1>5, AfterIs, SMTT(60) DEF Kinds, Stages
<1>10. ASSUME PatchDeferred(w)
       PROVE  op[w].kind = "create" /\ OpBecomes(w, OpAt(op[w], "journal", op[w].buf))
  <2>1. At(w, "patch") /\ StepDone(w, op[w], "patch")
    BY <1>10, ZenonT(30) DEF PatchDeferred
  <2> QED
    BY <2>1, <1>5, AfterIs, SMTT(60) DEF Kinds, Stages
<1> HIDE DEF o
<1> QED
  BY <1>3, <1>4, <1>6, <1>7, <1>8, <1>9, <1>10, ZenonT(60)

OpsTyped == \A w \in Writers : op[w] \in OpType /\ (Busy(w) => KindOK(op[w], owner))
MapTyped ==
  /\ Deferred \subseteq Blocks /\ \A b \in Deferred : dirtyBlocks[b] \in Content
  /\ dirtyBlocks = [b \in Deferred |-> dirtyBlocks[b]]
DrainsTyped ==
  \A d \in Drainers : Running(d) =>
    drain[d] \in DrainType /\ drain[d].todo \subseteq DOMAIN drain[d].snap
PoolTyped ==
  /\ pendingFrees \subseteq PoolBlocks /\ allocFree \subseteq PoolBlocks
  /\ owner \in [PoolBlocks -> {"none", "page", "data", "leaked"}]
BlocksTyped == device \in [Blocks -> Content] /\ latest \in [Blocks -> [Slots -> Values \cup {Undef}]]

LEMMA TypeParts ==
  (TypeOK /\ KindInv) <=> (OpsTyped /\ MapTyped /\ DrainsTyped /\ PoolTyped /\ BlocksTyped)
  BY ZenonT(30) DEF TypeOK, KindInv, OpsTyped, MapTyped, DrainsTyped, PoolTyped, BlocksTyped, Running, Busy

LEMMA GoodParts ==
  ASSUME Good
  PROVE  /\ ConsInv /\ OpsTyped /\ MapTyped /\ DrainsTyped /\ PoolTyped /\ BlocksTyped
         /\ \A w \in Writers : Busy(w) =>
              /\ op[w].kind \in Kinds /\ op[w].blk \in Blocks /\ op[w].slot \in Slots
              /\ op[w].val \in Values /\ op[w].buf \in Content /\ KindOK(op[w], owner)
              /\ \A v \in Writers : Busy(v) /\ op[v].blk = op[w].blk => v = w
<1>1. ConsInv /\ OpsTyped /\ MapTyped /\ DrainsTyped /\ PoolTyped /\ BlocksTyped
  BY TypeParts, ZenonT(30) DEF Good
<1>2. \A w \in Writers : Busy(w) =>
        /\ op[w].kind \in Kinds /\ op[w].blk \in Blocks /\ op[w].slot \in Slots
        /\ op[w].val \in Values /\ op[w].buf \in Content /\ KindOK(op[w], owner)
  BY <1>1, ZenonT(30) DEF OpsTyped, OpType, Busy
<1>3. \A w \in Writers : Busy(w) => \A v \in Writers : Busy(v) /\ op[v].blk = op[w].blk => v = w
  BY <1>1, ZenonT(30) DEF ConsInv, OpInv, Busy
<1> QED
  BY <1>1, <1>2, <1>3, ZenonT(60)

LEMMA OpStaysTyped ==
  ASSUME Good, NEW w \in Writers, NEW n, NEW buf \in Content, Busy(w), n \in Stages[op[w].kind],
         OpBecomes(w, OpAt(op[w], n, buf)), UNCHANGED owner
  PROVE  OpsTyped'
<1>1. /\ op[w].kind \in Kinds /\ op[w].blk \in Blocks /\ op[w].slot \in Slots
      /\ op[w].val \in Values /\ KindOK(op[w], owner) /\ OpsTyped
  BY GoodParts, ZenonT(30)
<1>2. n \in {"load", "read", "journal", "store", "write", "arm", "patch"}
  BY <1>1, SMTT(60) DEF Stages, Kinds
<1> DEFINE x == OpAt(op[w], n, buf)
<1>3. x \in OpType /\ x.pc = n /\ x.kind = op[w].kind /\ x.blk = op[w].blk
  BY <1>1, <1>2, ZenonT(30) DEF OpAt, OpType
<1> HIDE DEF x
<1>4. KindOK(x, owner')
  BY <1>1, <1>3, ZenonT(30) DEF KindOK
<1>5. op'[w] = x /\ \A v \in Writers : v # w => op'[v] = op[v]
  BY ZenonT(30) DEF OpBecomes, x
<1> QED
  BY <1>1, <1>3, <1>4, <1>5, ZenonT(30) DEF OpsTyped, Busy

LEMMA OpEndsTyped ==
  ASSUME Good, NEW w \in Writers, OpBecomes(w, Idle), UNCHANGED owner
  PROVE  OpsTyped'
<1>1. OpsTyped
  BY GoodParts, ZenonT(30)
<1>2. op'[w] = Idle /\ \A v \in Writers : v # w => op'[v] = op[v]
  BY ZenonT(30) DEF OpBecomes
<1> QED
  BY <1>1, <1>2, ZenonT(30) DEF OpsTyped, Busy, OpType

LEMMA BlockSetTyped ==
  ASSUME NEW T, NEW f \in [Blocks -> T], NEW b \in Blocks, NEW x \in T
  PROVE  [f EXCEPT ![b] = x] \in [Blocks -> T]
  BY ZenonT(30)

LEMMA OpStepTyped ==
  ASSUME Good, NEW w \in Writers, OpStep(w), ~AbortOp(w)
  PROVE  (TypeOK /\ KindInv)'
<1> DEFINE o == op[w]
<1>1. /\ OpsTyped /\ MapTyped /\ DrainsTyped /\ PoolTyped /\ BlocksTyped
      /\ UNCHANGED <<owner, pendingFrees, allocFree, drain>>
  BY GoodParts, ZenonT(30) DEF OpStep, LoadHit, LoadMiss, ReadDevice, JournalRecord, StoreBlock, WriteBlock, ArmSlot,
         PatchDeferred
<1>2. DrainsTyped' /\ PoolTyped'
  BY <1>1, ZenonT(30) DEF DrainsTyped, PoolTyped, Running
<1>3. Busy(w)
  BY SMTT(60) DEF OpStep, LoadHit, LoadMiss, ReadDevice, JournalRecord, StoreBlock, WriteBlock, ArmSlot,
         PatchDeferred, At, Idle, Busy
<1>4. /\ o.kind \in Kinds /\ o.blk \in Blocks /\ o.slot \in Slots /\ o.val \in Values
      /\ o.buf \in Content /\ o.pc \in Stages[o.kind]
  BY <1>3, GoodParts, ZenonT(30) DEF KindOK
<1>5. Patched(o) \in Content
  BY <1>4, ZenonT(30) DEF Patched, Content
<1>6. CASE LoadHit(w) \/ ReadDevice(w)
  <2>1. PICK n, buf :
                /\ OpBecomes(w, OpAt(op[w], n, buf))
                /\ buf = IF LoadHit(w) THEN dirtyBlocks[op[w].blk] ELSE device[op[w].blk]
                /\ \/ op[w].kind = "owned" /\ n = "store"
                   \/ op[w].kind \in {"direct", "data"} /\ n = "write"
                   \/ op[w].kind = "cached" /\ n = "journal"
                   \/ op[w].kind = "create" /\ n = "arm"
    BY <1>6, OpMoves, ZenonT(30)
  <2>2. buf \in Content
    BY <1>1, <1>4, <1>6, <2>1, ZenonT(30) DEF LoadHit, MapTyped, BlocksTyped
  <2>3. n \in Stages[op[w].kind]
    BY <2>1, SMTT(60) DEF Stages
  <2>4. OpsTyped'
    BY <1>1, <1>3, <2>1, <2>2, <2>3, OpStaysTyped, ZenonT(30)
  <2>5. MapTyped' /\ BlocksTyped'
    BY <1>1, <1>6, ZenonT(30) DEF LoadHit, ReadDevice, MapTyped, BlocksTyped, Deferred
  <2> QED
    BY <1>2, <2>4, <2>5, TypeParts, PTL
<1>7. CASE LoadMiss(w) \/ JournalRecord(w)
  <2>1. MapTyped' /\ BlocksTyped'
    BY <1>1, <1>7, ZenonT(30) DEF LoadMiss, JournalRecord, MapTyped, BlocksTyped, Deferred
  <2>2. CASE LoadMiss(w)
    <3>1. "read" \in Stages[o.kind] /\ OpBecomes(w, OpAt(op[w], "read", op[w].buf))
      BY <2>2, OpMoves, SMTT(60) DEF Stages
    <3>2. OpsTyped'
      BY <1>1, <1>3, <1>4, <3>1, OpStaysTyped, ZenonT(30)
    <3> QED
      BY <1>2, <2>1, <3>2, TypeParts, PTL
  <2>3. CASE JournalRecord(w)
    <3>1. \/ \E n \in Stages[o.kind] : OpBecomes(w, OpAt(op[w], n, op[w].buf))
          \/ OpBecomes(w, Idle)
      BY <2>3, OpMoves, SMTT(60) DEF Stages
    <3>2. OpsTyped'
      BY <1>1, <1>3, <1>4, <3>1, OpStaysTyped, OpEndsTyped, ZenonT(30)
    <3> QED
      BY <1>2, <2>1, <3>2, TypeParts, PTL
  <2> QED
    BY <1>7, <2>2, <2>3, ZenonT(30)
<1>8. CASE StoreBlock(w)
  <2>1. MapTyped'
    BY <1>1, <1>4, <1>5, <1>8, ZenonT(30) DEF StoreBlock, setDirtyBlock, MapTyped, Deferred
  <2>2. BlocksTyped'
    BY <1>1, <1>4, <1>5, <1>8, ZenonT(30) DEF StoreBlock, Written, BlocksTyped, Content
  <2>3. OpsTyped'
    BY <1>1, <1>8, OpMoves, OpEndsTyped, ZenonT(30)
  <2> QED
    BY <1>2, <2>1, <2>2, <2>3, TypeParts, PTL
<1>9. CASE WriteBlock(w)
  <2>1. MapTyped'
    BY <1>1, <1>9, ZenonT(30) DEF WriteBlock, MapTyped, Deferred
  <2>2. BlocksTyped'
    <3>1. device' \in [Blocks -> Content]
      BY <1>1, <1>4, <1>5, <1>9, ZenonT(30) DEF WriteBlock, BlocksTyped
    <3>2. latest' \in [Blocks -> [Slots -> Values \cup {Undef}]]
      <4>1. /\ Patched(o) \in [Slots -> Values \cup {Undef}]
            /\ [latest[o.blk] EXCEPT ![o.slot] = o.val] \in [Slots -> Values \cup {Undef}]
        BY <1>1, <1>4, <1>5, ZenonT(30) DEF BlocksTyped, Content
      <4>2. \/ UNCHANGED latest
            \/ latest' = [latest EXCEPT ![o.blk] = Patched(o)]
            \/ latest' = [latest EXCEPT ![o.blk] = [latest[o.blk] EXCEPT ![o.slot] = o.val]]
        BY <1>9, ZenonT(30) DEF WriteBlock, Written
      <4>3. latest \in [Blocks -> [Slots -> Values \cup {Undef}]]
        BY <1>1, ZenonT(30) DEF BlocksTyped
      <4> QED
        <5>1. ASSUME NEW x \in [Slots -> Values \cup {Undef}]
              PROVE  [latest EXCEPT ![o.blk] = x] \in [Blocks -> [Slots -> Values \cup {Undef}]]
          BY <1>4, <4>3, BlockSetTyped, ZenonT(30)
        <5> QED
          BY <4>1, <4>2, <4>3, <5>1, ZenonT(60)
    <3> QED
      BY <3>1, <3>2, ZenonT(30) DEF BlocksTyped
  <2>3. \E n \in Stages[o.kind] : OpBecomes(w, OpAt(op[w], n, op[w].buf))
    BY <1>9, OpMoves, SMTT(60) DEF Stages
  <2>4. OpsTyped'
    BY <1>1, <1>3, <1>4, <2>3, OpStaysTyped, ZenonT(30)
  <2> QED
    BY <1>2, <2>1, <2>2, <2>4, TypeParts, PTL
<1>10. CASE ArmSlot(w) \/ PatchDeferred(w)
  <2>1. MapTyped'
    BY <1>1, <1>4, <1>10, SMTT(60) DEF ArmSlot, PatchDeferred, MapTyped, Deferred, Content
  <2>2. BlocksTyped'
    <3>1. device' \in [Blocks -> Content]
      <4>1. [device[o.blk] EXCEPT ![o.slot] = o.val] \in Content
        BY <1>1, <1>4, ZenonT(30) DEF BlocksTyped, Content
      <4>2. \/ UNCHANGED device
            \/ device' = [device EXCEPT ![o.blk] = [device[o.blk] EXCEPT ![o.slot] = o.val]]
        BY <1>10, ZenonT(30) DEF ArmSlot, PatchDeferred
      <4> QED
        BY <1>1, <1>4, <4>1, <4>2, ZenonT(30) DEF BlocksTyped
    <3>2. latest' \in [Blocks -> [Slots -> Values \cup {Undef}]]
      <4>1. [latest[o.blk] EXCEPT ![o.slot] = Undef] \in [Slots -> Values \cup {Undef}]
        BY <1>1, <1>4, ZenonT(30) DEF BlocksTyped
      <4>2. \/ UNCHANGED latest
            \/ latest' = [latest EXCEPT ![o.blk] = [latest[o.blk] EXCEPT ![o.slot] = Undef]]
        BY <1>10, ZenonT(30) DEF ArmSlot, PatchDeferred
      <4> QED
        BY <1>1, <1>4, <4>1, <4>2, ZenonT(30) DEF BlocksTyped
    <3> QED
      BY <3>1, <3>2, ZenonT(30) DEF BlocksTyped
  <2>3. \E n \in Stages[o.kind] : OpBecomes(w, OpAt(op[w], n, op[w].buf))
    BY <1>10, OpMoves, SMTT(60) DEF Stages
  <2>4. OpsTyped'
    BY <1>1, <1>3, <1>4, <2>3, OpStaysTyped, ZenonT(30)
  <2> QED
    BY <1>2, <2>1, <2>2, <2>4, TypeParts, PTL
<1> QED
  BY <1>6, <1>7, <1>8, <1>9, <1>10, ZenonT(60) DEF OpStep

(* A new operation, an abort, or a free.                                   *)
LEMMA BeginTyped ==
  ASSUME Good, NEW w \in Writers, NEW k \in Kinds, NEW b \in Blocks, NEW s \in Slots, NEW v \in Values,
         BeginOp(w, k, b, s, v) \/ AllocBlock(w, k, b, s, v)
  PROVE  (TypeOK /\ KindInv)'
<1> DEFINE x == [pc |-> After(k, "begin"), kind |-> k, blk |-> b, slot |-> s, val |-> v,
                 buf |-> [t \in Slots |-> v]]
<1>1. /\ ConsInv /\ OpsTyped /\ MapTyped /\ DrainsTyped /\ PoolTyped /\ BlocksTyped
      /\ UNCHANGED <<device, dirtyBlocks, pendingFrees, drain>>
  BY GoodParts, ZenonT(30) DEF BeginOp, AllocBlock
<1>2. After(k, "begin") \in Stages[k] /\ After(k, "begin") \in {"journal", "load", "write"}
  BY AfterIs, SMTT(60) DEF Kinds, Stages
<1>3. x \in OpType /\ x.pc \in Stages[k] /\ x.kind = k /\ x.blk = b
  BY <1>2, ZenonT(30) DEF OpType, Content
<1>4. op[w] = Idle /\ op' = [op EXCEPT ![w] = x]
  BY ZenonT(30) DEF BeginOp, AllocBlock
<1> HIDE DEF x
<1>5. op'[w] = x /\ \A u \in Writers : u # w => op'[u] = op[u]
  BY <1>1, <1>4, ZenonT(30) DEF ConsInv, OpInv
<1>6. DrainsTyped' /\ MapTyped'
  BY <1>1, ZenonT(30) DEF DrainsTyped, MapTyped, Running, Deferred
<1>7. CASE BeginOp(w, k, b, s, v)
  <2>1. UNCHANGED <<owner, allocFree, latest>> /\ MayChange(k, b)
    BY <1>7, ZenonT(30) DEF BeginOp
  <2>2. KindOK(x, owner)
    BY <1>3, <2>1, MetaCacheAssumption, ZenonT(30) DEF KindOK, MayChange
  <2>3. OpsTyped'
    BY <1>1, <1>3, <1>5, <2>1, <2>2, ZenonT(30) DEF OpsTyped, Busy
  <2>4. PoolTyped' /\ BlocksTyped'
    BY <1>1, <2>1, ZenonT(30) DEF PoolTyped, BlocksTyped
  <2> QED
    BY <1>6, <2>3, <2>4, TypeParts, PTL
<1>8. CASE AllocBlock(w, k, b, s, v)
  <2>1. /\ k \in {"page", "fill"} /\ b \in allocFree /\ allocFree' = allocFree \ {b}
        /\ owner' = [owner EXCEPT ![b] = IF k = "page" THEN "page" ELSE "data"]
        /\ latest' = [latest EXCEPT ![b] = [t \in Slots |-> Undef]]
    BY <1>8, ZenonT(30) DEF AllocBlock
  <2>2. b \in PoolBlocks /\ owner[b] = "none" /\ \A u \in Writers : Busy(u) => op[u].blk # b
    BY <1>1, <2>1, SMTT(60) DEF ConsInv, PlaceInv, FreesConserved, Owned, Free, OpInv, Busy
  <2>3. /\ owner'[b] = (IF k = "page" THEN "page" ELSE "data")
        /\ \A c \in PoolBlocks : c # b => owner'[c] = owner[c]
    BY <1>1, <2>1, <2>2, ZenonT(30) DEF PoolTyped
  <2>4. KindOK(x, owner')
    BY <1>3, <2>1, <2>2, <2>3, ZenonT(30) DEF KindOK
  <2>5. \A u \in Writers : Busy(u) => KindOK(op[u], owner')
    BY <1>1, <2>2, <2>3, ZenonT(30) DEF OpsTyped, KindOK
  <2>6. OpsTyped'
    BY <1>1, <1>3, <1>5, <2>4, <2>5, ZenonT(30) DEF OpsTyped, Busy
  <2>7. PoolTyped'
    BY <1>1, <2>1, <2>2, ZenonT(30) DEF PoolTyped
  <2>8. [t \in Slots |-> Undef] \in [Slots -> Values \cup {Undef}]
    BY ZenonT(30)
  <2>9. BlocksTyped'
    BY <1>1, <2>1, <2>8, BlockSetTyped, ZenonT(60) DEF BlocksTyped
  <2> QED
    BY <1>6, <2>6, <2>7, <2>9, TypeParts, PTL
<1> QED
  BY <1>7, <1>8, ZenonT(30)

(* An owner change that leaves alone the blocks operations work on.        *)
LEMMA OwnerStaysTyped ==
  ASSUME Good, NEW b \in PoolBlocks, NEW x \in {"none", "page", "data", "leaked"},
         owner' = [owner EXCEPT ![b] = x],
         \A w \in Writers : op'[w] # Idle => op'[w] = op[w] /\ op[w].blk # b,
         \A w \in Writers : op'[w] \in OpType
  PROVE  OpsTyped' /\ owner' \in [PoolBlocks -> {"none", "page", "data", "leaked"}]
<1>1. OpsTyped /\ PoolTyped
  BY GoodParts, ZenonT(30)
<1>2. \A c \in PoolBlocks : c # b => owner'[c] = owner[c]
  BY <1>1, ZenonT(30) DEF PoolTyped
<1>3. \A w \in Writers : Busy(w) /\ op[w].blk # b => KindOK(op[w], owner')
  BY <1>1, <1>2, ZenonT(30) DEF OpsTyped, KindOK
<1>4. \A w \in Writers : op'[w] # Idle => KindOK(op'[w], owner')
  BY <1>3, ZenonT(60) DEF Busy
<1>5. OpsTyped'
  BY <1>4, ZenonT(60) DEF OpsTyped, Busy
<1> QED
  BY <1>1, <1>5, ZenonT(30) DEF PoolTyped

LEMMA FreeTyped ==
  ASSUME Good, NEW b \in PoolBlocks, deferBlockFree(b) \/ freeBlockNow(b)
  PROVE  (TypeOK /\ KindInv)'
<1>1. /\ ConsInv /\ OpsTyped /\ MapTyped /\ DrainsTyped /\ PoolTyped /\ BlocksTyped
      /\ UNCHANGED <<device, drain, op, latest>> /\ ~Locked(b) /\ owner' = [owner EXCEPT ![b] = "none"]
  BY GoodParts, ZenonT(30) DEF deferBlockFree, freeBlockNow
<1>2. DrainsTyped' /\ BlocksTyped'
  BY <1>1, ZenonT(30) DEF DrainsTyped, BlocksTyped, Running
<1>3. MapTyped'
  BY <1>1, ZenonT(30) DEF deferBlockFree, freeBlockNow, MapTyped, Deferred
<1>4. \A w \in Writers : op'[w] \in OpType /\ (op'[w] # Idle => op'[w] = op[w] /\ op[w].blk # b)
  BY <1>1, ZenonT(30) DEF OpsTyped, Locked, Busy
<1>5. OpsTyped' /\ owner' \in [PoolBlocks -> {"none", "page", "data", "leaked"}]
  BY <1>1, <1>4, OwnerStaysTyped, ZenonT(60)
<1>6. PoolTyped'
  BY <1>1, <1>5, ZenonT(30) DEF PoolTyped, deferBlockFree, freeBlockNow
<1> QED
  BY <1>2, <1>3, <1>5, <1>6, TypeParts, PTL

LEMMA AbortTyped ==
  ASSUME Good, NEW w \in Writers, AbortOp(w)
  PROVE  (TypeOK /\ KindInv)'
<1> DEFINE o == op[w]
           back == o.kind = "fill" \/ (o.kind = "page" /\ o.pc = "journal")
<1>1. /\ ConsInv /\ OpsTyped /\ MapTyped /\ DrainsTyped /\ PoolTyped /\ BlocksTyped
      /\ UNCHANGED <<device, dirtyBlocks, pendingFrees, drain, latest>> /\ Busy(w)
      /\ op' = [op EXCEPT ![w] = Idle]
  BY GoodParts, ZenonT(30) DEF AbortOp, Busy
<1>2. DrainsTyped' /\ BlocksTyped' /\ MapTyped'
  BY <1>1, ZenonT(30) DEF DrainsTyped, BlocksTyped, MapTyped, Running, Deferred
<1>3. OpBecomes(w, Idle)
  BY <1>1, ZenonT(30) DEF ConsInv, OpInv, OpBecomes
<1>4. \A v \in Writers : op'[v] \in OpType /\ (op'[v] # Idle => v # w /\ op'[v] = op[v] /\ op[v].blk # o.blk)
  BY <1>1, <1>3, GoodParts, ZenonT(30) DEF OpBecomes, OpsTyped, OpType, Busy
<1>5. CASE back \/ o.kind = "page"
  <2>1. o.blk \in PoolBlocks
    BY <1>1, <1>5, GoodParts, ZenonT(30) DEF KindOK
  <2>2. \E x \in {"none", "leaked"} : owner' = [owner EXCEPT ![o.blk] = x]
    BY <1>5, ZenonT(60) DEF AbortOp
  <2>3. OpsTyped' /\ owner' \in [PoolBlocks -> {"none", "page", "data", "leaked"}]
    BY <1>4, <2>1, <2>2, OwnerStaysTyped, ZenonT(60)
  <2>4. PoolTyped'
    BY <1>1, <2>1, <2>3, ZenonT(30) DEF PoolTyped, AbortOp
  <2> QED
    BY <1>2, <2>3, <2>4, TypeParts, PTL
<1>6. CASE ~back /\ o.kind # "page"
  <2>1. UNCHANGED <<owner, allocFree>>
    BY <1>6, ZenonT(60) DEF AbortOp
  <2>2. OpsTyped' /\ PoolTyped'
    BY <1>1, <1>3, <2>1, OpEndsTyped, ZenonT(30) DEF PoolTyped
  <2> QED
    BY <1>2, <2>2, TypeParts, PTL
<1> QED
  BY <1>5, <1>6, ZenonT(30)

(* What each step of a drain does to it.                                   *)
DrainBecomes(d, x) ==
  /\ drain' = [e \in Drainers |-> drain'[e]] /\ drain'[d] = x
  /\ \A e \in Drainers : e # d => drain'[e] = drain[e]

DrainAt(n, snap, todo, frees) == [pc |-> n, snap |-> snap, todo |-> todo, frees |-> frees]

LEMMA DrainMoves ==
  ASSUME Good, NEW d \in Drainers
  PROVE  /\ DrainBegin(d) => ~Running(d) /\ DrainBecomes(d, DrainAt("write", dirtyBlocks, Deferred, pendingFrees))
         /\ \A b : DrainWrite(d, b) =>
              /\ Running(d)
              /\ DrainBecomes(d, DrainAt("write", drain[d].snap, drain[d].todo \ {b}, drain[d].frees))
         /\ DrainFree(d) =>
              Running(d) /\ DrainBecomes(d, DrainAt("delete", drain[d].snap, drain[d].todo, {}))
         /\ DrainWriteFails(d) \/ DrainDelete(d) => Running(d) /\ DrainBecomes(d, Rest)
<1>1. drain = [e \in Drainers |-> drain[e]]
  BY ZenonT(30) DEF Good, ConsInv, DrainInv
<1>2. ASSUME NEW x, drain' = [drain EXCEPT ![d] = x] PROVE DrainBecomes(d, x)
  BY <1>1, <1>2, ZenonT(30) DEF DrainBecomes
<1>3. ASSUME Running(d) PROVE DrainShape(drain[d])
  BY <1>3, ZenonT(30) DEF Good, ConsInv, DrainInv, Running
<1>4. ASSUME DrainBegin(d)
      PROVE  ~Running(d) /\ DrainBecomes(d, DrainAt("write", dirtyBlocks, Deferred, pendingFrees))
  BY <1>2, <1>4, ZenonT(60) DEF DrainBegin, DrainAt, Running
<1>5. ASSUME NEW b, DrainWrite(d, b)
      PROVE  /\ Running(d)
             /\ DrainBecomes(d, DrainAt("write", drain[d].snap, drain[d].todo \ {b}, drain[d].frees))
  <2>1. Running(d) /\ drain[d].pc = "write"
    BY <1>5, SMTT(60) DEF DrainWrite, Rest, Running
  <2>2. [drain[d] EXCEPT !.todo = @ \ {b}] =
          DrainAt("write", drain[d].snap, drain[d].todo \ {b}, drain[d].frees)
    BY <1>3, <2>1, SMTT(60) DEF DrainShape, DrainAt
  <2>3. drain' = [drain EXCEPT ![d] = [drain[d] EXCEPT !.todo = @ \ {b}]]
    BY <1>5, ZenonT(30) DEF DrainWrite
  <2> QED
    BY <1>2, <2>1, <2>2, <2>3, ZenonT(60)
<1>6. ASSUME DrainFree(d)
      PROVE  Running(d) /\ DrainBecomes(d, DrainAt("delete", drain[d].snap, drain[d].todo, {}))
  <2>1. Running(d)
    BY <1>6, SMTT(60) DEF DrainFree, Rest, Running
  <2>2. [drain[d] EXCEPT !.pc = "delete", !.frees = {}] =
          DrainAt("delete", drain[d].snap, drain[d].todo, {})
    BY <1>3, <2>1, FreedShape, ZenonT(60) DEF DrainAt
  <2>3. drain' = [drain EXCEPT ![d] = [drain[d] EXCEPT !.pc = "delete", !.frees = {}]]
    <3>1. drain' = [drain EXCEPT ![d].pc = "delete", ![d].frees = {}]
      BY <1>6, ZenonT(30) DEF DrainFree
    <3> QED
      BY <1>1, <3>1, ZenonT(60)
  <2> QED
    BY <1>2, <2>1, <2>2, <2>3, ZenonT(60)
<1>7. ASSUME DrainWriteFails(d) \/ DrainDelete(d) PROVE Running(d) /\ DrainBecomes(d, Rest)
  <2>1. Running(d)
    BY <1>7, SMTT(60) DEF DrainWriteFails, DrainDelete, Rest, Running
  <2>2. drain' = [drain EXCEPT ![d] = Rest]
    BY <1>7, ZenonT(30) DEF DrainWriteFails, DrainDelete
  <2> QED
    BY <1>2, <2>1, <2>2, ZenonT(60)
<1> QED
  BY <1>4, <1>5, <1>6, <1>7, ZenonT(30)

LEMMA SnapTyped ==
  ASSUME MapTyped
  PROVE  dirtyBlocks \in Partial
<1>1. dirtyBlocks \in [Deferred -> Content] /\ Deferred \in SUBSET Blocks
  BY ZenonT(30) DEF MapTyped
<1> QED
  BY <1>1, ZenonT(60) DEF Partial

LEMMA DrainTyped ==
  ASSUME Good, NEW d \in Drainers, DrainBegin(d) \/ DrainStep(d)
  PROVE  (TypeOK /\ KindInv)'
<1>1. /\ ConsInv /\ OpsTyped /\ MapTyped /\ DrainsTyped /\ PoolTyped /\ BlocksTyped
      /\ UNCHANGED <<owner, op, latest>>
  BY GoodParts, ZenonT(30) DEF DrainBegin, DrainStep, DrainWrite, DrainWriteFails, DrainFree, DrainDelete
<1>2. OpsTyped'
  BY <1>1, ZenonT(30) DEF OpsTyped, Busy
<1>3. ASSUME NEW x, DrainBecomes(d, x),
             x = Rest \/ (x \in DrainType /\ x.todo \subseteq DOMAIN x.snap)
      PROVE  DrainsTyped'
  BY <1>1, <1>3, ZenonT(30) DEF DrainsTyped, DrainBecomes, Running
<1>4. ASSUME NEW n \in {"write", "delete"}, NEW snap \in Partial, NEW todo, NEW frees \in SUBSET PoolBlocks,
             todo \subseteq DOMAIN snap, todo \subseteq Blocks
      PROVE  DrainAt(n, snap, todo, frees) \in DrainType
               /\ DrainAt(n, snap, todo, frees).todo \subseteq DOMAIN DrainAt(n, snap, todo, frees).snap
  BY <1>4, ZenonT(30) DEF DrainAt, DrainType
<1>5. ASSUME Running(d)
      PROVE  /\ drain[d].snap \in Partial /\ drain[d].todo \subseteq DOMAIN drain[d].snap
             /\ drain[d].todo \subseteq Blocks /\ drain[d].frees \in SUBSET PoolBlocks
  BY <1>1, <1>5, ZenonT(30) DEF DrainsTyped, DrainType, Running
<1>6. CASE DrainBegin(d)
  <2>1. DrainBecomes(d, DrainAt("write", dirtyBlocks, Deferred, pendingFrees))
    BY <1>6, DrainMoves, ZenonT(30)
  <2>2. dirtyBlocks \in Partial /\ Deferred \subseteq DOMAIN dirtyBlocks /\ Deferred \subseteq Blocks
        /\ pendingFrees \in SUBSET PoolBlocks
    BY <1>1, SnapTyped, ZenonT(30) DEF MapTyped, PoolTyped, Deferred
  <2>3. DrainsTyped'
    BY <1>3, <1>4, <2>1, <2>2, ZenonT(30)
  <2>4. MapTyped' /\ PoolTyped' /\ BlocksTyped'
    BY <1>1, <1>6, ZenonT(30) DEF DrainBegin, MapTyped, PoolTyped, BlocksTyped, Deferred
  <2> QED
    BY <1>2, <2>3, <2>4, TypeParts, PTL
<1>7. ASSUME NEW b \in Blocks, DrainWrite(d, b) PROVE (TypeOK /\ KindInv)'
  <2>1. Running(d) /\ DrainBecomes(d, DrainAt("write", drain[d].snap, drain[d].todo \ {b}, drain[d].frees))
    BY <1>7, DrainMoves, ZenonT(30)
  <2>2. DrainsTyped'
    <3>1. drain[d].todo \ {b} \subseteq DOMAIN drain[d].snap /\ drain[d].todo \ {b} \subseteq Blocks
      BY <1>5, <2>1, ZenonT(30)
    <3> QED
      BY <1>3, <1>4, <1>5, <2>1, <3>1, ZenonT(30)
  <2>3. MapTyped' /\ PoolTyped'
    BY <1>1, <1>7, ZenonT(30) DEF DrainWrite, MapTyped, PoolTyped, Deferred
  <2>4. drain[d].snap[b] \in Content
    BY <1>5, <1>7, <2>1, ZenonT(30) DEF DrainWrite, Partial
  <2>5. BlocksTyped'
    BY <1>1, <1>7, <2>4, ZenonT(30) DEF DrainWrite, BlocksTyped
  <2> QED
    BY <1>2, <2>2, <2>3, <2>5, TypeParts, PTL
<1>8. CASE DrainWriteFails(d)
  <2>1. Running(d) /\ DrainBecomes(d, Rest)
    BY <1>8, DrainMoves, ZenonT(30)
  <2>2. DrainsTyped'
    BY <1>3, <2>1, ZenonT(30)
  <2>3. MapTyped' /\ PoolTyped' /\ BlocksTyped'
    BY <1>1, <1>5, <1>8, <2>1, ZenonT(30) DEF DrainWriteFails, MapTyped, PoolTyped, BlocksTyped, Deferred
  <2> QED
    BY <1>2, <2>2, <2>3, TypeParts, PTL
<1>9. CASE DrainFree(d)
  <2>1. Running(d) /\ DrainBecomes(d, DrainAt("delete", drain[d].snap, drain[d].todo, {}))
    BY <1>9, DrainMoves, ZenonT(30)
  <2>2. DrainsTyped'
    BY <1>3, <1>4, <1>5, <2>1, ZenonT(30)
  <2>3. MapTyped' /\ PoolTyped' /\ BlocksTyped'
    BY <1>1, <1>5, <1>9, <2>1, ZenonT(30) DEF DrainFree, MapTyped, PoolTyped, BlocksTyped, Deferred
  <2> QED
    BY <1>2, <2>2, <2>3, TypeParts, PTL
<1>10. CASE DrainDelete(d)
  <2>1. Running(d) /\ DrainBecomes(d, Rest)
    BY <1>10, DrainMoves, ZenonT(30)
  <2>2. DrainsTyped'
    BY <1>3, <2>1, ZenonT(30)
  <2>3. MapTyped' /\ PoolTyped' /\ BlocksTyped'
    BY <1>1, <1>10, ZenonT(30) DEF DrainDelete, MapTyped, PoolTyped, BlocksTyped, Deferred
  <2> QED
    BY <1>2, <2>2, <2>3, TypeParts, PTL
<1> QED
  BY <1>6, <1>7, <1>8, <1>9, <1>10, ZenonT(30) DEF DrainStep

LEMMA InitGood == Init => Good
<1> SUFFICES ASSUME Init PROVE Good
  BY ZenonT(30)
<1>1. ConsInv
  BY ZenonT(30) DEF Init, ConsInv, OpInv, DrainInv, PlaceInv, FreesConserved, Owned, Queued, Free, Holds
<1>2. device \in [Blocks -> Content] /\ latest \in [Blocks -> [Slots -> Values \cup {Undef}]]
  <2>1. \A b \in Blocks : device[b] \in Content /\ device = [c \in Blocks |-> device[c]]
    BY SMTT(60) DEF Init, Content
  <2>2. device \in [Blocks -> Content]
    BY SMTT(60) DEF Init, Content
  <2> QED
    BY <2>2, ZenonT(30) DEF Init, Content
<1>3. OpsTyped /\ MapTyped /\ DrainsTyped /\ PoolTyped
  BY ZenonT(30) DEF Init, OpsTyped, MapTyped, DrainsTyped, PoolTyped, OpType, Busy, Running, Deferred
<1> QED
  BY <1>1, <1>2, <1>3, TypeParts, ZenonT(30) DEF Good, BlocksTyped

LEMMA StepGood == Good /\ [Next]_vars => Good'
<1> SUFFICES ASSUME Good, [Next]_vars PROVE (TypeOK /\ KindInv)'
  BY StepCons, ZenonT(30) DEF Good
<1>1. CASE UNCHANGED vars
  <2>1. OpsTyped /\ MapTyped /\ DrainsTyped /\ PoolTyped /\ BlocksTyped
    BY GoodParts, ZenonT(30)
  <2>2. (OpsTyped /\ MapTyped /\ DrainsTyped /\ PoolTyped /\ BlocksTyped)'
    BY <1>1, <2>1, ZenonT(30) DEF vars, OpsTyped, MapTyped, DrainsTyped, PoolTyped, BlocksTyped, Busy, Running, Deferred
  <2> QED
    BY <2>2, TypeParts, PTL
<1>2. ASSUME NEW w \in Writers, OpStep(w) PROVE (TypeOK /\ KindInv)'
  BY <1>2, OpStepTyped, AbortTyped, ZenonT(30)
<1>3. ASSUME NEW w \in Writers, NEW k \in Kinds, NEW b \in Blocks, NEW s \in Slots, NEW v \in Values,
             BeginOp(w, k, b, s, v) \/ AllocBlock(w, k, b, s, v)
      PROVE  (TypeOK /\ KindInv)'
  BY <1>3, BeginTyped, ZenonT(30)
<1>4. ASSUME NEW b \in PoolBlocks, deferBlockFree(b) \/ freeBlockNow(b) PROVE (TypeOK /\ KindInv)'
  BY <1>4, FreeTyped, ZenonT(30)
<1>5. ASSUME NEW d \in Drainers, DrainBegin(d) \/ DrainStep(d) PROVE (TypeOK /\ KindInv)'
  BY <1>5, DrainTyped, ZenonT(30)
<1> QED
  BY <1>1, <1>2, <1>3, <1>4, <1>5, ZenonT(60) DEF Next

-----------------------------------------------------------------------------
(* A drain and the reuse of freed blocks.                                  *)

(* SyncMeta calls do not overlap: there is one drainer, of either kind.    *)
OneDrain == \A d, e \in Drainers : d = e

(* A block that is free, holds file data, or is about to become a page but *)
(* may still be handed back: no copy of it may be written any more.        *)
NewPage(b) ==
  \E w \in Writers : Busy(w) /\ op[w].blk = b /\ op[w].kind = "page" /\ op[w].pc = "journal"
Raw(b) == b \in allocFree \/ owner[b] = "data" \/ NewPage(b)

(* The deferred copy of b is the one the drain took, and the drain will    *)
(* delete it next.                                                         *)
Same(d, b) == b \in DOMAIN drain[d].snap /\ dirtyBlocks[b] = drain[d].snap[b]
Stale(b)   == \E d \in Drainers : Running(d) /\ drain[d].pc = "delete" /\ Same(d, b)

ClobberInv ==
  /\ \A d \in Drainers : Running(d) =>
       /\ drain[d].pc = "delete" => drain[d].todo = {}
       /\ drain[d].todo \subseteq Deferred
       /\ \A b \in DOMAIN drain[d].snap : b \in InodeBlocks => b \in Deferred
       /\ \A b \in drain[d].frees : b \in Deferred => Same(d, b)
       /\ \A b \in drain[d].todo : b \in PoolBlocks => ~Raw(b)
  /\ \A b \in PoolBlocks : Raw(b) /\ b \in Deferred => Stale(b)

(* A step of no drain that makes no block raw, and changes the deferred    *)
(* copy of no raw block and of no block whose free a drain holds.          *)
LEMMA ClobberKept ==
  ASSUME Good, ClobberInv, UNCHANGED drain,
         \A b \in PoolBlocks : Raw(b)' => Raw(b),
         \A b \in Deferred : b \in Deferred' \/ (b \in PoolBlocks /\ Raw(b)),
         \A b \in PoolBlocks : b \in Deferred' /\ (Raw(b)' \/ \E d \in Drainers : Holds(d, b)) =>
           b \in Deferred /\ dirtyBlocks'[b] = dirtyBlocks[b]
  PROVE  ClobberInv'
<1>1. ASSUME NEW d \in Drainers, Running(d)
      PROVE  /\ drain[d].pc = "delete" => drain[d].todo = {}
             /\ drain[d].todo \subseteq Deferred'
             /\ \A b \in DOMAIN drain[d].snap : b \in InodeBlocks => b \in Deferred'
             /\ \A b \in drain[d].frees : b \in Deferred' => Same(d, b)'
             /\ \A b \in drain[d].todo : b \in PoolBlocks => ~Raw(b)'
  <2>1. drain[d].frees \subseteq PoolBlocks
    BY <1>1, ZenonT(30) DEF Good, ConsInv, DrainInv, Running
  <2>2. \A b \in drain[d].frees : Holds(d, b)
    BY <1>1, ZenonT(30) DEF Holds, Running
  <2>3. \A b \in drain[d].frees : b \in Deferred' => Same(d, b)'
    BY <1>1, <2>1, <2>2, ZenonT(30) DEF ClobberInv, Same
  <2>4. drain[d].todo \subseteq Deferred'
    BY <1>1, ZenonT(30) DEF ClobberInv
  <2>5. \A b \in DOMAIN drain[d].snap : b \in InodeBlocks => b \in Deferred'
    BY <1>1, MetaCacheAssumption, ZenonT(30) DEF ClobberInv
  <2> QED
    BY <1>1, <2>3, <2>4, <2>5, ZenonT(30) DEF ClobberInv
<1>2. ASSUME NEW b \in PoolBlocks, Raw(b)', b \in Deferred' PROVE Stale(b)'
  <2>1. PICK d \in Drainers : Running(d) /\ drain[d].pc = "delete" /\ Same(d, b)
    BY <1>2, ZenonT(30) DEF ClobberInv, Stale
  <2>2. Running(d)' /\ drain'[d].pc = "delete" /\ Same(d, b)'
    BY <1>2, <2>1, ZenonT(30) DEF Same, Running
  <2> QED
    BY <2>2, ZenonT(30) DEF Stale
<1>3. \A d \in Drainers : Running(d)' <=> Running(d)
  BY ZenonT(30) DEF Running
<1> QED
  BY <1>1, <1>2, <1>3, ZenonT(30) DEF ClobberInv

LEMMA OpClobber ==
  ASSUME Good, ClobberInv, NEW w \in Writers, OpStep(w), ~AbortOp(w)
  PROVE  ClobberInv'
<1>1. UNCHANGED <<drain, allocFree, owner>> /\ Busy(w)
  BY SMTT(60) DEF OpStep, LoadHit, LoadMiss, ReadDevice, JournalRecord, StoreBlock, WriteBlock, ArmSlot,
         PatchDeferred, At, Idle, Busy
<1>2. \A v \in Writers : op'[v] # Idle /\ op'[v].kind = "page" /\ op'[v].pc = "journal" =>
         op'[v] = op[v]
  <2>1. ASSUME OpBecomes(w, Idle)
        PROVE  \A v \in Writers : op'[v] # Idle => op'[v] = op[v]
    BY <2>1, ZenonT(30) DEF OpBecomes
  <2>2. ASSUME NEW n, NEW buf, OpBecomes(w, OpAt(op[w], n, buf)), n # "journal" \/ op[w].kind # "page"
        PROVE  \A v \in Writers : op'[v].kind = "page" /\ op'[v].pc = "journal" => op'[v] = op[v]
    BY <2>2, SMTT(60) DEF OpBecomes, OpAt
  <2>3. \/ OpBecomes(w, Idle)
        \/ \E n, buf : OpBecomes(w, OpAt(op[w], n, buf)) /\ (n # "journal" \/ op[w].kind # "page")
    BY OpMoves, SMTT(60) DEF OpStep
  <2> QED
    BY <2>1, <2>2, <2>3, ZenonT(30)
<1>3. \A b \in PoolBlocks : Raw(b)' => Raw(b)
  BY <1>1, <1>2, ZenonT(30) DEF Raw, NewPage, Busy
<1>4. CASE StoreBlock(w)
  <2>1. /\ Deferred' = Deferred \cup {op[w].blk}
        /\ \A b \in Deferred' : b # op[w].blk => dirtyBlocks'[b] = dirtyBlocks[b]
    BY <1>4, ZenonT(30) DEF StoreBlock, setDirtyBlock, Deferred
  <2>2. op'[w] = Idle /\ (\A v \in Writers : v # w => op'[v] = op[v])
        /\ op[w].kind \in {"owned", "direct", "cached", "create", "page"}
    BY <1>4, OpMoves, ZenonT(30) DEF OpBecomes
  <2>3. ASSUME NEW c \in PoolBlocks, c = op[w].blk
        PROVE  ~Raw(c)' /\ \A d \in Drainers : ~Holds(d, c)
    <3>1. owner[c] = "page"
      BY <1>1, <2>2, <2>3, GoodParts, MetaCacheAssumption, ZenonT(30) DEF KindOK
    <3>2. c \notin allocFree /\ \A d \in Drainers : ~Holds(d, c)
      BY <2>3, <3>1, ZenonT(30) DEF Good, ConsInv, PlaceInv, FreesConserved, Owned, Free
    <3>3. \A v \in Writers : op'[v] # Idle => op'[v].blk # c
      BY <1>1, <2>2, <2>3, GoodParts, ZenonT(30) DEF Busy
    <3> QED
      BY <1>1, <3>1, <3>2, <3>3, ZenonT(30) DEF Raw, NewPage, Busy
  <2> QED
    BY <1>1, <1>3, <2>1, <2>3, ClobberKept, ZenonT(30)
<1>5. CASE PatchDeferred(w)
  <2>1. op[w].blk \notin PoolBlocks
    BY <1>1, <1>5, OpMoves, GoodParts, MetaCacheAssumption, ZenonT(30) DEF KindOK
  <2>2. Deferred' = Deferred /\ \A b \in Deferred : b # op[w].blk => dirtyBlocks'[b] = dirtyBlocks[b]
    BY <1>5, ZenonT(30) DEF PatchDeferred, Deferred
  <2> QED
    BY <1>1, <1>3, <2>1, <2>2, ClobberKept, ZenonT(30)
<1>6. CASE ~StoreBlock(w) /\ ~PatchDeferred(w)
  <2>1. UNCHANGED dirtyBlocks
    BY <1>6, ZenonT(30) DEF OpStep, LoadHit, LoadMiss, ReadDevice, JournalRecord, WriteBlock, ArmSlot
  <2> QED
    BY <1>1, <1>3, <2>1, ClobberKept, ZenonT(30) DEF Deferred
<1> QED
  BY <1>4, <1>5, <1>6, ZenonT(30)

LEMMA BeginClobber ==
  ASSUME Good, ClobberInv, NEW w \in Writers, NEW k \in Kinds, NEW b \in Blocks, NEW s, NEW v,
         BeginOp(w, k, b, s, v) \/ AllocBlock(w, k, b, s, v)
  PROVE  ClobberInv'
<1> DEFINE x == [pc |-> After(k, "begin"), kind |-> k, blk |-> b, slot |-> s, val |-> v,
                 buf |-> [t \in Slots |-> v]]
<1>1. op[w] = Idle /\ op' = [op EXCEPT ![w] = x] /\ UNCHANGED <<drain, dirtyBlocks>>
  BY ZenonT(30) DEF BeginOp, AllocBlock
<1>2. x.kind = k /\ x.blk = b
  BY ZenonT(30)
<1> HIDE DEF x
<1>3. op'[w] = x /\ \A u \in Writers : u # w => op'[u] = op[u]
  BY <1>1, ZenonT(30) DEF Good, ConsInv, OpInv
<1>4. \A c \in PoolBlocks : Raw(c)' => Raw(c)
  <2>1. CASE BeginOp(w, k, b, s, v)
    <3>1. k # "page" /\ UNCHANGED <<allocFree, owner>>
      BY <2>1, ZenonT(30) DEF BeginOp, MayChange
    <3> QED
      BY <1>2, <1>3, <3>1, ZenonT(30) DEF Raw, NewPage, Busy
  <2>2. CASE AllocBlock(w, k, b, s, v)
    <3>1. b \in allocFree /\ allocFree' = allocFree \ {b} /\ \A c \in PoolBlocks : c # b => owner'[c] = owner[c]
      BY <2>2, GoodParts, ZenonT(30) DEF AllocBlock, PoolTyped
    <3> QED
      BY <1>2, <1>3, <3>1, ZenonT(30) DEF Raw, NewPage, Busy
  <2> QED
    BY <2>1, <2>2, ZenonT(30)
<1> QED
  BY <1>1, <1>4, ClobberKept, ZenonT(30) DEF Deferred

LEMMA FreeClobber ==
  ASSUME Good, ClobberInv, NEW b \in PoolBlocks, deferBlockFree(b) \/ freeBlockNow(b)
  PROVE  ClobberInv'
<1>1. UNCHANGED <<op, drain>> /\ owner' = [owner EXCEPT ![b] = "none"]
  BY ZenonT(30) DEF deferBlockFree, freeBlockNow
<1>2. owner'[b] = "none" /\ \A c \in PoolBlocks : c # b => owner'[c] = owner[c]
  BY <1>1, GoodParts, ZenonT(30) DEF PoolTyped
<1>3. CASE deferBlockFree(b)
  <2>1. UNCHANGED <<allocFree, dirtyBlocks>>
    BY <1>3, ZenonT(30) DEF deferBlockFree
  <2>2. \A c \in PoolBlocks : Raw(c)' => Raw(c)
    BY <1>1, <1>2, <2>1, ZenonT(30) DEF Raw, NewPage, Busy
  <2> QED
    BY <1>1, <2>1, <2>2, ClobberKept, ZenonT(30) DEF Deferred
<1>4. CASE freeBlockNow(b)
  <2>1. /\ allocFree' = allocFree \cup {b} /\ Raw(b) /\ Deferred' = Deferred \ {b}
        /\ \A c \in Deferred' : dirtyBlocks'[c] = dirtyBlocks[c]
    BY <1>4, ZenonT(30) DEF freeBlockNow, Raw, Deferred
  <2>2. \A c \in PoolBlocks : Raw(c)' => Raw(c)
    BY <1>1, <1>2, <2>1, ZenonT(30) DEF Raw, NewPage, Busy
  <2> QED
    BY <1>1, <2>1, <2>2, ClobberKept, ZenonT(30)
<1> QED
  BY <1>3, <1>4, ZenonT(30)

LEMMA AbortClobber ==
  ASSUME Good, ClobberInv, NEW w \in Writers, AbortOp(w)
  PROVE  ClobberInv'
<1> DEFINE o == op[w]
           back == o.kind = "fill" \/ (o.kind = "page" /\ o.pc = "journal")
<1>1. UNCHANGED <<dirtyBlocks, drain>> /\ Busy(w) /\ op' = [op EXCEPT ![w] = Idle]
  BY ZenonT(30) DEF AbortOp, Busy
<1>2. op'[w] = Idle /\ \A v \in Writers : v # w => op'[v] = op[v]
  BY <1>1, ZenonT(30) DEF Good, ConsInv, OpInv
<1>3. \A c \in PoolBlocks : NewPage(c)' => NewPage(c)
  BY <1>2, ZenonT(30) DEF NewPage, Busy
<1>4. \A c \in PoolBlocks : Raw(c)' => Raw(c)
  <2>1. CASE back
    <3>1. o.blk \in PoolBlocks /\ Raw(o.blk)
      BY <1>1, <2>1, GoodParts, ZenonT(30) DEF KindOK, Raw, NewPage, Busy
    <3>2. allocFree' = allocFree \cup {o.blk} /\ owner' = [owner EXCEPT ![o.blk] = "none"]
      BY <2>1, ZenonT(60) DEF AbortOp
    <3>3. \A c \in PoolBlocks : c # o.blk => owner'[c] = owner[c]
      BY <3>2, GoodParts, ZenonT(30) DEF PoolTyped
    <3> QED
      BY <1>3, <3>1, <3>2, <3>3, ZenonT(30) DEF Raw
  <2>2. CASE ~back
    <3>1. UNCHANGED allocFree
      BY <2>2, ZenonT(30) DEF AbortOp
    <3>2. owner' = owner \/ owner' = [owner EXCEPT ![o.blk] = "leaked"]
      BY <2>2, ZenonT(60) DEF AbortOp
    <3>3. \A c \in PoolBlocks : owner'[c] = "data" => owner[c] = "data"
      BY <3>2, GoodParts, ZenonT(30) DEF PoolTyped
    <3> QED
      BY <1>3, <3>1, <3>3, ZenonT(30) DEF Raw
  <2> QED
    BY <2>1, <2>2, ZenonT(30)
<1> QED
  BY <1>1, <1>4, ClobberKept, ZenonT(30) DEF Deferred

LEMMA DrainClobber ==
  ASSUME OneDrain, Good, ClobberInv, NEW d \in Drainers, DrainBegin(d) \/ DrainStep(d)
  PROVE  ClobberInv'
<1>1. UNCHANGED <<owner, op>> /\ \A e \in Drainers : e = d
  BY ZenonT(30) DEF OneDrain, DrainBegin, DrainStep, DrainWrite, DrainWriteFails, DrainFree, DrainDelete
<1>2. \A b : NewPage(b)' <=> NewPage(b)
  BY <1>1, ZenonT(30) DEF NewPage, Busy
<1>3. ASSUME DrainBecomes(d, Rest), \A b \in PoolBlocks : Raw(b)' => b \notin Deferred'
      PROVE  ClobberInv'
  <2>1. \A e \in Drainers : ~Running(e)'
    BY <1>1, <1>3, ZenonT(30) DEF DrainBecomes, Running
  <2> QED
    BY <1>3, <2>1, ZenonT(30) DEF ClobberInv
<1>4. ASSUME NEW n, NEW snap, NEW todo, NEW frees, DrainBecomes(d, DrainAt(n, snap, todo, frees))
      PROVE  /\ drain'[d].pc = n /\ drain'[d].snap = snap /\ drain'[d].todo = todo
             /\ drain'[d].frees = frees /\ Running(d)'
  BY <1>4, SMTT(60) DEF DrainBecomes, DrainAt, Running, Rest
<1>5. ASSUME ~Running(d) \/ drain[d].pc # "delete", NEW b \in PoolBlocks, Raw(b)
      PROVE  b \notin Deferred
  BY <1>1, <1>5, ZenonT(30) DEF ClobberInv, Stale
<1>6. CASE DrainBegin(d)
  <2>1. /\ ~Running(d) /\ drain'[d].pc = "write" /\ drain'[d].snap = dirtyBlocks /\ drain'[d].todo = Deferred
        /\ drain'[d].frees = pendingFrees /\ Running(d)'
    BY <1>4, <1>6, DrainMoves, ZenonT(30)
  <2>2. UNCHANGED <<allocFree, dirtyBlocks>>
    BY <1>6, ZenonT(30) DEF DrainBegin
  <2>3. Deferred' = Deferred /\ \A b : Raw(b)' <=> Raw(b)
    BY <1>1, <1>2, <2>2, ZenonT(30) DEF Raw, Deferred
  <2> QED
    BY <1>1, <1>5, <2>1, <2>2, <2>3, ZenonT(30) DEF ClobberInv, Same, Deferred
<1>7. ASSUME NEW b \in Blocks, DrainWrite(d, b) PROVE ClobberInv'
  <2>1. /\ Running(d) /\ drain'[d].pc = "write" /\ drain'[d].snap = drain[d].snap
        /\ drain'[d].todo = drain[d].todo \ {b} /\ drain'[d].frees = drain[d].frees /\ Running(d)'
    <3>1. Running(d) /\ DrainBecomes(d, DrainAt("write", drain[d].snap, drain[d].todo \ {b}, drain[d].frees))
      BY <1>7, DrainMoves, ZenonT(60)
    <3> QED
      BY <1>4, <3>1, ZenonT(60)
  <2>2. UNCHANGED <<allocFree, dirtyBlocks>> /\ drain[d].pc # "delete"
    BY <1>7, ZenonT(30) DEF DrainWrite
  <2>3. Deferred' = Deferred /\ \A c : Raw(c)' <=> Raw(c)
    BY <1>1, <1>2, <2>2, ZenonT(30) DEF Raw, Deferred
  <2> QED
    BY <1>1, <1>5, <2>1, <2>2, <2>3, SMTT(60) DEF ClobberInv, Same
<1>8. CASE DrainWriteFails(d)
  <2>1. DrainBecomes(d, Rest) /\ UNCHANGED <<allocFree, dirtyBlocks>> /\ drain[d].pc # "delete"
    <3>1. DrainBecomes(d, Rest)
      BY <1>8, DrainMoves, ZenonT(60)
    <3> QED
      BY <1>8, <3>1, ZenonT(30) DEF DrainWriteFails
  <2>2. Deferred' = Deferred /\ \A c : Raw(c)' <=> Raw(c)
    BY <1>1, <1>2, <2>1, ZenonT(30) DEF Raw, Deferred
  <2> QED
    BY <1>3, <1>5, <2>1, <2>2, ZenonT(30)
<1>9. CASE DrainFree(d)
  <2>1. /\ Running(d) /\ drain'[d].pc = "delete" /\ drain'[d].snap = drain[d].snap
        /\ drain'[d].todo = drain[d].todo /\ drain'[d].frees = {} /\ Running(d)'
    BY <1>4, <1>9, DrainMoves, SMTT(60)
  <2>2. /\ UNCHANGED dirtyBlocks /\ drain[d].todo = {} /\ drain[d].pc # "delete"
        /\ allocFree' = allocFree \cup drain[d].frees
    BY <1>9, ZenonT(30) DEF DrainFree
  <2>3. Deferred' = Deferred
    BY <2>2, ZenonT(30) DEF Deferred
  <2>4. ASSUME NEW b \in PoolBlocks, Raw(b)', b \in Deferred' PROVE Stale(b)'
    <3>1. b \in drain[d].frees
      BY <1>1, <1>2, <1>5, <2>2, <2>3, <2>4, ZenonT(30) DEF Raw
    <3>2. Same(d, b)
      BY <2>1, <2>3, <2>4, <3>1, ZenonT(30) DEF ClobberInv
    <3>3. Same(d, b)'
      BY <2>1, <2>2, <3>2, ZenonT(30) DEF Same
    <3> QED
      BY <2>1, <3>3, ZenonT(30) DEF Stale
  <2> QED
    BY <1>1, <2>1, <2>2, <2>3, <2>4, ZenonT(30) DEF ClobberInv
<1>10. CASE DrainDelete(d)
  <2>1. DrainBecomes(d, Rest) /\ UNCHANGED allocFree
    <3>1. DrainBecomes(d, Rest)
      BY <1>10, DrainMoves, ZenonT(60)
    <3> QED
      BY <1>10, <3>1, ZenonT(30) DEF DrainDelete
  <2>2. Deferred' = {b \in Deferred : ~Same(d, b)}
    BY <1>10, ZenonT(30) DEF DrainDelete, Deferred, Same
  <2>3. \A c : Raw(c)' <=> Raw(c)
    BY <1>1, <1>2, <2>1, ZenonT(30) DEF Raw
  <2>4. \A b \in PoolBlocks : Raw(b)' => b \notin Deferred'
    BY <1>1, <2>2, <2>3, ZenonT(30) DEF ClobberInv, Stale
  <2> QED
    BY <1>3, <2>1, <2>4, ZenonT(30)
<1> QED
  BY <1>6, <1>7, <1>8, <1>9, <1>10, ZenonT(30) DEF DrainStep

LEMMA StepClobber ==
  ASSUME OneDrain
  PROVE  Good /\ ClobberInv /\ [Next]_vars => ClobberInv'
<1> SUFFICES ASSUME Good, ClobberInv, [Next]_vars PROVE ClobberInv'
  BY ZenonT(30)
<1>1. CASE UNCHANGED vars
  <2>1. UNCHANGED <<drain, dirtyBlocks, allocFree, owner, op>>
    BY <1>1, ZenonT(30) DEF vars
  <2>2. \A b \in PoolBlocks : Raw(b)' => Raw(b)
    BY <2>1, ZenonT(30) DEF Raw, NewPage, Busy
  <2> QED
    BY <2>1, <2>2, ClobberKept, ZenonT(30) DEF Deferred
<1>2. ASSUME NEW w \in Writers, OpStep(w) PROVE ClobberInv'
  BY <1>2, OpClobber, AbortClobber, ZenonT(30)
<1>3. ASSUME NEW w \in Writers, NEW k \in Kinds, NEW b \in Blocks, NEW s \in Slots, NEW v \in Values,
             BeginOp(w, k, b, s, v) \/ AllocBlock(w, k, b, s, v)
      PROVE  ClobberInv'
  BY <1>3, BeginClobber, ZenonT(30)
<1>4. ASSUME NEW b \in PoolBlocks, deferBlockFree(b) \/ freeBlockNow(b) PROVE ClobberInv'
  BY <1>4, FreeClobber, ZenonT(30)
<1>5. ASSUME NEW d \in Drainers, DrainBegin(d) \/ DrainStep(d) PROVE ClobberInv'
  BY <1>5, DrainClobber, ZenonT(30)
<1> QED
  BY <1>1, <1>2, <1>3, <1>4, <1>5, ZenonT(60) DEF Next

LEMMA InitClobber == Init => ClobberInv
<1> SUFFICES ASSUME Init PROVE ClobberInv
  BY ZenonT(30)
<1>1. Deferred = {} /\ \A d \in Drainers : ~Running(d)
  BY ZenonT(30) DEF Init, Deferred, Running
<1> QED
  BY <1>1, ZenonT(30) DEF ClobberInv

(* SyncMeta's calls one at a time never have a copy left to write of a     *)
(* block that is free or holds file data: the frees reach the allocator    *)
(* only after the copies reach the device, and what the allocator then     *)
(* hands out is deleted from the map before the next drain copies it.      *)
THEOREM DrainsNeverClobber == OneDrain => (Spec => []DrainNeverClobbers)
<1> SUFFICES ASSUME OneDrain PROVE Spec => []DrainNeverClobbers
  BY ZenonT(30)
<1>1. Init => Good /\ ClobberInv
  BY InitGood, InitClobber, ZenonT(30)
<1>2. Good /\ ClobberInv /\ [Next]_vars => (Good /\ ClobberInv)'
  BY StepGood, StepClobber, ZenonT(60)
<1>3. Good /\ ClobberInv => DrainNeverClobbers
  BY ZenonT(30) DEF ClobberInv, DrainNeverClobbers, Raw, Running
<1> QED
  BY <1>1, <1>2, <1>3, PTL DEF Spec

-----------------------------------------------------------------------------
(* Trie pages read back as written, when only Journal.Sync drains.         *)
SyncOnly == FsyncDrainers = {}

LEMMA SyncOnlyOneDrain ==
  ASSUME SyncOnly
  PROVE  OneDrain /\ Drainers = SyncDrainers
  BY MetaCacheAssumption, ZenonT(30) DEF SyncOnly, OneDrain, Drainers

Doing(b, kind) == \E w \in Writers : Busy(w) /\ op[w].blk = b /\ op[w].kind = kind

(* A page nobody is making reads as written last, and so does the copy of  *)
(* it a directory operation has loaded.                                    *)
PagesRead ==
  \A b \in PoolBlocks : owner[b] = "page" => Doing(b, "page") \/ ReadBlock(b) = latest[b]

PageBufs ==
  \A w \in Writers : Busy(w) /\ op[w].kind = "cached" /\ op[w].blk \in PoolBlocks =>
    /\ op[w].pc = "read" => op[w].blk \notin Deferred
    /\ op[w].pc \in {"journal", "store"} => op[w].buf = latest[op[w].blk]

(* A block a drain has copied and written is on the device as copied,      *)
(* unless the allocator has had it back since.                             *)
PageCopies ==
  \A d \in Drainers : Running(d) => \A b \in DOMAIN drain[d].snap : b \in PoolBlocks =>
    /\ owner[b] = "data" => Doing(b, "fill")
    /\ b \notin drain[d].todo =>
         device[b] = drain[d].snap[b] \/ b \in allocFree \/ Doing(b, "fill") \/ NewPage(b)

PageInv == PagesRead /\ PageBufs /\ PageCopies

(* An operation that moves on is still doing what it did.                  *)
LEMMA StillDoing ==
  ASSUME NEW w \in Writers, NEW n, NEW buf, Busy(w), OpBecomes(w, OpAt(op[w], n, buf))
  PROVE  /\ \A b, k : Doing(b, k)' <=> Doing(b, k)
         /\ op'[w].kind = op[w].kind /\ op'[w].blk = op[w].blk /\ op'[w].slot = op[w].slot
         /\ op'[w].val = op[w].val /\ op'[w].pc = n /\ op'[w].buf = buf /\ Busy(w)'
         /\ \A v \in Writers : v # w => op'[v] = op[v]
<1>1. /\ op'[w].kind = op[w].kind /\ op'[w].blk = op[w].blk /\ op'[w].slot = op[w].slot
      /\ op'[w].val = op[w].val /\ op'[w].pc = n /\ op'[w].buf = buf /\ op'[w] # Idle
      /\ \A v \in Writers : v # w => op'[v] = op[v]
  BY SMTT(60) DEF OpBecomes, OpAt, Idle
<1>2. \A v \in Writers : (op'[v] # Idle <=> op[v] # Idle) /\
        (op[v] # Idle => op'[v].kind = op[v].kind /\ op'[v].blk = op[v].blk)
  BY <1>1, ZenonT(30) DEF Busy
<1>3. \A b, k : Doing(b, k)' <=> Doing(b, k)
  BY <1>2, ZenonT(60) DEF Doing, Busy
<1> QED
  BY <1>1, <1>3, ZenonT(30) DEF Busy

(* What an operation works on is its own.                                  *)
LEMMA OnlyDoing ==
  ASSUME Good, NEW w \in Writers, Busy(w)
  PROVE  \A k : Doing(op[w].blk, k) => op[w].kind = k
  BY GoodParts, ZenonT(30) DEF Doing

LEMMA LoadPages ==
  ASSUME Good, PageInv, NEW w \in Writers, LoadHit(w) \/ ReadDevice(w) \/ LoadMiss(w)
  PROVE  PageInv'
<1>1. /\ UNCHANGED <<device, dirtyBlocks, allocFree, owner, drain, latest>> /\ Busy(w)
      /\ op[w].pc \in {"load", "read"}
  BY SMTT(60) DEF LoadHit, ReadDevice, LoadMiss, At, Idle, Busy
<1>2. PICK n, buf :
        /\ OpBecomes(w, OpAt(op[w], n, buf))
        /\ op[w].kind = "cached" => n \in {"read", "journal"}
        /\ n = "read" => LoadMiss(w)
        /\ n # "read" => buf = (IF LoadHit(w) THEN dirtyBlocks[op[w].blk] ELSE device[op[w].blk])
        /\ n # "read" => LoadHit(w) \/ ReadDevice(w)
  <2>1. CASE LoadHit(w) \/ ReadDevice(w)
    BY <2>1, OpMoves, ZenonT(30)
  <2>2. CASE LoadMiss(w)
    BY <2>2, OpMoves, ZenonT(30)
  <2> QED
    BY <2>1, <2>2, ZenonT(30)
<1>3. /\ \A b, k : Doing(b, k)' <=> Doing(b, k)
      /\ op'[w].kind = op[w].kind /\ op'[w].blk = op[w].blk /\ op'[w].pc = n /\ op'[w].buf = buf
      /\ \A v \in Writers : v # w => op'[v] = op[v]
  BY <1>1, <1>2, StillDoing, ZenonT(60)
<1>4. PagesRead'
  BY <1>1, <1>3, ZenonT(30) DEF PageInv, PagesRead, ReadBlock, Deferred
<1>5. \A b : NewPage(b) => NewPage(b)'
  BY <1>1, <1>3, ZenonT(30) DEF NewPage, Busy
<1>6. PageCopies'
  BY <1>1, <1>3, <1>5, ZenonT(30) DEF PageInv, PageCopies, Running
<1>7. ASSUME op[w].kind = "cached", op[w].blk \in PoolBlocks
      PROVE  /\ n = "read" => op[w].blk \notin Deferred
             /\ n = "journal" => buf = latest[op[w].blk]
  <2>1. n = "read" => op[w].blk \notin Deferred
    BY <1>2, ZenonT(30) DEF LoadMiss
  <2>2. ASSUME n = "journal" PROVE buf = latest[op[w].blk]
    <3>1. owner[op[w].blk] = "page" /\ ~Doing(op[w].blk, "page")
      <4>1. ~Doing(op[w].blk, "page")
        BY <1>1, <1>7, OnlyDoing, ZenonT(30)
      <4>2. KindOK(op[w], owner)
        BY <1>1, GoodParts, ZenonT(30)
      <4> QED
        BY <1>7, <4>1, <4>2, ZenonT(30) DEF KindOK
    <3>2. ReadBlock(op[w].blk) = latest[op[w].blk]
      BY <1>7, <3>1, ZenonT(30) DEF PageInv, PagesRead
    <3>3. buf = ReadBlock(op[w].blk)
      <4>1. CASE LoadHit(w)
        BY <1>2, <2>2, <4>1, ZenonT(30) DEF LoadHit, ReadBlock
      <4>2. CASE ~LoadHit(w)
        <5>1. ReadDevice(w)
          BY <1>2, <2>2, <4>2, ZenonT(30)
        <5>2. op[w].blk \notin Deferred
          BY <1>1, <1>7, <5>1, ZenonT(30) DEF PageInv, PageBufs, ReadDevice, At
        <5> QED
          BY <1>2, <2>2, <4>2, <5>2, ZenonT(30) DEF ReadBlock
      <4> QED
        BY <4>1, <4>2, ZenonT(30)
    <3> QED
      BY <3>2, <3>3, ZenonT(30)
  <2> QED
    BY <2>1, <2>2, ZenonT(30)
<1>8. PageBufs'
  BY <1>1, <1>2, <1>3, <1>7, ZenonT(30) DEF PageInv, PageBufs, Busy, Deferred
<1> QED
  BY <1>4, <1>6, <1>8, ZenonT(30) DEF PageInv

LEMMA JournalPages ==
  ASSUME SyncOnly, Good, PageInv, NEW w \in Writers, JournalRecord(w)
  PROVE  PageInv'
<1>1. /\ UNCHANGED <<device, dirtyBlocks, allocFree, owner, drain, latest>> /\ Busy(w)
      /\ \A d \in Drainers : ~Running(d) /\ op[w].pc = "journal"
  BY SyncOnlyOneDrain, SMTT(60) DEF JournalRecord, At, Idle, Busy, Running
<1>2. PageCopies'
  BY <1>1, ZenonT(30) DEF PageCopies, Running
<1>3. CASE OpBecomes(w, Idle) /\ op[w].kind \in {"data", "fill"}
  <2>1. op'[w] = Idle /\ \A v \in Writers : v # w => op'[v] = op[v]
    BY <1>3, ZenonT(30) DEF OpBecomes
  <2>2. \A b : Doing(b, "page") => Doing(b, "page")'
    BY <1>3, <2>1, ZenonT(30) DEF Doing, Busy
  <2>3. PagesRead'
    BY <1>1, <2>2, ZenonT(30) DEF PageInv, PagesRead, ReadBlock, Deferred
  <2>4. PageBufs'
    BY <1>1, <2>1, ZenonT(30) DEF PageInv, PageBufs, Busy, Deferred
  <2> QED
    BY <1>2, <2>3, <2>4, ZenonT(30) DEF PageInv
<1>4. CASE \E n \in {"load", "store"} :
             OpBecomes(w, OpAt(op[w], n, op[w].buf)) /\ (n = "load" => op[w].kind # "cached")
  <2>1. PICK n \in {"load", "store"} :
          OpBecomes(w, OpAt(op[w], n, op[w].buf)) /\ (n = "load" => op[w].kind # "cached")
    BY <1>4, ZenonT(30)
  <2>2. /\ \A b, k : Doing(b, k)' <=> Doing(b, k)
        /\ op'[w].kind = op[w].kind /\ op'[w].blk = op[w].blk /\ op'[w].pc = n /\ op'[w].buf = op[w].buf
        /\ \A v \in Writers : v # w => op'[v] = op[v]
    BY <1>1, <2>1, StillDoing, ZenonT(60)
  <2>3. PagesRead'
    BY <1>1, <2>2, ZenonT(30) DEF PageInv, PagesRead, ReadBlock, Deferred
  <2>4. op[w].pc = "journal"
    BY ZenonT(30) DEF JournalRecord, At
  <2>5. PageBufs'
    BY <1>1, <2>1, <2>2, <2>4, ZenonT(30) DEF PageInv, PageBufs, Busy, Deferred
  <2> QED
    BY <1>2, <2>3, <2>5, ZenonT(30) DEF PageInv
<1> QED
  BY <1>3, <1>4, OpMoves, ZenonT(30)

LEMMA StorePages ==
  ASSUME Good, PageInv, NEW w \in Writers, StoreBlock(w)
  PROVE  PageInv'
<1> DEFINE o == op[w]
           c == op[w].blk
<1>1. UNCHANGED <<device, allocFree, owner, drain>> /\ Busy(w) /\ o.pc = "store"
  BY SMTT(60) DEF StoreBlock, At, Idle, Busy
<1>2. /\ op'[w] = Idle /\ (\A v \in Writers : v # w => op'[v] = op[v])
      /\ o.kind \in {"owned", "direct", "cached", "create", "page"}
  BY OpMoves, ZenonT(30) DEF OpBecomes
<1>3. /\ Deferred' = Deferred \cup {c} /\ dirtyBlocks'[c] = Patched(o)
      /\ \A b \in Deferred' : b # c => dirtyBlocks'[b] = dirtyBlocks[b]
  BY ZenonT(30) DEF StoreBlock, setDirtyBlock, Deferred
<1>4. /\ c \in Blocks /\ KindOK(o, owner) /\ (\A v \in Writers : Busy(v) /\ op[v].blk = c => v = w)
      /\ latest = [b \in Blocks |-> latest[b]]
  BY <1>1, GoodParts, ZenonT(30) DEF BlocksTyped
<1>5. /\ latest'[c] = (IF o.kind \in {"page", "fill"} THEN Patched(o) ELSE [latest[c] EXCEPT ![o.slot] = o.val])
      /\ \A b \in Blocks : b # c => latest'[b] = latest[b]
  BY <1>4, ZenonT(30) DEF StoreBlock, Written
<1> HIDE DEF c
<1>6. \A b, k : b # c => (Doing(b, k)' <=> Doing(b, k))
  BY <1>2, ZenonT(30) DEF Doing, Busy, c
<1>7. \A b : NewPage(b) => NewPage(b)'
  BY <1>1, <1>2, ZenonT(30) DEF NewPage, Busy
<1>8. \A b : Doing(b, "fill") => Doing(b, "fill")'
  BY <1>2, ZenonT(30) DEF Doing, Busy
<1>9. PageCopies'
  BY <1>1, <1>7, <1>8, ZenonT(30) DEF PageInv, PageCopies, Running
<1>10. ASSUME NEW b \in PoolBlocks, owner'[b] = "page"
       PROVE  Doing(b, "page")' \/ ReadBlock(b)' = latest'[b]
  <2>1. CASE b # c
    <3>1. ReadBlock(b)' = ReadBlock(b) /\ latest'[b] = latest[b]
      BY <1>1, <1>3, <1>5, <2>1, ZenonT(30) DEF ReadBlock, Blocks
    <3> QED
      BY <1>1, <1>6, <1>10, <2>1, <3>1, ZenonT(30) DEF PageInv, PagesRead
  <2>2. CASE b = c
    <3>1. ReadBlock(b)' = Patched(o)
      BY <1>3, <2>2, ZenonT(30) DEF ReadBlock
    <3>2. o.kind \in {"page", "cached"}
      BY <1>2, <1>4, <1>10, <2>2, MetaCacheAssumption, ZenonT(30) DEF KindOK, c
    <3>3. ASSUME o.kind = "cached" PROVE o.buf = latest[c]
      BY <1>1, <1>10, <2>2, <3>3, ZenonT(30) DEF PageInv, PageBufs, c
    <3>4. latest'[c] = Patched(o)
      BY <1>5, <3>2, <3>3, ZenonT(30) DEF Patched
    <3> QED
      BY <2>2, <3>1, <3>4, ZenonT(30)
  <2> QED
    BY <2>1, <2>2, ZenonT(30)
<1>11. PageBufs'
  <2> SUFFICES ASSUME NEW v \in Writers, Busy(v)', op'[v].kind = "cached", op'[v].blk \in PoolBlocks
               PROVE  /\ op'[v].pc = "read" => op'[v].blk \notin Deferred'
                      /\ op'[v].pc \in {"journal", "store"} => op'[v].buf = latest'[op'[v].blk]
    BY ZenonT(30) DEF PageBufs
  <2>1. v # w /\ op'[v] = op[v] /\ Busy(v)
    BY <1>2, ZenonT(30) DEF Busy
  <2>2. op[v].blk # c
    BY <1>4, <2>1, ZenonT(30)
  <2> QED
    BY <1>3, <1>5, <2>1, <2>2, SMTT(60) DEF PageInv, PageBufs, Blocks
<1> QED
  BY <1>9, <1>10, <1>11, ZenonT(30) DEF PageInv, PagesRead

(* A step on an inode-table block, or a write to a block of file data.     *)
LEMMA WritePages ==
  ASSUME Good, PageInv, NEW w \in Writers, WriteBlock(w) \/ ArmSlot(w) \/ PatchDeferred(w)
  PROVE  PageInv'
<1> DEFINE o == op[w]
           c == op[w].blk
<1>1. UNCHANGED <<allocFree, owner, drain>> /\ Busy(w) /\ Deferred' = Deferred
  BY SMTT(60) DEF WriteBlock, ArmSlot, PatchDeferred, At, Idle, Busy, Deferred
<1>2. PICK n : /\ OpBecomes(w, OpAt(op[w], n, op[w].buf)) /\ o.kind \in {"direct", "data", "fill", "create"}
               /\ o.kind \in {"direct", "create"} \/ WriteBlock(w)
  BY OpMoves, ZenonT(30)
<1>3. /\ \A b, k : Doing(b, k)' <=> Doing(b, k)
      /\ op'[w].kind = o.kind /\ op'[w].blk = c /\ op'[w].pc = n /\ op'[w].buf = o.buf
      /\ \A v \in Writers : v # w => op'[v] = op[v]
  BY <1>1, <1>2, StillDoing, ZenonT(60)
<1>4. /\ c \in Blocks /\ KindOK(o, owner) /\ (\A v \in Writers : Busy(v) /\ op[v].blk = c => v = w)
      /\ latest = [b \in Blocks |-> latest[b]] /\ device = [b \in Blocks |-> device[b]]
  BY <1>1, GoodParts, ZenonT(30) DEF BlocksTyped
<1>5. /\ \A b \in Blocks : b # c => device'[b] = device[b] /\ latest'[b] = latest[b]
      /\ \A b \in Deferred : b # c => dirtyBlocks'[b] = dirtyBlocks[b]
  BY <1>4, ZenonT(30) DEF WriteBlock, Written, ArmSlot, PatchDeferred, Deferred
<1>6. c \in PoolBlocks => o.kind \in {"data", "fill"} /\ owner[c] = "data"
  BY <1>2, <1>4, MetaCacheAssumption, ZenonT(30) DEF KindOK
<1> HIDE DEF c
<1>7. \A b : NewPage(b) => NewPage(b)'
  BY <1>1, <1>2, <1>3, ZenonT(30) DEF NewPage, Busy
<1>8. PagesRead'
  <2> SUFFICES ASSUME NEW b \in PoolBlocks, owner'[b] = "page"
               PROVE  Doing(b, "page")' \/ ReadBlock(b)' = latest'[b]
    BY ZenonT(30) DEF PagesRead
  <2>1. b # c /\ b \in Blocks
    BY <1>1, <1>6, ZenonT(30) DEF Blocks
  <2>2. ReadBlock(b)' = ReadBlock(b) /\ latest'[b] = latest[b]
    BY <1>1, <1>5, <2>1, ZenonT(30) DEF ReadBlock
  <2> QED
    BY <1>1, <1>3, <2>2, ZenonT(30) DEF PageInv, PagesRead
<1>9. PageBufs'
  <2> SUFFICES ASSUME NEW v \in Writers, Busy(v)', op'[v].kind = "cached", op'[v].blk \in PoolBlocks
               PROVE  /\ op'[v].pc = "read" => op'[v].blk \notin Deferred'
                      /\ op'[v].pc \in {"journal", "store"} => op'[v].buf = latest'[op'[v].blk]
    BY ZenonT(30) DEF PageBufs
  <2>1. v # w /\ op'[v] = op[v] /\ Busy(v)
    BY <1>2, <1>3, ZenonT(30) DEF Busy
  <2>2. op[v].blk # c
    BY <1>4, <2>1, ZenonT(30)
  <2> QED
    BY <1>1, <1>5, <2>1, <2>2, SMTT(60) DEF PageInv, PageBufs, Blocks
<1>10. PageCopies'
  <2> SUFFICES ASSUME NEW d \in Drainers, Running(d), NEW b \in DOMAIN drain[d].snap, b \in PoolBlocks
               PROVE  /\ owner[b] = "data" => Doing(b, "fill")
                      /\ b \notin drain[d].todo =>
                           \/ device'[b] = drain[d].snap[b] \/ b \in allocFree
                           \/ Doing(b, "fill") \/ NewPage(b)'
    BY <1>1, <1>3, ZenonT(30) DEF PageCopies, Running
  <2>1. /\ owner[b] = "data" => Doing(b, "fill")
        /\ b \notin drain[d].todo =>
             device[b] = drain[d].snap[b] \/ b \in allocFree \/ Doing(b, "fill") \/ NewPage(b)
    BY ZenonT(30) DEF PageInv, PageCopies
  <2>2. b = c => Doing(b, "fill")
    BY <1>6, <2>1, ZenonT(30)
  <2> QED
    BY <1>5, <1>7, <2>1, <2>2, ZenonT(30) DEF Blocks
<1> QED
  BY <1>8, <1>9, <1>10, ZenonT(30) DEF PageInv

LEMMA AbortPages ==
  ASSUME Good, PageInv, NEW w \in Writers, AbortOp(w)
  PROVE  PageInv'
<1> DEFINE o == op[w]
           c == op[w].blk
           back == o.kind = "fill" \/ (o.kind = "page" /\ o.pc = "journal")
<1>1. UNCHANGED <<device, dirtyBlocks, drain, latest>> /\ Busy(w) /\ op' = [op EXCEPT ![w] = Idle]
  BY ZenonT(30) DEF AbortOp, Busy
<1>2. op'[w] = Idle /\ \A v \in Writers : v # w => op'[v] = op[v]
  BY <1>1, ZenonT(30) DEF Good, ConsInv, OpInv
<1>3. /\ c \in Blocks /\ KindOK(o, owner) /\ (\A v \in Writers : Busy(v) /\ op[v].blk = c => v = w)
      /\ owner = [b \in PoolBlocks |-> owner[b]]
  BY <1>1, GoodParts, ZenonT(30) DEF PoolTyped
<1>4. /\ allocFree \subseteq allocFree' /\ (back => c \in allocFree')
      /\ \A b \in PoolBlocks : b # c => owner'[b] = owner[b]
      /\ c \in PoolBlocks => owner'[c] \in {owner[c], "none", "leaked"}
      /\ o.kind \in {"page", "fill"} => c \in PoolBlocks /\ owner'[c] \in {"none", "leaked"}
  <2>1. allocFree \subseteq allocFree' /\ (back => c \in allocFree')
    BY ZenonT(30) DEF AbortOp
  <2>2. \/ owner' = owner /\ o.kind \notin {"page", "fill"}
        \/ owner' = [owner EXCEPT ![c] = "none"]
        \/ owner' = [owner EXCEPT ![c] = "leaked"]
    BY ZenonT(60) DEF AbortOp
  <2>3. o.kind \in {"page", "fill"} => c \in PoolBlocks
    BY <1>3, ZenonT(30) DEF KindOK
  <2> HIDE DEF c, o
  <2> QED
    BY <1>3, <2>1, <2>2, <2>3, ZenonT(30)
<1> HIDE DEF c
<1>5. \A b, k : b # c => (Doing(b, k)' <=> Doing(b, k))
  BY <1>2, ZenonT(30) DEF Doing, Busy, c
<1>6. \A b : b # c => (NewPage(b)' <=> NewPage(b))
  BY <1>2, ZenonT(30) DEF NewPage, Busy, c
<1>7. /\ NewPage(c) => o.kind = "page" /\ o.pc = "journal"
      /\ \A k : Doing(c, k) => o.kind = k
  BY <1>3, ZenonT(30) DEF NewPage, Doing
<1>8. PagesRead'
  <2> SUFFICES ASSUME NEW b \in PoolBlocks, owner'[b] = "page"
               PROVE  Doing(b, "page")' \/ ReadBlock(b) = latest[b]
    BY <1>1, ZenonT(30) DEF PagesRead, ReadBlock, Deferred
  <2> QED
    BY <1>4, <1>5, <1>7, ZenonT(30) DEF PageInv, PagesRead
<1>9. PageBufs'
  BY <1>1, <1>2, ZenonT(30) DEF PageInv, PageBufs, Busy, Deferred
<1>10. PageCopies'
  <2> SUFFICES ASSUME NEW d \in Drainers, Running(d), NEW b \in DOMAIN drain[d].snap, b \in PoolBlocks
               PROVE  /\ owner'[b] = "data" => Doing(b, "fill")'
                      /\ b \notin drain[d].todo =>
                           \/ device[b] = drain[d].snap[b] \/ b \in allocFree'
                           \/ Doing(b, "fill")' \/ NewPage(b)'
    BY <1>1, ZenonT(30) DEF PageCopies, Running
  <2>1. /\ owner[b] = "data" => Doing(b, "fill")
        /\ b \notin drain[d].todo =>
             device[b] = drain[d].snap[b] \/ b \in allocFree \/ Doing(b, "fill") \/ NewPage(b)
    BY ZenonT(30) DEF PageInv, PageCopies
  <2>2. CASE b # c
    BY <1>4, <1>5, <1>6, <2>1, <2>2, ZenonT(30)
  <2>3. CASE b = c
    BY <1>4, <1>7, <2>1, <2>3, ZenonT(30)
  <2> QED
    BY <2>2, <2>3, ZenonT(30)
<1> QED
  BY <1>8, <1>9, <1>10, ZenonT(30) DEF PageInv

LEMMA BeginPages ==
  ASSUME Good, PageInv, NEW w \in Writers, NEW k \in Kinds, NEW b \in Blocks, NEW s, NEW v,
         BeginOp(w, k, b, s, v) \/ AllocBlock(w, k, b, s, v)
  PROVE  PageInv'
<1> DEFINE x == [pc |-> After(k, "begin"), kind |-> k, blk |-> b, slot |-> s, val |-> v,
                 buf |-> [t \in Slots |-> v]]
<1>1. op[w] = Idle /\ op' = [op EXCEPT ![w] = x] /\ UNCHANGED <<drain, dirtyBlocks, device>>
  BY ZenonT(30) DEF BeginOp, AllocBlock
<1>2. x.kind = k /\ x.blk = b /\ x # Idle /\ (k = "cached" => x.pc = "load") /\ (k = "page" => x.pc = "journal")
  BY AfterIs, ZenonT(30) DEF Idle
<1> HIDE DEF x
<1>3. op'[w] = x /\ \A u \in Writers : u # w => op'[u] = op[u]
  BY <1>1, ZenonT(30) DEF Good, ConsInv, OpInv
<1>4. \A c, kind : Doing(c, kind) => Doing(c, kind)'
  BY <1>1, <1>3, ZenonT(30) DEF Doing, Busy
<1>5. \A c : NewPage(c) => NewPage(c)'
  BY <1>1, <1>3, ZenonT(30) DEF NewPage, Busy
<1>6. CASE BeginOp(w, k, b, s, v)
  <2>1. UNCHANGED <<allocFree, owner, latest>>
    BY <1>6, ZenonT(30) DEF BeginOp
  <2>2. PagesRead' /\ PageCopies'
    BY <1>1, <1>4, <1>5, <2>1, ZenonT(30) DEF PageInv, PagesRead, PageCopies, ReadBlock, Deferred, Running
  <2>3. PageBufs'
    BY <1>1, <1>2, <1>3, <2>1, ZenonT(30) DEF PageInv, PageBufs, Deferred, Busy
  <2> QED
    BY <2>2, <2>3, ZenonT(30) DEF PageInv
<1>7. CASE AllocBlock(w, k, b, s, v)
  <2>1. /\ k \in {"page", "fill"} /\ b \in allocFree /\ allocFree' = allocFree \ {b}
        /\ owner' = [owner EXCEPT ![b] = IF k = "page" THEN "page" ELSE "data"]
        /\ latest' = [latest EXCEPT ![b] = [t \in Slots |-> Undef]]
    BY <1>7, ZenonT(30) DEF AllocBlock
  <2>2. /\ b \in PoolBlocks /\ owner[b] = "none" /\ \A u \in Writers : Busy(u) => op[u].blk # b
    BY <2>1, ZenonT(30) DEF Good, ConsInv, PlaceInv, FreesConserved, Owned, Free, OpInv, Busy
  <2>3. /\ owner'[b] = (IF k = "page" THEN "page" ELSE "data")
        /\ \A c \in PoolBlocks : c # b => owner'[c] = owner[c] /\ latest'[c] = latest[c]
    BY <2>1, <2>2, GoodParts, ZenonT(30) DEF PoolTyped, BlocksTyped, Blocks
  <2>4. Doing(b, k)' /\ (k = "page" => NewPage(b)')
    BY <1>2, <1>3, ZenonT(30) DEF Doing, NewPage, Busy
  <2>5. PagesRead'
    BY <1>1, <1>4, <2>1, <2>3, <2>4, SMTT(60) DEF PageInv, PagesRead, ReadBlock, Deferred
  <2>6. PageBufs'
    <3> SUFFICES ASSUME NEW u \in Writers, Busy(u)', op'[u].kind = "cached", op'[u].blk \in PoolBlocks
                 PROVE  /\ op'[u].pc = "read" => op'[u].blk \notin Deferred'
                        /\ op'[u].pc \in {"journal", "store"} => op'[u].buf = latest'[op'[u].blk]
      BY ZenonT(30) DEF PageBufs
    <3>1. u # w /\ op'[u] = op[u] /\ Busy(u) /\ op[u].blk # b
      BY <1>2, <1>3, <2>1, <2>2, ZenonT(30) DEF Busy
    <3>2. Deferred' = Deferred
      BY <1>1, ZenonT(30) DEF Deferred
    <3> QED
      BY <2>3, <3>1, <3>2, ZenonT(30) DEF PageInv, PageBufs
  <2>7. PageCopies'
    <3> SUFFICES ASSUME NEW d \in Drainers, Running(d), NEW c \in DOMAIN drain[d].snap, c \in PoolBlocks
                 PROVE  /\ owner'[c] = "data" => Doing(c, "fill")'
                        /\ c \notin drain[d].todo =>
                             \/ device[c] = drain[d].snap[c] \/ c \in allocFree'
                             \/ Doing(c, "fill")' \/ NewPage(c)'
      BY <1>1, ZenonT(30) DEF PageCopies, Running
    <3>1. /\ owner[c] = "data" => Doing(c, "fill")
          /\ c \notin drain[d].todo =>
               device[c] = drain[d].snap[c] \/ c \in allocFree \/ Doing(c, "fill") \/ NewPage(c)
      BY ZenonT(30) DEF PageInv, PageCopies
    <3> QED
      BY <1>4, <1>5, <2>1, <2>3, <2>4, <3>1, ZenonT(30)
  <2> QED
    BY <2>5, <2>6, <2>7, ZenonT(30) DEF PageInv
<1> QED
  BY <1>6, <1>7, ZenonT(30)

LEMMA FreePages ==
  ASSUME Good, PageInv, NEW b \in PoolBlocks, deferBlockFree(b) \/ freeBlockNow(b)
  PROVE  PageInv'
<1>1. /\ UNCHANGED <<op, drain, device, latest>> /\ owner' = [owner EXCEPT ![b] = "none"]
      /\ allocFree \subseteq allocFree' /\ Deferred' \subseteq Deferred
      /\ \A c \in Deferred : c # b => c \in Deferred' /\ dirtyBlocks'[c] = dirtyBlocks[c]
  BY ZenonT(30) DEF deferBlockFree, freeBlockNow, Deferred
<1>2. owner'[b] = "none" /\ \A c \in PoolBlocks : c # b => owner'[c] = owner[c]
  BY <1>1, GoodParts, ZenonT(30) DEF PoolTyped
<1>3. (\A c, k : Doing(c, k)' <=> Doing(c, k)) /\ (\A c : NewPage(c)' <=> NewPage(c))
  BY <1>1, ZenonT(30) DEF Doing, NewPage, Busy
<1>4. PagesRead'
  BY <1>1, <1>2, <1>3, ZenonT(30) DEF PageInv, PagesRead, ReadBlock
<1>5. PageBufs'
  BY <1>1, ZenonT(30) DEF PageInv, PageBufs, Busy
<1>6. PageCopies'
  BY <1>1, <1>2, <1>3, ZenonT(30) DEF PageInv, PageCopies, Running
<1> QED
  BY <1>4, <1>5, <1>6, ZenonT(30) DEF PageInv

LEMMA DrainPages ==
  ASSUME OneDrain, Good, ClobberInv, PageInv, NEW d \in Drainers, DrainBegin(d) \/ DrainStep(d)
  PROVE  PageInv'
<1>1. UNCHANGED <<owner, op, latest>> /\ (\A e \in Drainers : e = d) /\ allocFree \subseteq allocFree'
  BY ZenonT(30) DEF OneDrain, DrainBegin, DrainStep, DrainWrite, DrainWriteFails, DrainFree, DrainDelete
<1>2. (\A c, k : Doing(c, k)' <=> Doing(c, k)) /\ (\A c : NewPage(c)' <=> NewPage(c))
  BY <1>1, ZenonT(30) DEF Doing, NewPage, Busy
<1>3. ASSUME Deferred' \subseteq Deferred PROVE PageBufs'
  BY <1>1, <1>3, ZenonT(30) DEF PageInv, PageBufs, Busy
<1>4. ASSUME NEW n, NEW snap, NEW todo, NEW frees, DrainBecomes(d, DrainAt(n, snap, todo, frees))
      PROVE  drain'[d].snap = snap /\ drain'[d].todo = todo
  BY <1>4, SMTT(60) DEF DrainBecomes, DrainAt
<1>5. ASSUME DrainBecomes(d, Rest) PROVE PageCopies'
  BY <1>1, <1>5, ZenonT(30) DEF PageCopies, DrainBecomes, Running
<1>6. ASSUME UNCHANGED <<device, dirtyBlocks>> PROVE PagesRead' /\ PageBufs'
  <2>1. PagesRead'
    BY <1>1, <1>2, <1>6, ZenonT(30) DEF PageInv, PagesRead, ReadBlock, Deferred
  <2> QED
    BY <1>3, <1>6, <2>1, ZenonT(30) DEF Deferred
<1>7. CASE DrainBegin(d)
  <2>1. ~Running(d) /\ DrainBecomes(d, DrainAt("write", dirtyBlocks, Deferred, pendingFrees))
    BY <1>7, DrainMoves, ZenonT(60)
  <2>2. drain'[d].snap = dirtyBlocks /\ drain'[d].todo = Deferred
    BY <1>4, <2>1, ZenonT(60)
  <2>3. UNCHANGED <<device, dirtyBlocks>>
    BY <1>7, ZenonT(30) DEF DrainBegin
  <2>4. \A b \in PoolBlocks : b \in Deferred => owner[b] # "data"
    BY <1>1, <2>1, ZenonT(30) DEF ClobberInv, Raw, Stale
  <2>5. PageCopies'
    BY <1>1, <2>2, <2>4, ZenonT(30) DEF PageCopies, Deferred
  <2> QED
    BY <1>6, <2>3, <2>5, ZenonT(30) DEF PageInv
<1>8. ASSUME NEW b \in Blocks, DrainWrite(d, b) PROVE PageInv'
  <2>1. /\ Running(d)
        /\ DrainBecomes(d, DrainAt("write", drain[d].snap, drain[d].todo \ {b}, drain[d].frees))
    BY <1>8, DrainMoves, ZenonT(60)
  <2>2. drain'[d].snap = drain[d].snap /\ drain'[d].todo = drain[d].todo \ {b}
    BY <1>4, <2>1, ZenonT(60)
  <2>3. /\ UNCHANGED <<dirtyBlocks, allocFree>> /\ b \in drain[d].todo
        /\ device' = [device EXCEPT ![b] = drain[d].snap[b]]
    BY <1>8, ZenonT(30) DEF DrainWrite
  <2>4. device'[b] = drain[d].snap[b] /\ \A c \in Blocks : c # b => device'[c] = device[c]
    BY <2>3, GoodParts, ZenonT(30) DEF BlocksTyped
  <2>5. b \in Deferred /\ Deferred' = Deferred
    BY <2>1, <2>3, ZenonT(30) DEF ClobberInv, Deferred
  <2>6. PagesRead'
    <3>1. \A c \in PoolBlocks : ReadBlock(c)' = ReadBlock(c)
      BY <2>3, <2>4, <2>5, ZenonT(30) DEF ReadBlock, Blocks
    <3> QED
      BY <1>1, <1>2, <3>1, ZenonT(30) DEF PageInv, PagesRead
  <2>7. PageCopies'
    BY <1>1, <1>2, <2>1, <2>2, <2>3, <2>4, ZenonT(30) DEF PageInv, PageCopies, Running, Blocks
  <2> QED
    BY <1>3, <2>5, <2>6, <2>7, ZenonT(30) DEF PageInv
<1>9. CASE DrainWriteFails(d)
  <2>1. DrainBecomes(d, Rest)
    BY <1>9, DrainMoves, ZenonT(60)
  <2>2. UNCHANGED <<device, dirtyBlocks>>
    BY <1>9, ZenonT(30) DEF DrainWriteFails
  <2> QED
    BY <1>5, <1>6, <2>1, <2>2, ZenonT(30) DEF PageInv
<1>10. CASE DrainFree(d)
  <2>1. Running(d) /\ DrainBecomes(d, DrainAt("delete", drain[d].snap, drain[d].todo, {}))
    BY <1>10, DrainMoves, ZenonT(60)
  <2>2. drain'[d].snap = drain[d].snap /\ drain'[d].todo = drain[d].todo
    BY <1>4, <2>1, ZenonT(60)
  <2>3. UNCHANGED <<device, dirtyBlocks>>
    BY <1>10, ZenonT(30) DEF DrainFree
  <2>4. PageCopies'
    BY <1>1, <1>2, <2>1, <2>2, <2>3, ZenonT(30) DEF PageInv, PageCopies, Running
  <2> QED
    BY <1>6, <2>3, <2>4, ZenonT(30) DEF PageInv
<1>11. CASE DrainDelete(d)
  <2>1. Running(d) /\ DrainBecomes(d, Rest)
    BY <1>11, DrainMoves, ZenonT(60)
  <2>2. /\ UNCHANGED <<device, allocFree>> /\ drain[d].pc = "delete"
        /\ Deferred' = {b \in Deferred : ~Same(d, b)}
        /\ \A b \in Deferred' : dirtyBlocks'[b] = dirtyBlocks[b]
    BY <1>11, ZenonT(30) DEF DrainDelete, Deferred, Same
  <2>3. drain[d].todo = {}
    BY <2>1, <2>2, ZenonT(30) DEF ClobberInv
  <2>4. PagesRead'
    <3> SUFFICES ASSUME NEW b \in PoolBlocks, owner[b] = "page", ~Doing(b, "page")
                 PROVE  ReadBlock(b)' = latest[b]
      BY <1>1, <1>2, ZenonT(30) DEF PagesRead
    <3>1. ReadBlock(b) = latest[b]
      BY ZenonT(30) DEF PageInv, PagesRead
    <3>2. CASE b \in Deferred /\ Same(d, b)
      <4>1. b \notin allocFree
        BY ZenonT(30) DEF Good, ConsInv, PlaceInv, FreesConserved, Owned, Free
      <4>2. ~NewPage(b)
        BY ZenonT(30) DEF Doing, NewPage
      <4>3. ~Doing(b, "fill")
        BY GoodParts, ZenonT(30) DEF Doing, KindOK
      <4>4. device[b] = drain[d].snap[b]
        BY <2>1, <2>3, <3>2, <4>1, <4>2, <4>3, ZenonT(30) DEF PageInv, PageCopies, Same
      <4> QED
        BY <2>2, <3>1, <3>2, <4>4, ZenonT(30) DEF ReadBlock, Same
    <3>3. CASE ~(b \in Deferred /\ Same(d, b))
      BY <2>2, <3>1, <3>3, ZenonT(30) DEF ReadBlock
    <3> QED
      BY <3>2, <3>3, ZenonT(30)
  <2> QED
    BY <1>3, <1>5, <2>1, <2>2, <2>4, ZenonT(30) DEF PageInv
<1> QED
  BY <1>7, <1>8, <1>9, <1>10, <1>11, ZenonT(30) DEF DrainStep

LEMMA StepPages ==
  ASSUME SyncOnly
  PROVE  Good /\ ClobberInv /\ PageInv /\ [Next]_vars => PageInv'
<1> SUFFICES ASSUME Good, ClobberInv, PageInv, [Next]_vars PROVE PageInv'
  BY ZenonT(30)
<1>0. OneDrain
  BY SyncOnlyOneDrain, ZenonT(30)
<1>1. CASE UNCHANGED vars
  <2>1. /\ device' = device /\ dirtyBlocks' = dirtyBlocks /\ op' = op /\ drain' = drain /\ latest' = latest
        /\ owner' = owner /\ allocFree' = allocFree
    BY <1>1, ZenonT(30) DEF vars
  <2>2. /\ \A b \in PoolBlocks : ReadBlock(b)' = ReadBlock(b)
        /\ \A b, k : Doing(b, k)' <=> Doing(b, k)
        /\ \A b : NewPage(b)' <=> NewPage(b)
        /\ \A d \in Drainers : Running(d)' <=> Running(d)
    BY <2>1, ZenonT(30) DEF ReadBlock, Deferred, Doing, NewPage, Running, Busy
  <2>3. PagesRead'
    BY <2>1, <2>2, ZenonT(30) DEF PageInv, PagesRead
  <2>4. PageBufs'
    BY <2>1, ZenonT(30) DEF PageInv, PageBufs, Deferred, Busy
  <2>5. PageCopies'
    BY <2>1, <2>2, ZenonT(30) DEF PageInv, PageCopies
  <2> QED
    BY <2>3, <2>4, <2>5, ZenonT(30) DEF PageInv
<1>2. ASSUME NEW w \in Writers, OpStep(w) PROVE PageInv'
  BY <1>2, LoadPages, JournalPages, StorePages, WritePages, AbortPages, ZenonT(60) DEF OpStep
<1>3. ASSUME NEW w \in Writers, NEW k \in Kinds, NEW b \in Blocks, NEW s \in Slots, NEW v \in Values,
             BeginOp(w, k, b, s, v) \/ AllocBlock(w, k, b, s, v)
      PROVE  PageInv'
  BY <1>3, BeginPages, ZenonT(30)
<1>4. ASSUME NEW b \in PoolBlocks, deferBlockFree(b) \/ freeBlockNow(b) PROVE PageInv'
  BY <1>4, FreePages, ZenonT(30)
<1>5. ASSUME NEW d \in Drainers, DrainBegin(d) \/ DrainStep(d) PROVE PageInv'
  BY <1>0, <1>5, DrainPages, ZenonT(30)
<1> QED
  BY <1>1, <1>2, <1>3, <1>4, <1>5, ZenonT(60) DEF Next

LEMMA InitPages == Init => PageInv
<1> SUFFICES ASSUME Init PROVE PageInv
  BY ZenonT(30)
<1>1. (\A d \in Drainers : ~Running(d)) /\ (\A w \in Writers : ~Busy(w)) /\ \A b \in PoolBlocks : owner[b] = "none"
  BY ZenonT(30) DEF Init, Running, Busy
<1> QED
  BY <1>1, ZenonT(30) DEF PageInv, PagesRead, PageBufs, PageCopies

(* A trie page that no operation has locked reads as it was last written,  *)
(* through the map or from the device, at every moment of a SyncMeta and   *)
(* of the reuse of freed blocks, as long as only Journal.Sync drains: it   *)
(* holds j.mu, so no record, and with it no store, of a reused block can   *)
(* come between a drain's copy and its compare-and-delete.                 *)
THEOREM PagesStayCoherent == SyncOnly => (Spec => []PagesCoherent)
<1> SUFFICES ASSUME SyncOnly PROVE Spec => []PagesCoherent
  BY ZenonT(30)
<1>1. Init => Good /\ ClobberInv /\ PageInv
  BY InitGood, InitClobber, InitPages, ZenonT(30)
<1>2. Good /\ ClobberInv /\ PageInv /\ [Next]_vars => (Good /\ ClobberInv /\ PageInv)'
  BY SyncOnlyOneDrain, StepGood, StepClobber, StepPages, ZenonT(60)
<1>3. PageInv => PagesCoherent
  BY ZenonT(30) DEF PageInv, PagesRead, PagesCoherent, Locked, Doing, Busy
<1> QED
  BY <1>1, <1>2, <1>3, PTL DEF Spec

-----------------------------------------------------------------------------
(* Inode slots read back as written, when SyncMeta calls do not overlap.   *)

(* An operation that has merged or armed its slot in the map, one that has *)
(* armed it on the device, and one whose copy of the block counts.         *)
Merged(o) == o.kind = "create" /\ o.pc \in {"journal", "store"}
Armed(o)  == o.kind = "create" /\ o.pc \in {"patch", "journal", "store"}
HasBuf(o) == o.pc \notin {"load", "read"} /\ ~(o.kind \in {"owned", "direct"} /\ o.pc = "journal")

SlotReads(b) == \A s \in Slots : Unsettled(b, s) \/ ReadBlock(b)[s] = latest[b][s]

(* A slot a drain has copied and written is on the device as copied, or    *)
(* the map differs from the copy by now, or nobody vouches for the slot.   *)
SlotCopies(b) ==
  \A d \in Drainers : Running(d) /\ b \in DOMAIN drain[d].snap /\ b \notin drain[d].todo =>
    \A s \in Slots : \/ device[b][s] = drain[d].snap[b][s]
                     \/ dirtyBlocks[b][s] # drain[d].snap[b][s]
                     \/ Unsettled(b, s)

(* The copy an operation works on holds what was written last, and the     *)
(* inode it is going to store is in no older copy of its slot.             *)
SlotBuf(o) ==
  /\ o.pc = "read" => o.blk \notin Deferred
  /\ HasBuf(o) => \A s \in Slots : (NoInode(latest[o.blk][s]) \/ latest[o.blk][s] = o.buf[s])
  /\ Armed(o) => latest[o.blk][o.slot] = Undef
  /\ ~Merged(o) /\ o.val # Zero /\ o.blk \in Deferred => dirtyBlocks[o.blk][o.slot] # o.val

SlotSnap(o) ==
  \A d \in Drainers : Running(d) /\ o.blk \in DOMAIN drain[d].snap =>
    \/ o.val = Zero \/ drain[d].snap[o.blk][o.slot] # o.val
    \/ Merged(o) /\ (o.blk \in drain[d].todo \/ device[o.blk][o.slot] = o.val)

SlotInv ==
  /\ \A b \in InodeBlocks : SlotReads(b) /\ SlotCopies(b)
  /\ \A w \in Writers : Busy(w) /\ op[w].blk \in InodeBlocks => SlotBuf(op[w]) /\ SlotSnap(op[w])

(* A step of the operation w on the block c: the other operations, the     *)
(* drains and the other inode blocks stay as they are.                     *)
OnBlock(w, c) ==
  /\ UNCHANGED drain
  /\ \A u \in Writers : u # w => op'[u] = op[u]
  /\ \A u \in Writers : u # w /\ Busy(u) => op[u].blk # c
  /\ op[w] = Idle \/ op[w].blk = c
  /\ op'[w] = Idle \/ op'[w].blk = c
  /\ \A b \in InodeBlocks : b # c =>
       /\ device'[b] = device[b] /\ latest'[b] = latest[b]
       /\ (b \in Deferred' <=> b \in Deferred) /\ (b \in Deferred => dirtyBlocks'[b] = dirtyBlocks[b])

LEMMA SlotsLocal ==
  ASSUME ClobberInv, SlotInv, NEW w \in Writers, NEW c, OnBlock(w, c),
         c \in InodeBlocks =>
           SlotReads(c)' /\ SlotCopies(c)' /\ (op'[w] # Idle => SlotBuf(op[w])' /\ SlotSnap(op[w])')
  PROVE  SlotInv'
<1> USE DEF OnBlock
<1>1. ASSUME NEW b \in InodeBlocks, b # c PROVE SlotReads(b)' /\ SlotCopies(b)'
  <2>1. \A s : Unsettled(b, s)' <=> Unsettled(b, s)
    BY <1>1, SMTT(60) DEF Unsettled, At, Busy, Idle
  <2>2. SlotReads(b) /\ SlotCopies(b)
    BY ZenonT(30) DEF SlotInv
  <2>3. ReadBlock(b)' = ReadBlock(b)
    BY <1>1, ZenonT(30) DEF ReadBlock
  <2>4. SlotReads(b)'
    BY <1>1, <2>1, <2>2, <2>3, ZenonT(30) DEF SlotReads
  <2>5. SlotCopies(b)'
    BY <1>1, <2>1, <2>2, SMTT(60) DEF SlotCopies, Running, ClobberInv
  <2> QED
    BY <2>4, <2>5, ZenonT(30)
<1>2. ASSUME NEW u \in Writers, u # w, Busy(u)', op'[u].blk \in InodeBlocks
      PROVE  SlotBuf(op[u])' /\ SlotSnap(op[u])'
  <2>1. op'[u] = op[u] /\ Busy(u) /\ op[u].blk # c
    BY <1>2, ZenonT(30) DEF Busy
  <2>2. SlotBuf(op[u]) /\ SlotSnap(op[u])
    BY <1>2, <2>1, ZenonT(30) DEF SlotInv
  <2>3. PICK k \in InodeBlocks : k = op[u].blk
    BY <1>2, <2>1, ZenonT(30)
  <2>4. SlotBuf(op[u])'
    <3>1. /\ latest'[k] = latest[k] /\ (k \in Deferred' <=> k \in Deferred)
          /\ (k \in Deferred => dirtyBlocks'[k] = dirtyBlocks[k])
      BY <2>1, <2>3, ZenonT(30)
    <3>2. HasBuf(op[u])' => \A s \in Slots : NoInode(latest'[k][s]) \/ latest'[k][s] = op'[u].buf[s]
      BY <2>1, <2>2, <2>3, <3>1, ZenonT(30) DEF SlotBuf, HasBuf
    <3>3. Armed(op[u])' => latest'[k][op'[u].slot] = Undef
      BY <2>1, <2>2, <2>3, <3>1, ZenonT(30) DEF SlotBuf, Armed
    <3> QED
      BY <2>1, <2>2, <2>3, <3>1, <3>2, <3>3, ZenonT(30) DEF SlotBuf, Merged, NoInode
  <2>5. SlotSnap(op[u])'
    BY <2>1, <2>2, <2>3, ZenonT(30) DEF SlotSnap, Merged, Running
  <2> QED
    BY <2>4, <2>5, ZenonT(30)
<1> QED
  BY <1>1, <1>2, ZenonT(30) DEF SlotInv, Busy

(* Of the slots of an operation's block, only its own can be unsettled by  *)
(* that operation.                                                         *)
LEMMA UnsettledBy ==
  ASSUME Good, NEW w \in Writers, Busy(w), NEW c, c = op[w].blk
  PROVE  \A s : Unsettled(c, s) <=>
           \/ NoInode(latest[c][s])
           \/ op[w].kind = "direct" /\ op[w].pc = "store" /\ op[w].slot = s
  BY GoodParts, SMTT(60) DEF Unsettled, At, Busy, Idle

(* The same after a step that leaves the other operations alone.           *)
LEMMA UnsettledNext ==
  ASSUME NEW w \in Writers, NEW c, OnBlock(w, c)
  PROVE  \A s : Unsettled(c, s)' <=>
           \/ NoInode(latest'[c][s])
           \/ op'[w] # Idle /\ op'[w].kind = "direct" /\ op'[w].pc = "store" /\ op'[w].slot = s
  BY SMTT(60) DEF OnBlock, Unsettled, At, Busy, Idle

LEMMA BeginSlots ==
  ASSUME Good, ClobberInv, SlotInv, NEW w \in Writers, NEW k \in Kinds, NEW b \in Blocks, NEW s \in Slots, NEW v \in Values,
         BeginOp(w, k, b, s, v) \/ AllocBlock(w, k, b, s, v)
  PROVE  SlotInv'
<1> DEFINE x == [pc |-> After(k, "begin"), kind |-> k, blk |-> b, slot |-> s, val |-> v,
                 buf |-> [t \in Slots |-> v]]
<1>1. op[w] = Idle /\ op' = [op EXCEPT ![w] = x] /\ UNCHANGED <<drain, dirtyBlocks, device>>
  BY ZenonT(30) DEF BeginOp, AllocBlock
<1>2. /\ x.kind = k /\ x.blk = b /\ x.slot = s /\ x.val = v /\ x # Idle
      /\ k \in {"owned", "direct"} => x.pc = "journal"
      /\ k \in {"cached", "create"} => x.pc = "load"
  BY AfterIs, ZenonT(30) DEF Idle
<1> HIDE DEF x
<1>3. op'[w] = x /\ \A u \in Writers : u # w => op'[u] = op[u]
  BY <1>1, ZenonT(30) DEF Good, ConsInv, OpInv
<1>4. \A u \in Writers : u # w /\ Busy(u) => op[u].blk # b
  <2>1. CASE BeginOp(w, k, b, s, v)
    BY <2>1, ZenonT(30) DEF BeginOp, Locked, Busy
  <2>2. CASE AllocBlock(w, k, b, s, v)
    BY <2>2, SMTT(60) DEF AllocBlock, Good, ConsInv, PlaceInv, FreesConserved, Owned, Free, OpInv, Busy
  <2> QED
    BY <2>1, <2>2, ZenonT(30)
<1>5. \A c \in InodeBlocks : latest'[c] = latest[c]
  <2>1. CASE BeginOp(w, k, b, s, v)
    BY <2>1, ZenonT(30) DEF BeginOp
  <2>2. CASE AllocBlock(w, k, b, s, v)
    <3>1. b \in PoolBlocks /\ latest' = [latest EXCEPT ![b] = [t \in Slots |-> Undef]]
      BY <2>2, GoodParts, ZenonT(30) DEF AllocBlock, PoolTyped
    <3> QED
      BY <3>1, GoodParts, MetaCacheAssumption, ZenonT(30) DEF BlocksTyped, Blocks
  <2> QED
    BY <2>1, <2>2, ZenonT(30)
<1>6. ASSUME b \in InodeBlocks
      PROVE  /\ SlotReads(b)' /\ SlotCopies(b)' /\ SlotBuf(op[w])' /\ SlotSnap(op[w])'
  <2>1. /\ BeginOp(w, k, b, s, v) /\ k \in {"owned", "direct", "cached", "create"}
        /\ v = Zero \/ Fresh(b, s, v)
    BY <1>6, GoodParts, MetaCacheAssumption, ZenonT(30) DEF BeginOp, AllocBlock, MayChange, SlotChange, PoolTyped
  <2>2. \A t : Unsettled(b, t)' <=> Unsettled(b, t)
    BY <1>2, <1>3, <1>4, <1>5, <1>6, <2>1, <1>1, SMTT(60) DEF Unsettled, At, Busy, Idle
  <2>3. SlotReads(b) /\ SlotCopies(b)
    BY <1>6, ZenonT(30) DEF SlotInv
  <2>4. SlotReads(b)' /\ SlotCopies(b)'
    BY <1>1, <1>5, <1>6, <2>2, <2>3, ZenonT(30) DEF SlotReads, SlotCopies, ReadBlock, Deferred, Running
  <2>5. SlotBuf(op[w])'
    BY <1>1, <1>2, <1>3, <2>1, ZenonT(30) DEF SlotBuf, HasBuf, Armed, Merged, Fresh, ReadBlock, Deferred
  <2>6. SlotSnap(op[w])'
    BY <1>1, <1>2, <1>3, <2>1, ZenonT(30) DEF SlotSnap, Fresh, Running
  <2> QED
    BY <2>4, <2>5, <2>6, ZenonT(30)
<1>7. OnBlock(w, b)
  BY <1>1, <1>2, <1>3, <1>4, <1>5, ZenonT(30) DEF OnBlock, Deferred
<1> QED
  BY <1>6, <1>7, SlotsLocal, ZenonT(60)

LEMMA OpOnBlock ==
  ASSUME Good, NEW w \in Writers, OpStep(w), NEW c, c = op[w].blk
  PROVE  OnBlock(w, c) /\ Busy(w)
<1>1. Busy(w) /\ UNCHANGED drain
  BY SMTT(60) DEF OpStep, LoadHit, LoadMiss, ReadDevice, JournalRecord, StoreBlock, WriteBlock, ArmSlot,
         PatchDeferred, AbortOp, At, Busy, Idle
<1>2. /\ \A u \in Writers : u # w => op'[u] = op[u]
      /\ op'[w] = Idle \/ op'[w].blk = c
  <2>1. CASE AbortOp(w)
    BY <2>1, ZenonT(30) DEF AbortOp, Good, ConsInv, OpInv
  <2>2. CASE ~AbortOp(w)
    <3>1. OpBecomes(w, Idle) \/ \E n, buf : OpBecomes(w, OpAt(op[w], n, buf))
      BY <2>2, OpMoves, ZenonT(60) DEF OpStep
    <3>2. ASSUME NEW n, NEW buf, OpBecomes(w, OpAt(op[w], n, buf))
          PROVE  (\A u \in Writers : u # w => op'[u] = op[u]) /\ op'[w].blk = c
      BY <3>2, SMTT(60) DEF OpBecomes, OpAt
    <3>3. OpBecomes(w, Idle) => (\A u \in Writers : u # w => op'[u] = op[u]) /\ op'[w] = Idle
      BY ZenonT(30) DEF OpBecomes
    <3> QED
      BY <3>1, <3>2, <3>3, ZenonT(60)
  <2> QED
    BY <2>1, <2>2, ZenonT(30)
<1>3. \A u \in Writers : u # w /\ Busy(u) => op[u].blk # c
  BY <1>1, GoodParts, ZenonT(30)
<1>4. ASSUME NEW b \in InodeBlocks, b # c
      PROVE  /\ device'[b] = device[b] /\ latest'[b] = latest[b]
             /\ (b \in Deferred' <=> b \in Deferred) /\ (b \in Deferred => dirtyBlocks'[b] = dirtyBlocks[b])
  <2>1. BlocksTyped /\ b \in Blocks /\ c \in Blocks
    BY <1>1, GoodParts, ZenonT(30) DEF Blocks
  <2>2. CASE StoreBlock(w)
    <3>1. /\ Deferred' = Deferred \cup {c}
          /\ \A k \in Deferred' : k # c => dirtyBlocks'[k] = dirtyBlocks[k]
      BY <2>2, ZenonT(30) DEF StoreBlock, setDirtyBlock, Deferred
    <3>2. device' = device /\ latest'[b] = latest[b]
      BY <2>1, <2>2, <1>4, ZenonT(30) DEF StoreBlock, Written, BlocksTyped
    <3> QED
      BY <1>4, <3>1, <3>2, ZenonT(30)
  <2>3. CASE PatchDeferred(w)
    BY <1>4, <2>3, ZenonT(30) DEF PatchDeferred, Deferred
  <2>4. CASE WriteBlock(w)
    BY <1>4, <2>1, <2>4, ZenonT(30) DEF WriteBlock, Written, Deferred, BlocksTyped
  <2>5. CASE ArmSlot(w)
    BY <1>4, <2>1, <2>5, ZenonT(30) DEF ArmSlot, Deferred, BlocksTyped
  <2>6. CASE LoadHit(w) \/ LoadMiss(w) \/ ReadDevice(w) \/ JournalRecord(w) \/ AbortOp(w)
    BY <2>6, ZenonT(30) DEF LoadHit, LoadMiss, ReadDevice, JournalRecord, AbortOp, Deferred
  <2> QED
    BY <2>2, <2>3, <2>4, <2>5, <2>6, ZenonT(30) DEF OpStep
<1> QED
  BY <1>1, <1>2, <1>3, <1>4, ZenonT(30) DEF OnBlock

(* What an operation on an inode block knows of its block and slot.        *)
LEMMA SlotOp ==
  ASSUME Good, SlotInv, NEW w \in Writers, Busy(w), op[w].blk \in InodeBlocks
  PROVE  /\ SlotReads(op[w].blk) /\ SlotCopies(op[w].blk) /\ SlotBuf(op[w]) /\ SlotSnap(op[w])
         /\ op[w].kind \in {"owned", "direct", "cached", "create"}
  BY GoodParts, MetaCacheAssumption, ZenonT(30) DEF SlotInv, KindOK, Kinds

LEMMA LoadSlots ==
  ASSUME Good, SlotInv, NEW w \in Writers, LoadHit(w) \/ ReadDevice(w) \/ LoadMiss(w),
         NEW c \in InodeBlocks, c = op[w].blk
  PROVE  SlotReads(c)' /\ SlotCopies(c)' /\ (op'[w] # Idle => SlotBuf(op[w])' /\ SlotSnap(op[w])')
<1> DEFINE o == op[w]
<1>0. OnBlock(w, c) /\ Busy(w)
  BY OpOnBlock, ZenonT(60) DEF OpStep
<1>1. /\ UNCHANGED <<device, dirtyBlocks, drain, latest>> /\ Busy(w)
      /\ o.pc \in {"load", "read"} /\ OnBlock(w, c)
  BY <1>0, ZenonT(30) DEF LoadHit, ReadDevice, LoadMiss, At
<1>2. SlotReads(c) /\ SlotCopies(c) /\ SlotBuf(o) /\ SlotSnap(o)
  BY <1>1, SlotOp, ZenonT(30)
<1>3. PICK n, buf :
        /\ OpBecomes(w, OpAt(op[w], n, buf))
        /\ n \in {"read", "store", "write", "journal", "arm"}
        /\ n = "store" => o.kind = "owned"
        /\ n = "journal" => o.kind = "cached"
        /\ n = "read" => LoadMiss(w)
        /\ n # "read" => buf = (IF LoadHit(w) THEN dirtyBlocks[c] ELSE device[c])
        /\ n # "read" => LoadHit(w) \/ ReadDevice(w)
  <2>1. CASE LoadHit(w) \/ ReadDevice(w)
    BY <2>1, OpMoves, ZenonT(30)
  <2>2. CASE LoadMiss(w)
    BY <2>2, OpMoves, ZenonT(30)
  <2> QED
    BY <2>1, <2>2, ZenonT(30)
<1>4. /\ op'[w].kind = o.kind /\ op'[w].blk = c /\ op'[w].slot = o.slot /\ op'[w].val = o.val
      /\ op'[w].pc = n /\ op'[w].buf = buf
  BY <1>1, <1>3, StillDoing, ZenonT(60)
<1>5. \A s : (Unsettled(c, s)' <=> NoInode(latest[c][s])) /\ (Unsettled(c, s) <=> NoInode(latest[c][s]))
  BY <1>1, <1>3, <1>4, UnsettledBy, UnsettledNext, SMTT(60)
<1>6. SlotReads(c)' /\ SlotCopies(c)'
  BY <1>1, <1>2, <1>5, ZenonT(30) DEF SlotReads, SlotCopies, ReadBlock, Deferred, Running
<1>7. ASSUME n # "read" PROVE buf = ReadBlock(c)
  <2>1. CASE LoadHit(w)
    BY <1>3, <1>7, <2>1, ZenonT(30) DEF LoadHit, ReadBlock
  <2>2. CASE ~LoadHit(w)
    BY <1>2, <1>3, <1>7, <2>2, ZenonT(30) DEF ReadDevice, At, SlotBuf, ReadBlock
  <2> QED
    BY <2>1, <2>2, ZenonT(30)
<1>8. ~Merged(o) /\ ~Merged(op[w])' /\ ~Armed(op[w])'
  BY <1>1, <1>3, <1>4, ZenonT(30) DEF Merged, Armed
<1>9. SlotBuf(op[w])'
  <2>1. n = "read" => c \notin Deferred
    BY <1>3, ZenonT(30) DEF LoadMiss
  <2>2. n # "read" => \A s \in Slots : (NoInode(latest[c][s]) \/ latest[c][s] = buf[s])
    BY <1>2, <1>5, <1>7, ZenonT(30) DEF SlotReads
  <2> QED
    BY <1>1, <1>2, <1>4, <1>8, <2>1, <2>2, ZenonT(30) DEF SlotBuf, HasBuf, Deferred
<1>10. SlotSnap(op[w])'
  BY <1>1, <1>2, <1>4, <1>8, ZenonT(30) DEF SlotSnap, Running
<1> QED
  BY <1>6, <1>9, <1>10, ZenonT(30)

LEMMA JournalSlots ==
  ASSUME Good, SlotInv, NEW w \in Writers, JournalRecord(w), NEW c \in InodeBlocks, c = op[w].blk
  PROVE  SlotReads(c)' /\ SlotCopies(c)' /\ (op'[w] # Idle => SlotBuf(op[w])' /\ SlotSnap(op[w])')
<1> DEFINE o == op[w]
<1>0. OnBlock(w, c) /\ Busy(w)
  BY OpOnBlock, ZenonT(60) DEF OpStep
<1>1. /\ UNCHANGED <<device, dirtyBlocks, drain, latest>> /\ Busy(w)
      /\ o.pc = "journal" /\ OnBlock(w, c)
  BY <1>0, ZenonT(30) DEF JournalRecord, At
<1>2. SlotReads(c) /\ SlotCopies(c) /\ SlotBuf(o) /\ SlotSnap(o) /\ o.kind \in {"owned", "direct", "cached", "create"}
  BY <1>1, SlotOp, ZenonT(30)
<1>3. PICK n : /\ OpBecomes(w, OpAt(op[w], n, op[w].buf))
               /\ n = (IF o.kind \in {"owned", "direct"} THEN "load" ELSE "store")
  BY <1>2, OpMoves, ZenonT(30)
<1>4. /\ op'[w].kind = o.kind /\ op'[w].blk = c /\ op'[w].slot = o.slot /\ op'[w].val = o.val
      /\ op'[w].pc = n /\ op'[w].buf = o.buf
  BY <1>1, <1>3, StillDoing, ZenonT(60)
<1>5. \A s : (Unsettled(c, s)' <=> NoInode(latest[c][s])) /\ (Unsettled(c, s) <=> NoInode(latest[c][s]))
  BY <1>1, <1>3, <1>4, UnsettledBy, UnsettledNext, SMTT(60)
<1>6. SlotReads(c)' /\ SlotCopies(c)'
  BY <1>1, <1>2, <1>5, ZenonT(30) DEF SlotReads, SlotCopies, ReadBlock, Deferred, Running
<1>7. SlotBuf(op[w])'
  BY <1>1, <1>2, <1>3, <1>4, ZenonT(30) DEF SlotBuf, HasBuf, Merged, Armed, Deferred
<1>8. SlotSnap(op[w])'
  BY <1>1, <1>2, <1>3, <1>4, ZenonT(30) DEF SlotSnap, Merged, Running
<1> QED
  BY <1>6, <1>7, <1>8, ZenonT(30)

LEMMA StoreSlots ==
  ASSUME Good, ClobberInv, SlotInv, NEW w \in Writers, StoreBlock(w), NEW c \in InodeBlocks, c = op[w].blk
  PROVE  SlotReads(c)' /\ SlotCopies(c)' /\ (op'[w] # Idle => SlotBuf(op[w])' /\ SlotSnap(op[w])')
<1> DEFINE o == op[w]
<1>0. OnBlock(w, c) /\ Busy(w)
  BY OpOnBlock, ZenonT(60) DEF OpStep
<1>1. UNCHANGED <<device, drain>> /\ Busy(w) /\ o.pc = "store" /\ OnBlock(w, c)
  BY <1>0, ZenonT(30) DEF StoreBlock, At
<1>2. /\ SlotReads(c) /\ SlotCopies(c) /\ SlotBuf(o) /\ SlotSnap(o)
      /\ o.kind \in {"owned", "direct", "cached", "create"}
  BY <1>1, SlotOp, ZenonT(30)
<1>3. op'[w] = Idle
  BY OpMoves, ZenonT(30) DEF OpBecomes
<1>4. c \in Deferred' /\ dirtyBlocks'[c] = Patched(o)
  BY ZenonT(30) DEF StoreBlock, setDirtyBlock, Deferred
<1>5. /\ c \in Blocks /\ o.slot \in Slots /\ o.buf \in Content /\ BlocksTyped
  BY <1>1, GoodParts, ZenonT(30)
<1>6. latest'[c] = [latest[c] EXCEPT ![o.slot] = o.val]
  BY <1>2, <1>5, ZenonT(30) DEF StoreBlock, Written, BlocksTyped
<1>7. /\ latest'[c][o.slot] = o.val /\ dirtyBlocks'[c][o.slot] = o.val
      /\ \A s \in Slots : s # o.slot => latest'[c][s] = latest[c][s] /\ dirtyBlocks'[c][s] = o.buf[s]
  BY <1>4, <1>5, <1>6, ZenonT(30) DEF Patched, BlocksTyped, Content
<1>8. \A s : (Unsettled(c, s)' <=> NoInode(latest'[c][s]))
  BY <1>1, <1>3, UnsettledNext, SMTT(60)
<1>9. \A s : s # o.slot => (Unsettled(c, s) <=> NoInode(latest[c][s]))
  <2>1. \A s : Unsettled(c, s) <=>
             NoInode(latest[c][s]) \/ (op[w].kind = "direct" /\ op[w].pc = "store" /\ op[w].slot = s)
    BY <1>1, UnsettledBy, ZenonT(30)
  <2> QED
    BY <2>1, ZenonT(30)
<1>10. \A s \in Slots : (NoInode(latest[c][s]) \/ latest[c][s] = o.buf[s])
  BY <1>1, <1>2, ZenonT(30) DEF SlotBuf, HasBuf
<1>11. SlotReads(c)'
  BY <1>4, <1>7, <1>8, <1>10, ZenonT(30) DEF SlotReads, ReadBlock, NoInode
<1>12. ASSUME NEW d \in Drainers, Running(d), c \in DOMAIN drain[d].snap, c \notin drain[d].todo, NEW s \in Slots
       PROVE  device[c][s] = drain[d].snap[c][s] \/ dirtyBlocks'[c][s] # drain[d].snap[c][s] \/ Unsettled(c, s)'
  <2>1. CASE s = o.slot
    BY <1>2, <1>7, <1>8, <1>12, <2>1, ZenonT(30) DEF SlotSnap, Merged, NoInode
  <2>2. CASE s # o.slot
    <3>1. c \in Deferred
      BY <1>12, ZenonT(30) DEF ClobberInv
    <3>2. NoInode(latest[c][s]) \/ dirtyBlocks[c][s] = o.buf[s]
      BY <1>2, <1>9, <1>10, <2>2, <3>1, ZenonT(30) DEF SlotReads, ReadBlock
    <3>3. device[c][s] = drain[d].snap[c][s] \/ dirtyBlocks[c][s] # drain[d].snap[c][s] \/ NoInode(latest[c][s])
      BY <1>2, <1>9, <1>12, <2>2, ZenonT(30) DEF SlotCopies
    <3> QED
      BY <1>7, <1>8, <2>2, <3>2, <3>3, ZenonT(30)
  <2> QED
    BY <2>1, <2>2, ZenonT(30)
<1>13. SlotCopies(c)'
  BY <1>1, <1>12, ZenonT(30) DEF SlotCopies, Running
<1> QED
  BY <1>3, <1>11, <1>13, ZenonT(30)

LEMMA WriteSlots ==
  ASSUME Good, ClobberInv, SlotInv, NEW w \in Writers, WriteBlock(w), NEW c \in InodeBlocks, c = op[w].blk
  PROVE  SlotReads(c)' /\ SlotCopies(c)' /\ (op'[w] # Idle => SlotBuf(op[w])' /\ SlotSnap(op[w])')
<1> DEFINE o == op[w]
<1>0. OnBlock(w, c) /\ Busy(w)
  BY OpOnBlock, ZenonT(60) DEF OpStep
<1>1. UNCHANGED <<dirtyBlocks, drain>> /\ Busy(w) /\ o.pc = "write" /\ OnBlock(w, c)
  BY <1>0, ZenonT(30) DEF WriteBlock, At
<1>2. /\ SlotReads(c) /\ SlotCopies(c) /\ SlotBuf(o) /\ SlotSnap(o)
      /\ o.kind \in {"owned", "direct", "cached", "create"}
  BY <1>1, SlotOp, ZenonT(30)
<1>3. o.kind = "direct" /\ OpBecomes(w, OpAt(op[w], "store", op[w].buf))
  BY <1>2, OpMoves, ZenonT(30)
<1>4. /\ op'[w].kind = o.kind /\ op'[w].blk = c /\ op'[w].slot = o.slot /\ op'[w].val = o.val
      /\ op'[w].pc = "store" /\ op'[w].buf = o.buf /\ Busy(w)'
  BY <1>1, <1>3, StillDoing, ZenonT(60)
<1>5. /\ c \in Blocks /\ o.slot \in Slots /\ o.buf \in Content /\ BlocksTyped
  BY <1>1, GoodParts, ZenonT(30)
<1>6. UNCHANGED latest /\ \A s \in Slots : s # o.slot => device'[c][s] = o.buf[s]
  BY <1>3, <1>5, ZenonT(30) DEF WriteBlock, Patched, BlocksTyped, Content
<1>7. \A s : (Unsettled(c, s)' <=> NoInode(latest[c][s]) \/ s = o.slot) /\ (Unsettled(c, s) <=> NoInode(latest[c][s]))
  <2>1. \A s : (Unsettled(c, s)' <=> NoInode(latest[c][s]) \/ s = o.slot)
    BY <1>1, <1>3, <1>4, <1>6, UnsettledNext, SMTT(60) DEF Busy
  <2> QED
    BY <1>1, <2>1, UnsettledBy, SMTT(60)
<1>8. \A s \in Slots : (NoInode(latest[c][s]) \/ latest[c][s] = o.buf[s])
  BY <1>1, <1>2, <1>3, ZenonT(30) DEF SlotBuf, HasBuf
<1>9. SlotReads(c)'
  BY <1>1, <1>2, <1>6, <1>7, <1>8, ZenonT(30) DEF SlotReads, ReadBlock, Deferred
<1>10. ASSUME NEW d \in Drainers, Running(d), c \in DOMAIN drain[d].snap, c \notin drain[d].todo, NEW s \in Slots
       PROVE  device'[c][s] = drain[d].snap[c][s] \/ dirtyBlocks[c][s] # drain[d].snap[c][s] \/ Unsettled(c, s)'
  <2>1. c \in Deferred
    BY <1>10, ZenonT(30) DEF ClobberInv
  <2>2. NoInode(latest[c][s]) \/ dirtyBlocks[c][s] = o.buf[s]
    BY <1>2, <1>7, <1>8, <2>1, ZenonT(30) DEF SlotReads, ReadBlock
  <2> QED
    BY <1>6, <1>7, <2>2, ZenonT(30)
<1>11. SlotCopies(c)'
  BY <1>1, <1>10, ZenonT(30) DEF SlotCopies, Running
<1>12. SlotBuf(op[w])'
  BY <1>1, <1>2, <1>3, <1>4, <1>6, <1>8, ZenonT(30) DEF SlotBuf, HasBuf, Merged, Armed, Deferred
<1>13. SlotSnap(op[w])'
  BY <1>1, <1>2, <1>3, <1>4, ZenonT(30) DEF SlotSnap, Merged, Running
<1> QED
  BY <1>9, <1>11, <1>12, <1>13, ZenonT(30)

(* writeThroughFreshInodeSlot, on the device and in the map.               *)
LEMMA ArmSlots ==
  ASSUME Good, ClobberInv, SlotInv, NEW w \in Writers, ArmSlot(w) \/ PatchDeferred(w),
         NEW c \in InodeBlocks, c = op[w].blk
  PROVE  SlotReads(c)' /\ SlotCopies(c)' /\ (op'[w] # Idle => SlotBuf(op[w])' /\ SlotSnap(op[w])')
<1> DEFINE o == op[w]
<1>0. OnBlock(w, c) /\ Busy(w)
  BY OpOnBlock, ZenonT(60) DEF OpStep
<1>1. UNCHANGED drain /\ Busy(w) /\ o.pc \in {"arm", "patch"} /\ OnBlock(w, c) /\ Deferred' = Deferred
  BY <1>0, ZenonT(30) DEF ArmSlot, PatchDeferred, At, Deferred
<1>2. SlotReads(c) /\ SlotCopies(c) /\ SlotBuf(o) /\ SlotSnap(o)
  BY <1>1, SlotOp, ZenonT(30)
<1>3. PICK n : OpBecomes(w, OpAt(op[w], n, op[w].buf)) /\ o.kind = "create" /\ n = (IF ArmSlot(w) THEN "patch" ELSE "journal")
  <2>1. CASE ArmSlot(w)
    BY <2>1, OpMoves, ZenonT(30)
  <2>2. CASE ~ArmSlot(w)
    BY <2>2, OpMoves, ZenonT(30)
  <2> QED
    BY <2>1, <2>2, ZenonT(30)
<1>4. /\ op'[w].kind = o.kind /\ op'[w].blk = c /\ op'[w].slot = o.slot /\ op'[w].val = o.val
      /\ op'[w].pc = n /\ op'[w].buf = o.buf
  BY <1>1, <1>3, StillDoing, ZenonT(60)
<1>5. /\ c \in Blocks /\ o.slot \in Slots /\ o.buf \in Content /\ BlocksTyped /\ MapTyped
  BY <1>1, GoodParts, ZenonT(30)
<1>6. /\ latest'[c][o.slot] = Undef
      /\ \A s \in Slots : s # o.slot =>
           /\ latest'[c][s] = latest[c][s] /\ device'[c][s] = device[c][s]
           /\ c \in Deferred => dirtyBlocks'[c][s] = dirtyBlocks[c][s]
  <2>1. CASE ArmSlot(w)
    BY <1>5, <2>1, ZenonT(30) DEF ArmSlot, BlocksTyped, Content
  <2>2. CASE PatchDeferred(w)
    <3>1. UNCHANGED <<device, latest>> /\ latest[c][o.slot] = Undef
      BY <1>2, <1>3, <2>2, ZenonT(30) DEF PatchDeferred, SlotBuf, Armed, At
    <3>2. c \in Deferred => dirtyBlocks'[c] = [dirtyBlocks[c] EXCEPT ![o.slot] = o.val]
      BY <2>2, ZenonT(30) DEF PatchDeferred, Deferred
    <3>3. c \in Deferred => dirtyBlocks[c] \in [Slots -> Values]
      BY <1>5, ZenonT(30) DEF MapTyped, Content
    <3>4. ASSUME NEW s \in Slots, s # o.slot, c \in Deferred PROVE dirtyBlocks'[c][s] = dirtyBlocks[c][s]
      BY <3>2, <3>3, <3>4, ZenonT(30)
    <3> QED
      BY <3>1, <3>4, ZenonT(30)
  <2> QED
    BY <2>1, <2>2, ZenonT(30)
<1>7. \A s : (Unsettled(c, s)' <=> NoInode(latest'[c][s])) /\ (Unsettled(c, s) <=> NoInode(latest[c][s]))
  <2>1. \A s : Unsettled(c, s) <=>
             NoInode(latest[c][s]) \/ (op[w].kind = "direct" /\ op[w].pc = "store" /\ op[w].slot = s)
    BY <1>1, UnsettledBy, ZenonT(30)
  <2>2. \A s : Unsettled(c, s)' <=>
             NoInode(latest'[c][s]) \/
             (op'[w] # Idle /\ op'[w].kind = "direct" /\ op'[w].pc = "store" /\ op'[w].slot = s)
    BY <1>1, UnsettledNext, SMTT(60)
  <2> QED
    BY <1>3, <1>4, <2>1, <2>2, ZenonT(30)
<1>8. SlotReads(c)'
  <2> SUFFICES ASSUME NEW s \in Slots, s # o.slot PROVE Unsettled(c, s)' \/ ReadBlock(c)'[s] = latest'[c][s]
    BY <1>6, <1>7, ZenonT(30) DEF SlotReads, NoInode
  <2> QED
    BY <1>1, <1>2, <1>6, <1>7, ZenonT(30) DEF SlotReads, ReadBlock
<1>9. ASSUME NEW d \in Drainers, Running(d), c \in DOMAIN drain[d].snap, c \notin drain[d].todo, NEW s \in Slots
      PROVE  device'[c][s] = drain[d].snap[c][s] \/ dirtyBlocks'[c][s] # drain[d].snap[c][s] \/ Unsettled(c, s)'
  <2>1. c \in Deferred
    BY <1>9, ZenonT(30) DEF ClobberInv
  <2>2. device[c][s] = drain[d].snap[c][s] \/ dirtyBlocks[c][s] # drain[d].snap[c][s] \/ NoInode(latest[c][s])
    BY <1>2, <1>7, <1>9, ZenonT(30) DEF SlotCopies
  <2> QED
    BY <1>6, <1>7, <2>1, <2>2, ZenonT(30) DEF NoInode
<1>10. SlotCopies(c)'
  BY <1>1, <1>9, ZenonT(30) DEF SlotCopies, Running
<1>11. SlotBuf(op[w])'
  <2>1. \A s \in Slots : (NoInode(latest[c][s]) \/ latest[c][s] = o.buf[s])
    BY <1>1, <1>2, <1>3, ZenonT(30) DEF SlotBuf, HasBuf
  <2>2. \A s \in Slots : (NoInode(latest'[c][s]) \/ latest'[c][s] = o.buf[s])
    BY <1>6, <2>1, ZenonT(30) DEF NoInode
  <2>3. ~Merged(op[w])' => UNCHANGED dirtyBlocks
    BY <1>3, <1>4, ZenonT(30) DEF Merged, ArmSlot
  <2>4. ~Merged(o)
    BY <1>1, ZenonT(30) DEF Merged
  <2> QED
    BY <1>1, <1>2, <1>3, <1>4, <1>6, <2>2, <2>3, <2>4, ZenonT(30) DEF SlotBuf
<1>12. SlotSnap(op[w])'
  BY <1>1, <1>2, <1>4, ZenonT(30) DEF SlotSnap, Merged, Running
<1> QED
  BY <1>8, <1>10, <1>11, <1>12, ZenonT(30)

LEMMA AbortSlots ==
  ASSUME Good, SlotInv, NEW w \in Writers, AbortOp(w), NEW c \in InodeBlocks, c = op[w].blk
  PROVE  SlotReads(c)' /\ SlotCopies(c)' /\ (op'[w] # Idle => SlotBuf(op[w])' /\ SlotSnap(op[w])')
<1>0. OnBlock(w, c) /\ Busy(w)
  BY OpOnBlock, ZenonT(60) DEF OpStep
<1>1. UNCHANGED <<device, dirtyBlocks, drain, latest>> /\ Busy(w) /\ op[w].kind # "direct" /\ OnBlock(w, c)
  BY <1>0, ZenonT(30) DEF AbortOp
<1>2. op'[w] = Idle
  BY ZenonT(30) DEF AbortOp, Good, ConsInv, OpInv
<1>3. SlotReads(c) /\ SlotCopies(c)
  BY <1>1, SlotOp, ZenonT(30)
<1>4. \A s : (Unsettled(c, s)' <=> NoInode(latest[c][s])) /\ (Unsettled(c, s) <=> NoInode(latest[c][s]))
  <2>1. \A s : Unsettled(c, s) <=>
             NoInode(latest[c][s]) \/ (op[w].kind = "direct" /\ op[w].pc = "store" /\ op[w].slot = s)
    BY <1>0, UnsettledBy, ZenonT(30)
  <2>2. \A s : Unsettled(c, s)' <=>
             NoInode(latest'[c][s]) \/
             (op'[w] # Idle /\ op'[w].kind = "direct" /\ op'[w].pc = "store" /\ op'[w].slot = s)
    BY <1>1, UnsettledNext, SMTT(60)
  <2> QED
    BY <1>1, <1>2, <2>1, <2>2, ZenonT(30)
<1>5. SlotReads(c)' /\ SlotCopies(c)'
  BY <1>1, <1>3, <1>4, ZenonT(30) DEF SlotReads, SlotCopies, ReadBlock, Deferred, Running
<1> QED
  BY <1>2, <1>5, ZenonT(30)

LEMMA OpSlots ==
  ASSUME Good, ClobberInv, SlotInv, NEW w \in Writers, OpStep(w)
  PROVE  SlotInv'
<1>1. PICK c : c = op[w].blk
  BY ZenonT(30)
<1>2. OnBlock(w, c)
  BY <1>1, OpOnBlock, ZenonT(30)
<1>3. ASSUME c \in InodeBlocks
      PROVE  SlotReads(c)' /\ SlotCopies(c)' /\ (op'[w] # Idle => SlotBuf(op[w])' /\ SlotSnap(op[w])')
  BY <1>1, <1>3, LoadSlots, JournalSlots, StoreSlots, WriteSlots, ArmSlots, AbortSlots, ZenonT(60) DEF OpStep
<1> QED
  BY <1>2, <1>3, SlotsLocal, ZenonT(60)

LEMMA FreeSlots ==
  ASSUME Good, ClobberInv, SlotInv, NEW b \in PoolBlocks, deferBlockFree(b) \/ freeBlockNow(b)
  PROVE  SlotInv'
<1>1. /\ UNCHANGED <<op, drain, device, latest>>
      /\ \A c \in Blocks : c # b => (c \in Deferred' <=> c \in Deferred) /\ (c \in Deferred => dirtyBlocks'[c] = dirtyBlocks[c])
  BY ZenonT(30) DEF deferBlockFree, freeBlockNow, Deferred
<1>2. \A c \in InodeBlocks : (c \in Deferred' <=> c \in Deferred) /\ (c \in Deferred => dirtyBlocks'[c] = dirtyBlocks[c])
  BY <1>1, MetaCacheAssumption, ZenonT(30) DEF Blocks
<1>3. \A c, s : Unsettled(c, s)' <=> Unsettled(c, s)
  BY <1>1, ZenonT(30) DEF Unsettled, At
<1>4. ASSUME NEW c \in InodeBlocks PROVE SlotReads(c)' /\ SlotCopies(c)'
  <2>1. SlotReads(c)'
    BY <1>1, <1>2, <1>3, SMTT(60) DEF SlotInv, SlotReads, ReadBlock
  <2>2. SlotCopies(c)'
    <3>1. SlotCopies(c) /\ \A d \in Drainers : Running(d)' <=> Running(d)
      BY <1>1, ZenonT(30) DEF SlotInv, Running
    <3>2. ASSUME NEW d \in Drainers, Running(d), c \in DOMAIN drain[d].snap PROVE c \in Deferred
      BY <3>2, ZenonT(30) DEF ClobberInv
    <3> QED
      BY <1>1, <1>2, <1>3, <3>1, <3>2, ZenonT(30) DEF SlotCopies
  <2> QED
    BY <2>1, <2>2, ZenonT(30)
<1>5. ASSUME NEW w \in Writers, Busy(w)', op'[w].blk \in InodeBlocks PROVE SlotBuf(op[w])' /\ SlotSnap(op[w])'
  <2>1. Busy(w) /\ op'[w] = op[w] /\ SlotBuf(op[w]) /\ SlotSnap(op[w])
    BY <1>1, <1>5, ZenonT(30) DEF SlotInv, Busy
  <2>2. PICK c \in InodeBlocks : c = op[w].blk
    BY <1>1, <1>5, ZenonT(30)
  <2>3. SlotBuf(op[w])'
    BY <1>1, <1>2, <2>1, <2>2, ZenonT(30) DEF SlotBuf, HasBuf, Armed, Merged
  <2>4. SlotSnap(op[w])'
    BY <1>1, <2>1, ZenonT(30) DEF SlotSnap, Merged, Running
  <2> QED
    BY <2>3, <2>4, ZenonT(30)
<1> QED
  BY <1>4, <1>5, ZenonT(30) DEF SlotInv

LEMMA DrainSlots ==
  ASSUME OneDrain, Good, ClobberInv, SlotInv, NEW d \in Drainers, DrainBegin(d) \/ DrainStep(d)
  PROVE  SlotInv'
<1>1. UNCHANGED <<op, latest>> /\ \A e \in Drainers : e = d
  BY ZenonT(30) DEF OneDrain, DrainBegin, DrainStep, DrainWrite, DrainWriteFails, DrainFree, DrainDelete
<1>2. \A c, s : Unsettled(c, s)' <=> Unsettled(c, s)
  BY <1>1, ZenonT(30) DEF Unsettled, At
<1>3. ASSUME \A c \in InodeBlocks : SlotReads(c)' /\ SlotCopies(c)',
             \A w \in Writers : Busy(w) /\ op[w].blk \in InodeBlocks => SlotBuf(op[w])' /\ SlotSnap(op[w])'
      PROVE  SlotInv'
  BY <1>1, <1>3, ZenonT(30) DEF SlotInv, Busy
<1>4. \A w \in Writers : Busy(w) /\ op[w].blk \in InodeBlocks => SlotBuf(op[w]) /\ SlotSnap(op[w])
  BY ZenonT(30) DEF SlotInv
<1>5. ASSUME Deferred' \subseteq Deferred, \A c \in Deferred' : dirtyBlocks'[c] = dirtyBlocks[c]
      PROVE  \A w \in Writers : Busy(w) /\ op[w].blk \in InodeBlocks => SlotBuf(op[w])'
  BY <1>1, <1>4, <1>5, ZenonT(30) DEF SlotBuf, HasBuf, Armed, Merged
<1>6. ASSUME UNCHANGED dirtyBlocks,
             \A c \in Blocks : c \in Deferred \/ device'[c] = device[c]
      PROVE  \A c \in InodeBlocks : SlotReads(c)'
  <2>1. \A c \in InodeBlocks : ReadBlock(c)' = ReadBlock(c)
    BY <1>6, ZenonT(30) DEF ReadBlock, Deferred, Blocks
  <2> QED
    BY <1>1, <1>2, <2>1, ZenonT(30) DEF SlotInv, SlotReads
<1>7. ASSUME NEW n, NEW snap, NEW todo, NEW frees, DrainBecomes(d, DrainAt(n, snap, todo, frees))
      PROVE  drain'[d].snap = snap /\ drain'[d].todo = todo
  BY <1>7, SMTT(60) DEF DrainBecomes, DrainAt
<1>8. ASSUME DrainBecomes(d, Rest)
      PROVE  /\ \A c \in InodeBlocks : SlotCopies(c)'
             /\ \A w \in Writers : SlotSnap(op[w])'
  BY <1>1, <1>8, ZenonT(30) DEF SlotCopies, SlotSnap, DrainBecomes, Running
<1>9. CASE DrainBegin(d)
  <2>1. DrainBecomes(d, DrainAt("write", dirtyBlocks, Deferred, pendingFrees))
    BY <1>9, DrainMoves, ZenonT(60)
  <2>2. drain'[d].snap = dirtyBlocks /\ drain'[d].todo = Deferred
    BY <1>7, <2>1, ZenonT(60)
  <2>3. UNCHANGED <<device, dirtyBlocks>>
    BY <1>9, ZenonT(30) DEF DrainBegin
  <2>4. \A c \in InodeBlocks : SlotCopies(c)'
    BY <1>1, <2>2, ZenonT(30) DEF SlotCopies, Deferred
  <2>5. \A w \in Writers : Busy(w) /\ op[w].blk \in InodeBlocks => SlotSnap(op[w])'
    BY <1>1, <1>4, <2>2, ZenonT(30) DEF SlotSnap, SlotBuf, Merged, Deferred
  <2>6. \A c \in InodeBlocks : SlotReads(c)'
    BY <1>6, <2>3, ZenonT(30)
  <2>7. \A w \in Writers : Busy(w) /\ op[w].blk \in InodeBlocks => SlotBuf(op[w])'
    BY <1>5, <2>3, ZenonT(30) DEF Deferred
  <2> QED
    BY <1>3, <2>4, <2>5, <2>6, <2>7, ZenonT(30)
<1>10. ASSUME NEW b \in Blocks, DrainWrite(d, b) PROVE SlotInv'
  <2>1. /\ Running(d)
        /\ DrainBecomes(d, DrainAt("write", drain[d].snap, drain[d].todo \ {b}, drain[d].frees))
    BY <1>10, DrainMoves, ZenonT(60)
  <2>2. drain'[d].snap = drain[d].snap /\ drain'[d].todo = drain[d].todo \ {b}
    BY <1>7, <2>1, ZenonT(60)
  <2>3. /\ UNCHANGED dirtyBlocks /\ b \in drain[d].todo
        /\ device' = [device EXCEPT ![b] = drain[d].snap[b]]
    BY <1>10, ZenonT(30) DEF DrainWrite
  <2>4. device'[b] = drain[d].snap[b] /\ \A c \in Blocks : c # b => device'[c] = device[c]
    BY <2>3, GoodParts, ZenonT(30) DEF BlocksTyped
  <2>5. b \in Deferred
    BY <2>1, <2>3, ZenonT(30) DEF ClobberInv
  <2>6. \A c \in InodeBlocks : SlotCopies(c)'
    BY <1>1, <1>2, <2>1, <2>2, <2>3, <2>4, SMTT(60) DEF SlotInv, SlotCopies, Running, Blocks
  <2>7. ASSUME NEW w \in Writers, Busy(w), op[w].blk \in InodeBlocks PROVE SlotSnap(op[w])'
    <3>1. SlotSnap(op[w]) /\ op[w].blk \in Blocks
      BY <1>4, <2>7, ZenonT(30) DEF Blocks
    <3>2. PICK c \in Blocks : c = op[w].blk
      BY <3>1, ZenonT(30)
    <3> QED
      BY <1>1, <2>1, <2>2, <2>4, <3>1, <3>2, ZenonT(30) DEF SlotSnap, Merged
  <2>8. \A c \in InodeBlocks : SlotReads(c)'
    BY <1>6, <2>3, <2>4, <2>5, ZenonT(30)
  <2>9. \A w \in Writers : Busy(w) /\ op[w].blk \in InodeBlocks => SlotBuf(op[w])'
    BY <1>5, <2>3, ZenonT(30) DEF Deferred
  <2> QED
    BY <1>3, <2>6, <2>7, <2>8, <2>9, ZenonT(30)
<1>11. CASE DrainWriteFails(d)
  <2>1. DrainBecomes(d, Rest)
    BY <1>11, DrainMoves, ZenonT(60)
  <2>2. UNCHANGED <<device, dirtyBlocks>>
    BY <1>11, ZenonT(30) DEF DrainWriteFails
  <2>3. \A c \in InodeBlocks : SlotReads(c)'
    BY <1>6, <2>2, ZenonT(30)
  <2>4. \A w \in Writers : Busy(w) /\ op[w].blk \in InodeBlocks => SlotBuf(op[w])'
    BY <1>5, <2>2, ZenonT(30) DEF Deferred
  <2> QED
    BY <1>3, <1>8, <2>1, <2>3, <2>4, ZenonT(30)
<1>12. CASE DrainFree(d)
  <2>1. Running(d) /\ DrainBecomes(d, DrainAt("delete", drain[d].snap, drain[d].todo, {}))
    BY <1>12, DrainMoves, ZenonT(60)
  <2>2. drain'[d].snap = drain[d].snap /\ drain'[d].todo = drain[d].todo
    BY <1>7, <2>1, ZenonT(60)
  <2>3. UNCHANGED <<device, dirtyBlocks>>
    BY <1>12, ZenonT(30) DEF DrainFree
  <2>4. \A c \in InodeBlocks : SlotCopies(c)'
    BY <1>1, <1>2, <2>1, <2>2, <2>3, SMTT(60) DEF SlotInv, SlotCopies, Running
  <2>5. \A w \in Writers : Busy(w) /\ op[w].blk \in InodeBlocks => SlotSnap(op[w])'
    BY <1>1, <1>4, <2>1, <2>2, <2>3, ZenonT(30) DEF SlotSnap, Merged
  <2>6. \A c \in InodeBlocks : SlotReads(c)'
    BY <1>6, <2>3, ZenonT(30)
  <2>7. \A w \in Writers : Busy(w) /\ op[w].blk \in InodeBlocks => SlotBuf(op[w])'
    BY <1>5, <2>3, ZenonT(30) DEF Deferred
  <2> QED
    BY <1>3, <2>4, <2>5, <2>6, <2>7, ZenonT(30)
<1>13. CASE DrainDelete(d)
  <2>1. Running(d) /\ DrainBecomes(d, Rest)
    BY <1>13, DrainMoves, ZenonT(60)
  <2>2. /\ UNCHANGED device /\ drain[d].pc = "delete"
        /\ Deferred' = {b \in Deferred : ~Same(d, b)}
        /\ \A b \in Deferred' : dirtyBlocks'[b] = dirtyBlocks[b]
    BY <1>13, ZenonT(30) DEF DrainDelete, Deferred, Same
  <2>3. drain[d].todo = {}
    BY <2>1, <2>2, ZenonT(30) DEF ClobberInv
  <2>4. ASSUME NEW c \in InodeBlocks PROVE SlotReads(c)'
    <3>1. SlotReads(c) /\ SlotCopies(c)
      BY ZenonT(30) DEF SlotInv
    <3>2. CASE c \in Deferred /\ Same(d, c)
      <4>1. \A s \in Slots : device[c][s] = dirtyBlocks[c][s] \/ Unsettled(c, s)
        BY <2>1, <2>3, <3>1, <3>2, ZenonT(30) DEF SlotCopies, Same
      <4> QED
        BY <1>1, <1>2, <2>2, <3>1, <3>2, <4>1, ZenonT(30) DEF SlotReads, ReadBlock
    <3>3. CASE ~(c \in Deferred /\ Same(d, c))
      <4>1. ReadBlock(c)' = ReadBlock(c)
        BY <2>2, <3>3, ZenonT(30) DEF ReadBlock
      <4> QED
        BY <1>1, <1>2, <3>1, <4>1, ZenonT(30) DEF SlotReads
    <3> QED
      BY <3>2, <3>3, ZenonT(30)
  <2>5. \A w \in Writers : Busy(w) /\ op[w].blk \in InodeBlocks => SlotBuf(op[w])'
    BY <1>5, <2>2, ZenonT(30)
  <2> QED
    BY <1>3, <1>8, <2>1, <2>4, <2>5, ZenonT(30)
<1> QED
  BY <1>9, <1>10, <1>11, <1>12, <1>13, ZenonT(30) DEF DrainStep

LEMMA StepSlots ==
  ASSUME OneDrain
  PROVE  Good /\ ClobberInv /\ SlotInv /\ [Next]_vars => SlotInv'
<1> SUFFICES ASSUME Good, ClobberInv, SlotInv, [Next]_vars PROVE SlotInv'
  BY ZenonT(30)
<1>1. CASE UNCHANGED vars
  <2>1. device' = device /\ dirtyBlocks' = dirtyBlocks /\ op' = op /\ drain' = drain /\ latest' = latest
    BY <1>1, ZenonT(30) DEF vars
  <2>2. /\ \A b \in InodeBlocks : ReadBlock(b)' = ReadBlock(b)
        /\ \A b \in InodeBlocks, s \in Slots : Unsettled(b, s)' <=> Unsettled(b, s)
        /\ \A d \in Drainers : Running(d)' <=> Running(d)
        /\ \A w \in Writers : Busy(w)' <=> Busy(w)
    BY <2>1, ZenonT(30) DEF ReadBlock, Deferred, Unsettled, At, Running, Busy
  <2>3. \A b \in InodeBlocks : SlotReads(b)' /\ SlotCopies(b)'
    BY <2>1, <2>2, ZenonT(30) DEF SlotInv, SlotReads, SlotCopies
  <2>4. ASSUME NEW w \in Writers, Busy(w), op[w].blk \in InodeBlocks PROVE SlotBuf(op[w])'
    <3>1. SlotBuf(op[w])
      BY <2>4, ZenonT(30) DEF SlotInv
    <3> QED
      BY <2>1, <3>1, ZenonT(30) DEF SlotBuf, HasBuf, Armed, Merged, Deferred
  <2>5. ASSUME NEW w \in Writers, Busy(w), op[w].blk \in InodeBlocks PROVE SlotSnap(op[w])'
    <3>1. SlotSnap(op[w])
      BY <2>5, ZenonT(30) DEF SlotInv
    <3> QED
      BY <2>1, <2>2, <3>1, ZenonT(30) DEF SlotSnap, Merged
  <2> QED
    BY <2>1, <2>2, <2>3, <2>4, <2>5, ZenonT(30) DEF SlotInv
<1>2. ASSUME NEW w \in Writers, OpStep(w) PROVE SlotInv'
  BY <1>2, OpSlots, ZenonT(30)
<1>3. ASSUME NEW w \in Writers, NEW k \in Kinds, NEW b \in Blocks, NEW s \in Slots, NEW v \in Values,
             BeginOp(w, k, b, s, v) \/ AllocBlock(w, k, b, s, v)
      PROVE  SlotInv'
  BY <1>3, BeginSlots, ZenonT(30)
<1>4. ASSUME NEW b \in PoolBlocks, deferBlockFree(b) \/ freeBlockNow(b) PROVE SlotInv'
  BY <1>4, FreeSlots, ZenonT(30)
<1>5. ASSUME NEW d \in Drainers, DrainBegin(d) \/ DrainStep(d) PROVE SlotInv'
  BY <1>5, DrainSlots, ZenonT(30)
<1> QED
  BY <1>1, <1>2, <1>3, <1>4, <1>5, ZenonT(60) DEF Next

LEMMA InitSlots == Init => SlotInv
<1> SUFFICES ASSUME Init PROVE SlotInv
  BY ZenonT(30)
<1>1. (\A d \in Drainers : ~Running(d)) /\ (\A w \in Writers : ~Busy(w))
  BY ZenonT(30) DEF Init, Running, Busy
<1>2. \A b \in InodeBlocks : ReadBlock(b) = latest[b]
  BY ZenonT(30) DEF Init, ReadBlock, Deferred
<1> QED
  BY <1>1, <1>2, ZenonT(30) DEF SlotInv, SlotReads, SlotCopies

(* The slot of every inode in use reads as the last operation on it wrote  *)
(* it, at every moment of a SyncMeta and of any mix of operations on the   *)
(* same block, frees of inodes included, as long as no two SyncMeta calls  *)
(* run at once.                                                            *)
THEOREM SlotsStayCoherent == OneDrain => (Spec => []SlotsCoherent)
<1> SUFFICES ASSUME OneDrain PROVE Spec => []SlotsCoherent
  BY ZenonT(30)
<1>1. Init => Good /\ ClobberInv /\ SlotInv
  BY InitGood, InitClobber, InitSlots, ZenonT(30)
<1>2. Good /\ ClobberInv /\ SlotInv /\ [Next]_vars => (Good /\ ClobberInv /\ SlotInv)'
  BY StepGood, StepClobber, StepSlots, ZenonT(60)
<1>3. Good /\ SlotInv => SlotsCoherent
  BY ZenonT(30) DEF Good, SlotInv, SlotReads, SlotsCoherent
<1> QED
  BY <1>1, <1>2, <1>3, PTL DEF Spec
=============================================================================
