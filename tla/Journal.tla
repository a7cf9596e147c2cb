------------------------------ MODULE Journal ------------------------------
(***************************************************************************)
(* The journal of a BrieFS volume (briefs/journal_write.go): a ring of     *)
(* JournalBlocks blocks, the last of which is reserved for the checkpoint  *)
(* block, and the two superblock fields log_start and log_end that say     *)
(* which part of the ring a mount replays.                                 *)
(*                                                                         *)
(* Every public operation runs under j.mu, so one call is in progress at a *)
(* time: pc is the next step of that call, and a crash (kill -9) may fall  *)
(* between any two steps.  A step ends where the code touches the disk.    *)
(*                                                                         *)
(* Records are numbered in the order WriteRecord accepts them and a block  *)
(* holds the numbers of its records; payloads are left out.  Metadata is   *)
(* what MetaSyncer.SyncMeta writes: unflushed is the set of records whose  *)
(* metadata is still in daemon memory only.  block_seq, checkpoint_seq,    *)
(* the label and syncedPos are written and never read by this code, and    *)
(* are left out.                                                           *)
(***************************************************************************)
EXTENDS Integers, Sequences, FiniteSets, Functions

CONSTANTS
  JournalOffset,          \* first block of the ring
  JournalBlocks,          \* blocks of the ring, the checkpoint block included
  BlockSize,              \* room for records in one block, in abstract units
  RecordSizes,            \* the sizes of the records the callers write
  JrnCheckpointInterval,  \* records after which a sync may checkpoint
  MaxRecords,             \* bound on the records of a behaviour
  FaultSteps              \* the steps whose I/O may fail

(* The steps of a call; "r_write" is the block write of an overflowing     *)
(* WriteRecord, which is otherwise part of the WriteRecord action.         *)
Steps == {"append", "s_write", "s_drain", "s_commit", "s_meta", "s_alloc",
          "s_bp", "c_alloc", "c_block", "c_super"}

(* The geometry validate() accepts; every record fits an empty block       *)
(* (XattrMaxUsed and symlinkMaxLen bound the two variable-length records). *)
ASSUME JournalAssumption ==
  /\ JournalOffset \in Nat
  /\ JournalBlocks \in Nat /\ JournalBlocks >= 4
  /\ BlockSize \in Nat \ {0}
  /\ RecordSizes \subseteq 1..BlockSize
  /\ JrnCheckpointInterval \in Nat \ {0}
  /\ MaxRecords \in Nat
  /\ FaultSteps \subseteq Steps \cup {"r_write"}

VARIABLES
  ring,          \* disk: journal block -> its magic and records
  sbStart,       \* disk: log_start of the superblock
  sbEnd,         \* disk: log_end of the superblock
  logStart,      \* memory: sb.JournalLogStart
  logEnd,        \* memory: sb.JournalLogEnd
  writePos,      \* memory: the block curBlock will be written to
  curBlock,      \* memory: the records of the block being filled
  writeOffset,   \* memory: units of curBlock in use
  dirty,         \* memory: curBlock holds records not yet written
  recordsSinceCheckpoint,
  blocksSinceCheckpoint,
  inCheckpoint,
  pc,            \* next step of the call holding j.mu, "idle", "down" or "replay"
  ret,           \* where checkpointLocked returns to
  checkpoint,    \* syncLocked's argument: TRUE when checkpointLocked called it
  size,          \* size of the record a back-pressured WriteRecord still has to append
  issued,        \* history: number of the last record accepted
  pend,          \* history: records in ring blocks at or after logEnd
  live,          \* history: records of [logStart, logEnd), oldest first
  diskLive,      \* history: live as of the last superblock write
  unflushed,     \* history: records whose metadata SyncMeta has not written
  result         \* history: what the last Sync, Checkpoint or failed call returned

diskVars == <<ring, sbStart, sbEnd, diskLive>>
posVars  == <<logStart, logEnd, writePos>>
curVars  == <<curBlock, writeOffset, dirty>>
cntVars  == <<recordsSinceCheckpoint, blocksSinceCheckpoint>>
callVars == <<inCheckpoint, pc, ret, checkpoint, size>>
recVars  == <<issued, pend, live, unflushed>>
vars     == <<diskVars, posVars, curVars, cntVars, callVars, recVars, result>>

-----------------------------------------------------------------------------
journalEnd    == JournalOffset + JournalBlocks
checkpointBlk == journalEnd - 1
RingBlocks    == JournalOffset..checkpointBlk
UsableBlocks  == RingBlocks \ {checkpointBlk}

(* A ring block; one as mkfs leaves it, with no magic; one holding records.*)
Records            == Seq(Nat)
Block              == [magic : BOOLEAN, records : Records]
ZeroBlock          == [magic |-> FALSE, records |-> <<>>]
JournalBlock(recs) == [magic |-> TRUE, records |-> recs]

NextRingBlock(cur) == IF cur + 1 >= journalEnd THEN JournalOffset ELSE cur + 1

(* Faulty: the checkpoint block is used like any other; the skip over it   *)
(* is not counted.                                                         *)
AdvanceNoSkip(cur)   == NextRingBlock(cur)
AdvanceCountOne(cur) == 1

(* The position after cur: the next block, or the one after it when that   *)
(* is the checkpoint block; and how many blocks that moves on.             *)
Advance(cur) ==
  IF NextRingBlock(cur) = checkpointBlk
  THEN NextRingBlock(checkpointBlk) ELSE NextRingBlock(cur)
AdvanceCount(cur) == IF NextRingBlock(cur) = checkpointBlk THEN 2 ELSE 1

(* Faulty: the walk stops one block before log_end.                        *)
WalkJournalRingShort(start, end) ==
  LET at(k) == IF start + k >= journalEnd THEN start + k - JournalBlocks
                                          ELSE start + k
      from[k \in 0..JournalBlocks] ==
        IF k = JournalBlocks \/ Advance(at(k)) = end \/ ~ring[at(k)].magic
        THEN <<>>
        ELSE (IF at(k) = checkpointBlk THEN <<>> ELSE ring[at(k)].records)
               \o from[k + 1]
  IN  IF start = end THEN <<>> ELSE from[0]

(* The records walkJournal hands to applyRecord, in order: the blocks from *)
(* start up to end around the ring, the checkpoint block skipped, ended    *)
(* early by a block without magic, and none at all when start = end.       *)
WalkJournalRing(start, end) ==
  LET at(k) == IF start + k >= journalEnd THEN start + k - JournalBlocks
                                          ELSE start + k
      from[k \in 0..JournalBlocks] ==
        IF \/ k = JournalBlocks
           \/ start = end
           \/ k > 0 /\ at(k) = end
           \/ ~ring[at(k)].magic
        THEN <<>>
        ELSE (IF at(k) = checkpointBlk THEN <<>> ELSE ring[at(k)].records)
               \o from[k + 1]
  IN  from[0]

(* What a mount after a crash in this state would replay.                  *)
Replayed == WalkJournalRing(sbStart, sbEnd)

-----------------------------------------------------------------------------
(* A volume mkfs made, or one an earlier mount left clean at any position  *)
(* with its old records (number 0) still in the ring.                      *)
Init ==
  /\ \/ /\ sbStart = JournalOffset
        /\ ring = [b \in RingBlocks |->
                     IF b = checkpointBlk THEN JournalBlock(<<>>) ELSE ZeroBlock]
     \/ /\ sbStart \in UsableBlocks
        /\ ring = [b \in RingBlocks |->
                     JournalBlock(IF b = checkpointBlk THEN <<>> ELSE <<0>>)]
  /\ sbEnd = sbStart
  /\ logStart = sbStart /\ logEnd = sbStart /\ writePos = sbStart
  /\ curBlock = <<>> /\ writeOffset = 0 /\ dirty = FALSE
  /\ recordsSinceCheckpoint = 0 /\ blocksSinceCheckpoint = 0
  /\ inCheckpoint = FALSE /\ pc = "idle" /\ ret = "idle" /\ checkpoint = FALSE
  /\ size = 0
  /\ issued = 0 /\ pend = <<>> /\ live = <<>> /\ diskLive = <<>>
  /\ unflushed = {} /\ result = "none"

-----------------------------------------------------------------------------
(* syncSuperblock, and the rewrite of block 0 in SyncAllocators: the disk  *)
(* takes the log boundaries memory holds, [start, end) with records recs.  *)
syncSuperblock(start, end, recs) ==
  sbStart' = start /\ sbEnd' = end /\ diskLive' = recs

KeepSuperblock == UNCHANGED <<sbStart, sbEnd, diskLive>>

(* writeBlock of curBlock at writePos, the advance past the checkpoint     *)
(* block, and initCurBlock.                                                *)
WriteCurBlock ==
  /\ ring' = [ring EXCEPT ![writePos] = JournalBlock(curBlock)]
  /\ writePos' = Advance(writePos)
  /\ blocksSinceCheckpoint' = blocksSinceCheckpoint + AdvanceCount(writePos)
  /\ pend' = pend \o curBlock

(* The tail of writeRecordLocked: the record goes into a block that holds  *)
(* recs in off units.                                                      *)
AppendRecord(recs, off, sz) ==
  /\ curBlock' = Append(recs, issued + 1)
  /\ writeOffset' = off + sz
  /\ dirty' = TRUE
  /\ recordsSinceCheckpoint' = recordsSinceCheckpoint + 1
  /\ issued' = issued + 1
  /\ unflushed' = unflushed \cup {issued + 1}

(* WriteRecord when the record fits the current block.                     *)
WriteRecordFits(sz) ==
  /\ pc = "idle" /\ issued < MaxRecords
  /\ writeOffset + sz <= BlockSize
  /\ AppendRecord(curBlock, writeOffset, sz)
  /\ result' = "none"
  /\ UNCHANGED <<diskVars, posVars, blocksSinceCheckpoint, callVars, pend, live>>

(* WriteRecord when it does not: the block is written uncommitted and the  *)
(* position advances.  A ring that is now full is checkpointed first, and  *)
(* the record is appended when checkpointLocked returns.                   *)
WriteRecordOverflow(sz) ==
  /\ pc = "idle" /\ issued < MaxRecords
  /\ writeOffset + sz > BlockSize
  /\ WriteCurBlock
  /\ IF writePos' = logStart
     THEN /\ pc' = "c_alloc" /\ ret' = "append" /\ size' = sz
          /\ curBlock' = <<>> /\ writeOffset' = 0 /\ dirty' = FALSE
          /\ UNCHANGED <<recordsSinceCheckpoint, issued, unflushed>>
     ELSE /\ AppendRecord(<<>>, 0, sz)
          /\ UNCHANGED <<pc, ret, size>>
  /\ result' = "none"
  /\ KeepSuperblock
  /\ UNCHANGED <<logStart, logEnd, inCheckpoint, checkpoint, live>>

(* The rest of that WriteRecord.  Its "journal ring exhausted" refusal     *)
(* would need a ring of one block, which validate() rejects.               *)
WriteRecordResume ==
  /\ pc = "append"
  /\ NextRingBlock(writePos) # logStart
  /\ AppendRecord(curBlock, writeOffset, size)
  /\ pc' = "idle" /\ size' = 0
  /\ UNCHANGED <<diskVars, posVars, blocksSinceCheckpoint, inCheckpoint, ret,
                 checkpoint, pend, live, result>>

-----------------------------------------------------------------------------
(* Faulty: a ring that is exactly full does not count as full.             *)
SyncRetireFirstLate ==
  ~inCheckpoint /\ writePos = logStart /\ blocksSinceCheckpoint > JournalBlocks

(* The entry of syncLocked with records pending: a ring that has wrapped   *)
(* onto log_start is retired before the pending block is written.          *)
SyncRetireFirst ==
  ~inCheckpoint /\ writePos = logStart /\ blocksSinceCheckpoint > 0

SyncEntry(arg) ==
  /\ checkpoint' = arg
  /\ IF SyncRetireFirst
     THEN pc' = "c_alloc" /\ ret' = "s_write" /\ inCheckpoint' = TRUE
     ELSE pc' = "s_write" /\ UNCHANGED <<ret, inCheckpoint>>

(* Faulty: only whole blocks written to the ring count as pending.         *)
SyncWholeBlocks ==
  /\ pc = "idle"
  /\ IF dirty /\ writePos # logEnd
     THEN SyncEntry(FALSE) /\ result' = "none"
     ELSE UNCHANGED <<inCheckpoint, pc, ret, checkpoint>> /\ result' = "synced"
  /\ UNCHANGED <<diskVars, posVars, curVars, cntVars, size, recVars>>

(* Sync(false), which is how every caller calls it; Close is the same.     *)
Sync ==
  /\ pc = "idle"
  /\ IF dirty
     THEN SyncEntry(FALSE) /\ result' = "none"
     ELSE UNCHANGED <<inCheckpoint, pc, ret, checkpoint>> /\ result' = "synced"
  /\ UNCHANGED <<diskVars, posVars, curVars, cntVars, size, recVars>>

(* Checkpoint(), called at unmount: pending records are synced first with  *)
(* syncLocked(true).                                                       *)
Checkpoint ==
  /\ pc = "idle"
  /\ IF dirty
     THEN SyncEntry(TRUE)
     ELSE pc' = "c_alloc" /\ ret' = "idle" /\ UNCHANGED <<inCheckpoint, checkpoint>>
  /\ result' = "none"
  /\ UNCHANGED <<diskVars, posVars, curVars, cntVars, size, recVars>>

SyncWrite ==
  /\ pc = "s_write"
  /\ WriteCurBlock
  /\ curBlock' = <<>> /\ writeOffset' = 0 /\ dirty' = FALSE
  /\ pc' = "s_drain"
  /\ KeepSuperblock
  /\ UNCHANGED <<logStart, logEnd, recordsSinceCheckpoint, inCheckpoint, ret,
                 checkpoint, size, issued, live, unflushed, result>>

(* DrainPendingData: the data the records point at is made durable.        *)
SyncDrain ==
  /\ pc = "s_drain" /\ pc' = "s_commit"
  /\ UNCHANGED <<diskVars, posVars, curVars, cntVars, inCheckpoint, ret,
                 checkpoint, size, recVars, result>>

(* The commit point: log_end advances and the superblock is written.       *)
SyncCommit ==
  /\ pc = "s_commit" /\ pc' = "s_meta"
  /\ logEnd' = writePos
  /\ live' = live \o pend /\ pend' = <<>>
  /\ syncSuperblock(logStart, writePos, live \o pend)
  /\ UNCHANGED <<ring, logStart, writePos, curVars, cntVars, inCheckpoint, ret,
                 checkpoint, size, issued, unflushed, result>>

(* Faulty: the metadata flush is left to the checkpoint that called.       *)
SyncMetadataUnlessCheckpoint ==
  /\ pc = "s_meta" /\ pc' = "s_alloc"
  /\ unflushed' = IF checkpoint THEN unflushed ELSE {}
  /\ UNCHANGED <<diskVars, posVars, curVars, cntVars, inCheckpoint, ret,
                 checkpoint, size, issued, pend, live, result>>

(* MetaSyncer.SyncMeta: the deferred metadata goes to the device.          *)
SyncMetadata ==
  /\ pc = "s_meta" /\ pc' = "s_alloc"
  /\ unflushed' = {}
  /\ UNCHANGED <<diskVars, posVars, curVars, cntVars, inCheckpoint, ret,
                 checkpoint, size, issued, pend, live, result>>

(* SyncAllocators (which rewrites the superblock), syncWB, and the periodic*)
(* checkpoint.                                                             *)
SyncAllocPools ==
  /\ pc = "s_alloc"
  /\ syncSuperblock(logStart, logEnd, live)
  /\ IF checkpoint /\ recordsSinceCheckpoint >= JrnCheckpointInterval
     THEN pc' = "c_alloc" /\ ret' = "s_bp"
     ELSE pc' = "s_bp" /\ UNCHANGED ret
  /\ UNCHANGED <<ring, posVars, curVars, cntVars, inCheckpoint, checkpoint,
                 size, recVars, result>>

(* Faulty: the back-pressure is tested again after its checkpoint, and     *)
(* with the condition that an emptied ring meets.                          *)
SyncBackPressureAgain ==
  /\ pc = "s_bp"
  /\ IF ~inCheckpoint /\ writePos = logStart
     THEN /\ pc' = "c_alloc" /\ inCheckpoint' = TRUE /\ ret' = "s_bp"
          /\ UNCHANGED <<checkpoint, result>>
     ELSE /\ pc' = IF checkpoint THEN "c_alloc" ELSE "idle"
          /\ ret' = "idle" /\ checkpoint' = FALSE
          /\ result' = IF checkpoint THEN result ELSE "synced"
          /\ UNCHANGED inCheckpoint
  /\ UNCHANGED <<diskVars, posVars, curVars, cntVars, size, recVars>>

(* The back-pressure after the advance, and the return: to the caller, or  *)
(* to the checkpointLocked that asked for the sync.                        *)
SyncBackPressure ==
  /\ pc = "s_bp"
  /\ IF ~inCheckpoint /\ NextRingBlock(writePos) = logStart
     THEN /\ pc' = "c_alloc" /\ inCheckpoint' = TRUE
          /\ ret' = IF checkpoint THEN "c_alloc" ELSE "idle"
          /\ UNCHANGED <<checkpoint, result>>
     ELSE /\ pc' = IF checkpoint THEN "c_alloc" ELSE "idle"
          /\ ret' = "idle" /\ checkpoint' = FALSE
          /\ result' = IF checkpoint THEN result ELSE "synced"
          /\ UNCHANGED inCheckpoint
  /\ UNCHANGED <<diskVars, posVars, curVars, cntVars, size, recVars>>

-----------------------------------------------------------------------------
(* checkpointLocked after its pending records are synced: kickWB,          *)
(* SyncAllocators (which rewrites the superblock) and syncWB.              *)
CheckpointAllocPools ==
  /\ pc = "c_alloc" /\ pc' = "c_block"
  /\ syncSuperblock(logStart, logEnd, live)
  /\ UNCHANGED <<ring, posVars, curVars, cntVars, inCheckpoint, ret, checkpoint,
                 size, recVars, result>>

(* The checkpoint block is written and the log emptied in memory.          *)
CheckpointRetire ==
  /\ pc = "c_block" /\ pc' = "c_super"
  /\ logStart' = writePos /\ logEnd' = writePos
  /\ recordsSinceCheckpoint' = 0 /\ blocksSinceCheckpoint' = 0
  /\ live' = <<>> /\ pend' = <<>>
  /\ UNCHANGED <<diskVars, writePos, curVars, inCheckpoint, ret, checkpoint,
                 size, issued, unflushed, result>>

(* The superblock with the new boundaries, and the return to the caller.   *)
CheckpointPersist ==
  /\ pc = "c_super"
  /\ syncSuperblock(logStart, logEnd, live)
  /\ pc' = ret
  /\ inCheckpoint' = FALSE
  /\ ret' = "idle"
  /\ checkpoint' = (checkpoint /\ ret \in {"s_write", "s_bp"})
  /\ result' = IF ret = "idle" THEN "synced" ELSE result
  /\ UNCHANGED <<ring, posVars, curVars, cntVars, size, recVars>>

(* UpdateLabel: the in-memory superblock is written, log boundaries and    *)
(* all.                                                                    *)
UpdateLabel ==
  /\ pc = "idle"
  /\ syncSuperblock(logStart, logEnd, live)
  /\ UNCHANGED <<ring, posVars, curVars, cntVars, callVars, recVars, result>>

-----------------------------------------------------------------------------
(* The I/O of the current step fails and the error returns through every   *)
(* frame of the call.  A failed write may have reached the disk or not.    *)
AbortCall ==
  /\ pc' = "idle" /\ ret' = "idle" /\ checkpoint' = FALSE /\ size' = 0
  /\ inCheckpoint' = FALSE /\ result' = "error"

BlockWriteFails ==
  /\ \/ ring' = [ring EXCEPT ![writePos] = JournalBlock(curBlock)]
     \/ UNCHANGED ring
  /\ AbortCall
  /\ KeepSuperblock
  /\ UNCHANGED <<posVars, curVars, cntVars, recVars>>

WriteRecordFails(sz) ==
  /\ "r_write" \in FaultSteps
  /\ pc = "idle" /\ issued < MaxRecords
  /\ writeOffset + sz > BlockSize
  /\ BlockWriteFails

SyncWriteFails == "s_write" \in FaultSteps /\ pc = "s_write" /\ BlockWriteFails

(* A step that only calls out fails: nothing of the journal has changed.   *)
CallOutFails(step) ==
  /\ step \in FaultSteps /\ pc = step
  /\ AbortCall
  /\ UNCHANGED <<diskVars, posVars, curVars, cntVars, recVars>>

SuperblockWriteFails(step) ==
  /\ step \in FaultSteps /\ pc = step
  /\ IF step = "s_commit"
     THEN logEnd' = writePos /\ live' = live \o pend /\ pend' = <<>>
     ELSE UNCHANGED <<logEnd, live, pend>>
  /\ syncSuperblock(logStart, logEnd', live') \/ KeepSuperblock
  /\ AbortCall
  /\ UNCHANGED <<ring, logStart, writePos, curVars, cntVars, issued, unflushed>>

(* kill -9: memory is lost.  What was committed must still be derivable    *)
(* from the disk; what was not is gone, with its metadata.                 *)
Crash ==
  /\ pc # "down"
  /\ pc' = "down"
  /\ curBlock' = <<>> /\ writeOffset' = 0 /\ dirty' = FALSE
  /\ recordsSinceCheckpoint' = 0 /\ blocksSinceCheckpoint' = 0
  /\ inCheckpoint' = FALSE /\ ret' = "idle" /\ checkpoint' = FALSE /\ size' = 0
  /\ logStart' = sbStart /\ logEnd' = sbEnd /\ writePos' = sbStart
  /\ pend' = <<>> /\ live' = diskLive
  /\ unflushed' = unflushed \cap Range(diskLive)
  /\ result' = "none"
  /\ UNCHANGED <<diskVars, issued>>

(* NewJournal on the superblock just read.  A clean log has nothing to     *)
(* replay and the volume goes live.                                        *)
NewJournal ==
  /\ pc = "down"
  /\ pc' = IF sbStart = sbEnd THEN "idle" ELSE "replay"
  /\ IF sbStart = sbEnd
     THEN live' = <<>> /\ diskLive' = <<>> /\ unflushed' = {}
     ELSE UNCHANGED <<live, diskLive, unflushed>>
  /\ UNCHANGED <<ring, sbStart, sbEnd, posVars, curVars, cntVars, inCheckpoint,
                 ret, checkpoint, size, issued, pend, result>>

(* Faulty: the write position is not moved to the new log.                 *)
MarkCleanKeepsWritePos ==
  /\ pc = "replay" /\ pc' = "idle"
  /\ logStart' = logEnd
  /\ live' = <<>> /\ unflushed' = {}
  /\ syncSuperblock(logEnd, logEnd, <<>>)
  /\ UNCHANGED <<ring, logEnd, writePos, curVars, cntVars, inCheckpoint, ret,
                 checkpoint, size, issued, pend, result>>

(* The end of replayJournal: the re-derived metadata is on disk and        *)
(* MarkCleanAfterReplay empties the log.                                   *)
MarkCleanAfterReplay ==
  /\ pc = "replay" /\ pc' = "idle"
  /\ logStart' = logEnd /\ writePos' = logEnd
  /\ dirty' = FALSE
  /\ recordsSinceCheckpoint' = 0 /\ blocksSinceCheckpoint' = 0
  /\ live' = <<>> /\ unflushed' = {}
  /\ syncSuperblock(logEnd, logEnd, <<>>)
  /\ UNCHANGED <<ring, logEnd, curBlock, writeOffset, inCheckpoint, ret,
                 checkpoint, size, issued, pend, result>>

-----------------------------------------------------------------------------
CallStep ==
  \/ WriteRecordResume
  \/ SyncWrite \/ SyncDrain \/ SyncCommit \/ SyncMetadata \/ SyncAllocPools
  \/ SyncBackPressure
  \/ CheckpointAllocPools \/ CheckpointRetire \/ CheckpointPersist

Fault ==
  \/ \E sz \in RecordSizes : WriteRecordFails(sz)
  \/ SyncWriteFails
  \/ \E s \in {"s_drain", "s_meta", "c_block"} : CallOutFails(s)
  \/ \E s \in {"s_commit", "s_alloc", "c_alloc", "c_super"} : SuperblockWriteFails(s)

Recover == NewJournal \/ MarkCleanAfterReplay

Next ==
  \/ \E sz \in RecordSizes : WriteRecordFits(sz) \/ WriteRecordOverflow(sz)
  \/ Sync
  \/ Checkpoint
  \/ UpdateLabel
  \/ CallStep
  \/ Fault
  \/ Crash
  \/ Recover

Spec == Init /\ [][Next]_vars

(* The holder of j.mu keeps running: no step of a call waits for another   *)
(* caller of the journal.                                                  *)
FairSpec == Spec /\ WF_vars(CallStep)

-----------------------------------------------------------------------------
(* Distance from a to b going round the ring.                              *)
RingDistance(a, b) == IF a <= b THEN b - a ELSE b - a + JournalBlocks

(* Block b lies in [start, end) of the ring; empty when start = end.       *)
InLog(b, start, end) == RingDistance(start, b) < RingDistance(start, end)

(* The types of Journal's fields and of the log on disk; no position ever  *)
(* rests on the reserved checkpoint block (journal_write.go:439-443).      *)
TypeOK ==
  /\ ring \in [RingBlocks -> Block]
  /\ sbStart \in UsableBlocks /\ sbEnd \in UsableBlocks
  /\ logStart \in UsableBlocks /\ logEnd \in UsableBlocks
  /\ writePos \in UsableBlocks
  /\ curBlock \in Records /\ writeOffset \in 0..BlockSize /\ dirty \in BOOLEAN
  /\ recordsSinceCheckpoint \in Nat /\ blocksSinceCheckpoint \in Nat
  /\ inCheckpoint \in BOOLEAN /\ checkpoint \in BOOLEAN
  /\ pc \in Steps \cup {"idle", "down", "replay"}
  /\ ret \in {"idle", "append", "s_write", "s_bp", "c_alloc"}
  /\ size \in 0..BlockSize
  /\ issued \in Nat
  /\ pend \in Records /\ live \in Records /\ diskLive \in Records
  /\ unflushed \subseteq Nat
  /\ result \in {"none", "synced", "error"}

(* blocksSinceCheckpoint tells a full ring from an empty one: it counts    *)
(* the positions from log_start to write_pos, whole turns included, so it  *)
(* is 0 exactly when the ring is empty (journal_write.go:78-84).           *)
PositionsCounted ==
  \E turns \in 0..blocksSinceCheckpoint :
    blocksSinceCheckpoint = turns * JournalBlocks + RingDistance(logStart, writePos)

(* Block b belongs to the log on disk.  Equal boundaries mean an empty log *)
(* or one that fills the ring: with records in it every block is live      *)
(* (journal_write.go:78-84).                                               *)
LiveBlock(b) ==
  IF sbStart = sbEnd THEN diskLive # <<>> ELSE InLog(b, sbStart, sbEnd)

(* "Force a checkpoint to retire the tail instead of overwriting live      *)
(* records" (journal_write.go:334): no block write lands on a live block,  *)
(* in a ring of any fill.                                                  *)
NoLiveOverwrite ==
  [][\A b \in UsableBlocks : LiveBlock(b) => ring'[b] = ring[b]]_vars

(* The part of it the code keeps.  A log with distinct boundaries is never *)
(* written over.  A log that fills the ring is not written over by a sync, *)
(* which retires it first ("Force a checkpoint to retire the ring before   *)
(* writing", journal_write.go:419-424); a WriteRecord that overflows may   *)
(* write over it, and after that blocksSinceCheckpoint exceeds one turn.   *)
SyncKeepsLive ==
  [][\A b \in UsableBlocks :
       /\ LiveBlock(b)
       /\ sbStart # sbEnd \/ (pc = "s_write" /\ blocksSinceCheckpoint <= JournalBlocks)
       => ring'[b] = ring[b]]_vars

(* A mount replays committed records only, without a gap, in the order     *)
(* they were written, up to the newest: never a stale block of an earlier  *)
(* turn, an uncommitted block or a zeroed one (walkJournal).               *)
ReplayedIsLogTail ==
  \E n \in 0..Len(diskLive) : Replayed = SubSeq(diskLive, n + 1, Len(diskLive))

(* "a journal block is written and log_end advanced + the superblock       *)
(* persisted BEFORE the metadata referenced by the records is flushed, so  *)
(* replay can re-derive any metadata that did not reach disk"              *)
(* (journal_write.go:14-16): every committed record whose metadata is only *)
(* in memory would be replayed.                                            *)
CommittedIsReplayed ==
  \A r \in unflushed : r \in Range(diskLive) => r \in Range(Replayed)

(* The same while the log on disk does not look empty.                     *)
CommittedIsReplayedUnlessFull == sbStart # sbEnd => CommittedIsReplayed

(* A Sync or Checkpoint that returned success has left nothing uncommitted:*)
(* every record accepted so far is in the log on disk, or was retired.     *)
SyncedIsCommitted ==
  result = "synced" => curBlock = <<>> /\ pend = <<>> /\ diskLive = live

(* A checkpoint drops committed records only once their metadata has been  *)
(* flushed (checkpointLocked, journal_write.go:580-583).                   *)
CommittedFlushedBeforeRetire ==
  pc = "c_block" => unflushed \cap Range(live) = {}

(* "checkpointLocked retires the live region [logStart, logEnd) by         *)
(* flushing metadata, persisting allocator bitmaps, ..."                   *)
(* (journal_write.go:580-583): no record whose metadata is only in memory  *)
(* leaves the ring at a checkpoint, those between logEnd and writePos      *)
(* included.                                                               *)
FlushedBeforeRetire ==
  pc = "c_block" => unflushed \cap (Range(live) \cup Range(pend)) = {}

(* Every call returns: the mutual recursion of syncLocked and              *)
(* checkpointLocked ends whatever back-pressure it meets.                  *)
EveryCallReturns == (pc \in Steps) ~> (pc \notin Steps)
=============================================================================
