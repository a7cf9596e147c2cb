--------------------------- MODULE JournalProofs ---------------------------
(***************************************************************************)
(* Proofs about Journal, for every ring of at least four blocks, every     *)
(* record size and every number of records: first the ring, its pointers   *)
(* and what a step may do to them; then what a mount replays, which is the *)
(* committed records, in order, up to the newest, and among them every one *)
(* whose metadata has not been flushed.                                    *)
(***************************************************************************)
EXTENDS Journal, SequenceTheorems, WellFoundedInduction, TLAPS

USE JournalAssumption

(* The control state of a call: only checkpointLocked has somewhere to     *)
(* return to, and a WriteRecord it returns to finds an empty block.        *)
CallOK ==
  /\ pc \notin {"c_alloc", "c_block", "c_super"} => ret = "idle"
  /\ (pc = "append" \/ ret = "append") => writeOffset = 0 /\ curBlock = <<>>

LEMMA AdvanceUsable ==
  ASSUME NEW b \in UsableBlocks
  PROVE  /\ Advance(b) \in UsableBlocks
         /\ b \in RingBlocks
         /\ AdvanceCount(b) \in {1, 2}
  BY SMTT(60) DEF Advance, AdvanceCount, NextRingBlock, UsableBlocks, RingBlocks, checkpointBlk, journalEnd

LEMMA RecordsTyped ==
  /\ <<>> \in Records
  /\ \A s, t \in Records : s \o t \in Records
  /\ \A s \in Records, n \in Nat : Append(s, n) \in Records
  /\ <<0>> \in Records
  BY SMTT(60) DEF Records

LEMMA JournalBlockTyped ==
  /\ \A recs \in Records : JournalBlock(recs) \in Block
  /\ ZeroBlock \in Block
  BY RecordsTyped, ZenonT(30) DEF JournalBlock, ZeroBlock, Block

LEMMA InitTyped == Init => TypeOK /\ CallOK
<1> SUFFICES ASSUME Init PROVE TypeOK /\ CallOK
  BY ZenonT(30)
<1>1. JournalOffset \in UsableBlocks
  BY SMTT(60) DEF UsableBlocks, RingBlocks, checkpointBlk, journalEnd
<1>2. sbStart \in UsableBlocks
  BY <1>1, ZenonT(30) DEF Init
<1>3. ring \in [RingBlocks -> Block]
  BY RecordsTyped, JournalBlockTyped, ZenonT(30) DEF Init
<1>4. /\ curBlock \in Records /\ pend \in Records
      /\ live \in Records /\ diskLive \in Records
  BY RecordsTyped, ZenonT(30) DEF Init
<1>5. writeOffset \in 0..BlockSize /\ size \in 0..BlockSize
  BY SMTT(60) DEF Init
<1> QED
  BY <1>2, <1>3, <1>4, <1>5, ZenonT(60) DEF Init, TypeOK, CallOK, Steps

(* Writing the current block keeps the disk and the position well typed.   *)
LEMMA WriteCurBlockTyped ==
  ASSUME TypeOK, WriteCurBlock
  PROVE  /\ ring' \in [RingBlocks -> Block]
         /\ writePos' \in UsableBlocks
         /\ blocksSinceCheckpoint' \in Nat
         /\ pend' \in Records
<1>1. /\ Advance(writePos) \in UsableBlocks
      /\ AdvanceCount(writePos) \in {1, 2}
  BY AdvanceUsable, ZenonT(30) DEF TypeOK
<1>2. JournalBlock(curBlock) \in Block
  BY JournalBlockTyped, ZenonT(30) DEF TypeOK
<1>3. ring' \in [RingBlocks -> Block]
  BY <1>2, ZenonT(60) DEF TypeOK, WriteCurBlock
<1>4. blocksSinceCheckpoint' \in Nat
  BY <1>1, SMTT(60) DEF TypeOK, WriteCurBlock
<1>5. pend' \in Records
  BY RecordsTyped, ZenonT(30) DEF TypeOK, WriteCurBlock
<1> QED
  BY <1>1, <1>3, <1>4, <1>5, ZenonT(30) DEF WriteCurBlock

LEMMA AppendRecordTyped ==
  ASSUME TypeOK, NEW recs \in Records, NEW off \in Nat, NEW sz \in Nat,
         off + sz <= BlockSize, AppendRecord(recs, off, sz)
  PROVE  /\ curBlock' \in Records /\ writeOffset' \in 0..BlockSize
         /\ dirty' \in BOOLEAN /\ recordsSinceCheckpoint' \in Nat
         /\ issued' \in Nat /\ unflushed' \subseteq Nat
  BY RecordsTyped, SMTT(60) DEF TypeOK, AppendRecord

LEMMA StepTyped == TypeOK /\ CallOK /\ [Next]_vars => TypeOK' /\ CallOK'
<1> SUFFICES ASSUME TypeOK, CallOK, [Next]_vars PROVE TypeOK' /\ CallOK'
  BY ZenonT(30)
<1> USE DEF Steps
<1>0. 0 \in 0..BlockSize
  BY SMTT(60)
<1>1. CASE UNCHANGED vars
  BY <1>1, SMTT(60) DEF TypeOK, CallOK, vars, diskVars, posVars, curVars, cntVars, callVars, recVars
<1>2. ASSUME NEW sz \in RecordSizes, WriteRecordFits(sz) PROVE TypeOK' /\ CallOK'
  <2>1. sz \in Nat /\ writeOffset \in Nat /\ curBlock \in Records
    BY SMTT(60) DEF TypeOK
  <2>2. AppendRecord(curBlock, writeOffset, sz) /\ writeOffset + sz <= BlockSize
    BY <1>2, ZenonT(30) DEF WriteRecordFits
  <2> QED
    BY <1>2, <2>1, <2>2, AppendRecordTyped, ZenonT(30)
    DEF TypeOK, CallOK, WriteRecordFits, diskVars, posVars, callVars
<1>3. ASSUME NEW sz \in RecordSizes, WriteRecordOverflow(sz) PROVE TypeOK' /\ CallOK'
  <2>1. sz \in 1..BlockSize
    BY ZenonT(30)
  <2>0. WriteCurBlock
    BY <1>3, ZenonT(30) DEF WriteRecordOverflow
  <2>2. CASE writePos' = logStart
    <3>1. curBlock' \in Records /\ writeOffset' \in 0..BlockSize /\ size' \in 0..BlockSize
      BY <1>3, <2>1, <2>2, RecordsTyped, SMTT(60) DEF WriteRecordOverflow
    <3> QED
      BY <1>3, <2>0, <2>2, <3>1, WriteCurBlockTyped, ZenonT(60)
      DEF TypeOK, CallOK, WriteRecordOverflow, KeepSuperblock
  <2>3. CASE writePos' # logStart
    <3>1. AppendRecord(<<>>, 0, sz)
      BY <1>3, <2>3, ZenonT(30) DEF WriteRecordOverflow
    <3>2. /\ curBlock' \in Records /\ writeOffset' \in 0..BlockSize
          /\ dirty' \in BOOLEAN /\ recordsSinceCheckpoint' \in Nat
          /\ issued' \in Nat /\ unflushed' \subseteq Nat
      <4>1. <<>> \in Records /\ 0 \in Nat /\ sz \in Nat /\ 0 + sz <= BlockSize
        BY <2>1, RecordsTyped, SMTT(60)
      <4> QED
        BY ONLY <3>1, <4>1, TypeOK, AppendRecordTyped, ZenonT(30)
    <3> QED
      BY <1>3, <2>0, <2>3, <3>2, WriteCurBlockTyped, ZenonT(30)
      DEF TypeOK, CallOK, WriteRecordOverflow, KeepSuperblock
  <2> QED
    BY <2>2, <2>3, ZenonT(30)
<1>4. CASE WriteRecordResume
  <2>1. AppendRecord(curBlock, writeOffset, size) /\ writeOffset = 0
    BY <1>4, ZenonT(30) DEF WriteRecordResume, CallOK
  <2> QED
    BY <1>4, <2>1, AppendRecordTyped, SMTT(60)
    DEF TypeOK, CallOK, WriteRecordResume, diskVars, posVars
<1>5. CASE Sync
  BY <1>5, ZenonT(60) DEF TypeOK, CallOK, Sync, SyncEntry, diskVars, posVars, curVars, cntVars, recVars
<1>6. CASE Checkpoint
  BY <1>6, ZenonT(60) DEF TypeOK, CallOK, Checkpoint, SyncEntry, diskVars, posVars, curVars, cntVars, recVars
<1>7. CASE UpdateLabel
  BY <1>7, ZenonT(30) DEF TypeOK, CallOK, UpdateLabel, syncSuperblock, posVars, curVars, cntVars, callVars, recVars
<1>8. CASE SyncWrite
  <2>1. WriteCurBlock /\ curBlock' \in Records
    BY <1>8, RecordsTyped, ZenonT(30) DEF SyncWrite
  <2> QED
    BY <1>0, <1>8, <2>1, WriteCurBlockTyped, ZenonT(60) DEF TypeOK, CallOK, SyncWrite, KeepSuperblock
<1>9. CASE SyncDrain
  BY <1>9, ZenonT(30) DEF TypeOK, CallOK, SyncDrain, diskVars, posVars, curVars, cntVars, recVars
<1>10. CASE SyncCommit
  BY <1>10, RecordsTyped, ZenonT(30) DEF TypeOK, CallOK, SyncCommit, syncSuperblock, curVars, cntVars
<1>11. CASE SyncMetadata
  BY <1>11, ZenonT(30) DEF TypeOK, CallOK, SyncMetadata, diskVars, posVars, curVars, cntVars
<1>12. CASE SyncAllocPools
  BY <1>12, ZenonT(30) DEF TypeOK, CallOK, SyncAllocPools, syncSuperblock, posVars, curVars, cntVars, recVars
<1>13. CASE SyncBackPressure
  BY <1>13, ZenonT(60) DEF TypeOK, CallOK, SyncBackPressure, diskVars, posVars, curVars, cntVars, recVars
<1>14. CASE CheckpointAllocPools
  BY <1>14, ZenonT(30) DEF TypeOK, CallOK, CheckpointAllocPools, syncSuperblock, posVars, curVars, cntVars, recVars
<1>15. CASE CheckpointRetire
  BY <1>15, RecordsTyped, ZenonT(30) DEF TypeOK, CallOK, CheckpointRetire, diskVars, curVars
<1>16. CASE CheckpointPersist
  BY <1>16, ZenonT(60) DEF TypeOK, CallOK, CheckpointPersist, syncSuperblock, posVars, curVars, cntVars, recVars
<1>17. CASE Fault
  <2>1. ASSUME BlockWriteFails PROVE TypeOK' /\ CallOK'
    <3>1. ring' \in [RingBlocks -> Block]
      BY <2>1, JournalBlockTyped, ZenonT(30) DEF BlockWriteFails, TypeOK
    <3> QED
      BY <1>0, <2>1, <3>1, ZenonT(60)
      DEF TypeOK, CallOK, BlockWriteFails, AbortCall, KeepSuperblock, posVars, curVars, cntVars, recVars
  <2>2. ASSUME NEW s, CallOutFails(s) PROVE TypeOK' /\ CallOK'
    BY <1>0, <2>2, ZenonT(60) DEF TypeOK, CallOK, CallOutFails, AbortCall, diskVars, posVars, curVars, cntVars, recVars
  <2>3. ASSUME NEW s, SuperblockWriteFails(s) PROVE TypeOK' /\ CallOK'
    <3>1. live' \in Records /\ pend' \in Records /\ logEnd' \in UsableBlocks
      BY <2>3, RecordsTyped, ZenonT(60) DEF SuperblockWriteFails, TypeOK
    <3>2. sbStart' \in UsableBlocks /\ sbEnd' \in UsableBlocks /\ diskLive' \in Records
      BY <2>3, <3>1, ZenonT(30) DEF SuperblockWriteFails, TypeOK, syncSuperblock, KeepSuperblock
    <3> QED
      BY <1>0, <2>3, <3>1, <3>2, ZenonT(60) DEF TypeOK, CallOK, SuperblockWriteFails, AbortCall, curVars, cntVars
  <2> QED
    BY <1>17, <2>1, <2>2, <2>3, ZenonT(30) DEF Fault, WriteRecordFails, SyncWriteFails
<1>18. CASE Crash
  <2>1. curBlock' \in Records /\ pend' \in Records
    BY <1>18, RecordsTyped, ZenonT(30) DEF Crash
  <2> QED
    BY <1>0, <1>18, <2>1, ZenonT(60) DEF TypeOK, CallOK, Crash, diskVars
<1>19. CASE NewJournal
  BY <1>19, RecordsTyped, ZenonT(60) DEF TypeOK, CallOK, NewJournal, posVars, curVars, cntVars
<1>20. CASE MarkCleanAfterReplay
  BY <1>20, RecordsTyped, ZenonT(60) DEF TypeOK, CallOK, MarkCleanAfterReplay, syncSuperblock, curVars, cntVars
<1> QED
  BY <1>1, <1>2, <1>3, <1>4, <1>5, <1>6, <1>7, <1>8, <1>9, <1>10, <1>11, <1>12,
     <1>13, <1>14, <1>15, <1>16, <1>17, <1>18, <1>19, <1>20, ZenonT(30)
  DEF Next, CallStep, Recover

(* The journal's state keeps its type: in particular every position stays  *)
(* in the usable part of the ring, so no record block is ever written over *)
(* the checkpoint block, whatever I/O fails.                               *)
THEOREM TypeCorrect == Spec => []TypeOK
<1>1. TypeOK /\ CallOK /\ [Next]_vars => (TypeOK /\ CallOK)'
  BY StepTyped, ZenonT(30)
<1> QED
  BY InitTyped, <1>1, PTL DEF Spec

-----------------------------------------------------------------------------
(* Going round the ring from a, one advance of b moves on by its count     *)
(* until it reaches a again, a whole turn of JournalBlocks later.          *)
LEMMA RingStep ==
  ASSUME NEW a \in UsableBlocks, NEW b \in UsableBlocks
  PROVE  /\ RingDistance(a, b) \in 0..(JournalBlocks - 1)
         /\ RingDistance(a, a) = 0
         /\ Advance(b) = a => RingDistance(a, b) + AdvanceCount(b) = JournalBlocks
         /\ Advance(b) # a =>
              RingDistance(a, Advance(b)) = RingDistance(a, b) + AdvanceCount(b)
  BY SMTT(60) DEF RingDistance, Advance, AdvanceCount, NextRingBlock, UsableBlocks,
         RingBlocks, checkpointBlk, journalEnd

LEMMA WriteCurBlockCounted ==
  ASSUME TypeOK, PositionsCounted, WriteCurBlock, logStart' = logStart
  PROVE  PositionsCounted'
<1>1. PICK t \in 0..blocksSinceCheckpoint :
        blocksSinceCheckpoint = t * JournalBlocks + RingDistance(logStart, writePos)
  BY ZenonT(30) DEF PositionsCounted
<1>2. /\ RingDistance(logStart, writePos) \in Nat
      /\ AdvanceCount(writePos) \in {1, 2}
      /\ writePos' = Advance(writePos)
      /\ blocksSinceCheckpoint' = blocksSinceCheckpoint + AdvanceCount(writePos)
      /\ blocksSinceCheckpoint \in Nat
  BY RingStep, AdvanceUsable, SMTT(60) DEF TypeOK, WriteCurBlock
<1>3. t * JournalBlocks \in Nat /\ (t + 1) * JournalBlocks = t * JournalBlocks + JournalBlocks
  BY SMTT(60) DEF TypeOK
<1>4. CASE Advance(writePos) = logStart
  <2>1. /\ RingDistance(logStart, writePos) + AdvanceCount(writePos) = JournalBlocks
        /\ RingDistance(logStart, Advance(writePos)) = 0
    BY <1>4, RingStep, ZenonT(30) DEF TypeOK
  <2>2. /\ t + 1 \in 0..blocksSinceCheckpoint'
        /\ blocksSinceCheckpoint' =
             (t + 1) * JournalBlocks + RingDistance(logStart', writePos')
    BY <1>1, <1>2, <1>3, <2>1, SMTT(60)
  <2> QED
    BY <2>2, ZenonT(30) DEF PositionsCounted, RingDistance
<1>5. CASE Advance(writePos) # logStart
  <2>1. RingDistance(logStart, Advance(writePos)) =
          RingDistance(logStart, writePos) + AdvanceCount(writePos)
    BY <1>5, RingStep, ZenonT(30) DEF TypeOK
  <2>2. /\ t \in 0..blocksSinceCheckpoint'
        /\ blocksSinceCheckpoint' =
             t * JournalBlocks + RingDistance(logStart', writePos')
    BY <1>1, <1>2, <1>3, <2>1, SMTT(60)
  <2> QED
    BY <2>2, ZenonT(30) DEF PositionsCounted, RingDistance
<1> QED
  BY <1>4, <1>5, ZenonT(30)

LEMMA EmptyCounted ==
  ASSUME logStart \in UsableBlocks, writePos = logStart, blocksSinceCheckpoint = 0
  PROVE  PositionsCounted
<1>1. 0 = 0 * JournalBlocks + RingDistance(logStart, writePos) /\ 0 \in 0..0
  BY RingStep, SMTT(60)
<1> QED
  BY <1>1, ZenonT(30) DEF PositionsCounted

LEMMA StepCounted ==
  TypeOK /\ CallOK /\ PositionsCounted /\ [Next]_vars => PositionsCounted'
<1> SUFFICES ASSUME TypeOK, CallOK, PositionsCounted, [Next]_vars
             PROVE  PositionsCounted'
  BY ZenonT(30)
<1>1. CASE UNCHANGED <<logStart, writePos, blocksSinceCheckpoint>>
  BY <1>1, ZenonT(30) DEF PositionsCounted, RingDistance
<1>2. CASE WriteCurBlock /\ logStart' = logStart
  BY <1>2, WriteCurBlockCounted, ZenonT(30)
<1>3. CASE /\ logStart' \in UsableBlocks
           /\ writePos' = logStart' /\ blocksSinceCheckpoint' = 0
  <2>1. 0 = 0 * JournalBlocks + RingDistance(logStart', writePos') /\ 0 \in 0..0
    BY <1>3, RingStep, SMTT(60)
  <2> QED
    BY <1>3, <2>1, ZenonT(30) DEF PositionsCounted, RingDistance
<1> DEFINE Kinds == \/ UNCHANGED <<logStart, writePos, blocksSinceCheckpoint>>
                    \/ WriteCurBlock /\ logStart' = logStart
                    \/ /\ logStart' \in UsableBlocks
                       /\ writePos' = logStart' /\ blocksSinceCheckpoint' = 0
<1> HIDE DEF Kinds
<1>4. Kinds
  <2>1. CASE UNCHANGED vars
    BY <2>1, ZenonT(30) DEF Kinds, vars, posVars, cntVars
  <2>2. ASSUME NEW sz \in RecordSizes, WriteRecordFits(sz) \/ WriteRecordOverflow(sz)
        PROVE  Kinds
    BY <2>2, ZenonT(30) DEF Kinds, WriteRecordFits, WriteRecordOverflow, posVars
  <2>3. CASE Sync \/ Checkpoint \/ UpdateLabel
    BY <2>3, ZenonT(60) DEF Kinds, Sync, Checkpoint, UpdateLabel, posVars, cntVars
  <2>4. CASE WriteRecordResume \/ SyncWrite \/ SyncDrain \/ SyncCommit \/ SyncMetadata
    BY <2>4, ZenonT(30) DEF Kinds, WriteRecordResume, SyncWrite, SyncDrain, SyncCommit,
                SyncMetadata, posVars, cntVars
  <2>5. CASE SyncAllocPools \/ SyncBackPressure \/ CheckpointAllocPools \/ CheckpointPersist
    BY <2>5, ZenonT(30) DEF Kinds, SyncAllocPools, SyncBackPressure, CheckpointAllocPools,
                CheckpointPersist, posVars, cntVars
  <2>6. CASE CheckpointRetire
    BY <2>6, ZenonT(30) DEF Kinds, CheckpointRetire, TypeOK
  <2>7. CASE Fault
    BY <2>7, ZenonT(30) DEF Kinds, Fault, WriteRecordFails, SyncWriteFails, BlockWriteFails,
                 CallOutFails, SuperblockWriteFails, posVars, cntVars
  <2>8. CASE Crash
    BY <2>8, ZenonT(30) DEF Kinds, Crash, TypeOK
  <2>9. CASE NewJournal
    BY <2>9, ZenonT(30) DEF Kinds, NewJournal, posVars, cntVars
  <2>10. CASE MarkCleanAfterReplay
    BY <2>10, ZenonT(30) DEF Kinds, MarkCleanAfterReplay, TypeOK
  <2> QED
    BY <2>1, <2>2, <2>3, <2>4, <2>5, <2>6, <2>7, <2>8, <2>9, <2>10, ZenonT(30)
    DEF Next, CallStep, Recover
<1> QED
  BY <1>1, <1>2, <1>3, <1>4, ZenonT(30) DEF Kinds

(* blocksSinceCheckpoint always tells a full ring from an empty one, for   *)
(* every ring size and whatever I/O fails: it counts the positions from    *)
(* log_start to write_pos, whole turns included.                           *)
THEOREM PositionsAreCounted == Spec => []PositionsCounted
<1>1. Init => PositionsCounted
  <2> SUFFICES ASSUME Init PROVE PositionsCounted
    BY ZenonT(30)
  <2>1. logStart \in UsableBlocks /\ writePos = logStart /\ blocksSinceCheckpoint = 0
    BY InitTyped, ZenonT(30) DEF Init, TypeOK
  <2> QED
    BY <2>1, EmptyCounted, ZenonT(30)
<1>2. /\ TypeOK /\ CallOK /\ PositionsCounted /\ [Next]_vars
      => (TypeOK /\ CallOK /\ PositionsCounted)'
  BY StepTyped, StepCounted, ZenonT(30)
<1> QED
  BY InitTyped, <1>1, <1>2, PTL DEF Spec

-----------------------------------------------------------------------------
(* The faults after which the journal is still sound: a failed block write,*)
(* metadata flush or allocator flush.  A failed data drain, commit or      *)
(* checkpoint step is not among them.                                      *)
SafeFaults == FaultSteps \subseteq {"r_write", "s_write", "s_meta", "s_alloc"}

(* Disk and memory agree on the log except while a checkpoint persists its *)
(* retirement; and where a block may be written, the position is not in    *)
(* the live log.                                                           *)
LogOK ==
  /\ pc # "c_super" => sbStart = logStart /\ sbEnd = logEnd
  /\ pc = "c_super" => logStart = writePos /\ logEnd = writePos
  /\ pc \in {"idle", "append", "s_write", "s_meta", "s_alloc", "s_bp"}
       => ~InLog(writePos, logStart, logEnd)

LEMMA InitLogOK == Init => LogOK
  BY InitTyped, RingStep, SMTT(60) DEF Init, LogOK, InLog, TypeOK

LEMMA StepLogOK ==
  ASSUME SafeFaults
  PROVE  TypeOK /\ CallOK /\ LogOK /\ [Next]_vars => LogOK'
<1> SUFFICES ASSUME TypeOK, CallOK, LogOK, [Next]_vars PROVE LogOK'
  BY ZenonT(30)
<1>0. \A a \in UsableBlocks : ~InLog(a, a, a)
  BY RingStep, SMTT(60) DEF InLog
<1>1. CASE UNCHANGED vars
  BY <1>1, ZenonT(30) DEF LogOK, InLog, RingDistance, vars, diskVars, posVars, callVars
<1>2. ASSUME NEW sz \in RecordSizes, WriteRecordFits(sz) PROVE LogOK'
  BY <1>2, ZenonT(30) DEF LogOK, InLog, RingDistance, WriteRecordFits, diskVars, posVars, callVars
<1>3. ASSUME WriteCurBlock, pc \in {"idle", "s_write"}, logStart' = logStart, logEnd' = logEnd,
             writePos' # logStart
      PROVE  ~InLog(writePos', logStart', logEnd')
  <2>1. RingDistance(logStart, Advance(writePos)) =
          RingDistance(logStart, writePos) + AdvanceCount(writePos)
    BY <1>3, RingStep, ZenonT(30) DEF TypeOK, WriteCurBlock
  <2>2. /\ RingDistance(logStart, writePos) \in Nat
        /\ RingDistance(logStart, logEnd) \in Nat
        /\ AdvanceCount(writePos) \in {1, 2}
    BY RingStep, AdvanceUsable, SMTT(60) DEF TypeOK
  <2>3. ~(RingDistance(logStart, writePos) < RingDistance(logStart, logEnd))
    BY <1>3, ZenonT(30) DEF LogOK, InLog
  <2>4. ~(RingDistance(logStart, Advance(writePos)) < RingDistance(logStart, logEnd))
    BY <2>1, <2>2, <2>3, SMTT(60)
  <2> QED
    BY <1>3, <2>4, ZenonT(30) DEF InLog, WriteCurBlock, RingDistance
<1>4. ASSUME NEW sz \in RecordSizes, WriteRecordOverflow(sz) PROVE LogOK'
  BY <1>3, <1>4, ZenonT(30) DEF LogOK, WriteRecordOverflow, KeepSuperblock
<1>5. CASE WriteRecordResume
  BY <1>5, ZenonT(30) DEF LogOK, InLog, RingDistance, WriteRecordResume, diskVars, posVars
<1>6. CASE Sync
  BY <1>6, ZenonT(30) DEF LogOK, InLog, RingDistance, Sync, SyncEntry, diskVars, posVars
<1>7. CASE Checkpoint
  BY <1>7, ZenonT(30) DEF LogOK, InLog, RingDistance, Checkpoint, SyncEntry, diskVars, posVars
<1>8. CASE UpdateLabel
  BY <1>8, ZenonT(30) DEF LogOK, InLog, RingDistance, UpdateLabel, syncSuperblock, posVars, callVars
<1>9. CASE SyncWrite
  BY <1>9, ZenonT(30) DEF LogOK, SyncWrite, KeepSuperblock
<1>10. CASE SyncDrain
  BY <1>10, ZenonT(30) DEF LogOK, SyncDrain, diskVars, posVars
<1>11. CASE SyncCommit
  <2>1. ~InLog(writePos', logStart', logEnd')
    BY <1>11, SMTT(60) DEF SyncCommit, TypeOK, InLog, RingDistance, UsableBlocks, RingBlocks,
       checkpointBlk, journalEnd
  <2> QED
    BY <1>11, <2>1, ZenonT(30) DEF LogOK, SyncCommit, syncSuperblock
<1>12. CASE SyncMetadata
  BY <1>12, ZenonT(30) DEF LogOK, InLog, RingDistance, SyncMetadata, diskVars, posVars
<1>13. CASE SyncAllocPools
  BY <1>13, ZenonT(30) DEF LogOK, InLog, RingDistance, SyncAllocPools, syncSuperblock, posVars
<1>14. CASE SyncBackPressure
  BY <1>14, ZenonT(30) DEF LogOK, InLog, RingDistance, SyncBackPressure, diskVars, posVars
<1>15. CASE CheckpointAllocPools
  BY <1>15, ZenonT(30) DEF LogOK, CheckpointAllocPools, syncSuperblock, posVars
<1>16. CASE CheckpointRetire
  BY <1>16, ZenonT(30) DEF LogOK, CheckpointRetire
<1>17. CASE CheckpointPersist
  <2>1. ~InLog(writePos', logStart', logEnd')
    BY <1>0, <1>17, ZenonT(30) DEF CheckpointPersist, LogOK, TypeOK, InLog, RingDistance, posVars
  <2> QED
    BY <1>17, <2>1, ZenonT(30) DEF LogOK, CheckpointPersist, syncSuperblock, posVars, TypeOK
<1>18. CASE Fault
  <2>1. ASSUME BlockWriteFails, pc \in {"idle", "s_write"} PROVE LogOK'
    BY <2>1, ZenonT(30) DEF LogOK, InLog, RingDistance, BlockWriteFails, AbortCall, KeepSuperblock, posVars
  <2>2. ASSUME NEW s \in {"s_drain", "s_meta", "c_block"}, CallOutFails(s) PROVE LogOK'
    BY <2>2, ZenonT(30) DEF SafeFaults, LogOK, InLog, RingDistance, CallOutFails, AbortCall, diskVars, posVars
  <2>3. ASSUME NEW s \in {"s_commit", "s_alloc", "c_alloc", "c_super"}, SuperblockWriteFails(s)
        PROVE  LogOK'
    BY <2>3, ZenonT(30) DEF SafeFaults, LogOK, InLog, RingDistance, SuperblockWriteFails, AbortCall,
                syncSuperblock, KeepSuperblock
  <2> QED
    BY <1>18, <2>1, <2>2, <2>3, ZenonT(30) DEF Fault, WriteRecordFails, SyncWriteFails
<1>19. CASE Crash
  BY <1>19, ZenonT(30) DEF LogOK, Crash, diskVars
<1>20. CASE NewJournal
  <2>1. CASE sbStart = sbEnd
    <3>1. ~InLog(writePos', logStart', logEnd')
      BY <1>20, <2>1, RingStep, SMTT(60) DEF NewJournal, LogOK, TypeOK, InLog, posVars, RingDistance,
         UsableBlocks, RingBlocks, checkpointBlk, journalEnd
    <3> QED
      BY <1>20, <3>1, ZenonT(30) DEF LogOK, NewJournal, posVars
  <2>2. CASE sbStart # sbEnd
    BY <1>20, <2>2, ZenonT(30) DEF LogOK, NewJournal, posVars
  <2> QED
    BY <2>1, <2>2, ZenonT(30)
<1>21. CASE MarkCleanAfterReplay
  <2>1. ~InLog(writePos', logStart', logEnd')
    BY <1>0, <1>21, ZenonT(30) DEF MarkCleanAfterReplay, TypeOK, InLog, RingDistance
  <2> QED
    BY <1>21, <2>1, ZenonT(30) DEF LogOK, MarkCleanAfterReplay, syncSuperblock
<1> QED
  BY <1>1, <1>2, <1>4, <1>5, <1>6, <1>7, <1>8, <1>9, <1>10, <1>11, <1>12, <1>13, ZenonT(30),
     <1>14, <1>15, <1>16, <1>17, <1>18, <1>19, <1>20, <1>21
  DEF Next, CallStep, Recover

(* Only these steps write a record block, and always at writePos.          *)
LEMMA OnlyWritePosChanges ==
  [Next]_vars => \/ ring' = ring
                 \/ /\ pc \in {"idle", "s_write"}
                    /\ ring' = [ring EXCEPT ![writePos] = JournalBlock(curBlock)]
<1> DEFINE Writes == \/ ring' = ring
                     \/ /\ pc \in {"idle", "s_write"}
                        /\ ring' = [ring EXCEPT ![writePos] = JournalBlock(curBlock)]
<1> SUFFICES ASSUME [Next]_vars PROVE Writes
  BY ZenonT(30)
<1>1. CASE UNCHANGED vars
  BY <1>1, ZenonT(30) DEF vars, diskVars
<1>2. ASSUME NEW sz \in RecordSizes, WriteRecordFits(sz) \/ WriteRecordOverflow(sz)
      PROVE  Writes
  BY <1>2, ZenonT(30) DEF WriteRecordFits, WriteRecordOverflow, WriteCurBlock, diskVars
<1>3. CASE Sync \/ Checkpoint \/ UpdateLabel
  BY <1>3, ZenonT(60) DEF Sync, Checkpoint, UpdateLabel, diskVars
<1>4. CASE CallStep
  BY <1>4, ZenonT(30) DEF CallStep, WriteRecordResume, SyncWrite, WriteCurBlock, SyncDrain, SyncCommit,
     SyncMetadata, SyncAllocPools, SyncBackPressure, CheckpointAllocPools,
     CheckpointRetire, CheckpointPersist, diskVars
<1>5. CASE Fault
  BY <1>5, ZenonT(30) DEF Fault, WriteRecordFails, SyncWriteFails, BlockWriteFails, CallOutFails,
     SuperblockWriteFails, diskVars
<1>6. CASE Crash \/ Recover
  BY <1>6, ZenonT(30) DEF Crash, Recover, NewJournal, MarkCleanAfterReplay, diskVars
<1> QED
  BY <1>1, <1>2, <1>3, <1>4, <1>5, <1>6, ZenonT(30) DEF Next

-----------------------------------------------------------------------------
(* dirty covers the pending block, and a call that could still report      *)
(* success holds no record outside the log it has committed or retired.    *)
CommitOK ==
  /\ ~dirty => curBlock = <<>>
  /\ pc # "c_super" => diskLive = live
  /\ pc = "c_super" => pend = <<>>
  /\ pc = "idle" /\ ~dirty => pend = <<>>
  /\ pc \in {"down", "replay", "s_meta", "s_alloc", "s_bp"} => ~dirty /\ pend = <<>>
  /\ pc \in {"s_drain", "s_commit"} => ~dirty
  /\ pc = "s_write" \/ ret = "s_write" => dirty
  /\ pc \in {"c_alloc", "c_block", "c_super"} /\ ret # "s_write" => ~dirty
  /\ result = "synced" => pc = "idle" /\ ~dirty

LEMMA InitCommitOK == Init => CommitOK
  BY ZenonT(30) DEF Init, CommitOK

LEMMA StepCommitOK ==
  ASSUME SafeFaults
  PROVE  TypeOK /\ CallOK /\ CommitOK /\ [Next]_vars => CommitOK'
<1> SUFFICES ASSUME TypeOK, CallOK, CommitOK, [Next]_vars PROVE CommitOK'
  BY ZenonT(30)
<1> USE DEF CommitOK, CallOK
<1>1. CASE UNCHANGED vars
  BY <1>1, ZenonT(30) DEF vars, diskVars, curVars, callVars, recVars
<1>2. ASSUME NEW sz \in RecordSizes, WriteRecordFits(sz) PROVE CommitOK'
  BY <1>2, ZenonT(30) DEF WriteRecordFits, AppendRecord, diskVars, callVars
<1>3. ASSUME NEW sz \in RecordSizes, WriteRecordOverflow(sz) PROVE CommitOK'
  BY <1>3, ZenonT(30) DEF WriteRecordOverflow, AppendRecord, KeepSuperblock
<1>4. CASE WriteRecordResume
  BY <1>4, ZenonT(30) DEF WriteRecordResume, AppendRecord, diskVars
<1>5. CASE Sync
  BY <1>5, ZenonT(30) DEF Sync, SyncEntry, diskVars, curVars, recVars
<1>6. CASE Checkpoint
  BY <1>6, ZenonT(30) DEF Checkpoint, SyncEntry, diskVars, curVars, recVars
<1>7. CASE UpdateLabel
  BY <1>7, ZenonT(30) DEF UpdateLabel, syncSuperblock, curVars, callVars, recVars
<1>8. CASE SyncWrite
  BY <1>8, ZenonT(30) DEF SyncWrite, KeepSuperblock
<1>9. CASE SyncDrain
  BY <1>9, ZenonT(30) DEF SyncDrain, diskVars, curVars, recVars
<1>10. CASE SyncCommit
  BY <1>10, ZenonT(30) DEF SyncCommit, syncSuperblock, curVars
<1>11. CASE SyncMetadata
  BY <1>11, ZenonT(30) DEF SyncMetadata, diskVars, curVars
<1>12. CASE SyncAllocPools
  BY <1>12, ZenonT(30) DEF SyncAllocPools, syncSuperblock, curVars, recVars
<1>13. CASE SyncBackPressure
  BY <1>13, ZenonT(30) DEF SyncBackPressure, diskVars, curVars, recVars
<1>14. CASE CheckpointAllocPools
  BY <1>14, ZenonT(30) DEF CheckpointAllocPools, syncSuperblock, curVars, recVars
<1>15. CASE CheckpointRetire
  BY <1>15, ZenonT(30) DEF CheckpointRetire, diskVars, curVars
<1>16. CASE CheckpointPersist
  BY <1>16, ZenonT(30) DEF CheckpointPersist, syncSuperblock, curVars, recVars, TypeOK
<1>17. CASE Fault
  <2>1. ASSUME BlockWriteFails, pc \in {"idle", "s_write"} PROVE CommitOK'
    BY <2>1, ZenonT(30) DEF BlockWriteFails, AbortCall, KeepSuperblock, curVars, recVars
  <2>2. ASSUME NEW s \in {"s_drain", "s_meta", "c_block"}, CallOutFails(s) PROVE CommitOK'
    BY <2>2, ZenonT(30) DEF SafeFaults, CallOutFails, AbortCall, diskVars, curVars, recVars
  <2>3. ASSUME NEW s \in {"s_commit", "s_alloc", "c_alloc", "c_super"}, SuperblockWriteFails(s)
        PROVE  CommitOK'
    BY <2>3, ZenonT(30) DEF SafeFaults, SuperblockWriteFails, AbortCall, syncSuperblock, KeepSuperblock, curVars
  <2> QED
    BY <1>17, <2>1, <2>2, <2>3, ZenonT(30) DEF Fault, WriteRecordFails, SyncWriteFails
<1>18. CASE Crash
  BY <1>18, ZenonT(30) DEF Crash, diskVars
<1>19. CASE NewJournal
  BY <1>19, ZenonT(30) DEF NewJournal, curVars
<1>20. CASE MarkCleanAfterReplay
  BY <1>20, ZenonT(30) DEF MarkCleanAfterReplay, syncSuperblock
<1> QED
  BY <1>1, <1>2, <1>3, <1>4, <1>5, <1>6, <1>7, <1>8, <1>9, <1>10, <1>11, <1>12, ZenonT(60),
     <1>13, <1>14, <1>15, <1>16, <1>17, <1>18, <1>19, <1>20
  DEF Next, CallStep, Recover

(* A Sync or Checkpoint that reports success has committed or retired      *)
(* every record accepted before it, so a crash right after it loses        *)
(* nothing, as long as no data drain, commit or checkpoint step has failed *)
(* on the way.                                                             *)
THEOREM SuccessMeansCommitted == SafeFaults => (Spec => []SyncedIsCommitted)
<1> SUFFICES ASSUME SafeFaults PROVE Spec => []SyncedIsCommitted
  BY ZenonT(30)
<1>1. TypeOK /\ CallOK /\ CommitOK /\ [Next]_vars => (TypeOK /\ CallOK /\ CommitOK)'
  BY StepTyped, StepCommitOK, ZenonT(30)
<1>2. CommitOK => SyncedIsCommitted
  BY ZenonT(30) DEF CommitOK, SyncedIsCommitted
<1> QED
  BY InitTyped, InitCommitOK, <1>1, <1>2, PTL DEF Spec

-----------------------------------------------------------------------------
(* A log that fills the ring: equal boundaries, with records between them. *)
FullRing == logStart = logEnd /\ live # <<>>

(* A full ring has at least one turn counted.  Where a sync is about to    *)
(* write its block, it has more: the ring was retired first unless an      *)
(* overflow has gone past its start.                                       *)
FullOK ==
  /\ inCheckpoint => pc \in {"c_alloc", "c_block", "c_super"}
  /\ pc \in {"s_drain", "s_commit"} => blocksSinceCheckpoint > 0
  /\ pc = "c_super" => live = <<>>
  /\ pc \notin {"down", "replay"} /\ FullRing => blocksSinceCheckpoint >= JournalBlocks
  /\ pc = "s_write" /\ FullRing => blocksSinceCheckpoint > JournalBlocks

LEMMA TurnCounted ==
  ASSUME TypeOK, PositionsCounted
  PROVE  /\ writePos = logStart /\ blocksSinceCheckpoint > 0
              => blocksSinceCheckpoint >= JournalBlocks
         /\ writePos # logStart /\ blocksSinceCheckpoint >= JournalBlocks
              => blocksSinceCheckpoint > JournalBlocks
<1>1. PICK t \in 0..blocksSinceCheckpoint :
        blocksSinceCheckpoint = t * JournalBlocks + RingDistance(logStart, writePos)
  BY ZenonT(30) DEF PositionsCounted
<1>2. /\ writePos = logStart => RingDistance(logStart, writePos) = 0
      /\ writePos # logStart => RingDistance(logStart, writePos) > 0
      /\ RingDistance(logStart, writePos) \in 0..(JournalBlocks - 1)
  BY RingStep, SMTT(60) DEF TypeOK, RingDistance, UsableBlocks, RingBlocks, checkpointBlk, journalEnd
<1>3. CASE t = 0
  BY <1>1, <1>2, <1>3, SMTT(60) DEF TypeOK
<1>4. CASE t # 0
  <2>1. /\ t - 1 \in Nat /\ JournalBlocks \in Nat
        /\ t * JournalBlocks = (t - 1) * JournalBlocks + JournalBlocks
    BY <1>4, SMTT(60) DEF TypeOK
  <2>2. (t - 1) * JournalBlocks >= 0
    BY <2>1, SMTT(60)
  <2>3. (t - 1) * JournalBlocks \in Int
    BY <2>1, SMTT(60)
  <2> QED
    BY <1>1, <1>2, <2>1, <2>2, <2>3, SMTT(60) DEF TypeOK
<1> QED
  BY <1>3, <1>4, ZenonT(30)

LEMMA InitFullOK == Init => FullOK
  BY ZenonT(30) DEF Init, FullOK, FullRing

LEMMA StepFullOK ==
  ASSUME SafeFaults
  PROVE  TypeOK /\ CallOK /\ PositionsCounted /\ FullOK /\ [Next]_vars => FullOK'
<1> SUFFICES ASSUME TypeOK, CallOK, PositionsCounted, FullOK, [Next]_vars PROVE FullOK'
  BY ZenonT(30)
<1> USE DEF FullOK, FullRing
<1>1. CASE UNCHANGED vars
  BY <1>1, ZenonT(30) DEF vars, posVars, cntVars, callVars, recVars
<1>2. ASSUME NEW sz \in RecordSizes, WriteRecordFits(sz) PROVE FullOK'
  BY <1>2, ZenonT(30) DEF WriteRecordFits, posVars, callVars
<1>w. ASSUME WriteCurBlock
      PROVE  /\ blocksSinceCheckpoint' > 0
             /\ blocksSinceCheckpoint >= JournalBlocks => blocksSinceCheckpoint' >= JournalBlocks
  <2>1. AdvanceCount(writePos) \in {1, 2}
    BY AdvanceUsable, ZenonT(30) DEF TypeOK
  <2> QED
    BY <1>w, <2>1, SMTT(60) DEF TypeOK, WriteCurBlock
<1>3. ASSUME NEW sz \in RecordSizes, WriteRecordOverflow(sz) PROVE FullOK'
  BY <1>3, <1>w, ZenonT(30) DEF WriteRecordOverflow
<1>4. CASE WriteRecordResume
  BY <1>4, ZenonT(30) DEF WriteRecordResume, posVars
<1>e. ASSUME pc = "idle", NEW arg, SyncEntry(arg), UNCHANGED <<posVars, cntVars, live>>
      PROVE  FullOK'
  <2>1. CASE SyncRetireFirst
    BY <1>e, <2>1, ZenonT(30) DEF SyncEntry, posVars, cntVars
  <2>2. CASE ~SyncRetireFirst
    <3>1. FullRing => writePos # logStart
      <4>1. blocksSinceCheckpoint >= JournalBlocks => blocksSinceCheckpoint > 0
        BY SMTT(60) DEF TypeOK
      <4> QED
        BY <1>e, <2>2, <4>1, ZenonT(30) DEF SyncRetireFirst
    <3>2. FullRing => blocksSinceCheckpoint > JournalBlocks
      BY <1>e, <3>1, TurnCounted, ZenonT(30)
    <3> QED
      BY <1>e, <2>2, <3>2, ZenonT(30) DEF SyncEntry, posVars, cntVars
  <2> QED
    BY <2>1, <2>2, ZenonT(30)
<1>5. CASE Sync
  BY <1>5, <1>e, ZenonT(30) DEF Sync, posVars, cntVars, recVars
<1>6. CASE Checkpoint
  BY <1>6, <1>e, ZenonT(30) DEF Checkpoint, posVars, cntVars, recVars
<1>7. CASE UpdateLabel
  BY <1>7, ZenonT(30) DEF UpdateLabel, posVars, cntVars, callVars, recVars
<1>8. CASE SyncWrite
  BY <1>8, <1>w, ZenonT(30) DEF SyncWrite
<1>9. CASE SyncDrain
  BY <1>9, ZenonT(30) DEF SyncDrain, posVars, cntVars, recVars
<1>10. CASE SyncCommit
  BY <1>10, TurnCounted, ZenonT(30) DEF SyncCommit, cntVars
<1>11. CASE SyncMetadata
  BY <1>11, ZenonT(30) DEF SyncMetadata, posVars, cntVars
<1>12. CASE SyncAllocPools
  BY <1>12, ZenonT(30) DEF SyncAllocPools, posVars, cntVars, recVars
<1>13. CASE SyncBackPressure
  BY <1>13, ZenonT(30) DEF SyncBackPressure, posVars, cntVars, recVars
<1>14. CASE CheckpointAllocPools
  BY <1>14, ZenonT(30) DEF CheckpointAllocPools, posVars, cntVars, recVars
<1>15. CASE CheckpointRetire
  BY <1>15, ZenonT(30) DEF CheckpointRetire
<1>16. CASE CheckpointPersist
  BY <1>16, ZenonT(30) DEF CheckpointPersist, posVars, cntVars, recVars, TypeOK
<1>17. CASE Fault
  <2>1. ASSUME BlockWriteFails, pc \in {"idle", "s_write"} PROVE FullOK'
    BY <2>1, ZenonT(30) DEF BlockWriteFails, AbortCall, posVars, cntVars, recVars
  <2>2. ASSUME NEW s \in {"s_drain", "s_meta", "c_block"}, CallOutFails(s) PROVE FullOK'
    BY <2>2, ZenonT(30) DEF SafeFaults, CallOutFails, AbortCall, posVars, cntVars, recVars
  <2>3. ASSUME NEW s \in {"s_commit", "s_alloc", "c_alloc", "c_super"}, SuperblockWriteFails(s)
        PROVE  FullOK'
    BY <2>3, ZenonT(30) DEF SafeFaults, SuperblockWriteFails, AbortCall, cntVars
  <2> QED
    BY <1>17, <2>1, <2>2, <2>3, ZenonT(30) DEF Fault, WriteRecordFails, SyncWriteFails
<1>18. CASE Crash
  BY <1>18, ZenonT(30) DEF Crash
<1>19. CASE NewJournal
  BY <1>19, ZenonT(30) DEF NewJournal, posVars, cntVars
<1>20. CASE MarkCleanAfterReplay
  BY <1>20, ZenonT(30) DEF MarkCleanAfterReplay
<1> QED
  BY <1>1, <1>2, <1>3, <1>4, <1>5, <1>6, <1>7, <1>8, <1>9, <1>10, <1>11, <1>12, ZenonT(60),
     <1>13, <1>14, <1>15, <1>16, <1>17, <1>18, <1>19, <1>20
  DEF Next, CallStep, Recover

(* Whatever the ring size and the interleaving of syncs, overflows,        *)
(* checkpoints and crashes, no block write lands in a log on disk that     *)
(* leaves a block of the ring free, and no sync writes over one that fills *)
(* it, as long as no data drain, commit or checkpoint step fails.  The     *)
(* write that is left is an overflow of WriteRecord into a full ring.      *)
THEOREM LiveBlocksAreKept == SafeFaults => (Spec => SyncKeepsLive)
<1> SUFFICES ASSUME SafeFaults PROVE Spec => SyncKeepsLive
  BY ZenonT(30)
<1> DEFINE Inv == TypeOK /\ CallOK /\ PositionsCounted /\ LogOK /\ CommitOK /\ FullOK
           Kept == \A b \in UsableBlocks :
                     /\ LiveBlock(b)
                     /\ sbStart # sbEnd \/ (pc = "s_write" /\ blocksSinceCheckpoint <= JournalBlocks)
                     => ring'[b] = ring[b]
<1>1. Init => Inv
  <2> SUFFICES ASSUME Init PROVE Inv
    BY ZenonT(30)
  <2>1. logStart \in UsableBlocks /\ writePos = logStart /\ blocksSinceCheckpoint = 0
    BY InitTyped, ZenonT(30) DEF Init, TypeOK
  <2> QED
    BY <2>1, EmptyCounted, InitTyped, InitLogOK, InitCommitOK, InitFullOK, ZenonT(30)
<1>2. Inv /\ [Next]_vars => Inv'
  BY StepTyped, StepCounted, StepLogOK, StepCommitOK, StepFullOK, ZenonT(30)
<1>3. Inv /\ [Next]_vars => [Kept]_vars
  <2> SUFFICES ASSUME Inv, [Next]_vars, NEW b \in UsableBlocks, LiveBlock(b),
                      \/ sbStart # sbEnd
                      \/ pc = "s_write" /\ blocksSinceCheckpoint <= JournalBlocks,
                      pc \in {"idle", "s_write"},
                      ring' = [ring EXCEPT ![writePos] = JournalBlock(curBlock)]
               PROVE  ring'[b] = ring[b]
    BY OnlyWritePosChanges, ZenonT(30)
  <2>1. sbStart = logStart /\ sbEnd = logEnd /\ diskLive = live
    BY ZenonT(30) DEF LogOK, CommitOK
  <2>2. sbStart # sbEnd
    <3>1. ~(blocksSinceCheckpoint > JournalBlocks /\ blocksSinceCheckpoint <= JournalBlocks)
      BY SMTT(60) DEF TypeOK
    <3> QED
      BY <2>1, <3>1, ZenonT(30) DEF LiveBlock, FullOK, FullRing
  <2>3. b # writePos
    BY <2>1, <2>2, ZenonT(30) DEF LiveBlock, LogOK
  <2> QED
    BY <2>3, AdvanceUsable, ZenonT(30) DEF TypeOK
<1> HIDE DEF Inv
<1> QED
  BY <1>1, <1>2, <1>3, PTL DEF Spec, SyncKeepsLive

-----------------------------------------------------------------------------
(* What a mount replays                                                    *)
(* Induction over the numbers, for a property given as the set of those    *)
(* that have it.                                                           *)
LEMMA SetInduction ==
  ASSUME NEW S, 0 \in S, \A n \in Nat : n \in S => n + 1 \in S
  PROVE  Nat \subseteq S
<1> SUFFICES ASSUME Nat \ S # {} PROVE FALSE
  BY ZenonT(30)
<1>1. PICK x \in Nat \ S : \A y \in Nat \ S : ~ (<<y, x>> \in OpToRel(<, Nat))
  BY NatLessThanWellFounded, WFMin, ZenonT(60)
<1>2. \A y, z \in Nat : y < z => <<y, z>> \in OpToRel(<, Nat)
  BY ZenonT(60) DEF OpToRel
<1>3. \A y \in Nat \ S : ~ (y < x)
  BY <1>1, <1>2, ZenonT(60)
<1>4. x # 0 /\ x - 1 \in Nat /\ x - 1 < x /\ (x - 1) + 1 = x
  BY SMTT(60)
<1>5. x - 1 \in S
  BY <1>3, <1>4, ZenonT(30)
<1> QED
  BY <1>4, <1>5, ZenonT(30)

(* A function defined by recursion from its last argument downwards, as    *)
(* walkJournal's loop is, exists.                                          *)
LEMMA DownwardRecursion ==
  ASSUME NEW N \in Nat, NEW rec \in [0..N -> Records], NEW stop \in [0..N -> BOOLEAN], stop[N]
  PROVE  \E f \in [0..N -> Records] : \A k \in 0..N :
           f[k] = IF stop[k] THEN <<>> ELSE rec[k] \o f[k + 1]
<1> DEFINE Solves(f, j) == \A k \in j..N : f[k] = IF stop[k] THEN <<>> ELSE rec[k] \o f[k + 1]
           S == {i \in Nat : i <= N => \E f \in [(N - i)..N -> Records] : Solves(f, N - i)}
<1>1. 0 \in S
  <2>1. [k \in (N - 0)..N |-> <<>>] \in [(N - 0)..N -> Records]
    BY RecordsTyped, ZenonT(30)
  <2>2. Solves([k \in (N - 0)..N |-> <<>>], N - 0)
    BY SMTT(60)
  <2> QED
    BY <2>1, <2>2, ZenonT(30)
<1>2. ASSUME NEW i \in Nat, i \in S PROVE i + 1 \in S
  <2> SUFFICES ASSUME i + 1 <= N
               PROVE  \E f \in [(N - (i + 1))..N -> Records] : Solves(f, N - (i + 1))
    BY <1>2, SMTT(60)
  <2>1. PICK f \in [(N - i)..N -> Records] : Solves(f, N - i)
    BY <1>2, SMTT(60)
  <2> DEFINE j == N - (i + 1)
             x == IF stop[j] THEN <<>> ELSE rec[j] \o f[j + 1]
             g == [k \in j..N |-> IF k = j THEN x ELSE f[k]]
  <2>2. j \in 0..N /\ j + 1 = N - i /\ j + 1 \in (N - i)..N
    BY SMTT(60)
  <2>3. x \in Records
    <3>1. rec[j] \in Records /\ f[j + 1] \in Records
      BY <2>2, ZenonT(30)
    <3> QED
      BY <3>1, RecordsTyped, ZenonT(30)
  <2> HIDE DEF x
  <2>4. g \in [j..N -> Records]
    <3>1. \A k \in j..N : k # j => k \in (N - i)..N
      BY <2>2, SMTT(60)
    <3> QED
      BY <2>3, <3>1, ZenonT(30)
  <2>5. \A k \in j..N : g[k] = IF stop[k] THEN <<>> ELSE rec[k] \o g[k + 1]
    <3> SUFFICES ASSUME NEW k \in j..N
                 PROVE  g[k] = IF stop[k] THEN <<>> ELSE rec[k] \o g[k + 1]
      BY ZenonT(30)
    <3>1. CASE k = j
      <4>1. g[k + 1] = f[j + 1]
        BY <3>1, <2>2, SMTT(60)
      <4> QED
        BY <3>1, <4>1, ZenonT(30) DEF x
    <3>2. CASE k # j
      <4>1. k \in (N - i)..N /\ g[k] = f[k]
        BY <3>2, <2>2, SMTT(60)
      <4>2. CASE k = N
        BY <2>1, <4>1, <4>2, ZenonT(30)
      <4>3. CASE k # N
        <5>1. g[k + 1] = f[k + 1]
          BY <3>2, <4>1, <4>3, <2>2, SMTT(60)
        <5> QED
          BY <2>1, <4>1, <5>1, ZenonT(30)
      <4> QED
        BY <4>2, <4>3, ZenonT(30)
    <3> QED
      BY <3>1, <3>2, ZenonT(30)
  <2> HIDE DEF g
  <2> QED
    BY <2>4, <2>5, ZenonT(30)
<1>3. Nat \subseteq S
  <2> HIDE DEF S
  <2>1. \A i \in Nat : i \in S => i + 1 \in S
    BY <1>2, ZenonT(30)
  <2> QED
    BY <1>1, <2>1, SetInduction, ZenonT(60)
<1>4. N <= N /\ N - N = 0
  BY SMTT(60)
<1>5. \E f \in [(N - N)..N -> Records] : Solves(f, N - N)
  BY <1>3, <1>4, ZenonT(60)
<1> QED
  BY <1>4, <1>5, ZenonT(60)

-----------------------------------------------------------------------------
(* Concatenation of records, with the laws the proofs need.                *)
Cat(x, y) == x \o y

LEMMA CatLaws ==
  /\ \A x, y \in Records : Cat(x, y) \in Records
  /\ \A x \in Records : Cat(x, <<>>) = x /\ Cat(<<>>, x) = x
  /\ \A x, y, z \in Records : Cat(Cat(x, y), z) = Cat(x, Cat(y, z))
<1>1. \A x, y \in Records : Cat(x, y) \in Records
  BY RecordsTyped, ZenonT(30) DEF Cat
<1>2. \A x \in Records : Cat(x, <<>>) = x /\ Cat(<<>>, x) = x
  BY ConcatEmptySeq, ZenonT(30) DEF Records, Cat
<1>3. ASSUME NEW x \in Records, NEW y \in Records, NEW z \in Records
      PROVE  Cat(Cat(x, y), z) = Cat(x, Cat(y, z))
  <2>1. x \in Seq(Nat) /\ y \in Seq(Nat) /\ z \in Seq(Nat)
    BY ZenonT(30) DEF Records
  <2>2. (x \o y) \o z = x \o (y \o z)
    BY ONLY <2>1, SMTT(60)
  <2> QED
    BY <2>2, ZenonT(30) DEF Cat
<1> QED
  BY <1>1, <1>2, <1>3, ZenonT(30)

(* The k-th block from a round the ring; the blocks with magic; and the    *)
(* records a walk takes from block b.                                      *)
RingAt(a, k)   == IF a + k >= journalEnd THEN a + k - JournalBlocks ELSE a + k
Written(r)     == {b \in RingBlocks : r[b].magic}
WalkRecs(r, b) == IF b = checkpointBlk THEN <<>> ELSE r[b].records

(* The n blocks from a are journal blocks and together hold the records s, *)
(* in order: rest[k] is what the blocks from the k-th on hold.             *)
HoldsBy(r, a, n, s, rest) ==
  /\ rest \in [0..n -> Records]
  /\ rest[0] = s /\ rest[n] = <<>>
  /\ \A k \in 0..(n - 1) : /\ RingAt(a, k) \in Written(r)
                           /\ rest[k] = Cat(WalkRecs(r, RingAt(a, k)), rest[k + 1])

Holds(r, a, n, s) == \E rest : HoldsBy(r, a, n, s, rest)

LEMMA RingAtBlock ==
  ASSUME NEW a \in RingBlocks, NEW k \in 0..JournalBlocks
  PROVE  RingAt(a, k) \in RingBlocks
  BY SMTT(60) DEF RingAt, RingBlocks, checkpointBlk, journalEnd

LEMMA WalkRecsTyped ==
  ASSUME NEW r \in [RingBlocks -> Block], NEW b \in RingBlocks
  PROVE  WalkRecs(r, b) \in Records
  BY RecordsTyped, ZenonT(30) DEF WalkRecs, Block

LEMMA HoldsNothing ==
  ASSUME NEW r, NEW a
  PROVE  Holds(r, a, 0, <<>>)
<1> DEFINE rest == [k \in 0..0 |-> <<>>]
<1>1. rest \in [0..0 -> Records] /\ rest[0] = <<>>
  BY RecordsTyped, SMTT(60)
<1>2. 0..(0 - 1) = {}
  BY SMTT(60)
<1> HIDE DEF rest
<1>3. HoldsBy(r, a, 0, <<>>, rest)
  BY <1>1, <1>2, ZenonT(30) DEF HoldsBy
<1> QED
  BY <1>3, ZenonT(30) DEF Holds

LEMMA HoldsOneMore ==
  ASSUME NEW r \in [RingBlocks -> Block], NEW a \in RingBlocks, NEW n \in 0..(JournalBlocks - 1),
         NEW s, Holds(r, a, n, s), RingAt(a, n) \in Written(r)
  PROVE  Holds(r, a, n + 1, Cat(s, WalkRecs(r, RingAt(a, n))))
<1> DEFINE recs(k) == WalkRecs(r, RingAt(a, k))
<1>1. PICK rest : HoldsBy(r, a, n, s, rest)
  BY ZenonT(30) DEF Holds
<1>2. \A k \in 0..n : recs(k) \in Records
  <2>1. \A k \in 0..n : RingAt(a, k) \in RingBlocks
    BY RingAtBlock, SMTT(60)
  <2> QED
    BY <2>1, WalkRecsTyped, ZenonT(30)
<1>3. /\ rest[0] = s /\ rest[n] = <<>>
      /\ \A k \in 0..(n - 1) : RingAt(a, k) \in Written(r) /\ rest[k] = Cat(recs(k), rest[k + 1])
      /\ \A k \in 0..n : rest[k] \in Records
  BY <1>1, ZenonT(30) DEF HoldsBy
<1> HIDE DEF recs
<1> DEFINE more == [k \in 0..(n + 1) |-> IF k = n + 1 THEN <<>> ELSE Cat(rest[k], recs(n))]
<1>4. /\ more = [k \in 0..(n + 1) |-> more[k]]
      /\ more[n + 1] = <<>>
      /\ \A k \in 0..n : more[k] = Cat(rest[k], recs(n))
  BY SMTT(60)
<1> HIDE DEF more
<1>5. more \in [0..(n + 1) -> Records]
  <2>0. n \in 0..n
    BY SMTT(60)
  <2>1. \A k \in 0..n : more[k] \in Records
    BY <1>2, <1>3, <1>4, <2>0, CatLaws, ZenonT(60)
  <2>2. \A k \in 0..(n + 1) : k = n + 1 \/ k \in 0..n
    BY SMTT(60)
  <2>3. \A k \in 0..(n + 1) : more[k] \in Records
    BY <1>4, <2>1, <2>2, RecordsTyped, ZenonT(60)
  <2> QED
    BY <1>4, <2>3, ZenonT(60)
<1>6. ASSUME NEW k \in 0..n PROVE more[k] = Cat(recs(k), more[k + 1])
  <2>1. CASE k = n
    <3>1. more[k] = Cat(<<>>, recs(n)) /\ more[k + 1] = <<>>
      BY <1>3, <1>4, <2>1, ZenonT(60)
    <3> QED
      BY <1>2, <2>1, <3>1, CatLaws, ZenonT(60)
  <2>2. CASE k # n
    <3>1. k \in 0..(n - 1) /\ k + 1 \in 0..n /\ n \in 0..n
      BY <2>2, SMTT(60)
    <3>2. more[k] = Cat(Cat(recs(k), rest[k + 1]), recs(n)) /\ more[k + 1] = Cat(rest[k + 1], recs(n))
      BY <1>3, <1>4, <3>1, ZenonT(60)
    <3>3. recs(k) \in Records /\ rest[k + 1] \in Records /\ recs(n) \in Records
      BY <1>2, <1>3, <3>1, ZenonT(60)
    <3> QED
      <4>1. Cat(Cat(recs(k), rest[k + 1]), recs(n)) = Cat(recs(k), Cat(rest[k + 1], recs(n)))
        BY ONLY <3>3, CatLaws, ZenonT(60)
      <4> QED
        BY <3>2, <4>1, ZenonT(60)
  <2> QED
    BY <2>1, <2>2, ZenonT(30)
<1>7. more[0] = Cat(s, recs(n))
  <2>1. 0 \in 0..n
    BY SMTT(60)
  <2> QED
    BY <1>3, <1>4, <2>1, ZenonT(60)
<1>8. \A k \in 0..((n + 1) - 1) : RingAt(a, k) \in Written(r) /\ more[k] = Cat(recs(k), more[k + 1])
  <2>1. \A k \in 0..((n + 1) - 1) : k \in 0..n /\ (k = n \/ k \in 0..(n - 1))
    BY SMTT(60)
  <2> QED
    BY <1>3, <1>6, <2>1, ZenonT(60)
<1>9. HoldsBy(r, a, n + 1, Cat(s, recs(n)), more)
  BY <1>4, <1>5, <1>7, <1>8, ZenonT(60) DEF HoldsBy, recs
<1> QED
  BY <1>9, ZenonT(30) DEF Holds, recs

(* Blocks outside the range do not matter.                                 *)
LEMMA HoldsKept ==
  ASSUME NEW r, NEW q, NEW a, NEW n \in Nat, NEW s, Holds(r, a, n, s),
         \A k \in 0..(n - 1) : q[RingAt(a, k)] = r[RingAt(a, k)]
  PROVE  Holds(q, a, n, s)
<1>1. PICK rest : HoldsBy(r, a, n, s, rest)
  BY ZenonT(30) DEF Holds
<1>2. \A k \in 0..(n - 1) : /\ RingAt(a, k) \in Written(r) => RingAt(a, k) \in Written(q)
                            /\ WalkRecs(q, RingAt(a, k)) = WalkRecs(r, RingAt(a, k))
  BY ZenonT(60) DEF WalkRecs, Written
<1>3. HoldsBy(q, a, n, s, rest)
  BY <1>1, <1>2, ZenonT(60) DEF HoldsBy
<1> QED
  BY <1>3, ZenonT(30) DEF Holds

(* The walk from a to b hands out what the blocks from a to b hold.        *)
LEMMA WalkIsHeld ==
  ASSUME NEW a \in UsableBlocks, NEW b \in UsableBlocks, a # b,
         ring \in [RingBlocks -> Block],
         NEW s, Holds(ring, a, RingDistance(a, b), s)
  PROVE  WalkJournalRing(a, b) = s
<1> DEFINE n == RingDistance(a, b)
           Stop(k) == \/ k = JournalBlocks
                      \/ a = b
                      \/ k > 0 /\ RingAt(a, k) = b
                      \/ ~ring[RingAt(a, k)].magic
           Step(f, k) == IF Stop(k) THEN <<>> ELSE WalkRecs(ring, RingAt(a, k)) \o f[k + 1]
           IsWalk(f) == f = [k \in 0..JournalBlocks |-> Step(f, k)]
           walk == CHOOSE f : IsWalk(f)
<1>1. WalkJournalRing(a, b) = walk[0]
  BY ZenonT(30) DEF WalkJournalRing, RingAt, WalkRecs
<1>2. \E f : IsWalk(f)
  <2> DEFINE rec == [k \in 0..JournalBlocks |-> WalkRecs(ring, RingAt(a, k))]
             stop == [k \in 0..JournalBlocks |-> Stop(k)]
  <2>1. rec \in [0..JournalBlocks -> Records]
    <3>1. \A k \in 0..JournalBlocks : RingAt(a, k) \in RingBlocks
      BY RingAtBlock, ZenonT(30) DEF UsableBlocks
    <3> QED
      BY <3>1, WalkRecsTyped, ZenonT(30)
  <2>2. stop \in [0..JournalBlocks -> BOOLEAN] /\ stop[JournalBlocks]
    BY SMTT(60)
  <2>3. \A k \in 0..JournalBlocks : rec[k] = WalkRecs(ring, RingAt(a, k)) /\ (stop[k] <=> Stop(k))
    BY ZenonT(30)
  <2> HIDE DEF rec, stop, Stop
  <2>4. PICK f \in [0..JournalBlocks -> Records] : \A k \in 0..JournalBlocks :
           f[k] = IF stop[k] THEN <<>> ELSE rec[k] \o f[k + 1]
    <3>1. JournalBlocks \in Nat
      BY ZenonT(30)
    <3> QED
      BY ONLY <2>1, <2>2, <3>1, DownwardRecursion, SMTT(60)
  <2>5. \A k \in 0..JournalBlocks : f[k] = Step(f, k)
    BY <2>3, <2>4, ZenonT(60)
  <2>6. f = [k \in 0..JournalBlocks |-> f[k]]
    BY <2>4, ZenonT(30)
  <2> QED
    BY <2>5, <2>6, ZenonT(60)
<1>3. IsWalk(walk)
  BY <1>2, ZenonT(60)
<1> HIDE DEF walk
<1>4. \A k \in 0..JournalBlocks : walk[k] = Step(walk, k)
  BY <1>3, ZenonT(60)
<1>5. PICK rest : HoldsBy(ring, a, n, s, rest)
  BY ZenonT(30) DEF Holds
<1>6. /\ n \in 1..(JournalBlocks - 1) /\ RingAt(a, n) = b
      /\ \A k \in 0..(n - 1) : RingAt(a, k) # b \/ k = 0
  BY SMTT(60) DEF RingDistance, RingAt, UsableBlocks, RingBlocks, checkpointBlk, journalEnd
<1> HIDE DEF n
<1>7. walk[n] = <<>>
  BY <1>4, <1>6, SMTT(60)
<1>8. \A k \in 0..(n - 1) : walk[k] = Cat(WalkRecs(ring, RingAt(a, k)), walk[k + 1])
  <2> SUFFICES ASSUME NEW k \in 0..(n - 1)
               PROVE  walk[k] = Cat(WalkRecs(ring, RingAt(a, k)), walk[k + 1])
    BY ZenonT(30)
  <2>1. k \in 0..JournalBlocks /\ k # JournalBlocks /\ ~(k > 0 /\ RingAt(a, k) = b)
    BY <1>6, SMTT(60)
  <2>2. RingAt(a, k) \in Written(ring)
    BY <1>5, ZenonT(30) DEF HoldsBy
  <2>3. ~Stop(k)
    BY <2>1, <2>2, ZenonT(60) DEF Written
  <2> HIDE DEF Stop
  <2> QED
    BY <1>4, <2>1, <2>3, ZenonT(60) DEF Cat
<1> DEFINE S == {i \in Nat : i <= n => walk[n - i] = rest[n - i]}
<1>9. 0 \in S
  BY <1>5, <1>6, <1>7, SMTT(60) DEF HoldsBy
<1>10. ASSUME NEW i \in Nat, i \in S PROVE i + 1 \in S
  <2> SUFFICES ASSUME i + 1 <= n PROVE walk[n - (i + 1)] = rest[n - (i + 1)]
    BY <1>10, SMTT(60)
  <2> DEFINE k == n - (i + 1)
  <2>1. k \in 0..(n - 1) /\ k + 1 = n - i /\ i <= n
    BY <1>6, SMTT(60)
  <2>2. walk[k + 1] = rest[k + 1]
    BY <1>10, <2>1, ZenonT(30)
  <2> HIDE DEF k
  <2>3. walk[k] = rest[k]
    BY <1>5, <1>8, <2>1, <2>2, ZenonT(60) DEF HoldsBy
  <2> QED
    BY <2>3, ZenonT(30) DEF k
<1>11. Nat \subseteq S
  <2> HIDE DEF S
  <2>1. \A i \in Nat : i \in S => i + 1 \in S
    BY <1>10, ZenonT(30)
  <2> QED
    BY <1>9, <2>1, SetInduction, ZenonT(60)
<1>12. n \in Nat /\ n <= n /\ n - n = 0
  BY <1>6, SMTT(60)
<1>13. walk[0] = rest[0]
  BY <1>11, <1>12, ZenonT(60)
<1> QED
  BY <1>1, <1>5, <1>13, ZenonT(60) DEF HoldsBy

-----------------------------------------------------------------------------
(* The records of a sequence.                                              *)
LEMMA RangeLaws ==
  /\ Range(<<>>) = {}
  /\ \A x, y \in Records : Range(Cat(x, y)) = Range(x) \cup Range(y)
  /\ \A x \in Records, e \in Nat : Range(Append(x, e)) = Range(x) \cup {e}
<1>1. Range(<<>>) = {}
  BY SMTT(60) DEF Range
<1>2. ASSUME NEW x \in Records, NEW y \in Records PROVE Range(Cat(x, y)) = Range(x) \cup Range(y)
  <2>1. \A i \in DOMAIN (x \o y) : (x \o y)[i] \in Range(x) \cup Range(y)
    BY SMTT(60) DEF Range, Records
  <2>2. \A i \in DOMAIN x : i \in DOMAIN (x \o y) /\ (x \o y)[i] = x[i]
    BY SMTT(60) DEF Records
  <2>3. \A i \in DOMAIN y : Len(x) + i \in DOMAIN (x \o y) /\ (x \o y)[Len(x) + i] = y[i]
    BY SMTT(60) DEF Records
  <2> QED
    BY <2>1, <2>2, <2>3, ZenonT(60) DEF Range, Cat
<1>3. ASSUME NEW x \in Records, NEW e \in Nat PROVE Range(Append(x, e)) = Range(x) \cup {e}
  <2>1. \A i \in DOMAIN Append(x, e) : Append(x, e)[i] \in Range(x) \cup {e}
    BY SMTT(60) DEF Range, Records
  <2>2. \A i \in DOMAIN x : i \in DOMAIN Append(x, e) /\ Append(x, e)[i] = x[i]
    BY SMTT(60) DEF Records
  <2>3. Len(x) + 1 \in DOMAIN Append(x, e) /\ Append(x, e)[Len(x) + 1] = e
    BY SMTT(60) DEF Records
  <2> QED
    BY <2>1, <2>2, <2>3, ZenonT(60) DEF Range
<1> QED
  BY <1>1, <1>2, <1>3, ZenonT(30)

(* Every record in the log, on its way to it or still in memory has been   *)
(* issued, so the next one is new.                                         *)
RecordsKnown ==
  /\ Range(curBlock) \subseteq 0..issued /\ Range(pend) \subseteq 0..issued
  /\ Range(live) \subseteq 0..issued /\ Range(diskLive) \subseteq 0..issued

LEMMA StepRecordsKnown ==
  TypeOK /\ RecordsKnown /\ [Next]_vars => RecordsKnown'
<1> SUFFICES ASSUME TypeOK, RecordsKnown, [Next]_vars PROVE RecordsKnown'
  BY ZenonT(30)
<1>t. /\ issued \in Nat /\ curBlock \in Records /\ pend \in Records /\ live \in Records
      /\ diskLive \in Records /\ <<>> \in Records
  BY RecordsTyped, ZenonT(30) DEF TypeOK
<1>c. \A x, y \in Records : Range(x \o y) = Range(x) \cup Range(y)
  BY RangeLaws, ZenonT(30) DEF Cat
<1>a. ASSUME NEW x \in {curBlock, <<>>}, curBlock' = Append(x, issued + 1), issued' = issued + 1
      PROVE  /\ Range(curBlock') \subseteq 0..issued'
             /\ 0..issued \subseteq 0..issued'
  <2>1. Range(curBlock') = Range(x) \cup {issued + 1} /\ Range(x) \subseteq 0..issued
    BY <1>a, <1>t, RangeLaws, SMTT(60) DEF RecordsKnown
  <2> QED
    BY <1>a, <1>t, <2>1, SMTT(60)
<1>1. CASE UNCHANGED vars
  BY <1>1, ZenonT(30) DEF RecordsKnown, vars, diskVars, curVars, recVars
<1>2. ASSUME NEW sz \in RecordSizes, WriteRecordFits(sz) PROVE RecordsKnown'
  <2>1. /\ curBlock' = Append(curBlock, issued + 1) /\ issued' = issued + 1
        /\ UNCHANGED <<pend, live, diskLive>>
    BY <1>2, ZenonT(30) DEF WriteRecordFits, AppendRecord, diskVars
  <2> QED
    BY <1>a, <2>1, ZenonT(30) DEF RecordsKnown
<1>3. ASSUME WriteCurBlock PROVE Range(pend') \subseteq 0..issued
  BY <1>3, <1>c, <1>t, ZenonT(30) DEF WriteCurBlock, RecordsKnown
<1>4. ASSUME NEW sz \in RecordSizes, WriteRecordOverflow(sz) PROVE RecordsKnown'
  <2>1. WriteCurBlock /\ UNCHANGED <<live, diskLive>>
    BY <1>4, ZenonT(30) DEF WriteRecordOverflow, KeepSuperblock
  <2>2. CASE writePos' = logStart
    BY <1>3, <1>4, <2>1, <2>2, RangeLaws, ZenonT(30) DEF WriteRecordOverflow, RecordsKnown
  <2>3. CASE writePos' # logStart
    <3>1. curBlock' = Append(<<>>, issued + 1) /\ issued' = issued + 1
      BY <1>4, <2>3, ZenonT(30) DEF WriteRecordOverflow, AppendRecord
    <3> QED
      BY <1>a, <1>3, <2>1, <3>1, ZenonT(30) DEF RecordsKnown
  <2> QED
    BY <2>2, <2>3, ZenonT(30)
<1>5. CASE WriteRecordResume
  <2>1. /\ curBlock' = Append(curBlock, issued + 1) /\ issued' = issued + 1
        /\ UNCHANGED <<pend, live, diskLive>>
    BY <1>5, ZenonT(30) DEF WriteRecordResume, AppendRecord, diskVars
  <2> QED
    BY <1>a, <2>1, ZenonT(30) DEF RecordsKnown
<1>6. CASE Sync \/ Checkpoint \/ UpdateLabel
  <2>1. UNCHANGED <<curBlock, issued, pend, live>> /\ diskLive' \in {live, diskLive}
    BY <1>6, ZenonT(60) DEF Sync, Checkpoint, UpdateLabel, syncSuperblock, diskVars, curVars, recVars
  <2> QED
    BY <2>1, ZenonT(30) DEF RecordsKnown
<1>7. CASE SyncWrite
  BY <1>3, <1>7, RangeLaws, ZenonT(30) DEF RecordsKnown, SyncWrite, KeepSuperblock
<1>8. CASE SyncCommit
  BY <1>8, <1>c, <1>t, RangeLaws, SMTT(60) DEF RecordsKnown, SyncCommit, syncSuperblock, curVars
<1>9. CASE SyncDrain \/ SyncMetadata \/ SyncAllocPools \/ SyncBackPressure
  BY <1>9, ZenonT(30) DEF RecordsKnown, SyncDrain, SyncMetadata, SyncAllocPools, SyncBackPressure,
     syncSuperblock, diskVars, curVars, recVars
<1>10. CASE CheckpointAllocPools \/ CheckpointRetire \/ CheckpointPersist
  BY <1>10, RangeLaws, ZenonT(30) DEF RecordsKnown, CheckpointAllocPools, CheckpointRetire, CheckpointPersist,
     syncSuperblock, diskVars, curVars, recVars
<1>11. CASE Fault
  <2>1. ASSUME BlockWriteFails PROVE RecordsKnown'
    BY <2>1, ZenonT(30) DEF RecordsKnown, BlockWriteFails, KeepSuperblock, curVars, recVars
  <2>2. ASSUME NEW s, CallOutFails(s) PROVE RecordsKnown'
    BY <2>2, ZenonT(30) DEF RecordsKnown, CallOutFails, diskVars, curVars, recVars
  <2>3. ASSUME NEW s, SuperblockWriteFails(s) PROVE RecordsKnown'
    <3>1. /\ Range(live') \subseteq 0..issued /\ Range(pend') \subseteq 0..issued
      <4>1. \/ live' = live \o pend /\ pend' = <<>>
            \/ live' = live /\ pend' = pend
        BY <2>3, ZenonT(60) DEF SuperblockWriteFails
      <4>2. Range(live \o pend) = Range(live) \cup Range(pend)
        BY <1>c, <1>t, ZenonT(60)
      <4> QED
        BY <4>1, <4>2, RangeLaws, ZenonT(60) DEF RecordsKnown
    <3>2. UNCHANGED <<curBlock, issued>> /\ diskLive' \in {live', diskLive}
      BY <2>3, ZenonT(30) DEF SuperblockWriteFails, syncSuperblock, KeepSuperblock, curVars
    <3> QED
      BY <3>1, <3>2, ZenonT(30) DEF RecordsKnown
  <2> QED
    BY <1>11, <2>1, <2>2, <2>3, ZenonT(30) DEF Fault, WriteRecordFails, SyncWriteFails
<1>12. CASE Crash \/ NewJournal \/ MarkCleanAfterReplay
  BY <1>12, RangeLaws, ZenonT(30) DEF RecordsKnown, Crash, NewJournal, MarkCleanAfterReplay, syncSuperblock,
     diskVars, curVars
<1> QED
  BY <1>1, <1>2, <1>4, <1>5, <1>6, <1>7, <1>8, <1>9, <1>10, <1>11, <1>12, ZenonT(30)
  DEF Next, CallStep, Recover

(* The faults after which a committed record is still flushed before it is *)
(* retired: any but those of the commit and of the metadata flush.         *)
FlushFaults == FaultSteps \cap {"s_commit", "s_meta"} = {}

(* Only between the commit of a record and its flush, and while a crashed  *)
(* volume is being recovered, is a committed record unflushed.             *)
FlushOK ==
  pc \notin {"s_meta", "down", "replay"} =>
    unflushed \cap Range(live) = {} /\ unflushed \cap Range(diskLive) = {}

LEMMA StepFlushOK ==
  ASSUME FlushFaults
  PROVE  TypeOK /\ RecordsKnown /\ FlushOK /\ [Next]_vars => FlushOK'
<1> SUFFICES ASSUME TypeOK, RecordsKnown, FlushOK, [Next]_vars PROVE FlushOK'
  BY ZenonT(30)
<1>1. CASE UNCHANGED vars
  BY <1>1, ZenonT(30) DEF FlushOK, vars, diskVars, callVars, recVars
<1>2. ASSUME pc \notin {"s_meta", "down", "replay"}, unflushed' = unflushed \cup {issued + 1},
             UNCHANGED <<live, diskLive>>
      PROVE  FlushOK'
  <2>1. issued + 1 \notin 0..issued
    BY SMTT(60) DEF TypeOK
  <2> QED
    BY <1>2, <2>1, ZenonT(30) DEF FlushOK, RecordsKnown
<1>3. ASSUME pc \notin {"s_meta", "down", "replay"}, UNCHANGED <<unflushed, live>>,
             diskLive' \in {live, diskLive}
      PROVE  FlushOK'
  BY <1>3, ZenonT(30) DEF FlushOK
<1>4. ASSUME NEW sz \in RecordSizes, WriteRecordFits(sz) \/ WriteRecordOverflow(sz) PROVE FlushOK'
  <2>1. /\ pc = "idle" /\ UNCHANGED <<live, diskLive>>
        /\ unflushed' = unflushed \/ unflushed' = unflushed \cup {issued + 1}
    BY <1>4, ZenonT(30) DEF WriteRecordFits, WriteRecordOverflow, AppendRecord, KeepSuperblock, diskVars
  <2> QED
    BY <1>2, <1>3, <2>1, ZenonT(30)
<1>5. CASE WriteRecordResume
  BY <1>2, <1>5, ZenonT(30) DEF WriteRecordResume, AppendRecord, diskVars
<1>6. CASE Sync \/ Checkpoint \/ UpdateLabel
  <2>1. pc = "idle" /\ UNCHANGED <<unflushed, live>> /\ diskLive' \in {live, diskLive}
    BY <1>6, ZenonT(60) DEF Sync, Checkpoint, UpdateLabel, syncSuperblock, diskVars, recVars
  <2> QED
    BY <1>3, <2>1, ZenonT(30)
<1>7. CASE SyncWrite \/ SyncDrain \/ SyncAllocPools \/ SyncBackPressure \/ CheckpointAllocPools
           \/ CheckpointPersist
  <2>1. /\ pc \in {"s_write", "s_drain", "s_alloc", "s_bp", "c_alloc", "c_super"}
        /\ UNCHANGED <<unflushed, live>> /\ diskLive' \in {live, diskLive}
    BY <1>7, ZenonT(60) DEF SyncWrite, SyncDrain, SyncAllocPools, SyncBackPressure, CheckpointAllocPools,
       CheckpointPersist, KeepSuperblock, syncSuperblock, diskVars, recVars
  <2> QED
    BY <1>3, <2>1, ZenonT(30)
<1>8. CASE SyncCommit
  BY <1>8, ZenonT(30) DEF FlushOK, SyncCommit
<1>9. CASE SyncMetadata
  BY <1>9, ZenonT(30) DEF FlushOK, SyncMetadata
<1>10. CASE CheckpointRetire
  BY <1>10, RangeLaws, ZenonT(30) DEF FlushOK, CheckpointRetire, diskVars
<1>11. CASE Fault
  <2>1. /\ pc \in {"idle", "s_write", "s_drain", "c_block", "s_alloc", "c_alloc", "c_super"}
        /\ UNCHANGED <<unflushed, live>> /\ diskLive' \in {live, diskLive}
    <3>1. ASSUME BlockWriteFails PROVE UNCHANGED <<unflushed, live, diskLive>>
      BY <3>1, ZenonT(30) DEF BlockWriteFails, KeepSuperblock, recVars
    <3>2. ASSUME NEW s \in {"s_drain", "s_meta", "c_block"}, CallOutFails(s)
          PROVE  pc \in {"s_drain", "c_block"} /\ UNCHANGED <<unflushed, live, diskLive>>
      BY <3>2, ZenonT(30) DEF CallOutFails, FlushFaults, diskVars, recVars
    <3>3. ASSUME NEW s \in {"s_commit", "s_alloc", "c_alloc", "c_super"}, SuperblockWriteFails(s)
          PROVE  /\ pc \in {"s_alloc", "c_alloc", "c_super"}
                 /\ UNCHANGED <<unflushed, live>> /\ diskLive' \in {live, diskLive}
      BY <3>3, ZenonT(30) DEF SuperblockWriteFails, FlushFaults, syncSuperblock, KeepSuperblock
    <3> QED
      BY <1>11, <3>1, <3>2, <3>3, ZenonT(30) DEF Fault, WriteRecordFails, SyncWriteFails
  <2> QED
    BY <1>3, <2>1, ZenonT(30)
<1>12. CASE Crash
  BY <1>12, ZenonT(30) DEF FlushOK, Crash
<1>13. CASE NewJournal \/ MarkCleanAfterReplay
  BY <1>13, ZenonT(30) DEF FlushOK, NewJournal, MarkCleanAfterReplay
<1> QED
  BY <1>1, <1>4, <1>5, <1>6, <1>7, <1>8, <1>9, <1>10, <1>11, <1>12, <1>13, ZenonT(30)
  DEF Next, CallStep, Recover

LEMMA InitKnown == Init => RecordsKnown /\ FlushOK
  BY RangeLaws, ZenonT(30) DEF Init, RecordsKnown, FlushOK

(* A checkpoint retires a committed record only after the flush that       *)
(* followed its commit, whatever the back-pressure that calls the          *)
(* checkpoint and whatever other I/O has failed: syncLocked flushes        *)
(* straight after the commit, and every checkpoint starts behind it.       *)
THEOREM RetiredIsFlushed == FlushFaults => (Spec => []CommittedFlushedBeforeRetire)
<1> SUFFICES ASSUME FlushFaults PROVE Spec => []CommittedFlushedBeforeRetire
  BY ZenonT(30)
<1>1. TypeOK /\ CallOK /\ RecordsKnown /\ FlushOK /\ [Next]_vars
        => (TypeOK /\ CallOK /\ RecordsKnown /\ FlushOK)'
  BY StepTyped, StepRecordsKnown, StepFlushOK, ZenonT(30)
<1>2. FlushOK => CommittedFlushedBeforeRetire
  BY ZenonT(30) DEF FlushOK, CommittedFlushedBeforeRetire
<1> QED
  BY InitTyped, InitKnown, <1>1, <1>2, PTL DEF Spec

-----------------------------------------------------------------------------
(* The blocks from a up to b hold the last records of s, and none of the   *)
(* records before those, which later turns have overwritten, is in need.   *)
HeldTail(r, a, b, s, need) ==
  \E lost, t \in Records :
    /\ s = Cat(lost, t)
    /\ Holds(r, a, RingDistance(a, b), t)
    /\ need \cap Range(lost) = {}

(* The geometry of a stretch of the ring.                                  *)
LEMMA RingStretch ==
  ASSUME NEW a \in UsableBlocks, NEW b \in UsableBlocks
  PROVE  /\ RingDistance(a, b) \in 0..(JournalBlocks - 1)
         /\ RingAt(a, RingDistance(a, b)) = b
         /\ \A k \in 0..(JournalBlocks - 1) : RingAt(a, k) \in RingBlocks
         /\ \A k \in 0..(JournalBlocks - 1) : RingAt(a, k) = b => k = RingDistance(a, b)
         /\ Advance(b) # a =>
              /\ RingDistance(a, b) + AdvanceCount(b) <= JournalBlocks - 1
              /\ AdvanceCount(b) = 2 => RingAt(a, RingDistance(a, b) + 1) = checkpointBlk
  BY SMTT(60) DEF RingDistance, RingAt, Advance, AdvanceCount, NextRingBlock, UsableBlocks,
         RingBlocks, checkpointBlk, journalEnd

(* A block written at b, on or after the end of the stretch, leaves it.    *)
LEMMA HoldsBesides ==
  ASSUME NEW r \in [RingBlocks -> Block], NEW a \in UsableBlocks, NEW b \in UsableBlocks, NEW x,
         NEW q, q = [r EXCEPT ![b] = x], NEW n \in 0..RingDistance(a, b), NEW t, Holds(r, a, n, t)
  PROVE  Holds(q, a, n, t)
<1>1. n \in Nat /\ \A k \in 0..(n - 1) : k \in 0..(JournalBlocks - 1) /\ k # RingDistance(a, b)
  BY RingStretch, SMTT(60)
<1>2. \A k \in 0..(n - 1) : RingAt(a, k) # b /\ RingAt(a, k) \in RingBlocks
  BY <1>1, RingStretch, SMTT(60)
<1>3. \A k \in 0..(n - 1) : q[RingAt(a, k)] = r[RingAt(a, k)]
  BY <1>2, ZenonT(30)
<1> QED
  BY <1>1, <1>3, HoldsKept, ZenonT(60)

LEMMA HeldTailBesides ==
  ASSUME NEW r \in [RingBlocks -> Block], NEW a \in UsableBlocks, NEW b \in UsableBlocks,
         NEW e \in UsableBlocks, ~InLog(b, a, e), NEW x, NEW q, q = [r EXCEPT ![b] = x],
         NEW s, NEW need, HeldTail(r, a, e, s, need)
  PROVE  HeldTail(q, a, e, s, need)
<1>1. RingDistance(a, e) \in 0..RingDistance(a, b)
  BY RingStretch, SMTT(60) DEF InLog
<1>2. PICK lost, t \in Records : /\ s = Cat(lost, t) /\ Holds(r, a, RingDistance(a, e), t)
                                 /\ need \cap Range(lost) = {}
  BY ZenonT(30) DEF HeldTail
<1>3. Holds(q, a, RingDistance(a, e), t)
  BY <1>1, <1>2, HoldsBesides, ZenonT(60)
<1> QED
  BY <1>2, <1>3, ZenonT(60) DEF HeldTail

(* Writing the next block adds its records, unless that closes the turn.   *)
LEMMA HeldTailGrows ==
  ASSUME NEW r \in [RingBlocks -> Block], checkpointBlk \in Written(r),
         NEW a \in UsableBlocks, NEW b \in UsableBlocks, Advance(b) # a,
         NEW recs \in Records, NEW q, q = [r EXCEPT ![b] = JournalBlock(recs)],
         NEW s, NEW need, HeldTail(r, a, b, s, need)
  PROVE  HeldTail(q, a, Advance(b), Cat(s, recs), need)
<1> DEFINE n == RingDistance(a, b)
<1>1. PICK lost, t \in Records : /\ s = Cat(lost, t) /\ Holds(r, a, n, t)
                                 /\ need \cap Range(lost) = {}
  BY ZenonT(30) DEF HeldTail
<1>2. /\ n \in 0..(JournalBlocks - 1) /\ RingAt(a, n) = b
      /\ n + AdvanceCount(b) <= JournalBlocks - 1
      /\ AdvanceCount(b) = 2 => RingAt(a, n + 1) = checkpointBlk
      /\ RingDistance(a, Advance(b)) = n + AdvanceCount(b)
      /\ AdvanceCount(b) \in {1, 2}
  BY RingStretch, RingStep, AdvanceUsable, ZenonT(30)
<1>3. Holds(q, a, n, t)
  <2>1. n \in 0..n
    BY <1>2, SMTT(60)
  <2> QED
    BY <1>1, <2>1, HoldsBesides, ZenonT(60)
<1>4. /\ q \in [RingBlocks -> Block] /\ b \in Written(q) /\ checkpointBlk \in Written(q)
      /\ WalkRecs(q, b) = recs /\ WalkRecs(q, checkpointBlk) = <<>> /\ a \in RingBlocks
  <2>1. JournalBlock(recs) \in Block /\ JournalBlock(recs).magic /\ JournalBlock(recs).records = recs
    BY JournalBlockTyped, ZenonT(30) DEF JournalBlock
  <2>2. b \in RingBlocks /\ b # checkpointBlk /\ a \in RingBlocks /\ checkpointBlk \in RingBlocks
    BY ZenonT(30) DEF UsableBlocks, Written
  <2>3. q[b] = JournalBlock(recs) /\ q[checkpointBlk] = r[checkpointBlk]
    BY <2>2, ZenonT(30)
  <2>4. q \in [RingBlocks -> Block]
    BY <2>1, ZenonT(60)
  <2> QED
    BY <2>1, <2>2, <2>3, <2>4, ZenonT(30) DEF Written, WalkRecs
<1> HIDE DEF n
<1>5. Holds(q, a, n + 1, Cat(t, recs))
  <2>1. Holds(q, a, n + 1, Cat(t, WalkRecs(q, RingAt(a, n))))
    BY <1>2, <1>3, <1>4, HoldsOneMore, ZenonT(60)
  <2> QED
    BY <1>2, <1>4, <2>1, ZenonT(60)
<1>6. Holds(q, a, n + AdvanceCount(b), Cat(t, recs))
  <2>1. CASE AdvanceCount(b) = 1
    BY <1>5, <2>1, ZenonT(30)
  <2>2. CASE AdvanceCount(b) = 2
    <3>1. n + 1 \in 0..(JournalBlocks - 1) /\ RingAt(a, n + 1) \in Written(q)
          /\ WalkRecs(q, RingAt(a, n + 1)) = <<>> /\ (n + 1) + 1 = n + AdvanceCount(b)
      BY <1>2, <1>4, <2>2, SMTT(60)
    <3>2. Cat(Cat(t, recs), <<>>) = Cat(t, recs)
      BY CatLaws, ZenonT(30)
    <3>3. Holds(q, a, (n + 1) + 1, Cat(Cat(t, recs), WalkRecs(q, RingAt(a, n + 1))))
      BY <1>4, <1>5, <3>1, HoldsOneMore, ZenonT(60)
    <3> QED
      BY <3>1, <3>2, <3>3, ZenonT(30)
  <2> QED
    BY <1>2, <2>1, <2>2, ZenonT(30)
<1>7. Cat(s, recs) = Cat(lost, Cat(t, recs)) /\ Cat(t, recs) \in Records
  BY <1>1, CatLaws, ZenonT(30)
<1> QED
  BY <1>1, <1>2, <1>6, <1>7, ZenonT(60) DEF HeldTail

(* An empty stretch holds the last none of s.                              *)
LEMMA HeldTailEmpty ==
  ASSUME NEW r, NEW a \in UsableBlocks, NEW s \in Records, NEW need, need = {} \/ s = <<>>
  PROVE  HeldTail(r, a, a, s, need)
<1>1. Holds(r, a, RingDistance(a, a), <<>>)
  BY HoldsNothing, RingStep, ZenonT(30)
<1>2. s = Cat(s, <<>>) /\ <<>> \in Records /\ Range(<<>>) = {}
  BY CatLaws, RecordsTyped, RangeLaws, ZenonT(60)
<1>3. need \cap Range(s) = {}
  BY <1>2, ZenonT(30)
<1> QED
  BY <1>1, <1>2, <1>3, ZenonT(60) DEF HeldTail

(* What is not a record of s does not matter.                              *)
LEMMA HeldTailNeed ==
  ASSUME NEW r, NEW a, NEW b, NEW s, NEW need, NEW more, HeldTail(r, a, b, s, need),
         more \cap Range(s) \subseteq need
  PROVE  HeldTail(r, a, b, s, more)
<1>1. PICK lost, t \in Records : /\ s = Cat(lost, t) /\ Holds(r, a, RingDistance(a, b), t)
                                 /\ need \cap Range(lost) = {}
  BY ZenonT(30) DEF HeldTail
<1>2. Range(lost) \subseteq Range(s)
  BY <1>1, RangeLaws, SMTT(60)
<1>3. more \cap Range(lost) = {}
  BY <1>1, <1>2, ZenonT(30)
<1> QED
  BY <1>1, <1>3, ZenonT(60) DEF HeldTail

-----------------------------------------------------------------------------
(* The faults after which, also, no record that a later turn overwrites is *)
(* unflushed.                                                              *)
TurnFaults == FaultSteps \subseteq {"r_write", "s_write", "s_alloc"}

(* The records that must not be lost to the log on disk, and to the blocks *)
(* from log_start to write_pos: those not flushed yet.  A full ring that   *)
(* is about to be committed or retired looks empty, and holds none.        *)
DiskNeed == IF TurnFaults THEN unflushed ELSE {}
Settled  == pc \in {"idle", "append", "s_write", "s_alloc", "s_bp"}
RingNeed == IF TurnFaults /\ (writePos # logStart \/ Settled) THEN unflushed ELSE {}

(* The log on disk, unless it looks empty, ends with diskLive; the blocks  *)
(* from log_start to write_pos hold the end of what is live and pending.   *)
ReplayOK ==
  /\ checkpointBlk \in Written(ring)
  /\ pc = "down" => writePos = logStart
  /\ pc = "c_super" => live = <<>>
  /\ sbStart # sbEnd => HeldTail(ring, sbStart, sbEnd, diskLive, DiskNeed)
  /\ pc \notin {"down", "replay"} =>
       HeldTail(ring, logStart, writePos, Cat(live, pend), RingNeed)

(* The invariants proved so far, on which the steps rest.                  *)
Base == TypeOK /\ CallOK /\ LogOK /\ CommitOK /\ RecordsKnown

LEMMA InitReplayOK == Init => ReplayOK
<1> SUFFICES ASSUME Init PROVE ReplayOK
  BY ZenonT(30)
<1>1. checkpointBlk \in Written(ring)
  <2>1. checkpointBlk \in RingBlocks /\ JournalBlock(<<>>).magic
    BY SMTT(60) DEF RingBlocks, checkpointBlk, journalEnd, JournalBlock
  <2> QED
    BY <2>1, ZenonT(30) DEF Init, Written
<1>2. logStart \in UsableBlocks /\ writePos = logStart /\ Cat(live, pend) = <<>> /\ <<>> \in Records
  BY InitTyped, CatLaws, RecordsTyped, ZenonT(30) DEF Init, TypeOK
<1>3. HeldTail(ring, logStart, writePos, Cat(live, pend), RingNeed)
  BY <1>2, HeldTailEmpty, ZenonT(60)
<1> QED
  BY <1>1, <1>3, ZenonT(30) DEF Init, ReplayOK

(* A step that leaves the ring and the log alone.                          *)
LEMMA ReplayOKKept ==
  ASSUME Base, ReplayOK, pc \notin {"down", "replay", "c_super"}, pc' \notin {"down", "c_super"},
         UNCHANGED <<ring, sbStart, sbEnd, diskLive, logStart, writePos, live, pend>>,
         unflushed' \subseteq unflushed \cup {issued + 1},
         Settled \/ ~Settled' \/ unflushed' = {} \/ ~TurnFaults
  PROVE  ReplayOK'
<1>0. DiskNeed' \subseteq DiskNeed \cup {issued + 1} /\ RingNeed' \subseteq RingNeed \cup {issued + 1}
  <2>1. CASE TurnFaults
    BY <2>1, ZenonT(30) DEF DiskNeed, RingNeed
  <2>2. CASE ~TurnFaults
    BY <2>2, ZenonT(30) DEF DiskNeed, RingNeed
  <2> QED
    BY <2>1, <2>2, ZenonT(30)
<1>1. issued + 1 \notin 0..issued
  BY SMTT(60) DEF Base, TypeOK
<1>2. Range(diskLive) \subseteq 0..issued /\ Range(Cat(live, pend)) \subseteq 0..issued
  BY RangeLaws, SMTT(60) DEF Base, TypeOK, RecordsKnown
<1>3. /\ DiskNeed' \cap Range(diskLive) \subseteq DiskNeed
      /\ RingNeed' \cap Range(Cat(live, pend)) \subseteq RingNeed
  BY <1>0, <1>1, <1>2, ZenonT(30)
<1>4. ASSUME sbStart # sbEnd PROVE HeldTail(ring, sbStart, sbEnd, diskLive, DiskNeed')
  BY <1>3, <1>4, HeldTailNeed, ZenonT(60) DEF ReplayOK
<1>5. HeldTail(ring, logStart, writePos, Cat(live, pend), RingNeed')
  BY <1>3, HeldTailNeed, ZenonT(60) DEF ReplayOK
<1>6. checkpointBlk \in Written(ring)
  BY ZenonT(30) DEF ReplayOK
<1> QED
  BY <1>4, <1>5, <1>6, ZenonT(60) DEF ReplayOK

(* A block write that may or may not have reached the disk.                *)
LEMMA BlockWriteKeeps ==
  ASSUME Base, pc \in {"idle", "s_write"},
         ring' = [ring EXCEPT ![writePos] = JournalBlock(curBlock)], ReplayOK
  PROVE  /\ checkpointBlk \in Written(ring')
         /\ sbStart # sbEnd => HeldTail(ring', sbStart, sbEnd, diskLive, DiskNeed)
         /\ HeldTail(ring', logStart, writePos, Cat(live, pend), RingNeed)
<1>1. /\ ring \in [RingBlocks -> Block] /\ writePos \in UsableBlocks /\ logStart \in UsableBlocks
      /\ sbStart \in UsableBlocks /\ sbEnd \in UsableBlocks
  BY ZenonT(30) DEF Base, TypeOK
<1>2. checkpointBlk \in Written(ring')
  BY <1>1, ZenonT(30) DEF ReplayOK, Written, UsableBlocks
<1>3. ~InLog(writePos, sbStart, sbEnd) /\ ~InLog(writePos, logStart, writePos)
  <2>1. ~InLog(writePos, sbStart, sbEnd)
    BY ZenonT(30) DEF Base, LogOK
  <2>2. ~InLog(writePos, logStart, writePos)
    BY <1>1, RingStretch, SMTT(60) DEF InLog
  <2> QED
    BY <2>1, <2>2, ZenonT(30)
<1>4. ASSUME sbStart # sbEnd PROVE HeldTail(ring', sbStart, sbEnd, diskLive, DiskNeed)
  <2>1. HeldTail(ring, sbStart, sbEnd, diskLive, DiskNeed)
    BY <1>4, ZenonT(30) DEF ReplayOK
  <2> QED
    BY <1>1, <1>3, <2>1, HeldTailBesides, ZenonT(60)
<1>5. HeldTail(ring', logStart, writePos, Cat(live, pend), RingNeed)
  <2>1. HeldTail(ring, logStart, writePos, Cat(live, pend), RingNeed)
    BY ZenonT(30) DEF ReplayOK
  <2> QED
    BY <1>1, <1>3, <2>1, HeldTailBesides, ZenonT(60)
<1> QED
  BY <1>2, <1>4, <1>5, ZenonT(30)

LEMMA ReplayOKWrite ==
  ASSUME Base, ReplayOK, WriteCurBlock, pc \in {"idle", "s_write"},
         pc' \notin {"down", "replay", "c_super"},
         UNCHANGED <<sbStart, sbEnd, diskLive, logStart, live>>,
         unflushed' \subseteq unflushed \cup {issued + 1},
         writePos' = logStart => ~Settled'
  PROVE  ReplayOK'
<1>1. /\ ring' = [ring EXCEPT ![writePos] = JournalBlock(curBlock)]
      /\ writePos' = Advance(writePos) /\ pend' = Cat(pend, curBlock)
  BY ZenonT(30) DEF WriteCurBlock, Cat
<1>2. /\ ring \in [RingBlocks -> Block] /\ writePos \in UsableBlocks /\ logStart \in UsableBlocks
      /\ live \in Records /\ pend \in Records /\ curBlock \in Records /\ issued + 1 \notin 0..issued
      /\ pend' \in Records /\ Cat(live, pend') \in Records
      /\ Cat(live, pend') = Cat(Cat(live, pend), curBlock)
  <2>1. /\ ring \in [RingBlocks -> Block] /\ writePos \in UsableBlocks /\ logStart \in UsableBlocks
        /\ live \in Records /\ pend \in Records /\ curBlock \in Records /\ issued + 1 \notin 0..issued
    BY SMTT(60) DEF Base, TypeOK
  <2> QED
    BY <1>1, <2>1, CatLaws, ZenonT(60)
<1>3. DiskNeed' \subseteq DiskNeed \cup {issued + 1} /\ RingNeed' \subseteq RingNeed \cup {issued + 1}
  <2>1. CASE TurnFaults
    BY <2>1, ZenonT(30) DEF DiskNeed, RingNeed, Settled
  <2>2. CASE ~TurnFaults
    BY <2>2, ZenonT(30) DEF DiskNeed, RingNeed
  <2> QED
    BY <2>1, <2>2, ZenonT(30)
<1>4. Range(diskLive) \subseteq 0..issued /\ Range(Cat(live, pend')) \subseteq 0..issued
  BY <1>1, <1>2, RangeLaws, SMTT(60) DEF Base, TypeOK, RecordsKnown
<1>5. /\ DiskNeed' \cap Range(diskLive) \subseteq DiskNeed
      /\ RingNeed' \cap Range(Cat(live, pend')) \subseteq RingNeed
  BY <1>2, <1>3, <1>4, ZenonT(30)
<1>6. ASSUME sbStart # sbEnd PROVE HeldTail(ring', sbStart, sbEnd, diskLive, DiskNeed')
  BY <1>1, <1>5, <1>6, BlockWriteKeeps, HeldTailNeed, ZenonT(60)
<1>7. HeldTail(ring', logStart, writePos', Cat(live, pend'), RingNeed')
  <2>1. CASE writePos' = logStart
    <3>1. RingNeed' = {}
      BY <2>1, ZenonT(30) DEF RingNeed
    <3> QED
      BY <1>2, <2>1, <3>1, HeldTailEmpty, ZenonT(60)
  <2>2. CASE writePos' # logStart
    <3>1. HeldTail(ring, logStart, writePos, Cat(live, pend), RingNeed) /\ checkpointBlk \in Written(ring)
      BY ZenonT(30) DEF ReplayOK
    <3>2. HeldTail(ring', logStart, Advance(writePos), Cat(Cat(live, pend), curBlock), RingNeed)
      BY <1>1, <1>2, <2>2, <3>1, HeldTailGrows, ZenonT(60)
    <3> QED
      BY <1>1, <1>2, <1>5, <3>2, HeldTailNeed, ZenonT(60)
  <2> QED
    BY <2>1, <2>2, ZenonT(30)
<1>8. checkpointBlk \in Written(ring')
  BY <1>1, BlockWriteKeeps, ZenonT(60)
<1> QED
  BY <1>6, <1>7, <1>8, ZenonT(60) DEF ReplayOK

(* A step after which both logs are empty in memory, or hold nothing.      *)
LEMMA ReplayOKEmptied ==
  ASSUME checkpointBlk \in Written(ring), UNCHANGED ring, pc' # "down" \/ writePos' = logStart',
         pc' \notin {"down", "replay"} =>
           /\ logStart' \in UsableBlocks /\ writePos' = logStart' /\ live' = <<>> /\ pend' = <<>>,
         pc' = "c_super" => live' = <<>>,
         sbStart' # sbEnd' => HeldTail(ring, sbStart', sbEnd', diskLive', DiskNeed')
  PROVE  ReplayOK'
<1>1. ASSUME pc' \notin {"down", "replay"}
      PROVE  HeldTail(ring', logStart', writePos', Cat(live', pend'), RingNeed')
  <2>1. Cat(live', pend') = <<>> /\ <<>> \in Records
    BY <1>1, CatLaws, RecordsTyped, ZenonT(30)
  <2> QED
    BY <1>1, <2>1, HeldTailEmpty, ZenonT(60)
<1> QED
  BY <1>1, ZenonT(60) DEF ReplayOK

LEMMA StepReplayOK ==
  ASSUME SafeFaults
  PROVE  Base /\ ReplayOK /\ [Next]_vars => ReplayOK'
<1> SUFFICES ASSUME Base, ReplayOK, [Next]_vars PROVE ReplayOK'
  BY ZenonT(30)
<1>m. pc # "c_super" => sbStart = logStart /\ sbEnd = logEnd /\ diskLive = live
  BY ZenonT(30) DEF Base, LogOK, CommitOK
<1>1. CASE UNCHANGED vars
  <2>1. UNCHANGED <<ring, sbStart, sbEnd, diskLive, logStart, writePos, live, pend, unflushed, pc>>
    BY <1>1, ZenonT(30) DEF vars, diskVars, posVars, callVars, recVars
  <2>2. UNCHANGED DiskNeed /\ UNCHANGED RingNeed
    BY <2>1, ZenonT(30) DEF DiskNeed, RingNeed, Settled
  <2> QED
    BY <2>1, <2>2, ZenonT(60) DEF ReplayOK
<1>2. ASSUME NEW sz \in RecordSizes, WriteRecordFits(sz) PROVE ReplayOK'
  <2>1. /\ pc = "idle" /\ pc' = "idle" /\ unflushed' = unflushed \cup {issued + 1}
        /\ UNCHANGED <<ring, sbStart, sbEnd, diskLive, logStart, writePos, live, pend>>
    BY <1>2, ZenonT(30) DEF WriteRecordFits, AppendRecord, diskVars, posVars, callVars
  <2> QED
    BY <2>1, ReplayOKKept, ZenonT(30) DEF Settled
<1>3. ASSUME NEW sz \in RecordSizes, WriteRecordOverflow(sz) PROVE ReplayOK'
  <2>1. /\ WriteCurBlock /\ pc = "idle" /\ UNCHANGED <<sbStart, sbEnd, diskLive, logStart, live>>
        /\ unflushed' \subseteq unflushed \cup {issued + 1}
        /\ IF writePos' = logStart THEN pc' = "c_alloc" ELSE pc' = "idle"
    BY <1>3, ZenonT(30) DEF WriteRecordOverflow, AppendRecord, KeepSuperblock
  <2> QED
    BY <2>1, ReplayOKWrite, ZenonT(30) DEF Settled
<1>4. CASE WriteRecordResume
  <2>1. /\ pc = "append" /\ pc' = "idle" /\ unflushed' = unflushed \cup {issued + 1}
        /\ UNCHANGED <<ring, sbStart, sbEnd, diskLive, logStart, writePos, live, pend>>
    BY <1>4, ZenonT(30) DEF WriteRecordResume, AppendRecord, diskVars, posVars
  <2> QED
    BY <2>1, ReplayOKKept, ZenonT(30) DEF Settled
<1>5. CASE Sync \/ Checkpoint \/ UpdateLabel
  <2>1. /\ pc = "idle" /\ pc' \in {"idle", "c_alloc", "s_write"} /\ UNCHANGED unflushed
        /\ UNCHANGED <<ring, sbStart, sbEnd, diskLive, logStart, writePos, live, pend>>
    BY <1>m, <1>5, ZenonT(60) DEF Sync, Checkpoint, UpdateLabel, SyncEntry, syncSuperblock, diskVars,
       posVars, callVars, recVars
  <2> QED
    BY <2>1, ReplayOKKept, ZenonT(30) DEF Settled
<1>6. CASE SyncWrite
  <2>1. /\ WriteCurBlock /\ pc = "s_write" /\ pc' = "s_drain"
        /\ UNCHANGED <<sbStart, sbEnd, diskLive, logStart, live, unflushed>>
    BY <1>6, ZenonT(30) DEF SyncWrite, KeepSuperblock
  <2> QED
    BY <2>1, ReplayOKWrite, ZenonT(30) DEF Settled
<1>7. CASE SyncDrain
  <2>1. /\ pc = "s_drain" /\ pc' = "s_commit" /\ UNCHANGED unflushed
        /\ UNCHANGED <<ring, sbStart, sbEnd, diskLive, logStart, writePos, live, pend>>
    BY <1>7, ZenonT(30) DEF SyncDrain, diskVars, posVars, recVars
  <2> QED
    BY <2>1, ReplayOKKept, ZenonT(30) DEF Settled
<1>8. CASE SyncCommit
  <2>1. /\ pc = "s_commit" /\ pc' = "s_meta" /\ UNCHANGED <<ring, logStart, writePos, unflushed>>
        /\ sbStart' = logStart /\ sbEnd' = writePos /\ diskLive' = Cat(live, pend)
        /\ live' = Cat(live, pend) /\ pend' = <<>>
    BY <1>8, ZenonT(30) DEF SyncCommit, syncSuperblock, Cat
  <2>2. Cat(live, pend) \in Records /\ Cat(live', pend') = Cat(live, pend)
    BY <2>1, CatLaws, ZenonT(30) DEF Base, TypeOK
  <2>3. RingNeed' = RingNeed /\ (writePos # logStart => DiskNeed' = RingNeed)
    BY <2>1, ZenonT(30) DEF DiskNeed, RingNeed, Settled
  <2>4. HeldTail(ring, logStart, writePos, Cat(live, pend), RingNeed) /\ checkpointBlk \in Written(ring)
    BY <2>1, ZenonT(30) DEF ReplayOK
  <2> QED
    BY <2>1, <2>2, <2>3, <2>4, ZenonT(60) DEF ReplayOK
<1>9. CASE SyncMetadata
  <2>1. /\ pc = "s_meta" /\ pc' = "s_alloc" /\ unflushed' = {}
        /\ UNCHANGED <<ring, sbStart, sbEnd, diskLive, logStart, writePos, live, pend>>
    BY <1>9, ZenonT(30) DEF SyncMetadata, diskVars, posVars
  <2> QED
    BY <2>1, ReplayOKKept, ZenonT(30)
<1>10. CASE SyncAllocPools
  <2>1. /\ pc = "s_alloc" /\ pc' \in {"c_alloc", "s_bp"} /\ UNCHANGED unflushed
        /\ UNCHANGED <<ring, sbStart, sbEnd, diskLive, logStart, writePos, live, pend>>
    BY <1>m, <1>10, ZenonT(30) DEF SyncAllocPools, syncSuperblock, posVars, recVars
  <2> QED
    BY <2>1, ReplayOKKept, ZenonT(30) DEF Settled
<1>11. CASE SyncBackPressure
  <2>1. /\ pc = "s_bp" /\ pc' \in {"c_alloc", "idle"} /\ UNCHANGED unflushed
        /\ UNCHANGED <<ring, sbStart, sbEnd, diskLive, logStart, writePos, live, pend>>
    BY <1>11, ZenonT(30) DEF SyncBackPressure, diskVars, posVars, recVars
  <2> QED
    BY <2>1, ReplayOKKept, ZenonT(30) DEF Settled
<1>12. CASE CheckpointAllocPools
  <2>1. /\ pc = "c_alloc" /\ pc' = "c_block" /\ UNCHANGED unflushed
        /\ UNCHANGED <<ring, sbStart, sbEnd, diskLive, logStart, writePos, live, pend>>
    BY <1>m, <1>12, ZenonT(30) DEF CheckpointAllocPools, syncSuperblock, posVars, recVars
  <2> QED
    BY <2>1, ReplayOKKept, ZenonT(30) DEF Settled
<1>13. CASE CheckpointRetire
  <2>1. /\ pc = "c_block" /\ pc' = "c_super" /\ UNCHANGED <<ring, sbStart, sbEnd, diskLive, unflushed>>
        /\ logStart' = writePos /\ writePos' = writePos /\ live' = <<>> /\ pend' = <<>>
    BY <1>13, ZenonT(30) DEF CheckpointRetire, diskVars
  <2>2. DiskNeed' = DiskNeed /\ writePos \in UsableBlocks
    BY <2>1, ZenonT(30) DEF DiskNeed, Base, TypeOK
  <2>3. /\ checkpointBlk \in Written(ring)
        /\ sbStart # sbEnd => HeldTail(ring, sbStart, sbEnd, diskLive, DiskNeed)
    BY ZenonT(30) DEF ReplayOK
  <2> QED
    BY <2>1, <2>2, <2>3, ReplayOKEmptied, ZenonT(60)
<1>14. CASE CheckpointPersist
  <2>1. /\ pc = "c_super" /\ pc' = ret /\ UNCHANGED <<ring, logStart, logEnd, writePos, live, pend>>
        /\ sbStart' = logStart /\ sbEnd' = logEnd
    BY <1>14, ZenonT(30) DEF CheckpointPersist, syncSuperblock, posVars, recVars
  <2>2. /\ logStart = writePos /\ logEnd = writePos /\ live = <<>> /\ pend = <<>>
        /\ writePos \in UsableBlocks /\ checkpointBlk \in Written(ring)
        /\ ret \notin {"down", "replay", "c_super"}
    BY <2>1, ZenonT(30) DEF Base, LogOK, CommitOK, TypeOK, ReplayOK
  <2> QED
    BY <2>1, <2>2, ReplayOKEmptied, ZenonT(60)
<1>15. CASE Fault
  <2>1. ASSUME BlockWriteFails, pc \in {"idle", "s_write"} PROVE ReplayOK'
    <3>1. /\ pc' = "idle"
          /\ UNCHANGED <<sbStart, sbEnd, diskLive, logStart, writePos, live, pend, unflushed>>
      BY <2>1, ZenonT(30) DEF BlockWriteFails, AbortCall, KeepSuperblock, posVars, recVars
    <3>2. CASE UNCHANGED ring
      BY <2>1, <3>1, <3>2, ReplayOKKept, ZenonT(30) DEF Settled
    <3>3. CASE ring' = [ring EXCEPT ![writePos] = JournalBlock(curBlock)]
      <4>1. DiskNeed' = DiskNeed /\ RingNeed' = RingNeed
        BY <2>1, <3>1, ZenonT(30) DEF DiskNeed, RingNeed, Settled
      <4>2. /\ checkpointBlk \in Written(ring')
            /\ sbStart # sbEnd => HeldTail(ring', sbStart, sbEnd, diskLive, DiskNeed)
            /\ HeldTail(ring', logStart, writePos, Cat(live, pend), RingNeed)
        BY <2>1, <3>3, BlockWriteKeeps, ZenonT(60)
      <4> QED
        BY <3>1, <4>1, <4>2, ZenonT(60) DEF ReplayOK
    <3> QED
      BY <2>1, <3>2, <3>3, ZenonT(30) DEF BlockWriteFails
  <2>2. ASSUME NEW s \in {"s_drain", "s_meta", "c_block"}, CallOutFails(s) PROVE ReplayOK'
    <3>1. /\ pc = "s_meta" /\ pc' = "idle" /\ UNCHANGED unflushed /\ ~TurnFaults
          /\ UNCHANGED <<ring, sbStart, sbEnd, diskLive, logStart, writePos, live, pend>>
      BY <2>2, ZenonT(30) DEF SafeFaults, TurnFaults, CallOutFails, AbortCall, diskVars, posVars, recVars
    <3> QED
      BY <3>1, ReplayOKKept, ZenonT(30)
  <2>3. ASSUME NEW s \in {"s_commit", "s_alloc", "c_alloc", "c_super"}, SuperblockWriteFails(s)
        PROVE  ReplayOK'
    <3>1. /\ pc = "s_alloc" /\ pc' = "idle" /\ UNCHANGED unflushed
          /\ UNCHANGED <<ring, sbStart, sbEnd, diskLive, logStart, writePos, live, pend>>
      BY <1>m, <2>3, ZenonT(30) DEF SafeFaults, SuperblockWriteFails, AbortCall, syncSuperblock, KeepSuperblock
    <3> QED
      BY <3>1, ReplayOKKept, ZenonT(30) DEF Settled
  <2> QED
    BY <1>15, <2>1, <2>2, <2>3, ZenonT(30) DEF Fault, WriteRecordFails, SyncWriteFails
<1>16. CASE Crash
  <2>1. /\ pc' = "down" /\ UNCHANGED <<ring, sbStart, sbEnd, diskLive>> /\ writePos' = logStart'
        /\ unflushed' \subseteq unflushed
    BY <1>16, ZenonT(30) DEF Crash, diskVars
  <2>2. DiskNeed' \subseteq DiskNeed
    BY <2>1, ZenonT(30) DEF DiskNeed
  <2>3. ASSUME sbStart # sbEnd PROVE HeldTail(ring, sbStart, sbEnd, diskLive, DiskNeed')
    <3>1. DiskNeed' \cap Range(diskLive) \subseteq DiskNeed
      BY <2>2, ZenonT(30)
    <3> QED
      BY <2>3, <3>1, HeldTailNeed, ZenonT(60) DEF ReplayOK
  <2>4. checkpointBlk \in Written(ring)
    BY ZenonT(30) DEF ReplayOK
  <2> QED
    BY <2>1, <2>3, <2>4, ReplayOKEmptied, ZenonT(60)
<1>17. CASE NewJournal
  <2>1. /\ pc = "down" /\ UNCHANGED <<ring, sbStart, sbEnd, logStart, writePos, pend>>
        /\ sbStart = sbEnd => pc' = "idle" /\ live' = <<>>
        /\ sbStart # sbEnd => pc' = "replay" /\ UNCHANGED <<diskLive, unflushed>>
    BY <1>17, ZenonT(30) DEF NewJournal, posVars
  <2>2. /\ writePos = logStart /\ pend = <<>> /\ logStart \in UsableBlocks
        /\ checkpointBlk \in Written(ring)
    BY <2>1, ZenonT(30) DEF ReplayOK, Base, CommitOK, TypeOK
  <2>3. ASSUME sbStart # sbEnd PROVE HeldTail(ring, sbStart, sbEnd, diskLive', DiskNeed')
    <3>1. DiskNeed' = DiskNeed /\ diskLive' = diskLive
      BY <2>1, <2>3, ZenonT(30) DEF DiskNeed
    <3> QED
      BY <2>3, <3>1, ZenonT(60) DEF ReplayOK
  <2> QED
    BY <2>1, <2>2, <2>3, ReplayOKEmptied, ZenonT(60)
<1>18. CASE MarkCleanAfterReplay
  <2>1. /\ pc = "replay" /\ pc' = "idle" /\ UNCHANGED <<ring, pend>> /\ sbStart' = sbEnd'
        /\ logStart' = logEnd /\ writePos' = logEnd /\ live' = <<>>
    BY <1>18, ZenonT(30) DEF MarkCleanAfterReplay, syncSuperblock
  <2>2. pend = <<>> /\ logEnd \in UsableBlocks /\ checkpointBlk \in Written(ring)
    BY <2>1, ZenonT(30) DEF ReplayOK, Base, CommitOK, TypeOK
  <2> QED
    BY <2>1, <2>2, ReplayOKEmptied, ZenonT(60)
<1> QED
  BY <1>1, <1>2, <1>3, <1>4, <1>5, <1>6, <1>7, <1>8, <1>9, <1>10, <1>11, <1>12, <1>13, <1>14,
     <1>15, <1>16, <1>17, <1>18, ZenonT(30)
  DEF Next, CallStep, Recover

-----------------------------------------------------------------------------
(* walkJournal reads nothing from a log whose two ends are equal           *)
(* (journal_replay.go:166-168).                                            *)
LEMMA WalkOfNothing ==
  ASSUME NEW a
  PROVE  WalkJournalRing(a, a) = <<>>
<1> DEFINE Step(f, k) ==
             IF \/ k = JournalBlocks
                \/ a = a
                \/ k > 0 /\ RingAt(a, k) = a
                \/ ~ring[RingAt(a, k)].magic
             THEN <<>>
             ELSE WalkRecs(ring, RingAt(a, k)) \o f[k + 1]
           IsWalk(f) == f = [k \in 0..JournalBlocks |-> Step(f, k)]
           walk == CHOOSE f : IsWalk(f)
<1>1. WalkJournalRing(a, a) = walk[0]
  BY ZenonT(30) DEF WalkJournalRing, RingAt, WalkRecs
<1>2. \A f, k : Step(f, k) = <<>>
  BY ZenonT(30)
<1> HIDE DEF Step
<1>3. IsWalk([k \in 0..JournalBlocks |-> <<>>])
  BY <1>2, ZenonT(60)
<1>4. IsWalk(walk)
  BY <1>3, ZenonT(60)
<1> HIDE DEF walk
<1>5. 0 \in 0..JournalBlocks
  BY SMTT(60)
<1>6. walk[0] = Step(walk, 0)
  BY <1>4, <1>5, ZenonT(60)
<1> QED
  BY <1>1, <1>2, <1>6, ZenonT(60)

LEMMA SuffixOfCat ==
  ASSUME NEW x \in Records, NEW t \in Records
  PROVE  /\ Len(x) \in 0..Len(Cat(x, t))
         /\ t = SubSeq(Cat(x, t), Len(x) + 1, Len(Cat(x, t)))
  BY SMTT(60) DEF Records, Cat

(* What the next mount would replay is a tail of the log on disk, and it   *)
(* is missing no record of DiskNeed.                                       *)
LEMMA ReplayOKWalk ==
  ASSUME Base, ReplayOK
  PROVE  \E lost, t \in Records :
           /\ Replayed = t
           /\ diskLive = Cat(lost, t)
           /\ sbStart # sbEnd => DiskNeed \cap Range(lost) = {}
<1>1. diskLive \in Records /\ sbStart \in UsableBlocks /\ sbEnd \in UsableBlocks
      /\ ring \in [RingBlocks -> Block]
  BY ZenonT(30) DEF Base, TypeOK, Records
<1>2. CASE sbStart = sbEnd
  <2>1. Replayed = <<>> /\ <<>> \in Records /\ diskLive = Cat(diskLive, <<>>)
    BY <1>1, <1>2, WalkOfNothing, CatLaws, RecordsTyped, ZenonT(30) DEF Replayed
  <2> QED
    BY <1>1, <1>2, <2>1, ZenonT(30)
<1>3. CASE sbStart # sbEnd
  <2>1. PICK lost \in Records, t \in Records :
           /\ diskLive = Cat(lost, t)
           /\ Holds(ring, sbStart, RingDistance(sbStart, sbEnd), t)
           /\ DiskNeed \cap Range(lost) = {}
    BY <1>3, ZenonT(60) DEF ReplayOK, HeldTail
  <2>2. Replayed = t
    BY <1>1, <1>3, <2>1, WalkIsHeld, ZenonT(60) DEF Replayed
  <2> QED
    BY <2>1, <2>2, ZenonT(60)
<1> QED
  BY <1>2, <1>3, ZenonT(30)

LEMMA StepBase ==
  ASSUME SafeFaults
  PROVE  Base /\ [Next]_vars => Base'
<1> SUFFICES ASSUME Base, [Next]_vars PROVE Base'
  BY ZenonT(30)
<1>1. (TypeOK /\ CallOK)'
  BY StepTyped, ZenonT(30) DEF Base
<1>2. LogOK'
  BY StepLogOK, ZenonT(30) DEF Base
<1>3. CommitOK'
  BY StepCommitOK, ZenonT(30) DEF Base
<1>4. RecordsKnown'
  BY StepRecordsKnown, ZenonT(30) DEF Base
<1> QED
  BY <1>1, <1>2, <1>3, <1>4, ZenonT(30) DEF Base

(* As ReplayedIsLogTail says, whatever the next mount replays from the     *)
(* ring is the end of the log on disk, in order: no hole, no record of an  *)
(* earlier turn of the ring, nothing twice. For every size of ring and     *)
(* block, with block writes, the metadata flush and the allocator's        *)
(* superblock write allowed to fail.                                       *)
THEOREM ReplayIsTail == SafeFaults => (Spec => []ReplayedIsLogTail)
<1> SUFFICES ASSUME SafeFaults PROVE Spec => []ReplayedIsLogTail
  BY ZenonT(30)
<1>1. Init => Base /\ ReplayOK
  BY InitTyped, InitLogOK, InitCommitOK, InitKnown, InitReplayOK, ZenonT(30) DEF Base
<1>2. Base /\ ReplayOK /\ [Next]_vars => (Base /\ ReplayOK)'
  BY StepBase, StepReplayOK, ZenonT(60)
<1>3. Base /\ ReplayOK => ReplayedIsLogTail
  BY ReplayOKWalk, SuffixOfCat, ZenonT(60) DEF ReplayedIsLogTail
<1> QED
  BY <1>1, <1>2, <1>3, PTL DEF Spec

(* As CommittedIsReplayedUnlessFull says, while the log on disk does not   *)
(* look empty, every committed record whose metadata has not been flushed  *)
(* is among what replay would return: turns of the ring overwrite only     *)
(* records whose metadata is safe. Block writes and the allocator's        *)
(* superblock write may fail; the metadata flush may not, since a Sync     *)
(* abandoned there goes on appending behind records it did not flush.      *)
THEOREM CommittedIsRecovered == TurnFaults => (Spec => []CommittedIsReplayedUnlessFull)
<1> SUFFICES ASSUME TurnFaults PROVE Spec => []CommittedIsReplayedUnlessFull
  BY ZenonT(30)
<1>0. SafeFaults
  BY ZenonT(30) DEF TurnFaults, SafeFaults
<1>1. Init => Base /\ ReplayOK
  BY InitTyped, InitLogOK, InitCommitOK, InitKnown, InitReplayOK, ZenonT(30) DEF Base
<1>2. Base /\ ReplayOK /\ [Next]_vars => (Base /\ ReplayOK)'
  BY <1>0, StepBase, StepReplayOK, ZenonT(60)
<1>3. Base /\ ReplayOK => CommittedIsReplayedUnlessFull
  <2> SUFFICES ASSUME Base, ReplayOK, sbStart # sbEnd,
                      NEW r \in unflushed, r \in Range(diskLive)
               PROVE  r \in Range(Replayed)
    BY ZenonT(30) DEF CommittedIsReplayedUnlessFull, CommittedIsReplayed
  <2>1. DiskNeed = unflushed
    BY ZenonT(30) DEF DiskNeed
  <2>2. PICK lost \in Records, t \in Records :
           Replayed = t /\ diskLive = Cat(lost, t) /\ DiskNeed \cap Range(lost) = {}
    BY ReplayOKWalk, ZenonT(60)
  <2>3. Range(diskLive) = Range(lost) \cup Range(t)
    BY <2>2, RangeLaws, ZenonT(60)
  <2> QED
    BY <2>1, <2>2, <2>3, ZenonT(60)
<1> QED
  BY <1>1, <1>2, <1>3, PTL DEF Spec
=============================================================================
