---------------------------- MODULE XattrProofs ----------------------------
(***************************************************************************)
(* No block is in two attribute chains, in a chain and in the data file,   *)
(* or in one of them and free, and replay restores no attribute block over *)
(* file data: proved for any number of inodes, calls, data writes, I/O     *)
(* errors and crashes, and for every size of the pool and of a chain.      *)
(***************************************************************************)
EXTENDS XattrChains

USE XattrAssumption

-----------------------------------------------------------------------------
(* The steps.  First those that change neither the device nor the log.     *)
Still == UNCHANGED <<disk, stable, bitmap, log, com, file, drain>>

LEMMA StillKept ==
  ASSUME XInv, Still, NEW i \in Inos, \A j \in Inos : j # i => op'[j] = op[j]
  PROVE  /\ \A j \in Inos : j # i => AsBefore(j)
         /\ FileOf'
<1>1. /\ disk' = disk /\ stable' = stable /\ bitmap' = bitmap /\ log' = log /\ com' = com
      /\ file' = file /\ drain' = drain
  BY ZenonT(30) DEF Still
<1>2. ASSUME NEW j \in Inos, op'[j] = op[j], FineOf(j), TwinOf(j) PROVE AsBefore(j)
  BY <1>1, <1>2, ZenonT(30) DEF AsBefore, FineOf, TwinOf, OwnOf
<1> QED
  BY <1>1, <1>2, ZenonT(30) DEF XInv, Calls, FileOf

LEMMA CallsKept ==
  ASSUME NEW i, \A j \in Inos : j # i => AsBefore(j), i \in Inos => FineOf(i)' /\ TwinOf(i)'
  PROVE  Calls'
<1>1. ASSUME NEW j \in Inos PROVE FineOf(j)' /\ TwinOf(j)'
  BY <1>1, ZenonT(30) DEF AsBefore
<1> QED
  BY <1>1, ZenonT(30) DEF Calls

(* The call on inode i goes from o to o2.                                  *)
Step(i, o, o2) ==
  /\ op[i] = o /\ op'[i] = o2 /\ DOMAIN op' = Inos
  /\ \A j \in Inos : j # i => op'[j] = op[j]

LEMMA StepIs ==
  ASSUME NEW i \in Inos, NEW v, DOMAIN op = Inos, op' = [op EXCEPT ![i] = v]
  PROVE  Step(i, op[i], v)
BY ZenonT(30) DEF Step

LEMMA XInvParts ==
  ASSUME XInv, NEW i \in Inos
  PROVE  /\ Fine(disk, stable, bitmap, log, com, op[i], i) /\ TwinOf(i)
         /\ IsLog(log) /\ com \in 0..Len(log) /\ DOMAIN op = Inos /\ Shape /\ Apart /\ Covered
         /\ OwnOf(i) \cap free = {} /\ OwnOf(i) \cap file = {} /\ file \cap free = {}
BY ZenonT(30) DEF FineOf, Shape, Apart, XInv, Calls

(* What is left of the shape when the step only changes the call.          *)
LEMMA ShapeKept ==
  ASSUME Shape, NEW i \in Inos, DOMAIN op' = Inos, \A j \in Inos : j # i => op'[j] = op[j],
         DOMAIN disk' = Keys, DOMAIN stable' = Keys,
         free' \subseteq Pool, bitmap' \subseteq Pool, file' = file,
         IsLog(log'), com' \in 0..Len(log'),
         jlock' = Nobody \/ (jlock' \in Inos \cup {File} /\ com' = Len(log')),
         drain' \in BOOLEAN, readOnly' \in BOOLEAN, readOnly => readOnly',
         op'[i].at = "failed" => readOnly'
  PROVE  Shape'
BY ZenonT(30) DEF Shape, Keys

LEMMA StillShape ==
  ASSUME Shape, Still, NEW i \in Inos, DOMAIN op' = Inos, \A j \in Inos : j # i => op'[j] = op[j],
         free' \subseteq Pool, jlock' = jlock \/ jlock' = Nobody,
         readOnly' \in BOOLEAN, readOnly => readOnly', op'[i].at = "failed" => readOnly'
  PROVE  Shape'
BY ShapeKept, ZenonT(30) DEF Shape, Still

(* setXattr                                                                *)
LEMMA SetXattrKept ==
  ASSUME XInv, NEW i \in Inos, setXattr(i)
  PROVE  XInv'
<1>1. PICK c, kvs, ds, had :
        /\ op[i] = Idle /\ Len(ds) \in 0..MaxChain
        /\ op' = [op EXCEPT ![i] = [at |-> "alloc", call |-> c, kvs |-> kvs, descs |-> ds,
                                    had |-> had, got |-> <<>>, head |-> 0, old |-> <<>>, recs |-> <<>>]]
  BY ZenonT(60) DEF setXattr
<1>2. /\ disk' = disk /\ stable' = stable /\ free' = free /\ bitmap' = bitmap /\ log' = log /\ com' = com
      /\ jlock' = jlock /\ file' = file /\ drain' = drain /\ readOnly' = readOnly /\ crashes' = crashes
  BY ZenonT(60) DEF setXattr
<1> DEFINE o2 == [at |-> "alloc", call |-> c, kvs |-> kvs, descs |-> ds,
                  had |-> had, got |-> <<>>, head |-> 0, old |-> <<>>, recs |-> <<>>]
<1>3. DOMAIN o2 = Fields /\ o2.at = "alloc" /\ o2.got = <<>> /\ o2.descs = ds
  BY SMTT(60), Z3T(60) DEF Fields
<1>4. op' = [op EXCEPT ![i] = o2]
  BY <1>1, ZenonT(30)
<1> HIDE DEF o2
<1>5. CallShape(o2)
  <2>2. 0 <= Len(ds)
    BY <1>1, SMTT(60), Z3T(60)
  <2> QED
    BY <1>1, <1>3, <2>2, SMTT(60), Z3T(60) DEF CallShape, Stages, Row
<1>6. /\ Fine(disk, stable, bitmap, log, com, op[i], i) /\ TwinOf(i)
      /\ DOMAIN op = Inos /\ Shape /\ Apart /\ Covered
      /\ OwnOf(i) \cap free = {} /\ OwnOf(i) \cap file = {} /\ file \cap free = {}
  BY XInvParts, ZenonT(30)
<1>7. Step(i, op[i], o2)
  BY <1>4, <1>6, StepIs, ZenonT(30)
<1>10. /\ Fine(disk, stable, bitmap, log, com, o2, i)
       /\ Own(disk, log, com, o2, i) = Own(disk, log, com, Idle, i)
       /\ Range(NewOf(o2)) = {}
  <2>2. Begun(disk, stable, bitmap, log, com, o2, i)
    BY <1>1, <1>3, <1>5, <1>6, BeginFine, ZenonT(30)
  <2> QED
    BY <2>2, ZenonT(30) DEF Begun
<1>11. FineOf(i)' /\ TwinOf(i)' /\ OwnOf(i)' = OwnOf(i)
  BY <1>1, <1>2, <1>7, <1>10, ZenonT(30) DEF FineOf, TwinOf, OwnOf, Step
<1>13. Moves(i)
  BY <1>2, <1>6, <1>11, ZenonT(30) DEF Moves, Mine
<1> QED
  BY <1>2, <1>3, <1>6, <1>7, <1>11, <1>13, CallsKept, ApartKept, StillKept, StillShape, ZenonT(30)
     DEF XInv, Step, Shape, Still

(* The blocks an inode owns.                                               *)
LEMMA OwnInPool ==
  ASSUME XInv, NEW i \in Inos
  PROVE  OwnOf(i) \subseteq Pool
<1> DEFINE o == op[i]
<1>1. CallFine(disk, log, com, o, i) /\ SettledFine(disk, o, i) /\ IsLog(log) /\ com \in 0..Len(log)
  BY XInvParts, ZenonT(30) DEF Fine
<1>2. OwnOf(i) = Own(disk, log, com, o, i)
  BY ZenonT(30) DEF OwnOf
<1> HIDE DEF o
<1> QED
  BY <1>1, <1>2, OwnParts, RowIs, ZenonT(30) DEF Own

(* What every step of a call on inode i comes down to: the call is well    *)
(* placed afterwards, and blocks only move between the inode and the free  *)
(* set.                                                                    *)
Twin(d, l, c, o, i) == Kept(l, c, o, i) => Range(NewOf(o)) \cap Range(OldOf(d, o, i)) = {}

Trade(i, O2) ==
  /\ O2 \subseteq OwnOf(i) \cup free /\ free' \subseteq OwnOf(i) \cup free /\ O2 \cap free' = {}
  /\ crashes' = 0 /\ ~readOnly' =>
       crashes = 0 /\ ~readOnly /\ OwnOf(i) \subseteq O2 \cup free' /\ free \subseteq O2 \cup free'

LEMMA StepKept ==
  ASSUME XInv, NEW i \in Inos, NEW o2, Step(i, op[i], o2), \A j \in Inos : j # i => AsBefore(j),
         file' = file, Shape', FileOf',
         Fine(disk', stable', bitmap', log', com', o2, i), Twin(disk', log', com', o2, i),
         Trade(i, Own(disk', log', com', o2, i))
  PROVE  XInv'
<1>1. /\ Shape /\ Apart /\ Covered
      /\ OwnOf(i) \cap free = {} /\ OwnOf(i) \cap file = {} /\ file \cap free = {}
  BY XInvParts, ZenonT(30)
<1>3. FineOf(i)' /\ TwinOf(i)' /\ OwnOf(i)' = Own(disk', log', com', o2, i)
  BY ZenonT(30) DEF FineOf, TwinOf, OwnOf, Twin, Step
<1> DEFINE O == OwnOf(i)
           O2 == Own(disk', log', com', o2, i)
<1>6. Trade(i, O2) /\ Mine(i) = O /\ Mine(i)' = O2
  BY <1>3, ZenonT(30) DEF Mine
<1>7. /\ O2 \subseteq O \cup free /\ free' \subseteq O \cup free /\ O2 \cap free' = {}
      /\ crashes' = 0 /\ ~readOnly' =>
           crashes = 0 /\ ~readOnly /\ O \subseteq O2 \cup free' /\ free \subseteq O2 \cup free'
  BY <1>6, ZenonT(30) DEF Trade
<1>8. O \cap free = {} /\ O \cap file = {}
  BY <1>1, ZenonT(30)
<1> HIDE DEF O, O2
<1>11. Apart' /\ Covered'
  BY <1>1, <1>6, <1>7, <1>8, ApartKept, ZenonT(30) DEF Moves
<1> QED
  BY <1>3, <1>11, CallsKept, ZenonT(30) DEF XInv

LEMMA StillStep ==
  ASSUME XInv, Still, NEW i \in Inos, NEW o2, op' = [op EXCEPT ![i] = o2],
         Fine(disk, stable, bitmap, log, com, o2, i), Twin(disk, log, com, o2, i),
         Trade(i, Own(disk, log, com, o2, i)),
         jlock' = jlock \/ jlock' = Nobody,
         readOnly' \in BOOLEAN, readOnly => readOnly', o2.at = "failed" => readOnly'
  PROVE  XInv'
<1>1. DOMAIN op = Inos /\ Shape
  BY XInvParts, ZenonT(30)
<1>2. Step(i, op[i], o2)
  BY <1>1, StepIs, ZenonT(30)
<1>6. Shape'
  BY <1>1, <1>2, StillShape, OwnInPool, ZenonT(30) DEF Trade, Shape, Step
<1> QED
  BY <1>2, <1>6, StepKept, StillKept, ZenonT(30) DEF Step, Still

(* AllocBlock                                                              *)
LEMMA AllocBlockKept ==
  ASSUME XInv, NEW i \in Inos, AllocBlock(i)
  PROVE  XInv'
<1> DEFINE o == op[i]
           b == Min(free)
           got2 == [o EXCEPT !.got = Append(@, b)]
<1>1. /\ o.at = "alloc" /\ Len(o.got) < Len(o.descs)
      /\ \/ free # {} /\ free' = free \ {b} /\ op' = [op EXCEPT ![i] = got2]
         \/ free = {} /\ free' = Range(o.got) /\ op' = [op EXCEPT ![i] = Idle]
      /\ UNCHANGED <<disk, stable, bitmap, log, com, jlock, file, drain, readOnly, calls, writes, crashes>>
  BY SMTT(60), Z3T(60) DEF AllocBlock, At
<1>2. Still /\ jlock' = jlock /\ readOnly' = readOnly /\ crashes' = crashes
  BY <1>1, ZenonT(30) DEF Still
<1>3. /\ Fine(disk, stable, bitmap, log, com, o, i) /\ TwinOf(i) /\ Shape /\ OwnOf(i) \cap free = {}
  BY XInvParts, ZenonT(30)
<1>4. /\ OwnOf(i) = Own(disk, log, com, o, i)
      /\ TwinOf(i) => (Kept(log, com, o, i) => Range(NewOf(o)) \cap Range(OldOf(disk, o, i)) = {})
  BY ZenonT(30) DEF OwnOf, TwinOf
<1>5. o # Idle /\ readOnly \in BOOLEAN /\ Idle.at # "failed" /\ got2.at = "alloc"
  <2>1. Idle.at = "idle"
    BY SMTT(60), Z3T(60) DEF Idle
  <2>2. o # Idle
    BY <1>1, <2>1, ZenonT(30)
  <2>5. got2.at = "alloc"
    <3> HIDE DEF o, b
    <3> QED
      BY <1>1, <1>3, <2>2, SMTT(60), Z3T(60) DEF Fields, CallFine, CallShape, Fine
  <2> QED
    BY <1>3, <2>1, <2>2, <2>5, ZenonT(30) DEF Shape
<1>6. AllocIs(disk, log, com, o, i)
  <2> HIDE DEF o
  <2> QED
    BY <1>1, AllocParts, ZenonT(30)
<1>7. /\ Own(disk, log, com, o, i) = Range(o.got) \cup Range(OldOf(disk, o, i))
      /\ Range(o.got) \cap Range(OldOf(disk, o, i)) = {}
  BY <1>3, <1>4, <1>6, ZenonT(30) DEF AllocIs
<1>8. CASE free # {} /\ free' = free \ {b} /\ op' = [op EXCEPT ![i] = got2]
  <2>1. b \in free /\ b \in Pool
    BY <1>3, <1>8, MinIsIn, ZenonT(30) DEF Shape
  <2>2. b \notin Range(o.got) /\ b \notin Range(OldOf(disk, o, i))
    BY <1>3, <1>4, <1>7, <2>1, ZenonT(30)
  <2>3. Allocated(disk, stable, bitmap, log, com, o, i, b)
    <3> HIDE DEF o, b
    <3> QED
      BY <1>1, <1>3, <1>5, <2>1, <2>2, AllocFine, ZenonT(30)
  <2>4. /\ Fine(disk, stable, bitmap, log, com, got2, i)
        /\ Range(NewOf(got2)) = Range(o.got) \cup {b} /\ OldOf(disk, got2, i) = OldOf(disk, o, i)
    BY <2>3, ZenonT(30) DEF Allocated
  <2> HIDE DEF got2
  <2>5. AllocIs(disk, log, com, got2, i)
    BY <1>5, AllocParts, ZenonT(30)
  <2>6. Own(disk, log, com, got2, i) = Own(disk, log, com, o, i) \cup {b}
    BY <1>7, <2>4, <2>5, ZenonT(30) DEF AllocIs
  <2>8. Trade(i, Own(disk, log, com, got2, i))
    BY <1>2, <1>3, <1>4, <1>8, <2>1, <2>6, ZenonT(30) DEF Trade
  <2>9. got2.at # "failed"
    BY <1>5, ZenonT(30)
  <2> QED
    BY <1>2, <1>5, <1>7, <1>8, <2>2, <2>4, <2>8, <2>9, StillStep, ZenonT(30) DEF Twin
<1>9. CASE free = {} /\ free' = Range(o.got) /\ op' = [op EXCEPT ![i] = Idle]
  <2>1. RolledBack(disk, stable, bitmap, log, com, o, i)
    <3> HIDE DEF o
    <3> QED
      BY <1>1, <1>3, RollbackFine, ZenonT(30)
  <2>3. Own(disk, log, com, Idle, i) = Range(OldOf(disk, o, i)) /\ Twin(disk, log, com, Idle, i)
    BY <2>1, IdleParts, ZenonT(30) DEF RolledBack, IdleIs, Twin
  <2>4. Trade(i, Own(disk, log, com, Idle, i))
    BY <1>2, <1>4, <1>7, <1>9, <2>3, ZenonT(30) DEF Trade
  <2> QED
    BY <1>2, <1>5, <1>9, <2>1, <2>3, <2>4, StillStep, ZenonT(30) DEF RolledBack
<1> QED
  BY <1>1, <1>8, <1>9, ZenonT(30)

(* Steps that add nothing to the log but may change what is stored.        *)
LEMMA OthersSame ==
  ASSUME XInv, NEW i, log' = log, com' = com \/ com' = Len(log),
         \A j \in Inos : j # i => op'[j] = op[j] /\ SameAt(j)
  PROVE  \A j \in Inos : j # i => AsBefore(j)
<1> SUFFICES ASSUME NEW j \in Inos, j # i PROVE AsBefore(j)
  OBVIOUS
<1> QED
  BY OtherKept, SameLogs, QuietSame, ZenonT(30) DEF XInv, Calls, Shape

FileSameAt ==
  /\ FileStored(disk, stable, log, disk', stable', com)
  /\ FileStored(disk, stable, log, disk', stable', Len(log))
  /\ \A b \in file : /\ disk'[b] = disk[b] /\ stable'[b] \in {stable[b], disk[b]}
                     /\ b \in bitmap' => b \in bitmap

LEMMA FileSame ==
  ASSUME XInv, log' = log, com' = com \/ com' = Len(log), file' = file, FileSameAt,
         (com' = com /\ drain' = drain) \/ HasData(stable', file)
  PROVE  FileOf'
<1>1. FileFine(disk, stable, bitmap, log, com, file, drain) /\ IsLog(log) /\ com \in 0..Len(log)
  BY ZenonT(30) DEF XInv, FileOf, Shape
<1> DEFINE N == Len(log)
<1>3. N \in Nat
  BY <1>1, SMTT(60), Z3T(60) DEF IsLog
<1>4. NoFile(log, N, N) /\ NoBitsOf(log, file, N, N)
  <2> HIDE DEF N
  <2> QED
    BY <1>3, SMTT(60), Z3T(60) DEF NoFile, NoBitsOf, NoBits
<1>5. FileQuiet(disk, stable, bitmap, log, com, disk', stable', bitmap', log', file)
  BY <1>4, ZenonT(30) DEF FileQuiet, FileSameAt
<1> QED
  BY <1>1, <1>5, FileFineKept, SameLogs, ZenonT(30) DEF FileOf

(* WriteChain                                                              *)
LEMMA WriteChainKept ==
  ASSUME XInv, NEW i \in Inos, WriteChain(i)
  PROVE  XInv'
<1> DEFINE o == op[i]
           G == Range(o.got)
           O == OldOf(disk, o, i)
           o2 == [o EXCEPT !.at = "record", !.old = O, !.recs = Records(i, o, NewChain(o), O),
                           !.head = IF o.got = <<>> THEN 0 ELSE o.got[1]]
<1>1. o.at = "alloc" /\ Len(o.got) = Len(o.descs)
  BY ZenonT(30) DEF WriteChain, At
<1>2. O = walkXattrChain(disk, disk[i]).blocks
  BY <1>1, ZenonT(30) DEF OldOf, Early
<1>3. /\ disk' = [x \in DOMAIN disk |-> IF x \in G THEN NewChain(o)[x] ELSE disk[x]]
      /\ op' = [op EXCEPT ![i] = o2]
      /\ UNCHANGED <<stable, free, bitmap, log, com, jlock, file, drain, readOnly, calls, writes, crashes>>
  <2> HIDE DEF O
  <2> QED
    BY <1>2, ZenonT(30) DEF WriteChain
<1>4. /\ Fine(disk, stable, bitmap, log, com, o, i) /\ TwinOf(i) /\ Shape /\ Apart
      /\ IsLog(log) /\ com \in 0..Len(log) /\ DOMAIN op = Inos /\ OwnOf(i) \cap file = {}
  BY XInvParts, ZenonT(30)
<1>5. o # Idle /\ DOMAIN o = Fields
  BY <1>1, <1>4, SMTT(60), Z3T(60) DEF Fine, CallFine, CallShape, Idle
<1>6. OwnOf(i) = G \cup Range(O) /\ G \cap Range(O) = {} /\ Own(disk, log, com, o, i) = OwnOf(i)
  <2>1. AllocIs(disk, log, com, o, i)
    <3> HIDE DEF o
    <3> QED
      BY <1>1, AllocParts, ZenonT(30)
  <2> QED
    BY <1>4, <2>1, ZenonT(30) DEF AllocIs, TwinOf, OwnOf
<1>7. Planning(disk, o, o2, i) /\ o2.at = "record"
  <2> HIDE DEF o, O
  <2> QED
    BY <1>5, SMTT(60), Z3T(60) DEF Planning, Fields, O
<1>8. G \subseteq Pool /\ DOMAIN disk = Keys /\ DOMAIN stable = Keys
  BY <1>4, <1>6, OwnInPool, ZenonT(30) DEF Shape
<1>9. \A x \in Keys : disk'[x] = IF x \in G THEN NewChain(o)[x] ELSE disk[x]
  BY <1>3, <1>8, ZenonT(30)
<1>10. \A x \in Inos \cup {File} : x \in Keys /\ x \notin G
  BY <1>8, XattrAssumption, ZenonT(30) DEF Keys
<1>11. \A b \in Pool : b \in Keys
  BY ZenonT(30) DEF Keys
<1>12. ChainWritten(disk, stable, bitmap, log, com, o, i, disk', o2)
  <2> HIDE DEF o, o2
  <2> QED
    BY <1>1, <1>4, <1>5, <1>6, <1>7, <1>8, <1>9, <1>10, <1>11, WriteChainFine, OwnInPool,
       ZenonT(30)
<1>13. /\ Fine(disk', stable', bitmap', log', com', o2, i) /\ Twin(disk', log', com', o2, i)
       /\ Own(disk', log', com', o2, i) = OwnOf(i)
  BY <1>3, <1>6, <1>12, ZenonT(30) DEF ChainWritten, Twin, Own
<1>14. Step(i, op[i], o2)
  BY <1>3, <1>4, StepIs, ZenonT(30)
<1>15. \A j \in Inos : j # i => AsBefore(j)
  <2>1. ASSUME NEW j \in Inos, j # i PROVE op'[j] = op[j] /\ SameAt(j)
    BY <1>3, <1>4, <1>6, <1>9, <1>10, <1>11, <1>14, <2>1, OwnInPool, ZenonT(30) DEF SameAt, Step,
       Apart
  <2> QED
    BY <1>3, <2>1, OthersSame, ZenonT(30)
<1>17. Shape'
  BY <1>3, <1>4, <1>7, <1>8, <1>14, ShapeKept, ZenonT(30) DEF Shape, Step
<1>18. Trade(i, Own(disk', log', com', o2, i))
  BY <1>3, <1>13, XInvParts, ZenonT(30) DEF Trade
<1> QED
  BY <1>3, <1>4, <1>6, <1>9, <1>10, <1>11, <1>13, <1>14, <1>15, <1>17, <1>18, StepKept, FileSame,
     ZenonT(30) DEF FileSameAt, FileStored, Shape

(* One more record, about something else.                                  *)
Elsewhere(r, i, S) == ~ IsFull(r, i) /\ \A b \in S : ~ IsBits(r, b)

LEMMA LogsOne ==
  ASSUME NEW l, NEW l2, NEW r, NEW c, OneMore(l, l2, r), c \in 0..Len(l)
  PROVE  Logs(l, c, l2, c)
<1> DEFINE N == Len(l)
           M == Len(l2)
<1> HIDE DEF N, M
<1> QED
  BY OneMoreParts, SMTT(60), Z3T(60) DEF Logs, N, M, OneMore

LEMMA QuietOne ==
  ASSUME NEW d, NEW e, NEW f, NEW l, NEW l2, NEW r, NEW c, NEW i, NEW S,
         OneMore(l, l2, r), c \in 0..Len(l), Elsewhere(r, i, S)
  PROVE  Quiet(d, e, f, l, d, e, f, l2, i, S)
BY OneMoreParts, ZenonT(30) DEF Quiet, Silent, Stored, Elsewhere

LEMMA FileQuietOne ==
  ASSUME NEW d, NEW e, NEW f, NEW l, NEW l2, NEW r, NEW c, NEW F,
         OneMore(l, l2, r), c \in 0..Len(l), r.t # "file", \A b \in F : ~ IsBits(r, b)
  PROVE  FileQuiet(d, e, f, l, c, d, e, f, l2, F)
BY OneMoreParts, ZenonT(30) DEF FileQuiet, FileStored, NoBitsOf

(* What a call logs is about its own inode and the blocks it owns.         *)
OwnRecord(r, i, S) == (r.t = "full" /\ r.i = i) \/ (r.t \in {"alloc", "data", "free"} /\ r.b \in S)

LEMMA TurnOwn ==
  ASSUME NEW o, NEW o2, NEW i, NEW r, RecordTurn(o, o2, i, r)
  PROVE  OwnRecord(r, i, Range(o.got) \cup Range(o.old))
BY SMTT(60), Z3T(60) DEF RecordTurn, Building, Pointing, Freeing, OwnRecord, Pointer

LEMMA OwnElsewhere ==
  ASSUME NEW r, NEW i, NEW S, OwnRecord(r, i, S), NEW j, NEW T, S \cap T = {}
  PROVE  /\ j # i => Elsewhere(r, j, T)
         /\ r.t # "file" /\ \A b \in T : ~ IsBits(r, b)
BY ZenonT(30) DEF OwnRecord, Elsewhere, IsFull, IsBits

(* WriteRecord                                                             *)
LEMMA WriteRecordKept ==
  ASSUME XInv, NEW i \in Inos, WriteRecord(i)
  PROVE  XInv' /\ \E r : OneMore(log, log', r) /\ (r.t = "full" => r.i = i)
<1> DEFINE o == op[i]
           r == Head(o.recs)
           o2 == [o EXCEPT !.recs = Tail(o.recs), !.at = IF Len(o.recs) = 1 THEN "sync" ELSE "record"]
           S == Range(o.got) \cup Range(o.old)
<1>1. /\ o.at = "record" /\ jlock = Nobody /\ log' = Append(log, r) /\ op' = [op EXCEPT ![i] = o2]
      /\ UNCHANGED <<disk, stable, free, bitmap, com, jlock, file, drain, readOnly, calls, writes, crashes>>
  BY ZenonT(30) DEF WriteRecord, At
<1>2. /\ Fine(disk, stable, bitmap, log, com, o, i) /\ TwinOf(i) /\ Shape /\ Apart
      /\ IsLog(log) /\ com \in 0..Len(log) /\ DOMAIN op = Inos
      /\ OwnOf(i) \cap file = {} /\ OwnOf(i) \cap free = {}
  BY XInvParts, ZenonT(30)
<1>3. o # Idle /\ CallShape(o) /\ Planned(o, i)
  BY <1>1, <1>2, SMTT(60), Z3T(60) DEF Fine, CallFine, Idle
<1>4. Advanced(o, o2)
  <2> HIDE DEF o
  <2> QED
    BY <1>3, SMTT(60), Z3T(60) DEF Advanced, Fields, CallShape
<1>5. OneMore(log, log', r)
  <2> HIDE DEF r
  <2> QED
    BY <1>1, <1>2, LogAppend, SMTT(60), Z3T(60) DEF OneMore
<1>7. OwnOf(i) = S /\ Range(o.got) \cap Range(o.old) = {}
  BY <1>1, <1>2, ZenonT(30) DEF OwnOf, Own, TwinOf, Kept, OldOf, NewOf, Early
<1>8. RecordWritten(disk, stable, bitmap, log, com, o, i, o2, log')
  <2>1. r = Head(o.recs)
    OBVIOUS
  <2> HIDE DEF o, o2, r
  <2> QED
    BY <1>1, <1>2, <1>3, <1>4, <1>5, <1>7, <2>1, RecordFine, ZenonT(30)
<1>9. /\ Fine(disk', stable', bitmap', log', com', o2, i) /\ Twin(disk', log', com', o2, i)
      /\ Own(disk', log', com', o2, i) = S
  BY <1>1, <1>7, <1>8, ZenonT(30) DEF RecordWritten, Twin, Own
<1>10. OwnRecord(r, i, S)
  <2>1. RecordTurn(o, o2, i, r)
    <3> HIDE DEF o, o2
    <3> QED
      BY <1>1, <1>3, <1>4, <1>7, TurnParts, ZenonT(30)
  <2> HIDE DEF o, o2, r
  <2> QED
    BY <2>1, TurnOwn, ZenonT(30)
<1>11. Step(i, op[i], o2) /\ o2.at # "failed"
  <2>1. o2.at # "failed"
    <3> HIDE DEF o, o2
    <3> QED
      BY <1>4, ZenonT(30) DEF Advanced
  <2> QED
    BY <1>1, <1>2, <2>1, StepIs, ZenonT(30)
<1> HIDE DEF o, o2, r, S
<1>12. Logs(log, com, log', com')
  BY <1>1, <1>2, <1>5, LogsOne, ZenonT(30)
<1>13. \A j \in Inos : j # i => AsBefore(j)
  <2> SUFFICES ASSUME NEW j \in Inos, j # i PROVE AsBefore(j)
    OBVIOUS
  <2>2. Elsewhere(r, j, OwnOf(j))
    BY <1>2, <1>7, <1>10, OwnElsewhere, ZenonT(30) DEF Apart
  <2> QED
    BY <1>1, <1>2, <1>5, <1>11, <1>12, <2>2, OtherKept, QuietOne, ZenonT(30) DEF QuietFor, XInv,
       Calls, Step
<1>14. FileOf'
  <2>2. FileQuiet(disk, stable, bitmap, log, com, disk, stable, bitmap, log', file)
    BY <1>2, <1>5, <1>7, <1>10, FileQuietOne, OwnElsewhere, ZenonT(30)
  <2> QED
    BY <1>1, <1>12, <2>2, FileFineKept, ZenonT(30) DEF FileOf, XInv
<1>16. Trade(i, Own(disk', log', com', o2, i))
  BY <1>1, <1>2, <1>7, <1>9, ZenonT(30) DEF Trade
<1> QED
  BY <1>1, <1>2, <1>5, <1>9, <1>10, <1>11, <1>12, <1>13, <1>14, <1>16, StepKept, ShapeKept,
     ZenonT(30) DEF Shape, Step, Logs, OwnRecord

(* A step that moves the call on inode i from one stage to the next.       *)
Label(i, a)     == [op[i] EXCEPT !.at = a]
StillKeeps(i, a) == Kept(log', com', Label(i, a), i) => Kept(log, com, op[i], i)
After(i, a)     == Range(op[i].got) \cup (IF Kept(log', com', Label(i, a), i) THEN Range(op[i].old) ELSE {})

LEMMA SelfKept ==
  ASSUME XInv, NEW i \in Inos, log' = log, com' = com \/ com' = Len(log), SameAt(i)
  PROVE  Unmoved(disk, log, com, disk', stable', bitmap', log', com', op[i], i)
<1> DEFINE o == op[i]
<1>1. Fine(disk, stable, bitmap, log, com, o, i) /\ IsLog(log) /\ com \in 0..Len(log)
  BY XInvParts, ZenonT(30)
<1>4. Quiet(disk, stable, bitmap, log, disk', stable', bitmap', log', i, Own(disk, log, com, o, i))
  BY <1>1, QuietSame, ZenonT(30) DEF QuietFor, OwnOf
<1>5. Unmoved(disk, log, com, disk', stable', bitmap', log', com', o, i)
  <2> HIDE DEF o
  <2> QED
    BY <1>1, <1>4, FineKept, SameLogs, ZenonT(30)
<1> QED
  BY <1>5, ZenonT(30)

LEMMA GotoKept ==
  ASSUME XInv, NEW i \in Inos, NEW a, op[i] # Idle, op[i].at # "alloc",
         log' = log, com' = com \/ com' = Len(log), \A j \in Inos : SameAt(j),
         file' = file, FileOf', Shape', op' = [op EXCEPT ![i] = Label(i, a)],
         MayBeAt(disk', log', com', op[i], i, a), StillKeeps(i, a), Trade(i, After(i, a))
  PROVE  XInv'
<1> DEFINE o == op[i]
           o2 == Label(i, a)
<1>2. Relabelled(disk', stable', bitmap', log', com', o, i, a)
  <2> HIDE DEF o
  <2> QED
    BY Relabel, SelfKept, ZenonT(30) DEF o, Unmoved
<1>3. /\ Fine(disk', stable', bitmap', log', com', o2, i)
      /\ OldOf(disk', o2, i) = o.old /\ NewOf(o2) = o.got /\ OldOf(disk', o, i) = o.old /\ NewOf(o) = o.got
  BY <1>2, ZenonT(30) DEF Relabelled, Label
<1>5. TwinOf(i) /\ DOMAIN op = Inos
  BY XInvParts, ZenonT(30)
<1>6. Twin(disk', log', com', o2, i)
  BY <1>3, <1>5, SelfKept, ZenonT(30) DEF Twin, TwinOf, StillKeeps, Unmoved
<1>8. Step(i, op[i], o2)
  BY <1>5, StepIs, ZenonT(30)
<1>9. \A j \in Inos : j # i => AsBefore(j)
  BY <1>8, OthersSame, ZenonT(30) DEF Step
<1>10. Trade(i, Own(disk', log', com', o2, i))
  BY <1>3, ZenonT(30) DEF Own, After
<1> HIDE DEF o2
<1> QED
  BY <1>3, <1>6, <1>8, <1>9, <1>10, StepKept, ZenonT(30)

(* The commit and the flush, for whoever does them.                        *)
LEMMA CommitSame ==
  ASSUME XInv, NEW who, CommitPoint(who)
  PROVE  (\A j \in Inos : SameAt(j)) /\ FileOf'
<1>1. /\ com' = Len(log) /\ disk' = disk /\ bitmap' = bitmap /\ log' = log /\ file' = file
      /\ stable' = IF drain THEN disk ELSE stable
  BY ZenonT(30) DEF CommitPoint
<1>5. HasData(stable', file)
  <2>1. HasData(disk, file) /\ HasData(stable, IF drain THEN FileSure(disk, log, com) ELSE file)
    BY ZenonT(30) DEF XInv, FileOf, FileFine
  <2>2. CASE drain
    BY <1>1, <2>1, <2>2, ZenonT(30)
  <2>3. CASE ~drain
    BY <1>1, <2>1, <2>3, ZenonT(30)
  <2> QED
    BY <2>2, <2>3, ZenonT(30)
<1> QED
  BY <1>1, <1>5, FileSame, ZenonT(30) DEF SameAt, FileSameAt, FileStored

LEMMA FlushSame ==
  ASSUME XInv, NEW who \in Inos \cup {File}, FlushCommitted(who)
  PROVE  (\A j \in Inos : SameAt(j)) /\ FileOf' /\ com = Len(log) /\ DOMAIN disk' = Keys
<1>1. /\ com' = com /\ bitmap' = free /\ log' = log /\ file' = file /\ drain' = drain /\ jlock = who
      /\ disk' = [disk EXCEPT ![File] = file] /\ stable' = disk'
  BY ZenonT(30) DEF FlushCommitted
<1>2. Shape /\ Apart /\ FileFine(disk, stable, bitmap, log, com, file, drain)
  BY ZenonT(30) DEF XInv, FileOf
<1>3. com = Len(log) /\ DOMAIN disk = Keys
  BY <1>1, <1>2, XattrAssumption, ZenonT(30) DEF Shape
<1>4. DOMAIN disk' = Keys /\ \A x \in Keys : disk'[x] = IF x = File THEN file ELSE disk[x]
  BY <1>1, <1>3, ZenonT(30)
<1>5. \A x \in Pool \cup Inos : x \in Keys /\ disk'[x] = disk[x] /\ stable'[x] = disk[x]
  BY <1>1, <1>4, XattrAssumption, ZenonT(30) DEF Keys
<1>6. ASSUME NEW j \in Inos PROVE SameAt(j)
  BY <1>1, <1>2, <1>5, OwnInPool, ZenonT(30) DEF SameAt, Apart
<1> QED
  BY <1>1, <1>2, <1>3, <1>4, <1>5, <1>6, FileSame, ZenonT(30) DEF FileSameAt, FileStored, Shape,
     Apart, Keys, FileFine, FileSure

(* A call past its allocations, what the step stores being quiet for it.   *)
Underway(i) ==
  /\ op[i] # Idle /\ CallShape(op[i]) /\ Planned(op[i], i)
  /\ InLog(log', com', op[i], i) /\ OnDevice(disk', op[i], i)

LEMMA UnderwayIs ==
  ASSUME XInv, NEW i \in Inos, log' = log, com' = com \/ com' = Len(log), SameAt(i),
         op[i].at \notin {"idle", "alloc"}
  PROVE  Underway(i)
BY SelfKept, SMTT(60), Z3T(60) DEF CallFine, Underway, Unmoved, Fine, Idle

LEMMA LabelIs ==
  ASSUME NEW i \in Inos, CallShape(op[i]), NEW a
  PROVE  /\ Label(i, a).at = a /\ Label(i, a).old = op[i].old /\ Label(i, a).got = op[i].got
         /\ Label(i, a).recs = op[i].recs
<1> DEFINE o == op[i]
<1> HIDE DEF o
<1> QED
  BY SMTT(60), Z3T(60) DEF o, Fields, CallShape, Label

LEMMA FullAtMost ==
  ASSUME NEW l, NEW i, IsLog(l)
  PROVE  FullIn(l, i, Len(l)) <= Len(l)
<1> DEFINE N == Len(l)
           K == {k \in 1..N : IsFull(l[k], i)}
<1> HIDE DEF N, K
<1> QED
  BY LastOfIs, SMTT(60), Z3T(60) DEF N, IsLog, FullIn

(* Sync: the old chain stays until everything is committed.                *)
LEMMA WaitKept ==
  ASSUME XInv, NEW i \in Inos, NEW a \in {"commit", "free"}, op[i].at \in {"sync", "commit"},
         log' = log, com' = com \/ com' = Len(log), com' = Len(log), \A j \in Inos : SameAt(j),
         file' = file, FileOf', Shape', op' = [op EXCEPT ![i] = Label(i, a)],
         free' = free, readOnly' = readOnly, crashes' = crashes
  PROVE  XInv'
BY GotoKept, FullAtMost, LabelIs, XInvParts, UnderwayIs, ZenonT(30) DEF MayBeAt, Underway, Planned,
   OnDevice, Stages, Late, Trade, StillKeeps, After, OwnOf, Own, Kept, OldOf, NewOf, Early

LEMMA SyncKept ==
  ASSUME XInv, NEW i \in Inos, Sync(i)
  PROVE  XInv'
<1>1. /\ Shape /\ IsLog(log) /\ com \in 0..Len(log) /\ DOMAIN op = Inos
  BY XInvParts, ZenonT(30)
<1>2. ASSUME NEW a, op' = [op EXCEPT ![i] = Label(i, a)], a \in {"commit", "free"},
             op[i].at \in {"sync", "commit"}
      PROVE  /\ op'[i].at # "failed" /\ DOMAIN op' = Inos
             /\ \A j \in Inos : j # i => op'[j] = op[j]
  <2>2. CallShape(op[i])
    <3>1. Idle.at = "idle"
      BY SMTT(60), Z3T(60) DEF Idle
    <3> QED
      BY <1>2, <3>1, XInvParts, ZenonT(30) DEF Fine, CallFine
  <2>3. Label(i, a).at = a
    BY <2>2, LabelIs, ZenonT(30)
  <2> QED
    BY <1>1, <1>2, <2>3, StepIs, ZenonT(30) DEF Step
<1>3. CASE At(i, "sync") /\ CommitPoint(i) /\ Goto(i, "commit")
  <2>2. /\ com' = Len(log) /\ disk' = disk /\ bitmap' = bitmap /\ log' = log /\ file' = file
        /\ free' = free /\ readOnly' = readOnly /\ crashes' = crashes /\ jlock' = i /\ drain' = FALSE
        /\ stable' = IF drain THEN disk ELSE stable
    BY <1>3, ZenonT(30) DEF CommitPoint
  <2>4. DOMAIN disk' = Keys /\ DOMAIN stable' = Keys /\ com' \in 0..Len(log')
    <3>2. Len(log) \in 0..Len(log)
      BY <1>1, SMTT(60), Z3T(60) DEF IsLog
    <3> QED
      BY <1>1, <2>2, <3>2, ZenonT(30) DEF Shape
  <2> QED
    BY <1>1, <1>2, <1>3, <2>2, <2>4, WaitKept, CommitSame, ShapeKept, ZenonT(30) DEF Shape, At,
       Goto, Label
<1>4. CASE At(i, "commit") /\ FlushCommitted(i) /\ Goto(i, "free")
  BY <1>1, <1>2, <1>4, WaitKept, ShapeKept, FlushSame, ZenonT(30) DEF Shape, At, Goto, Label,
     FlushCommitted
<1>5. CASE /\ At(i, "sync") /\ com = Len(log) /\ Goto(i, "free")
           /\ UNCHANGED <<disk, stable, free, bitmap, log, com, jlock, file, drain, readOnly,
                          calls, writes, crashes>>
  <2>1. op[i].at \in {"sync", "commit"} /\ op' = [op EXCEPT ![i] = Label(i, "free")]
    BY <1>5, ZenonT(30) DEF At, Goto, Label
  <2>2. Still /\ jlock' = jlock /\ free' = free /\ readOnly' = readOnly /\ crashes' = crashes
    BY <1>5, ZenonT(30) DEF Still
  <2>3. FileOf' /\ Shape'
    BY <1>1, <1>2, <2>1, <2>2, StillKept, StillShape, ZenonT(30) DEF Shape
  <2> QED
    BY <1>5, <2>1, <2>2, <2>3, WaitKept, ZenonT(30) DEF SameAt
<1> QED
  BY <1>3, <1>4, <1>5, ZenonT(30) DEF Sync

(* Fsync: the file's own commit, and flush.                                *)
LEMMA FsyncKept ==
  ASSUME XInv, Fsync
  PROVE  XInv'
<1>1. Shape /\ Apart /\ Covered /\ IsLog(log) /\ com \in 0..Len(log) /\ op' = op /\ File \notin Inos
  BY XattrAssumption, ZenonT(30) DEF XInv, Shape, Fsync
<1>2. ASSUME \A j \in Inos : SameAt(j), FileOf', Shape', log' = log, com' = com \/ com' = Len(log),
             free' = free, file' = file, readOnly' = readOnly, crashes' = crashes
      PROVE  XInv'
  BY <1>1, <1>2, CallsKept, ApartKept, OthersSame, ZenonT(30) DEF XInv, Moves, Apart, Mine
<1>3. CASE CommitPoint(File)
  <2>2. Len(log) \in 0..Len(log)
    BY <1>1, SMTT(60), Z3T(60) DEF IsLog
  <2> QED
    BY <1>1, <1>2, <1>3, <2>2, CommitSame, ZenonT(30) DEF Shape, CommitPoint
<1>4. CASE FlushCommitted(File)
  BY <1>1, <1>2, <1>4, FlushSame, ZenonT(30) DEF Shape, FlushCommitted
<1> QED
  BY <1>3, <1>4, ZenonT(30) DEF Fsync

(* freeBlockNow                                                            *)
LEMMA FreeBlockKept ==
  ASSUME XInv, NEW i \in Inos, freeBlockNow(i)
  PROVE  XInv'
<1>1. /\ op[i].at = "free" /\ op' = [op EXCEPT ![i] = Label(i, "flush")]
      /\ free' = free \cup Range(op[i].old)
      /\ UNCHANGED <<disk, stable, bitmap, log, com, jlock, file, drain, readOnly, calls, writes, crashes>>
  BY ZenonT(30) DEF freeBlockNow, At, Goto, Label
<1>2. /\ Shape /\ DOMAIN op = Inos /\ TwinOf(i) /\ OwnOf(i) \cap free = {} /\ OwnOf(i) \subseteq Pool
  BY XInvParts, OwnInPool, ZenonT(30)
<1>3. \A j \in Inos : SameAt(j)
  BY <1>1, ZenonT(30) DEF SameAt
<1>4. Underway(i)
  BY <1>1, <1>3, UnderwayIs, ZenonT(30)
<1>7. Label(i, "flush").at = "flush"
  BY <1>4, LabelIs, ZenonT(30) DEF Underway
<1>8. /\ OwnOf(i) = Range(op[i].got) \cup Range(op[i].old) /\ Range(op[i].got) \cap Range(op[i].old) = {}
      /\ After(i, "flush") = Range(op[i].got) /\ StillKeeps(i, "flush")
  BY <1>1, <1>2, <1>7, ZenonT(30) DEF OwnOf, Own, TwinOf, After, StillKeeps, Kept, OldOf, NewOf,
     Early
<1>12. FileOf' /\ Shape'
  BY <1>1, <1>2, <1>7, <1>8, StillKept, StillShape, StepIs, ZenonT(30) DEF Still, Step, Shape
<1> QED
  BY <1>1, <1>2, <1>3, <1>4, <1>8, <1>12, GotoKept, ZenonT(30) DEF MayBeAt, Underway, Planned,
     InLog, OnDevice, Stages, Late, Trade

(* The call's writebacks.                                                  *)
LEMMA FlushPendingKept ==
  ASSUME XInv, NEW i \in Inos, FlushPendingWB(i)
  PROVE  XInv'
<1>1. /\ stable' = disk
      /\ UNCHANGED <<disk, free, bitmap, log, com, jlock, file, drain, readOnly, calls, writes, crashes>>
  BY ZenonT(30) DEF FlushPendingWB
<1>2. /\ Shape /\ DOMAIN op = Inos /\ OwnOf(i) \cap free = {} /\ IsLog(log) /\ com \in 0..Len(log)
  BY XInvParts, ZenonT(30)
<1>3. (\A j \in Inos : SameAt(j)) /\ FileSameAt
  BY <1>1, ZenonT(30) DEF SameAt, FileSameAt, FileStored
<1>4. FileOf'
  BY <1>1, <1>3, FileSame, ZenonT(30)
<1>5. op[i].at \in {"flush", "done"}
  BY ZenonT(30) DEF FlushPendingWB, At
<1>6. Underway(i)
  BY <1>1, <1>3, <1>5, UnderwayIs, ZenonT(30)
<1>7. NewOf(op[i]) = op[i].got /\ OwnOf(i) = Range(op[i].got)
  BY <1>5, ZenonT(30) DEF OwnOf, Own, Kept, NewOf
<1>8. ASSUME NEW o2, op' = [op EXCEPT ![i] = o2], o2.at # "failed"
      PROVE  Step(i, op[i], o2) /\ Shape'
  BY <1>1, <1>2, <1>8, ShapeKept, StepIs, ZenonT(30) DEF Shape, Step
<1>9. CASE At(i, "flush") /\ Goto(i, "inode")
  <2>1. op[i].at = "flush" /\ op' = [op EXCEPT ![i] = Label(i, "inode")]
    BY <1>9, ZenonT(30) DEF At, Goto, Label
  <2>2. Label(i, "inode").at = "inode"
    BY <1>6, LabelIs, ZenonT(30) DEF Underway
  <2> QED
    BY <1>1, <1>2, <1>3, <1>4, <1>6, <1>7, <1>8, <2>1, <2>2, GotoKept, ZenonT(30) DEF MayBeAt,
       Underway, Planned, InLog, OnDevice, Stages, Late, Trade, After, StillKeeps, Kept
<1>10. CASE At(i, "done") /\ op' = [op EXCEPT ![i] = Idle]
  <2> DEFINE o == op[i]
  <2>1. o.at = "done" /\ o # Idle
    BY <1>6, <1>10, ZenonT(30) DEF At, Underway
  <2>2. Fine(disk', stable', bitmap', log', com', o, i)
    BY <1>1, <1>3, SelfKept, ZenonT(30) DEF Unmoved
  <2>3. Returned(disk', stable', bitmap', log', com', o, i)
    <3> HIDE DEF o
    <3> QED
      BY <1>1, <1>2, <2>1, <2>2, ReturnFine, ZenonT(30)
  <2>4. IdleIs(disk', log', com', i)
    BY IdleParts, ZenonT(30)
  <2>7. Idle.at # "failed"
    BY SMTT(60), Z3T(60) DEF Idle
  <2>8. Step(i, op[i], Idle) /\ Shape'
    BY <1>8, <1>10, <2>7, ZenonT(30)
  <2> QED
    BY <1>1, <1>2, <1>3, <1>4, <1>7, <2>3, <2>4, <2>8, StepKept, OthersSame, ZenonT(30) DEF Trade,
       Step, Returned, IdleIs, Twin
<1> QED
  BY <1>9, <1>10, ZenonT(30) DEF FlushPendingWB

(* writeInodeDirect                                                        *)
LEMMA WriteInodeKept ==
  ASSUME XInv, NEW i \in Inos, writeInodeDirect(i)
  PROVE  XInv'
<1> DEFINE o == op[i]
           o2 == Label(i, "done")
<1>1. /\ o.at = "inode" /\ op' = [op EXCEPT ![i] = o2] /\ disk' = [disk EXCEPT ![i] = o.head]
      /\ UNCHANGED <<stable, free, bitmap, log, com, jlock, file, drain, readOnly, calls, writes, crashes>>
  BY ZenonT(30) DEF writeInodeDirect, At, Goto, Label
<1>2. /\ Fine(disk, stable, bitmap, log, com, o, i) /\ Shape /\ DOMAIN op = Inos
      /\ IsLog(log) /\ com \in 0..Len(log) /\ OwnOf(i) \cap free = {} /\ OwnOf(i) \subseteq Pool
  BY XInvParts, OwnInPool, ZenonT(30)
<1>3. o # Idle /\ CallShape(o)
  BY <1>1, <1>2, SMTT(60), Z3T(60) DEF Fine, CallFine, Idle
<1>4. DOMAIN disk = Keys /\ DOMAIN disk' = Keys /\ i \in Keys
  BY <1>1, <1>2, ZenonT(30) DEF Shape, Keys
<1>5. disk'[i] = o.head /\ \A x \in Keys : x # i => disk'[x] = disk[x]
  BY <1>1, <1>4, ZenonT(30)
<1>6. \A x \in Pool \cup {File} : x \in Keys /\ x # i
  BY XattrAssumption, ZenonT(30) DEF Keys
<1>7. NewOf(o) = o.got /\ OwnOf(i) = Range(o.got)
  BY <1>1, ZenonT(30) DEF OwnOf, Own, Kept, NewOf
<1>8. \A b \in Range(o.got) : disk'[b] = disk[b]
  BY <1>2, <1>5, <1>6, <1>7, ZenonT(30)
<1>9. Relabelled(disk', stable, bitmap, log, com, o, i, "done")
  <2>1. o.at # "alloc" /\ disk'[i] = o.head
    BY <1>1, <1>5, ZenonT(30)
  <2> HIDE DEF o
  <2>2. InodeWritten(disk', stable, bitmap, log, com, o, i)
    BY <1>1, <1>2, <1>3, <1>8, <2>1, InodeFine, ZenonT(30)
  <2> QED
    BY <1>3, <2>1, <2>2, Relabel, ZenonT(30) DEF InodeWritten
<1>10. o2.at = "done"
  BY <1>3, LabelIs, ZenonT(30)
<1>11. /\ Fine(disk', stable', bitmap', log', com', o2, i) /\ Twin(disk', log', com', o2, i)
       /\ Own(disk', log', com', o2, i) = OwnOf(i)
  BY <1>1, <1>7, <1>9, <1>10, ZenonT(30) DEF Own, Twin, Relabelled, Label, Kept
<1>12. Step(i, op[i], o2)
  BY <1>1, <1>2, StepIs, ZenonT(30)
<1>13. \A j \in Inos : j # i => AsBefore(j)
  <2>1. ASSUME NEW j \in Inos, j # i PROVE op'[j] = op[j] /\ SameAt(j)
    BY <1>1, <1>5, <1>6, <1>12, <2>1, OwnInPool, ZenonT(30) DEF SameAt, Step, Keys
  <2> QED
    BY <1>1, <2>1, OthersSame, ZenonT(30)
<1>15. Shape'
  BY <1>1, <1>2, <1>4, <1>10, <1>12, ShapeKept, ZenonT(30) DEF Shape, Step
<1>16. Trade(i, Own(disk', log', com', o2, i))
  BY <1>1, <1>2, <1>11, ZenonT(30) DEF Trade
<1> QED
  BY <1>1, <1>2, <1>5, <1>6, <1>11, <1>12, <1>13, <1>15, <1>16, StepKept, FileSame, ZenonT(30) DEF
     FileSameAt, FileStored, Shape

(* failWrite: the call is over, and the mount is read-only.                *)
LEMMA FailKept ==
  ASSUME XInv, NEW i \in Inos, Still, op' = [op EXCEPT ![i] = Label(i, "failed")], readOnly' = TRUE,
         jlock' = jlock \/ jlock' = Nobody, free' = free, op[i].at \notin {"idle", "alloc", "failed"}
  PROVE  XInv'
<1>1. /\ disk' = disk /\ stable' = stable /\ bitmap' = bitmap /\ log' = log /\ com' = com /\ file' = file
  BY ZenonT(30) DEF Still
<1>2. /\ Shape /\ DOMAIN op = Inos /\ OwnOf(i) \cap free = {} /\ free \subseteq Pool
  BY XInvParts, ZenonT(30) DEF Shape
<1>3. \A j \in Inos : SameAt(j)
  BY <1>1, ZenonT(30) DEF SameAt
<1>4. Underway(i)
  BY <1>1, <1>3, UnderwayIs, ZenonT(30)
<1>5. /\ Label(i, "failed").at = "failed" /\ Label(i, "failed").old = op[i].old
      /\ Label(i, "failed").recs = op[i].recs
  BY <1>4, LabelIs, ZenonT(30) DEF Underway
<1>8. StillKeeps(i, "failed")
  <2> SUFFICES ASSUME op[i].at \in {"flush", "inode", "done"} PROVE ~ Kept(log', com', Label(i, "failed"), i)
    BY <1>5, ZenonT(30) DEF StillKeeps, Kept
  <2>1. op[i].recs = <<>> /\ FullIn(log', i, Len(log')) <= com' /\ Row(op[i].old)
    BY <1>4, ZenonT(30) DEF Underway, Planned, InLog, Late
  <2>2. Len(op[i].recs) <= Len(op[i].old)
    <3> DEFINE n == Len(op[i].old)
    <3>2. n \in Nat => 0 <= n
      <4> HIDE DEF n
      <4> QED
        BY SMTT(60), Z3T(60)
    <3> QED
      BY <2>1, <3>2, RowIs, SMTT(60), Z3T(60)
  <2> QED
    BY <1>5, <2>1, <2>2, ZenonT(30) DEF Kept, Moved, Pointed, Early
<1>10. Trade(i, After(i, "failed")) /\ op[i] # Idle /\ op[i].at # "alloc"
  BY <1>2, <1>4, <1>8, ZenonT(30) DEF Trade, Underway, After, OwnOf, Own, StillKeeps, NewOf, OldOf,
     Early
<1> QED
  BY <1>1, <1>2, <1>3, <1>8, <1>10, GotoKept, StillKept, StillShape, StepIs, ZenonT(30) DEF Step,
     MayBeAt, Stages, Late

LEMMA IOErrorKept ==
  ASSUME XInv, NEW i \in Inos, IOError(i)
  PROVE  XInv'
<1> DEFINE o == op[i]
<1>1. Still /\ crashes' = crashes
  BY ZenonT(30) DEF IOError, Still
<1>2. /\ Fine(disk, stable, bitmap, log, com, o, i) /\ TwinOf(i) /\ Shape /\ OwnOf(i) \cap free = {}
  BY XInvParts, ZenonT(30)
<1>3. CASE /\ At(i, "alloc") /\ free' = free \cup Range(o.got) /\ op' = [op EXCEPT ![i] = Idle]
           /\ UNCHANGED <<jlock, readOnly>>
  <2>1. o.at = "alloc"
    BY <1>3, ZenonT(30) DEF At
  <2>2. AllocIs(disk, log, com, o, i) /\ RolledBack(disk, stable, bitmap, log, com, o, i)
    <3> HIDE DEF o
    <3> QED
      BY <1>2, <2>1, AllocParts, RollbackFine, ZenonT(30)
  <2>5. Own(disk, log, com, Idle, i) = Range(OldOf(disk, o, i)) /\ Twin(disk, log, com, Idle, i)
    BY <2>2, IdleParts, ZenonT(30) DEF RolledBack, IdleIs, Twin
  <2>7. Idle.at # "failed" /\ readOnly \in BOOLEAN
    BY <1>2, SMTT(60), Z3T(60) DEF Shape, Idle
  <2> QED
    BY <1>1, <1>2, <1>3, <2>2, <2>5, <2>7, StillStep, ZenonT(30) DEF RolledBack, Trade, AllocIs,
       OwnOf, TwinOf
<1>4. CASE /\ op[i].at \in {"record", "sync"} /\ readOnly' = TRUE /\ Goto(i, "failed")
           /\ UNCHANGED <<free, jlock>>
  BY <1>1, <1>4, FailKept, ZenonT(30) DEF Goto, Label
<1>5. CASE /\ op[i].at \in {"commit", "flush", "inode", "done"}
           /\ jlock' = IF At(i, "commit") THEN Nobody ELSE jlock
           /\ readOnly' = TRUE /\ Goto(i, "failed") /\ UNCHANGED free
  BY <1>1, <1>5, FailKept, ZenonT(30) DEF Goto, Label
<1> QED
  BY <1>3, <1>4, <1>5, ZenonT(30) DEF IOError

(* WriteData: the record of the block, then that of the file.              *)
TwoMore(l, l1, l2, r, q) == OneMore(l, l1, r) /\ OneMore(l1, l2, q)

LEMMA TwoAppended ==
  ASSUME NEW l, NEW r, NEW q, IsLog(l)
  PROVE  TwoMore(l, Append(l, r), l \o << r, q >>, r, q)
<1> DEFINE N == Len(l)
           l1 == Append(l, r)
           l2 == l \o << r, q >>
<1>1. OneMore(l, l1, r)
  BY LogAppend, SMTT(60), Z3T(60) DEF OneMore
<1>3. l2 = Append(l1, q)
  BY SMTT(60), Z3T(60) DEF IsLog
<1> HIDE DEF l1
<1>4. OneMore(l1, Append(l1, q), q)
  BY <1>1, LogAppend, SMTT(60), Z3T(60) DEF OneMore
<1> QED
  BY <1>1, <1>3, <1>4, ZenonT(30) DEF TwoMore, l1

LEMMA TwoLater ==
  ASSUME NEW l, NEW l1, NEW l2, NEW r, NEW q, NEW c, TwoMore(l, l1, l2, r, q), c \in 0..Len(l)
  PROVE  /\ Logs(l, c, l2, c)
         /\ \A i, S : Elsewhere(r, i, S) /\ Elsewhere(q, i, S) => Silent(l2, i, S, Len(l), Len(l2))
<1> DEFINE N == Len(l)
           M == Len(l2)
<1> HIDE DEF N, M
<1> QED
  BY SMTT(60), Z3T(60) DEF N, M, Logs, Later, Silent, NoFull, NoBits, Elsewhere, TwoMore, OneMore

LEMMA WriteDataKept ==
  ASSUME XInv, WriteData
  PROVE  XInv' /\ \E l1, r, q : TwoMore(log, l1, log', r, q) /\ r.t # "full" /\ q.t # "full"
<1> DEFINE b == Min(free)
           r == [t |-> "alloc", b |-> b]
           q == [t |-> "file", s |-> file \cup {b}]
           l1 == Append(log, r)
<1>1. /\ jlock = Nobody /\ free # {} /\ free' = free \ {b} /\ file' = file \cup {b}
      /\ disk' = [disk EXCEPT ![b] = DataBlock] /\ log' = log \o << r, q >> /\ drain' = TRUE
      /\ UNCHANGED <<stable, bitmap, com, op, jlock, readOnly, calls, crashes>>
  BY ZenonT(60) DEF WriteData
<1>2. Shape /\ Apart /\ Covered /\ IsLog(log) /\ com \in 0..Len(log) /\ file \cap free = {}
  BY ZenonT(30) DEF XInv, Shape, Apart
<1>4. b \in free /\ b \in Pool /\ b \notin file /\ b \in Keys /\ b # File
  <2>1. b \in free
    BY <1>1, <1>2, MinIsIn, ZenonT(30) DEF Shape
  <2> HIDE DEF b
  <2> QED
    BY <1>2, <2>1, XattrAssumption, ZenonT(30) DEF Shape, Keys
<1>5. DOMAIN disk = Keys /\ DOMAIN disk' = Keys
  BY <1>1, <1>2, ZenonT(30) DEF Shape
<1>6. disk'[b] = DataBlock /\ \A x \in Keys : x # b => disk'[x] = disk[x]
  BY <1>1, <1>4, <1>5, ZenonT(30)
<1> HIDE DEF b
<1>7. r.t = "alloc" /\ r.b = b /\ q.t = "file"
  BY SMTT(60), Z3T(60)
<1> HIDE DEF r
<1>8. TwoMore(log, l1, log', r, q)
  <2> HIDE DEF q
  <2> QED
    BY <1>1, <1>2, TwoAppended, ZenonT(30)
<1>9. OneMore(log, l1, r) /\ OneMore(l1, log', q)
  BY <1>8, ZenonT(30) DEF TwoMore
<1> HIDE DEF l1
<1>10. Logs(log, com, log', com')
  <2> HIDE DEF q
  <2> QED
    BY <1>1, <1>2, <1>8, TwoLater, ZenonT(30)
<1>11. ASSUME NEW j \in Inos PROVE AsBefore(j)
  <2>1. OwnOf(j) \subseteq Pool /\ b \notin OwnOf(j) /\ j \in Keys /\ j # b
    BY <1>2, <1>4, OwnInPool, XattrAssumption, ZenonT(30) DEF Apart, Keys
  <2>2. Elsewhere(r, j, OwnOf(j)) /\ Elsewhere(q, j, OwnOf(j))
    <3> HIDE DEF q
    <3> QED
      BY <1>7, <2>1, ZenonT(30) DEF Elsewhere, IsFull, IsBits
  <2>3. Silent(log', j, OwnOf(j), Len(log), Len(log'))
    <3> HIDE DEF q
    <3> QED
      BY <1>2, <1>8, <2>2, TwoLater, ZenonT(30)
  <2> QED
    BY <1>1, <1>6, <1>10, <2>1, <2>3, OtherKept, ZenonT(30) DEF QuietFor, Quiet, Stored, Keys,
       XInv, Calls
<1>12. FileFine(disk, stable, bitmap, l1, com, file, drain) /\ com \in 0..Len(l1)
  <2>2. FileQuiet(disk, stable, bitmap, log, com, disk, stable, bitmap, l1, file)
    BY <1>2, <1>4, <1>7, <1>9, FileQuietOne, ZenonT(30) DEF IsBits
  <2>4. com = com /\ drain = drain
    OBVIOUS
  <2> QED
    BY <1>2, <1>9, <2>2, <2>4, FileFineKept, LogsOne, ZenonT(30) DEF Logs, XInv, FileOf
<1>13. Taken(l1, bitmap, b, Len(l1))
  <2> DEFINE M == Len(l1)
  <2>1. M \in Nat \ {0} /\ l1[M] = r
    BY <1>2, <1>9, OneMoreParts, ZenonT(30)
  <2> HIDE DEF M
  <2>2. BitsIn(l1, b, M) = M /\ M # 0
    BY <1>7, <2>1, LastDecides, ZenonT(30) DEF IsBits
  <2> QED
    BY <1>7, <2>1, <2>2, ZenonT(30) DEF M, Taken
<1>14. FileOf'
  <2>1. /\ OneMore(l1, log', [t |-> "file", s |-> file \cup {b}]) /\ disk'[File] = disk[File]
        /\ \A x \in file : disk'[x] = disk[x]
    BY <1>2, <1>4, <1>6, <1>9, ZenonT(30) DEF Shape, Keys
  <2> QED
    BY <1>1, <1>6, <1>12, <1>13, <2>1, FileGrows, ZenonT(30) DEF FileOf
<1> HIDE DEF q
<1> QED
  BY <1>1, <1>2, <1>4, <1>5, <1>7, <1>8, <1>10, <1>11, <1>14, ApartKept, XattrAssumption,
     ZenonT(30) DEF XInv, Calls, AsBefore, Moves, Mine, Shape, Logs

-----------------------------------------------------------------------------
(* A crash                                                                 *)

(* The records of inodes are about inodes, and crashes are counted from 0. *)
NamesIn(l) == \A k \in 1..Len(l) : l[k].t = "full" => l[k].i \in Inos
Named      == crashes \in Nat /\ NamesIn(log)

(* The chain of inode i that a crash leaves, whether it is restored, and   *)
(* what it is found to be.                                                  *)
SureOf(i)  == Sure(disk, log, op[i], i, com)
Replays(i) == FullIn(log, i, com) # 0
SeenOf(i)  == /\ Row(SureOf(i)) /\ Range(SureOf(i)) \subseteq OwnOf(i)
              /\ ChainSeen(log, disk, stable, bitmap, i, SureOf(i), com)

LEMMA SureSeen ==
  ASSUME XInv, NEW i \in Inos
  PROVE  SeenOf(i)
<1> DEFINE o == op[i]
<1> HIDE DEF o
<1> QED
  BY OwnParts, XInvParts, ZenonT(30) DEF SeenOf, SureOf, OwnOf, Fine, ViewFine, o

(* The live set of replay: the chains of the inodes it restores.           *)
LiveSet(L) ==
  /\ \A i \in Inos : Replays(i) => Range(SureOf(i)) \subseteq L
  /\ \A b \in L : \E i \in Inos : Replays(i) /\ b \in Range(SureOf(i))

LEMMA LiveSetIs ==
  ASSUME XInv, NEW R, Cut(R, log, com)
  PROVE  LiveSet(buildXattrLiveSet(R))
<1>1. \A i \in Inos : LiveFrom(R, xattrFinal(R, i)) = IF FullIn(log, i, com) = 0 THEN {} ELSE Range(SureOf(i))
  <2> SUFFICES ASSUME NEW i \in Inos
               PROVE  LiveFrom(R, xattrFinal(R, i)) = IF FullIn(log, i, com) = 0 THEN {} ELSE Range(SureOf(i))
    OBVIOUS
  <2>1. Row(SureOf(i)) /\ FromLog(log, i, SureOf(i), com)
    BY SureSeen, ZenonT(30) DEF SeenOf, ChainSeen, FromLog
  <2> QED
    BY <2>1, LiveIs, ZenonT(30)
<1> QED
  BY <1>1, ZenonT(30) DEF LiveSet, buildXattrLiveSet, Replays

(* No block of a chain that is not restored, and none of the file, is live. *)
LEMMA LiveApart ==
  ASSUME XInv, NEW L, LiveSet(L)
  PROVE  /\ L \subseteq Pool /\ L \cap file = {}
         /\ \A i \in Inos : ~Replays(i) => Range(SureOf(i)) \cap L = {}
BY SureSeen, OwnInPool, XInvParts, SMTT(60), Z3T(60) DEF LiveSet, SeenOf, XInv, Apart

(* The records that restore x, and what a crash leaves of x.               *)
Hits(R, L, x) == {k \in DOMAIN R : x \in Restores(R[k], L)}
Left(R, L, x) ==
  /\ Hits(R, L, x) = {} => disk'[x] \in {disk[x], stable[x]}
  /\ Hits(R, L, x) # {} => disk'[x] = Contents(R[LastOf(Hits(R, L, x))])

LEMMA CrashLeaves ==
  ASSUME Crash, DOMAIN disk = Keys
  PROVE  DOMAIN disk' = Keys /\ \A x \in Keys : Left(SubSeq(log, 1, com), buildXattrLiveSet(SubSeq(log, 1, com)), x)
<1> DEFINE R == SubSeq(log, 1, com)
           L == buildXattrLiveSet(R)
           res == Replayed(R)
           keys == UNION {Restores(R[k], L) : k \in DOMAIN R}
<1>1. res = [x \in keys |-> Contents(R[LastOf(Hits(R, L, x))])]
  BY ZenonT(30) DEF Replayed, Hits
<1>2. PICK lost : disk' = [x \in DOMAIN disk |-> IF x \in DOMAIN res THEN res[x]
                                             ELSE IF x \in lost THEN stable[x] ELSE disk[x]]
  BY ZenonT(30) DEF Crash
<1> HIDE DEF R, L, res
<1>4. ASSUME NEW x \in Keys PROVE Left(R, L, x)
  <2>2. x \in keys <=> Hits(R, L, x) # {}
    BY ZenonT(30) DEF Hits
  <2> HIDE DEF keys
  <2> QED
    BY <1>1, <1>2, <2>2, ZenonT(30) DEF Left
<1> QED
  BY <1>2, <1>4, ZenonT(30) DEF R, L

(* Which records restore what.                                             *)
HitSets(R, L, l, c) ==
  /\ \A i \in Inos : Hits(R, L, i) = {k \in 1..c : IsFull(l[k], i)}
  /\ Hits(R, L, File) = {k \in 1..c : l[k].t = "file"}
  /\ \A b \in Pool : b \notin L => Hits(R, L, b) = {}
  /\ \A b \in Pool : b \in L => Hits(R, L, b) = {k \in DOMAIN R : R[k].t = "data" /\ R[k].b = b}

LEMMA HitsAre ==
  ASSUME NEW l, NEW c, NEW R, Cut(R, l, c), NEW L, L \subseteq Pool,
         \A k \in 1..c : l[k].t = "full" => l[k].i \in Inos
  PROVE  HitSets(R, L, l, c)
<1>3. DOMAIN R = 1..c /\ \A k \in 1..c : R[k] = l[k] /\ (R[k].t = "full" => R[k].i \in Inos)
  BY ZenonT(30) DEF Cut
<1>5. \A x : Hits(R, L, x) = {k \in 1..c : \/ R[k].t = "full" /\ x = R[k].i
                                           \/ R[k].t = "file" /\ x = File
                                           \/ R[k].t = "data" /\ x = R[k].b /\ x \in L}
  BY <1>3, SMTT(60), Z3T(60) DEF Hits, Restores
<1> QED
  BY <1>3, <1>5, XattrAssumption, SMTT(60), Z3T(60) DEF HitSets, IsFull

Recovery(R, L) ==
  /\ Cut(R, log, com) /\ LiveSet(L) /\ HitSets(R, L, log, com)
  /\ DOMAIN disk' = Keys /\ \A x \in Keys : Left(R, L, x)
  /\ bitmap' = ReplayBits(bitmap, R)

LEMMA CrashFacts ==
  ASSUME XInv, Named, Crash
  PROVE  \E R, L : Recovery(R, L)
<1> DEFINE R == SubSeq(log, 1, com)
           L == buildXattrLiveSet(R)
<1>1. IsLog(log) /\ com \in 0..Len(log) /\ DOMAIN disk = Keys
  BY ZenonT(30) DEF XInv, Shape
<1>2. Cut(R, log, com)
  BY <1>1, CutIs, ZenonT(30)
<1>3. DOMAIN disk' = Keys /\ \A x \in Keys : Left(R, L, x)
  BY <1>1, CrashLeaves, ZenonT(30)
<1>4. bitmap' = ReplayBits(bitmap, R)
  BY ZenonT(30) DEF Crash
<1>5. \A k \in 1..com : log[k].t = "full" => log[k].i \in Inos
  <2> DEFINE N == Len(log)
  <2> HIDE DEF N
  <2> QED
    BY <1>1, SMTT(60), Z3T(60) DEF Named, NamesIn, N, IsLog
<1> HIDE DEF R
<1>6. LiveSet(L)
  BY <1>2, LiveSetIs, ZenonT(30)
<1> HIDE DEF L
<1> QED
  BY <1>2, <1>3, <1>4, <1>5, <1>6, HitsAre, LiveApart, ZenonT(30) DEF Recovery

(* A link is restored from its record, or was never in danger.              *)
LEMMA LinkRestored ==
  ASSUME NEW R, NEW L, Recovery(R, L), NEW s, NEW k, s[k] \in Pool, s[k] \in L, Logged(log, s, k, com)
  PROVE  disk'[s[k]].kind = "xattr" /\ disk'[s[k]].next = NextOf(s, k)
<1> DEFINE b == s[k]
           m == BitsIn(log, b, com)
           D == {j \in DOMAIN R : R[j].t = "data" /\ R[j].b = b}
<1>1. LastData(R, b, m) /\ IsLink(R[m], s, k)
  BY DataLast, ZenonT(30) DEF Recovery
<1>2. Hits(R, L, b) = D /\ Left(R, L, b)
  BY ZenonT(30) DEF Recovery, HitSets, Keys
<1> HIDE DEF m
<1>3. LastOf(D) = m /\ m \in D
  BY <1>1, ZenonT(30) DEF LastData
<1> HIDE DEF D, b
<1> QED
  BY <1>1, <1>2, <1>3, SMTT(60), Z3T(60) DEF IsLink, b, Left, Contents

LEMMA CrashChain ==
  ASSUME XInv, NEW R, NEW L, Recovery(R, L), NEW i \in Inos
  PROVE  Linked(disk', i, SureOf(i))
<1> DEFINE s == SureOf(i)
           n == Len(s)
           m == FullIn(log, i, com)
           K == {k \in 1..com : IsFull(log[k], i)}
<1>1. Row(s) /\ ChainSeen(log, disk, stable, bitmap, i, s, com) /\ \A k \in 1..n : s[k] \in Pool
  BY SureSeen, RowIs, ZenonT(30) DEF SeenOf
<1>2. Hits(R, L, i) = K /\ Left(R, L, i) /\ com \in Nat /\ K \in SUBSET (1..com) /\ m = LastOf(K)
  BY ZenonT(30) DEF Recovery, HitSets, Keys, Cut, FullIn
<1>3. \A k \in 1..n : s[k] \in Range(s)
  BY <1>1, RowIs, ZenonT(30)
<1> HIDE DEF s, n, K
<1>4. (m = 0 => K = {}) /\ (m # 0 => m \in K)
  BY <1>2, LastOfIs, ZenonT(30)
<1>5. CASE m = 0
  <2>3. \A k \in 1..n : disk'[s[k]] \in {disk[s[k]], stable[s[k]]}
    BY <1>1, <1>3, <1>5, LiveApart, ZenonT(30) DEF Recovery, HitSets, Left, Keys, Replays, s
  <2> QED
    BY <1>1, <1>2, <1>4, <1>5, <2>3, ZenonT(30) DEF Linked, s, Holds, n, ChainSeen, Left
<1>6. CASE m # 0
  <2>1. log[m].head = HeadOf(s) /\ \A k \in 1..n : Logged(log, s, k, com)
    BY <1>1, <1>6, ZenonT(30) DEF ChainSeen, n
  <2> HIDE DEF m
  <2>4. disk'[i] = HeadOf(s)
    BY <1>2, <1>4, <1>6, <2>1, ZenonT(30) DEF Left, Recovery, Cut, IsFull, K, Contents
  <2>5. Range(s) \subseteq L
    BY <1>6, ZenonT(30) DEF Recovery, LiveSet, Replays, s, m
  <2>6. \A k \in 1..n : disk'[s[k]].kind = "xattr" /\ disk'[s[k]].next = NextOf(s, k)
    BY <1>1, <1>3, <2>1, <2>5, LinkRestored, ZenonT(30)
  <2> QED
    BY <1>1, <2>4, <2>6, ZenonT(30) DEF Linked, s, Holds, n
<1> QED
  BY <1>5, <1>6, ZenonT(30)

LEMMA CrashFile ==
  ASSUME XInv, NEW R, NEW L, Recovery(R, L)
  PROVE  /\ disk'[File] = FileSure(disk, log, com) /\ disk'[File] \subseteq file
         /\ HasData(disk', disk'[File]) /\ \A b \in disk'[File] : Taken(log, bitmap, b, com)
<1> DEFINE m == FileIn(log, com)
           K == {k \in 1..com : log[k].t = "file"}
           F == FileSure(disk, log, com)
<1>1. /\ F \subseteq file /\ (m = 0 => stable[File] = disk[File]) /\ \A b \in F : Taken(log, bitmap, b, com)
      /\ HasData(disk, file) /\ HasData(stable, IF drain THEN F ELSE file) /\ file \subseteq Pool
  BY ZenonT(30) DEF XInv, FileOf, FileFine, FileSeen, Shape
<1>2. Hits(R, L, File) = K /\ Left(R, L, File) /\ com \in Nat /\ K \in SUBSET (1..com) /\ m = LastOf(K)
  BY ZenonT(30) DEF Recovery, HitSets, Keys, Cut, FileIn
<1> HIDE DEF K
<1>3. (m = 0 => K = {}) /\ (m # 0 => m \in K)
  BY <1>2, LastOfIs, ZenonT(30)
<1>4. disk'[File] = F
  <2>1. CASE m = 0
    BY <1>1, <1>2, <1>3, <2>1, ZenonT(30) DEF FileSure, Left
  <2>2. CASE m # 0
    <3>1. R[m] = log[m] /\ log[m].t = "file" /\ K # {} /\ F = log[m].s
      BY <1>3, <2>2, ZenonT(30) DEF Recovery, Cut, K, FileSure
    <3> HIDE DEF m, F
    <3> QED
      BY <1>2, <3>1, SMTT(60), Z3T(60) DEF Left, Contents
  <2> QED
    BY <2>1, <2>2, ZenonT(30)
<1> HIDE DEF F
<1>6. HasData(disk', F)
  BY <1>1, LiveApart, ZenonT(30) DEF HasData, Recovery, HitSets, Left, Keys
<1> QED
  BY <1>1, <1>4, <1>6, ZenonT(30) DEF F

(* With an empty journal and no call, linked chains are all it takes.      *)
LEMMA EmptyLog ==
  /\ IsLog(<<>>) /\ 0 \in 0..Len(<<>>) /\ Len(<<>>) = 0
  /\ \A i : FullIn(<<>>, i, 0) = 0
  /\ \A f, b : b \notin f => Taken(<<>>, f, b, 0)
  /\ FileIn(<<>>, 0) = 0
BY SMTT(60), Z3T(60) DEF Taken, IsLog, FullIn, BitsIn, FileIn, LastOf

Fresh(d, f, i, s) == /\ Fine(d, d, f, <<>>, 0, Idle, i) /\ Twin(d, <<>>, 0, Idle, i)
                     /\ Own(d, <<>>, 0, Idle, i) = Range(s)

LEMMA FreshFine ==
  ASSUME NEW d, NEW f, NEW i, NEW s, Linked(d, i, s), Range(s) \cap f = {}
  PROVE  Fresh(d, f, i, s)
<1> DEFINE z == << >>
<1>1. IdleIs(d, z, 0, i)
  BY IdleParts, ZenonT(30)
<1>2. walkXattrChain(d, HeadOf(s)).blocks = s /\ d[i] = HeadOf(s) /\ Row(s) /\ Holds(d, s)
  BY WalkLinked, ZenonT(30) DEF Linked
<1>5. Len(z) = 0 /\ FullIn(z, i, 0) = 0 /\ \A b : b \notin f => Taken(z, f, b, 0)
  BY EmptyLog, ZenonT(30)
<1> HIDE DEF z
<1>6. ChainSeen(z, d, d, f, i, s, 0)
  BY <1>2, <1>5, RowIs, ZenonT(30) DEF ChainSeen
<1> QED
  BY <1>1, <1>2, <1>5, <1>6, ZenonT(30) DEF Fresh, z, Fine, CallFine, SettledFine, ViewFine, Twin,
     IdleIs

LEMMA FreshFile ==
  ASSUME NEW d, NEW f, d[File] \cap f = {}, HasData(d, d[File])
  PROVE  FileFine(d, d, f, <<>>, 0, d[File], FALSE)
<1> DEFINE z == << >>
<1> HIDE DEF z
<1> QED
  BY EmptyLog, ZenonT(30) DEF FileFine, z, FileSeen, FileSure

LEMMA CrashKept ==
  ASSUME XInv, Named, Crash
  PROVE  XInv' /\ Named'
<1>1. /\ stable' = disk' /\ bitmap' = free' /\ file' = disk'[File] /\ log' = <<>> /\ com' = 0
      /\ op' = [i \in Inos |-> Idle] /\ jlock' = Nobody /\ drain' = FALSE /\ readOnly' = FALSE
      /\ crashes' = crashes + 1
  BY ZenonT(30) DEF Crash
<1>2. PICK R, L : Recovery(R, L)
  BY CrashFacts, ZenonT(30)
<1>3. free' \subseteq Pool /\ \A b \in free' : ~ Taken(log, bitmap, b, com)
  BY <1>1, <1>2, BitsAre, ZenonT(30) DEF Recovery
<1>4. /\ file' \subseteq file /\ file' \subseteq Pool /\ file' \cap free' = {} /\ HasData(disk', disk'[File])
  BY <1>1, <1>2, <1>3, CrashFile, ZenonT(30) DEF XInv, Shape
<1>5. \A i \in Inos : Linked(disk', i, SureOf(i)) /\ Range(SureOf(i)) \cap free' = {} /\ Range(SureOf(i)) \subseteq OwnOf(i)
  <2> SUFFICES ASSUME NEW i \in Inos
               PROVE  Linked(disk', i, SureOf(i)) /\ Range(SureOf(i)) \cap free' = {} /\ Range(SureOf(i)) \subseteq OwnOf(i)
    OBVIOUS
  <2>1. SeenOf(i) /\ Linked(disk', i, SureOf(i))
    BY <1>2, SureSeen, CrashChain, ZenonT(30)
  <2>2. \A b \in Range(SureOf(i)) : \E k \in 1..Len(SureOf(i)) : b = SureOf(i)[k]
    BY <2>1, RowIs, ZenonT(30) DEF SeenOf
  <2> QED
    BY <1>3, <2>1, <2>2, ZenonT(30) DEF SeenOf, ChainSeen
<1>6. \A i \in Inos : op'[i] = Idle
  BY <1>1, ZenonT(30)
<1>7. \A i \in Inos : FineOf(i)' /\ TwinOf(i)' /\ OwnOf(i)' = Range(SureOf(i))
  <2> SUFFICES ASSUME NEW i \in Inos PROVE FineOf(i)' /\ TwinOf(i)' /\ OwnOf(i)' = Range(SureOf(i))
    OBVIOUS
  <2> QED
    BY <1>1, <1>5, <1>6, FreshFine, ZenonT(30) DEF Fresh, FineOf, TwinOf, Twin, OwnOf
<1>9. Shape'
  BY <1>1, <1>2, <1>3, <1>4, <1>6, EmptyLog, ZenonT(30) DEF Shape, Idle, Recovery
<1>10. Apart'
  BY <1>4, <1>5, <1>7, XInvParts, SMTT(60), Z3T(60) DEF Apart, XInv
<1>11. Named' /\ crashes' # 0
  BY <1>1, SMTT(60), Z3T(60) DEF Named, NamesIn
<1> QED
  BY <1>1, <1>4, <1>7, <1>9, <1>10, <1>11, FreshFile, ZenonT(30) DEF XInv, Calls, Covered, FileOf

LEMMA NamesOne ==
  ASSUME NEW l, NEW l2, NEW r, OneMore(l, l2, r), NamesIn(l), r.t = "full" => r.i \in Inos
  PROVE  NamesIn(l2)
<1> DEFINE N == Len(l)
           M == Len(l2)
<1> HIDE DEF N, M
<1> QED
  BY SMTT(60), Z3T(60) DEF NamesIn, M, OneMore

-----------------------------------------------------------------------------
Inductive == XInv /\ Named

LEMMA InitFine ==
  ASSUME Init
  PROVE  Inductive
<1> DEFINE z == << >>
<1>1. /\ stable = disk /\ free = Pool /\ bitmap = Pool /\ log = z /\ com = 0
      /\ op = [i \in Inos |-> Idle] /\ jlock = Nobody
      /\ file = {} /\ drain = FALSE /\ readOnly = FALSE /\ crashes = 0
  BY ZenonT(30) DEF Init
<1>3. (\A i \in Inos : disk[i] = 0) /\ disk[File] = {}
  BY XattrAssumption, SMTT(60), Z3T(60) DEF Init
<1>4. HeadOf(z) = 0 /\ Range(z) = {} /\ \A k \in 1..Len(z) : FALSE
  BY SMTT(60), Z3T(60) DEF HeadOf, Range
<1>7. \A i \in Inos : op[i] = Idle
  BY <1>1, ZenonT(30)
<1>8. \A i \in Inos : FineOf(i) /\ TwinOf(i) /\ OwnOf(i) = {}
  <2> SUFFICES ASSUME NEW i \in Inos PROVE FineOf(i) /\ TwinOf(i) /\ OwnOf(i) = {}
    OBVIOUS
  <2>1. Linked(disk, i, z) /\ Range(z) \cap Pool = {}
    BY <1>3, <1>4, XattrAssumption, SMTT(60), Z3T(60) DEF Linked, Holds, Row
  <2>2. Fresh(disk, Pool, i, z)
    <3> HIDE DEF z
    <3> QED
      BY <2>1, FreshFine, ZenonT(30)
  <2> QED
    BY <1>1, <1>4, <1>7, <2>2, ZenonT(30) DEF Fresh, FineOf, TwinOf, Twin, OwnOf
<1>10. Idle.at # "failed"
  BY SMTT(60), Z3T(60) DEF Idle
<1>11. Shape
  BY <1>1, <1>7, <1>10, EmptyLog, ZenonT(30) DEF Shape, Init, Keys
<1> QED
  BY <1>1, <1>3, <1>4, <1>8, <1>11, FreshFile, ZenonT(30) DEF Inductive, XInv, Calls, FileOf,
     HasData, Apart, Covered, Named, NamesIn

LEMMA Stutter ==
  ASSUME Inductive, UNCHANGED vars
  PROVE  Inductive'
BY ZenonT(30) DEF Inductive, XInv, Calls, FineOf, TwinOf, FileOf, Shape, Named, Apart, Covered,
   OwnOf, vars

LEMMA NextFine ==
  ASSUME Inductive, Next
  PROVE  Inductive'
<1>0. XInv /\ Named /\ NamesIn(log)
  BY ZenonT(30) DEF Inductive, Named
<1>1. ASSUME log' = log, crashes' = crashes PROVE Named'
  BY <1>0, <1>1, ZenonT(30) DEF Named
<1>2. ASSUME NEW i \in Inos, setXattr(i) PROVE Inductive'
  BY <1>0, <1>1, <1>2, SetXattrKept, ZenonT(30) DEF Inductive, setXattr
<1>3. ASSUME NEW i \in Inos, AllocBlock(i) PROVE Inductive'
  BY <1>0, <1>1, <1>3, AllocBlockKept, ZenonT(30) DEF Inductive, AllocBlock
<1>4. ASSUME NEW i \in Inos, WriteChain(i) PROVE Inductive'
  BY <1>0, <1>1, <1>4, WriteChainKept, ZenonT(30) DEF Inductive, WriteChain
<1>5. ASSUME NEW i \in Inos, WriteRecord(i) PROVE Inductive'
  <2>2. PICK r : OneMore(log, log', r) /\ (r.t = "full" => r.i = i)
    BY <1>0, <1>5, WriteRecordKept, ZenonT(30)
  <2>3. NamesIn(log')
    BY <1>0, <2>2, NamesOne, ZenonT(30)
  <2> QED
    BY <1>0, <1>5, <2>3, WriteRecordKept, ZenonT(30) DEF Inductive, Named, WriteRecord
<1>6. ASSUME NEW i \in Inos, Sync(i) PROVE Inductive'
  BY <1>0, <1>1, <1>6, SyncKept, ZenonT(30) DEF Inductive, Sync, CommitPoint, FlushCommitted
<1>7. ASSUME NEW i \in Inos, freeBlockNow(i) PROVE Inductive'
  BY <1>0, <1>1, <1>7, FreeBlockKept, ZenonT(30) DEF Inductive, freeBlockNow
<1>8. ASSUME NEW i \in Inos, FlushPendingWB(i) PROVE Inductive'
  BY <1>0, <1>1, <1>8, FlushPendingKept, ZenonT(30) DEF Inductive, FlushPendingWB
<1>9. ASSUME NEW i \in Inos, writeInodeDirect(i) PROVE Inductive'
  BY <1>0, <1>1, <1>9, WriteInodeKept, ZenonT(30) DEF Inductive, writeInodeDirect
<1>10. ASSUME NEW i \in Inos, IOError(i) PROVE Inductive'
  BY <1>0, <1>1, <1>10, IOErrorKept, ZenonT(30) DEF Inductive, IOError
<1>11. CASE Fsync
  BY <1>0, <1>1, <1>11, FsyncKept, ZenonT(30) DEF Inductive, Fsync, CommitPoint, FlushCommitted
<1>12. CASE WriteData
  <2>2. PICK l1, r, q : TwoMore(log, l1, log', r, q) /\ r.t # "full" /\ q.t # "full"
    BY <1>0, <1>12, WriteDataKept, ZenonT(30)
  <2> QED
    BY <1>0, <1>12, <2>2, WriteDataKept, NamesOne, ZenonT(30) DEF Inductive, Named, WriteData,
       TwoMore
<1>13. CASE Crash
  BY <1>0, <1>13, CrashKept, ZenonT(30) DEF Inductive
<1> QED
  BY <1>2, <1>3, <1>4, <1>5, <1>6, <1>7, <1>8, <1>9, <1>10, <1>11, <1>12, <1>13, ZenonT(30) DEF Next

LEMMA OwnedIs ==
  ASSUME XInv, ~readOnly, NEW i \in Inos
  PROVE  Owned(i) = OwnOf(i)
<1> DEFINE o == op[i]
           old == OldOf(disk, o, i)
<1>1. /\ CallFine(disk, log, com, o, i) /\ SettledFine(disk, o, i) /\ IsLog(log) /\ com \in 0..Len(log)
      /\ o.at # "failed"
  BY XInvParts, ZenonT(30) DEF Fine, Shape
<1>2. OwnOf(i) = Own(disk, log, com, o, i)
  BY ZenonT(30) DEF OwnOf
<1> HIDE DEF o
<1>3. Row(old)
  BY <1>1, OwnParts, ZenonT(30)
<1>5. CASE o.at = "idle"
  BY <1>2, <1>5, SMTT(60), Z3T(60) DEF Owned, Running, ChainOf, o, Own, OldOf, Early, Kept, NewOf,
     Range
<1>6. CASE o.at \in {"flush", "inode", "done"}
  BY <1>2, <1>6, SMTT(60), Z3T(60) DEF Owned, Running, o, Own, Kept, NewOf
<1>7. CASE o.at \notin {"idle", "flush", "inode", "done"}
  <2>2. old = walkXattrChain(disk, disk[i]).blocks
    <3>1. CASE Early(o)
      BY <3>1, ZenonT(30) DEF OldOf
    <3>2. CASE ~ Early(o)
      <4>1. o # Idle /\ o.at # "alloc" /\ old = o.old
        BY <1>7, <3>2, SMTT(60), Z3T(60) DEF Early, OldOf, Idle
      <4>4. disk[i] = HeadOf(old) /\ Holds(disk, old)
        BY <1>1, <1>7, <4>1, ZenonT(30) DEF OnDevice, CallShape, Stages, Late, CallFine
      <4> HIDE DEF old
      <4> QED
        BY <1>3, <4>4, WalkLinked, ZenonT(30)
    <3> QED
      BY <3>1, <3>2, ZenonT(30)
  <2> QED
    BY <1>1, <1>2, <1>7, <2>2, SMTT(60), Z3T(60) DEF ChainOf, Own, Kept, NewOf, Owned, Running, o
<1> QED
  BY <1>5, <1>6, <1>7, ZenonT(30)

LEMMA ApartFromXInv ==
  ASSUME XInv
  PROVE  ChainsApart
<1>1. Shape /\ Apart /\ Covered /\ Calls
  BY ZenonT(30) DEF XInv
<1>2. ASSUME NEW i \in Inos, Running(op[i])
      PROVE  Len(op[i].got) <= Len(op[i].descs) /\ Len(op[i].descs) <= MaxChain
  BY <1>2, XInvParts, SMTT(60), Z3T(60) DEF CallShape, Fine, CallFine, Running, Idle
<1>4. ASSUME ~readOnly
      PROVE  /\ \A i, j \in Inos : i # j => Owned(i) \cap Owned(j) = {}
             /\ \A i \in Inos : Owned(i) \cap (file \cup free) = {}
             /\ file \cap free = {}
             /\ crashes = 0 => Pool = (UNION {Owned(i) : i \in Inos}) \cup file \cup free
  <2>1. \A i \in Inos : Owned(i) = OwnOf(i) /\ OwnOf(i) \subseteq Pool
    BY <1>4, OwnedIs, OwnInPool, ZenonT(30)
  <2>4. crashes = 0 => Pool = (UNION {Owned(i) : i \in Inos}) \cup file \cup free
    <3> SUFFICES ASSUME crashes = 0 PROVE Pool = (UNION {Owned(i) : i \in Inos}) \cup file \cup free
      OBVIOUS
    <3> QED
      BY <1>1, <1>4, <2>1, SMTT(60), Z3T(60) DEF Covered, Shape
  <2> QED
    BY <1>1, <2>1, <2>4, ZenonT(30) DEF Apart
<1> QED
  BY <1>1, <1>2, <1>4, ZenonT(30) DEF ChainsApart, TypeOK, Shape, Keys

(* Every reachable state, after I/O errors and crashes too, satisfies the  *)
(* inductive invariant: for each inode the chain replay would leave after  *)
(* a crash now is whole, in the journal or on the device.                  *)
THEOREM InvariantHolds == Spec => []Inductive
<1>1. Init => Inductive
  BY InitFine
<1>2. Inductive /\ [Next]_vars => Inductive'
  BY NextFine, Stutter, ZenonT(30)
<1> QED
  BY <1>1, <1>2, PTL DEF Spec

(* While the mount is writable no block is in two of the inodes' chains,   *)
(* the data file and the free set, and until a crash every block is in     *)
(* one, for any pool, any inodes and calls, any values and block capacity. *)
THEOREM ChainsStayApart == Spec => []ChainsApart
<1>1. Inductive => ChainsApart
  BY ApartFromXInv, ZenonT(30) DEF Inductive
<1> QED
  BY <1>1, InvariantHolds, PTL

(* No replay restores a block of a freed chain over the data file's data.  *)
THEOREM DataIsKept == Spec => []DataKept
<1>1. Inductive => DataKept
  BY ZenonT(30) DEF Inductive, XInv, FileOf, FileFine, HasData, DataKept
<1> QED
  BY <1>1, InvariantHolds, PTL
=============================================================================
