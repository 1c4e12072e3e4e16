--------------------------- MODULE AdfMountProofs ---------------------------
(***************************************************************************)
(* Proofs about the life of a fuseadf process: types, the order in which   *)
(* resources are given back, and that no damaged volume is written to.     *)
(***************************************************************************)
EXTENDS AdfMount, SequenceTheorems, TLAPS

-----------------------------------------------------------------------------
(* The inductive invariant: where main stands determines what it holds.    *)

Served == {"fuse", "serving", "close_vol", "unserved"}

VolAt   == Served \cup {"check", "malloc", "undo_vol"}
MountAt == VolAt \cup {"vol", "undo_dev", "close_dev"}
DevAt   == MountAt \cup {"mount"}
LibAt   == DevAt \cup {"dev", "undo_lib", "close_image", "close_lib"}
LogAt   == LibAt \cup {"lib", "failed", "close_log"}
ImageAt == Served \cup {"close_dev", "close_image"}

HeldByLabel ==
  /\ pc \in Labels /\ held \subseteq Resources
  /\ "vol" \in held <=> pc \in VolAt
  /\ "mount" \in held <=> pc \in MountAt
  /\ "dev" \in held <=> pc \in DevAt
  /\ "lib" \in held <=> pc \in LibAt
  /\ "image" \in held <=> pc \in ImageAt

LogByLabel ==
  /\ logging \in BOOLEAN
  /\ logging => ("log" \in held <=> pc \in LogAt)
  /\ ~logging => "log" \notin held

\* Once the check is passed, a volume asked for in write mode is in order.
Checked == pc \in {"malloc", "fuse", "serving"} /\ ~readOnly => bitmap

USE DEF Labels, Opening, Undoing, Closing, Ended, Resources,
        Served, VolAt, MountAt, DevAt, LibAt, LogAt, ImageAt

\* Every step leaves main holding what belongs to the label it goes to.
LEMMA HeldStep == HeldByLabel /\ [Next]_vars => HeldByLabel'
<1> SUFFICES ASSUME HeldByLabel, [Next]_vars PROVE HeldByLabel'
  OBVIOUS
<1> USE DEF HeldByLabel, Goto, Acquire, Release, Keep, mountVars
<1>1. CASE LogOpen BY <1>1 DEF LogOpen
<1>2. CASE LibInit BY <1>2 DEF LibInit
<1>3. CASE DevOpen BY <1>3 DEF DevOpen
<1>4. CASE DevMount BY <1>4 DEF DevMount
<1>5. CASE VolMount BY <1>5 DEF VolMount
<1>6. CASE CheckBitmap BY <1>6 DEF CheckBitmap
<1>7. CASE Malloc BY <1>7 DEF Malloc
<1>8. CASE UndoVol \/ UndoDev \/ UndoLib \/ Failed
  BY <1>8 DEF UndoVol, UndoDev, UndoLib, Failed
<1>9. CASE FuseMain \/ Request \/ Destroy BY <1>9 DEF FuseMain, Request, Destroy
<1>10. CASE CloseVol \/ CloseDev \/ CloseImage \/ CloseLib \/ CloseLog
  BY <1>10 DEF CloseVol, CloseDev, CloseImage, CloseLib, CloseLog
<1>11. CASE Crash BY <1>11 DEF Crash
<1>12. CASE Restart BY <1>12 DEF Restart
<1>13. CASE Repair BY <1>13 DEF Repair
<1>14. CASE UNCHANGED vars BY <1>14 DEF vars
<1> QED
  BY <1>1, <1>2, <1>3, <1>4, <1>5, <1>6, <1>7, <1>8, <1>9, <1>10, <1>11, <1>12,
     <1>13, <1>14 DEF Next

\* The log, the one resource not every process has.
LEMMA LogStep == HeldByLabel /\ LogByLabel /\ [Next]_vars => LogByLabel'
<1> SUFFICES ASSUME pc \in Labels, LogByLabel, [Next]_vars PROVE LogByLabel'
  BY DEF HeldByLabel
<1> USE DEF LogByLabel, Goto, Acquire, Release, Keep, mountVars
<1>1. CASE LogOpen
  <2>1. CASE Goto("log", "lib") /\ ~logging /\ Keep BY <2>1
  <2>2. CASE Goto("log", "lib") /\ logging /\ Acquire("log") BY <2>2
  <2>3. CASE Goto("log", "exited") /\ logging /\ Keep BY <2>3
  <2> QED BY <1>1, <2>1, <2>2, <2>3 DEF LogOpen
<1>2. CASE LibInit BY <1>2 DEF LibInit
<1>3. CASE DevOpen
  <2>1. /\ pc = "dev" /\ pc' \in {"mount", "undo_lib"}
        /\ held' \in {held, held \cup {"dev"}} /\ logging' = logging
    BY <1>3, Zenon DEF DevOpen
  <2> QED BY <2>1
<1>4. CASE DevMount
  <2>1. CASE Goto("mount", "vol") /\ Acquire("mount") BY <2>1
  <2>2. CASE Goto("mount", "undo_lib") /\ Release({"dev"}) BY <2>2
  <2> QED BY <1>4, <2>1, <2>2 DEF DevMount
<1>5. CASE VolMount BY <1>5 DEF VolMount
<1>6. CASE CheckBitmap
  <2>1. /\ pc = "check" /\ pc' \in {"malloc", "undo_vol"}
        /\ held' = held /\ logging' = logging
    BY <1>6, Zenon DEF CheckBitmap
  <2> QED BY <2>1
<1>7. CASE Malloc BY <1>7 DEF Malloc
<1>8. CASE UndoVol \/ UndoDev \/ UndoLib \/ Failed
  BY <1>8 DEF UndoVol, UndoDev, UndoLib, Failed
<1>9. CASE FuseMain \/ Request \/ Destroy BY <1>9 DEF FuseMain, Request, Destroy
<1>10. CASE CloseVol \/ CloseDev \/ CloseImage \/ CloseLib \/ CloseLog
  BY <1>10 DEF CloseVol, CloseDev, CloseImage, CloseLib, CloseLog
<1>11. CASE Crash BY <1>11 DEF Crash
<1>12. CASE Restart BY <1>12 DEF Restart
<1>13. CASE Repair BY <1>13 DEF Repair
<1>14. CASE UNCHANGED vars BY <1>14 DEF vars
<1> QED
  BY <1>1, <1>2, <1>3, <1>4, <1>5, <1>6, <1>7, <1>8, <1>9, <1>10, <1>11, <1>12,
     <1>13, <1>14 DEF Next

\* A process starts with nothing.
LEMMA HeldInit == Init => HeldByLabel /\ LogByLabel
BY DEF Init, HeldByLabel, LogByLabel

\* Whatever fails and whenever it ends, the process gives its resources back in
\* the reverse order of their use (the labels of adfimage_open, adfimage_close).
THEOREM ReverseOrder == Spec => []Nested
<1>1. HeldByLabel /\ LogByLabel => Nested
  BY DEF HeldByLabel, LogByLabel, Nested
<1> QED
  BY HeldInit, HeldStep, LogStep, <1>1, PTL DEF Spec

\* After a failed open and after an unmount, nothing is left open.
THEOREM NothingLeftOpen == Spec => []Released
<1>1. HeldByLabel /\ LogByLabel => Released
  BY DEF HeldByLabel, LogByLabel, Released
<1> QED
  BY HeldInit, HeldStep, LogStep, <1>1, PTL DEF Spec

-----------------------------------------------------------------------------
(* The bitmap.                                                             *)

\* Past its check, the bitmap of a volume to be written stays valid.
LEMMA CheckedStep ==
  ASSUME RootReadable, pc \in Labels, Checked, [Next]_vars
  PROVE  Checked'
<1> USE DEF Checked, Goto, Acquire, Release, Keep, mountVars
<1>1. CASE LogOpen \/ LibInit \/ DevOpen \/ DevMount \/ VolMount
  BY <1>1 DEF LogOpen, LibInit, DevOpen, DevMount, VolMount
<1>2. CASE CheckBitmap
  BY <1>2 DEF CheckBitmap, BitmapPasses
<1>3. CASE Malloc
  BY <1>3 DEF Malloc
<1>4. CASE UndoVol \/ UndoDev \/ UndoLib \/ Failed
  BY <1>4 DEF UndoVol, UndoDev, UndoLib, Failed
<1>5. CASE FuseMain \/ Request \/ Destroy
  BY <1>5 DEF FuseMain, Request, Destroy
<1>6. CASE CloseVol \/ CloseDev \/ CloseImage \/ CloseLib \/ CloseLog
  BY <1>6 DEF CloseVol, CloseDev, CloseImage, CloseLib, CloseLog
<1>7. CASE Crash \/ Restart \/ Repair
  BY <1>7 DEF Crash, Restart, Repair
<1>8. CASE UNCHANGED vars
  BY <1>8 DEF vars
<1> QED
  BY <1>1, <1>2, <1>3, <1>4, <1>5, <1>6, <1>7, <1>8 DEF Next

\* If the root block can be read when it is checked, no volume with an invalid
\* bitmap is served for writing, whatever crashes and restarts came before.
THEOREM NoDamagedVolumeWritten ==
  ASSUME RootReadable
  PROVE  Spec => []DamagedNotWritable
<1>1. Init => Checked
  BY DEF Init, Checked
<1>2. HeldByLabel /\ Checked /\ [Next]_vars => Checked'
  BY CheckedStep DEF HeldByLabel
<1>3. Checked => DamagedNotWritable
  BY DEF Checked, DamagedNotWritable, VolReadOnly
<1> QED
  BY HeldInit, HeldStep, <1>1, <1>2, <1>3, PTL DEF Spec

-----------------------------------------------------------------------------
(* Types.                                                                  *)

FileTyped == file \in Seq(Bytes) /\ Len(file) <= Capacity

\* The smaller of two numbers.
LEMMA MinOfTwo ==
  ASSUME NEW m \in Nat, NEW n \in Nat
  PROVE  Min({m, n}) \in {m, n} /\ Min({m, n}) <= m /\ Min({m, n}) <= n
<1>1. \E x \in {m, n} : \A y \in {m, n} : x <= y
  <2>1. CASE m <= n BY <2>1
  <2>2. CASE n <= m BY <2>2
  <2> QED BY <2>1, <2>2
<1> QED
  BY <1>1 DEF Min

\* The greater of two numbers.
LEMMA MaxOfTwo ==
  ASSUME NEW m \in Nat, NEW n \in Nat
  PROVE  Max({m, n}) \in {m, n} /\ Max({m, n}) >= m /\ Max({m, n}) >= n
<1>1. \E x \in {m, n} : \A y \in {m, n} : x >= y
  <2>1. CASE m <= n BY <2>1
  <2>2. CASE n <= m BY <2>2
  <2> QED BY <2>1, <2>2
<1> QED
  BY <1>1 DEF Max

\* A number taken modulo the word.
LEMMA NarrowNat == \A n \in Nat : Narrow(n) \in Nat
BY FileAssumption DEF Narrow

\* Where a request ends up is in the file or at its end.
LEMMA PositionInFile ==
  ASSUME FileTyped, NEW pos \in Nat
  PROVE  Position(pos) \in Nat /\ Position(pos) <= Len(file)
BY MinOfTwo DEF Position, FileTyped

\* A write that fits the volume leaves a sequence of bytes that fits it.
LEMMA OverwrittenTyped ==
  ASSUME FileTyped, NEW pos \in Nat, NEW d \in Seq(Bytes),
         pos <= Len(file), pos + Len(d) <= Capacity
  PROVE  Overwritten(pos, d) \in Seq(Bytes) /\ Len(Overwritten(pos, d)) <= Capacity
<1> DEFINE m == Max({Len(file), pos + Len(d)})
<1>1. Len(file) \in Nat /\ Len(d) \in Nat
  BY DEF FileTyped
<1>2. m \in Nat /\ m <= Capacity /\ m \in {Len(file), pos + Len(d)}
      /\ m >= Len(file) /\ m >= pos + Len(d)
  <2>1. m \in {Len(file), pos + Len(d)} /\ m >= Len(file) /\ m >= pos + Len(d)
    BY <1>1, MaxOfTwo
  <2> QED BY <2>1, <1>1 DEF FileTyped
<1> HIDE DEF m
<1>3. ASSUME NEW i \in 1 .. m
      PROVE  (IF i \in pos + 1 .. pos + Len(d) THEN d[i - pos] ELSE file[i]) \in Bytes
  <2>1. CASE i \in pos + 1 .. pos + Len(d)
    <3>1. i - pos \in 1 .. Len(d) BY <2>1, <1>1, <1>2
    <3> QED BY <2>1, <3>1
  <2>2. CASE i \notin pos + 1 .. pos + Len(d)
    <3>1. i \in 1 .. Len(file) BY <2>2, <1>1, <1>2
    <3> QED BY <2>2, <3>1 DEF FileTyped
  <2> QED BY <2>1, <2>2
<1>4. Overwritten(pos, d) =
        [i \in 1 .. m |-> IF i \in pos + 1 .. pos + Len(d) THEN d[i - pos] ELSE file[i]]
  BY DEF Overwritten, m
<1> QED
  BY <1>2, <1>3, <1>4

\* So does a truncate to a size the volume has room for.
LEMMA ResizedTyped ==
  ASSUME FileTyped, NEW n \in Nat, n <= Capacity
  PROVE  Resized(n) \in Seq(Bytes) /\ Len(Resized(n)) <= Capacity
<1>1. ASSUME NEW i \in 1 .. n
      PROVE  (IF i <= Len(file) THEN file[i] ELSE Zero) \in Bytes
  BY FileAssumption DEF FileTyped
<1> QED
  BY <1>1 DEF Resized

\* The bytes of a buffer that have room leave the file within the volume.
LEMMA WrittenTyped ==
  ASSUME FileTyped, NEW offset \in Offsets, NEW buffer \in Buffers,
         NEW n \in 0 .. Narrow(Len(buffer)), Written(offset, buffer, n)
  PROVE  FileTyped'
<1>1. /\ Position(Narrow(offset)) + n <= Capacity
      /\ file' = Overwritten(Position(Narrow(offset)), SubSeq(buffer, 1, n))
  BY DEF Written
<1>2. buffer \in Seq(Bytes) /\ offset \in Nat /\ Len(buffer) \in Nat
  BY FileAssumption
<1>3. n \in Nat /\ n <= Len(buffer)
  BY <1>2, FileAssumption DEF Narrow
<1>4. SubSeq(buffer, 1, n) \in Seq(Bytes) /\ Len(SubSeq(buffer, 1, n)) = n
  BY <1>2, <1>3, SubSeqProperties
<1>5. Position(Narrow(offset)) \in Nat /\ Position(Narrow(offset)) <= Len(file)
  BY <1>2, NarrowNat, PositionInFile
<1> QED BY <1>1, <1>4, <1>5, OverwrittenTyped DEF FileTyped

\* Requests keep the file within the volume.
LEMMA ServeTyped ==
  ASSUME FileTyped, NEW readOnly_, Serve(readOnly_)
  PROVE  FileTyped'
<1>1. CASE UNCHANGED file
  BY <1>1 DEF FileTyped
<1>2. CASE Write(readOnly_) /\ file' # file
  <2>1. PICK offset \in Offsets, buffer \in Buffers :
          \E n \in 0 .. Narrow(Len(buffer)) : Written(offset, buffer, n)
    BY <1>2 DEF Write
  <2> QED BY <2>1, WrittenTyped
<1>3. CASE Truncate(readOnly_) /\ file' # file
  <2>1. PICK size \in Offsets :
          Narrow(size) <= Capacity /\ file' = Resized(Narrow(size))
    BY <1>3 DEF Truncate
  <2> QED BY <2>1, NarrowNat, ResizedTyped, FileAssumption DEF FileTyped
<1> QED
  BY <1>1, <1>2, <1>3 DEF Serve, Read, Getattr, Statfs

\* So do requests that a kill has cut off.
LEMMA InterruptedTyped ==
  ASSUME FileTyped, Interrupted
  PROVE  FileTyped'
<1>1. CASE \E offset \in Offsets, buffer \in Buffers :
             \E n \in 0 .. Narrow(Len(buffer)) : Written(offset, buffer, n)
  BY <1>1, WrittenTyped
<1>2. ASSUME NEW size \in Offsets,
             NEW n \in Min({Len(file), Narrow(size)}) .. Max({Len(file), Narrow(size)}),
             n <= Capacity, file' = Resized(n)
      PROVE  FileTyped'
  <2>1. Len(file) \in Nat /\ Narrow(size) \in Nat
    BY NarrowNat, FileAssumption DEF FileTyped
  <2>2. Min({Len(file), Narrow(size)}) \in Nat
    BY <2>1, MinOfTwo
  <2>3. n \in Nat
    BY <2>2
  <2> QED BY <1>2, <2>3, ResizedTyped DEF FileTyped
<1> QED
  BY <1>1, <1>2 DEF Interrupted

\* Only requests touch the file.
LEMMA FileStep == FileTyped /\ [Next]_vars => FileTyped'
<1> SUFFICES ASSUME FileTyped, [Next]_vars PROVE FileTyped'
  OBVIOUS
<1>1. CASE Request
  BY <1>1, ServeTyped DEF Request
<1>2. CASE UNCHANGED file
  BY <1>2 DEF FileTyped
<1>3. CASE Crash
  BY <1>2, <1>3, InterruptedTyped DEF Crash
<1> QED
  BY <1>1, <1>2, <1>3 DEF Next, vars, mountVars, Acquire, Release, Keep, LogOpen, LibInit,
     DevOpen, DevMount, VolMount, CheckBitmap, Malloc, UndoVol, UndoDev, UndoLib,
     Failed, FuseMain, Destroy, CloseVol, CloseDev, CloseImage, CloseLib, CloseLog,
     Restart, Repair

\* The flags, and the answer, which is there between a request and the end.
FlagsTyped ==
  /\ logging \in BOOLEAN /\ readOnly \in BOOLEAN
  /\ devRO \in BOOLEAN /\ bitmap \in BOOLEAN

\* Every step leaves the flags booleans.
LEMMA FlagsStep == FlagsTyped /\ [Next]_vars => FlagsTyped'
<1> SUFFICES ASSUME FlagsTyped, [Next]_vars PROVE FlagsTyped'
  OBVIOUS
<1>1. CASE UNCHANGED mountVars
  BY <1>1 DEF FlagsTyped, mountVars
<1>2. CASE DevOpen
  <2>1. logging' = logging /\ readOnly' = readOnly /\ bitmap' = bitmap
        /\ devRO' \in BOOLEAN \cup {devRO}
    BY <1>2 DEF DevOpen, Keep, mountVars
  <2> QED BY <2>1 DEF FlagsTyped
<1>3. CASE Crash
  <2>1. logging' = logging /\ readOnly' = readOnly /\ devRO' = devRO
        /\ bitmap' \in {bitmap, FALSE}
    BY <1>3 DEF Crash
  <2> QED BY <2>1 DEF FlagsTyped
<1>4. CASE Restart \/ Repair
  BY <1>4 DEF FlagsTyped, Restart, Repair
<1> QED
  BY <1>1, <1>2, <1>3, <1>4 DEF Next, vars, mountVars, Acquire, Release, Keep, LogOpen,
     LibInit, DevMount, VolMount, CheckBitmap, Malloc, UndoVol, UndoDev, UndoLib,
     Failed, FuseMain, Request, Destroy, CloseVol, CloseDev, CloseImage, CloseLib, CloseLog

Unanswered == pc \notin {"serving", "close_vol"} => answer = Nothing

\* There is an answer only while FUSE serves, until the volume is closed.
LEMMA UnansweredStep == Unanswered /\ [Next]_vars => Unanswered'
BY DEF Unanswered, Next, vars, mountVars, Goto, Acquire, Release, Keep, LogOpen, LibInit,
   DevOpen, DevMount, VolMount, CheckBitmap, Malloc, UndoVol, UndoDev, UndoLib, Failed,
   FuseMain, Request, Destroy, CloseVol, CloseDev, CloseImage, CloseLib, CloseLog,
   Crash, Restart, Repair

\* For any word, volume and requests, every variable has its type and the file
\* never outgrows the volume.
THEOREM MountTyped == Spec => []TypeOK
<1>1. Init => FileTyped /\ FlagsTyped /\ Unanswered
  BY FileAssumption DEF Init, FileTyped, FlagsTyped, Unanswered
<1>2. HeldByLabel /\ FileTyped /\ FlagsTyped /\ Unanswered => TypeOK
  BY DEF HeldByLabel, FileTyped, FlagsTyped, Unanswered, TypeOK
<1> QED
  BY HeldInit, HeldStep, FileStep, FlagsStep, UnansweredStep, <1>1, <1>2, PTL DEF Spec

=============================================================================
