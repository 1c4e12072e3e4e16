------------------------------ MODULE AdfMount ------------------------------
(***************************************************************************)
(* The life of a fuseadf process, from main (src/src/fuseadf.c) through    *)
(* adfimage_open, fuse_main and adffs_destroy to adfimage_close            *)
(* (src/src/adfimage.c, adffs.c).  A step is a call that acquires or gives *)
(* back a resource; it may fail, and the code then leaves by the labels at *)
(* the end of adfimage_open.  While FUSE serves, the requests of FileIO    *)
(* arrive.  The process may be killed at any step and started again with   *)
(* other options, on the image as it is by then.                           *)
(***************************************************************************)
EXTENDS FileIO

CONSTANTS
  RootReadable   \* the root block can be read again after the volume is mounted

ASSUME MountAssumption == RootReadable \in BOOLEAN

VARIABLES
  pc,        \* the call main is about to make, or how it has ended
  logging,   \* options.logging_file is set
  readOnly,  \* ! options.write_mode
  held,      \* what the process has acquired
  devRO,     \* dev->readOnly
  bitmap     \* on the image: the bmFlag of the root block is ADF_BM_VALID

mountVars == <<logging, readOnly, devRO, bitmap>>
vars == <<file, answer, pc, held, logging, readOnly, devRO, bitmap>>

\* The log file, ADFlib, the device opened and mounted, the volume, adfimage.
Resources == {"log", "lib", "dev", "mount", "vol", "image"}

Opening == {"log", "lib", "dev", "mount", "vol", "check", "malloc", "fuse"}
Undoing == {"undo_vol", "undo_dev", "undo_lib", "failed"}
Closing == {"close_vol", "close_dev", "close_image", "close_lib", "close_log"}

\* "unserved": fuse_main has returned without ever serving.
Ended   == {"exited", "unserved", "killed"}
Labels  == Opening \cup {"serving"} \cup Undoing \cup Closing \cup Ended

\* vol->readOnly.
VolReadOnly == readOnly \/ devRO

Goto(from, to) == pc = from /\ pc' = to

Acquire(r) == held' = held \cup {r} /\ UNCHANGED <<file, answer, mountVars>>
Release(rs) == held' = held \ rs /\ UNCHANGED <<file, answer, mountVars>>
Keep == UNCHANGED <<file, answer, held, mountVars>>

-----------------------------------------------------------------------------
(* Opening.                                                                *)

\* main: only if a log is asked for; exits at once if it cannot be opened.
LogOpen ==
  \/ Goto("log", "lib") /\ ~logging /\ Keep
  \/ Goto("log", "lib") /\ logging /\ Acquire("log")
  \/ Goto("log", "exited") /\ logging /\ Keep

\* adfLibInit: a failure leaves adfimage_open by return, not by a label.
LibInit ==
  \/ Goto("lib", "dev") /\ Acquire("lib")
  \/ Goto("lib", "failed") /\ Keep

\* adfDevOpen may open read-only a device asked for in read-write mode.
DevOpen ==
  \/ /\ Goto("dev", "mount")
     /\ held' = held \cup {"dev"}
     /\ devRO' \in IF readOnly THEN {TRUE} ELSE BOOLEAN
     /\ UNCHANGED <<file, answer, logging, readOnly, bitmap>>
  \/ Goto("dev", "undo_lib") /\ Keep

\* adfDevMount; on failure mount_dev closes the device.
DevMount ==
  \/ Goto("mount", "vol") /\ Acquire("mount")
  \/ Goto("mount", "undo_lib") /\ Release({"dev"})

VolMount ==
  \/ Goto("vol", "check") /\ Acquire("vol")
  \/ Goto("vol", "undo_dev") /\ Keep

\* Variant with a defect: a bitmap is taken for valid.
BitmapPassesAlways == {TRUE}

\* What isBlockAllocationBitmapValid may return: the flag, or, if the root
\* block cannot be read, ADFlib's error code, which is not 0.
BitmapPasses == {bitmap} \cup (IF RootReadable THEN {} ELSE {TRUE})

\* Variant with a defect: the wrong label.
CheckBitmapKeepingVol ==
  \/ Goto("check", "malloc") /\ (readOnly \/ TRUE \in BitmapPasses) /\ Keep
  \/ Goto("check", "undo_dev") /\ ~readOnly /\ FALSE \in BitmapPasses /\ Keep

\* Only for a volume to be written, whatever the mode of the device.
CheckBitmap ==
  \/ Goto("check", "malloc") /\ (readOnly \/ TRUE \in BitmapPasses) /\ Keep
  \/ Goto("check", "undo_vol") /\ ~readOnly /\ FALSE \in BitmapPasses /\ Keep

Malloc ==
  \/ Goto("malloc", "fuse") /\ Acquire("image")
  \/ Goto("malloc", "undo_vol") /\ Keep

\* adfimage_open_error_cleanup_vol, _dev and _adflib, one falling through to
\* the next; main then closes the log and exits.
UndoVol == Goto("undo_vol", "undo_dev") /\ Release({"vol"})
UndoDev == Goto("undo_dev", "undo_lib") /\ Release({"mount", "dev"})
UndoLib == Goto("undo_lib", "failed") /\ Release({"lib"})
Failed  == Goto("failed", "exited") /\ Release({"log"})

-----------------------------------------------------------------------------
(* Serving and closing.                                                    *)

\* fuse_main mounts and calls adffs_init, or returns (a mount point it cannot
\* use, an option it does not know) and so does main, closing nothing.
FuseMain == (Goto("fuse", "serving") \/ Goto("fuse", "unserved")) /\ Keep

Request ==
  /\ pc = "serving" /\ Serve(VolReadOnly)
  /\ UNCHANGED <<pc, held, mountVars>>

\* The file system is unmounted: adffs_destroy, that is adfimage_close ...
Destroy == Goto("serving", "close_vol") /\ Keep

CloseVol ==
  /\ Goto("close_vol", "close_dev")
  /\ held' = held \ {"vol"}
  /\ answer' = Nothing
  /\ UNCHANGED <<file, mountVars>>

CloseDev   == Goto("close_dev", "close_image") /\ Release({"mount", "dev"})
CloseImage == Goto("close_image", "close_lib") /\ Release({"image"})
CloseLib   == Goto("close_lib", "close_log") /\ Release({"lib"})

\* Variant with a defect: adffs_destroy does not close the log.
CloseLogForgotten == Goto("close_log", "exited") /\ Keep

\* ... and adffs_log_close; then main returns.
CloseLog == Goto("close_log", "exited") /\ Release({"log"})

-----------------------------------------------------------------------------
(* The world around.                                                       *)

\* The process is killed.  What it held is gone; if it could write, it may have
\* been in the middle of a request, and ADFlib in that of updating the bitmap.
Crash ==
  /\ pc \notin Ended /\ pc' = "killed"
  /\ held' = {}
  /\ answer' = Nothing
  /\ bitmap' \in IF pc \in {"serving", "close_vol"} /\ ~VolReadOnly
                 THEN {bitmap, FALSE} ELSE {bitmap}
  /\ \/ UNCHANGED file
     \/ pc = "serving" /\ ~VolReadOnly /\ Interrupted
  /\ UNCHANGED <<logging, readOnly, devRO>>

\* fuseadf is started again, with any options.
Restart ==
  /\ pc \in Ended /\ pc' = "log"
  /\ held' = {}
  /\ logging' \in BOOLEAN /\ readOnly' \in BOOLEAN /\ devRO' = FALSE
  /\ UNCHANGED <<file, answer, bitmap>>

\* The bitmap is rebuilt while the image is not mounted (adf_bitmap).
Repair ==
  /\ pc \in Ended
  /\ bitmap' = TRUE
  /\ UNCHANGED <<file, answer, pc, held, logging, readOnly, devRO>>

Init ==
  /\ file \in Contents /\ answer = Nothing
  /\ pc = "log" /\ held = {}
  /\ logging \in BOOLEAN /\ readOnly \in BOOLEAN /\ devRO = FALSE
  /\ bitmap \in BOOLEAN

Next ==
  \/ LogOpen \/ LibInit \/ DevOpen \/ DevMount \/ VolMount \/ CheckBitmap \/ Malloc
  \/ UndoVol \/ UndoDev \/ UndoLib \/ Failed
  \/ FuseMain \/ Request \/ Destroy
  \/ CloseVol \/ CloseDev \/ CloseImage \/ CloseLib \/ CloseLog
  \/ Crash \/ Restart \/ Repair

Spec == Init /\ [][Next]_vars

-----------------------------------------------------------------------------
(* Properties.                                                             *)

\* Every variable has its type, and the file never outgrows the volume.
TypeOK ==
  /\ pc \in Labels /\ held \subseteq Resources
  /\ logging \in BOOLEAN /\ readOnly \in BOOLEAN
  /\ devRO \in BOOLEAN /\ bitmap \in BOOLEAN
  /\ file \in Seq(Bytes) /\ Len(file) <= Capacity
  /\ pc \notin {"serving", "close_vol"} => answer = Nothing

\* Whichever call fails, whenever the process closes: no resource is given back
\* before the ones that use it (the fall-through order of the labels of
\* adfimage_open, adfimage.c:85-93, and of adfimage_close, 104-118), and the
\* library, which logs through adffs_log_info, is never there without the log.
Nested ==
  /\ "vol" \in held => "mount" \in held
  /\ "mount" \in held => "dev" \in held
  /\ "dev" \in held => "lib" \in held
  /\ "lib" \in held /\ logging => "log" \in held

\* After a failed open, wherever it failed, and after an unmount nothing is
\* left open (fuseadf.c:119-124, adffs.c:48-68).
Released == pc = "exited" => held = {}

\* A volume whose bitmap a crash has left invalid is not mounted for writing
\* until it is repaired ("Not mounting read-write volumes with an invalid block
\* allocation bitmap", ChangeLog:16; adfimage.c:56-62).
DamagedNotWritable == pc = "serving" /\ ~VolReadOnly => bitmap

\* As far as offsets and sizes fit the word, the process gives its requests the
\* store of ImageStore: exact bytes, no write in a session that is read-only or
\* should be (adfimage.c:468-571, 815-831; adffs.c:88-96).
Store ==
  INSTANCE ImageStore WITH
    session <- IF pc \notin {"serving", "close_vol"} THEN "none"
               ELSE IF VolReadOnly THEN "ro" ELSE "rw"

ImplementsImageStore == Store!Spec

=============================================================================
