------------------------------- MODULE Adffs -------------------------------
(***************************************************************************)
(* The file system of fuseadf: the FUSE handlers of src/src/adffs.c and    *)
(* the functions of src/src/adfimage.c they are made of.                   *)
(*                                                                         *)
(* A handler works on the volume through ONE current directory: it walks   *)
(* vol->curDirPtr (curDir) to the directory it wants, name by name, calls  *)
(* the library there, and then goes back to the directory recorded in      *)
(* adfimage->cwd (cwd), or to the root, or nowhere at all.  So a handler   *)
(* is a sequence of steps, one per library call that reads or moves the    *)
(* current directory, and call[t] is the frame of the handler thread t is  *)
(* executing: the request, how far it has come, and its local variables.   *)
(***************************************************************************)
EXTENDS AdfVolume

CONSTANTS
  Threads,         \* FUSE worker threads
  SingleThreaded,  \* FUSE runs with -s (fuseadf.c, "enforce single-threaded")
  Paths,           \* the paths requests name; <<>> is "/"
  Renames,         \* the pairs of paths rename requests name
  KernelChecked,   \* chmod and rename arrive only for paths whose directory exists
  CwdBound         \* bound of the model: the names adfimage->cwd may hold

ASSUME AdffsAssumption ==
  /\ SingleThreaded \in BOOLEAN
  /\ KernelChecked \in BOOLEAN
  /\ Paths \subseteq Seq(Names)
  /\ Renames \subseteq (Seq(Names) \ {<<>>}) \X (Seq(Names) \ {<<>>})
  /\ CwdBound \in Nat

VARIABLES
  curDir,  \* vol->curDirPtr
  cwd,     \* adfimage->cwd, without its slashes
  call     \* the frame of each thread

vars == <<kind, entry, curDir, cwd, call>>

-----------------------------------------------------------------------------
(* Frames.                                                                 *)

FileOps  == {"open", "read", "write", "truncate"}
Writers  == {"write", "truncate"}
EntryOps == {"mkdir", "create", "rmdir", "unlink"}
Lookups  == {"chmod", "rename"}
Ops      == FileOps \cup EntryOps \cup Lookups \cup {"getattr", "readdir", "readlink"}

\* "enter": walking to the directory the operation works in, then doing its
\* work; "back": walking back to the working directory; "into" and "out": the
\* second walk of getattr, which counts the entries of a directory.
Walking == {"enter", "back", "into", "out"}
Phases  == Walking \cup {"idle", "done"}

\* What a handler returns: 0, a negated errno (-1 is EPERM, -3 is ESRCH), or,
\* by mistake of sign, a positive number ("rc": an ADF_RETCODE, "+EINVAL").
Errors   == {"ENOENT", "EPERM", "EINVAL", "ESRCH", "EAGAIN", "rc", "+EINVAL"}
Statuses == Errors \cup {"none", "ok"}

Frames ==
  [op     : Ops \cup {"none"},
   path   : Seq(Names),
   to     : Seq(Names),               \* second path of a rename
   pc     : Phases,
   todo   : Seq(Names),               \* what adfimage_chdir has still to enter
   saved  : Seq(Names),               \* the local copy of cwd
   node   : Sectors \cup {NoSector},  \* the entry the handler has settled on
   type   : Kinds,                    \* ... its type, as read; "free" is NONE
   base   : Sectors \cup {NoSector},  \* rename: the source's directory;
                                      \* getattr: the block st_size comes from
   status : Statuses,
   size   : Nat]                      \* a number of directory entries

\* The frame of a request that has just arrived.
Request(op, p, q) ==
  [op |-> op, path |-> p, to |-> q, pc |-> "idle", todo |-> <<>>,
   saved |-> <<>>, node |-> NoSector, type |-> "free", base |-> NoSector,
   status |-> "none", size |-> 0]

Idle == Request("none", <<>>, <<>>)

Dirname(p)  == Front(p)
Basename(p) == Last(p)

\* Walking over: the loop of adfimage_chdir has nothing left to enter.
Arrived(f, phase) == f.pc = phase /\ f.todo = <<>>

Set(t, f) == call' = [call EXCEPT ![t] = f]

Finish(t, f, status) == Set(t, [f EXCEPT !.pc = "done", !.todo = <<>>, !.status = status])

\* Variant with a defect: adfToRootDir is not called.
ToRootDirForgotten == UNCHANGED <<curDir, cwd>>

\* adfToRootDir: the volume's current directory moves, cwd does not.
ToRootDir == curDir' = Root /\ UNCHANGED cwd

StayHere == UNCHANGED <<curDir, cwd>>

\* Variant with a defect: cwd is not set back to "/" (adfimage.c:387).
ChdirFromRootKeepingCwd == curDir' = Root /\ UNCHANGED cwd

\* adfimage_chdir of an absolute path starts at the root and resets cwd; its
\* caller puts the names to enter into the frame's todo.
ChdirFromRoot == curDir' = Root /\ cwd' = <<>>

-----------------------------------------------------------------------------
(* Requests.                                                               *)

\* Variant with a defect: FUSE is started without -s.
MayBeginAnytime(t) == call[t].pc = "idle"

\* FUSE hands thread t a request: with -s, only when no other is served.
MayBegin(t) ==
  /\ call[t].pc = "idle"
  /\ SingleThreaded => \A u \in Threads : call[u].pc = "idle"

\* adffs_getattr of "/": no walk, the entries of the current directory.
GetattrRoot(t) ==
  /\ MayBegin(t)
  /\ <<>> \in Paths
  /\ Finish(t, [Request("getattr", <<>>, <<>>) EXCEPT
                  !.node = Root, !.type = "dir",
                  !.base = curDir, !.size = Cardinality(DirEnt(curDir))], "ok")
  /\ StayHere
  /\ UNCHANGED tree

\* adffs_getattr of another path: into dirname(path).
Getattr(t) ==
  /\ MayBegin(t)
  /\ \E p \in Paths \ {<<>>} :
       Set(t, [Request("getattr", p, <<>>) EXCEPT !.pc = "enter", !.todo = Dirname(p)])
  /\ ChdirFromRoot
  /\ UNCHANGED tree

\* adfimage_file_open (open, truncate), adfimage_read, adfimage_write and
\* adfimage_readlink: note cwd, then into dirname(path).
FileOp(t) ==
  /\ MayBegin(t)
  /\ \E op \in FileOps \cup {"readlink"}, p \in Paths \ {<<>>} :
       Set(t, [Request(op, p, <<>>) EXCEPT
                 !.pc = "enter", !.todo = Dirname(p), !.saved = cwd])
  /\ ChdirFromRoot
  /\ UNCHANGED tree

\* adffs_readdir: into the path itself.
Readdir(t) ==
  /\ MayBegin(t)
  /\ \E p \in Paths : Set(t, [Request("readdir", p, <<>>) EXCEPT !.pc = "enter", !.todo = p])
  /\ ChdirFromRoot
  /\ UNCHANGED tree

\* adfimage_mkdir, _create, _remove_entry: to the root, then into dirname of
\* the path WITHOUT its slash: this chdir leaves the old cwd in place and
\* appends to it.  The last conjunct is the bound of the model.
EntryOp(t) ==
  /\ MayBegin(t)
  /\ \E op \in EntryOps, p \in Paths \ {<<>>} :
       /\ Set(t, [Request(op, p, <<>>) EXCEPT !.pc = "enter", !.todo = Dirname(p)])
       /\ Len(cwd) + Len(Dirname(p)) <= CwdBound
  /\ ToRootDir
  /\ UNCHANGED tree

\* adfimage_getdentry(p) begins: the root has no directory to look into; for
\* any other path, note cwd and go into dirname(p).
BeginLookup(t, f, p) ==
  \/ /\ p = <<>>
     /\ Set(t, [f EXCEPT !.pc = "back", !.todo = <<>>, !.node = Root, !.type = "dir"])
     /\ StayHere
  \/ /\ p # <<>>
     /\ Set(t, [f EXCEPT !.pc = "enter", !.todo = Dirname(p), !.saved = cwd])
     /\ ChdirFromRoot

\* adffs_chmod: adfimage_setperm looks the path up.
Chmod(t) ==
  /\ MayBegin(t)
  /\ \E p \in Paths :
       /\ KernelChecked => p = <<>> \/ IsDir(Dirname(p))
       /\ BeginLookup(t, Request("chmod", p, <<>>), p)
  /\ UNCHANGED tree

\* adffs_rename: adfimage_file_rename looks the source's directory up.  No
\* directory in Renames is named with a leading or trailing "..": for those
\* pathstr_fuse2amigados (util.h:45-68) does not return the path unchanged.
Rename(t) ==
  /\ MayBegin(t)
  /\ \E r \in Renames :
       /\ KernelChecked => IsDir(Dirname(r[1])) /\ IsDir(Dirname(r[2]))
       /\ BeginLookup(t, Request("rename", r[1], r[2]), Dirname(r[1]))
  /\ UNCHANGED tree

-----------------------------------------------------------------------------
(* The loop of adfimage_chdir.                                             *)

\* adfChangeDir succeeds, append_dir records the name.
ChangeDir(t) ==
  LET f == call[t] IN
  /\ f.pc \in Walking /\ f.todo # <<>>
  /\ CanEnter(curDir, Head(f.todo))
  /\ curDir' = Entered(curDir, Head(f.todo))
  /\ cwd' = Append(cwd, Head(f.todo))
  /\ Set(t, [f EXCEPT !.todo = Tail(f.todo)])
  /\ UNCHANGED tree

\* What a handler returns when it cannot enter the directory it needs: -1
\* for open (no file), truncate (adffs_truncate) and readlink, -ENOENT else.
ChdirError(op) == IF op \in {"open", "truncate", "readlink"} THEN "EPERM" ELSE "ENOENT"

\* Variant with a defect: a failed adfChangeDir is tried again, for ever.
ChdirRetries(t) ==
  LET f == call[t] IN
  /\ f.pc = "enter" /\ f.op \notin Lookups /\ f.todo # <<>>
  /\ ~CanEnter(curDir, Head(f.todo))
  /\ UNCHANGED vars

\* adfChangeDir fails and the handler gives up where it stands; only readdir
\* returns the volume to the root.
ChdirFails(t) ==
  LET f == call[t] IN
  /\ f.pc = "enter" /\ f.op \notin Lookups /\ f.todo # <<>>
  /\ ~CanEnter(curDir, Head(f.todo))
  /\ Finish(t, f, ChdirError(f.op))
  /\ IF f.op = "readdir" THEN ToRootDir ELSE StayHere
  /\ UNCHANGED tree

\* adfChangeDir fails and nobody looks at the result of adfimage_chdir: the
\* handler goes on in the directory where the walk has stopped.
ChdirIgnored(t) ==
  LET f == call[t] IN
  /\ f.pc \in Walking
  /\ f.pc = "enter" => f.op \in Lookups
  /\ f.todo # <<>>
  /\ ~CanEnter(curDir, Head(f.todo))
  /\ Set(t, [f EXCEPT !.todo = <<>>])
  /\ StayHere
  /\ UNCHANGED tree

-----------------------------------------------------------------------------
(* open, read, write, truncate and readlink.                               *)

\* adfFileOpen succeeds: the file is read or written and closed, and the
\* handler goes back to the working directory it noted.
OpenFile(t) ==
  LET f == call[t]
      n == Basename(f.path)
  IN
  /\ f.op \in FileOps /\ Arrived(f, "enter")
  /\ CanOpen(curDir, n, f.op \in Writers)
  /\ Set(t, [f EXCEPT !.pc = "back", !.todo = f.saved,
                      !.node = Opened(curDir, n), !.type = "file", !.status = "ok"])
  /\ ChdirFromRoot
  /\ UNCHANGED tree

\* adfFileOpen fails (no such file, or the library refuses: protection bits,
\* an I/O error): the handler returns from where it is.
OpenFails(t) ==
  LET f == call[t] IN
  /\ f.op \in FileOps /\ Arrived(f, "enter")
  /\ Finish(t, f, IF f.op \in {"open", "truncate"} THEN "EPERM" ELSE "ENOENT")
  /\ StayHere
  /\ UNCHANGED tree

\* adfNameToEntryBlk: -2 (ENOENT) when there is no such name; the name in a
\* soft link; for any other block, whatever its realEntry field leads to.
ReadLink(t) ==
  LET f == call[t]
      n == Basename(f.path)
      gone == Matching(curDir, n) = {}
      s == IF gone THEN NoSector ELSE EntryOf(curDir, n)
      k == IF gone THEN "free" ELSE kind[s]
  IN
  /\ f.op = "readlink" /\ Arrived(f, "enter")
  /\ \E status \in IF gone THEN {"ENOENT"}
                    ELSE IF k = "slink" THEN {"ok"} ELSE {"ok", "ESRCH"} :
       Set(t, [f EXCEPT !.pc = "back", !.todo = f.saved,
                        !.node = s, !.type = k, !.status = status])
  /\ ChdirFromRoot
  /\ UNCHANGED tree

\* Back in the working directory.  adfimage_file_truncate resizes the file
\* only now, which may fail.
Restored(t) ==
  LET f == call[t] IN
  /\ f.op \in FileOps \cup {"readlink"} /\ Arrived(f, "back")
  /\ \E status \in IF f.op = "truncate" THEN {"ok", "EPERM"} ELSE {f.status} :
       Finish(t, f, status)
  /\ StayHere
  /\ UNCHANGED tree

-----------------------------------------------------------------------------
(* readdir, mkdir, create, rmdir and unlink.                               *)

\* adffs_readdir: every name goes to the filler, which may be full.
ListDir(t) ==
  LET f == call[t] IN
  /\ f.op = "readdir" /\ Arrived(f, "enter")
  /\ \E status \in IF DirEnt(curDir) = {} THEN {"ok"} ELSE {"ok", "EAGAIN"} :
       Finish(t, [f EXCEPT !.node = curDir, !.type = "dir",
                           !.size = Cardinality(DirEnt(curDir))], status)
  /\ ToRootDir
  /\ UNCHANGED tree

\* adfimage_mkdir: adfCreateDir in the current directory.
MakeDir(t) ==
  LET f == call[t] IN
  /\ f.op = "mkdir" /\ Arrived(f, "enter")
  /\ \/ /\ CreateEntry(curDir, Basename(f.path), "dir")
        /\ Finish(t, [f EXCEPT !.node = curDir, !.type = "dir"], "ok")
     \/ Finish(t, f, "rc") /\ UNCHANGED tree
  /\ ToRootDir

\* adfimage_create: adfCreateFile in the current directory.
CreateFile(t) ==
  LET f == call[t] IN
  /\ f.op = "create" /\ Arrived(f, "enter")
  /\ \/ /\ CreateEntry(curDir, Basename(f.path), "file")
        /\ Finish(t, [f EXCEPT !.node = curDir, !.type = "dir"], "ok")
     \/ Finish(t, f, "EPERM") /\ UNCHANGED tree
  /\ ToRootDir

\* adfimage_remove_entry: adfRemoveEntry in the current directory, whatever
\* the type of the entry (fuse is trusted to have checked it).
RemoveIt(t) ==
  LET f == call[t] IN
  /\ f.op \in {"rmdir", "unlink"} /\ Arrived(f, "enter")
  /\ \/ /\ RemoveEntry(curDir, Basename(f.path))
        /\ Finish(t, [f EXCEPT !.node = curDir, !.type = "dir"], "ok")
     \/ Finish(t, f, "rc") /\ UNCHANGED tree
  /\ ToRootDir

-----------------------------------------------------------------------------
(* adfimage_getdentry, and its callers getattr, chmod and rename.          *)

\* The path adfimage_getdentry is looking for: rename looks up two.
Sought(f) ==
  IF f.op # "rename" THEN f.path
  ELSE IF f.base = NoSector THEN Dirname(f.path) ELSE Dirname(f.to)

\* Variant with a defect: names are compared without regard to case.
ListFindAnyCase(n) == IF Matching(curDir, n) = {} THEN NoSector ELSE EntryOf(curDir, n)

\* adflib_list_find: the entry with exactly that name in the current directory.
ListFind(n) == entry[curDir][n]

\* The entry is searched in the list of the current directory.  An empty list
\* is taken for an error, and the way back skipped.
\* adffs_getattr passes a bare name: cwd is noted here and chdir(".") is void.
Find(t) ==
  LET f == call[t]
      s == ListFind(Basename(Sought(f)))
  IN
  /\ f.op \in Lookups \cup {"getattr"} /\ Arrived(f, "enter")
  /\ \/ /\ DirEnt(curDir) = {}
        /\ Set(t, [f EXCEPT !.pc = "back", !.node = NoSector, !.type = "free"])
        /\ StayHere
     \/ /\ DirEnt(curDir) # {}
        /\ Set(t, [f EXCEPT !.pc = "back",
                            !.todo = IF f.op = "getattr" THEN cwd ELSE f.saved,
                            !.node = s,
                            !.type = IF s = NoSector THEN "free" ELSE kind[s]])
        /\ ChdirFromRoot
  /\ UNCHANGED tree

\* adffs_getattr, the entry being none, a file, or a link: answered at once.
\* The size of a file comes from the file adfFileOpen opens by the name.
StatEntry(t) ==
  LET f == call[t]
      n == Basename(f.path)
  IN
  /\ f.op = "getattr" /\ Arrived(f, "back")
  /\ f.type \notin {"dir", "ldir"}
  /\ \/ f.type = "free" /\ Finish(t, f, "ENOENT")
     \/ f.type = "slink" /\ Finish(t, f, "ok")
     \/ /\ f.type \in {"file", "lfile"}
        /\ \/ /\ CanOpen(curDir, n, FALSE)
              /\ Finish(t, [f EXCEPT !.base = Opened(curDir, n)], "ok")
           \/ Finish(t, f, "ok")
  /\ ToRootDir
  /\ UNCHANGED tree

\* ... the entry being a directory: adfimage_count_dir_entries notes cwd and
\* enters the whole path, without looking at the result,
StatDir(t) ==
  LET f == call[t] IN
  /\ f.op = "getattr" /\ Arrived(f, "back")
  /\ f.type \in {"dir", "ldir"}
  /\ Set(t, [f EXCEPT !.pc = "into", !.todo = f.path, !.saved = cwd])
  /\ ChdirFromRoot
  /\ UNCHANGED tree

\* counts the entries there, starts back,
CountEntries(t) ==
  LET f == call[t] IN
  /\ Arrived(f, "into")
  /\ Set(t, [f EXCEPT !.pc = "out", !.todo = f.saved, !.base = curDir,
                      !.size = Cardinality(DirEnt(curDir))])
  /\ ChdirFromRoot
  /\ UNCHANGED tree

\* and, wherever that has ended, adffs_getattr returns the volume to the root.
Counted(t) ==
  LET f == call[t] IN
  /\ Arrived(f, "out")
  /\ Finish(t, f, "ok")
  /\ ToRootDir
  /\ UNCHANGED tree

\* adfimage_setperm rewrites the block of the entry found; the library may
\* fail, and does on a read-only volume.
SetPerm(t) ==
  LET f == call[t] IN
  /\ f.op = "chmod" /\ Arrived(f, "back")
  /\ \/ f.type # "free" /\ ~ReadOnly /\ Finish(t, f, "ok")
     \/ Finish(t, f, "+EINVAL")
  /\ StayHere
  /\ UNCHANGED tree

\* adfimage_file_rename, a lookup of a parent is over, and has failed.
NoParent(t) ==
  LET f == call[t] IN
  /\ f.op = "rename" /\ Arrived(f, "back")
  /\ f.type \notin {"dir", "ldir"}
  /\ Finish(t, f, IF f.type = "free" THEN "ENOENT" ELSE "EINVAL")
  /\ StayHere
  /\ UNCHANGED tree

\* The sector of a parent entry: a hard link's is the one it refers to.
ParentSector(f) == IF f.type = "dir" THEN f.node ELSE Real[f.node]

\* The source's parent is known: look up the destination's.
SourceFound(t) ==
  LET f == call[t] IN
  /\ f.op = "rename" /\ Arrived(f, "back") /\ f.base = NoSector
  /\ f.type \in {"dir", "ldir"}
  /\ BeginLookup(t, [f EXCEPT !.base = ParentSector(f)], Dirname(f.to))
  /\ UNCHANGED tree

\* Variant with a defect: the two parents of adfRenameEntry are swapped.
RenameSwapped(t) ==
  LET f == call[t] IN
  /\ f.op = "rename" /\ Arrived(f, "back") /\ f.base # NoSector
  /\ f.type \in {"dir", "ldir"}
  /\ \/ /\ RenameEntry(ParentSector(f), Basename(f.path), f.base, Basename(f.to))
        /\ Finish(t, f, "ok")
     \/ Finish(t, f, "EPERM") /\ UNCHANGED tree
  /\ StayHere

\* Both are known: adfRenameEntry, by the two sectors.
RenameIt(t) ==
  LET f == call[t] IN
  /\ f.op = "rename" /\ Arrived(f, "back") /\ f.base # NoSector
  /\ f.type \in {"dir", "ldir"}
  /\ \/ /\ RenameEntry(f.base, Basename(f.path), ParentSector(f), Basename(f.to))
        /\ Finish(t, f, "ok")
     \/ Finish(t, f, "EPERM") /\ UNCHANGED tree
  /\ StayHere

-----------------------------------------------------------------------------
\* Variant with a defect: what the handler noted outlives it.
ReplyKeeping(t) ==
  /\ call[t].pc = "done"
  /\ Set(t, [call[t] EXCEPT !.pc = "idle"])
  /\ StayHere
  /\ UNCHANGED tree

\* The handler returns and its frame is gone.
Reply(t) ==
  /\ call[t].pc = "done"
  /\ Set(t, Idle)
  /\ StayHere
  /\ UNCHANGED tree

\* A step of the handler thread t is in.
Handler(t) ==
  \/ ChangeDir(t) \/ ChdirFails(t) \/ ChdirIgnored(t)
  \/ OpenFile(t) \/ OpenFails(t) \/ ReadLink(t) \/ Restored(t)
  \/ ListDir(t) \/ MakeDir(t) \/ CreateFile(t) \/ RemoveIt(t)
  \/ Find(t) \/ StatEntry(t) \/ StatDir(t) \/ CountEntries(t) \/ Counted(t)
  \/ SetPerm(t) \/ NoParent(t) \/ SourceFound(t) \/ RenameIt(t)
  \/ Reply(t)

Begin(t) ==
  \/ GetattrRoot(t) \/ Getattr(t) \/ FileOp(t) \/ Readdir(t)
  \/ EntryOp(t) \/ Chmod(t) \/ Rename(t)

\* adfimage_open: the volume is mounted and its root is the current directory.
Init ==
  /\ TreeInit
  /\ curDir = Root
  /\ cwd = <<>>
  /\ call = [t \in Threads |-> Idle]

Next == \E t \in Threads : Begin(t) \/ Handler(t)

Spec == Init /\ [][Next]_vars

\* A handler is sequential code that waits for nothing: it runs to its end.
FairSpec == Spec /\ \A t \in Threads : WF_vars(Handler(t))

-----------------------------------------------------------------------------
(* What must hold.                                                         *)

\* Every variable has its type; a thread that serves no request keeps nothing
\* of the last one, and a handler that is done has something to return.
TypeOK ==
  /\ TreeTypeOK
  /\ curDir \in Sectors
  /\ cwd \in Seq(Names)
  /\ call \in [Threads -> Frames]
  /\ \A t \in Threads : /\ call[t].pc = "idle" => call[t] = Idle
                        /\ call[t].pc = "done" => call[t].status # "none"

\* The current directory of the volume is a directory in use, wherever failed
\* requests have left it: the working directory a handler noted before its walk
\* may be gone when it walks back, and the result of that walk is ignored
\* (adfimage.c:320, 450, 510).
CurDirLive == kind[curDir] = "dir"

\* The names of a directory path the walk of frame f has behind it.
Walked(f, p) == SubSeq(p, 1, Len(p) - Len(f.todo))

\* The directory the walk of frame f is bound for, while it enters.
Bound(f) == IF f.op = "readdir" THEN f.path ELSE Dirname(Sought(f))

\* Whatever directory the handlers before it left the volume in, a handler
\* that walks to an existing directory is, at every name, where the names it
\* has entered lead from the root: stale state of an earlier request (a failed
\* read leaves curDir and cwd anywhere, adfimage.c:493-496) never diverts it.
OnPath ==
  \A t \in Threads :
    LET f == call[t] IN
    f.pc = "enter" /\ IsDir(Bound(f)) => Leads(Walked(f, Bound(f)), curDir)

\* The file a request on an open file reads, writes or truncates is the one
\* its path names, although it was found through the shared current directory
\* (adfimage.c:441, 490, 544).
RightFile ==
  \A t \in Threads :
    LET f == call[t] IN
    f.op \in FileOps /\ f.type = "file" =>
      \E d \in Sectors : /\ Leads(Dirname(f.path), d)
                         /\ CanOpen(d, Basename(f.path), f.op \in Writers)
                         /\ f.node = Opened(d, Basename(f.path))

\* adfimage_chdir of an absolute path makes cwd and the volume's current
\* directory agree, even where it fails half-way or where the directory to go
\* back to is gone by now (its result is ignored, adfimage.c:320, 450, 510).
\* So they agree in every handler that has entered by an absolute path, and at
\* its end, unless it moves the volume to the root, or the directory itself
\* (a rename), behind the back of cwd.
CwdAgrees ==
  \A t \in Threads :
    LET f == call[t]
        absolute == f.op \notin EntryOps /\ Sought(f) # <<>>
    IN
    absolute /\ (\/ f.pc \in Walking
                 \/ f.pc = "done" /\ f.op \in FileOps \cup {"chmod", "readlink"})
    => Leads(cwd, curDir)

\* A directory changes only under a request that names it: a mkdir, create,
\* rmdir or unlink of an entry of that directory, or a rename from or to it
\* (adfimage.c:661-831, 893-949).  That a request which is refused changes not
\* even that directory is part of ImplementsPathFs.
Named(d) ==
  \E t \in Threads :
    LET f == call[t] IN
    \/ f.op \in EntryOps /\ Leads(Dirname(f.path), d)
    \/ f.op = "rename" /\ (Leads(Dirname(f.path), d) \/ Leads(Dirname(f.to), d))

ChangesNamedDirs ==
  [][\A d \in Sectors : entry'[d] # entry[d] => kind[d] = "free" \/ Named(d)]_vars

\* Every request is answered: no handler walks for ever, or waits for the
\* directory it needs (the loop of adfimage_chdir, adfimage.c:397-411).
Answered == \A t \in Threads : call[t].pc # "idle" ~> call[t].pc = "idle"

-----------------------------------------------------------------------------
\* What thread t has to answer, in the terms of PathFs.
answerOf(t) ==
  LET f == call[t] IN
  IF f.pc = "done"
  THEN [op |-> f.op, path |-> f.path, to |-> f.to, status |-> f.status,
        node |-> f.node, base |-> f.base, size |-> f.size]
  ELSE [op |-> "none"]

Abs == INSTANCE PathFs WITH answer <- [t \in Threads |-> answerOf(t)]

\* With one request at a time, the handlers implement a file system that
\* knows paths only: the shared current directory, the stale cwd and the walks
\* half done by failed requests never show in an answer or in the tree
\* (adffs.c:131-656).
ImplementsPathFs == Abs!Spec

=============================================================================
