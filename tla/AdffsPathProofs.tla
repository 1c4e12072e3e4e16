-------------------------- MODULE AdffsPathProofs --------------------------
(***************************************************************************)
(* With -s, for every volume and every set of paths and threads: handlers  *)
(* arrive where their paths lead, in spite of the state the ones before    *)
(* them have left, and touch the files and directories their paths name.   *)
(***************************************************************************)
EXTENDS AdffsProofs

-----------------------------------------------------------------------------
(* Trails: the sectors a path leads through.                               *)

\* tr is the trail of path p: the witness of Leads.
Trail(tr, p) ==
  /\ tr \in [0..Len(p) -> Sectors] /\ tr[0] = Root
  /\ \A i \in 1..Len(p) :
       CanEnter(tr[i - 1], p[i]) /\ tr[i] = Entered(tr[i - 1], p[i])

\* A path leads where its trail ends.
LEMMA LeadsByTrail ==
  \A p, d : Leads(p, d) <=> \E tr : Trail(tr, p) /\ tr[Len(p)] = d
BY DEF Leads, Trail

\* "/" leads to the root.
LEMMA LeadsRoot == Leads(<<>>, Root)
<1> DEFINE tr == [i \in 0..0 |-> Root]
<1>1. Len(<<>>) = 0
  OBVIOUS
<1>2. Trail(tr, <<>>) /\ tr[Len(<<>>)] = Root
  BY <1>1, VolumeAssumption DEF Trail
<1> HIDE DEF tr
<1> QED BY <1>2, LeadsByTrail

\* A walk that enters one more name.
LEMMA LeadsOn ==
  ASSUME TreeTypeOK, NEW p \in Seq(Names), NEW d \in Sectors, NEW n \in Names,
         Leads(p, d), CanEnter(d, n)
  PROVE  Leads(Append(p, n), Entered(d, n))
<1>1. PICK tr : Trail(tr, p) /\ tr[Len(p)] = d
  BY LeadsByTrail
<1>2. PICK q : q = Append(p, n)
  OBVIOUS
<1>3. Len(p) \in Nat /\ Len(q) = Len(p) + 1 /\ q[Len(p) + 1] = n
      /\ \A i \in 1..Len(p) : q[i] = p[i]
  BY <1>2
<1>4. PICK e : e = Entered(d, n)
  OBVIOUS
<1>5. e \in Sectors
  BY <1>4, EntryFound DEF CanEnter, Entered
<1>6. PICK new : new = [i \in 0..Len(p) + 1 |-> IF i = Len(p) + 1 THEN e ELSE tr[i]]
  OBVIOUS
<1>7. new \in [0..Len(q) -> Sectors] /\ new[0] = Root /\ new[Len(q)] = e
  BY <1>1, <1>3, <1>5, <1>6 DEF Trail
<1>8. ASSUME NEW i \in 1..Len(q)
      PROVE  CanEnter(new[i - 1], q[i]) /\ new[i] = Entered(new[i - 1], q[i])
  <2>1. CASE i = Len(p) + 1
    <3>1. new[i - 1] = d /\ new[i] = e /\ q[i] = n
      BY <1>1, <1>3, <1>6, <2>1
    <3> QED BY <1>4, <3>1
  <2>2. CASE i \in 1..Len(p)
    <3>1. new[i - 1] = tr[i - 1] /\ new[i] = tr[i] /\ q[i] = p[i]
      BY <1>3, <1>6, <2>2
    <3>2. CanEnter(tr[i - 1], p[i]) /\ tr[i] = Entered(tr[i - 1], p[i])
      BY <1>1, <2>2 DEF Trail
    <3> QED BY <3>1, <3>2
  <2> QED BY <1>3, <2>1, <2>2
<1>9. Trail(new, q) /\ new[Len(q)] = e
  BY <1>7, <1>8 DEF Trail
<1> QED BY <1>2, <1>4, <1>9, LeadsByTrail

\* The first k names of a path lead along its trail.
LEMMA LeadsPart ==
  ASSUME NEW p \in Seq(Names), NEW tr, Trail(tr, p), NEW k \in 0..Len(p)
  PROVE  Leads(SubSeq(p, 1, k), tr[k])
<1>1. PICK q : q = SubSeq(p, 1, k)
  OBVIOUS
<1>2. Len(p) \in Nat /\ \A i \in 1..k : p[i] \in Names
  OBVIOUS
<1>3. /\ Len(q) = IF 1 <= k THEN k - 1 + 1 ELSE 0
      /\ \A i \in 1..k - 1 + 1 : q[i] = p[1 + i - 1]
  BY <1>1, <1>2, SubSeqProperties
<1>4. Len(q) = k /\ \A i \in 1..k : q[i] = p[i]
  BY <1>2, <1>3
<1>5. PICK new : new = [i \in 0..k |-> tr[i]]
  OBVIOUS
<1>6. new \in [0..k -> Sectors] /\ new[0] = Root /\ new[k] = tr[k]
  <2>1. k \in Nat /\ 0 \in 0..k /\ k \in 0..k /\ 0..k \subseteq 0..Len(p)
    BY <1>2
  <2>2. \A i \in 0..k : tr[i] \in Sectors
    BY <2>1 DEF Trail
  <2>3. tr[0] = Root
    BY DEF Trail
  <2> QED BY <1>5, <2>1, <2>2, <2>3
<1>7. ASSUME NEW i \in 1..k
      PROVE  CanEnter(new[i - 1], q[i]) /\ new[i] = Entered(new[i - 1], q[i])
  <2>1. new[i - 1] = tr[i - 1] /\ new[i] = tr[i] /\ q[i] = p[i]
    BY <1>2, <1>4, <1>5
  <2>2. CanEnter(tr[i - 1], p[i]) /\ tr[i] = Entered(tr[i - 1], p[i])
    BY <1>2 DEF Trail
  <2> QED BY <2>1, <2>2
<1>8. Trail(new, q) /\ new[Len(q)] = tr[k]
  BY <1>4, <1>6, <1>7 DEF Trail
<1> QED BY <1>1, <1>8, LeadsByTrail

\* As long as the tree is left alone, names are found as they were ...
LEMMA SameLookups ==
  ASSUME UNCHANGED tree, NEW d, NEW n
  PROVE  /\ CanEnter(d, n)' <=> CanEnter(d, n)
         /\ Entered(d, n)' = Entered(d, n)
         /\ \A w : CanOpen(d, n, w)' <=> CanOpen(d, n, w)
         /\ Opened(d, n)' = Opened(d, n)
<1>1. kind' = kind /\ entry' = entry
  BY DEF tree
<1>2. Matching(d, n)' = Matching(d, n)
  BY <1>1 DEF Matching
<1>3. EntryOf(d, n)' = EntryOf(d, n)
  BY <1>1, <1>2 DEF EntryOf
<1>4. Target(EntryOf(d, n))' = Target(EntryOf(d, n))
  BY <1>1, <1>3 DEF Target
<1> QED BY <1>1, <1>2, <1>4 DEF CanEnter, Entered, CanOpen, Opened

\* ... and paths lead where they led.
LEMMA SameTrails ==
  ASSUME UNCHANGED tree
  PROVE  /\ \A tr, p : Trail(tr, p)' <=> Trail(tr, p)
         /\ \A p, d : Leads(p, d)' <=> Leads(p, d)
<1>1. \A tr, p : Trail(tr, p)' <=> Trail(tr, p)
  BY SameLookups DEF Trail
<1> QED BY <1>1, SameLookups DEF Leads

-----------------------------------------------------------------------------
(* The inductive invariant, beside Ind.                                    *)

\* With -s, one thread at a time has a frame that is not idle.
OneServed ==
  \A t, u \in Threads : call[t].pc # "idle" /\ call[u].pc # "idle" => t = u

\* No directory has two names that differ in case only.
FoldUnique ==
  \A d \in Sectors, m, n \in Names :
    entry[d][m] # NoSector /\ entry[d][n] # NoSector /\ Fold[m] = Fold[n] => m = n

\* A frame that walks to a directory has some names of the path behind it and
\* the others before it, and stands where every trail of the path passes. That
\* the path has a trail at all is known where a failed walk is not ignored.
OnTrack(f) ==
  f.pc = "enter" =>
    \E k \in 0..Len(Bound(f)) :
      /\ Len(f.todo) = Len(Bound(f)) - k
      /\ \A i \in 1..Len(f.todo) : f.todo[i] = Bound(f)[k + i]
      /\ \A tr : Trail(tr, Bound(f)) => tr[k] = curDir
      /\ f.op \notin Lookups => Leads(SubSeq(Bound(f), 1, k), curDir)

\* cwd and the current directory agree in frame f (CwdAgrees).
CwdOK(f) ==
  /\ f.op \notin EntryOps /\ Sought(f) # <<>>
  /\ \/ f.pc \in Walking
     \/ f.pc = "done" /\ f.op \in FileOps \cup {"chmod", "readlink"}
  => Leads(cwd, curDir)

\* The file of frame f is the one its path names (RightFile).
FileOK(f) ==
  f.op \in FileOps /\ f.type = "file" =>
    \E d \in Sectors : /\ Leads(Dirname(f.path), d)
                       /\ CanOpen(d, Basename(f.path), f.op \in Writers)
                       /\ f.node = Opened(d, Basename(f.path))

\* A rename under way is for paths whose directories exist, and those it has
\* found are the ones its paths name.
RenameOK(f) ==
  f.op = "rename" /\ f.pc \in Walking =>
    /\ KernelChecked => IsDir(Dirname(f.path)) /\ IsDir(Dirname(f.to))
    /\ KernelChecked /\ f.base # NoSector => Leads(Dirname(f.path), f.base)
    /\ KernelChecked /\ f.pc = "back" /\ f.type \in {"dir", "ldir"} =>
         Leads(Sought(f), ParentSector(f))

\* Only getattr counts the entries of a directory.
CountOK(f) == f.pc \in {"into", "out"} => f.op = "getattr"

FramePaths(f) == OnTrack(f) /\ CwdOK(f) /\ FileOK(f) /\ RenameOK(f) /\ CountOK(f)

PathInd ==
  /\ OneServed /\ FoldUnique
  /\ \A t \in Threads : \A f \in {call[t]} : FramePaths(f)

-----------------------------------------------------------------------------
(* Facts about frames.                                                     *)

\* dirname of any path is a path.
LEMMA DirnameSeq ==
  ASSUME NEW p \in Seq(Names)
  PROVE  Dirname(p) \in Seq(Names)
<1>1. \A i \in 1..Len(p) - 1 : p[i] \in Names /\ Len(p) - 1 \in Int
  OBVIOUS
<1> QED BY <1>1, SubSeqProperties DEF Dirname, Front

\* The directory a frame is bound for is a path.
LEMMA BoundSeq ==
  ASSUME NEW f \in Frames
  PROVE  Sought(f) \in Seq(Names) /\ Bound(f) \in Seq(Names)
<1>1. f.path \in Seq(Names) /\ f.to \in Seq(Names)
  BY DEF Frames
<1>2. Sought(f) \in Seq(Names)
  BY <1>1, DirnameSeq DEF Sought
<1> QED BY <1>1, <1>2, DirnameSeq DEF Bound

\* While thread t acts, no other thread is served.
LEMMA OthersIdle ==
  ASSUME SingleThreaded, Ind, OneServed, NEW t \in Threads, Begin(t) \/ Handler(t)
  PROVE  \A u \in Threads : u # t => call[u] = Idle
<1>1. CASE Begin(t)
  <2>1. MayBegin(t)
    BY <1>1 DEF Begin, GetattrRoot, Getattr, FileOp, Readdir, EntryOp, Chmod, Rename
  <2> QED BY <2>1 DEF MayBegin, Ind, FramesOK, FrameOK
<1>2. CASE Handler(t)
  <2>1. call[t].pc # "idle"
    BY <1>2 DEF Handler, Arrived, Walking, ChangeDir, ChdirFails, ChdirIgnored,
       OpenFile, OpenFails, ReadLink, Restored, ListDir, MakeDir, CreateFile, RemoveIt,
       Find, StatEntry, StatDir, CountEntries, Counted, SetPerm, NoParent, SourceFound,
       RenameIt, Reply
  <2> QED BY <2>1 DEF OneServed, Ind, FramesOK, FrameOK
<1> QED BY <1>1, <1>2

\* A frame that is gone says nothing of paths.
LEMMA IdlePaths == FramePaths(Idle)'
BY DEF FramePaths, OnTrack, CwdOK, FileOK, RenameOK, CountOK, Idle, Request,
       Walking, FileOps

\* When thread t alone acts, it is enough to look at its new frame.
LEMMA OneMoves ==
  ASSUME Ind, NEW t \in Threads, \A u \in Threads : u # t => call[u] = Idle,
         NEW g, Set(t, g), FramePaths(g)', FoldUnique'
  PROVE  PathInd'
<1>1. call' = [call EXCEPT ![t] = g] /\ call = [u \in Threads |-> call[u]]
  BY DEF Set, Ind, FramesOK
<1>2. call'[t] = g /\ \A u \in Threads : u # t => call'[u] = Idle
  BY <1>1
<1>3. OneServed'
  BY <1>2 DEF OneServed, Idle, Request
<1>4. \A u \in Threads : \A f \in {call'[u]} : FramePaths(f)'
  <2>1. ASSUME NEW u \in Threads, NEW f, f = call'[u]
        PROVE  FramePaths(f)'
    <3>1. CASE u = t BY <1>2, <2>1, <3>1
    <3>2. CASE u # t BY <1>2, <2>1, <3>2, IdlePaths
    <3> QED BY <3>1, <3>2
  <2> QED BY <2>1
<1> QED BY <1>3, <1>4 DEF PathInd

\* Names that differ in case only do not appear in a tree that stays.
LEMMA SameFold == FoldUnique /\ UNCHANGED tree => FoldUnique'
BY DEF FoldUnique, tree

-----------------------------------------------------------------------------
(* The steps that say little of paths.                                     *)

\* A step that leaves the tree alone.
LEMMA QuietPaths ==
  ASSUME SingleThreaded, Ind, PathInd, NEW t \in Threads, Begin(t) \/ Handler(t),
         NEW g, Set(t, g), FramePaths(g)', UNCHANGED tree
  PROVE  PathInd'
<1>1. \A u \in Threads : u # t => call[u] = Idle
  BY OthersIdle DEF PathInd
<1>2. FoldUnique'
  BY SameFold DEF PathInd
<1> QED BY <1>1, <1>2, OneMoves

\* A handler that returns, and whose cwd need not be right.
LEMMA DonePaths ==
  ASSUME NEW g, g.pc = "done", g.op \notin FileOps \cup {"chmod", "readlink"}
  PROVE  FramePaths(g)'
BY DEF FramePaths, OnTrack, CwdOK, FileOK, RenameOK, CountOK, Walking

\* While the tree is left alone, the file found stays the right one.
LEMMA FileStays ==
  ASSUME UNCHANGED tree, NEW f, NEW g, FileOK(f),
         g.op = f.op, g.path = f.path, g.node = f.node, g.type = f.type
  PROVE  FileOK(g)'
<1> SUFFICES ASSUME f.op \in FileOps, f.type = "file"
             PROVE  \E d \in Sectors :
                      /\ Leads(Dirname(f.path), d)'
                      /\ CanOpen(d, Basename(f.path), f.op \in Writers)'
                      /\ f.node = Opened(d, Basename(f.path))'
  BY DEF FileOK
<1>1. PICK d \in Sectors : /\ Leads(Dirname(f.path), d)
                           /\ CanOpen(d, Basename(f.path), f.op \in Writers)
                           /\ f.node = Opened(d, Basename(f.path))
  BY DEF FileOK
<1>2. Leads(Dirname(f.path), d)'
  BY <1>1, SameTrails
<1>3. /\ CanOpen(d, Basename(f.path), f.op \in Writers)'
      /\ f.node = Opened(d, Basename(f.path))'
  BY <1>1, SameLookups
<1> QED BY <1>2, <1>3

\* So do the directories of a rename.
LEMMA RenameStays ==
  ASSUME UNCHANGED tree, NEW f, NEW g, RenameOK(f), f.pc \in Walking,
         g.op = f.op, g.path = f.path, g.to = f.to, g.base = f.base,
         g.pc = "back" => f.pc = "back" /\ g.type = f.type /\ g.node = f.node
  PROVE  RenameOK(g)'
<1>1. Sought(g) = Sought(f)
  BY DEF Sought
<1>2. g.pc = "back" => ParentSector(g) = ParentSector(f)
  BY DEF ParentSector
<1>3. \A p : IsDir(p)' <=> IsDir(p)
  BY SameTrails DEF IsDir
<1> QED BY <1>1, <1>2, <1>3, SameTrails DEF RenameOK

\* cwd and the current directory agree as long as everything stays.
LEMMA AgreeStays ==
  ASSUME UNCHANGED tree, StayHere, Leads(cwd, curDir)
  PROVE  Leads(cwd, curDir)'
<1>1. PICK p, d : p = cwd /\ d = curDir
  OBVIOUS
<1>2. cwd' = p /\ curDir' = d /\ Leads(p, d)'
  BY <1>1, SameTrails DEF StayHere
<1> QED BY <1>2

\* They agree at the start of a walk by an absolute path.
LEMMA AgreeAtRoot ==
  ASSUME ChdirFromRoot
  PROVE  Leads(cwd, curDir)'
<1>1. Leads(<<>>, Root)'
  BY LeadsRoot, PTL
<1> QED BY <1>1 DEF ChdirFromRoot

\* A handler that returns from where it is, or by the root when nobody reads
\* cwd after it.
LEMMA FinishPaths ==
  ASSUME SingleThreaded, Ind, PathInd, NEW t \in Threads, Begin(t) \/ Handler(t),
         call[t].pc \in Walking, NEW status, Finish(t, call[t], status), UNCHANGED tree,
         StayHere \/ call[t].op \notin FileOps \cup {"chmod", "readlink"}
  PROVE  PathInd'
<1>1. PICK f : f = call[t]
  OBVIOUS
<1>2. PICK g : g = [f EXCEPT !.pc = "done", !.todo = <<>>, !.status = status]
  OBVIOUS
<1>3. Set(t, g)
  BY <1>1, <1>2 DEF Finish
<1>4. FramePaths(f) /\ f \in Frames
  BY <1>1 DEF PathInd, Ind, FramesOK, FrameOK
<1>5. /\ g.op = f.op /\ g.path = f.path /\ g.to = f.to /\ g.base = f.base
      /\ g.node = f.node /\ g.type = f.type /\ g.pc = "done"
  BY <1>2, <1>4 DEF Frames
<1>6. FileOK(g)'
  BY <1>4, <1>5, FileStays DEF FramePaths
<1>7. CwdOK(g)'
  <2>1. Sought(g) = Sought(f)
    BY <1>5 DEF Sought
  <2>2. CASE f.op \notin FileOps \cup {"chmod", "readlink"}
    BY <1>5, <2>2 DEF CwdOK, Walking
  <2>3. CASE StayHere
    <3>1. CwdOK(f)
      BY <1>4 DEF FramePaths
    <3>2. f.op \notin EntryOps /\ Sought(f) # <<>> => Leads(cwd, curDir)
      BY <1>1, <3>1 DEF CwdOK
    <3>3. Leads(cwd, curDir) => Leads(cwd, curDir)'
      BY <2>3, AgreeStays
    <3> QED BY <1>5, <2>1, <3>2, <3>3 DEF CwdOK
  <2> QED BY <1>1, <2>2, <2>3
<1>8. OnTrack(g)' /\ RenameOK(g)' /\ CountOK(g)'
  BY <1>5 DEF OnTrack, RenameOK, CountOK, Walking
<1> QED BY <1>3, <1>6, <1>7, <1>8, QuietPaths DEF FramePaths

-----------------------------------------------------------------------------
(* A walk begins.                                                          *)

\* It begins at the root, with the whole path ahead.
LEMMA StartOnTrack ==
  ASSUME NEW g, Bound(g) \in Seq(Names), g.todo = Bound(g),
         UNCHANGED tree, curDir' = Root
  PROVE  OnTrack(g)'
<1>1. PICK b : b = Bound(g)
  OBVIOUS
<1>2. Len(b) \in Nat /\ b = Bound(g)'
  BY <1>1 DEF Bound, Sought
<1>3. SubSeq(b, 1, 0) = <<>>
  BY <1>1, SubSeqProperties
<1>4. Leads(<<>>, Root)'
  BY LeadsRoot, PTL
<1>5. \A tr : Trail(tr, b)' => tr[0] = Root
  BY DEF Trail
<1>6. /\ Len(g.todo) = Len(b) - 0
      /\ \A i \in 1..Len(g.todo) : g.todo[i] = b[0 + i]
  BY <1>1, <1>2
<1>7. 0 \in 0..Len(b)
  BY <1>2
<1>8. \E k \in 0..Len(b) :
        /\ Len(g.todo) = Len(b) - k
        /\ \A i \in 1..Len(g.todo) : g.todo[i] = b[k + i]
        /\ \A tr : Trail(tr, b)' => tr[k] = curDir'
        /\ g.op \notin Lookups => Leads(SubSeq(b, 1, k), Root)'
  BY <1>3, <1>4, <1>5, <1>6, <1>7
<1> QED BY <1>2, <1>8 DEF OnTrack

\* A walk that begins, on behalf of a request that has found nothing yet.
LEMMA StartPaths ==
  ASSUME SingleThreaded, Ind, PathInd, NEW t \in Threads, Begin(t) \/ Handler(t),
         NEW g, Set(t, g), UNCHANGED tree,
         g.pc = "enter", Bound(g) \in Seq(Names), g.todo = Bound(g),
         g.type # "file" \/ g.op \notin FileOps,
         ChdirFromRoot \/ (ToRootDir /\ g.op \in EntryOps), RenameOK(g)'
  PROVE  PathInd'
<1>1. OnTrack(g)'
  BY StartOnTrack DEF ChdirFromRoot, ToRootDir
<1>2. CwdOK(g)'
  BY AgreeAtRoot DEF CwdOK
<1>3. FileOK(g)' /\ CountOK(g)'
  BY DEF FileOK, CountOK
<1> QED BY <1>1, <1>2, <1>3, QuietPaths DEF FramePaths

\* adfimage_getdentry begins.
LEMMA LookupPaths ==
  ASSUME SingleThreaded, Ind, PathInd, NEW t \in Threads, Begin(t) \/ Handler(t),
         NEW f \in Frames, NEW p \in Seq(Names), p = Sought(f), f.op \in Lookups,
         BeginLookup(t, f, p), UNCHANGED tree,
         f.op = "rename" =>
           /\ KernelChecked => IsDir(Dirname(f.path)) /\ IsDir(Dirname(f.to))
           /\ KernelChecked /\ f.base # NoSector => Leads(Dirname(f.path), f.base)
  PROVE  PathInd'
<1>1. \A q : IsDir(q)' <=> IsDir(q)
  BY SameTrails DEF IsDir
<1>2. f.op \notin FileOps /\ f.op \notin EntryOps /\ f.op # "readdir"
  BY DEF Lookups, FileOps, EntryOps
<1>3. CASE p = <<>>
  <2>1. PICK g : g = [f EXCEPT !.pc = "back", !.todo = <<>>, !.node = Root, !.type = "dir"]
    OBVIOUS
  <2>2. Set(t, g) /\ StayHere
    BY <1>3, <2>1 DEF BeginLookup
  <2>3. /\ g.op = f.op /\ g.path = f.path /\ g.to = f.to /\ g.base = f.base
        /\ g.pc = "back" /\ g.node = Root /\ g.type = "dir"
    BY <2>1 DEF Frames
  <2>4. Sought(g) = p /\ ParentSector(g) = Root
    BY <2>3 DEF Sought, ParentSector
  <2>5. Leads(<<>>, Root)'
    BY LeadsRoot, PTL
  <2>6. RenameOK(g)'
    BY <1>1, <1>3, <2>3, <2>4, <2>5, SameTrails DEF RenameOK
  <2>7. OnTrack(g)' /\ CwdOK(g)' /\ FileOK(g)' /\ CountOK(g)'
    BY <1>2, <1>3, <2>3, <2>4 DEF OnTrack, CwdOK, FileOK, CountOK
  <2> QED BY <2>2, <2>6, <2>7, QuietPaths DEF FramePaths
<1>4. CASE p # <<>>
  <2>1. PICK g : g = [f EXCEPT !.pc = "enter", !.todo = Dirname(p), !.saved = cwd]
    OBVIOUS
  <2>2. Set(t, g) /\ ChdirFromRoot
    BY <1>4, <2>1 DEF BeginLookup
  <2>3. /\ g.op = f.op /\ g.path = f.path /\ g.to = f.to /\ g.base = f.base
        /\ g.pc = "enter" /\ g.todo = Dirname(p)
    BY <2>1 DEF Frames
  <2>4. Sought(g) = p
    BY <2>3 DEF Sought
  <2>5. RenameOK(g)'
    BY <1>1, <2>3, SameTrails DEF RenameOK
  <2>6. Bound(g) = Dirname(p) /\ Dirname(p) \in Seq(Names)
    BY <1>2, <2>3, <2>4, DirnameSeq DEF Bound
  <2>7. g.op \notin FileOps /\ Bound(g) \in Seq(Names) /\ g.todo = Bound(g)
    BY <1>2, <2>3, <2>6
  <2> QED BY <2>2, <2>3, <2>5, <2>7, StartPaths
<1> QED BY <1>3, <1>4


\* FUSE hands a thread a request.
LEMMA BeginPaths ==
  ASSUME SingleThreaded, Ind, PathInd, NEW t \in Threads, Begin(t)
  PROVE  PathInd'
<1> USE AdffsAssumption
<1>1. CASE GetattrRoot(t)
  <2>1. PICK g : g = [[Request("getattr", <<>>, <<>>) EXCEPT
                         !.node = Root, !.type = "dir",
                         !.base = curDir, !.size = Cardinality(DirEnt(curDir))]
                      EXCEPT !.pc = "done", !.todo = <<>>, !.status = "ok"]
    OBVIOUS
  <2>2. Set(t, g) /\ UNCHANGED tree
    BY <1>1, <2>1 DEF GetattrRoot, Finish
  <2>3. g.pc = "done" /\ g.op \notin FileOps \cup {"chmod", "readlink"}
    BY <2>1 DEF Request, FileOps
  <2> QED BY <2>2, <2>3, DonePaths, QuietPaths
<1>2. ASSUME NEW op \in FileOps \cup EntryOps \cup {"readlink", "getattr"},
             NEW p \in Paths, NEW g, Set(t, g), UNCHANGED tree,
             ChdirFromRoot \/ (ToRootDir /\ op \in EntryOps),
             g.op = op, g.path = p, g.pc = "enter", g.todo = Dirname(p), g.type = "free"
      PROVE  PathInd'
  <2>1. op # "rename" /\ op # "readdir"
    BY DEF FileOps, EntryOps
  <2>2. Bound(g) = Dirname(p) /\ Bound(g) \in Seq(Names)
    BY <1>2, <2>1, DirnameSeq DEF Bound, Sought
  <2>3. RenameOK(g)'
    BY <1>2, <2>1 DEF RenameOK
  <2> QED BY <1>2, <2>2, <2>3, StartPaths
<1>3. CASE Getattr(t)
  <2>1. PICK p \in Paths \ {<<>>} :
          Set(t, [Request("getattr", p, <<>>) EXCEPT !.pc = "enter", !.todo = Dirname(p)])
    BY <1>3 DEF Getattr
  <2>2. PICK g : g = [Request("getattr", p, <<>>) EXCEPT !.pc = "enter", !.todo = Dirname(p)]
    OBVIOUS
  <2>3. /\ g.op = "getattr" /\ g.path = p /\ g.pc = "enter" /\ g.todo = Dirname(p)
        /\ g.type = "free"
    BY <2>2 DEF Request
  <2>4. ChdirFromRoot /\ UNCHANGED tree
    BY <1>3 DEF Getattr
  <2> QED BY <1>2, <2>1, <2>2, <2>3, <2>4
<1>4. CASE FileOp(t)
  <2>1. PICK op \in FileOps \cup {"readlink"}, p \in Paths \ {<<>>} :
          Set(t, [Request(op, p, <<>>) EXCEPT
                    !.pc = "enter", !.todo = Dirname(p), !.saved = cwd])
    BY <1>4 DEF FileOp
  <2>2. PICK g : g = [Request(op, p, <<>>) EXCEPT
                        !.pc = "enter", !.todo = Dirname(p), !.saved = cwd]
    OBVIOUS
  <2>3. /\ g.op = op /\ g.path = p /\ g.pc = "enter" /\ g.todo = Dirname(p)
        /\ g.type = "free"
    BY <2>2 DEF Request
  <2>4. ChdirFromRoot /\ UNCHANGED tree
    BY <1>4 DEF FileOp
  <2> QED BY <1>2, <2>1, <2>2, <2>3, <2>4
<1>5. CASE EntryOp(t)
  <2>1. PICK op \in EntryOps, p \in Paths \ {<<>>} :
          Set(t, [Request(op, p, <<>>) EXCEPT !.pc = "enter", !.todo = Dirname(p)])
    BY <1>5 DEF EntryOp
  <2>2. PICK g : g = [Request(op, p, <<>>) EXCEPT !.pc = "enter", !.todo = Dirname(p)]
    OBVIOUS
  <2>3. /\ g.op = op /\ g.path = p /\ g.pc = "enter" /\ g.todo = Dirname(p)
        /\ g.type = "free"
    BY <2>2 DEF Request
  <2>4. ToRootDir /\ UNCHANGED tree
    BY <1>5 DEF EntryOp
  <2> QED BY <1>2, <2>1, <2>2, <2>3, <2>4
<1>6. CASE Readdir(t)
  <2>1. PICK p \in Paths :
          Set(t, [Request("readdir", p, <<>>) EXCEPT !.pc = "enter", !.todo = p])
    BY <1>6 DEF Readdir
  <2>2. PICK g : g = [Request("readdir", p, <<>>) EXCEPT !.pc = "enter", !.todo = p]
    OBVIOUS
  <2>3. /\ g.op = "readdir" /\ g.path = p /\ g.pc = "enter" /\ g.todo = p
        /\ g.type = "free"
    BY <2>2 DEF Request
  <2>4. Bound(g) = p /\ Bound(g) \in Seq(Names)
    BY <2>3 DEF Bound
  <2>5. RenameOK(g)'
    BY <2>3 DEF RenameOK
  <2>6. ChdirFromRoot /\ UNCHANGED tree
    BY <1>6 DEF Readdir
  <2> QED BY <2>1, <2>2, <2>3, <2>4, <2>5, <2>6, StartPaths
<1>7. CASE Chmod(t)
  <2>1. PICK p \in Paths : BeginLookup(t, Request("chmod", p, <<>>), p)
    BY <1>7 DEF Chmod
  <2>2. PICK f : f = Request("chmod", p, <<>>)
    OBVIOUS
  <2>3. f \in Frames
    <3>1. "chmod" \in Ops /\ <<>> \in Seq(Names)
      BY DEF Ops, Lookups
    <3> QED BY <2>2, <3>1, NewRequest
  <2>4. f.op = "chmod" /\ f.op \in Lookups /\ p = Sought(f)
    BY <2>2 DEF Request, Sought, Lookups
  <2>5. UNCHANGED tree
    BY <1>7 DEF Chmod
  <2> QED BY <2>1, <2>2, <2>3, <2>4, <2>5, LookupPaths
<1>8. CASE Rename(t)
  <2>1. PICK r \in Renames :
          /\ KernelChecked => IsDir(Dirname(r[1])) /\ IsDir(Dirname(r[2]))
          /\ BeginLookup(t, Request("rename", r[1], r[2]), Dirname(r[1]))
    BY <1>8 DEF Rename
  <2>2. r[1] \in Seq(Names) /\ r[2] \in Seq(Names)
    OBVIOUS
  <2>3. PICK f : f = Request("rename", r[1], r[2])
    OBVIOUS
  <2>4. f \in Frames
    <3>1. "rename" \in Ops
      BY DEF Ops, Lookups
    <3> QED BY <2>2, <2>3, <3>1, NewRequest
  <2>5. /\ f.op = "rename" /\ f.op \in Lookups /\ f.path = r[1] /\ f.to = r[2]
        /\ f.base = NoSector
    BY <2>3 DEF Request, Lookups
  <2>6. Dirname(r[1]) = Sought(f) /\ Dirname(r[1]) \in Seq(Names)
    BY <2>2, <2>5, DirnameSeq DEF Sought
  <2>7. UNCHANGED tree
    BY <1>8 DEF Rename
  <2> QED BY <2>1, <2>3, <2>4, <2>5, <2>6, <2>7, LookupPaths
<1> QED BY <1>1, <1>3, <1>4, <1>5, <1>6, <1>7, <1>8 DEF Begin


-----------------------------------------------------------------------------
(* The loop of adfimage_chdir.                                             *)

\* The first k + 1 names of a path.
LEMMA OneMore ==
  ASSUME NEW p \in Seq(Names), NEW k \in 0..Len(p), k # Len(p)
  PROVE  /\ SubSeq(p, 1, k) \in Seq(Names)
         /\ SubSeq(p, 1, k + 1) = Append(SubSeq(p, 1, k), p[k + 1])
<1>1. Len(p) \in Nat /\ k \in Nat /\ k + 1 \in 1..Len(p) /\ k + 1 - 1 = k
      /\ 1..k \subseteq 1..Len(p)
  OBVIOUS
<1>2. \A i \in 1..k : p[i] \in Names
  BY <1>1
<1>3. SubSeq(p, 1, k) \in Seq(Names)
  BY <1>1, <1>2, SubSeqProperties
<1> QED BY <1>1, <1>3, SubSeqRecursiveSecond

\* One name on, the walk is still on the track of its path.
LEMMA StepOnTrack ==
  ASSUME Ind, NEW f \in Frames, OnTrack(f), f.pc = "enter", f.todo # <<>>,
         CanEnter(curDir, Head(f.todo)), curDir' = Entered(curDir, Head(f.todo)),
         UNCHANGED tree, NEW g, g.op = f.op, g.todo = Tail(f.todo), Bound(g) = Bound(f)
  PROVE  OnTrack(g)'
<1>1. PICK b : b = Bound(f)
  OBVIOUS
<1>2. PICK todo : todo = f.todo
  OBVIOUS
<1>3. b \in Seq(Names) /\ Len(b) \in Nat /\ todo \in Seq(Names) /\ Len(todo) \in Nat
  BY <1>1, <1>2, BoundSeq DEF Frames
<1>4. PICK k \in 0..Len(b) :
        /\ Len(todo) = Len(b) - k
        /\ \A i \in 1..Len(todo) : todo[i] = b[k + i]
        /\ \A tr : Trail(tr, b) => tr[k] = curDir
        /\ f.op \notin Lookups => Leads(SubSeq(b, 1, k), curDir)
  BY <1>1, <1>2 DEF OnTrack
<1>5. PICK n : n = Head(todo)
  OBVIOUS
<1>6. /\ Len(todo) > 0 /\ n = todo[1] /\ n \in Names
      /\ Len(Tail(todo)) = Len(todo) - 1
      /\ \A i \in 1..Len(Tail(todo)) : Tail(todo)[i] = todo[i + 1]
  BY <1>2, <1>3, <1>5
<1>7. k \in Nat /\ k # Len(b) /\ k + 1 \in 0..Len(b) /\ k + 1 \in 1..Len(b)
  BY <1>3, <1>4, <1>6
<1>8. n = b[k + 1]
  BY <1>4, <1>6, <1>3
<1>9. /\ Len(Tail(todo)) = Len(b) - (k + 1)
      /\ \A i \in 1..Len(Tail(todo)) : Tail(todo)[i] = b[(k + 1) + i]
  <2>1. Len(Tail(todo)) = Len(b) - (k + 1)
    BY <1>3, <1>4, <1>6, <1>7
  <2>2. ASSUME NEW i \in 1..Len(Tail(todo))
        PROVE  Tail(todo)[i] = b[(k + 1) + i]
    <3>1. i + 1 \in 1..Len(todo) /\ k + (i + 1) = (k + 1) + i
      BY <1>3, <1>6, <1>7
    <3>2. todo[i + 1] = b[k + (i + 1)]
      BY <1>4, <3>1
    <3> QED BY <1>6, <3>1, <3>2
  <2> QED BY <2>1, <2>2
<1>10. PICK d : d = curDir
  OBVIOUS
<1>11. d \in Sectors /\ TreeTypeOK /\ CanEnter(d, n) /\ curDir' = Entered(d, n)
  BY <1>2, <1>5, <1>10 DEF Ind, Places
<1>12. PICK e : e = Entered(d, n)
  OBVIOUS
<1>13. ASSUME NEW tr, Trail(tr, b)'
       PROVE  tr[k + 1] = e
  <2>1. Trail(tr, b)
    BY <1>13, SameTrails
  <2>2. tr[k + 1] = Entered(tr[(k + 1) - 1], b[k + 1]) /\ (k + 1) - 1 = k
    BY <1>7, <2>1 DEF Trail
  <2>3. tr[k] = d
    BY <1>4, <1>10, <2>1
  <2> QED BY <1>8, <1>12, <2>2, <2>3
<1>14. ASSUME f.op \notin Lookups
       PROVE  Leads(SubSeq(b, 1, k + 1), e)'
  <2>1. PICK q : q = SubSeq(b, 1, k)
    OBVIOUS
  <2>2. q \in Seq(Names) /\ SubSeq(b, 1, k + 1) = Append(q, n)
    BY <1>3, <1>7, <1>8, <2>1, OneMore
  <2>3. Leads(q, d)
    BY <1>4, <1>10, <1>14, <2>1
  <2>4. Leads(Append(q, n), e)
    BY <1>6, <1>11, <1>12, <2>2, <2>3, LeadsOn
  <2> QED BY <2>2, <2>4, SameTrails
<1>15. b = Bound(g)' /\ g.todo = Tail(todo) /\ curDir' = e
  BY <1>1, <1>2, <1>11, <1>12 DEF Bound, Sought
<1>16. \E j \in 0..Len(b) :
         /\ Len(g.todo) = Len(b) - j
         /\ \A i \in 1..Len(g.todo) : g.todo[i] = b[j + i]
         /\ \A tr : Trail(tr, b)' => tr[j] = curDir'
         /\ g.op \notin Lookups => Leads(SubSeq(b, 1, j), e)'
  BY <1>7, <1>9, <1>13, <1>14, <1>15
<1> QED BY <1>15, <1>16 DEF OnTrack


\* adfChangeDir succeeds.
LEMMA ChangeDirPaths ==
  ASSUME SingleThreaded, Ind, PathInd, NEW t \in Threads, ChangeDir(t)
  PROVE  PathInd'
<1>1. PICK f : f = call[t]
  OBVIOUS
<1>2. PICK n : n = Head(f.todo)
  OBVIOUS
<1>3. PICK g : g = [f EXCEPT !.todo = Tail(f.todo)]
  OBVIOUS
<1>4. /\ f.pc \in Walking /\ f.todo # <<>> /\ CanEnter(curDir, n)
      /\ curDir' = Entered(curDir, n) /\ cwd' = Append(cwd, n)
      /\ Set(t, g) /\ UNCHANGED tree
  BY <1>1, <1>2, <1>3 DEF ChangeDir
<1>5. FramePaths(f) /\ f \in Frames /\ Handler(t)
  BY <1>1 DEF PathInd, Ind, FramesOK, FrameOK, Handler
<1>6. /\ g.op = f.op /\ g.path = f.path /\ g.to = f.to /\ g.base = f.base
      /\ g.node = f.node /\ g.type = f.type /\ g.pc = f.pc /\ g.todo = Tail(f.todo)
  BY <1>3, <1>5 DEF Frames
<1>7. Sought(g) = Sought(f) /\ Bound(g) = Bound(f)
  BY <1>6 DEF Sought, Bound
<1>8. OnTrack(g)'
  <2>1. CASE f.pc = "enter"
    BY <1>2, <1>4, <1>5, <1>6, <1>7, <2>1, StepOnTrack DEF FramePaths
  <2>2. CASE f.pc # "enter"
    BY <1>6, <2>2 DEF OnTrack
  <2> QED BY <2>1, <2>2
<1>9. CwdOK(g)'
  <2>1. SUFFICES ASSUME f.op \notin EntryOps, Sought(f) # <<>>
                 PROVE  Leads(cwd, curDir)'
    BY <1>6, <1>7 DEF CwdOK
  <2>2. CwdOK(f)
    BY <1>5 DEF FramePaths
  <2>3. PICK p, d, e : p = cwd /\ d = curDir /\ e = Entered(d, n)
    OBVIOUS
  <2>4. Leads(p, d)
    BY <1>4, <2>1, <2>2, <2>3 DEF CwdOK
  <2>5. p \in Seq(Names) /\ d \in Sectors /\ TreeTypeOK /\ n \in Names
    BY <1>2, <1>4, <1>5, <2>3 DEF Ind, Places, Frames
  <2>6. Leads(Append(p, n), e)
    BY <1>4, <2>3, <2>4, <2>5, LeadsOn
  <2>7. Leads(Append(p, n), e)' /\ cwd' = Append(p, n) /\ curDir' = e
    BY <1>4, <2>3, <2>6, SameTrails
  <2> QED BY <2>7
<1>10. FileOK(g)'
  BY <1>4, <1>5, <1>6, FileStays DEF FramePaths
<1>11. RenameOK(g)'
  BY <1>4, <1>5, <1>6, RenameStays DEF FramePaths
<1>12. CountOK(g)'
  BY <1>5, <1>6 DEF FramePaths, CountOK
<1> QED BY <1>4, <1>5, <1>8, <1>9, <1>10, <1>11, <1>12, QuietPaths DEF FramePaths

\* adfChangeDir fails, and nobody cares: where the path has no such directory,
\* there is nothing to be on the track of.
LEMMA IgnoredPaths ==
  ASSUME SingleThreaded, Ind, PathInd, NEW t \in Threads, ChdirIgnored(t)
  PROVE  PathInd'
<1>1. PICK f : f = call[t]
  OBVIOUS
<1>2. PICK g : g = [f EXCEPT !.todo = <<>>]
  OBVIOUS
<1>3. /\ f.pc \in Walking /\ f.todo # <<>> /\ ~CanEnter(curDir, Head(f.todo))
      /\ f.pc = "enter" => f.op \in Lookups
      /\ StayHere /\ Set(t, g) /\ UNCHANGED tree
  BY <1>1, <1>2 DEF ChdirIgnored
<1>4. FramePaths(f) /\ f \in Frames /\ Handler(t)
  BY <1>1 DEF PathInd, Ind, FramesOK, FrameOK, Handler
<1>5. /\ g.op = f.op /\ g.path = f.path /\ g.to = f.to /\ g.base = f.base
      /\ g.node = f.node /\ g.type = f.type /\ g.pc = f.pc /\ g.todo = <<>>
  BY <1>2, <1>4 DEF Frames
<1>6. Sought(g) = Sought(f) /\ Bound(g) = Bound(f)
  BY <1>5 DEF Sought, Bound
<1>7. OnTrack(g)'
  <2>1. SUFFICES ASSUME f.pc = "enter"
                 PROVE  OnTrack(g)'
    BY <1>5 DEF OnTrack
  <2>2. PICK b : b = Bound(f)
    OBVIOUS
  <2>3. b \in Seq(Names) /\ Len(b) \in Nat /\ f.todo \in Seq(Names)
    BY <1>4, <2>2, BoundSeq DEF Frames
  <2>4. PICK k \in 0..Len(b) :
          /\ Len(f.todo) = Len(b) - k
          /\ \A i \in 1..Len(f.todo) : f.todo[i] = b[k + i]
          /\ \A tr : Trail(tr, b) => tr[k] = curDir
    BY <1>4, <2>1, <2>2 DEF FramePaths, OnTrack
  <2>5. /\ Len(f.todo) > 0 /\ Head(f.todo) = f.todo[1] /\ 1 \in 1..Len(f.todo)
    BY <1>3, <2>3
  <2>6. k \in Nat /\ k + 1 \in 1..Len(b) /\ (k + 1) - 1 = k /\ Head(f.todo) = b[k + 1]
    BY <2>3, <2>4, <2>5
  <2>7. ASSUME NEW tr, Trail(tr, b)'
        PROVE  FALSE
    <3>1. Trail(tr, b)
      BY <1>3, <2>7, SameTrails
    <3>2. CanEnter(tr[(k + 1) - 1], b[k + 1])
      BY <2>6, <3>1 DEF Trail
    <3> QED BY <1>3, <2>4, <2>6, <3>1, <3>2
  <2>8. /\ Len(b) \in 0..Len(b) /\ Len(g.todo) = Len(b) - Len(b)
        /\ \A i \in 1..Len(g.todo) : g.todo[i] = b[Len(b) + i]
    BY <1>5, <2>3
  <2>9. b = Bound(g)' /\ g.op \in Lookups
    BY <1>3, <1>5, <2>1, <2>2 DEF Bound, Sought
  <2> QED BY <2>7, <2>8, <2>9 DEF OnTrack
<1>8. CwdOK(g)'
  <2>1. SUFFICES ASSUME f.op \notin EntryOps, Sought(f) # <<>>
                 PROVE  Leads(cwd, curDir)'
    BY <1>5, <1>6 DEF CwdOK
  <2>2. Leads(cwd, curDir)
    BY <1>3, <1>4, <2>1 DEF CwdOK, FramePaths
  <2> QED BY <1>3, <2>2, AgreeStays
<1>9. FileOK(g)'
  BY <1>3, <1>4, <1>5, FileStays DEF FramePaths
<1>10. RenameOK(g)'
  BY <1>3, <1>4, <1>5, RenameStays DEF FramePaths
<1>11. CountOK(g)'
  BY <1>4, <1>5 DEF FramePaths, CountOK
<1> QED BY <1>3, <1>4, <1>7, <1>8, <1>9, <1>10, <1>11, QuietPaths DEF FramePaths


-----------------------------------------------------------------------------
(* At the end of a walk.                                                   *)

\* A walk that has entered everything is where its path leads.
LEMMA WalkEnds ==
  ASSUME NEW f \in Frames, OnTrack(f), Arrived(f, "enter")
  PROVE  /\ \A tr : Trail(tr, Bound(f)) => tr[Len(Bound(f))] = curDir
         /\ f.op \notin Lookups => Leads(Bound(f), curDir)
<1>1. PICK b : b = Bound(f)
  OBVIOUS
<1>2. b \in Seq(Names) /\ Len(b) \in Nat /\ Len(f.todo) = 0
  BY <1>1, BoundSeq DEF Arrived
<1>3. PICK k \in 0..Len(b) :
        /\ Len(f.todo) = Len(b) - k
        /\ \A tr : Trail(tr, b) => tr[k] = curDir
        /\ f.op \notin Lookups => Leads(SubSeq(b, 1, k), curDir)
  BY <1>1 DEF OnTrack, Arrived
<1>4. k = Len(b)
  BY <1>2, <1>3
<1>5. SubSeq(b, 1, Len(b)) = b
  BY <1>2
<1> QED BY <1>1, <1>3, <1>4, <1>5

\* A handler goes on in the working directory, or at the root.
LEMMA GoOnPaths ==
  ASSUME SingleThreaded, Ind, PathInd, NEW t \in Threads, Handler(t),
         NEW g, Set(t, g), UNCHANGED tree, ChdirFromRoot,
         g.pc \in Walking \ {"enter"}, FileOK(g)', RenameOK(g)', CountOK(g)'
  PROVE  PathInd'
<1>1. OnTrack(g)'
  BY DEF OnTrack
<1>2. CwdOK(g)'
  BY AgreeAtRoot DEF CwdOK
<1> QED BY <1>1, <1>2, QuietPaths DEF FramePaths

\* open, read, write, truncate and readlink, and every failed walk.
LEMMA FilePaths ==
  ASSUME SingleThreaded, Ind, PathInd, NEW t \in Threads,
         \/ OpenFile(t) \/ OpenFails(t) \/ ReadLink(t) \/ Restored(t)
         \/ ChdirFails(t)
  PROVE  PathInd'
<1>1. PICK f : f = call[t]
  OBVIOUS
<1>2. FramePaths(f) /\ f \in Frames /\ Handler(t)
  BY <1>1 DEF PathInd, Ind, FramesOK, FrameOK, Handler
<1>3. FileOps \cap (EntryOps \cup Lookups \cup {"readlink", "readdir", "getattr"}) = {}
  BY DEF FileOps, EntryOps, Lookups
<1>4. CASE OpenFile(t)
  <2>1. PICK n : n = Basename(f.path)
    OBVIOUS
  <2>2. PICK g : g = [f EXCEPT !.pc = "back", !.todo = f.saved,
                               !.node = Opened(curDir, n), !.type = "file",
                               !.status = "ok"]
    OBVIOUS
  <2>3. /\ f.op \in FileOps /\ Arrived(f, "enter")
        /\ CanOpen(curDir, n, f.op \in Writers)
        /\ ChdirFromRoot /\ Set(t, g) /\ UNCHANGED tree
    BY <1>1, <1>4, <2>1, <2>2 DEF OpenFile
  <2>4. /\ g.op = f.op /\ g.path = f.path /\ g.pc = "back" /\ g.type = "file"
        /\ g.node = Opened(curDir, n)
    BY <1>2, <2>2 DEF Frames
  <2>5. f.op # "readdir" /\ f.op # "rename" /\ f.op \notin Lookups
    BY <1>3, <2>3 DEF Lookups
  <2>6. Bound(f) = Dirname(f.path)
    BY <2>5 DEF Bound, Sought
  <2>7. PICK d : d = curDir
    OBVIOUS
  <2>8. d \in Sectors /\ Leads(Dirname(f.path), d)
    BY <1>2, <2>3, <2>5, <2>6, <2>7, WalkEnds DEF FramePaths, Ind, Places
  <2>9. /\ Leads(Dirname(g.path), d)' /\ CanOpen(d, n, g.op \in Writers)'
        /\ g.node = Opened(d, n)'
    BY <2>3, <2>4, <2>7, <2>8, SameTrails, SameLookups
  <2>10. FileOK(g)'
    BY <2>1, <2>4, <2>8, <2>9 DEF FileOK
  <2>11. RenameOK(g)' /\ CountOK(g)'
    BY <2>4, <2>5 DEF RenameOK, CountOK
  <2> QED BY <1>2, <2>3, <2>4, <2>10, <2>11, GoOnPaths DEF Walking
<1>5. CASE OpenFails(t)
  <2>1. PICK status : Finish(t, f, status)
    BY <1>1, <1>5 DEF OpenFails
  <2>2. f.pc \in Walking /\ StayHere /\ UNCHANGED tree
    BY <1>1, <1>5 DEF OpenFails, Arrived, Walking
  <2> QED BY <1>1, <1>2, <2>1, <2>2, FinishPaths
<1>6. CASE ReadLink(t)
  <2>1. PICK s, k, status :
          Set(t, [f EXCEPT !.pc = "back", !.todo = f.saved,
                           !.node = s, !.type = k, !.status = status])
    BY <1>1, <1>6 DEF ReadLink
  <2>2. PICK g : g = [f EXCEPT !.pc = "back", !.todo = f.saved,
                               !.node = s, !.type = k, !.status = status]
    OBVIOUS
  <2>3. ChdirFromRoot /\ UNCHANGED tree /\ f.op = "readlink"
    BY <1>1, <1>6 DEF ReadLink
  <2>4. g.op = "readlink" /\ g.pc = "back"
    BY <1>2, <2>2, <2>3 DEF Frames
  <2>5. FileOK(g)' /\ RenameOK(g)' /\ CountOK(g)'
    BY <1>3, <2>4 DEF FileOK, RenameOK, CountOK
  <2> QED BY <1>2, <2>1, <2>2, <2>3, <2>4, <2>5, GoOnPaths DEF Walking
<1>7. CASE Restored(t)
  <2>1. PICK status : Finish(t, f, status)
    BY <1>1, <1>7 DEF Restored
  <2>2. f.pc \in Walking /\ StayHere /\ UNCHANGED tree
    BY <1>1, <1>7 DEF Restored, Arrived, Walking
  <2> QED BY <1>1, <1>2, <2>1, <2>2, FinishPaths
<1>8. CASE ChdirFails(t)
  <2>1. /\ f.pc \in Walking /\ UNCHANGED tree /\ Finish(t, f, ChdirError(f.op))
        /\ StayHere \/ f.op = "readdir"
    BY <1>1, <1>8 DEF ChdirFails, Walking
  <2>2. PICK status : status = ChdirError(f.op)
    OBVIOUS
  <2>3. Finish(t, f, status)
    BY <2>1, <2>2
  <2>4. StayHere \/ f.op \notin FileOps \cup {"chmod", "readlink"}
    BY <1>3, <2>1
  <2> QED BY <1>1, <1>2, <2>1, <2>3, <2>4, FinishPaths
<1> QED BY <1>4, <1>5, <1>6, <1>7, <1>8


-----------------------------------------------------------------------------
(* The handlers that change the tree.                                      *)

\* A new name does not differ in case only from one that is there.
LEMMA CreateFolds ==
  ASSUME TreeTypeOK, FoldUnique, NEW d \in Sectors, NEW n, NEW k,
         CreateEntry(d, n, k)
  PROVE  FoldUnique'
<1>1. PICK s \in Sectors : entry' = [entry EXCEPT ![d][n] = s, ![s] = EmptyTable]
  BY DEF CreateEntry
<1>2. \A m \in Names : ~(entry[d][m] # NoSector /\ Fold[m] = Fold[n])
  BY DEF CreateEntry, Matching
<1>3. entry'[s] = EmptyTable
  BY <1>1 DEF TreeTypeOK
<1>4. ASSUME NEW x \in Sectors, x # s, NEW m \in Names, m # n \/ x # d
      PROVE  entry'[x][m] = entry[x][m]
  BY <1>1, <1>4 DEF TreeTypeOK, Tables
<1>5. ASSUME NEW x \in Sectors, NEW l \in Names, NEW m \in Names,
             entry'[x][l] # NoSector, entry'[x][m] # NoSector, Fold[l] = Fold[m]
      PROVE  l = m
  <2>1. x # s
    BY <1>3, <1>5 DEF EmptyTable
  <2>2. CASE x # d
    BY <1>4, <1>5, <2>1, <2>2 DEF FoldUnique
  <2>3. CASE x = d
    <3>1. CASE l # n /\ m # n
      BY <1>4, <1>5, <2>1, <3>1 DEF FoldUnique
    <3>2. CASE l = n /\ m # n
      BY <1>2, <1>4, <1>5, <2>1, <2>3, <3>2
    <3>3. CASE l # n /\ m = n
      BY <1>2, <1>4, <1>5, <2>1, <2>3, <3>3
    <3> QED BY <3>1, <3>2, <3>3
  <2> QED BY <2>2, <2>3
<1> QED BY <1>5 DEF FoldUnique

\* Removing an entry brings no name in.
LEMMA RemoveFolds ==
  ASSUME TreeTypeOK, FoldUnique, NEW d \in Sectors, NEW n, RemoveEntry(d, n)
  PROVE  FoldUnique'
<1>1. PICK o \in Names : entry' = [entry EXCEPT ![d][o] = NoSector]
  BY DEF RemoveEntry, Matching
<1>2. ASSUME NEW x \in Sectors, NEW m \in Names, entry'[x][m] # NoSector
      PROVE  entry[x][m] # NoSector
  BY <1>1, <1>2 DEF TreeTypeOK, Tables
<1> QED BY <1>2 DEF FoldUnique

\* The new name of an entry differs in case only from no other: adfRenameEntry
\* looks the directory through, but for the entry it renames.
LEMMA RenameFolds ==
  ASSUME TreeTypeOK, FoldUnique, NEW d \in Sectors, NEW n,
         NEW e \in Sectors, NEW m, RenameEntry(d, n, e, m)
  PROVE  FoldUnique'
<1>1. PICK o \in Matching(d, n) :
        /\ Matching(e, m) \subseteq (IF d = e THEN {o} ELSE {})
        /\ entry' = LET s == entry[d][o]
                        cut == [entry EXCEPT ![d][o] = NoSector]
                    IN [cut EXCEPT ![e][m] = s]
  BY DEF RenameEntry
<1>2. o \in Names
  BY DEF Matching
<1>3. PICK s : s = entry[d][o]
  OBVIOUS
<1>4. PICK cut : cut = [entry EXCEPT ![d][o] = NoSector]
  OBVIOUS
<1>5. entry' = [cut EXCEPT ![e][m] = s]
  BY <1>1, <1>3, <1>4
<1>6. cut \in [Sectors -> Tables]
  BY <1>2, <1>4 DEF TreeTypeOK, Tables
<1>7. ASSUME NEW x \in Sectors, NEW l \in Names, cut[x][l] # NoSector
      PROVE  entry[x][l] # NoSector /\ (x # d \/ l # o)
  BY <1>2, <1>4, <1>7 DEF TreeTypeOK, Tables
<1>8. ASSUME NEW l \in Names, cut[e][l] # NoSector
      PROVE  Fold[l] # Fold[m]
  <2>1. entry[e][l] # NoSector /\ (e # d \/ l # o)
    BY <1>7, <1>8
  <2>2. l \notin Matching(e, m)
    BY <1>1, <2>1
  <2> QED BY <2>1, <2>2 DEF Matching
<1>9. ASSUME NEW x \in Sectors, NEW l \in Names, l # m \/ x # e
      PROVE  entry'[x][l] = cut[x][l]
  BY <1>5, <1>6, <1>9 DEF Tables
<1>10. ASSUME NEW x \in Sectors, NEW l \in Names, NEW k \in Names,
              entry'[x][l] # NoSector, entry'[x][k] # NoSector, Fold[l] = Fold[k]
       PROVE  l = k
  <2>1. CASE x # e
    BY <1>7, <1>9, <1>10, <2>1 DEF FoldUnique
  <2>2. CASE x = e
    <3>1. CASE l # m /\ k # m
      BY <1>7, <1>9, <1>10, <3>1 DEF FoldUnique
    <3>2. CASE l = m /\ k # m
      BY <1>8, <1>9, <1>10, <2>2, <3>2
    <3>3. CASE l # m /\ k = m
      BY <1>8, <1>9, <1>10, <2>2, <3>3
    <3> QED BY <3>1, <3>2, <3>3
  <2> QED BY <2>1, <2>2
<1> QED BY <1>10 DEF FoldUnique

\* A handler that has changed the tree and returns.
LEMMA ChangedPaths ==
  ASSUME SingleThreaded, Ind, PathInd, NEW t \in Threads, Handler(t),
         NEW g, Set(t, g), FoldUnique',
         g.pc = "done", g.op \notin FileOps \cup {"chmod", "readlink"}
  PROVE  PathInd'
<1>1. \A u \in Threads : u # t => call[u] = Idle
  BY OthersIdle DEF PathInd
<1> QED BY <1>1, DonePaths, OneMoves

\* readdir, mkdir, create, rmdir and unlink.
LEMMA EntryPaths ==
  ASSUME SingleThreaded, Ind, PathInd, NEW t \in Threads,
         ListDir(t) \/ MakeDir(t) \/ CreateFile(t) \/ RemoveIt(t)
  PROVE  PathInd'
<1>1. PICK f : f = call[t]
  OBVIOUS
<1>2. /\ FramePaths(f) /\ f \in Frames /\ Handler(t) /\ TreeTypeOK /\ FoldUnique
      /\ curDir \in Sectors
  BY <1>1 DEF PathInd, Ind, FramesOK, FrameOK, Handler, Places
<1>3. f.pc \in Walking /\ f.op \notin FileOps \cup {"chmod", "readlink"}
  BY <1>1 DEF ListDir, MakeDir, CreateFile, RemoveIt, Arrived, Walking, FileOps
<1>4. PICK h : h = [f EXCEPT !.node = curDir, !.type = "dir"]
  OBVIOUS
<1>5. h.op = f.op
  BY <1>2, <1>4 DEF Frames
<1>6. ASSUME FoldUnique', Finish(t, h, "ok")
      PROVE  PathInd'
  <2>1. PICK g : g = [h EXCEPT !.pc = "done", !.todo = <<>>, !.status = "ok"]
    OBVIOUS
  <2>2. Set(t, g) /\ g.pc = "done" /\ g.op = f.op
    BY <1>2, <1>4, <1>6, <2>1 DEF Finish, Frames
  <2> QED BY <1>2, <1>3, <1>6, <2>2, ChangedPaths
<1>7. ASSUME UNCHANGED tree, NEW status, Finish(t, f, status)
      PROVE  PathInd'
  BY <1>1, <1>2, <1>3, <1>7, FinishPaths
<1>8. CASE ListDir(t)
  <2>1. PICK status :
          Finish(t, [f EXCEPT !.node = curDir, !.type = "dir",
                              !.size = Cardinality(DirEnt(curDir))], status)
    BY <1>1, <1>8 DEF ListDir
  <2>2. PICK g : g = [[f EXCEPT !.node = curDir, !.type = "dir",
                                !.size = Cardinality(DirEnt(curDir))]
                      EXCEPT !.pc = "done", !.todo = <<>>, !.status = status]
    OBVIOUS
  <2>3. Set(t, g) /\ g.pc = "done" /\ g.op = f.op
    BY <1>2, <2>1, <2>2 DEF Finish, Frames
  <2>4. FoldUnique'
    BY <1>2, <1>8, SameFold DEF ListDir
  <2> QED BY <1>2, <1>3, <2>3, <2>4, ChangedPaths
<1>9. CASE MakeDir(t)
  <2>1. \/ CreateEntry(curDir, Basename(f.path), "dir") /\ Finish(t, h, "ok")
        \/ Finish(t, f, "rc") /\ UNCHANGED tree
    BY <1>1, <1>4, <1>9 DEF MakeDir
  <2> QED BY <1>2, <1>6, <1>7, <2>1, CreateFolds
<1>10. CASE CreateFile(t)
  <2>1. \/ CreateEntry(curDir, Basename(f.path), "file") /\ Finish(t, h, "ok")
        \/ Finish(t, f, "EPERM") /\ UNCHANGED tree
    BY <1>1, <1>4, <1>10 DEF CreateFile
  <2> QED BY <1>2, <1>6, <1>7, <2>1, CreateFolds
<1>11. CASE RemoveIt(t)
  <2>1. \/ RemoveEntry(curDir, Basename(f.path)) /\ Finish(t, h, "ok")
        \/ Finish(t, f, "rc") /\ UNCHANGED tree
    BY <1>1, <1>4, <1>11 DEF RemoveIt
  <2> QED BY <1>2, <1>6, <1>7, <2>1, RemoveFolds
<1> QED BY <1>8, <1>9, <1>10, <1>11


-----------------------------------------------------------------------------
(* adfimage_getdentry, and its callers.                                    *)

\* The trail of a path begins with the trail of its dirname.
LEMMA TrailFront ==
  ASSUME NEW p \in Seq(Names), p # <<>>, NEW tr, Trail(tr, p)
  PROVE  \E front : /\ Trail(front, Dirname(p))
                    /\ front[Len(Dirname(p))] = tr[Len(p) - 1]
<1>1. Len(p) - 1 \in 0..Len(p)
  OBVIOUS
<1>2. Leads(Dirname(p), tr[Len(p) - 1])
  BY <1>1, LeadsPart DEF Dirname, Front
<1> QED BY <1>2, LeadsByTrail

\* Where a name is found exactly, the library finds that entry too.
LEMMA ExactFound ==
  ASSUME TreeTypeOK, FoldUnique, NEW d \in Sectors, NEW n \in Names,
         entry[d][n] # NoSector
  PROVE  EntryOf(d, n) = entry[d][n]
<1>1. n \in Matching(d, n)
  BY DEF Matching
<1>2. \A m \in Matching(d, n) : m = n
  BY DEF Matching, FoldUnique
<1>3. (CHOOSE m \in Matching(d, n) : TRUE) = n
  BY <1>1, <1>2
<1> QED BY <1>3 DEF EntryOf

\* The entry a rename finds for the directory it looks up is that directory.
LEMMA FoundParent ==
  ASSUME Ind, FoldUnique, NEW f \in Frames, OnTrack(f), Arrived(f, "enter"),
         f.op = "rename", Sought(f) # <<>>, IsDir(Sought(f)),
         NEW s, s = entry[curDir][Basename(Sought(f))], s # NoSector
  PROVE  Leads(Sought(f), Target(s))
<1>1. PICK p : p = Sought(f)
  OBVIOUS
<1>2. PICK n : n = Basename(p)
  OBVIOUS
<1>3. PICK d : d = curDir
  OBVIOUS
<1>4. p \in Seq(Names) /\ p # <<>> /\ n \in Names /\ Len(p) \in Nat /\ Len(p) \in 1..Len(p)
  <2>1. p \in Seq(Names) /\ p # <<>>
    BY <1>1, BoundSeq
  <2>2. Len(p) \in Nat /\ Len(p) > 0
    BY <2>1
  <2> QED BY <1>2, <2>1, <2>2, FrontLast
<1>5. d \in Sectors /\ TreeTypeOK
  BY <1>3 DEF Ind, Places
<1>6. PICK tr : Trail(tr, p)
  BY <1>1, LeadsByTrail DEF IsDir
<1>7. PICK front : Trail(front, Dirname(p)) /\ front[Len(Dirname(p))] = tr[Len(p) - 1]
  BY <1>4, <1>6, TrailFront
<1>8. Bound(f) = Dirname(p)
  BY <1>1 DEF Bound
<1>9. tr[Len(p) - 1] = d
  BY <1>3, <1>7, <1>8, WalkEnds
<1>10. tr[Len(p)] = Entered(tr[Len(p) - 1], p[Len(p)]) /\ p[Len(p)] = n
  BY <1>2, <1>4, <1>6 DEF Trail, Basename, Last
<1>11. EntryOf(d, n) = s
  BY <1>1, <1>2, <1>3, <1>4, <1>5, ExactFound
<1>12. tr[Len(p)] = Target(s)
  BY <1>9, <1>10, <1>11 DEF Entered
<1> QED BY <1>1, <1>6, <1>12, LeadsByTrail


\* adfimage_getdentry has looked its name up, in the right directory.
LEMMA FindPaths ==
  ASSUME SingleThreaded, Ind, PathInd, NEW t \in Threads, Find(t)
  PROVE  PathInd'
<1>1. PICK f : f = call[t]
  OBVIOUS
<1>2. PICK s : s = entry[curDir][Basename(Sought(f))]
  OBVIOUS
<1>3. PICK k : k = IF s = NoSector THEN "free" ELSE kind[s]
  OBVIOUS
<1>4. /\ FramePaths(f) /\ f \in Frames /\ FrameOK(f) /\ Handler(t) /\ FoldUnique
  BY <1>1 DEF PathInd, Ind, FramesOK, FrameOK, Handler
<1>5. f.op \in Lookups \cup {"getattr"} /\ Arrived(f, "enter") /\ UNCHANGED tree
  BY <1>1 DEF Find
<1>6. f.op \notin FileOps /\ f.pc = "enter" /\ f.pc \in Walking /\ Sought(f) # <<>>
  BY <1>4, <1>5 DEF Lookups, FileOps, Arrived, Walking, FrameOK
<1>7. CASE DirEnt(curDir) = {}
  <2>1. PICK g : g = [f EXCEPT !.pc = "back", !.node = NoSector, !.type = "free"]
    OBVIOUS
  <2>2. Set(t, g) /\ StayHere
    BY <1>1, <1>7, <2>1 DEF Find
  <2>3. /\ g.op = f.op /\ g.path = f.path /\ g.to = f.to /\ g.base = f.base
        /\ g.pc = "back" /\ g.type = "free"
    BY <1>4, <2>1 DEF Frames
  <2>4. Sought(g) = Sought(f)
    BY <2>3 DEF Sought
  <2>5. OnTrack(g)' /\ FileOK(g)' /\ CountOK(g)'
    BY <1>6, <2>3 DEF OnTrack, FileOK, CountOK
  <2>6. CwdOK(g)'
    <3>1. CwdOK(f)
      BY <1>4 DEF FramePaths
    <3>2. SUFFICES ASSUME f.op \notin EntryOps
                   PROVE  Leads(cwd, curDir)'
      BY <2>3 DEF CwdOK
    <3>3. Leads(cwd, curDir)
      BY <1>6, <3>1, <3>2 DEF CwdOK
    <3> QED BY <1>5, <2>2, <3>3, AgreeStays
  <2>7. RenameOK(g)'
    <3>1. \A q : IsDir(q)' <=> IsDir(q)
      BY <1>5, SameTrails DEF IsDir
    <3>2. RenameOK(f)
      BY <1>4 DEF FramePaths
    <3> QED BY <1>5, <1>6, <2>3, <3>1, <3>2, SameTrails DEF RenameOK
  <2> QED BY <1>4, <1>5, <2>2, <2>5, <2>6, <2>7, QuietPaths DEF FramePaths
<1>8. CASE DirEnt(curDir) # {}
  <2>1. PICK back : back = IF f.op = "getattr" THEN cwd ELSE f.saved
    OBVIOUS
  <2>2. PICK g : g = [f EXCEPT !.pc = "back", !.todo = back, !.node = s, !.type = k]
    OBVIOUS
  <2>3. Set(t, g) /\ ChdirFromRoot
    BY <1>1, <1>2, <1>3, <1>8, <2>1, <2>2 DEF Find, ListFind
  <2>4. /\ g.op = f.op /\ g.path = f.path /\ g.to = f.to /\ g.base = f.base
        /\ g.pc = "back" /\ g.type = k /\ g.node = s
    BY <1>4, <2>2 DEF Frames
  <2>5. Sought(g) = Sought(f)
    BY <2>4 DEF Sought
  <2>6. FileOK(g)' /\ CountOK(g)'
    BY <1>6, <2>4 DEF FileOK, CountOK
  <2>7. RenameOK(g)'
    <3>1. SUFFICES ASSUME f.op = "rename"
                   PROVE  RenameOK(g)'
      BY <2>4 DEF RenameOK
    <3>2. /\ KernelChecked => IsDir(Dirname(f.path)) /\ IsDir(Dirname(f.to))
          /\ KernelChecked /\ f.base # NoSector => Leads(Dirname(f.path), f.base)
      BY <1>4, <1>6, <3>1 DEF FramePaths, RenameOK
    <3>3. ASSUME KernelChecked, k \in {"dir", "ldir"}
          PROVE  Leads(Sought(f), ParentSector(g))
      <4>1. s # NoSector /\ k = kind[s]
        BY <1>3, <3>3
      <4>2. IsDir(Sought(f))
        BY <3>1, <3>2, <3>3 DEF Sought
      <4>3. Leads(Sought(f), Target(s))
        BY <1>2, <1>4, <1>5, <1>6, <3>1, <4>1, <4>2, FoundParent DEF FramePaths
      <4>4. ParentSector(g) = Target(s)
        BY <2>4, <3>3, <4>1 DEF ParentSector, Target
      <4> QED BY <4>3, <4>4
    <3>4. \A q : IsDir(q)' <=> IsDir(q)
      BY <1>5, SameTrails DEF IsDir
    <3>5. ASSUME KernelChecked, k \in {"dir", "ldir"}
          PROVE  Leads(Sought(g), ParentSector(g))'
      <4>1. PICK p, e : p = Sought(g) /\ e = ParentSector(g)
        OBVIOUS
      <4>2. Leads(p, e)'
        BY <1>5, <2>5, <3>3, <3>5, <4>1, SameTrails
      <4>3. p = Sought(g)' /\ e = ParentSector(g)'
        BY <4>1 DEF Sought, ParentSector
      <4> QED BY <4>2, <4>3
    <3> QED BY <1>5, <2>4, <3>2, <3>4, <3>5, SameTrails DEF RenameOK
  <2> QED BY <1>4, <1>5, <2>3, <2>4, <2>6, <2>7, GoOnPaths DEF Walking
<1> QED BY <1>7, <1>8

\* adffs_getattr, once adfimage_getdentry has returned.
LEMMA StatPaths ==
  ASSUME SingleThreaded, Ind, PathInd, NEW t \in Threads,
         StatEntry(t) \/ StatDir(t) \/ CountEntries(t) \/ Counted(t)
  PROVE  PathInd'
<1>1. PICK f : f = call[t]
  OBVIOUS
<1>2. FramePaths(f) /\ f \in Frames /\ Handler(t) /\ FoldUnique
  BY <1>1 DEF PathInd, Ind, FramesOK, FrameOK, Handler
<1>3. f.op = "getattr" /\ f.op \notin FileOps \cup {"chmod", "readlink"}
  <2>1. f.op = "getattr"
    BY <1>1, <1>2 DEF StatEntry, StatDir, CountEntries, Counted, Arrived, FramePaths,
       CountOK
  <2> QED BY <2>1 DEF FileOps
<1>4. UNCHANGED tree /\ f.pc \in Walking
  BY <1>1 DEF StatEntry, StatDir, CountEntries, Counted, Arrived, Walking
<1>5. ASSUME NEW g, g.op = "getattr", g.pc \in {"into", "out"}, Set(t, g), ChdirFromRoot
      PROVE  PathInd'
  <2>1. FileOK(g)' /\ RenameOK(g)' /\ CountOK(g)'
    BY <1>3, <1>5 DEF FileOK, RenameOK, CountOK
  <2> QED BY <1>2, <1>4, <1>5, <2>1, GoOnPaths DEF Walking
<1>6. CASE StatEntry(t)
  <2>1. PICK n : n = Basename(f.path)
    OBVIOUS
  <2>2. CASE Finish(t, f, "ok") \/ Finish(t, f, "ENOENT")
    BY <1>1, <1>2, <1>3, <1>4, <2>2, FinishPaths
  <2>3. CASE Finish(t, [f EXCEPT !.base = Opened(curDir, n)], "ok")
    <3>1. PICK g : g = [[f EXCEPT !.base = Opened(curDir, n)]
                        EXCEPT !.pc = "done", !.todo = <<>>, !.status = "ok"]
      OBVIOUS
    <3>2. Set(t, g) /\ g.pc = "done" /\ g.op = f.op
      BY <1>2, <2>3, <3>1 DEF Finish, Frames
    <3>3. FoldUnique'
      BY <1>2, <1>4, SameFold
    <3> QED BY <1>2, <1>3, <3>2, <3>3, ChangedPaths
  <2> QED BY <1>1, <1>6, <2>1, <2>2, <2>3 DEF StatEntry
<1>7. CASE StatDir(t)
  <2>1. PICK g : g = [f EXCEPT !.pc = "into", !.todo = f.path, !.saved = cwd]
    OBVIOUS
  <2>2. Set(t, g) /\ ChdirFromRoot /\ g.op = "getattr" /\ g.pc = "into"
    BY <1>1, <1>2, <1>3, <1>7, <2>1 DEF StatDir, Frames
  <2> QED BY <1>5, <2>2
<1>8. CASE CountEntries(t)
  <2>1. PICK g : g = [f EXCEPT !.pc = "out", !.todo = f.saved, !.base = curDir,
                               !.size = Cardinality(DirEnt(curDir))]
    OBVIOUS
  <2>2. Set(t, g) /\ ChdirFromRoot /\ g.op = "getattr" /\ g.pc = "out"
    BY <1>1, <1>2, <1>3, <1>8, <2>1 DEF CountEntries, Frames
  <2> QED BY <1>5, <2>2
<1>9. CASE Counted(t)
  <2>1. Finish(t, f, "ok")
    BY <1>1, <1>9 DEF Counted
  <2> QED BY <1>1, <1>2, <1>3, <1>4, <2>1, FinishPaths
<1> QED BY <1>6, <1>7, <1>8, <1>9

\* chmod and rename, once adfimage_getdentry has returned.
LEMMA RenamePaths ==
  ASSUME SingleThreaded, Ind, PathInd, NEW t \in Threads,
         SetPerm(t) \/ NoParent(t) \/ SourceFound(t) \/ RenameIt(t)
  PROVE  PathInd'
<1>1. PICK f : f = call[t]
  OBVIOUS
<1>2. /\ FramePaths(f) /\ FrameOK(f) /\ f \in Frames /\ Handler(t) /\ FoldUnique
      /\ TreeTypeOK
  BY <1>1 DEF PathInd, Ind, FramesOK, FrameOK, Handler
<1>3. CASE SetPerm(t)
  <2>1. PICK status : Finish(t, f, status)
    BY <1>1, <1>3 DEF SetPerm
  <2>2. f.pc \in Walking /\ StayHere /\ UNCHANGED tree
    BY <1>1, <1>3 DEF SetPerm, Arrived, Walking
  <2> QED BY <1>1, <1>2, <2>1, <2>2, FinishPaths
<1>4. CASE NoParent(t)
  <2>1. PICK status : Finish(t, f, status)
    BY <1>1, <1>4 DEF NoParent
  <2>2. f.pc \in Walking /\ StayHere /\ UNCHANGED tree
    BY <1>1, <1>4 DEF NoParent, Arrived, Walking
  <2> QED BY <1>1, <1>2, <2>1, <2>2, FinishPaths
<1>5. CASE SourceFound(t)
  <2>1. PICK g : g = [f EXCEPT !.base = ParentSector(f)]
    OBVIOUS
  <2>2. PICK p : p = Dirname(f.to)
    OBVIOUS
  <2>3. /\ f.op = "rename" /\ f.pc = "back" /\ f.base = NoSector
        /\ f.type \in {"dir", "ldir"}
        /\ BeginLookup(t, g, p) /\ UNCHANGED tree
    BY <1>1, <1>5, <2>1, <2>2 DEF SourceFound, Arrived
  <2>4. f.to \in Seq(Names) /\ p \in Seq(Names)
    BY <1>2, <2>2, DirnameSeq DEF Frames
  <2>5. PICK e : e = ParentSector(f)
    OBVIOUS
  <2>6. e \in Sectors /\ e # NoSector
    BY <1>2, <2>3, <2>5, VolumeAssumption DEF FrameOK, ParentSector
  <2>7. /\ g \in Frames /\ g.op = "rename" /\ g.path = f.path /\ g.to = f.to /\ g.base = e
    BY <1>2, <2>1, <2>3, <2>5, <2>6 DEF Frames
  <2>8. p = Sought(g) /\ g.op \in Lookups
    BY <2>2, <2>6, <2>7 DEF Sought, Lookups
  <2>9. /\ KernelChecked => IsDir(Dirname(g.path)) /\ IsDir(Dirname(g.to))
        /\ KernelChecked /\ g.base # NoSector => Leads(Dirname(g.path), g.base)
    BY <1>2, <2>3, <2>5, <2>7 DEF FramePaths, RenameOK, Sought, Walking
  <2> QED BY <1>2, <2>3, <2>4, <2>7, <2>8, <2>9, LookupPaths
<1>6. CASE RenameIt(t)
  <2>1. /\ f.op = "rename" /\ f.pc \in Walking /\ StayHere
        /\ f.base # NoSector /\ f.type \in {"dir", "ldir"}
    BY <1>1, <1>6 DEF RenameIt, Arrived, Walking
  <2>2. CASE Finish(t, f, "EPERM") /\ UNCHANGED tree
    BY <1>1, <1>2, <2>1, <2>2, FinishPaths
  <2>3. CASE /\ RenameEntry(f.base, Basename(f.path), ParentSector(f), Basename(f.to))
             /\ Finish(t, f, "ok")
    <3>1. PICK g : g = [f EXCEPT !.pc = "done", !.todo = <<>>, !.status = "ok"]
      OBVIOUS
    <3>2. Set(t, g) /\ g.pc = "done" /\ g.op = "rename"
      BY <1>2, <2>1, <2>3, <3>1 DEF Finish, Frames
    <3>3. f.base \in Sectors /\ ParentSector(f) \in Sectors
      BY <1>2, <2>1, VolumeAssumption DEF FrameOK, Frames, ParentSector
    <3>4. FoldUnique'
      BY <1>2, <2>3, <3>3, RenameFolds
    <3>5. g.op \notin FileOps \cup {"chmod", "readlink"}
      BY <3>2 DEF FileOps
    <3> QED BY <1>2, <3>2, <3>4, <3>5, ChangedPaths
  <2> QED BY <1>1, <1>6, <2>2, <2>3 DEF RenameIt
<1> QED BY <1>3, <1>4, <1>5, <1>6

\* The handler returns.
LEMMA ReplyPaths ==
  ASSUME SingleThreaded, Ind, PathInd, NEW t \in Threads, Reply(t)
  PROVE  PathInd'
<1>1. Set(t, Idle) /\ UNCHANGED tree /\ Handler(t)
  BY DEF Reply, Handler
<1> QED BY <1>1, IdlePaths, QuietPaths


-----------------------------------------------------------------------------
(* The theorems.                                                           *)

\* A volume that has just been mounted satisfies the invariant.
LEMMA InitPaths == Init => PathInd
<1> SUFFICES ASSUME Init PROVE PathInd
  OBVIOUS
<1>1. \A t \in Threads : call[t] = Idle
  BY DEF Init
<1>2. OneServed
  BY <1>1 DEF OneServed, Idle, Request
<1>3. FoldUnique
  <2>1. PICK img \in Images : entry = img.entry
    BY DEF Init, TreeInit
  <2> QED BY <2>1, VolumeAssumption DEF WellFormed, FoldUnique
<1>4. FramePaths(Idle)
  BY DEF FramePaths, OnTrack, CwdOK, FileOK, RenameOK, CountOK, Idle, Request,
         Walking, FileOps
<1> QED BY <1>1, <1>2, <1>3, <1>4 DEF PathInd

\* So does every state a step leads to.
LEMMA NextPaths ==
  ASSUME SingleThreaded
  PROVE  Ind /\ PathInd /\ [Next]_vars => PathInd'
<1> SUFFICES ASSUME Ind, PathInd, [Next]_vars PROVE PathInd'
  OBVIOUS
<1>1. CASE UNCHANGED vars
  <2>1. UNCHANGED tree /\ call' = call /\ StayHere
    BY <1>1 DEF vars, tree, StayHere
  <2>2. OneServed' /\ FoldUnique'
    BY <2>1, SameFold DEF PathInd, OneServed
  <2>3. ASSUME NEW t \in Threads, NEW f, f = call'[t]
        PROVE  FramePaths(f)'
    <3>1. FramePaths(f)
      BY <2>1, <2>3 DEF PathInd
    <3>2. FileOK(f)'
      BY <2>1, <3>1, FileStays DEF FramePaths
    <3>3. RenameOK(f)'
      BY <2>1, <3>1, RenameStays DEF FramePaths, RenameOK
    <3>4. CwdOK(f)'
      BY <2>1, <3>1, AgreeStays DEF FramePaths, CwdOK
    <3>5. OnTrack(f)'
      BY <2>1, <3>1, SameTrails DEF FramePaths, OnTrack, Bound, Sought, StayHere
    <3>6. CountOK(f)'
      BY <3>1 DEF FramePaths, CountOK
    <3> QED BY <3>2, <3>3, <3>4, <3>5, <3>6 DEF FramePaths
  <2> QED BY <2>2, <2>3 DEF PathInd
<1>2. CASE Next
  <2>1. PICK t \in Threads : Begin(t) \/ Handler(t)
    BY <1>2 DEF Next
  <2> QED BY <2>1, BeginPaths, ChangeDirPaths, IgnoredPaths, FilePaths, EntryPaths,
             FindPaths, StatPaths, RenamePaths, ReplyPaths DEF Handler
<1> QED BY <1>1, <1>2

LEMMA SpecPaths ==
  ASSUME SingleThreaded
  PROVE  Spec => [](Ind /\ PathInd)
<1>1. Init => Ind /\ PathInd
  BY InitInd, InitPaths
<1>2. (Ind /\ PathInd) /\ [Next]_vars => (Ind /\ PathInd)'
  BY NextInd, NextPaths
<1> QED BY <1>1, <1>2, PTL DEF Spec

\* With -s, whatever directory the handlers before it have left the volume in,
\* a handler that walks to a directory that exists is, at every name, where
\* the names it has entered lead from the root (adfimage.c:376-415).
THEOREM WalksOnPath ==
  ASSUME SingleThreaded
  PROVE  Spec => []OnPath
<1>1. Ind /\ PathInd => OnPath
  <2> SUFFICES ASSUME Ind, PathInd, NEW t \in Threads, NEW f, f = call[t],
                      f.pc = "enter", IsDir(Bound(f))
               PROVE  Leads(Walked(f, Bound(f)), curDir)
    BY DEF OnPath
  <2>1. f \in Frames /\ OnTrack(f)
    BY DEF Ind, FramesOK, FrameOK, PathInd, FramePaths
  <2>2. PICK b : b = Bound(f)
    OBVIOUS
  <2>3. b \in Seq(Names) /\ Len(b) \in Nat
    BY <2>1, <2>2, BoundSeq
  <2>4. PICK k \in 0..Len(b) :
          Len(f.todo) = Len(b) - k /\ \A tr : Trail(tr, b) => tr[k] = curDir
    BY <2>1, <2>2 DEF OnTrack
  <2>5. PICK tr : Trail(tr, b)
    BY <2>2, LeadsByTrail DEF IsDir
  <2>6. Leads(SubSeq(b, 1, k), curDir)
    BY <2>3, <2>4, <2>5, LeadsPart
  <2>7. Len(b) - Len(f.todo) = k
    BY <2>3, <2>4
  <2> QED BY <2>2, <2>6, <2>7 DEF Walked
<1> QED BY <1>1, SpecPaths, PTL

\* With -s, the file a request on an open file has found is the one its path
\* names (adfimage.c:441, 490, 544).
THEOREM FindsRightFile ==
  ASSUME SingleThreaded
  PROVE  Spec => []RightFile
<1>1. PathInd => RightFile
  BY DEF PathInd, FramePaths, FileOK, RightFile
<1> QED BY <1>1, SpecPaths, PTL

\* With -s, cwd and the volume's current directory agree in every handler that
\* has entered by an absolute path, however its walk has ended.
THEOREM WorkingDirectoryAgrees ==
  ASSUME SingleThreaded
  PROVE  Spec => []CwdAgrees
<1>1. PathInd => CwdAgrees
  BY DEF PathInd, FramePaths, CwdOK, CwdAgrees
<1> QED BY <1>1, SpecPaths, PTL

\* Only mkdir, create, rmdir, unlink and rename change the tree.
LEMMA TreeSteps ==
  ASSUME NEW t \in Threads, Begin(t) \/ Handler(t)
  PROVE  UNCHANGED tree \/ MakeDir(t) \/ CreateFile(t) \/ RemoveIt(t) \/ RenameIt(t)
<1>1. CASE Begin(t)
  BY <1>1 DEF Begin, GetattrRoot, Getattr, FileOp, Readdir, EntryOp, Chmod, Rename
<1>2. CASE Handler(t)
  BY <1>2 DEF Handler, ChangeDir, ChdirFails, ChdirIgnored, OpenFile, OpenFails,
     ReadLink, Restored, ListDir, Find, StatEntry, StatDir, CountEntries, Counted,
     SetPerm, NoParent, SourceFound, Reply
<1> QED BY <1>1, <1>2

\* With -s, and where the kernel asks for a rename of paths it has looked up, a
\* directory changes only under a request that names it: mkdir, create, rmdir
\* and unlink work in the current directory, and rename by the sectors of the
\* directories it has looked up (adfimage.c:595-634, 690-758, 764-823).
THEOREM OnlyNamedDirsChange ==
  ASSUME SingleThreaded, KernelChecked
  PROVE  Spec => ChangesNamedDirs
<1>1. ASSUME Ind, PathInd, [Next]_vars, NEW d \in Sectors, entry'[d] # entry[d]
      PROVE  kind[d] = "free" \/ Named(d)
  <2>1. PICK t \in Threads : Begin(t) \/ Handler(t)
    BY <1>1 DEF Next, vars
  <2>2. MakeDir(t) \/ CreateFile(t) \/ RemoveIt(t) \/ RenameIt(t)
    BY <1>1, <2>1, TreeSteps DEF tree
  <2>3. PICK f : f = call[t]
    OBVIOUS
  <2>4. FramePaths(f) /\ f \in Frames /\ FrameOK(f) /\ TreeTypeOK
    BY <1>1, <2>3 DEF PathInd, Ind, FramesOK, FrameOK
  <2>5. ASSUME f.op \in EntryOps, Arrived(f, "enter")
        PROVE  Named(curDir)
    <3>1. f.op \notin Lookups /\ Bound(f) = Dirname(f.path)
      BY <2>5 DEF EntryOps, Lookups, Bound, Sought
    <3>2. Leads(Dirname(f.path), curDir)
      BY <2>4, <2>5, <3>1, WalkEnds DEF FramePaths
    <3> QED BY <2>3, <2>5, <3>2 DEF Named
  <2>6. CASE MakeDir(t) \/ CreateFile(t)
    <3>1. f.op \in EntryOps /\ Arrived(f, "enter")
      BY <2>3, <2>6 DEF MakeDir, CreateFile, EntryOps
    <3>2. PICK n, k : CreateEntry(curDir, n, k)
      BY <1>1, <2>6 DEF MakeDir, CreateFile, tree
    <3>3. PICK s \in Sectors :
            kind[s] = "free" /\ entry' = [entry EXCEPT ![curDir][n] = s, ![s] = EmptyTable]
      BY <3>2 DEF CreateEntry
    <3>4. d = curDir \/ d = s
      BY <1>1, <2>4, <3>3 DEF TreeTypeOK
    <3> QED BY <2>5, <3>1, <3>3, <3>4
  <2>7. CASE RemoveIt(t)
    <3>1. f.op \in EntryOps /\ Arrived(f, "enter")
      BY <2>3, <2>7 DEF RemoveIt, EntryOps
    <3>2. PICK n : RemoveEntry(curDir, n)
      BY <1>1, <2>7 DEF RemoveIt, tree
    <3>3. PICK m : entry' = [entry EXCEPT ![curDir][m] = NoSector]
      BY <3>2 DEF RemoveEntry
    <3>4. d = curDir
      BY <1>1, <2>4, <3>3 DEF TreeTypeOK
    <3> QED BY <2>5, <3>1, <3>4
  <2>8. CASE RenameIt(t)
    <3>1. /\ f.op = "rename" /\ f.pc = "back" /\ f.pc \in Walking
          /\ f.base # NoSector /\ f.type \in {"dir", "ldir"}
          /\ RenameEntry(f.base, Basename(f.path), ParentSector(f), Basename(f.to))
      BY <1>1, <2>3, <2>8 DEF RenameIt, Arrived, Walking, tree
    <3>2. Leads(Dirname(f.path), f.base) /\ Leads(Dirname(f.to), ParentSector(f))
      BY <2>4, <3>1 DEF FramePaths, RenameOK, Sought
    <3>3. Named(f.base) /\ Named(ParentSector(f))
      BY <2>3, <3>1, <3>2 DEF Named
    <3>4. f.base \in Sectors /\ ParentSector(f) \in Sectors
      BY <2>4, <3>1, VolumeAssumption DEF FrameOK, Frames, ParentSector
    <3>5. PICK o :
            entry' = LET s == entry[f.base][o]
                         cut == [entry EXCEPT ![f.base][o] = NoSector]
                     IN [cut EXCEPT ![ParentSector(f)][Basename(f.to)] = s]
      BY <3>1 DEF RenameEntry
    <3>6. PICK cut : cut = [entry EXCEPT ![f.base][o] = NoSector]
      OBVIOUS
    <3>7. entry' = [cut EXCEPT ![ParentSector(f)][Basename(f.to)] = entry[f.base][o]]
      BY <3>5, <3>6
    <3>8. d = f.base \/ d = ParentSector(f)
      BY <1>1, <2>4, <3>4, <3>6, <3>7 DEF TreeTypeOK
    <3> QED BY <3>3, <3>8
  <2> QED BY <2>2, <2>6, <2>7, <2>8
<1>2. Ind /\ PathInd /\ [Next]_vars
      => [\A d \in Sectors : entry'[d] # entry[d] => kind[d] = "free" \/ Named(d)]_vars
  BY <1>1
<1> QED BY <1>2, SpecPaths, PTL DEF Spec, ChangesNamedDirs


=============================================================================
