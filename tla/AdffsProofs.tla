---------------------------- MODULE AdffsProofs ----------------------------
(***************************************************************************)
(* What holds of the handlers for every volume, every set of paths and of  *)
(* threads, with -s or without: their state is well-typed, and the current *)
(* directory of the volume is a directory that has not been removed.       *)
(***************************************************************************)
EXTENDS Adffs, FiniteSetTheorems, SequenceTheorems, TLAPS

\* What is true of the frame of a thread, beyond its type: an entry that has
\* been read is somewhere, and a lookup under way has a name to look for.
FrameOK(f) ==
  /\ f \in Frames
  /\ f.pc = "idle" => f = Idle
  /\ f.pc = "done" => f.status # "none"
  /\ f.type # "free" => f.node \in Sectors
  /\ f.op = "rename" => f.path # <<>> /\ f.to # <<>>
  /\ f.pc = "enter" /\ f.op \in Lookups \cup {"getattr"} => Sought(f) # <<>>
  /\ f.pc = "back" /\ f.op \in FileOps \cup {"readlink"} => f.status # "none"

FramesOK ==
  /\ call = [t \in Threads |-> call[t]]
  /\ \A t \in Threads : FrameOK(call[t])

\* The root is a directory that is not an entry of any directory.
RootSafe ==
  /\ kind[Root] = "dir"
  /\ \A d \in Sectors, n \in Names : entry[d][n] # Root

Places == curDir \in Sectors /\ cwd \in Seq(Names)

\* The inductive invariant.
Ind == TreeTypeOK /\ Places /\ FramesOK /\ RootSafe /\ CurDirLive

-----------------------------------------------------------------------------
(* Facts about paths, tables and frames.                                   *)

\* dirname and basename of a path other than "/".
LEMMA FrontLast ==
  ASSUME NEW p \in Seq(Names), p # <<>>
  PROVE  Dirname(p) \in Seq(Names) /\ Basename(p) \in Names
<1>1. Len(p) \in Nat /\ Len(p) > 0 /\ \A i \in 1..Len(p) : p[i] \in Names
  BY LenProperties, ElementOfSeq, EmptySeq
<1>2. SubSeq(p, 1, Len(p) - 1) \in Seq(Names)
  BY <1>1, SubSeqProperties
<1> QED BY <1>1, <1>2 DEF Dirname, Basename, Front, Last

\* adflist_count_entries returns a number.
LEMMA Counted_Nat ==
  ASSUME NEW d \in Sectors
  PROVE  Cardinality(DirEnt(d)) \in Nat
<1>1. DirEnt(d) \subseteq Names BY DEF DirEnt
<1> QED BY <1>1, FS_Subset, FS_CardinalityType, VolumeAssumption

\* The library finds an entry where there is a name that matches.
LEMMA EntryFound ==
  ASSUME TreeTypeOK, NEW d \in Sectors, NEW n, Matching(d, n) # {}
  PROVE  EntryOf(d, n) \in Sectors /\ Target(EntryOf(d, n)) \in Sectors
<1> DEFINE m == CHOOSE m \in Matching(d, n) : TRUE
<1>1. m \in Matching(d, n) OBVIOUS
<1>2. m \in Names /\ entry[d][m] # NoSector BY <1>1 DEF Matching
<1>3. entry[d][m] \in Sectors BY <1>2 DEF TreeTypeOK, Tables
<1>4. EntryOf(d, n) = entry[d][m] BY DEF EntryOf
<1> HIDE DEF m
<1> QED BY <1>3, <1>4, VolumeAssumption DEF Target

\* Replacing the frame of one thread.
LEMMA SetFrame ==
  ASSUME FramesOK, NEW t \in Threads, NEW f, FrameOK(f), Set(t, f)
  PROVE  FramesOK'
BY DEF FramesOK, Set, FrameOK, Sought

\* A step that changes neither the tree nor the current directory's kind.
LEMMA SameTree ==
  ASSUME Ind, UNCHANGED tree, FramesOK', Places', kind[curDir'] = "dir"
  PROVE  Ind'
BY DEF Ind, tree, TreeTypeOK, RootSafe, CurDirLive

\* The three ways a handler that leaves the tree alone leaves the directories.
LEMMA WhereItIs ==
  ASSUME Ind, StayHere \/ ToRootDir \/ ChdirFromRoot
  PROVE  Places' /\ kind[curDir'] = "dir"
<1>1. <<>> \in Seq(Names) BY EmptySeq
<1> QED BY <1>1, VolumeAssumption
        DEF Ind, Places, RootSafe, CurDirLive, StayHere, ToRootDir, ChdirFromRoot

\* A step that gives thread t the frame f and touches nothing but the
\* directories keeps the invariant.
LEMMA QuietStep ==
  ASSUME Ind, NEW t \in Threads, NEW f, FrameOK(f), Set(t, f),
         StayHere \/ ToRootDir \/ ChdirFromRoot, UNCHANGED tree
  PROVE  Ind'
<1>1. FramesOK' BY SetFrame DEF Ind
<1>2. Places' /\ kind[curDir'] = "dir" BY WhereItIs
<1> QED BY <1>1, <1>2, SameTree

\* The frame a request starts with.
LEMMA NewRequest ==
  ASSUME NEW op \in Ops \cup {"none"}, NEW p \in Seq(Names), NEW q \in Seq(Names)
  PROVE  Request(op, p, q) \in Frames
<1>1. <<>> \in Seq(Names) BY EmptySeq
<1> QED BY <1>1 DEF Request, Frames, Phases, Walking, Statuses, Kinds

\* A handler that returns.
LEMMA FinishedFrame ==
  ASSUME NEW f \in Frames, NEW status \in Statuses \ {"none"},
         f.type # "free" => f.node \in Sectors,
         f.op = "rename" => f.path # <<>> /\ f.to # <<>>
  PROVE  FrameOK([f EXCEPT !.pc = "done", !.todo = <<>>, !.status = status])
<1>1. <<>> \in Seq(Names) BY EmptySeq
<1> QED BY <1>1 DEF FrameOK, Frames, Phases, Walking

\* The start of adfimage_getdentry.
LEMMA LookupBegins ==
  ASSUME Ind, NEW t \in Threads, NEW f \in Frames, NEW p \in Seq(Names),
         f.type # "free" => f.node \in Sectors,
         f.op = "rename" => f.path # <<>> /\ f.to # <<>>,
         f.op \in Lookups, Sought(f) = p, BeginLookup(t, f, p), UNCHANGED tree
  PROVE  Ind'
<1>1. <<>> \in Seq(Names) /\ cwd \in Seq(Names) BY EmptySeq DEF Ind, Places
<1>2. CASE p = <<>>
  <2> DEFINE g == [f EXCEPT !.pc = "back", !.todo = <<>>, !.node = Root, !.type = "dir"]
  <2>1. Set(t, g) /\ StayHere BY <1>2 DEF BeginLookup
  <2>2. FrameOK(g)
    BY <1>1, VolumeAssumption DEF FrameOK, Frames, Phases, Walking, Kinds, Lookups, FileOps
  <2> HIDE DEF g
  <2> QED BY <2>1, <2>2, QuietStep
<1>3. CASE p # <<>>
  <2> DEFINE g == [f EXCEPT !.pc = "enter", !.todo = Dirname(p), !.saved = cwd]
  <2>1. Set(t, g) /\ ChdirFromRoot BY <1>3 DEF BeginLookup
  <2>2. Dirname(p) \in Seq(Names) BY <1>3, FrontLast
  <2>3. Sought(g) = p BY DEF Sought, Frames
  <2>4. FrameOK(g)
    BY <1>1, <1>3, <2>2, <2>3 DEF FrameOK, Frames, Phases, Walking, Kinds
  <2> HIDE DEF g
  <2> QED BY <2>1, <2>4, QuietStep
<1> QED BY <1>2, <1>3

-----------------------------------------------------------------------------
(* What the library does to the tree.                                      *)

\* A new entry goes into a free block, which the root is not.
LEMMA CreateKeeps ==
  ASSUME TreeTypeOK, RootSafe, NEW d \in Sectors, NEW n, NEW k \in Kinds,
         CreateEntry(d, n, k)
  PROVE  TreeTypeOK' /\ RootSafe'
<1>1. PICK s \in Sectors :
        /\ kind[s] = "free"
        /\ kind' = [kind EXCEPT ![s] = k]
        /\ entry' = [entry EXCEPT ![d][n] = s, ![s] = EmptyTable]
  BY DEF CreateEntry
<1>2. s # Root BY <1>1 DEF RootSafe
<1>3. EmptyTable \in Tables BY DEF EmptyTable, Tables
<1>4. kind' \in [Sectors -> Kinds] /\ kind'[Root] = "dir"
  BY <1>1, <1>2, VolumeAssumption DEF TreeTypeOK, RootSafe
<1>5. [entry[d] EXCEPT ![n] = s] \in Tables BY DEF TreeTypeOK, Tables
<1>6. entry' \in [Sectors -> Tables] BY <1>1, <1>3, <1>5 DEF TreeTypeOK
<1>7. \A x \in Sectors, m \in Names : entry'[x][m] # Root
  BY <1>1, <1>2, VolumeAssumption DEF TreeTypeOK, RootSafe, EmptyTable, Tables
<1> QED BY <1>4, <1>6, <1>7 DEF TreeTypeOK, RootSafe

\* The root, being no entry, is never the block that is removed.
LEMMA RemoveKeeps ==
  ASSUME TreeTypeOK, RootSafe, NEW d \in Sectors, NEW n, RemoveEntry(d, n)
  PROVE  TreeTypeOK' /\ RootSafe'
<1>1. PICK m \in Matching(d, n) :
        /\ kind' = [kind EXCEPT ![entry[d][m]] = "free"]
        /\ entry' = [entry EXCEPT ![d][m] = NoSector]
  BY DEF RemoveEntry
<1>2. m \in Names /\ entry[d][m] # Root BY DEF Matching, RootSafe
<1>3. kind' \in [Sectors -> Kinds] /\ kind'[Root] = "dir"
  BY <1>1, <1>2, VolumeAssumption DEF TreeTypeOK, RootSafe, Kinds
<1>4. entry' \in [Sectors -> Tables] BY <1>1, <1>2 DEF TreeTypeOK, Tables
<1>5. \A x \in Sectors, l \in Names : entry'[x][l] # Root
  BY <1>1, <1>2, VolumeAssumption DEF TreeTypeOK, RootSafe, Tables
<1> QED BY <1>3, <1>4, <1>5 DEF TreeTypeOK, RootSafe

\* A renamed entry keeps its sector.
LEMMA RenameKeeps ==
  ASSUME TreeTypeOK, RootSafe, NEW d \in Sectors, NEW n, NEW e \in Sectors, NEW m,
         RenameEntry(d, n, e, m)
  PROVE  TreeTypeOK' /\ RootSafe' /\ UNCHANGED kind
<1>1. PICK o \in Matching(d, n) :
        /\ entry' = [[entry EXCEPT ![d][o] = NoSector] EXCEPT ![e][m] = entry[d][o]]
        /\ UNCHANGED kind
  BY DEF RenameEntry
<1> DEFINE s == entry[d][o]
           cut == [entry EXCEPT ![d][o] = NoSector]
<1>2. o \in Names /\ s \in Sectors /\ s # Root
  BY DEF Matching, RootSafe, TreeTypeOK, Tables
<1>3. cut \in [Sectors -> Tables] BY <1>2 DEF TreeTypeOK, Tables
<1>4. \A x \in Sectors, l \in Names : cut[x][l] # Root
  BY <1>2, VolumeAssumption DEF TreeTypeOK, RootSafe, Tables
<1>5. entry' = [cut EXCEPT ![e][m] = s] BY <1>1
<1> HIDE DEF cut, s
<1>6. [cut[e] EXCEPT ![m] = s] \in Tables BY <1>2, <1>3 DEF Tables
<1>7. entry' \in [Sectors -> Tables] BY <1>3, <1>5, <1>6
<1>8. \A x \in Sectors, l \in Names : entry'[x][l] # Root
  BY <1>2, <1>3, <1>4, <1>5 DEF Tables
<1> QED BY <1>1, <1>7, <1>8 DEF TreeTypeOK, RootSafe

-----------------------------------------------------------------------------
(* Every step keeps the invariant.                                         *)

\* FUSE hands a thread a request.
LEMMA BeginKeeps ==
  ASSUME Ind, NEW t \in Threads, Begin(t)
  PROVE  Ind'
<1> USE AdffsAssumption
<1>1. <<>> \in Seq(Names) /\ cwd \in Seq(Names) BY EmptySeq DEF Ind, Places
<1>2. \A p \in Paths : p \in Seq(Names) /\ (p # <<>> => Dirname(p) \in Seq(Names))
  BY FrontLast
<1>3. \A op \in Ops, p \in Paths : Request(op, p, <<>>) \in Frames
  BY <1>1, NewRequest
<1>4. CASE GetattrRoot(t)
  <2> DEFINE f == [Request("getattr", <<>>, <<>>) EXCEPT
                     !.node = Root, !.type = "dir",
                     !.base = curDir, !.size = Cardinality(DirEnt(curDir))]
             g == [f EXCEPT !.pc = "done", !.todo = <<>>, !.status = "ok"]
  <2>1. Set(t, g) /\ StayHere /\ UNCHANGED tree
    BY <1>4 DEF GetattrRoot, Finish
  <2>2. "getattr" \in Ops /\ "ok" \in Statuses BY DEF Ops, Statuses
  <2>3. Request("getattr", <<>>, <<>>) \in Frames BY <1>1, <2>2, NewRequest
  <2>4. curDir \in Sectors /\ Cardinality(DirEnt(curDir)) \in Nat
    BY Counted_Nat DEF Ind, Places
  <2>5. f \in Frames /\ f.op = "getattr" /\ f.node = Root
    BY <2>3, <2>4, VolumeAssumption DEF Frames, Kinds, Request
  <2>6. FrameOK(g)
    <3> HIDE DEF f
    <3> QED BY <2>2, <2>5, FinishedFrame, VolumeAssumption
  <2> HIDE DEF g
  <2> QED BY <2>1, <2>6, QuietStep
<1>5. CASE Getattr(t)
  <2>1. PICK p \in Paths \ {<<>>} :
          Set(t, [Request("getattr", p, <<>>) EXCEPT !.pc = "enter", !.todo = Dirname(p)])
    BY <1>5 DEF Getattr
  <2> DEFINE g == [Request("getattr", p, <<>>) EXCEPT !.pc = "enter", !.todo = Dirname(p)]
  <2>2. FrameOK(g)
    BY <1>1, <1>2, <1>3, <2>1
    DEF FrameOK, Frames, Phases, Walking, Request, Ops, Sought
  <2>3. ChdirFromRoot /\ UNCHANGED tree BY <1>5 DEF Getattr
  <2> HIDE DEF g
  <2> QED BY <2>1, <2>2, <2>3, QuietStep DEF g
<1>6. CASE FileOp(t)
  <2>1. PICK op \in FileOps \cup {"readlink"}, p \in Paths \ {<<>>} :
          Set(t, [Request(op, p, <<>>) EXCEPT
                    !.pc = "enter", !.todo = Dirname(p), !.saved = cwd])
    BY <1>6 DEF FileOp
  <2> DEFINE g == [Request(op, p, <<>>) EXCEPT
                     !.pc = "enter", !.todo = Dirname(p), !.saved = cwd]
  <2>2. op \in Ops \ (Lookups \cup {"getattr"})
    BY DEF Ops, FileOps, Lookups
  <2>3. FrameOK(g)
    BY <1>1, <1>2, <1>3, <2>2
    DEF FrameOK, Frames, Phases, Walking, Request, Lookups
  <2>4. ChdirFromRoot /\ UNCHANGED tree BY <1>6 DEF FileOp
  <2> QED BY <2>1, <2>3, <2>4, QuietStep
<1>7. CASE Readdir(t)
  <2>1. PICK p \in Paths :
          Set(t, [Request("readdir", p, <<>>) EXCEPT !.pc = "enter", !.todo = p])
    BY <1>7 DEF Readdir
  <2> DEFINE g == [Request("readdir", p, <<>>) EXCEPT !.pc = "enter", !.todo = p]
  <2>2. FrameOK(g)
    BY <1>2, <1>3 DEF FrameOK, Frames, Phases, Walking, Request, Ops, Lookups
  <2>3. ChdirFromRoot /\ UNCHANGED tree BY <1>7 DEF Readdir
  <2> QED BY <2>1, <2>2, <2>3, QuietStep
<1>8. CASE EntryOp(t)
  <2>1. PICK op \in EntryOps, p \in Paths \ {<<>>} :
          Set(t, [Request(op, p, <<>>) EXCEPT !.pc = "enter", !.todo = Dirname(p)])
    BY <1>8 DEF EntryOp
  <2> DEFINE g == [Request(op, p, <<>>) EXCEPT !.pc = "enter", !.todo = Dirname(p)]
  <2>2. op \in Ops \ (Lookups \cup {"getattr"})
    BY DEF Ops, EntryOps, Lookups
  <2>3. FrameOK(g)
    BY <1>2, <1>3, <2>2 DEF FrameOK, Frames, Phases, Walking, Request, Lookups
  <2>4. ToRootDir /\ UNCHANGED tree BY <1>8 DEF EntryOp
  <2> QED BY <2>1, <2>3, <2>4, QuietStep
<1>9. CASE Chmod(t)
  <2>1. PICK p \in Paths : BeginLookup(t, Request("chmod", p, <<>>), p)
    BY <1>9 DEF Chmod
  <2>2. /\ Request("chmod", p, <<>>) \in Frames
        /\ Request("chmod", p, <<>>).type = "free"
        /\ Request("chmod", p, <<>>).op = "chmod" /\ "chmod" \in Lookups
        /\ Sought(Request("chmod", p, <<>>)) = p
    BY <1>3 DEF Request, Sought, Ops, Lookups
  <2>3. UNCHANGED tree BY <1>9 DEF Chmod
  <2> QED BY <1>2, <2>1, <2>2, <2>3, LookupBegins
<1>10. CASE Rename(t)
  <2>1. PICK r \in Renames :
          BeginLookup(t, Request("rename", r[1], r[2]), Dirname(r[1]))
    BY <1>10 DEF Rename
  <2>2. /\ r[1] \in Seq(Names) /\ r[1] # <<>>
        /\ r[2] \in Seq(Names) /\ r[2] # <<>>
    OBVIOUS
  <2> DEFINE f == Request("rename", r[1], r[2])
  <2>3. "rename" \in Ops BY DEF Ops, Lookups
  <2>4. f \in Frames BY <2>2, <2>3, NewRequest
  <2>5. /\ f.type = "free" /\ f.path # <<>> /\ f.to # <<>>
        /\ f.op \in Lookups /\ Sought(f) = Dirname(r[1])
    BY <2>2 DEF Request, Sought, Lookups
  <2>6. Dirname(r[1]) \in Seq(Names) BY <2>2, FrontLast
  <2>7. UNCHANGED tree BY <1>10 DEF Rename
  <2> HIDE DEF f
  <2> QED BY <2>1, <2>4, <2>5, <2>6, <2>7, LookupBegins DEF f
<1> QED BY <1>4, <1>5, <1>6, <1>7, <1>8, <1>9, <1>10 DEF Begin

\* A handler that returns and leaves the tree alone.
LEMMA QuietFinish ==
  ASSUME Ind, NEW t \in Threads, NEW f \in Frames, NEW status \in Statuses \ {"none"},
         f.type # "free" => f.node \in Sectors,
         f.op = "rename" => f.path # <<>> /\ f.to # <<>>,
         Finish(t, f, status),
         StayHere \/ ToRootDir \/ ChdirFromRoot, UNCHANGED tree
  PROVE  Ind'
<1> DEFINE g == [f EXCEPT !.pc = "done", !.todo = <<>>, !.status = status]
<1>1. FrameOK(g) BY FinishedFrame
<1>2. Set(t, g) BY DEF Finish
<1> HIDE DEF g
<1> QED BY <1>1, <1>2, QuietStep

\* The loop of adfimage_chdir.
LEMMA ChdirKeeps ==
  ASSUME Ind, NEW t \in Threads,
         ChangeDir(t) \/ ChdirFails(t) \/ ChdirIgnored(t)
  PROVE  Ind'
<1> DEFINE f == call[t]
<1>1. FrameOK(f) /\ f \in Frames BY DEF Ind, FramesOK, FrameOK
<1>2. f.todo \in Seq(Names) /\ cwd \in Seq(Names) /\ <<>> \in Seq(Names)
  BY <1>1, EmptySeq DEF Frames, Ind, Places
<1>3. CASE ChangeDir(t)
  <2> DEFINE g == [f EXCEPT !.todo = Tail(f.todo)]
             n == Head(f.todo)
  <2>1. /\ f.pc \in Walking /\ f.todo # <<>>
        /\ CanEnter(curDir, n)
        /\ curDir' = Entered(curDir, n)
        /\ cwd' = Append(cwd, n)
        /\ Set(t, g) /\ UNCHANGED tree
    BY <1>3 DEF ChangeDir
  <2>2. n \in Names /\ Tail(f.todo) \in Seq(Names)
    BY <1>2, <2>1, HeadTailProperties
  <2>3. Sought(g) = Sought(f) BY <1>1 DEF Sought, Frames
  <2>4. FrameOK(g)
    BY <1>1, <2>1, <2>2, <2>3 DEF FrameOK, Frames, Walking
  <2>5. FramesOK'
    <3> HIDE DEF g
    <3> QED BY <2>1, <2>4, SetFrame DEF Ind
  <2>6. curDir' \in Sectors /\ kind[curDir'] = "dir"
    BY <2>1, EntryFound DEF Ind, Places, CanEnter, Entered
  <2>7. cwd' \in Seq(Names) BY <1>2, <2>1, <2>2, AppendProperties
  <2> QED BY <2>1, <2>5, <2>6, <2>7, SameTree DEF Places
<1>4. CASE ChdirFails(t)
  <2>1. ChdirError(f.op) \in Statuses \ {"none"} BY DEF ChdirError, Statuses, Errors
  <2>2. Finish(t, f, ChdirError(f.op)) /\ (StayHere \/ ToRootDir) /\ UNCHANGED tree
    BY <1>4 DEF ChdirFails
  <2> HIDE DEF f
  <2> QED BY <1>1, <2>1, <2>2, QuietFinish DEF FrameOK
<1>5. CASE ChdirIgnored(t)
  <2> DEFINE g == [f EXCEPT !.todo = <<>>]
  <2>1. f.pc \in Walking /\ Set(t, g) /\ StayHere /\ UNCHANGED tree
    BY <1>5 DEF ChdirIgnored
  <2>2. Sought(g) = Sought(f) BY <1>1 DEF Sought, Frames
  <2>3. FrameOK(g) BY <1>1, <1>2, <2>1, <2>2 DEF FrameOK, Frames, Walking
  <2> HIDE DEF g
  <2> QED BY <2>1, <2>3, QuietStep
<1> QED BY <1>3, <1>4, <1>5

\* open, read, write, truncate and readlink.
LEMMA FileKeeps ==
  ASSUME Ind, NEW t \in Threads,
         OpenFile(t) \/ OpenFails(t) \/ ReadLink(t) \/ Restored(t)
  PROVE  Ind'
<1> DEFINE f == call[t]
           n == Basename(f.path)
<1>1. FrameOK(f) /\ f \in Frames BY DEF Ind, FramesOK, FrameOK
<1>2. TreeTypeOK /\ curDir \in Sectors BY DEF Ind, Places
<1>3. CASE OpenFile(t)
  <2> DEFINE g == [f EXCEPT !.pc = "back", !.todo = f.saved,
                            !.node = Opened(curDir, n), !.type = "file", !.status = "ok"]
  <2>1. CanOpen(curDir, n, f.op \in Writers) /\ Set(t, g) /\ ChdirFromRoot /\ UNCHANGED tree
    BY <1>3 DEF OpenFile
  <2>2. Opened(curDir, n) \in Sectors
    BY <1>2, <2>1, EntryFound DEF CanOpen, Opened
  <2>3. /\ f.saved \in Seq(Names)
        /\ "back" \in Phases /\ "file" \in Kinds /\ "ok" \in Statuses
    BY <1>1 DEF Frames, Phases, Walking, Kinds, Statuses
  <2>4. g \in Frames
    <3> HIDE DEF f, n
    <3> QED BY <1>1, <2>2, <2>3 DEF Frames
  <2>5. /\ g.pc = "back" /\ g.op = f.op /\ g.path = f.path /\ g.to = f.to
        /\ g.node = Opened(curDir, n) /\ g.type = "file" /\ g.status = "ok"
    <3> HIDE DEF f, n
    <3> QED BY <1>1 DEF Frames
  <2> HIDE DEF g, f, n
  <2>6. FrameOK(g)
    BY <1>1, <2>2, <2>4, <2>5 DEF FrameOK
  <2> QED BY <2>1, <2>6, QuietStep DEF f
<1>4. CASE OpenFails(t)
  <2>1. PICK status \in {"EPERM", "ENOENT"} :
          Finish(t, f, status) /\ StayHere /\ UNCHANGED tree
    BY <1>4 DEF OpenFails
  <2>2. status \in Statuses \ {"none"} BY <2>1 DEF Statuses, Errors
  <2> HIDE DEF f
  <2> QED BY <1>1, <2>1, <2>2, QuietFinish DEF FrameOK
<1>5. CASE ReadLink(t)
  <2> DEFINE gone == Matching(curDir, n) = {}
             s == IF gone THEN NoSector ELSE EntryOf(curDir, n)
             k == IF gone THEN "free" ELSE kind[s]
  <2>1. PICK status \in {"ENOENT", "ok", "ESRCH"} :
          Set(t, [f EXCEPT !.pc = "back", !.todo = f.saved,
                           !.node = s, !.type = k, !.status = status])
    BY <1>5 DEF ReadLink
  <2>2. ChdirFromRoot /\ UNCHANGED tree BY <1>5 DEF ReadLink
  <2>3. /\ s \in Sectors \cup {NoSector} /\ k \in Kinds
        /\ k # "free" => s \in Sectors
    BY <1>2, EntryFound DEF TreeTypeOK, Kinds
  <2> HIDE DEF s, k
  <2> DEFINE g == [f EXCEPT !.pc = "back", !.todo = f.saved,
                            !.node = s, !.type = k, !.status = status]
  <2>4. /\ f.saved \in Seq(Names) /\ "back" \in Phases
        /\ {"ENOENT", "ok", "ESRCH"} \subseteq Statuses \ {"none"}
    BY <1>1 DEF Frames, Phases, Walking, Statuses, Errors
  <2>5. g \in Frames
    <3> HIDE DEF f
    <3> QED BY <1>1, <2>1, <2>3, <2>4 DEF Frames
  <2>6. /\ g.pc = "back" /\ g.op = f.op /\ g.path = f.path /\ g.to = f.to
        /\ g.node = s /\ g.type = k /\ g.status = status
    <3> HIDE DEF f
    <3> QED BY <1>1 DEF Frames
  <2>7. FrameOK(g)
    <3> HIDE DEF f, g
    <3> QED BY <1>1, <2>1, <2>3, <2>4, <2>5, <2>6 DEF FrameOK
  <2> HIDE DEF g
  <2> QED BY <2>1, <2>2, <2>7, QuietStep DEF g
<1>6. CASE Restored(t)
  <2>1. PICK status \in IF f.op = "truncate" THEN {"ok", "EPERM"} ELSE {f.status} :
          Finish(t, f, status)
    BY <1>6 DEF Restored
  <2>2. StayHere /\ UNCHANGED tree /\ f.status # "none"
    BY <1>1, <1>6 DEF Restored, Arrived, FrameOK
  <2>3. status \in Statuses \ {"none"}
    BY <1>1, <2>1, <2>2 DEF Frames, Statuses, Errors
  <2> HIDE DEF f
  <2> QED BY <1>1, <2>1, <2>2, <2>3, QuietFinish DEF FrameOK
<1> QED BY <1>3, <1>4, <1>5, <1>6

\* A handler that has changed the tree and returns it to its root.
LEMMA EntryStep ==
  ASSUME Ind, NEW t \in Threads, NEW f \in Frames, NEW status \in Statuses \ {"none"},
         f.type # "free" => f.node \in Sectors, f.op # "rename",
         Finish(t, f, status), ToRootDir, TreeTypeOK', RootSafe'
  PROVE  Ind'
<1> DEFINE g == [f EXCEPT !.pc = "done", !.todo = <<>>, !.status = status]
<1>1. FrameOK(g) BY FinishedFrame
<1>2. Set(t, g) BY DEF Finish
<1>3. FramesOK'
  <2> HIDE DEF g
  <2> QED BY <1>1, <1>2, SetFrame DEF Ind
<1> QED BY <1>3, VolumeAssumption DEF Ind, Places, ToRootDir, CurDirLive, RootSafe

\* readdir, mkdir, create, rmdir and unlink.
LEMMA EntryKeeps ==
  ASSUME Ind, NEW t \in Threads,
         ListDir(t) \/ MakeDir(t) \/ CreateFile(t) \/ RemoveIt(t)
  PROVE  Ind'
<1> DEFINE f == call[t]
           n == Basename(f.path)
           h == [f EXCEPT !.node = curDir, !.type = "dir"]
<1>1. FrameOK(f) /\ f \in Frames BY DEF Ind, FramesOK, FrameOK
<1>2. TreeTypeOK /\ RootSafe /\ curDir \in Sectors BY DEF Ind, Places
<1>3. h \in Frames /\ h.node = curDir /\ h.op = f.op BY <1>1, <1>2 DEF Frames, Kinds
<1>4. {"ok", "rc", "EPERM", "EAGAIN"} \subseteq Statuses \ {"none"}
  BY DEF Statuses, Errors
<1>5. "dir" \in Kinds /\ "file" \in Kinds BY DEF Kinds
<1>6. CASE ListDir(t)
  <2> DEFINE g == [f EXCEPT !.node = curDir, !.type = "dir",
                            !.size = Cardinality(DirEnt(curDir))]
  <2>1. PICK status \in {"ok", "EAGAIN"} : Finish(t, g, status)
    BY <1>6 DEF ListDir
  <2>2. ToRootDir /\ UNCHANGED tree BY <1>6 DEF ListDir
  <2>3. g \in Frames /\ g.node = curDir /\ g.op = "readdir"
    BY <1>1, <1>2, <1>6, Counted_Nat DEF Frames, Kinds, ListDir
  <2> HIDE DEF g
  <2> QED BY <1>2, <1>4, <2>1, <2>2, <2>3, QuietFinish
<1>7. CASE MakeDir(t)
  <2>1. f.op # "rename" /\ ToRootDir BY <1>7 DEF MakeDir
  <2>2. CASE CreateEntry(curDir, n, "dir") /\ Finish(t, h, "ok")
    <3>1. TreeTypeOK' /\ RootSafe' BY <1>2, <1>5, <2>2, CreateKeeps
    <3> HIDE DEF h
    <3> QED BY <1>2, <1>3, <1>4, <2>1, <2>2, <3>1, EntryStep
  <2>3. CASE Finish(t, f, "rc") /\ UNCHANGED tree
    <3> HIDE DEF f
    <3> QED BY <1>1, <1>4, <2>1, <2>3, QuietFinish DEF FrameOK
  <2> QED BY <1>7, <2>2, <2>3 DEF MakeDir
<1>8. CASE CreateFile(t)
  <2>1. f.op # "rename" /\ ToRootDir BY <1>8 DEF CreateFile
  <2>2. CASE CreateEntry(curDir, n, "file") /\ Finish(t, h, "ok")
    <3>1. TreeTypeOK' /\ RootSafe' BY <1>2, <1>5, <2>2, CreateKeeps
    <3> HIDE DEF h
    <3> QED BY <1>2, <1>3, <1>4, <2>1, <2>2, <3>1, EntryStep
  <2>3. CASE Finish(t, f, "EPERM") /\ UNCHANGED tree
    <3> HIDE DEF f
    <3> QED BY <1>1, <1>4, <2>1, <2>3, QuietFinish DEF FrameOK
  <2> QED BY <1>8, <2>2, <2>3 DEF CreateFile
<1>9. CASE RemoveIt(t)
  <2>1. f.op # "rename" /\ ToRootDir BY <1>9 DEF RemoveIt
  <2>2. CASE RemoveEntry(curDir, n) /\ Finish(t, h, "ok")
    <3>1. TreeTypeOK' /\ RootSafe' BY <1>2, <2>2, RemoveKeeps
    <3> HIDE DEF h
    <3> QED BY <1>2, <1>3, <1>4, <2>1, <2>2, <3>1, EntryStep
  <2>3. CASE Finish(t, f, "rc") /\ UNCHANGED tree
    <3> HIDE DEF f
    <3> QED BY <1>1, <1>4, <2>1, <2>3, QuietFinish DEF FrameOK
  <2> QED BY <1>9, <2>2, <2>3 DEF RemoveIt
<1> QED BY <1>6, <1>7, <1>8, <1>9

\* adfimage_getdentry has found its entry, or not.
LEMMA FindKeeps ==
  ASSUME Ind, NEW t \in Threads, Find(t)
  PROVE  Ind'
<1> DEFINE f == call[t]
           s == entry[curDir][Basename(Sought(f))]
           k == IF s = NoSector THEN "free" ELSE kind[s]
<1>1. FrameOK(f) /\ f \in Frames BY DEF Ind, FramesOK, FrameOK
<1>2. TreeTypeOK /\ curDir \in Sectors /\ cwd \in Seq(Names) BY DEF Ind, Places
<1>3. f.op \in Lookups \cup {"getattr"} /\ f.pc = "enter" /\ UNCHANGED tree
  BY DEF Find, Arrived
<1>4. f.op \notin FileOps \cup {"readlink"} BY <1>3 DEF Lookups, FileOps
<1>5. Sought(f) \in Seq(Names) /\ Sought(f) # <<>>
  <2>1. f.path \in Seq(Names) /\ f.to \in Seq(Names) /\ Sought(f) # <<>>
    BY <1>1, <1>3 DEF Frames, FrameOK
  <2> QED BY <1>1, <2>1, FrontLast DEF Sought, FrameOK
<1>6. s \in Sectors \cup {NoSector}
  BY <1>2, <1>5, FrontLast DEF TreeTypeOK, Tables
<1>7. k \in Kinds /\ (k # "free" => s \in Sectors)
  BY <1>2, <1>6 DEF TreeTypeOK, Kinds
<1> HIDE DEF s, k
<1>8. CASE DirEnt(curDir) = {}
  <2> DEFINE g == [f EXCEPT !.pc = "back", !.node = NoSector, !.type = "free"]
  <2>1. Set(t, g) /\ StayHere BY <1>8 DEF Find
  <2>2. FrameOK(g) BY <1>1, <1>4 DEF FrameOK, Frames, Phases, Walking, Kinds
  <2> HIDE DEF g
  <2> QED BY <1>3, <2>1, <2>2, QuietStep
<1>9. CASE DirEnt(curDir) # {}
  <2> DEFINE back == IF f.op = "getattr" THEN cwd ELSE f.saved
             g == [f EXCEPT !.pc = "back", !.todo = back, !.node = s, !.type = k]
  <2>1. Set(t, g) /\ ChdirFromRoot BY <1>9 DEF Find, ListFind, s, k
  <2>2. back \in Seq(Names) BY <1>1, <1>2 DEF Frames
  <2> HIDE DEF back
  <2>3. FrameOK(g)
    BY <1>1, <1>4, <1>6, <1>7, <2>2 DEF FrameOK, Frames, Phases, Walking
  <2> HIDE DEF g
  <2> QED BY <1>3, <2>1, <2>3, QuietStep
<1> QED BY <1>8, <1>9

\* adffs_getattr, once adfimage_getdentry has returned.
LEMMA StatKeeps ==
  ASSUME Ind, NEW t \in Threads,
         StatEntry(t) \/ StatDir(t) \/ CountEntries(t) \/ Counted(t)
  PROVE  Ind'
<1> DEFINE f == call[t]
           n == Basename(f.path)
<1>1. FrameOK(f) /\ f \in Frames BY DEF Ind, FramesOK, FrameOK
<1>2. TreeTypeOK /\ curDir \in Sectors /\ cwd \in Seq(Names) BY DEF Ind, Places
<1>3. "ok" \in Statuses \ {"none"} /\ "ENOENT" \in Statuses \ {"none"}
  BY DEF Statuses, Errors
<1>4. CASE StatEntry(t)
  <2>1. ToRootDir /\ UNCHANGED tree /\ f.op = "getattr" BY <1>4 DEF StatEntry
  <2>2. CASE Finish(t, f, "ENOENT") \/ Finish(t, f, "ok")
    <3> HIDE DEF f
    <3> QED BY <1>1, <1>3, <2>1, <2>2, QuietFinish DEF FrameOK
  <2>3. CASE /\ CanOpen(curDir, n, FALSE)
             /\ Finish(t, [f EXCEPT !.base = Opened(curDir, n)], "ok")
    <3> DEFINE g == [f EXCEPT !.base = Opened(curDir, n)]
    <3>1. Opened(curDir, n) \in Sectors
      BY <1>2, <2>3, EntryFound DEF CanOpen, Opened
    <3>2. /\ g \in Frames /\ g.op = "getattr"
          /\ g.type # "free" => g.node \in Sectors
      BY <1>1, <2>1, <3>1 DEF Frames, FrameOK
    <3>3. Finish(t, g, "ok") BY <2>3
    <3> HIDE DEF g
    <3> QED BY <1>3, <2>1, <3>2, <3>3, QuietFinish
  <2> QED BY <1>4, <2>2, <2>3 DEF StatEntry
<1>5. CASE StatDir(t)
  <2> DEFINE g == [f EXCEPT !.pc = "into", !.todo = f.path, !.saved = cwd]
  <2>1. Set(t, g) /\ ChdirFromRoot /\ UNCHANGED tree BY <1>5 DEF StatDir
  <2>2. FrameOK(g) BY <1>1, <1>2 DEF FrameOK, Frames, Phases, Walking
  <2> HIDE DEF g
  <2> QED BY <2>1, <2>2, QuietStep
<1>6. CASE CountEntries(t)
  <2> DEFINE g == [f EXCEPT !.pc = "out", !.todo = f.saved, !.base = curDir,
                            !.size = Cardinality(DirEnt(curDir))]
  <2>1. Set(t, g) /\ ChdirFromRoot /\ UNCHANGED tree BY <1>6 DEF CountEntries
  <2>2. FrameOK(g)
    BY <1>1, <1>2, Counted_Nat DEF FrameOK, Frames, Phases, Walking
  <2> HIDE DEF g
  <2> QED BY <2>1, <2>2, QuietStep
<1>7. CASE Counted(t)
  <2>1. Finish(t, f, "ok") /\ ToRootDir /\ UNCHANGED tree BY <1>7 DEF Counted
  <2> HIDE DEF f
  <2> QED BY <1>1, <1>3, <2>1, QuietFinish DEF FrameOK
<1> QED BY <1>4, <1>5, <1>6, <1>7

\* chmod and rename, once adfimage_getdentry has returned.
LEMMA LookupKeeps ==
  ASSUME Ind, NEW t \in Threads,
         SetPerm(t) \/ NoParent(t) \/ SourceFound(t) \/ RenameIt(t)
  PROVE  Ind'
<1> DEFINE f == call[t]
<1>1. FrameOK(f) /\ f \in Frames BY DEF Ind, FramesOK, FrameOK
<1>2. TreeTypeOK /\ RootSafe /\ curDir \in Sectors BY DEF Ind, Places
<1>3. {"ok", "+EINVAL", "ENOENT", "EINVAL", "EPERM"} \subseteq Statuses \ {"none"}
  BY DEF Statuses, Errors
<1>4. f.type \in {"dir", "ldir"} => ParentSector(f) \in Sectors
  BY <1>1, VolumeAssumption DEF FrameOK, ParentSector
<1>5. CASE SetPerm(t)
  <2>1. PICK status \in {"ok", "+EINVAL"} : Finish(t, f, status)
    BY <1>5 DEF SetPerm
  <2>2. StayHere /\ UNCHANGED tree BY <1>5 DEF SetPerm
  <2> HIDE DEF f
  <2> QED BY <1>1, <1>3, <2>1, <2>2, QuietFinish DEF FrameOK
<1>6. CASE NoParent(t)
  <2>1. PICK status \in {"ENOENT", "EINVAL"} : Finish(t, f, status)
    BY <1>6 DEF NoParent
  <2>2. StayHere /\ UNCHANGED tree BY <1>6 DEF NoParent
  <2> HIDE DEF f
  <2> QED BY <1>1, <1>3, <2>1, <2>2, QuietFinish DEF FrameOK
<1>7. CASE SourceFound(t)
  <2> DEFINE g == [f EXCEPT !.base = ParentSector(f)]
             p == Dirname(f.to)
  <2>1. BeginLookup(t, g, p) /\ UNCHANGED tree BY <1>7 DEF SourceFound
  <2>2. f.op = "rename" /\ f.type \in {"dir", "ldir"} BY <1>7 DEF SourceFound
  <2>3. f.path # <<>> /\ f.to # <<>> /\ f.to \in Seq(Names)
    BY <1>1, <2>2 DEF FrameOK, Frames
  <2>4. p \in Seq(Names) BY <2>3, FrontLast
  <2>5. /\ g \in Frames /\ g.op = "rename" /\ g.type = f.type /\ g.node = f.node
        /\ g.path = f.path /\ g.to = f.to /\ g.base = ParentSector(f)
    BY <1>1, <1>4, <2>2 DEF Frames
  <2>6. Sought(g) = p BY <1>4, <2>2, <2>5, VolumeAssumption DEF Sought
  <2>7. g.type # "free" => g.node \in Sectors BY <1>1, <2>5 DEF FrameOK
  <2>8. "rename" \in Lookups BY DEF Lookups
  <2> HIDE DEF g, p
  <2> QED BY <2>1, <2>3, <2>4, <2>5, <2>6, <2>7, <2>8, LookupBegins
<1>8. CASE RenameIt(t)
  <2>1. f.op = "rename" /\ f.type \in {"dir", "ldir"} /\ StayHere /\ f.base # NoSector
    BY <1>8 DEF RenameIt
  <2>2. CASE /\ RenameEntry(f.base, Basename(f.path), ParentSector(f), Basename(f.to))
             /\ Finish(t, f, "ok")
    <3>1. f.base \in Sectors BY <1>1, <2>1 DEF Frames
    <3>2. TreeTypeOK' /\ RootSafe' /\ UNCHANGED kind
      BY <1>2, <1>4, <2>1, <2>2, <3>1, RenameKeeps
    <3> DEFINE g == [f EXCEPT !.pc = "done", !.todo = <<>>, !.status = "ok"]
    <3>3. FrameOK(g)
      <4> HIDE DEF f
      <4> QED BY <1>1, <1>3, FinishedFrame DEF FrameOK
    <3>4. Set(t, g) BY <2>2 DEF Finish
    <3>5. FramesOK'
      <4> HIDE DEF g
      <4> QED BY <3>3, <3>4, SetFrame DEF Ind
    <3> QED BY <2>1, <3>2, <3>5 DEF Ind, Places, StayHere, CurDirLive
  <2>3. CASE Finish(t, f, "EPERM") /\ UNCHANGED tree
    <3> HIDE DEF f
    <3> QED BY <1>1, <1>3, <2>1, <2>3, QuietFinish DEF FrameOK
  <2> QED BY <1>8, <2>2, <2>3 DEF RenameIt
<1> QED BY <1>5, <1>6, <1>7, <1>8

\* A frame that is gone is a fresh one.
LEMMA IdleOK == FrameOK(Idle)
<1>1. Idle \in Frames BY NewRequest, EmptySeq DEF Idle
<1> QED BY <1>1 DEF FrameOK, Idle, Request, Lookups, FileOps

\* The handler returns.
LEMMA ReplyKeeps ==
  ASSUME Ind, NEW t \in Threads, Reply(t)
  PROVE  Ind'
<1>1. Set(t, Idle) /\ StayHere /\ UNCHANGED tree BY DEF Reply
<1> QED BY <1>1, IdleOK, QuietStep

-----------------------------------------------------------------------------
(* The theorems.                                                           *)

\* A volume that has just been mounted satisfies the invariant.
LEMMA InitInd == Init => Ind
<1> SUFFICES ASSUME Init PROVE Ind OBVIOUS
<1>1. PICK img \in Images : kind = img.kind /\ entry = img.entry
  BY DEF Init, TreeInit
<1>2. WellFormed(img) BY VolumeAssumption
<1>3. TreeTypeOK /\ RootSafe
  BY <1>1, <1>2 DEF WellFormed, TreeTypeOK, RootSafe
<1>4. Places BY EmptySeq, VolumeAssumption DEF Init, Places
<1>5. FramesOK BY IdleOK DEF Init, FramesOK
<1>6. CurDirLive BY <1>3 DEF Init, RootSafe, CurDirLive
<1> QED BY <1>3, <1>4, <1>5, <1>6 DEF Ind

\* So does every state a step leads to.
LEMMA NextInd == Ind /\ [Next]_vars => Ind'
<1> SUFFICES ASSUME Ind, [Next]_vars PROVE Ind' OBVIOUS
<1>1. CASE UNCHANGED vars
  BY <1>1 DEF vars, Ind, TreeTypeOK, Places, FramesOK, FrameOK, Sought,
              RootSafe, CurDirLive
<1>2. CASE Next
  <2>1. PICK t \in Threads : Begin(t) \/ Handler(t) BY <1>2 DEF Next
  <2> QED BY <2>1, BeginKeeps, ChdirKeeps, FileKeeps, EntryKeeps, FindKeeps,
             StatKeeps, LookupKeeps, ReplyKeeps DEF Handler
<1> QED BY <1>1, <1>2

\* The invariant says at least what the two properties say.
LEMMA IndImplies == Ind => TypeOK /\ CurDirLive
BY DEF Ind, TypeOK, Places, FramesOK, FrameOK

LEMMA SpecInd == Spec => []Ind
BY InitInd, NextInd, PTL DEF Spec

\* Every variable keeps its type, no thread keeps anything of the request it
\* has served, and no handler returns without a result, for every volume, set
\* of requests and number of threads.
THEOREM TypeCorrect == Spec => []TypeOK
BY SpecInd, IndImplies, PTL

\* vol->curDirPtr always names a directory, so that the next relative walk or
\* listing (adfimage.c:138, 268, 601, 695, 737, 806) reads a directory block.
THEOREM CurrentDirectoryLive == Spec => []CurDirLive
BY SpecInd, IndImplies, PTL

=============================================================================
