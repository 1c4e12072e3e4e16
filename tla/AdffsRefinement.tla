-------------------------- MODULE AdffsRefinement --------------------------
(***************************************************************************)
(* With -s, and where the kernel has looked up the paths of a chmod and of *)
(* a rename, the handlers implement PathFs, for every volume, set of paths *)
(* and of threads: the state they share never shows.                       *)
(***************************************************************************)
EXTENDS AdffsPathProofs, WellFoundedInduction

-----------------------------------------------------------------------------
(* A path leads to one sector.                                             *)

\* Every set of numbers that is not empty has a least element.
LEMMA LeastNumber ==
  ASSUME NEW S \in SUBSET Nat, S # {}
  PROVE  \E i \in S : \A j \in S : ~(j < i)
<1>1. \E i \in S : \A j \in S : ~(<<j, i>> \in OpToRel(<, Nat))
  BY NatLessThanWellFounded, WFMin
<1> QED BY <1>1 DEF OpToRel

\* Two trails agree as far as their paths do.
LEMMA SameStart ==
  ASSUME NEW p \in Seq(Names), NEW q \in Seq(Names), NEW tr, NEW ts,
         Trail(tr, p), Trail(ts, q), NEW k \in Nat, k <= Len(p), k <= Len(q),
         \A i \in 1..k : p[i] = q[i]
  PROVE  \A i \in 0..k : tr[i] = ts[i]
<1>1. PICK S : S = {i \in 0..k : tr[i] # ts[i]}
  OBVIOUS
<1>2. SUFFICES ASSUME S # {} PROVE FALSE
  BY <1>1
<1>3. PICK i \in S : \A j \in S : ~(j < i)
  <2>1. S \in SUBSET Nat
    BY <1>1
  <2> QED BY <1>2, <2>1, LeastNumber
<1>4. i # 0 /\ i \in 0..k /\ tr[i] # ts[i]
  BY <1>1, <1>3 DEF Trail
<1>5. i \in 1..k /\ i \in 1..Len(p) /\ i \in 1..Len(q) /\ i - 1 \in 0..k /\ i - 1 < i
  BY <1>4
<1>6. tr[i - 1] = ts[i - 1]
  BY <1>1, <1>3, <1>5
<1>7. tr[i] = Entered(tr[i - 1], p[i]) /\ ts[i] = Entered(ts[i - 1], q[i])
  BY <1>5 DEF Trail
<1>8. p[i] = q[i]
  BY <1>5
<1> QED BY <1>4, <1>6, <1>7, <1>8

\* A path leads to one sector at most.
LEMMA LeadsUnique ==
  ASSUME NEW p \in Seq(Names), NEW d, NEW e, Leads(p, d), Leads(p, e)
  PROVE  d = e
<1>1. PICK tr : Trail(tr, p) /\ tr[Len(p)] = d
  BY LeadsByTrail
<1>2. PICK ts : Trail(ts, p) /\ ts[Len(p)] = e
  BY LeadsByTrail
<1>3. Len(p) \in Nat /\ Len(p) \in 0..Len(p)
  OBVIOUS
<1>4. tr[Len(p)] = ts[Len(p)]
  BY <1>1, <1>2, <1>3, SameStart
<1> QED BY <1>1, <1>2, <1>4

\* A path leads to a directory.
LEMMA LeadsDir ==
  ASSUME TreeTypeOK, RootSafe, NEW p \in Seq(Names), NEW d, Leads(p, d)
  PROVE  d \in Sectors /\ kind[d] = "dir"
<1>1. PICK tr : Trail(tr, p) /\ tr[Len(p)] = d
  BY LeadsByTrail
<1>2. Len(p) \in Nat
  OBVIOUS
<1>3. d \in Sectors
  BY <1>1, <1>2 DEF Trail
<1>4. CASE Len(p) = 0
  BY <1>1, <1>4 DEF Trail, RootSafe
<1>5. CASE Len(p) # 0
  <2>1. Len(p) \in 1..Len(p)
    BY <1>2, <1>5
  <2> QED BY <1>1, <2>1 DEF Trail, CanEnter, Entered
<1> QED BY <1>3, <1>4, <1>5

\* On its way to a directory that exists, a walk can go on.
LEMMA CanGoOn ==
  ASSUME NEW c \in Seq(Names), NEW r \in Seq(Names), r # <<>>,
         NEW x, Leads(c, x), IsDir(c \o r)
  PROVE  CanEnter(x, Head(r))
<1>1. PICK p : p = c \o r
  OBVIOUS
<1>2. PICK k : k = Len(c)
  OBVIOUS
<1>3. /\ p \in Seq(Names) /\ k \in Nat /\ Len(p) \in Nat /\ k + 1 \in 1..Len(p)
      /\ (k + 1) - 1 = k /\ p[k + 1] = Head(r) /\ \A i \in 1..k : c[i] = p[i]
  BY <1>1, <1>2
<1>4. PICK tr : Trail(tr, p)
  BY <1>1, LeadsByTrail DEF IsDir
<1>5. PICK ts : Trail(ts, c) /\ ts[k] = x
  BY <1>2, LeadsByTrail
<1>6. k <= Len(c) /\ k <= Len(p) /\ k \in 0..k
  BY <1>2, <1>3
<1>7. \A i \in 0..k : ts[i] = tr[i]
  BY <1>3, <1>4, <1>5, <1>6, SameStart
<1>8. CanEnter(tr[(k + 1) - 1], p[k + 1])
  BY <1>3, <1>4 DEF Trail
<1> QED BY <1>3, <1>5, <1>6, <1>7, <1>8

\* A path that has been walked to its last name goes on where that name does.
LEMMA LeadsLast ==
  ASSUME TreeTypeOK, NEW p \in Seq(Names), p # <<>>, NEW d \in Sectors,
         Leads(Dirname(p), d), CanEnter(d, Basename(p))
  PROVE  Leads(p, Entered(d, Basename(p)))
<1>1. Len(p) \in Nat /\ Len(p) - 1 \in 0..Len(p) /\ Len(p) - 1 # Len(p)
      /\ (Len(p) - 1) + 1 = Len(p)
  OBVIOUS
<1>2. SubSeq(p, 1, Len(p)) = Append(Dirname(p), Basename(p))
  BY <1>1, OneMore DEF Dirname, Front, Basename, Last
<1>3. SubSeq(p, 1, Len(p)) = p
  OBVIOUS
<1>4. Dirname(p) \in Seq(Names) /\ Basename(p) \in Names
  BY FrontLast
<1>5. Leads(Append(Dirname(p), Basename(p)), Entered(d, Basename(p)))
  BY <1>4, LeadsOn
<1> QED BY <1>2, <1>3, <1>5

-----------------------------------------------------------------------------
(* PathFs in the terms of Adffs.                                           *)

\* The answer a frame that is done stands for.
Answer(f) == [op |-> f.op, path |-> f.path, to |-> f.to, status |-> f.status,
              node |-> f.node, base |-> f.base, size |-> f.size]

answers == [t \in Threads |-> answerOf(t)]

\* There is an entry at path p, spelled exactly like that, in sector s.
HasEntry(p, s) ==
  s # NoSector /\ \E d \in Sectors : Leads(Dirname(p), d) /\ entry[d][Basename(p)] = s

\* Both count the entries of a directory the same way.
LEMMA SameCount == \A S : Abs!Cardinality(S) = Cardinality(S)
BY DEF Abs!Cardinality, Cardinality

\* The lookups of PathFs are those of Adffs.
LEMMA SameTerms ==
  /\ \A p : Abs!Front(p) = Dirname(p) /\ Abs!Last(p) = Basename(p)
  /\ \A d, n : /\ Abs!Matching(d, n) = Matching(d, n)
               /\ Abs!EntryOf(d, n) = EntryOf(d, n)
               /\ Abs!Opened(d, n) = Opened(d, n)
  /\ \A d, n, w : Abs!CanOpen(d, n, w) <=> CanOpen(d, n, w)
  /\ \A d : Abs!DirEnt(d) = DirEnt(d)
  /\ \A s : Abs!Target(s) = Target(s)
  /\ \A p, d : Abs!Leads(p, d) <=> Leads(p, d)
<1>1. \A p : Abs!Front(p) = Dirname(p) /\ Abs!Last(p) = Basename(p)
  BY DEF Abs!Front, Abs!Last, Dirname, Basename, Front, Last
<1>2. \A s : Abs!Target(s) = Target(s)
  BY DEF Abs!Target, Target
<1>3. \A d, n : Abs!Matching(d, n) = Matching(d, n)
  BY DEF Abs!Matching, Matching
<1>4. \A d, n : Abs!EntryOf(d, n) = EntryOf(d, n)
  BY <1>3 DEF Abs!EntryOf, EntryOf
<1>5. \A d, n : Abs!Entered(d, n) = Entered(d, n) /\ Abs!Opened(d, n) = Opened(d, n)
  BY <1>2, <1>4 DEF Abs!Entered, Entered, Abs!Opened, Opened
<1>6. \A d, n : Abs!CanEnter(d, n) <=> CanEnter(d, n)
  BY <1>2, <1>3, <1>4 DEF Abs!CanEnter, CanEnter
<1>7. \A d, n, w : Abs!CanOpen(d, n, w) <=> CanOpen(d, n, w)
  BY <1>2, <1>3, <1>4 DEF Abs!CanOpen, CanOpen
<1>8. \A d : Abs!DirEnt(d) = DirEnt(d)
  BY DEF Abs!DirEnt, DirEnt
<1>9. \A p, d : Abs!Leads(p, d) <=> Leads(p, d)
  BY <1>5, <1>6 DEF Abs!Leads, Leads
<1> QED BY <1>1, <1>2, <1>3, <1>4, <1>5, <1>7, <1>8, <1>9

\* So are what paths name,
LEMMA SamePlaces ==
  /\ \A p : Abs!IsDir(p) <=> IsDir(p)
  /\ \A p, d : Abs!In(p, d) <=> Leads(Dirname(p), d)
  /\ \A p, s : Abs!Has(p, s) <=> HasEntry(p, s)
BY SameTerms DEF Abs!IsDir, IsDir, Abs!In, Abs!Has, HasEntry

\* and its changes of the tree.
LEMMA SameChanges ==
  /\ \A d, n, k : Abs!CreateEntry(d, n, k) <=> CreateEntry(d, n, k)
  /\ \A d, n : Abs!RemoveEntry(d, n) <=> RemoveEntry(d, n)
  /\ \A d, n, e, m : Abs!RenameEntry(d, n, e, m) <=> RenameEntry(d, n, e, m)
<1>1. \A d, n, k : Abs!CreateEntry(d, n, k) <=> CreateEntry(d, n, k)
  BY SameTerms DEF Abs!CreateEntry, CreateEntry, Abs!EmptyTable, EmptyTable
<1>2. \A d, n : Abs!RemoveEntry(d, n) <=> RemoveEntry(d, n)
  BY SameTerms DEF Abs!RemoveEntry, RemoveEntry
<1>3. ASSUME NEW d, NEW n, NEW e, NEW m
      PROVE  Abs!RenameEntry(d, n, e, m) <=> RenameEntry(d, n, e, m)
  <2>1. Abs!Matching(d, n) = Matching(d, n) /\ Abs!Matching(e, m) = Matching(e, m)
    BY SameTerms
  <2> QED BY ONLY <2>1, Zenon DEF Abs!RenameEntry, RenameEntry
<1> QED BY <1>1, <1>2, <1>3

\* As long as the tree is left alone, entries are where they were.
LEMMA SameEntries ==
  ASSUME UNCHANGED tree
  PROVE  /\ \A p, s : HasEntry(p, s)' <=> HasEntry(p, s)
         /\ \A s : kind'[s] = kind[s] /\ Target(s)' = Target(s)
         /\ \A d : DirEnt(d)' = DirEnt(d)
         /\ \A d, n : Matching(d, n)' = Matching(d, n) /\ EntryOf(d, n)' = EntryOf(d, n)
<1>1. kind' = kind /\ entry' = entry
  BY DEF tree
<1>2. \A d, n : Matching(d, n)' = Matching(d, n)
  BY <1>1 DEF Matching
<1>3. \A d, n : EntryOf(d, n)' = EntryOf(d, n)
  BY <1>1, <1>2 DEF EntryOf
<1>4. \A s : Target(s)' = Target(s)
  BY <1>1 DEF Target
<1>5. \A d : DirEnt(d)' = DirEnt(d)
  BY <1>1 DEF DirEnt
<1>6. \A p, s : HasEntry(p, s)' <=> HasEntry(p, s)
  BY <1>1, SameTrails DEF HasEntry
<1> QED BY <1>1, <1>2, <1>3, <1>4, <1>5, <1>6


-----------------------------------------------------------------------------
(* The inductive invariant, beside Ind and PathInd: what a frame has found *)
(* is what its path names, and its walks end where its path leads.         *)

\* Where the walk of getattr is bound for.
Goal(f) == IF f.pc = "into" THEN f.path ELSE Dirname(f.path)

\* getattr: cwd and the names to enter make up the path walked, on the way
\* back too; the entry found is the one the path names, and the directory
\* counted the one it stands for.
StatOK(f) ==
  f.op = "getattr" /\ f.pc \in Walking =>
    /\ f.path # <<>>
    /\ f.pc # "out" /\ IsDir(Goal(f)) => cwd \o f.todo = Goal(f)
    /\ f.pc \in {"enter", "back"} => f.base = NoSector
    /\ f.pc # "enter" /\ f.type = "free" => \A s : ~HasEntry(f.path, s)
    /\ f.pc # "enter" /\ f.type # "free" =>
         HasEntry(f.path, f.node) /\ kind[f.node] = f.type
    /\ f.pc \in {"into", "out"} => f.type \in {"dir", "ldir"}
    /\ f.pc = "out" /\ kind[Target(f.node)] = "dir" =>
         f.base = Target(f.node) /\ f.size = Cardinality(DirEnt(f.base))

\* readlink: the block read is that of the name in the directory of the path.
LinkOK(f) ==
  f.op = "readlink" /\ f.pc = "back" =>
    \E d \in Sectors :
      /\ Leads(Dirname(f.path), d)
      /\ \/ Matching(d, Basename(f.path)) = {} /\ f.status = "ENOENT"
         \/ /\ Matching(d, Basename(f.path)) # {}
            /\ f.status \in {"ok", "ESRCH"}
            /\ f.node = EntryOf(d, Basename(f.path))

\* chmod: the entry found is the one the path names.
PermOK(f) ==
  f.op = "chmod" /\ f.pc \in Walking =>
    /\ f.path = <<>> \/ IsDir(Dirname(f.path))
    /\ f.pc = "back" /\ f.type # "free" =>
         IF f.path = <<>> THEN f.node = Root ELSE HasEntry(f.path, f.node)

\* open, read, write and truncate: nothing but an open file is worked on.
UseOK(f) == f.op \in FileOps /\ f.pc = "back" => f.type = "file" /\ f.status = "ok"

FrameRef(f) ==
  /\ f.pc # "idle" => f.op # "none"
  /\ StatOK(f) /\ LinkOK(f) /\ PermOK(f) /\ UseOK(f)

RefInd == \A t \in Threads : \A f \in {call[t]} : FrameRef(f)

\* What a step of Adffs must be.
RefStep == RefInd' /\ [Abs!Next]_<<kind, entry, answers>>

\* A frame that is done, or gone, has nothing to prove any more.
LEMMA NothingToFind ==
  ASSUME NEW f, f.pc \in {"idle", "done"}, f.pc = "done" => f.op # "none"
  PROVE  FrameRef(f)'
BY DEF FrameRef, StatOK, LinkOK, PermOK, UseOK, Walking

\* When thread t alone acts, it is enough to look at its new frame.
LEMMA RefMoves ==
  ASSUME Ind, NEW t \in Threads, \A u \in Threads : u # t => call[u] = Idle,
         NEW g, Set(t, g), FrameRef(g)'
  PROVE  /\ RefInd'
         /\ \A u \in Threads : u # t => answers[u] = Abs!Nothing
         /\ \A u \in Threads : u # t => answers'[u] = Abs!Nothing
         /\ answers'[t] = IF g.pc = "done" THEN Answer(g) ELSE Abs!Nothing
<1>1. call' = [call EXCEPT ![t] = g] /\ call = [u \in Threads |-> call[u]]
  BY DEF Set, Ind, FramesOK
<1>2. call'[t] = g /\ \A u \in Threads : u # t => call'[u] = Idle
  BY <1>1
<1>3. Idle.pc # "done" /\ Idle.pc = "idle"
  BY DEF Idle, Request
<1>4. RefInd'
  <2>1. FrameRef(Idle)'
    BY <1>3, NothingToFind
  <2> QED BY <1>2, <2>1 DEF RefInd
<1>5. ASSUME NEW u \in Threads, u # t
      PROVE  answers[u] = Abs!Nothing /\ answers'[u] = Abs!Nothing
  BY <1>2, <1>3, <1>5 DEF answers, answerOf, Abs!Nothing
<1>6. answers'[t] = IF g.pc = "done" THEN Answer(g) ELSE Abs!Nothing
  BY <1>2 DEF answers, answerOf, Abs!Nothing, Answer
<1> QED BY <1>4, <1>5, <1>6

\* A step with which nothing is answered yet.
LEMMA Silent ==
  ASSUME SingleThreaded, Ind, PathInd, NEW t \in Threads, Begin(t) \/ Handler(t),
         call[t].pc # "done", NEW g, Set(t, g), g.pc # "done", UNCHANGED tree,
         FrameRef(g)'
  PROVE  RefStep
<1>1. \A u \in Threads : u # t => call[u] = Idle
  BY OthersIdle DEF PathInd
<1>2. /\ RefInd'
      /\ \A u \in Threads : u # t => answers[u] = Abs!Nothing /\ answers'[u] = Abs!Nothing
      /\ answers'[t] = Abs!Nothing
  BY <1>1, RefMoves
<1>3. answers[t] = Abs!Nothing
  BY DEF answers, answerOf, Abs!Nothing
<1>4. answers' = answers
  <2>1. \A u \in Threads : answers'[u] = answers[u]
    BY <1>2, <1>3
  <2> QED BY <2>1 DEF answers
<1> QED BY <1>2, <1>4 DEF RefStep, tree

\* What PathFs requires of an answer to a request.
Right(a) ==
  \/ a.op = "getattr" /\ Abs!Getattr(a) /\ UNCHANGED tree
  \/ a.op = "readdir" /\ Abs!Readdir(a) /\ UNCHANGED tree
  \/ a.op = "readlink" /\ Abs!Readlink(a) /\ UNCHANGED tree
  \/ a.op = "chmod" /\ Abs!Chmod(a) /\ UNCHANGED tree
  \/ a.op \in FileOps /\ Abs!UseFile(a) /\ UNCHANGED tree
  \/ a.op = "mkdir" /\ Abs!Create(a, "dir")
  \/ a.op = "create" /\ Abs!Create(a, "file")
  \/ a.op \in {"rmdir", "unlink"} /\ Abs!Delete(a)
  \/ a.op = "rename" /\ Abs!Move(a)

\* A step with which a request is served.
LEMMA Served ==
  ASSUME SingleThreaded, Ind, PathInd, NEW t \in Threads, Begin(t) \/ Handler(t),
         call[t].pc # "done", NEW g, Set(t, g), g.pc = "done", g.op # "none",
         Right(Answer(g))
  PROVE  RefStep
<1>1. \A u \in Threads : u # t => call[u] = Idle
  BY OthersIdle DEF PathInd
<1>2. FrameRef(g)'
  BY NothingToFind
<1>3. PICK a : a = Answer(g)
  OBVIOUS
<1>4. /\ RefInd'
      /\ \A u \in Threads : u # t => answers[u] = Abs!Nothing /\ answers'[u] = Abs!Nothing
      /\ answers'[t] = a
  BY <1>1, <1>2, <1>3, RefMoves
<1>5. answers[t] = Abs!Nothing
  BY DEF answers, answerOf, Abs!Nothing
<1>6. answers' = [answers EXCEPT ![t] = a]
  <2>1. \A u \in Threads : u # t => answers'[u] = answers[u]
    BY <1>4
  <2> QED BY <1>4, <2>1 DEF answers
<1>7. Right(a)
  BY <1>3
<1>8. Abs!Serve(t)
  <2>1. (answers')[t] = a /\ answers[t] = Abs!Nothing
        /\ answers' = [answers EXCEPT ![t] = a]
    BY <1>4, <1>5, <1>6
  <2> QED BY <1>7, <2>1 DEF Abs!Serve, Right, FileOps, answers, Abs!tree, tree
<1> QED BY <1>4, <1>8 DEF RefStep, Abs!Next

\* The handler returns: its answer is dropped.
LEMMA ReplyRef ==
  ASSUME SingleThreaded, Ind, PathInd, RefInd, NEW t \in Threads, Reply(t)
  PROVE  RefStep
<1>1. Set(t, Idle) /\ UNCHANGED tree /\ call[t].pc = "done" /\ Handler(t)
  BY DEF Reply, Handler
<1>2. \A u \in Threads : u # t => call[u] = Idle
  BY <1>1, OthersIdle DEF PathInd
<1>3. Idle.pc = "idle"
  BY DEF Idle, Request
<1>4. FrameRef(Idle)'
  BY <1>3, NothingToFind
<1>5. /\ RefInd'
      /\ \A u \in Threads : u # t => answers[u] = Abs!Nothing /\ answers'[u] = Abs!Nothing
      /\ answers'[t] = Abs!Nothing
  BY <1>1, <1>2, <1>3, <1>4, RefMoves
<1>6. answers[t].op # "none"
  BY <1>1 DEF answers, answerOf, RefInd, FrameRef
<1>7. answers[t] # Abs!Nothing
  BY <1>6 DEF Abs!Nothing
<1>8. answers' = [answers EXCEPT ![t] = Abs!Nothing]
  <2>1. \A u \in Threads : u # t => answers'[u] = answers[u]
    BY <1>5
  <2> QED BY <1>5, <2>1 DEF answers
<1>9. Abs!Forget(t)
  BY <1>1, <1>7, <1>8 DEF Abs!Forget, answers, Abs!tree, tree
<1> QED BY <1>5, <1>9 DEF RefStep, Abs!Next


-----------------------------------------------------------------------------
(* Requests begin.                                                         *)

\* A frame of mkdir, create, rmdir, unlink, rename or readdir has nothing to
\* prove, nor has one of open, read, write, truncate or readlink that walks.
LEMMA NothingFound ==
  ASSUME NEW g,
         \/ g.op \in EntryOps \cup {"rename", "readdir"}
         \/ g.op \in FileOps \cup {"readlink"} /\ g.pc = "enter"
  PROVE  FrameRef(g)'
BY DEF FrameRef, StatOK, LinkOK, PermOK, UseOK, EntryOps, FileOps

\* adfimage_getdentry begins, for a rename.
LEMMA RenameLookup ==
  ASSUME SingleThreaded, Ind, PathInd, NEW t \in Threads, Begin(t) \/ Handler(t),
         call[t].pc # "done", NEW f \in Frames, f.op = "rename", NEW p,
         BeginLookup(t, f, p), UNCHANGED tree
  PROVE  RefStep
<1>1. PICK g : Set(t, g) /\ g.op = "rename" /\ g.pc \in {"enter", "back"}
  <2>1. CASE p = <<>>
    <3>1. PICK g : g = [f EXCEPT !.pc = "back", !.todo = <<>>, !.node = Root, !.type = "dir"]
      OBVIOUS
    <3>2. g.op = "rename" /\ g.pc = "back"
      BY <3>1 DEF Frames
    <3> QED BY <2>1, <3>1, <3>2 DEF BeginLookup
  <2>2. CASE p # <<>>
    <3>1. PICK g : g = [f EXCEPT !.pc = "enter", !.todo = Dirname(p), !.saved = cwd]
      OBVIOUS
    <3>2. g.op = "rename" /\ g.pc = "enter"
      BY <3>1 DEF Frames
    <3> QED BY <2>2, <3>1, <3>2 DEF BeginLookup
  <2> QED BY <2>1, <2>2
<1>2. FrameRef(g)'
  BY <1>1, NothingFound
<1> QED BY <1>1, <1>2, Silent

\* FUSE hands a thread a request.
LEMMA BeginRef ==
  ASSUME SingleThreaded, KernelChecked, Ind, PathInd, NEW t \in Threads, Begin(t)
  PROVE  RefStep
<1> USE AdffsAssumption
<1>1. call[t].pc = "idle"
  BY DEF Begin, GetattrRoot, Getattr, FileOp, Readdir, EntryOp, Chmod, Rename, MayBegin
<1>2. CASE GetattrRoot(t)
  <2>1. PICK g : g = [[Request("getattr", <<>>, <<>>) EXCEPT
                         !.node = Root, !.type = "dir",
                         !.base = curDir, !.size = Cardinality(DirEnt(curDir))]
                      EXCEPT !.pc = "done", !.todo = <<>>, !.status = "ok"]
    OBVIOUS
  <2>2. Set(t, g) /\ UNCHANGED tree
    BY <1>2, <2>1 DEF GetattrRoot, Finish
  <2>3. /\ g.pc = "done" /\ g.op = "getattr" /\ g.path = <<>> /\ g.status = "ok"
        /\ g.node = Root
    BY <2>1 DEF Request
  <2>4. Right(Answer(g))
    BY <2>2, <2>3 DEF Right, Answer, Abs!Getattr
  <2> QED BY <1>1, <2>2, <2>3, <2>4, Served
<1>3. CASE Getattr(t)
  <2>1. PICK p \in Paths \ {<<>>} :
          Set(t, [Request("getattr", p, <<>>) EXCEPT !.pc = "enter", !.todo = Dirname(p)])
    BY <1>3 DEF Getattr
  <2>2. PICK g : g = [Request("getattr", p, <<>>) EXCEPT !.pc = "enter", !.todo = Dirname(p)]
    OBVIOUS
  <2>3. /\ g.op = "getattr" /\ g.path = p /\ g.pc = "enter" /\ g.todo = Dirname(p)
        /\ g.base = NoSector
    BY <2>2 DEF Request
  <2>4. ChdirFromRoot /\ UNCHANGED tree
    BY <1>3 DEF Getattr
  <2>5. <<>> \o Dirname(p) = Dirname(p)
    BY DirnameSeq
  <2>6. FrameRef(g)'
    BY <2>3, <2>4, <2>5 DEF FrameRef, StatOK, LinkOK, PermOK, UseOK, Goal, ChdirFromRoot,
       FileOps
  <2> QED BY <1>1, <2>1, <2>2, <2>3, <2>4, <2>6, Silent
<1>4. CASE FileOp(t)
  <2>1. PICK op \in FileOps \cup {"readlink"}, p \in Paths \ {<<>>} :
          Set(t, [Request(op, p, <<>>) EXCEPT
                    !.pc = "enter", !.todo = Dirname(p), !.saved = cwd])
    BY <1>4 DEF FileOp
  <2>2. PICK g : g = [Request(op, p, <<>>) EXCEPT
                        !.pc = "enter", !.todo = Dirname(p), !.saved = cwd]
    OBVIOUS
  <2>3. g.op = op /\ g.pc = "enter"
    BY <2>2 DEF Request
  <2>4. UNCHANGED tree
    BY <1>4 DEF FileOp
  <2> QED BY <1>1, <2>1, <2>2, <2>3, <2>4, NothingFound, Silent
<1>5. CASE EntryOp(t)
  <2>1. PICK op \in EntryOps, p \in Paths \ {<<>>} :
          Set(t, [Request(op, p, <<>>) EXCEPT !.pc = "enter", !.todo = Dirname(p)])
    BY <1>5 DEF EntryOp
  <2>2. PICK g : g = [Request(op, p, <<>>) EXCEPT !.pc = "enter", !.todo = Dirname(p)]
    OBVIOUS
  <2>3. g.op = op /\ g.pc = "enter"
    BY <2>2 DEF Request
  <2>4. UNCHANGED tree
    BY <1>5 DEF EntryOp
  <2> QED BY <1>1, <2>1, <2>2, <2>3, <2>4, NothingFound, Silent
<1>6. CASE Readdir(t)
  <2>1. PICK p \in Paths :
          Set(t, [Request("readdir", p, <<>>) EXCEPT !.pc = "enter", !.todo = p])
    BY <1>6 DEF Readdir
  <2>2. PICK g : g = [Request("readdir", p, <<>>) EXCEPT !.pc = "enter", !.todo = p]
    OBVIOUS
  <2>3. g.op = "readdir" /\ g.pc = "enter"
    BY <2>2 DEF Request
  <2>4. UNCHANGED tree
    BY <1>6 DEF Readdir
  <2> QED BY <1>1, <2>1, <2>2, <2>3, <2>4, NothingFound, Silent
<1>7. CASE Chmod(t)
  <2>1. PICK p \in Paths : /\ p = <<>> \/ IsDir(Dirname(p))
                           /\ BeginLookup(t, Request("chmod", p, <<>>), p)
    BY <1>7 DEF Chmod
  <2>2. UNCHANGED tree
    BY <1>7 DEF Chmod
  <2>3. IsDir(Dirname(p))' <=> IsDir(Dirname(p))
    BY <2>2, SameTrails DEF IsDir
  <2>4. CASE p = <<>>
    <3>1. PICK g : g = [Request("chmod", p, <<>>) EXCEPT
                          !.pc = "back", !.todo = <<>>, !.node = Root, !.type = "dir"]
      OBVIOUS
    <3>2. g.op = "chmod" /\ g.path = p /\ g.pc = "back" /\ g.node = Root
      BY <3>1 DEF Request
    <3>3. FrameRef(g)'
      BY <2>4, <3>2 DEF FrameRef, StatOK, LinkOK, PermOK, UseOK, FileOps
    <3>4. Set(t, g)
      BY <2>1, <2>4, <3>1 DEF BeginLookup
    <3> QED BY <1>1, <2>2, <3>2, <3>3, <3>4, Silent
  <2>5. CASE p # <<>>
    <3>1. PICK g : g = [Request("chmod", p, <<>>) EXCEPT
                          !.pc = "enter", !.todo = Dirname(p), !.saved = cwd]
      OBVIOUS
    <3>2. g.op = "chmod" /\ g.path = p /\ g.pc = "enter"
      BY <3>1 DEF Request
    <3>3. FrameRef(g)'
      BY <2>1, <2>3, <2>5, <3>2 DEF FrameRef, StatOK, LinkOK, PermOK, UseOK, FileOps
    <3>4. Set(t, g)
      BY <2>1, <2>5, <3>1 DEF BeginLookup
    <3> QED BY <1>1, <2>2, <3>2, <3>3, <3>4, Silent
  <2> QED BY <2>4, <2>5
<1>8. CASE Rename(t)
  <2>1. PICK r \in Renames : BeginLookup(t, Request("rename", r[1], r[2]), Dirname(r[1]))
    BY <1>8 DEF Rename
  <2>2. PICK f : f = Request("rename", r[1], r[2])
    OBVIOUS
  <2>3. f \in Frames /\ f.op = "rename"
    <3>1. "rename" \in Ops /\ r[1] \in Seq(Names) /\ r[2] \in Seq(Names)
      BY DEF Ops, Lookups
    <3>2. f \in Frames
      BY <2>2, <3>1, NewRequest
    <3> QED BY <2>2, <3>2 DEF Request
  <2>4. UNCHANGED tree
    BY <1>8 DEF Rename
  <2> QED BY <1>1, <2>1, <2>2, <2>3, <2>4, RenameLookup
<1> QED BY <1>2, <1>3, <1>4, <1>5, <1>6, <1>7, <1>8 DEF Begin


-----------------------------------------------------------------------------
(* The loop of adfimage_chdir.                                             *)

\* What has been found stays found, and a walk goes where it went.
LEMMA StaysFound ==
  ASSUME UNCHANGED tree, NEW f, NEW g, FrameRef(f),
         g.op = f.op, g.path = f.path, g.base = f.base, g.node = f.node,
         g.type = f.type, g.status = f.status, g.size = f.size, g.pc = f.pc,
         f.op = "getattr" /\ f.pc \in Walking \ {"out"} /\ IsDir(Goal(f)) =>
           cwd' \o g.todo = cwd \o f.todo
  PROVE  FrameRef(g)'
<1>1. \A p : IsDir(p)' <=> IsDir(p)
  BY SameTrails DEF IsDir
<1>2. Goal(g) = Goal(f)
  BY DEF Goal
<1>3. PICK q : q = Goal(f)
  OBVIOUS
<1>4. StatOK(g)'
  <2>1. SUFFICES ASSUME f.op = "getattr", f.pc \in Walking
                 PROVE  StatOK(g)'
    BY DEF StatOK
  <2>2. StatOK(f)
    BY DEF FrameRef
  <2>3. ASSUME f.pc # "out", IsDir(q)' PROVE cwd' \o g.todo = q
    BY <1>1, <1>3, <2>1, <2>2, <2>3 DEF StatOK
  <2>4. q = Goal(g)'
    BY <1>2, <1>3 DEF Goal
  <2>5. f.path # <<>> /\ (f.pc # "out" /\ IsDir(Goal(g))' => cwd' \o g.todo = Goal(g)')
    BY <2>1, <2>2, <2>3, <2>4 DEF StatOK
  <2>6. /\ f.pc # "enter" /\ f.type = "free" => \A s : ~HasEntry(f.path, s)'
        /\ f.pc # "enter" /\ f.type # "free" =>
             HasEntry(f.path, f.node)' /\ kind'[f.node] = f.type
    BY <2>1, <2>2, SameEntries DEF StatOK
  <2>7. f.pc = "out" /\ kind'[Target(f.node)'] = "dir" =>
          f.base = Target(f.node)' /\ f.size = Cardinality(DirEnt(f.base)')
    <3>1. PICK s : s = Target(f.node)
      OBVIOUS
    <3>2. Target(f.node)' = s /\ kind'[s] = kind[s] /\ DirEnt(f.base)' = DirEnt(f.base)
      BY <3>1, SameEntries
    <3> QED BY <2>1, <2>2, <3>1, <3>2 DEF StatOK
  <2> QED BY <2>1, <2>2, <2>5, <2>6, <2>7 DEF StatOK
<1>5. LinkOK(g)'
  <2>1. SUFFICES ASSUME f.op = "readlink", f.pc = "back"
                 PROVE  LinkOK(g)'
    BY DEF LinkOK
  <2>2. PICK n, p : n = Basename(f.path) /\ p = Dirname(f.path)
    OBVIOUS
  <2>3. PICK d \in Sectors :
          /\ Leads(p, d)
          /\ \/ Matching(d, n) = {} /\ f.status = "ENOENT"
             \/ /\ Matching(d, n) # {}
                /\ f.status \in {"ok", "ESRCH"}
                /\ f.node = EntryOf(d, n)
    BY <2>1, <2>2 DEF FrameRef, LinkOK
  <2>4. /\ Leads(p, d)'
        /\ \/ Matching(d, n)' = {} /\ f.status = "ENOENT"
           \/ /\ Matching(d, n)' # {}
              /\ f.status \in {"ok", "ESRCH"}
              /\ f.node = EntryOf(d, n)'
    BY <2>3, SameTrails, SameEntries
  <2>5. n = Basename(g.path) /\ p = Dirname(g.path)
    BY <2>2
  <2> QED BY <2>4, <2>5 DEF LinkOK
<1>6. PermOK(g)'
  BY <1>1, SameEntries DEF FrameRef, PermOK
<1>7. UseOK(g)'
  BY DEF FrameRef, UseOK
<1> QED BY <1>4, <1>5, <1>6, <1>7 DEF FrameRef

\* A failed walk was not to a directory that exists.
LEMMA NotThere ==
  ASSUME NEW f \in Frames, OnTrack(f), f.pc = "enter", f.todo # <<>>,
         ~CanEnter(curDir, Head(f.todo))
  PROVE  ~IsDir(Bound(f))
<1>1. SUFFICES ASSUME IsDir(Bound(f)) PROVE FALSE
  OBVIOUS
<1>2. PICK b : b = Bound(f)
  OBVIOUS
<1>3. b \in Seq(Names) /\ Len(b) \in Nat /\ f.todo \in Seq(Names)
  BY <1>2, BoundSeq DEF Frames
<1>4. PICK tr : Trail(tr, b)
  BY <1>1, <1>2, LeadsByTrail DEF IsDir
<1>5. PICK k \in 0..Len(b) :
        /\ Len(f.todo) = Len(b) - k
        /\ \A i \in 1..Len(f.todo) : f.todo[i] = b[k + i]
        /\ tr[k] = curDir
  BY <1>2, <1>4 DEF OnTrack
<1>6. /\ Len(f.todo) > 0 /\ Head(f.todo) = f.todo[1] /\ 1 \in 1..Len(f.todo)
  BY <1>3
<1>7. k \in Nat /\ k + 1 \in 1..Len(b) /\ (k + 1) - 1 = k /\ Head(f.todo) = b[k + 1]
  BY <1>3, <1>5, <1>6
<1>8. CanEnter(tr[(k + 1) - 1], b[k + 1])
  BY <1>4, <1>7 DEF Trail
<1> QED BY <1>5, <1>7, <1>8

\* Without a directory there is no entry.
LEMMA NoDirNoEntry ==
  ASSUME NEW p, ~IsDir(Dirname(p))
  PROVE  \A s : ~HasEntry(p, s)
BY DEF IsDir, HasEntry

\* The name entered leaves the names to enter and joins those entered.
LEMMA NameMoves ==
  ASSUME NEW c \in Seq(Names), NEW r \in Seq(Names), r # <<>>
  PROVE  Append(c, Head(r)) \o Tail(r) = c \o r
<1>1. Head(r) \in Names /\ Tail(r) \in Seq(Names)
  BY HeadTailProperties
<1>2. PICK h, q : h = Head(r) /\ q = Tail(r)
  OBVIOUS
<1>3. <<h>> \in Seq(Names) /\ <<h>> \o q \in Seq(Names)
  BY <1>1, <1>2
<1>4. <<h>> \o q = r
  <2>1. Len(<<h>> \o q) = Len(r)
    BY <1>1, <1>2, HeadTailProperties
  <2>2. ASSUME NEW i \in 1..Len(r) PROVE (<<h>> \o q)[i] = r[i]
    <3>1. CASE i = 1
      BY <1>1, <1>2, <3>1
    <3>2. CASE i # 1
      <4>1. i - 1 \in 1..Len(q) /\ (i - 1) + 1 = i
        BY <1>1, <1>2, <3>2, HeadTailProperties
      <4>2. q[i - 1] = r[i]
        BY <1>2, <4>1, HeadTailProperties
      <4>3. (<<h>> \o q)[i] = q[i - 1]
        BY <1>1, <1>2, <1>3, <3>2, <4>1
      <4> QED BY <4>2, <4>3
    <3> QED BY <3>1, <3>2
  <2> QED BY <1>3, <2>1, <2>2, SeqEqual
<1>5. Append(c, h) = c \o <<h>>
  BY <1>1, <1>2, AppendIsConcat
<1>6. (c \o <<h>>) \o q = c \o (<<h>> \o q)
  BY <1>1, <1>2, <1>3, ConcatAssociative
<1> QED BY <1>2, <1>4, <1>5, <1>6

\* A walk by one name, or none.
LEMMA WalkRef ==
  ASSUME SingleThreaded, Ind, PathInd, RefInd, NEW t \in Threads,
         ChangeDir(t) \/ ChdirIgnored(t)
  PROVE  RefStep
<1>1. PICK f : f = call[t]
  OBVIOUS
<1>2. /\ FramePaths(f) /\ f \in Frames /\ FrameRef(f) /\ Handler(t)
      /\ cwd \in Seq(Names)
  BY <1>1 DEF PathInd, Ind, FramesOK, FrameOK, RefInd, Handler, Places
<1>3. f.pc \in Walking /\ f.pc # "done" /\ f.todo # <<>> /\ UNCHANGED tree
  BY <1>1 DEF ChangeDir, ChdirIgnored, Walking
<1>4. f.todo \in Seq(Names)
  BY <1>2 DEF Frames
<1>5. CASE ChangeDir(t)
  <2>1. PICK g : g = [f EXCEPT !.todo = Tail(f.todo)]
    OBVIOUS
  <2>2. Set(t, g) /\ cwd' = Append(cwd, Head(f.todo))
    BY <1>1, <1>5, <2>1 DEF ChangeDir
  <2>3. /\ g.op = f.op /\ g.path = f.path /\ g.base = f.base /\ g.node = f.node
        /\ g.type = f.type /\ g.status = f.status /\ g.size = f.size /\ g.pc = f.pc
        /\ g.todo = Tail(f.todo)
    BY <1>2, <2>1 DEF Frames
  <2>4. PICK c, r : c = cwd /\ r = f.todo
    OBVIOUS
  <2>5. Append(c, Head(r)) \o Tail(r) = c \o r
    BY <1>2, <1>3, <1>4, <2>4, NameMoves
  <2>6. cwd' \o g.todo = cwd \o f.todo
    BY <2>2, <2>3, <2>4, <2>5
  <2>7. FrameRef(g)'
    BY <1>2, <1>3, <2>3, <2>6, StaysFound
  <2> QED BY <1>1, <1>2, <1>3, <2>2, <2>3, <2>7, Silent
<1>6. CASE ChdirIgnored(t)
  <2>1. PICK g : g = [f EXCEPT !.todo = <<>>]
    OBVIOUS
  <2>2. Set(t, g) /\ ~CanEnter(curDir, Head(f.todo)) /\ (f.pc = "enter" => f.op \in Lookups)
    BY <1>1, <1>6, <2>1 DEF ChdirIgnored
  <2>3. /\ g.op = f.op /\ g.path = f.path /\ g.base = f.base /\ g.node = f.node
        /\ g.type = f.type /\ g.status = f.status /\ g.size = f.size /\ g.pc = f.pc
    BY <1>2, <2>1 DEF Frames
  <2>4. ~(f.op = "getattr" /\ f.pc \in Walking \ {"out"} /\ IsDir(Goal(f)))
    <3>1. SUFFICES ASSUME f.op = "getattr", f.pc # "out", IsDir(Goal(f))
                   PROVE  FALSE
      OBVIOUS
    <3>2. cwd \o f.todo = Goal(f) /\ f.path # <<>>
      BY <1>2, <1>3, <3>1 DEF FrameRef, StatOK
    <3>3. Leads(cwd, curDir)
      BY <1>2, <1>3, <3>1, <3>2 DEF FramePaths, CwdOK, Sought, EntryOps
    <3>4. PICK c, x, r : c = cwd /\ x = curDir /\ r = f.todo
      OBVIOUS
    <3>5. CanEnter(x, Head(r))
      BY <1>2, <1>3, <1>4, <3>1, <3>2, <3>3, <3>4, CanGoOn
    <3> QED BY <2>2, <3>4, <3>5
  <2>5. FrameRef(g)'
    BY <1>2, <1>3, <2>3, <2>4, StaysFound
  <2> QED BY <1>1, <1>2, <1>3, <2>2, <2>3, <2>5, Silent
<1> QED BY <1>5, <1>6

\* A handler that returns and leaves the tree alone.
LEMMA FinishRef ==
  ASSUME SingleThreaded, Ind, PathInd, RefInd, NEW t \in Threads, Handler(t),
         NEW f \in Frames, f.op = call[t].op, call[t].pc \in Walking,
         NEW status, Finish(t, f, status),
         NEW a, a = [op |-> f.op, path |-> f.path, to |-> f.to, status |-> status,
                     node |-> f.node, base |-> f.base, size |-> f.size],
         Right(a)
  PROVE  RefStep
<1>1. PICK g : g = [f EXCEPT !.pc = "done", !.todo = <<>>, !.status = status]
  OBVIOUS
<1>2. Set(t, g)
  BY <1>1 DEF Finish
<1>3. /\ g.op = f.op /\ g.path = f.path /\ g.to = f.to /\ g.base = f.base
      /\ g.node = f.node /\ g.size = f.size /\ g.pc = "done" /\ g.status = status
  BY <1>1 DEF Frames
<1>4. Answer(g) = a
  BY <1>3 DEF Answer
<1>5. g.op # "none" /\ call[t].pc # "done"
  BY <1>3 DEF RefInd, FrameRef, Walking
<1> QED BY <1>2, <1>3, <1>4, <1>5, Served

\* A walk that fails and ends its handler.
LEMMA FailedRef ==
  ASSUME SingleThreaded, Ind, PathInd, RefInd, NEW t \in Threads, ChdirFails(t)
  PROVE  RefStep
<1>1. PICK f : f = call[t]
  OBVIOUS
<1>2. FramePaths(f) /\ f \in Frames /\ FrameRef(f) /\ Handler(t)
  BY <1>1 DEF PathInd, Ind, FramesOK, FrameOK, RefInd, Handler
<1>3. /\ f.pc = "enter" /\ f.pc \in Walking /\ f.op \notin Lookups /\ f.todo # <<>>
      /\ ~CanEnter(curDir, Head(f.todo)) /\ UNCHANGED tree
      /\ Finish(t, f, ChdirError(f.op))
  BY <1>1 DEF ChdirFails, Walking
<1>4. ~IsDir(Bound(f))
  BY <1>2, <1>3, NotThere DEF FramePaths
<1>5. PICK status : status = ChdirError(f.op)
  OBVIOUS
<1>6. PICK a : a = [op |-> f.op, path |-> f.path, to |-> f.to, status |-> status,
                    node |-> f.node, base |-> f.base, size |-> f.size]
  OBVIOUS
<1>7. a.op = f.op /\ a.path = f.path /\ a.status = status
  BY <1>6
<1>8. f.op \in Ops \ Lookups
  BY <1>2, <1>3 DEF Frames, FrameRef
<1>9. f.op # "readdir" => ~IsDir(Dirname(f.path))
  BY <1>3, <1>4 DEF Bound, Sought, Lookups
<1>10. Right(a)
  <2>1. CASE f.op = "getattr"
    <3>1. status = "ENOENT" /\ f.path # <<>>
      BY <1>2, <1>3, <1>5, <2>1 DEF ChdirError, FrameRef, StatOK
    <3>2. \A s : ~HasEntry(f.path, s)
      BY <1>9, <2>1, NoDirNoEntry
    <3>3. Abs!Getattr(a)
      BY <1>7, <3>1, <3>2, SamePlaces DEF Abs!Getattr
    <3> QED BY <1>3, <1>7, <2>1, <3>3 DEF Right
  <2>2. CASE f.op = "readdir"
    <3>1. status = "ENOENT" /\ ~IsDir(f.path)
      BY <1>4, <1>5, <2>2 DEF ChdirError, Bound
    <3>2. Abs!Readdir(a)
      BY <1>7, <3>1, SamePlaces DEF Abs!Readdir
    <3> QED BY <1>3, <1>7, <2>2, <3>2 DEF Right
  <2>3. CASE f.op = "readlink"
    <3>1. status = "EPERM" /\ ~IsDir(Dirname(f.path))
      BY <1>5, <1>9, <2>3 DEF ChdirError
    <3>2. Abs!Readlink(a)
      BY <1>7, <3>1, SamePlaces, SameTerms DEF Abs!Readlink
    <3> QED BY <1>3, <1>7, <2>3, <3>2 DEF Right
  <2>4. CASE f.op \in FileOps
    <3>1. Abs!UseFile(a)
      BY <1>5, <1>7 DEF ChdirError, Abs!UseFile
    <3> QED BY <1>3, <1>7, <2>4, <3>1 DEF Right
  <2>5. CASE f.op \in EntryOps
    <3>1. status = "ENOENT" /\ ~IsDir(Dirname(f.path))
      BY <1>5, <1>9, <2>5 DEF ChdirError, EntryOps
    <3>2. UNCHANGED Abs!tree
      BY <1>3 DEF Abs!tree, tree
    <3>3. (\A k : Abs!Create(a, k)) /\ Abs!Delete(a)
      BY <1>7, <3>1, <3>2, SamePlaces, SameTerms DEF Abs!Create, Abs!Delete
    <3> QED BY <1>7, <2>5, <3>3 DEF Right, EntryOps
  <2> QED BY <1>8, <2>1, <2>2, <2>3, <2>4, <2>5 DEF Ops
<1> QED BY <1>1, <1>2, <1>3, <1>5, <1>6, <1>10, FinishRef



-----------------------------------------------------------------------------
(* open, read, write, truncate and readlink.                               *)

\* A file is opened, or a link read, by the name in the directory reached.
LEMMA FileRef ==
  ASSUME SingleThreaded, Ind, PathInd, RefInd, NEW t \in Threads,
         OpenFile(t) \/ OpenFails(t) \/ ReadLink(t) \/ Restored(t)
  PROVE  RefStep
<1>1. PICK f : f = call[t]
  OBVIOUS
<1>2. FramePaths(f) /\ f \in Frames /\ FrameRef(f) /\ Handler(t)
  BY <1>1 DEF PathInd, Ind, FramesOK, FrameOK, RefInd, Handler
<1>3. f.pc \in Walking /\ f.pc # "done" /\ UNCHANGED tree
  BY <1>1 DEF OpenFile, OpenFails, ReadLink, Restored, Arrived, Walking
<1>4. CASE OpenFile(t)
  <2>1. PICK g : g = [f EXCEPT !.pc = "back", !.todo = f.saved,
                               !.node = Opened(curDir, Basename(f.path)),
                               !.type = "file", !.status = "ok"]
    OBVIOUS
  <2>2. Set(t, g) /\ f.op \in FileOps
    BY <1>1, <1>4, <2>1 DEF OpenFile
  <2>3. /\ g.op = f.op /\ g.pc = "back" /\ g.type = "file" /\ g.status = "ok"
    BY <1>2, <2>1 DEF Frames
  <2>4. FrameRef(g)'
    BY <2>2, <2>3 DEF FrameRef, StatOK, LinkOK, PermOK, UseOK, FileOps
  <2> QED BY <1>1, <1>2, <1>3, <2>2, <2>3, <2>4, Silent
<1>5. CASE OpenFails(t)
  <2>1. PICK status : status = IF f.op \in {"open", "truncate"} THEN "EPERM" ELSE "ENOENT"
    OBVIOUS
  <2>2. Finish(t, f, status) /\ f.op \in FileOps
    BY <1>1, <1>5, <2>1 DEF OpenFails
  <2>3. PICK a : a = [op |-> f.op, path |-> f.path, to |-> f.to, status |-> status,
                      node |-> f.node, base |-> f.base, size |-> f.size]
    OBVIOUS
  <2>4. a.op = f.op /\ a.status = status
    BY <2>3
  <2>5. Abs!UseFile(a)
    BY <2>1, <2>4 DEF Abs!UseFile
  <2>6. Right(a)
    BY <1>3, <2>2, <2>4, <2>5 DEF Right
  <2> QED BY <1>1, <1>2, <1>3, <2>2, <2>3, <2>6, FinishRef
<1>6. CASE ReadLink(t)
  <2>1. PICK d, n, p : d = curDir /\ n = Basename(f.path) /\ p = Dirname(f.path)
    OBVIOUS
  <2>2. f.op = "readlink" /\ Arrived(f, "enter")
    BY <1>1, <1>6 DEF ReadLink
  <2>3. Leads(p, d) /\ d \in Sectors
    <3>1. f.op \notin Lookups /\ Bound(f) = p
      BY <2>1, <2>2 DEF Lookups, Bound, Sought
    <3> QED BY <1>2, <2>1, <2>2, <3>1, WalkEnds DEF FramePaths, Ind, Places
  <2>4. PICK s, k, status :
          /\ IF Matching(d, n) = {} THEN status = "ENOENT"
             ELSE status \in {"ok", "ESRCH"} /\ s = EntryOf(d, n)
          /\ Set(t, [f EXCEPT !.pc = "back", !.todo = f.saved,
                              !.node = s, !.type = k, !.status = status])
    <3>1. PICK gone : gone = (Matching(d, n) = {})
      OBVIOUS
    <3>2. PICK s : s = IF gone THEN NoSector ELSE EntryOf(d, n)
      OBVIOUS
    <3>3. PICK k : k = IF gone THEN "free" ELSE kind[s]
      OBVIOUS
    <3>4. \E status \in IF gone THEN {"ENOENT"}
                         ELSE IF k = "slink" THEN {"ok"} ELSE {"ok", "ESRCH"} :
             Set(t, [f EXCEPT !.pc = "back", !.todo = f.saved,
                              !.node = s, !.type = k, !.status = status])
      BY <1>1, <1>6, <2>1, <3>1, <3>2, <3>3 DEF ReadLink
    <3>5. PICK status : /\ status \in IF gone THEN {"ENOENT"}
                              ELSE IF k = "slink" THEN {"ok"} ELSE {"ok", "ESRCH"}
                        /\ Set(t, [f EXCEPT !.pc = "back", !.todo = f.saved,
                                       !.node = s, !.type = k, !.status = status])
      BY <3>4
    <3> QED BY <3>1, <3>2, <3>5
  <2>5. PICK g : g = [f EXCEPT !.pc = "back", !.todo = f.saved,
                               !.node = s, !.type = k, !.status = status]
    OBVIOUS
  <2>6. /\ g.op = "readlink" /\ g.path = f.path /\ g.pc = "back" /\ g.node = s
        /\ g.status = status
    BY <1>2, <2>2, <2>5 DEF Frames
  <2>7. Leads(p, d)' /\ Matching(d, n)' = Matching(d, n) /\ EntryOf(d, n)' = EntryOf(d, n)
    BY <1>3, <2>3, SameTrails, SameEntries
  <2>8. n = Basename(g.path) /\ p = Dirname(g.path)
    BY <2>1, <2>6
  <2>9. LinkOK(g)'
    <3>1. \/ Matching(d, n)' = {} /\ g.status = "ENOENT"
          \/ /\ Matching(d, n)' # {}
             /\ g.status \in {"ok", "ESRCH"}
             /\ g.node = EntryOf(d, n)'
      BY <2>4, <2>6, <2>7
    <3> QED BY <2>3, <2>7, <2>8, <3>1 DEF LinkOK
  <2>10. FrameRef(g)'
    BY <2>6, <2>9 DEF FrameRef, StatOK, PermOK, UseOK, FileOps
  <2> QED BY <1>1, <1>2, <1>3, <2>4, <2>5, <2>6, <2>10, Silent
<1>7. CASE Restored(t)
  <2>1. /\ f.op \in FileOps \cup {"readlink"} /\ f.pc = "back"
        /\ \E status \in IF f.op = "truncate" THEN {"ok", "EPERM"} ELSE {f.status} :
             Finish(t, f, status)
    BY <1>1, <1>7 DEF Restored, Arrived
  <2>2. PICK status : /\ status \in IF f.op = "truncate" THEN {"ok", "EPERM"} ELSE {f.status}
                      /\ Finish(t, f, status)
    BY <2>1
  <2>3. PICK a : a = [op |-> f.op, path |-> f.path, to |-> f.to, status |-> status,
                      node |-> f.node, base |-> f.base, size |-> f.size]
    OBVIOUS
  <2>4. a.op = f.op /\ a.path = f.path /\ a.status = status /\ a.node = f.node
    BY <2>3
  <2>5. CASE f.op \in FileOps
    <3>1. f.type = "file" /\ f.status = "ok" /\ status \in {"ok", "EPERM"}
      BY <1>2, <2>1, <2>2, <2>5 DEF FrameRef, UseOK
    <3>2. PICK d \in Sectors : /\ Leads(Dirname(f.path), d)
                               /\ CanOpen(d, Basename(f.path), f.op \in Writers)
                               /\ f.node = Opened(d, Basename(f.path))
      BY <1>2, <2>5, <3>1 DEF FramePaths, FileOK
    <3>3. /\ Abs!In(a.path, d) /\ a.node = Abs!Opened(d, Abs!Last(a.path))
          /\ Abs!CanOpen(d, Abs!Last(a.path), a.op \in {"write", "truncate"})
      BY <2>4, <3>2, SameTerms, SamePlaces DEF Writers
    <3>4. Abs!UseFile(a)
      BY <2>4, <3>1, <3>3 DEF Abs!UseFile
    <3>5. Right(a)
      BY <1>3, <2>4, <2>5, <3>4 DEF Right
    <3> QED BY <1>1, <1>2, <1>3, <2>2, <2>3, <3>5, FinishRef
  <2>6. CASE f.op = "readlink"
    <3>1. PICK d \in Sectors :
            /\ Leads(Dirname(f.path), d)
            /\ \/ Matching(d, Basename(f.path)) = {} /\ status = "ENOENT"
               \/ /\ Matching(d, Basename(f.path)) # {}
                  /\ status \in {"ok", "ESRCH"}
                  /\ f.node = EntryOf(d, Basename(f.path))
      BY <1>2, <2>1, <2>2, <2>6 DEF FrameRef, LinkOK
    <3>2. /\ Abs!In(a.path, d)
          /\ \/ Abs!Matching(d, Abs!Last(a.path)) = {} /\ a.status = "ENOENT"
             \/ /\ Abs!Matching(d, Abs!Last(a.path)) # {}
                /\ a.status \in {"ok", "ESRCH"}
                /\ a.node = Abs!EntryOf(d, Abs!Last(a.path))
      BY <2>4, <3>1, SameTerms, SamePlaces
    <3>3. Abs!Readlink(a)
      BY <3>2 DEF Abs!Readlink
    <3>4. Right(a)
      BY <1>3, <2>4, <2>6, <3>3 DEF Right
    <3> QED BY <1>1, <1>2, <1>3, <2>2, <2>3, <3>4, FinishRef
  <2> QED BY <2>1, <2>5, <2>6
<1> QED BY <1>4, <1>5, <1>6, <1>7

-----------------------------------------------------------------------------
(* readdir, mkdir, create, rmdir and unlink.                               *)

\* The directory reached is the one the path names, and its entries change, or
\* are listed, there.
LEMMA EntryRef ==
  ASSUME SingleThreaded, Ind, PathInd, RefInd, NEW t \in Threads,
         ListDir(t) \/ MakeDir(t) \/ CreateFile(t) \/ RemoveIt(t)
  PROVE  RefStep
<1>1. PICK f : f = call[t]
  OBVIOUS
<1>2. FramePaths(f) /\ f \in Frames /\ FrameRef(f) /\ Handler(t)
  BY <1>1 DEF PathInd, Ind, FramesOK, FrameOK, RefInd, Handler
<1>3. f.pc \in Walking /\ f.op \notin Lookups /\ Arrived(f, "enter")
  BY <1>1 DEF ListDir, MakeDir, CreateFile, RemoveIt, Arrived, Walking, Lookups
<1>4. PICK d, n : d = curDir /\ n = Basename(f.path)
  OBVIOUS
<1>5. Leads(Bound(f), d) /\ d \in Sectors
  BY <1>2, <1>3, <1>4, WalkEnds DEF FramePaths, Ind, Places
<1>6. CASE ListDir(t)
  <2>1. PICK h : h = [f EXCEPT !.node = d, !.type = "dir", !.size = Cardinality(DirEnt(d))]
    OBVIOUS
  <2>2. /\ f.op = "readdir" /\ UNCHANGED tree
        /\ \E status \in IF DirEnt(d) = {} THEN {"ok"} ELSE {"ok", "EAGAIN"} :
             Finish(t, h, status)
    BY <1>1, <1>4, <1>6, <2>1 DEF ListDir
  <2>3. PICK status \in {"ok", "EAGAIN"} : Finish(t, h, status)
    BY <2>2
  <2>4. h \in Frames /\ h.op = f.op /\ h.path = f.path /\ h.node = d
        /\ h.size = Cardinality(DirEnt(d))
    <3>1. Cardinality(DirEnt(d)) \in Nat
      BY <1>5, Counted_Nat
    <3> QED BY <1>2, <1>5, <2>1, <3>1 DEF Frames, Kinds
  <2>5. PICK a : a = [op |-> h.op, path |-> h.path, to |-> h.to, status |-> status,
                      node |-> h.node, base |-> h.base, size |-> h.size]
    OBVIOUS
  <2>6. /\ a.op = "readdir" /\ a.path = f.path /\ a.status = status /\ a.node = d
        /\ a.size = Cardinality(DirEnt(d))
    BY <2>2, <2>4, <2>5
  <2>7. Leads(f.path, d)
    BY <1>5, <2>2 DEF Bound
  <2>8. Abs!Readdir(a)
    <3>1. Abs!Leads(f.path, d)
      BY <2>7, SameTerms
    <3>2. Abs!DirEnt(d) = DirEnt(d)
      BY SameTerms
    <3> QED BY <2>3, <2>6, <3>1, <3>2, SameCount DEF Abs!Readdir
  <2>9. Right(a)
    BY <2>2, <2>6, <2>8 DEF Right
  <2> QED BY <1>1, <1>2, <1>3, <2>3, <2>4, <2>5, <2>9, FinishRef
<1>7. ASSUME f.op \in EntryOps PROVE Leads(Dirname(f.path), d) /\ IsDir(Dirname(f.path))
  BY <1>5, <1>7 DEF Bound, Sought, EntryOps, IsDir
<1>8. PICK h : h = [f EXCEPT !.node = d, !.type = "dir"]
  OBVIOUS
<1>9. h \in Frames /\ h.op = f.op /\ h.path = f.path /\ h.node = d
  BY <1>2, <1>5, <1>8 DEF Frames, Kinds
<1>10. ASSUME f.op \in EntryOps, Finish(t, h, "ok"),
              \/ f.op = "mkdir" /\ CreateEntry(d, n, "dir")
              \/ f.op = "create" /\ CreateEntry(d, n, "file")
              \/ f.op \in {"rmdir", "unlink"} /\ RemoveEntry(d, n)
       PROVE  RefStep
  <2>1. PICK a : a = [op |-> h.op, path |-> h.path, to |-> h.to, status |-> "ok",
                      node |-> h.node, base |-> h.base, size |-> h.size]
    OBVIOUS
  <2>2. a.op = f.op /\ a.path = f.path /\ a.status = "ok" /\ a.node = d
    BY <1>9, <2>1
  <2>3. Abs!In(a.path, a.node) /\ n = Abs!Last(a.path)
    BY <1>4, <1>7, <1>10, <2>2, SameTerms, SamePlaces
  <2>4. \/ a.op = "mkdir" /\ Abs!CreateEntry(d, n, "dir")
        \/ a.op = "create" /\ Abs!CreateEntry(d, n, "file")
        \/ a.op \in {"rmdir", "unlink"} /\ Abs!RemoveEntry(d, n)
    BY <1>10, <2>2, SameChanges
  <2>5. Right(a)
    BY <2>2, <2>3, <2>4 DEF Right, Abs!Create, Abs!Delete
  <2> QED BY <1>1, <1>2, <1>3, <1>9, <1>10, <2>1, <2>5, FinishRef
<1>11. ASSUME f.op \in EntryOps, NEW status, Finish(t, f, status), UNCHANGED tree,
              status = IF f.op = "create" THEN "EPERM" ELSE "rc"
       PROVE  RefStep
  <2>1. PICK a : a = [op |-> f.op, path |-> f.path, to |-> f.to, status |-> status,
                      node |-> f.node, base |-> f.base, size |-> f.size]
    OBVIOUS
  <2>2. a.op = f.op /\ a.path = f.path /\ a.status = status
    BY <2>1
  <2>3. Abs!IsDir(Abs!Front(a.path)) /\ UNCHANGED Abs!tree
    BY <1>7, <1>11, <2>2, SameTerms, SamePlaces DEF Abs!tree, tree
  <2>4. Right(a)
    BY <1>11, <2>2, <2>3 DEF Right, Abs!Create, Abs!Delete, EntryOps
  <2> QED BY <1>1, <1>2, <1>3, <1>11, <2>1, <2>4, FinishRef
<1>12. CASE MakeDir(t)
  <2>1. /\ f.op = "mkdir"
        /\ \/ CreateEntry(d, n, "dir") /\ Finish(t, h, "ok")
           \/ Finish(t, f, "rc") /\ UNCHANGED tree
    BY <1>1, <1>4, <1>8, <1>12 DEF MakeDir
  <2> QED BY <1>10, <1>11, <2>1 DEF EntryOps
<1>13. CASE CreateFile(t)
  <2>1. /\ f.op = "create"
        /\ \/ CreateEntry(d, n, "file") /\ Finish(t, h, "ok")
           \/ Finish(t, f, "EPERM") /\ UNCHANGED tree
    BY <1>1, <1>4, <1>8, <1>13 DEF CreateFile
  <2> QED BY <1>10, <1>11, <2>1 DEF EntryOps
<1>14. CASE RemoveIt(t)
  <2>1. /\ f.op \in {"rmdir", "unlink"}
        /\ \/ RemoveEntry(d, n) /\ Finish(t, h, "ok")
           \/ Finish(t, f, "rc") /\ UNCHANGED tree
    BY <1>1, <1>4, <1>8, <1>14 DEF RemoveIt
  <2> QED BY <1>10, <1>11, <2>1 DEF EntryOps
<1> QED BY <1>6, <1>12, <1>13, <1>14


-----------------------------------------------------------------------------
(* The blocks of the entries.                                              *)

\* Every entry has a block in use, and no other entry has it.
Held ==
  /\ \A d \in Sectors, n \in Names :
       entry[d][n] # NoSector => kind[entry[d][n]] # "free"
  /\ \A d, e \in Sectors, m, n \in Names :
       entry[d][m] # NoSector /\ entry[d][m] = entry[e][n] => d = e /\ m = n

\* A new entry has a block that was free.
LEMMA CreateHeld ==
  ASSUME TreeTypeOK, Held, NEW d \in Sectors, NEW n, NEW k \in Kinds, k # "free",
         CreateEntry(d, n, k)
  PROVE  Held'
<1>1. PICK s \in Sectors : /\ kind[s] = "free" /\ kind' = [kind EXCEPT ![s] = k]
                           /\ entry' = [entry EXCEPT ![d][n] = s, ![s] = EmptyTable]
  BY DEF CreateEntry
<1>2. ASSUME NEW x \in Sectors, NEW l \in Names, entry'[x][l] # NoSector
      PROVE  \/ x = d /\ l = n /\ entry'[x][l] = s
             \/ entry'[x][l] = entry[x][l] /\ entry[x][l] # s
  <2>1. x # s
    BY <1>1, <1>2 DEF TreeTypeOK, EmptyTable
  <2>2. CASE x = d /\ l = n
    BY <1>1, <2>1, <2>2 DEF TreeTypeOK, Tables
  <2>3. CASE ~(x = d /\ l = n)
    <3>1. entry'[x][l] = entry[x][l]
      BY <1>1, <2>1, <2>3 DEF TreeTypeOK, Tables
    <3> QED BY <1>1, <1>2, <3>1 DEF Held
  <2> QED BY <2>2, <2>3
<1>3. ASSUME NEW x \in Sectors, NEW l \in Names, entry'[x][l] # NoSector
      PROVE  kind'[entry'[x][l]] # "free"
  <2>1. entry[x][l] \in Sectors \cup {NoSector}
    BY DEF TreeTypeOK, Tables
  <2>2. CASE entry'[x][l] = s
    BY <1>1, <2>2 DEF TreeTypeOK
  <2>3. CASE entry'[x][l] = entry[x][l] /\ entry[x][l] # s
    <3>1. kind[entry[x][l]] # "free" /\ entry[x][l] \in Sectors
      BY <1>3, <2>1, <2>3 DEF Held
    <3> QED BY <1>1, <2>3, <3>1 DEF TreeTypeOK
  <2> QED BY <1>2, <1>3, <2>2, <2>3
<1>4. ASSUME NEW x \in Sectors, NEW y \in Sectors, NEW l \in Names, NEW m \in Names,
             entry'[x][l] # NoSector, entry'[x][l] = entry'[y][m]
      PROVE  x = y /\ l = m
  BY <1>2, <1>4 DEF Held
<1> QED BY <1>3, <1>4 DEF Held

\* The block that is freed had one entry.
LEMMA RemoveHeld ==
  ASSUME TreeTypeOK, Held, NEW d \in Sectors, NEW n, RemoveEntry(d, n)
  PROVE  Held'
<1>1. PICK o \in Names : /\ entry[d][o] # NoSector
                         /\ kind' = [kind EXCEPT ![entry[d][o]] = "free"]
                         /\ entry' = [entry EXCEPT ![d][o] = NoSector]
  BY DEF RemoveEntry, Matching
<1>2. ASSUME NEW x \in Sectors, NEW l \in Names, entry'[x][l] # NoSector
      PROVE  entry'[x][l] = entry[x][l] /\ (x # d \/ l # o)
  BY <1>1, <1>2 DEF TreeTypeOK, Tables
<1>3. ASSUME NEW x \in Sectors, NEW l \in Names, entry'[x][l] # NoSector
      PROVE  kind'[entry'[x][l]] # "free"
  <2>1. entry[x][l] \in Sectors /\ entry[x][l] # entry[d][o]
    BY <1>1, <1>2, <1>3 DEF TreeTypeOK, Tables, Held
  <2> QED BY <1>1, <1>2, <1>3, <2>1 DEF TreeTypeOK, Held
<1> QED BY <1>2, <1>3 DEF Held

\* A rename moves an entry, and its block with it.
LEMMA RenameHeld ==
  ASSUME TreeTypeOK, Held, NEW d \in Sectors, NEW n,
         NEW e \in Sectors, NEW m \in Names, RenameEntry(d, n, e, m)
  PROVE  Held'
<1>1. PICK o \in Matching(d, n) :
        /\ kind' = kind
        /\ entry' = LET s == entry[d][o]
                        cut == [entry EXCEPT ![d][o] = NoSector]
                    IN [cut EXCEPT ![e][m] = s]
  BY DEF RenameEntry
<1>2. o \in Names
  BY DEF Matching
<1>3. PICK s : s = entry[d][o]
  OBVIOUS
<1>4. PICK cut : cut = [entry EXCEPT ![d][o] = NoSector]
  OBVIOUS
<1>5. entry' = [cut EXCEPT ![e][m] = s]
  BY <1>1, <1>3, <1>4
<1>6. cut \in [Sectors -> Tables]
  BY <1>2, <1>4 DEF TreeTypeOK, Tables
<1>7. ASSUME NEW x \in Sectors, NEW l \in Names, cut[x][l] # NoSector
      PROVE  cut[x][l] = entry[x][l] /\ (x # d \/ l # o)
  BY <1>2, <1>4, <1>7 DEF TreeTypeOK, Tables
<1>8. ASSUME NEW x \in Sectors, NEW l \in Names
      PROVE  entry'[x][l] = IF x = e /\ l = m THEN s ELSE cut[x][l]
  BY <1>5, <1>6, <1>8 DEF Tables
<1>9. ASSUME NEW x \in Sectors, NEW l \in Names, cut[x][l] # NoSector
      PROVE  cut[x][l] # s
  <2>1. cut[x][l] = entry[x][l] /\ (x # d \/ l # o)
    BY <1>7, <1>9
  <2>2. entry[x][l] # NoSector /\ entry[x][l] = entry[d][o] => x = d /\ l = o
    BY <1>2 DEF Held
  <2> QED BY <1>3, <1>9, <2>1, <2>2
<1>10. ASSUME NEW x \in Sectors, NEW l \in Names, entry'[x][l] # NoSector
       PROVE  kind'[entry'[x][l]] # "free"
  <2>1. PICK b : b = entry'[x][l]
    OBVIOUS
  <2>2. b # NoSector
    BY <1>10, <2>1
  <2>3. \/ b = entry[d][o]
        \/ b = entry[x][l]
    BY <1>3, <1>7, <1>8, <2>1, <2>2
  <2>4. kind[b] # "free"
    BY <1>2, <2>2, <2>3 DEF Held
  <2>5. kind'[b] # "free"
    BY <1>1, <2>4
  <2> QED BY <2>1, <2>5
<1>11. ASSUME NEW x \in Sectors, NEW y \in Sectors, NEW l \in Names, NEW k \in Names,
              entry'[x][l] # NoSector, entry'[x][l] = entry'[y][k]
       PROVE  x = y /\ l = k
  <2>1. CASE x = e /\ l = m
    BY <1>8, <1>9, <1>11, <2>1
  <2>2. CASE ~(x = e /\ l = m)
    <3>1. ~(y = e /\ k = m)
      BY <1>8, <1>9, <1>11, <2>2
    <3> QED BY <1>7, <1>8, <1>11, <2>2, <3>1 DEF Held
  <2> QED BY <2>1, <2>2
<1> QED BY <1>10, <1>11 DEF Held

\* Every entry has a block of its own, whatever requests are served.
LEMMA SpecHeld == Spec => []Held
<1>1. Init => Held
  <2>1. SUFFICES ASSUME Init PROVE Held
    OBVIOUS
  <2>2. PICK img \in Images : kind = img.kind /\ entry = img.entry
    BY <2>1 DEF Init, TreeInit
  <2>3. WellFormed(img)
    BY VolumeAssumption
  <2> QED BY <2>2, <2>3 DEF WellFormed, Held
<1>2. Ind /\ Held /\ [Next]_vars => Held'
  <2>1. SUFFICES ASSUME Ind, Held, [Next]_vars
                 PROVE  Held'
    OBVIOUS
  <2>2. TreeTypeOK /\ curDir \in Sectors
    BY <2>1 DEF Ind, Places
  <2>3. CASE UNCHANGED tree
    BY <2>1, <2>3 DEF Held, tree
  <2>4. ASSUME NEW t \in Threads, MakeDir(t) \/ CreateFile(t) \/ RemoveIt(t) \/ RenameIt(t)
        PROVE  Held'
    <3>1. PICK f : f = call[t]
      OBVIOUS
    <3>2. f \in Frames /\ FrameOK(f)
      BY <2>1, <3>1 DEF Ind, FramesOK, FrameOK
    <3>3. CASE MakeDir(t) \/ CreateFile(t)
      <4>1. UNCHANGED tree \/ CreateEntry(curDir, Basename(f.path), "dir")
            \/ CreateEntry(curDir, Basename(f.path), "file")
        BY <3>1, <3>3 DEF MakeDir, CreateFile
      <4>2. "dir" \in Kinds /\ "file" \in Kinds
        BY DEF Kinds
      <4> QED BY <2>1, <2>2, <2>3, <4>1, <4>2, CreateHeld
    <3>4. CASE RemoveIt(t)
      <4>1. UNCHANGED tree \/ RemoveEntry(curDir, Basename(f.path))
        BY <3>1, <3>4 DEF RemoveIt
      <4> QED BY <2>1, <2>2, <2>3, <4>1, RemoveHeld
    <3>5. CASE RenameIt(t)
      <4>1. /\ f.op = "rename" /\ f.base # NoSector /\ f.type \in {"dir", "ldir"}
            /\ \/ UNCHANGED tree
               \/ RenameEntry(f.base, Basename(f.path), ParentSector(f), Basename(f.to))
        BY <3>1, <3>5 DEF RenameIt
      <4>2. f.base \in Sectors /\ ParentSector(f) \in Sectors
        BY <3>2, <4>1, VolumeAssumption DEF FrameOK, Frames, ParentSector
      <4>3. Basename(f.to) \in Names
        BY <3>2, <4>1, FrontLast DEF FrameOK, Frames
      <4> QED BY <2>1, <2>2, <2>3, <4>1, <4>2, <4>3, RenameHeld
    <3> QED BY <2>4, <3>3, <3>4, <3>5
  <2>5. CASE UNCHANGED vars
    BY <2>3, <2>5 DEF vars, tree
  <2>6. CASE Next
    <3>1. PICK t \in Threads : Begin(t) \/ Handler(t)
      BY <2>6 DEF Next
    <3> QED BY <2>3, <2>4, <3>1, TreeSteps
  <2> QED BY <2>1, <2>5, <2>6
<1> QED BY <1>1, <1>2, SpecPaths, InitInd, NextInd, PTL DEF Spec


-----------------------------------------------------------------------------
(* adfimage_getdentry, and getattr.                                        *)

\* Where a walk has ended is the one place its path can lead to.
LEMMA ReachedOnly ==
  ASSUME NEW f \in Frames, OnTrack(f), Arrived(f, "enter"), NEW d, Leads(Bound(f), d)
  PROVE  d = curDir
BY WalkEnds, LeadsByTrail

\* The entry of that name in the directory reached is what the path names.
LEMMA ExactEntry ==
  ASSUME Ind, Held, NEW f \in Frames, OnTrack(f), Arrived(f, "enter"),
         f.op \in {"getattr", "chmod"}, f.path # <<>>, IsDir(Dirname(f.path)),
         NEW s, s = entry[curDir][Basename(f.path)]
  PROVE  /\ s # NoSector => HasEntry(f.path, s) /\ kind[s] # "free"
         /\ s = NoSector => \A x : ~HasEntry(f.path, x)
<1>1. Basename(f.path) \in Names /\ curDir \in Sectors
  BY FrontLast DEF Frames, Ind, Places
<1>2. Bound(f) = Dirname(f.path)
  BY DEF Bound, Sought
<1>3. \A d : Leads(Dirname(f.path), d) => d = curDir
  BY <1>2, ReachedOnly
<1>4. Leads(Dirname(f.path), curDir)
  BY <1>3 DEF IsDir
<1>5. s # NoSector => HasEntry(f.path, s) /\ kind[s] # "free"
  BY <1>1, <1>4 DEF HasEntry, Held
<1>6. \A x : HasEntry(f.path, x) => x = s /\ x # NoSector
  BY <1>3 DEF HasEntry
<1> QED BY <1>5, <1>6

\* The entry of a getattr or a chmod is searched in the directory reached.
LEMMA FindRef ==
  ASSUME SingleThreaded, Ind, Held, PathInd, RefInd, NEW t \in Threads, Find(t)
  PROVE  RefStep
<1>1. PICK f : f = call[t]
  OBVIOUS
<1>2. /\ FramePaths(f) /\ f \in Frames /\ FrameOK(f) /\ FrameRef(f) /\ Handler(t)
      /\ cwd \in Seq(Names)
  BY <1>1 DEF PathInd, Ind, FramesOK, FrameOK, RefInd, Handler, Places
<1>3. /\ f.pc = "enter" /\ f.pc # "done" /\ Arrived(f, "enter") /\ UNCHANGED tree
      /\ f.todo = <<>> /\ f.op \in Lookups \cup {"getattr"}
  BY <1>1 DEF Find, Arrived
<1>4. PICK s, k : /\ s = entry[curDir][Basename(Sought(f))]
                  /\ k = IF s = NoSector THEN "free" ELSE kind[s]
  OBVIOUS
<1>5. PICK g :
        /\ Set(t, g)
        /\ \/ /\ DirEnt(curDir) = {}
              /\ g = [f EXCEPT !.pc = "back", !.node = NoSector, !.type = "free"]
              /\ cwd' = cwd
           \/ /\ g = [f EXCEPT !.pc = "back",
                               !.todo = IF f.op = "getattr" THEN cwd ELSE f.saved,
                               !.node = s, !.type = k]
              /\ cwd' = <<>>
  <2>1. CASE DirEnt(curDir) = {}
    <3>1. PICK g : g = [f EXCEPT !.pc = "back", !.node = NoSector, !.type = "free"]
      OBVIOUS
    <3> QED BY <1>1, <2>1, <3>1 DEF Find, StayHere
  <2>2. CASE DirEnt(curDir) # {}
    <3>1. PICK g : g = [f EXCEPT !.pc = "back",
                                 !.todo = IF f.op = "getattr" THEN cwd ELSE f.saved,
                                 !.node = s, !.type = k]
      OBVIOUS
    <3> QED BY <1>1, <1>4, <2>2, <3>1 DEF Find, ListFind, ChdirFromRoot
  <2> QED BY <2>1, <2>2
<1>6. g.op = f.op /\ g.path = f.path /\ g.pc = "back" /\ g.base = f.base
  BY <1>2, <1>5 DEF Frames
<1>7. CASE f.op = "rename"
  BY <1>1, <1>2, <1>3, <1>5, <1>6, <1>7, NothingFound, Silent
<1>8. CASE f.op \in {"getattr", "chmod"}
  <2>1. f.path # <<>> /\ Sought(f) = f.path
    BY <1>2, <1>3, <1>8 DEF FrameOK, Sought
  <2>2. IsDir(Dirname(f.path))
    <3>1. CASE f.op = "getattr"
      <4>1. f.op \notin Lookups /\ Bound(f) = Dirname(f.path) /\ curDir \in Sectors
        BY <3>1 DEF Lookups, Bound, Sought, Ind, Places
      <4> QED BY <1>2, <1>3, <4>1, WalkEnds DEF FramePaths, IsDir
    <3>2. CASE f.op = "chmod"
      BY <1>2, <1>3, <2>1, <3>2 DEF FrameRef, PermOK, Walking
    <3> QED BY <1>8, <3>1, <3>2
  <2>3. /\ s # NoSector => HasEntry(f.path, s) /\ kind[s] # "free"
        /\ s = NoSector => \A x : ~HasEntry(f.path, x)
    BY <1>2, <1>3, <1>4, <1>8, <2>1, <2>2, ExactEntry DEF FramePaths
  <2>4. g.node = s /\ g.type = k
    <3>1. Basename(f.path) \in Names
      BY <1>2, <2>1, FrontLast DEF Frames
    <3>2. DirEnt(curDir) = {} => s = NoSector
      BY <1>4, <2>1, <3>1 DEF DirEnt
    <3> QED BY <1>2, <1>4, <1>5, <3>2 DEF Frames
  <2>5. /\ g.type = "free" => \A x : ~HasEntry(f.path, x)
        /\ g.type # "free" => HasEntry(f.path, g.node) /\ kind[g.node] = g.type
    BY <1>4, <2>3, <2>4
  <2>6. /\ g.type = "free" => \A x : ~HasEntry(f.path, x)'
        /\ g.type # "free" => HasEntry(f.path, g.node)' /\ kind'[g.node] = g.type
    BY <1>3, <2>5, SameEntries
  <2>7. CASE f.op = "getattr"
    <3>1. cwd' \o g.todo = cwd
      <4>1. CASE g.todo = <<>> /\ cwd' = cwd
        BY <1>2, <4>1
      <4>2. CASE g.todo = cwd /\ cwd' = <<>>
        BY <1>2, <4>2
      <4> QED BY <1>2, <1>3, <1>5, <2>7, <4>1, <4>2 DEF Frames
    <3>2. PICK q : q = Dirname(f.path)
      OBVIOUS
    <3>3. Goal(f) = q /\ Goal(g)' = q
      BY <1>3, <1>6, <3>2 DEF Goal
    <3>4. cwd = q
      <4>1. cwd \o f.todo = q /\ f.base = NoSector
        BY <1>2, <1>3, <2>2, <2>7, <3>2, <3>3 DEF FrameRef, StatOK, Walking
      <4> QED BY <1>2, <1>3, <4>1
    <3>5. f.base = NoSector
      BY <1>2, <1>3, <2>7 DEF FrameRef, StatOK, Walking
    <3>6. StatOK(g)'
      <4>1. cwd' \o g.todo = Goal(g)'
        BY <3>1, <3>3, <3>4
      <4> QED BY <1>6, <2>1, <2>6, <3>5, <4>1 DEF StatOK
    <3>7. FrameRef(g)'
      BY <1>6, <2>7, <3>6 DEF FrameRef, LinkOK, PermOK, UseOK, FileOps
    <3> QED BY <1>1, <1>2, <1>3, <1>5, <1>6, <3>7, Silent
  <2>8. CASE f.op = "chmod"
    <3>1. IsDir(Dirname(f.path))'
      BY <1>3, <2>2, SameTrails DEF IsDir
    <3>2. PermOK(g)'
      BY <1>6, <2>1, <2>6, <3>1 DEF PermOK
    <3>3. FrameRef(g)'
      BY <1>6, <2>8, <3>2 DEF FrameRef, StatOK, LinkOK, UseOK, FileOps
    <3> QED BY <1>1, <1>2, <1>3, <1>5, <1>6, <3>3, Silent
  <2> QED BY <1>8, <2>7, <2>8
<1> QED BY <1>3, <1>7, <1>8 DEF Lookups


\* While getattr is in the directory of the path, the library opens by name
\* the entry that has been found.
LEMMA OpenedFound ==
  ASSUME Ind, FoldUnique, NEW f \in Frames, FrameRef(f), CwdOK(f),
         f.op = "getattr", Arrived(f, "back"), f.type # "free"
  PROVE  Opened(curDir, Basename(f.path)) = Target(f.node)
<1>1. /\ f.path # <<>> /\ HasEntry(f.path, f.node)
      /\ IsDir(Dirname(f.path)) => cwd \o f.todo = Dirname(f.path)
  BY DEF FrameRef, StatOK, Arrived, Walking, Goal
<1>2. PICK p, n : p = Dirname(f.path) /\ n = Basename(f.path)
  OBVIOUS
<1>3. p \in Seq(Names) /\ n \in Names /\ cwd \in Seq(Names) /\ TreeTypeOK
  BY <1>1, <1>2, FrontLast DEF Frames, Ind, Places
<1>4. PICK d \in Sectors : Leads(p, d) /\ entry[d][n] = f.node /\ f.node # NoSector
  BY <1>1, <1>2 DEF HasEntry
<1>5. cwd = p
  <2>1. cwd \o f.todo = p /\ f.todo = <<>>
    BY <1>1, <1>2, <1>4 DEF IsDir, Arrived
  <2> QED BY <1>3, <2>1
<1>6. Leads(cwd, curDir)
  BY <1>1 DEF CwdOK, Sought, EntryOps, Arrived, Walking
<1>7. d = curDir
  BY <1>3, <1>4, <1>5, <1>6, LeadsUnique
<1> QED BY <1>2, <1>3, <1>4, <1>7, ExactFound DEF Opened

\* The directory counted is the one the entry found stands for.
LEMMA CountedFound ==
  ASSUME Ind, FoldUnique, NEW f \in Frames, FrameRef(f), CwdOK(f),
         f.op = "getattr", Arrived(f, "into"), kind[Target(f.node)] = "dir"
  PROVE  curDir = Target(f.node)
<1>1. /\ f.path # <<>> /\ HasEntry(f.path, f.node)
      /\ IsDir(f.path) => cwd \o f.todo = f.path
  BY DEF FrameRef, StatOK, Arrived, Walking, Goal
<1>2. PICK p, n : p = f.path /\ n = Basename(f.path)
  OBVIOUS
<1>3. /\ p \in Seq(Names) /\ Dirname(p) \in Seq(Names) /\ n \in Names
      /\ cwd \in Seq(Names) /\ TreeTypeOK /\ RootSafe
  BY <1>1, <1>2, FrontLast DEF Frames, Ind, Places
<1>4. PICK d \in Sectors : Leads(Dirname(p), d) /\ entry[d][n] = f.node /\ f.node # NoSector
  BY <1>1, <1>2 DEF HasEntry
<1>5. EntryOf(d, n) = f.node
  BY <1>3, <1>4, ExactFound
<1>6. CanEnter(d, n) /\ Entered(d, n) = Target(f.node)
  <2>1. kind[d] = "dir"
    BY <1>3, <1>4, LeadsDir
  <2>2. n \in Matching(d, n)
    BY <1>3, <1>4 DEF Matching
  <2> QED BY <1>5, <2>1, <2>2 DEF CanEnter, Entered
<1>7. Leads(p, Target(f.node))
  BY <1>1, <1>2, <1>3, <1>4, <1>6, LeadsLast
<1>8. cwd = p
  <2>1. Target(f.node) \in Sectors
    BY <1>3, <1>7, LeadsDir
  <2>2. cwd \o f.todo = p /\ f.todo = <<>>
    BY <1>1, <1>2, <1>7, <2>1 DEF IsDir, Arrived
  <2> QED BY <1>3, <2>2
<1>9. Leads(cwd, curDir)
  BY <1>1 DEF CwdOK, Sought, EntryOps, Arrived, Walking
<1> QED BY <1>3, <1>7, <1>8, <1>9, LeadsUnique

\* adffs_getattr once the entry is found.
LEMMA StatRef ==
  ASSUME SingleThreaded, Ind, PathInd, RefInd, NEW t \in Threads,
         StatEntry(t) \/ StatDir(t) \/ CountEntries(t) \/ Counted(t)
  PROVE  RefStep
<1>1. PICK f : f = call[t]
  OBVIOUS
<1>2. /\ FramePaths(f) /\ CwdOK(f) /\ f \in Frames /\ FrameOK(f) /\ FrameRef(f)
      /\ Handler(t) /\ FoldUnique /\ cwd \in Seq(Names) /\ curDir \in Sectors
  BY <1>1 DEF PathInd, Ind, FramesOK, FrameOK, RefInd, Handler, FramePaths, Places
<1>3. /\ f.op = "getattr" /\ f.pc \in Walking \ {"enter"} /\ f.pc # "done"
      /\ f.todo = <<>> /\ f.path # <<>> /\ UNCHANGED tree
  <2>1. f.pc \in Walking \ {"enter"} /\ f.pc # "done" /\ f.todo = <<>> /\ UNCHANGED tree
    BY <1>1 DEF StatEntry, StatDir, CountEntries, Counted, Arrived, Walking
  <2>2. f.op = "getattr"
    BY <1>1, <1>2 DEF StatEntry, StatDir, CountEntries, Counted, Arrived, FramePaths,
       CountOK
  <2> QED BY <1>2, <2>1, <2>2 DEF FrameRef, StatOK
<1>4. CASE StatEntry(t)
  <2>1. /\ Arrived(f, "back") /\ f.type \notin {"dir", "ldir"}
        /\ f.base = NoSector
    BY <1>1, <1>2, <1>3, <1>4 DEF StatEntry, Arrived, FrameRef, StatOK
  <2>2. /\ f.type = "free" => \A s : ~HasEntry(f.path, s)
        /\ f.type # "free" => HasEntry(f.path, f.node) /\ kind[f.node] = f.type
    BY <1>2, <1>3, <2>1 DEF FrameRef, StatOK, Arrived
  <2>3. ASSUME f.type = "free", Finish(t, f, "ENOENT")
        PROVE  RefStep
    <3>1. PICK a : a = [op |-> f.op, path |-> f.path, to |-> f.to, status |-> "ENOENT",
                        node |-> f.node, base |-> f.base, size |-> f.size]
      OBVIOUS
    <3>2. a.op = "getattr" /\ a.path = f.path /\ a.status = "ENOENT"
      BY <1>3, <3>1
    <3>3. Abs!Getattr(a)
      BY <1>3, <2>2, <2>3, <3>2, SamePlaces DEF Abs!Getattr
    <3>4. Right(a)
      BY <1>3, <3>2, <3>3 DEF Right
    <3> QED BY <1>1, <1>2, <1>3, <2>3, <3>1, <3>4, FinishRef
  <2>4. ASSUME f.type # "free", NEW h \in Frames, h.op = f.op, h.path = f.path,
               h.node = f.node, h.base \in {NoSector, Target(f.node)}, Finish(t, h, "ok")
        PROVE  RefStep
    <3>1. PICK a : a = [op |-> h.op, path |-> h.path, to |-> h.to, status |-> "ok",
                        node |-> h.node, base |-> h.base, size |-> h.size]
      OBVIOUS
    <3>2. /\ a.op = "getattr" /\ a.path = f.path /\ a.status = "ok" /\ a.node = f.node
          /\ a.base \in {NoSector, Target(f.node)}
      BY <1>3, <2>4, <3>1
    <3>3. Abs!Has(a.path, a.node) /\ kind[a.node] \notin {"dir", "ldir"}
      BY <2>1, <2>2, <2>4, <3>2, SamePlaces
    <3>4. Abs!Target(a.node) = Target(f.node)
      BY <3>2, SameTerms
    <3>5. Abs!Getattr(a)
      BY <1>3, <3>2, <3>3, <3>4 DEF Abs!Getattr
    <3>6. Right(a)
      BY <1>3, <3>2, <3>5 DEF Right
    <3> QED BY <1>1, <1>2, <1>3, <2>4, <3>1, <3>6, FinishRef
  <2>5. PICK o, h : /\ o = Opened(curDir, Basename(f.path))
                    /\ h = [f EXCEPT !.base = o]
    OBVIOUS
  <2>6. \/ f.type = "free" /\ Finish(t, f, "ENOENT")
        \/ f.type # "free" /\ Finish(t, f, "ok")
        \/ f.type # "free" /\ Finish(t, h, "ok")
    BY <1>1, <1>4, <2>5 DEF StatEntry
  <2>7. CASE f.type # "free" /\ Finish(t, h, "ok")
    <3>1. o = Target(f.node)
      BY <1>2, <1>3, <2>1, <2>5, <2>7, OpenedFound
    <3>2. o \in Sectors
      BY <1>2, <2>7, <3>1, VolumeAssumption DEF FrameOK, Target
    <3>3. /\ h \in Frames /\ h.op = f.op /\ h.path = f.path /\ h.node = f.node
          /\ h.base = o
      BY <1>2, <2>5, <3>2 DEF Frames
    <3> QED BY <2>4, <2>7, <3>1, <3>3
  <2> QED BY <1>2, <2>1, <2>3, <2>4, <2>6, <2>7
<1>5. CASE StatDir(t)
  <2>1. PICK g : g = [f EXCEPT !.pc = "into", !.todo = f.path, !.saved = cwd]
    OBVIOUS
  <2>2. /\ Set(t, g) /\ f.pc = "back" /\ f.type \in {"dir", "ldir"} /\ cwd' = <<>>
    BY <1>1, <1>5, <2>1 DEF StatDir, Arrived, ChdirFromRoot
  <2>3. /\ g.op = f.op /\ g.path = f.path /\ g.pc = "into" /\ g.todo = f.path
        /\ g.node = f.node /\ g.type = f.type
    BY <1>2, <2>1 DEF Frames
  <2>4. HasEntry(f.path, f.node)' /\ kind'[f.node] = f.type
    <3>1. HasEntry(f.path, f.node) /\ kind[f.node] = f.type
      BY <1>2, <1>3, <2>2 DEF FrameRef, StatOK
    <3> QED BY <1>3, <3>1, SameEntries
  <2>5. cwd' \o g.todo = f.path
    BY <1>2, <2>2, <2>3 DEF Frames
  <2>6. Goal(g)' = f.path
    BY <2>3 DEF Goal
  <2>7. cwd' \o g.todo = Goal(g)'
    BY <2>5, <2>6
  <2>8. StatOK(g)'
    BY <1>3, <2>2, <2>3, <2>4, <2>7 DEF StatOK
  <2>9. FrameRef(g)'
    BY <1>3, <2>3, <2>8 DEF FrameRef, LinkOK, PermOK, UseOK, FileOps
  <2> QED BY <1>1, <1>2, <1>3, <2>2, <2>3, <2>9, Silent
<1>6. CASE CountEntries(t)
  <2>1. PICK d, c : d = curDir /\ c = Cardinality(DirEnt(curDir))
    OBVIOUS
  <2>2. PICK g : g = [f EXCEPT !.pc = "out", !.todo = f.saved, !.base = d, !.size = c]
    OBVIOUS
  <2>3. Set(t, g) /\ f.pc = "into" /\ Arrived(f, "into")
    BY <1>1, <1>6, <2>1, <2>2 DEF CountEntries, Arrived
  <2>4. /\ g.op = f.op /\ g.path = f.path /\ g.pc = "out" /\ g.node = f.node
        /\ g.type = f.type /\ g.base = d /\ g.size = c
    BY <1>2, <2>2 DEF Frames
  <2>5. f.type \in {"dir", "ldir"} /\ HasEntry(f.path, f.node) /\ kind[f.node] = f.type
    BY <1>2, <1>3, <2>3 DEF FrameRef, StatOK
  <2>6. HasEntry(f.path, f.node)' /\ kind'[f.node] = f.type
    BY <1>3, <2>5, SameEntries
  <2>7. PICK s : s = Target(f.node)
    OBVIOUS
  <2>8. Target(f.node)' = s /\ kind'[s] = kind[s] /\ DirEnt(d)' = DirEnt(d)
    BY <1>3, <2>7, SameEntries
  <2>9. kind[s] = "dir" => d = s
    BY <1>2, <1>3, <2>1, <2>3, <2>7, CountedFound
  <2>10. c = Cardinality(DirEnt(d)')
    BY <2>1, <2>8
  <2>11. kind'[Target(g.node)'] = "dir" =>
           g.base = Target(g.node)' /\ g.size = Cardinality(DirEnt(g.base)')
    BY <2>4, <2>8, <2>9, <2>10
  <2>12. StatOK(g)'
    BY <1>3, <2>4, <2>5, <2>6, <2>11 DEF StatOK
  <2>13. FrameRef(g)'
    BY <1>3, <2>4, <2>12 DEF FrameRef, LinkOK, PermOK, UseOK, FileOps
  <2> QED BY <1>1, <1>2, <1>3, <2>3, <2>4, <2>13, Silent
<1>7. CASE Counted(t)
  <2>1. Finish(t, f, "ok") /\ f.pc = "out"
    BY <1>1, <1>7 DEF Counted, Arrived
  <2>2. PICK a : a = [op |-> f.op, path |-> f.path, to |-> f.to, status |-> "ok",
                      node |-> f.node, base |-> f.base, size |-> f.size]
    OBVIOUS
  <2>3. /\ a.op = "getattr" /\ a.path = f.path /\ a.status = "ok" /\ a.node = f.node
        /\ a.base = f.base /\ a.size = f.size
    BY <1>3, <2>2
  <2>4. /\ f.type \in {"dir", "ldir"} /\ HasEntry(f.path, f.node) /\ kind[f.node] = f.type
        /\ kind[Target(f.node)] = "dir" =>
             f.base = Target(f.node) /\ f.size = Cardinality(DirEnt(f.base))
    BY <1>2, <1>3, <2>1 DEF FrameRef, StatOK
  <2>5. Abs!Has(a.path, a.node) /\ kind[a.node] \in {"dir", "ldir"}
    BY <2>3, <2>4, SamePlaces
  <2>6. Abs!Target(a.node) = Target(f.node) /\ Abs!DirEnt(a.base) = DirEnt(f.base)
    BY <2>3, SameTerms
  <2>7. kind[Abs!Target(a.node)] = "dir" =>
          a.base = Abs!Target(a.node) /\ a.size = Abs!Cardinality(Abs!DirEnt(a.base))
    BY <2>3, <2>4, <2>6, SameCount
  <2>8. Abs!Getattr(a)
    BY <1>3, <2>3, <2>5, <2>7 DEF Abs!Getattr
  <2>9. Right(a)
    BY <1>3, <2>3, <2>8 DEF Right
  <2> QED BY <1>1, <1>2, <1>3, <2>1, <2>2, <2>9, FinishRef
<1> QED BY <1>4, <1>5, <1>6, <1>7


-----------------------------------------------------------------------------
(* chmod and rename, once adfimage_getdentry has returned.                 *)

\* The entry rewritten is the one of the path; the directories of a rename are
\* those its two paths name.
LEMMA RenameRef ==
  ASSUME SingleThreaded, KernelChecked, Ind, PathInd, RefInd, NEW t \in Threads,
         SetPerm(t) \/ NoParent(t) \/ SourceFound(t) \/ RenameIt(t)
  PROVE  RefStep
<1>1. PICK f : f = call[t]
  OBVIOUS
<1>2. FramePaths(f) /\ FrameOK(f) /\ f \in Frames /\ FrameRef(f) /\ Handler(t)
  BY <1>1 DEF PathInd, Ind, FramesOK, FrameOK, RefInd, Handler
<1>3. f.pc = "back" /\ f.pc \in Walking /\ f.pc # "done"
  BY <1>1 DEF SetPerm, NoParent, SourceFound, RenameIt, Arrived, Walking
<1>4. ASSUME NEW status, Finish(t, f, status), f.op \in Lookups,
             NEW a, a = [op |-> f.op, path |-> f.path, to |-> f.to, status |-> status,
                         node |-> f.node, base |-> f.base, size |-> f.size],
             Right(a)
      PROVE  RefStep
  BY <1>1, <1>2, <1>3, <1>4, FinishRef
<1>5. ASSUME f.op = "rename", UNCHANGED tree,
             NEW status \in {"ENOENT", "EINVAL", "EPERM"}, Finish(t, f, status)
      PROVE  RefStep
  <2>1. PICK a : a = [op |-> f.op, path |-> f.path, to |-> f.to, status |-> status,
                      node |-> f.node, base |-> f.base, size |-> f.size]
    OBVIOUS
  <2>2. a.op = "rename" /\ a.status = status /\ UNCHANGED Abs!tree
    BY <1>5, <2>1 DEF Abs!tree, tree
  <2>3. Right(a)
    BY <1>5, <2>2 DEF Right, Abs!Move
  <2> QED BY <1>4, <1>5, <2>1, <2>3 DEF Lookups
<1>6. CASE SetPerm(t)
  <2>1. /\ f.op = "chmod" /\ UNCHANGED tree
        /\ \/ f.type # "free" /\ Finish(t, f, "ok")
           \/ Finish(t, f, "+EINVAL")
    BY <1>1, <1>6 DEF SetPerm
  <2>2. PICK status : /\ (status = "ok" /\ f.type # "free") \/ status = "+EINVAL"
                      /\ Finish(t, f, status)
    BY <2>1
  <2>3. PICK a : a = [op |-> f.op, path |-> f.path, to |-> f.to, status |-> status,
                      node |-> f.node, base |-> f.base, size |-> f.size]
    OBVIOUS
  <2>4. a.op = "chmod" /\ a.path = f.path /\ a.status = status /\ a.node = f.node
    BY <2>1, <2>3
  <2>5. f.type # "free" =>
          IF f.path = <<>> THEN f.node = Root ELSE HasEntry(f.path, f.node)
    BY <1>2, <1>3, <2>1 DEF FrameRef, PermOK
  <2>6. f.type # "free" =>
          IF a.path = <<>> THEN a.node = Root ELSE Abs!Has(a.path, a.node)
    BY <2>4, <2>5, SamePlaces
  <2>7. Abs!Chmod(a)
    BY <2>2, <2>4, <2>6 DEF Abs!Chmod
  <2>8. Right(a)
    BY <2>1, <2>4, <2>7 DEF Right
  <2> QED BY <1>4, <2>1, <2>2, <2>3, <2>8 DEF Lookups
<1>7. CASE NoParent(t)
  <2>1. PICK status : status = IF f.type = "free" THEN "ENOENT" ELSE "EINVAL"
    OBVIOUS
  <2>2. f.op = "rename" /\ UNCHANGED tree /\ Finish(t, f, status)
    BY <1>1, <1>7, <2>1 DEF NoParent
  <2> QED BY <1>5, <2>1, <2>2
<1>8. CASE SourceFound(t)
  <2>1. PICK e, g, p : e = ParentSector(f) /\ g = [f EXCEPT !.base = e] /\ p = Dirname(f.to)
    OBVIOUS
  <2>2. /\ f.op = "rename" /\ f.type \in {"dir", "ldir"}
        /\ BeginLookup(t, g, p) /\ UNCHANGED tree
    BY <1>1, <1>8, <2>1 DEF SourceFound
  <2>3. e \in Sectors
    BY <1>2, <2>1, <2>2, VolumeAssumption DEF FrameOK, ParentSector
  <2>4. g \in Frames /\ g.op = "rename"
    BY <1>2, <2>1, <2>2, <2>3 DEF Frames
  <2> QED BY <1>1, <1>2, <1>3, <2>2, <2>4, RenameLookup
<1>9. CASE RenameIt(t)
  <2>1. PICK d, e, m, n : /\ d = f.base /\ e = ParentSector(f)
                          /\ m = Basename(f.path) /\ n = Basename(f.to)
    OBVIOUS
  <2>2. /\ f.op = "rename" /\ d # NoSector /\ f.type \in {"dir", "ldir"}
        /\ \/ RenameEntry(d, m, e, n) /\ Finish(t, f, "ok")
           \/ Finish(t, f, "EPERM") /\ UNCHANGED tree
    BY <1>1, <1>9, <2>1 DEF RenameIt
  <2>3. CASE Finish(t, f, "EPERM") /\ UNCHANGED tree
    BY <1>5, <2>2, <2>3
  <2>4. CASE RenameEntry(d, m, e, n) /\ Finish(t, f, "ok")
    <3>1. d \in Sectors /\ e \in Sectors
      BY <1>2, <2>1, <2>2, VolumeAssumption DEF FrameOK, Frames, ParentSector
    <3>2. Leads(Dirname(f.path), d) /\ Leads(Dirname(f.to), e)
      BY <1>2, <1>3, <2>1, <2>2 DEF FramePaths, RenameOK, Sought
    <3>3. PICK a : a = [op |-> f.op, path |-> f.path, to |-> f.to, status |-> "ok",
                        node |-> f.node, base |-> f.base, size |-> f.size]
      OBVIOUS
    <3>4. a.op = "rename" /\ a.path = f.path /\ a.to = f.to /\ a.status = "ok"
      BY <2>2, <3>3
    <3>5. Abs!In(a.path, d) /\ Abs!In(a.to, e)
      BY <3>2, <3>4, SamePlaces
    <3>6. Abs!RenameEntry(d, m, e, n)
      BY <2>4, SameChanges
    <3>7. m = Abs!Last(a.path) /\ n = Abs!Last(a.to)
      BY <2>1, <3>4, SameTerms
    <3>8. Abs!Move(a)
      BY <3>1, <3>4, <3>5, <3>6, <3>7 DEF Abs!Move
    <3>9. Right(a)
      BY <3>4, <3>8 DEF Right
    <3> QED BY <1>4, <2>2, <2>4, <3>3, <3>9 DEF Lookups
  <2> QED BY <2>2, <2>3, <2>4
<1> QED BY <1>6, <1>7, <1>8, <1>9

-----------------------------------------------------------------------------
(* The theorem.                                                            *)

\* A volume that has just been mounted is one of PathFs.
LEMMA InitRef == Init => RefInd /\ Abs!Init
<1>1. SUFFICES ASSUME Init PROVE RefInd /\ Abs!Init
  OBVIOUS
<1>2. Idle.pc = "idle"
  BY DEF Idle, Request
<1>3. \A t \in Threads : call[t] = Idle
  BY <1>1 DEF Init
<1>4. FrameRef(Idle)
  BY <1>2 DEF FrameRef, StatOK, LinkOK, PermOK, UseOK, Walking
<1>5. RefInd
  BY <1>3, <1>4 DEF RefInd
<1>6. [t \in Threads |-> answerOf(t)] = [t \in Threads |-> Abs!Nothing]
  BY <1>2, <1>3 DEF answerOf, Abs!Nothing
<1>7. Abs!TreeInit
  BY <1>1 DEF Init, TreeInit, Abs!TreeInit
<1> QED BY <1>5, <1>6, <1>7 DEF Abs!Init

\* Every step of the handlers is a step of PathFs, or none.
LEMMA NextRef ==
  ASSUME SingleThreaded, KernelChecked
  PROVE  Ind /\ Held /\ PathInd /\ RefInd /\ [Next]_vars => RefStep
<1>1. SUFFICES ASSUME Ind, Held, PathInd, RefInd, [Next]_vars
               PROVE  RefStep
  OBVIOUS
<1>2. CASE UNCHANGED vars
  <2>1. UNCHANGED tree /\ cwd' = cwd /\ call' = call
    BY <1>2 DEF vars, tree
  <2>2. RefInd'
    <3>1. SUFFICES ASSUME NEW t \in Threads, NEW f, f = call[t]
                   PROVE  FrameRef(f)'
      BY <2>1 DEF RefInd
    <3>2. FrameRef(f)
      BY <1>1, <3>1 DEF RefInd
    <3>3. cwd' \o f.todo = cwd \o f.todo
      BY <2>1
    <3> QED BY <2>1, <3>2, <3>3, StaysFound
  <2>3. answers' = answers
    BY <2>1 DEF answers, answerOf
  <2> QED BY <2>1, <2>2, <2>3 DEF RefStep, tree
<1>3. CASE Next
  <2>1. PICK t \in Threads : Begin(t) \/ Handler(t)
    BY <1>3 DEF Next
  <2>2. CASE Begin(t)
    BY <1>1, <2>2, BeginRef
  <2>3. CASE ChangeDir(t) \/ ChdirIgnored(t)
    BY <1>1, <2>3, WalkRef
  <2>4. CASE ChdirFails(t)
    BY <1>1, <2>4, FailedRef
  <2>5. CASE OpenFile(t) \/ OpenFails(t) \/ ReadLink(t) \/ Restored(t)
    BY <1>1, <2>5, FileRef
  <2>6. CASE ListDir(t) \/ MakeDir(t) \/ CreateFile(t) \/ RemoveIt(t)
    BY <1>1, <2>6, EntryRef
  <2>7. CASE Find(t)
    BY <1>1, <2>7, FindRef
  <2>8. CASE StatEntry(t) \/ StatDir(t) \/ CountEntries(t) \/ Counted(t)
    BY <1>1, <2>8, StatRef
  <2>9. CASE SetPerm(t) \/ NoParent(t) \/ SourceFound(t) \/ RenameIt(t)
    BY <1>1, <2>9, RenameRef
  <2>10. CASE Reply(t)
    BY <1>1, <2>10, ReplyRef
  <2> QED BY <2>1, <2>2, <2>3, <2>4, <2>5, <2>6, <2>7, <2>8, <2>9, <2>10 DEF Handler
<1> QED BY <1>1, <1>2, <1>3

\* With -s, and where the kernel has looked up the directories of a chmod and
\* of a rename, the handlers implement a file system that knows paths only: the
\* shared current directory, the stale cwd and the walks half done by failed
\* requests show in no answer and in no change of the tree (adffs.c:131-656).
THEOREM HandlersImplementPathFs ==
  ASSUME SingleThreaded, KernelChecked
  PROVE  Spec => ImplementsPathFs
<1>1. Init => RefInd /\ Abs!Init
  BY InitRef
<1>2. Ind /\ Held /\ PathInd /\ RefInd /\ [Next]_vars
      => RefInd' /\ [Abs!Next]_<<kind, entry, answers>>
  BY NextRef DEF RefStep
<1>3. Ind /\ Held /\ PathInd /\ RefInd /\ [Next]_vars
      => RefInd' /\ [Abs!Next]_<<kind, entry, [t \in Threads |-> answerOf(t)]>>
  BY <1>2 DEF answers
<1> QED BY <1>1, <1>3, SpecPaths, SpecHeld, PTL DEF Spec, ImplementsPathFs, Abs!Spec

=============================================================================
