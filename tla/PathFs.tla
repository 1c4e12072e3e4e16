------------------------------ MODULE PathFs -------------------------------
(***************************************************************************)
(* What the file system promises to the kernel: every request is served in *)
(* ONE step, against the tree as it is, and names its file by its path.    *)
(* There is no current directory, no working directory and no walk: these  *)
(* are how fuseadf does it (module Adffs), and must not show.              *)
(*                                                                         *)
(* An answer holds what the handler returned and the block it settled on:  *)
(* the entry of the path for getattr, chmod and readlink, the file itself  *)
(* for open, read, write and truncate, the directory for the others.       *)
(***************************************************************************)
EXTENDS AdfVolume

CONSTANTS Threads

VARIABLE answer   \* the answer each thread is about to give, or Nothing

Nothing == [op |-> "none"]

\* There is an entry at path p, spelled exactly like that, in sector s.
Has(p, s) ==
  s # NoSector /\ \E d \in Sectors : Leads(Front(p), d) /\ entry[d][Last(p)] = s

\* Directory d is the one that path p is an entry of.
In(p, d) == Leads(Front(p), d)

-----------------------------------------------------------------------------
(* Requests that only look.                                                *)

\* The size shown is that of the file or directory the path stands for; a
\* hard link whose target is gone has none, a file may refuse to be opened.
Getattr(a) ==
  \/ a.path = <<>> /\ a.status = "ok" /\ a.node = Root
  \/ /\ a.path # <<>> /\ a.status = "ok"
     /\ Has(a.path, a.node)
     /\ kind[a.node] \in {"file", "lfile"} => a.base \in {NoSector, Target(a.node)}
     /\ kind[a.node] \in {"dir", "ldir"} /\ kind[Target(a.node)] = "dir" =>
          a.base = Target(a.node) /\ a.size = Cardinality(DirEnt(a.base))
  \/ /\ a.path # <<>> /\ a.status = "ENOENT"
     /\ \A s \in Sectors : ~Has(a.path, s)

Readdir(a) ==
  \/ /\ a.status \in {"ok", "EAGAIN"}
     /\ Leads(a.path, a.node)
     /\ a.size = Cardinality(DirEnt(a.node))
  \/ a.status = "ENOENT" /\ ~IsDir(a.path)

Readlink(a) ==
  \/ a.status \in {"ok", "ESRCH"} /\
     \E d \in Sectors : /\ In(a.path, d) /\ Matching(d, Last(a.path)) # {}
                        /\ a.node = EntryOf(d, Last(a.path))
  \/ a.status = "ENOENT" /\
     \E d \in Sectors : In(a.path, d) /\ Matching(d, Last(a.path)) = {}
  \/ a.status = "EPERM" /\ ~IsDir(Front(a.path))

Chmod(a) ==
  \/ /\ a.status = "ok"
     /\ IF a.path = <<>> THEN a.node = Root ELSE Has(a.path, a.node)
  \/ a.status = "+EINVAL"

\* open, read, write and truncate; the library may refuse any of them.
UseFile(a) ==
  \/ a.status = "ok" /\
     \E d \in Sectors :
       /\ In(a.path, d)
       /\ CanOpen(d, Last(a.path), a.op \in {"write", "truncate"})
       /\ a.node = Opened(d, Last(a.path))
  \/ a.status \in {"ENOENT", "EPERM"}

-----------------------------------------------------------------------------
(* Requests that change the tree: all of it, or nothing.                   *)

Create(a, k) ==
  \/ a.status = "ok" /\ In(a.path, a.node) /\ CreateEntry(a.node, Last(a.path), k)
  \/ a.status = "ENOENT" /\ ~IsDir(Front(a.path)) /\ UNCHANGED tree
  \/ a.status \in {"rc", "EPERM"} /\ IsDir(Front(a.path)) /\ UNCHANGED tree

Delete(a) ==
  \/ a.status = "ok" /\ In(a.path, a.node) /\ RemoveEntry(a.node, Last(a.path))
  \/ a.status = "ENOENT" /\ ~IsDir(Front(a.path)) /\ UNCHANGED tree
  \/ a.status = "rc" /\ IsDir(Front(a.path)) /\ UNCHANGED tree

Move(a) ==
  \/ a.status = "ok" /\
     \E d, e \in Sectors :
       /\ In(a.path, d) /\ In(a.to, e)
       /\ RenameEntry(d, Last(a.path), e, Last(a.to))
  \/ a.status \in {"ENOENT", "EINVAL", "EPERM"} /\ UNCHANGED tree

-----------------------------------------------------------------------------
Serve(t) ==
  LET a == answer'[t] IN
  /\ answer[t] = Nothing
  /\ answer' = [answer EXCEPT ![t] = a]
  /\ \/ a.op = "getattr" /\ Getattr(a) /\ UNCHANGED tree
     \/ a.op = "readdir" /\ Readdir(a) /\ UNCHANGED tree
     \/ a.op = "readlink" /\ Readlink(a) /\ UNCHANGED tree
     \/ a.op = "chmod" /\ Chmod(a) /\ UNCHANGED tree
     \/ a.op \in {"open", "read", "write", "truncate"} /\ UseFile(a) /\ UNCHANGED tree
     \/ a.op = "mkdir" /\ Create(a, "dir")
     \/ a.op = "create" /\ Create(a, "file")
     \/ a.op \in {"rmdir", "unlink"} /\ Delete(a)
     \/ a.op = "rename" /\ Move(a)

Forget(t) ==
  /\ answer[t] # Nothing
  /\ answer' = [answer EXCEPT ![t] = Nothing]
  /\ UNCHANGED tree

Init == TreeInit /\ answer = [t \in Threads |-> Nothing]

Next == \E t \in Threads : Serve(t) \/ Forget(t)

Spec == Init /\ [][Next]_<<kind, entry, answer>>

=============================================================================
