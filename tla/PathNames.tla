----------------------------- MODULE PathNames -----------------------------
(***************************************************************************)
(* Paths and adfimage->cwd as sequences of names, the way module Adffs has *)
(* them: a request is for a path, adfimage_chdir enters the names of its   *)
(* directory one by one, cwd grows by each, and may be walked again.       *)
(***************************************************************************)
EXTENDS Sequences, SequencesExt

CONSTANTS
  Paths,   \* the paths requests name, as sequences of names
  Kinds    \* what a handler makes of a path: see Directory

VARIABLES
  phase,   \* "idle"; "begun"; "enter", "back": walking, or stopped
  kind, path,
  todo,    \* the names still to enter
  cwd,     \* adfimage->cwd
  saved    \* the handler's copy of cwd

vars == <<phase, kind, path, todo, cwd, saved>>

\* The directory a handler enters for path p: readdir the path itself; rename,
\* which looks the path's directory up, that one's directory; any other the
\* path's directory.
Directory(k, p) ==
  IF k = "list" THEN p ELSE IF k = "rename" THEN Front(Front(p)) ELSE Front(p)

Init ==
  /\ phase = "idle" /\ kind = "none" /\ path = <<>>
  /\ todo = <<>> /\ cwd = <<>> /\ saved = <<>>

Begin ==
  /\ phase = "idle" /\ phase' = "begun"
  /\ kind' \in Kinds /\ path' \in Paths
  /\ UNCHANGED <<todo, cwd, saved>>

Enter ==
  /\ phase = "begun" /\ phase' = "enter"
  /\ todo' = Directory(kind, path)
  /\ cwd' = IF kind = "relative" THEN cwd ELSE <<>>
  /\ saved' = cwd
  /\ UNCHANGED <<kind, path>>

ChangeDir ==
  /\ phase \in {"enter", "back"} /\ todo # <<>>
  /\ todo' = Tail(todo)
  /\ cwd' = Append(cwd, Head(todo))
  /\ UNCHANGED <<phase, kind, path, saved>>

Stop ==
  /\ todo # <<>> /\ todo' = <<>>
  /\ UNCHANGED <<phase, kind, path, cwd, saved>>

Back ==
  /\ phase = "enter" /\ phase' = "back"
  /\ todo = <<>> /\ todo' = saved
  /\ cwd' = <<>>
  /\ UNCHANGED <<kind, path, saved>>

\* The parent of an entry of the root, which rename asks for, is the root.
End ==
  /\ \/ phase \in {"enter", "back"} /\ todo = <<>>
     \/ phase = "begun" /\ kind = "rename" /\ Len(path) = 1
  /\ phase' = "idle" /\ kind' = "none" /\ path' = <<>> /\ saved' = <<>>
  /\ UNCHANGED <<todo, cwd>>

Next == Begin \/ Enter \/ ChangeDir \/ Stop \/ Back \/ End

Spec == Init /\ [][Next]_vars

=============================================================================
