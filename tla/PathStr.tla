------------------------------ MODULE PathStr ------------------------------
(***************************************************************************)
(* Paths as the strings they are: what src/src/util.h and adfimage_chdir   *)
(* (src/src/adfimage.c) do with the path FUSE hands to a handler and with  *)
(* adfimage->cwd.  A string is a sequence of characters; FUSE's strings    *)
(* are absolute, with one slash before each name, and no name is empty,    *)
(* "." or "..".  That "//" never occurs makes pathstr_remove_double_slashes*)
(* leave them alone.                                                       *)
(***************************************************************************)
EXTENDS Naturals, Sequences, SequencesExt

CONSTANTS
  Chars,     \* the characters of names, the dot and the slash among them
  Paths,     \* the paths requests name, as sequences of names (strings)
  Kinds,     \* the kinds of requests, a subset of AllKinds
  CwdBound   \* bound of the model: the names adfimage->cwd may hold

\* How a handler comes from the path to what it gives to adfimage_chdir.
AllKinds == {"absolute", "relative", "list", "rename"}

\* The names the kernel asks FUSE for.
Names == {d \in Seq(Chars) : d \notin {<<>>, <<".">>, <<".", ".">>} /\ ~Contains(d, "/")}

ASSUME PathAssumption ==
  /\ {"/", "."} \subseteq Chars /\ Paths \subseteq Seq(Names)
  /\ Kinds \subseteq AllKinds /\ CwdBound \in Nat

VARIABLES
  pc, kind, path,
  str,     \* the string being converted or walked
  at,      \* parentptr, while pathstr_dirparent_u2a shifts
  cwd,     \* adfimage->cwd
  saved,   \* the handler's copy of it
  back     \* walking back to it

vars == <<pc, kind, path, str, at, cwd, saved, back>>

-----------------------------------------------------------------------------
(* Strings.                                                                *)

Root == <<"/">>

Rendered(names) ==
  IF names = <<>> THEN Root
  ELSE FlattenSeq([i \in DOMAIN names |-> Root \o names[i]])

\* The names in a string, that is in its first i characters.
Split(s) ==
  LET words[i \in 0 .. Len(s)] ==
        IF i = 0 THEN <<>>
        ELSE LET w == words[i - 1] IN
             IF s[i] = "/" THEN w
             ELSE IF i = 1 \/ s[i - 1] = "/" THEN Append(w, <<s[i]>>)
             ELSE [w EXCEPT ![Len(w)] = Append(@, s[i])]
  IN words[Len(s)]

Occurs(pattern, s) == \E i \in 1 .. Len(s) : IsPrefix(pattern, SubSeq(s, i, Len(s)))

\* strstr: where the pattern occurs first.
Strstr(s, pattern) ==
  CHOOSE i \in 1 .. Len(s) :
    /\ IsPrefix(pattern, SubSeq(s, i, Len(s)))
    /\ \A j \in 1 .. i - 1 : ~IsPrefix(pattern, SubSeq(s, j, Len(s)))

\* dirname of the C library.
Dirname(s) ==
  LET k == SelectLastInSeq(s, LAMBDA c : c = "/") IN
  IF k = 0 THEN <<".">> ELSE IF k = 1 THEN Root ELSE SubSeq(s, 1, k - 1)

\* Variant with a defect: the slashes stay.
RelativeWithSlash(s) == s

\* "skip all leading '/' from the path".
Relative(s) ==
  LET k == SelectInSeq(s, LAMBDA c : c # "/") IN
  IF k = 0 THEN <<>> ELSE SubSeq(s, k, Len(s))

\* Variant with a defect: a slash is put behind the root's, too.
AppendDirAfterRoot(dir) == cwd \o Root \o dir

\* append_dir.
AppendDir(dir) == (IF cwd = Root THEN cwd ELSE cwd \o Root) \o dir

-----------------------------------------------------------------------------
(* Requests, and the conversion rename makes.                              *)

\* Between requests only cwd is left.
Gone ==
  /\ pc' = "idle" /\ kind' = "none" /\ path' = <<>>
  /\ str' = <<>> /\ at' = 0 /\ saved' = Root /\ back' = FALSE

\* A handler is called; it hands dirname of the path (readdir the path itself,
\* mkdir, create and remove dirname of the path without its slash) to
\* adfimage_chdir, rename to pathstr_fuse2amigados.
Request ==
  /\ pc = "idle"
  /\ \E k \in Kinds, p \in Paths :
       /\ p = <<>> => k = "list"
       /\ k = "relative" => Len(Split(cwd)) + Len(p) <= CwdBound + 1
       /\ kind' = k /\ path' = p
       /\ LET s == Rendered(p) IN
          str' = IF k = "list" THEN s
                 ELSE Dirname(IF k = "relative" THEN Relative(s) ELSE s)
       /\ pc' = IF k = "rename" THEN "parents" ELSE "chdir"
  /\ UNCHANGED <<at, cwd, saved, back>>

\* pathstr_dirparent_u2a, the first loop: "../" becomes "//" by a shift of the
\* rest of the string; without a "../" (any more) the second loop is next.
Parents ==
  /\ pc = "parents"
  /\ \/ /\ Occurs(<<".", ".", "/">>, str)
        /\ LET i == Strstr(str, <<".", ".", "/">>) IN
           str' = [str EXCEPT ![i] = "/"] /\ at' = i + 1
        /\ pc' = "shift"
     \/ ~Occurs(<<".", ".", "/">>, str) /\ pc' = "last" /\ UNCHANGED <<str, at>>
  /\ UNCHANGED <<kind, path, cwd, saved, back>>

\* do *p = *(p + 1) while *(p + 1) is not the end: p stays where it is.
Shift ==
  /\ pc = "shift"
  /\ str' = [str EXCEPT ![at] = str[at + 1]]
  /\ pc' = IF at < Len(str) THEN "shift" ELSE "parents"
  /\ UNCHANGED <<kind, path, at, cwd, saved, back>>

\* Variant with a defect: any name that begins with a dot is taken for "..".
ParentAtDot == <<"/", ".">>

Parent == <<"/", ".", ".">>

\* The second loop: "/.." becomes "//" at the end of the string, and is looked
\* for again elsewhere.
LastParent ==
  /\ pc = "last"
  /\ \/ /\ Occurs(Parent, str)
        /\ LET i == Strstr(str, Parent) IN
           str' = IF i + 2 = Len(str) THEN SubSeq(str, 1, i) \o Root ELSE str
        /\ UNCHANGED pc
     \/ ~Occurs(Parent, str) /\ pc' = "lookup" /\ UNCHANGED str
  /\ UNCHANGED <<kind, path, at, cwd, saved, back>>

\* adfimage_getdentry of the converted string: the root, or an entry of the
\* directory dirname leads to.
Lookup ==
  /\ pc = "lookup"
  /\ \/ str = Root /\ Gone /\ UNCHANGED cwd
     \/ /\ str # Root
        /\ pc' = "chdir" /\ str' = Dirname(str)
        /\ UNCHANGED <<kind, path, at, cwd, saved, back>>

-----------------------------------------------------------------------------
(* adfimage_chdir.                                                         *)

\* An absolute path starts at the root; "" and "." are where one is.  The
\* caller has noted cwd before, unless this is the way back.
Chdir ==
  /\ pc = "chdir"
  /\ cwd' = IF Head(str) = "/" THEN Root ELSE cwd
  /\ str' = LET s == Relative(str) IN IF s = <<".">> THEN <<>> ELSE s
  /\ saved' = IF back THEN saved ELSE cwd
  /\ pc' = "walk"
  /\ UNCHANGED <<kind, path, at, back>>

\* The name up to the next slash (strchr): adfChangeDir enters it, append_dir
\* records it ...
EnterDir ==
  /\ pc = "walk" /\ str # <<>>
  /\ LET k   == SelectInSeq(str, LAMBDA c : c = "/")
         dir == IF k = 0 THEN str ELSE SubSeq(str, 1, k - 1)
     IN
     /\ cwd' = AppendDir(dir)
     /\ str' = IF k = 0 THEN <<>> ELSE SubSeq(str, k + 1, Len(str))
  /\ UNCHANGED <<pc, kind, path, at, saved, back>>

\* ... or does not.
EnterFails ==
  /\ pc = "walk" /\ str # <<>> /\ str' = <<>>
  /\ UNCHANGED <<pc, kind, path, at, cwd, saved, back>>

\* The handler walks back to the working directory it has noted.
WalkBack ==
  /\ pc = "walk" /\ str = <<>> /\ ~back /\ kind \in {"absolute", "rename"}
  /\ str' = saved /\ back' = TRUE /\ pc' = "chdir"
  /\ UNCHANGED <<kind, path, at, cwd, saved>>

\* The handler ends: it is back, it does not go back, or it returns early.
Return ==
  /\ pc = "walk" /\ str = <<>>
  /\ Gone
  /\ UNCHANGED cwd

Init ==
  /\ pc = "idle" /\ kind = "none" /\ path = <<>>
  /\ str = <<>> /\ at = 0
  /\ cwd = Root /\ saved = Root /\ back = FALSE

Handler ==
  \/ Parents \/ Shift \/ LastParent \/ Lookup
  \/ Chdir \/ EnterDir \/ EnterFails \/ WalkBack \/ Return

Next == Request \/ Handler

Spec == Init /\ [][Next]_vars

\* A handler, once called, is run; requests need not come.
FairSpec == Spec /\ WF_vars(Handler)

-----------------------------------------------------------------------------
(* Properties.                                                             *)

\* cwd is a path adfimage_chdir can walk again: absolute, one slash before each
\* name, whatever walks have appended to it (append_dir, adfimage.c:1038).
CwdRendered == cwd = Rendered(Split(cwd))

\* The strings are walked, recorded and walked back to as the sequences of
\* names module Adffs takes them for (util.h:95, adfimage.c:375-414).
ByName ==
  INSTANCE PathNames WITH
    phase <- CASE pc = "idle" -> "idle"
               [] pc = "walk" -> IF back THEN "back" ELSE "enter"
               [] pc = "chdir" /\ back -> "enter"
               [] OTHER -> "begun",
    todo  <- IF pc = "walk" THEN Split(str) ELSE <<>>,
    cwd   <- Split(cwd),
    saved <- Split(saved)

ImplementsPathNames == ByName!Spec

\* A rename the conversion of which touches nothing: no directory has a name
\* that begins with "..", or ends with ".." above another.
Undotted ==
  LET dirs == Front(path) IN
  \A i \in DOMAIN dirs :
    /\ ~IsPrefix(<<".", ".">>, dirs[i])
    /\ i < Len(dirs) => ~IsSuffix(<<".", ".">>, dirs[i])

\* Every handler comes to its end: those that do not convert the path, and
\* rename if there is nothing to convert (util.h:45-68).
Ends == pc # "idle" /\ (kind = "rename" => Undotted) ~> pc = "idle"

=============================================================================
