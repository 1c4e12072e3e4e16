----------------------------- MODULE MCPathStr -----------------------------
(* Paths of few names for the model checker.                               *)
EXTENDS PathStr

a    == <<"a">>
Dot  == <<".", "a">>
Up   == <<".", ".", "a">>
Down == <<"a", ".", ".">>

MCPaths ==
  LET Few == {a, Dot, Up, Down} IN
  {<<>>} \cup {<<n>> : n \in Few} \cup (Few \X Few) \cup (Few \X Few \X Few)

\* "replace '../' with '//'" (util.h:49) and "replace '/..\0' with '//\0' (only
\* at the end)" (util.h:58): the conversion ends, with a string to look up.
PathConverted == pc = "parents" ~> pc = "lookup"

=============================================================================
