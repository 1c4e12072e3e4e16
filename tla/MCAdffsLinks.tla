--------------------------- MODULE MCAdffsLinks ---------------------------
(* A volume with hard and soft links, and names that differ in case only.  *)
EXTENDS Adffs

CONSTANTS r, s1, s2, s3, s4, na, nA, nb, none, t1, t2

MCSectors == {r, s1, s2, s3, s4}
MCNames   == {na, nA, nb}
MCThreads == {t1, t2}
MCFold    == [n \in MCNames |-> IF n = nA THEN na ELSE n]
MCReal    == (s2 :> s1) @@ (s4 :> s3) @@ [s \in MCSectors |-> s]

Vol(kinds, slots) ==
  [kind  |-> [s \in MCSectors |-> IF s \in DOMAIN kinds THEN kinds[s] ELSE "free"],
   entry |-> [s \in MCSectors |-> [n \in MCNames |->
                IF <<s, n>> \in DOMAIN slots THEN slots[<<s, n>>] ELSE none]]]

\* /a, a directory with the file /a/a; /b, a hard link to /a; /a/b, a hard
\* link to /a/a.
Hard == Vol(r :> "dir" @@ s1 :> "dir" @@ s2 :> "ldir" @@ s3 :> "file" @@ s4 :> "lfile",
            <<r, na>> :> s1 @@ <<r, nb>> :> s2 @@ <<s1, na>> :> s3 @@ <<s1, nb>> :> s4)

\* An empty /a; /b, a hard link to it.
Bare == Vol(r :> "dir" @@ s1 :> "dir" @@ s2 :> "ldir", <<r, na>> :> s1 @@ <<r, nb>> :> s2)

\* /A, a directory with the soft link /A/b.
Soft == Vol(r :> "dir" @@ s1 :> "dir" @@ s3 :> "slink", <<r, nA>> :> s1 @@ <<s1, nb>> :> s3)

MCImages == {Hard, Bare, Soft}

MCPaths == {<<na>>, <<nA>>, <<nb>>, <<na, nb>>, <<nb, na>>}

MCRenames == {<<<<na>>, <<nA>>>>, <<<<nb, na>>, <<na, nA>>>>}

Threads2 == Permutations(MCThreads)
=============================================================================
