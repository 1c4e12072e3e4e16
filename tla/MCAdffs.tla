------------------------------ MODULE MCAdffs ------------------------------
(* Small volumes and requests for the model checker.                       *)
EXTENDS Adffs

CONSTANTS r, s1, s2, s3, na, nb, none, t1, t2

MCSectors == {r, s1, s2, s3}
MCNames   == {na, nb}
MCThreads == {t1, t2}
MCFold    == [n \in MCNames |-> n]
MCReal    == [s \in MCSectors |-> s]

Vol(kinds, slots) ==
  [kind  |-> [s \in MCSectors |-> IF s \in DOMAIN kinds THEN kinds[s] ELSE "free"],
   entry |-> [s \in MCSectors |-> [n \in MCNames |->
                IF <<s, n>> \in DOMAIN slots THEN slots[<<s, n>>] ELSE none]]]

\* /a, a directory with the file /a/a.
Nested == Vol(r :> "dir" @@ s1 :> "dir" @@ s2 :> "file",
              <<r, na>> :> s1 @@ <<s1, na>> :> s2)

MCImages == {Nested}

MCPaths == {<<>>, <<na>>, <<nb>>, <<na, na>>, <<na, nb>>}

MCRenames == {<<<<na>>, <<nb>>>>, <<<<na, na>>, <<nb>>>>, <<<<nb>>, <<na, nb>>>>}
=============================================================================
