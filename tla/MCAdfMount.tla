----------------------------- MODULE MCAdfMount -----------------------------
(* Small files and words, and what the code does not do of what is said.   *)
EXTENDS AdfMount

MCBytes    == {0, 1}
MCContents == {<<>>, <<1, 1, 1>>}
MCBuffers  == {<<0>>, <<1>>, <<0, 1>>}

\* "Change the size of a file" (adffs.c:626): after a truncate that succeeds
\* the file has the size asked for.
TruncateSize == answer.op = "truncate" /\ answer.status = "ok" => Len(file) = answer.size

=============================================================================
