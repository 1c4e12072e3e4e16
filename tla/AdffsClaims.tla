---------------------------- MODULE AdffsClaims ----------------------------
(* What a comment of the repository says of the handlers and they do not   *)
(* do.                                                                     *)
EXTENDS MCAdffs

\* The size of "/" is the number of entries of the "main directory"
\* (adffs.c:156), whose entries getattr counts.
RootSize ==
  \A t \in Threads :
    LET f == call[t] IN
    f.op = "getattr" /\ f.path = <<>> /\ f.pc = "done" => f.size = Cardinality(DirEnt(Root))

=============================================================================
