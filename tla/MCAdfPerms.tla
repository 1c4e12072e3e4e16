---------------------------- MODULE MCAdfPerms -----------------------------
(* A file and a directory, with any access words.                          *)
EXTENDS AdfPerms

CONSTANTS f, d

\* One bit for delete, one for the group, to stand for the others.
MCOtherBits == {"D", "GW"}
MCAccess == SUBSET Bits

=============================================================================
