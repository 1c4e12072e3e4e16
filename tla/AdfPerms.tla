----------------------------- MODULE AdfPerms ------------------------------
(***************************************************************************)
(* The translation of permissions: adffs_chmod and adfimage_setperm write  *)
(* them, adfimage_getperm and adffs_getattr show them.                     *)
(*                                                                         *)
(* On an Amiga volume an entry has a word of access bits; R, W and E are   *)
(* set when the owner may NOT read, write or execute.  The word is the set *)
(* of the bits that are set.                                               *)
(***************************************************************************)
EXTENDS Naturals

CONSTANTS
  Files, Dirs,  \* the entries of the volume
  OtherBits,    \* the access bits other than R, W, E: delete, archived,
                \* pure, script, hold, and those of group and others
  InitialAccess \* the access words an entry may have when it is mounted

Entries == Files \cup Dirs
Bits    == {"R", "W", "E"} \cup OtherBits

ASSUME PermsAssumption ==
  /\ Files \cap Dirs = {}
  /\ OtherBits \cap {"R", "W", "E"} = {}
  /\ InitialAccess \subseteq SUBSET Bits

VARIABLES
  access,  \* the access bits of each entry
  asked    \* what the last successful chmod of each entry asked for

vars == <<access, asked>>

\* Mode bits: read, write, execute, for user, group and others.
User  == {"ru", "wu", "xu"}
Modes == User \cup {"rg", "wg", "xg", "ro", "wo", "xo"}

\* No chmod yet.
NotAsked == {"never"}

-----------------------------------------------------------------------------
\* adffs_getattr: read and execute are shown for everyone, write for the
\* user; a directory is executable for all whatever its bits.
FileMode(w) ==
  (IF "R" \in w THEN {} ELSE {"ru", "rg", "ro"})
    \cup (IF "W" \in w THEN {} ELSE {"wu"})
    \cup (IF "E" \in w THEN {} ELSE {"xu", "xg", "xo"})

DirMode(w) == FileMode(w) \cup {"xu", "xg", "xo"}

Shown(e) == IF e \in Dirs THEN DirMode(access[e]) ELSE FileMode(access[e])

\* Variant with a defect: the bit to deny is cleared, not set.
MaskedInverted(w, granted, bit) == IF granted THEN {} ELSE w \ {bit}

\* Variant with a defect: the mask is not complemented, access &= MASK.
MaskedUncomplemented(w, granted, bit) == IF granted THEN w \cap {bit} ELSE w \cup {bit}

\* One of the three statements of adfimage_setperm.  Granting is written
\* access &= !MASK, where !MASK is 0 (~MASK is not): it clears every bit.
Masked(w, granted, bit) == IF granted THEN {} ELSE w \cup {bit}

\* Variant with a defect: the mode bits are stored as they are.
SetPermRaw(w, mode) == w \cup (User \ mode)

\* adfimage_setperm: read, then write, then execute.
SetPerm(w, mode) ==
  LET r  == Masked(w, "ru" \in mode, "R")
      rw == Masked(r, "wu" \in mode, "W")
  IN  Masked(rw, "xu" \in mode, "E")

\* adffs_chmod, the entry being read and written back.
Chmod(e) ==
  \E mode \in SUBSET User, rest \in {{}, Modes \ User} :
    /\ access' = [access EXCEPT ![e] = SetPerm(access[e], mode \cup rest)]
    /\ asked' = [asked EXCEPT ![e] = mode \cup rest]

\* adfReadEntryBlock or adfWriteEntryBlock fails: EINVAL, nothing has changed.
ChmodFails(e) == UNCHANGED vars

Init ==
  /\ access \in [Entries -> InitialAccess]
  /\ asked = [e \in Entries |-> NotAsked]

Next == \E e \in Entries : Chmod(e) \/ ChmodFails(e)

Spec == Init /\ [][Next]_vars

-----------------------------------------------------------------------------
\* Every access word holds access bits only, never bits of a mode.
TypeOK ==
  /\ access \in [Entries -> SUBSET Bits]
  /\ asked \in [Entries -> (SUBSET Modes) \cup {NotAsked}]

\* Whatever chmod asks for the user is what getattr shows next, for all the
\* bits the entry had before: no statement of adfimage_setperm takes back what
\* an earlier one has granted (adfimage.c:351-358).
Granted ==
  \A e \in Entries : asked[e] # NotAsked => asked[e] \cap User \subseteq Shown(e)

\* A permission that chmod withholds is gone from a file unless a permission
\* translated after it is granted: w alone gives rw, x alone rwx
\* (adfimage.c:351-358).
Withheld ==
  \A e \in Files :
    LET a == asked[e] IN
    a # NotAsked =>
      /\ a \cap User = {} => "ru" \notin Shown(e)
      /\ a \cap {"wu", "xu"} = {} => "wu" \notin Shown(e)
      /\ "xu" \notin a => "xu" \notin Shown(e)

=============================================================================
