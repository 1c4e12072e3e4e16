----------------------------- MODULE AdfVolume -----------------------------
(***************************************************************************)
(* The tree of a mounted Amiga volume as fuseadf sees it: the part of      *)
(* ADFlib (an external library) that src/src/adfimage.c and adffs.c call.  *)
(*                                                                         *)
(* A volume is a set of entry blocks, addressed by sector.  A directory    *)
(* block holds a hash table from names to sectors; a hard link block names *)
(* the sector of the real entry.                                           *)
(*                                                                         *)
(* ADFlib looks a name up without regard to case (adfNameToEntryBlk, used  *)
(* by adfChangeDir and adfFileOpen: tests/test_adfimage.c:164-168); the    *)
(* fuseadf code that searches a directory list compares names exactly.     *)
(* Fold[n] is the case-folded name ADFlib compares.                        *)
(*                                                                         *)
(* The blocks of directories can be read: a directory that is there can be *)
(* entered and listed.                                                     *)
(***************************************************************************)
EXTENDS Naturals, Sequences, FiniteSets, SequencesExt

CONSTANTS
  Sectors,    \* the sectors that can hold an entry block
  Root,       \* the sector of the root block
  NoSector,   \* "no such entry": a free hash table slot
  Names,      \* entry names
  Fold,       \* the name ADFlib compares for each name
  Real,       \* the sector a hard link block refers to
  ReadOnly,   \* the volume is mounted read-only
  Images      \* the volumes a mount may start from

Kinds == {"free", "dir", "file", "slink", "ldir", "lfile"}

\* A hash table: the entry of each name, NoSector when there is none.
Tables == [Names -> Sectors \cup {NoSector}]

EmptyTable == [n \in Names |-> NoSector]

\* A sound volume: the root is a directory that no directory contains, only
\* directories contain entries, no directory contains two names that differ in
\* case only, and every entry has a block of its own, of a kind fuseadf knows.
WellFormed(img) ==
  /\ img.kind \in [Sectors -> Kinds]
  /\ img.entry \in [Sectors -> Tables]
  /\ img.kind[Root] = "dir"
  /\ \A d \in Sectors, n \in Names :
       img.entry[d][n] # Root /\ (img.entry[d][n] # NoSector => img.kind[d] = "dir")
  /\ \A d \in Sectors, m, n \in Names :
       img.entry[d][m] # NoSector /\ img.entry[d][n] # NoSector /\ Fold[m] = Fold[n]
       => m = n
  /\ \A d \in Sectors, n \in Names :
       img.entry[d][n] # NoSector => img.kind[img.entry[d][n]] # "free"
  /\ \A d, e \in Sectors, m, n \in Names :
       img.entry[d][m] # NoSector /\ img.entry[d][m] = img.entry[e][n] => d = e /\ m = n

ASSUME VolumeAssumption ==
  /\ Root \in Sectors
  /\ NoSector \notin Sectors
  /\ IsFiniteSet(Names)
  /\ Fold \in [Names -> Names]
  /\ Real \in [Sectors -> Sectors]
  /\ ReadOnly \in BOOLEAN
  /\ \A img \in Images : WellFormed(img)

VARIABLES
  kind,     \* what each sector holds
  entry     \* the hash table of each sector

tree == <<kind, entry>>

TreeTypeOK ==
  /\ kind \in [Sectors -> Kinds]
  /\ entry \in [Sectors -> Tables]

TreeInit == \E img \in Images : kind = img.kind /\ entry = img.entry

-----------------------------------------------------------------------------
(* Looking things up.                                                      *)

\* The names of directory d that ADFlib takes for n (adfNameToEntryBlk).
Matching(d, n) == {m \in Names : entry[d][m] # NoSector /\ Fold[m] = Fold[n]}

EntryOf(d, n) == entry[d][CHOOSE m \in Matching(d, n) : TRUE]

\* adfGetDirEnt: the names in directory d, in the case they are stored with.
DirEnt(d) == {n \in Names : entry[d][n] # NoSector}

\* The entry a hard link stands for; any other entry stands for itself.
Target(s) == IF kind[s] \in {"ldir", "lfile"} THEN Real[s] ELSE s

\* Variant with a defect: adfChangeDir takes any entry for a directory.
CanEnterAnything(d, n) == kind[d] = "dir" /\ Matching(d, n) # {}

\* adfChangeDir(vol, n) succeeds from directory d, and where it leads.
CanEnter(d, n) ==
  /\ kind[d] = "dir"
  /\ Matching(d, n) # {}
  /\ kind[Target(EntryOf(d, n))] = "dir"

Entered(d, n) == Target(EntryOf(d, n))

\* adfFileOpen(vol, n, mode) succeeds in directory d, and the file it opens.
CanOpen(d, n, writing) ==
  /\ Matching(d, n) # {}
  /\ kind[Target(EntryOf(d, n))] = "file"
  /\ writing => ~ReadOnly

Opened(d, n) == Target(EntryOf(d, n))

\* The path p, followed from the root one name at a time, leads to sector d.
Leads(p, d) ==
  \E trail \in [0..Len(p) -> Sectors] :
    /\ trail[0] = Root
    /\ trail[Len(p)] = d
    /\ \A i \in 1..Len(p) :
         CanEnter(trail[i - 1], p[i]) /\ trail[i] = Entered(trail[i - 1], p[i])

\* There is a directory at path p.
IsDir(p) == \E d \in Sectors : Leads(p, d)

-----------------------------------------------------------------------------
(* Changing the volume.  The library may refuse any of these (a full       *)
(* volume, an I/O error): a refusal leaves the entries as they are.        *)

\* adfCreateDir, adfCreateFile: a new block of kind k named n in d.
CreateEntry(d, n, k) ==
  /\ ~ReadOnly
  /\ Matching(d, n) = {}
  /\ \E s \in Sectors :
       /\ kind[s] = "free"
       /\ kind' = [kind EXCEPT ![s] = k]
       /\ entry' = [entry EXCEPT ![d][n] = s, ![s] = EmptyTable]

\* adfRemoveEntry: only files, soft links and empty directories go.
RemoveEntry(d, n) ==
  /\ ~ReadOnly
  /\ \E m \in Matching(d, n) :
       LET s == entry[d][m] IN
         /\ kind[s] \in {"file", "slink", "dir"}
         /\ DirEnt(s) = {}
         /\ kind' = [kind EXCEPT ![s] = "free"]
         /\ entry' = [entry EXCEPT ![d][m] = NoSector]

\* adfRenameEntry: the entry n of d becomes the entry m of e.
RenameEntry(d, n, e, m) ==
  /\ ~ReadOnly
  /\ \E o \in Matching(d, n) :
       /\ Matching(e, m) \subseteq (IF d = e THEN {o} ELSE {})
       /\ entry' = LET s == entry[d][o]
                       cut == [entry EXCEPT ![d][o] = NoSector]
                   IN [cut EXCEPT ![e][m] = s]
       /\ UNCHANGED kind

=============================================================================
