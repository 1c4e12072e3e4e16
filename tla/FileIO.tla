------------------------------- MODULE FileIO -------------------------------
(***************************************************************************)
(* The data of one file: what adfimage_read, adfimage_write,               *)
(* adfimage_file_truncate (src/src/adfimage.c) and adffs_getattr           *)
(* (src/src/adffs.c) do once they have found it.                           *)
(* Finding it is module Adffs.  The kernel's offsets and sizes are 64 bits *)
(* wide, ADFlib's 32: the casts to unsigned take them modulo Word.         *)
(***************************************************************************)
EXTENDS Naturals, Sequences, SequencesExt, FiniteSetsExt

CONSTANTS
  Word,      \* 2^32: what "unsigned" can count
  Block,     \* 512: the unit of st_blocks
  Bytes,     \* the values of a byte
  Zero,      \* the byte a file grows by
  Capacity,  \* the bytes the volume has room for
  Contents,  \* what the file may hold when the volume is mounted first
  Offsets,   \* the offsets and new sizes requests name
  Sizes,     \* the sizes of reads
  Buffers    \* the data of writes

ASSUME FileAssumption ==
  /\ Word \in Nat \ {0} /\ Block \in Nat \ {0} /\ Capacity \in Nat
  /\ Zero \in Bytes
  /\ Offsets \subseteq Nat /\ Sizes \subseteq Nat
  /\ Buffers \subseteq Seq(Bytes)
  /\ \A c \in Contents : c \in Seq(Bytes) /\ Len(c) <= Capacity

VARIABLES
  file,    \* the bytes of the file on the volume
  answer   \* what the last request on it returned

Nothing == [op |-> "none"]

\* Variant with a defect: the cast is to 16 bits (of 32: half as many).
NarrowShort(n) == n % (Word \div 2)

\* (unsigned) offset, (unsigned) size, (unsigned) new_size.
Narrow(n) == n % Word

\* adfFileSeek: a position in the file, or its end for a position behind it.
Position(pos) == Min({pos, Len(file)})

\* adfFileWrite of the bytes d at position pos.
Overwritten(pos, d) ==
  [i \in 1 .. Max({Len(file), pos + Len(d)}) |->
     IF i \in pos + 1 .. pos + Len(d) THEN d[i - pos] ELSE file[i]]

\* Variant with a defect: the new size is taken for the last index from 0.
ResizedByOne(n) == [i \in 1 .. n + 1 |-> IF i <= Len(file) THEN file[i] ELSE Zero]

\* adfFileTruncate to n bytes.
Resized(n) == [i \in 1 .. n |-> IF i <= Len(file) THEN file[i] ELSE Zero]

-----------------------------------------------------------------------------
(* One request each.  The file may not open, the seek may fail, the        *)
(* library may transfer less than asked (an I/O error, a full volume).     *)

\* adfimage_read: the number of bytes read (0 if the seek fails), the bytes.
Read ==
  \E offset \in Offsets, size \in Sizes :
    LET pos  == Position(Narrow(offset))
        left == Len(file) - pos
    IN
    /\ UNCHANGED file
    /\ \/ answer' = [op |-> "read", at |-> offset, size |-> size,
                     status |-> "ENOENT"]
       \/ \E n \in 0 .. Min({Narrow(size), left}) :
            answer' = [op |-> "read", at |-> offset, size |-> size,
                       status |-> "ok", data |-> SubSeq(file, pos + 1, pos + n)]

\* The first n bytes of the buffer are in the file: as many as have room.
Written(offset, buffer, n) ==
  LET pos == Position(Narrow(offset)) IN
  /\ pos + n <= Capacity
  /\ file' = Overwritten(pos, SubSeq(buffer, 1, n))

\* adfimage_write: the number of bytes written.
Write(readOnly) ==
  \E offset \in Offsets, buffer \in Buffers :
    \/ /\ answer' = [op |-> "write", at |-> offset, data |-> buffer,
                     status |-> "ENOENT"]
       /\ UNCHANGED file
    \/ /\ ~readOnly
       /\ \E n \in 0 .. Narrow(Len(buffer)) :
            /\ Written(offset, buffer, n)
            /\ answer' = [op |-> "write", at |-> offset, data |-> buffer,
                          status |-> "ok", count |-> n]

\* adffs_truncate, adfimage_file_truncate: -1 for any failure.
Truncate(readOnly) ==
  \E size \in Offsets :
    \/ /\ answer' = [op |-> "truncate", size |-> size, status |-> "EPERM"]
       /\ UNCHANGED file
    \/ /\ ~readOnly
       /\ Narrow(size) <= Capacity
       /\ file' = Resized(Narrow(size))
       /\ answer' = [op |-> "truncate", size |-> size, status |-> "ok"]

\* What a write or a truncate leaves that a kill has cut off: the first of its
\* bytes, or a size on the way from the old one to the new.
Interrupted ==
  \/ \E offset \in Offsets, buffer \in Buffers :
       \E n \in 0 .. Narrow(Len(buffer)) : Written(offset, buffer, n)
  \/ \E size \in Offsets :
       LET sizes == {Len(file), Narrow(size)} IN
       \E n \in Min(sizes) .. Max(sizes) : n <= Capacity /\ file' = Resized(n)

\* adffs_statfs shows the mode the volume is mounted in.
Statfs(readOnly) ==
  /\ answer' = [op |-> "statfs", readOnly |-> readOnly]
  /\ UNCHANGED file

\* adffs_getattr: the size, unless the file cannot be opened to be asked; a
\* part of a block more than there can be.
Getattr ==
  /\ answer' \in {[op |-> "getattr", size |-> Len(file),
                   blocks |-> Len(file) \div Block + 1],
                  [op |-> "getattr", size |-> 0, blocks |-> 0]}
  /\ UNCHANGED file

Serve(readOnly) ==
  Read \/ Write(readOnly) \/ Truncate(readOnly) \/ Getattr \/ Statfs(readOnly)

=============================================================================
