----------------------------- MODULE ImageStore -----------------------------
(***************************************************************************)
(* What mounting an image promises: sessions, read-only or read-write, in  *)
(* which a file is read and written at the offsets asked for, as they are  *)
(* (a write behind the end of the file goes to its end).  There is no      *)
(* library, no clean-up and no narrowing of numbers.  A damaged bitmap     *)
(* keeps an image from being written, and only a crash of a session that   *)
(* could write damages it, or leaves a request half done.                  *)
(***************************************************************************)
EXTENDS Naturals, Sequences, SequencesExt, FiniteSetsExt

CONSTANTS Bytes, Zero, Block, Contents, Offsets, Sizes, Buffers

VARIABLES file, answer, bitmap, session

vars == <<file, answer, bitmap, session>>

Nothing == [op |-> "none"]

Init ==
  /\ file \in Contents
  /\ answer = Nothing
  /\ bitmap \in BOOLEAN
  /\ session = "none"

\* Nothing is written to a damaged volume.
Mount ==
  /\ session = "none"
  /\ session' \in IF bitmap THEN {"ro", "rw"} ELSE {"ro"}
  /\ UNCHANGED <<file, answer, bitmap>>

Unmount ==
  /\ session # "none" /\ session' = "none"
  /\ answer' = Nothing
  /\ UNCHANGED <<file, bitmap>>

\* The bytes of the file from an offset on.
From(offset) == SubSeq(file, offset + 1, Len(file))

\* The first n bytes of the data at an offset (at the end of a shorter file),
\* and no other byte.
Written(offset, data, n) ==
  LET at == Min({offset, Len(file)}) IN
  file' = SubSeq(file, 1, at) \o SubSeq(data, 1, n) \o From(at + n)

\* n bytes: cut off, or filled up with zeroes.
Sized(n) ==
  /\ Len(file') = n
  /\ \A i \in 1 .. n : file'[i] = IF i <= Len(file) THEN file[i] ELSE Zero

\* A write or a truncate that was cut off.
HalfDone ==
  \/ \E offset \in Offsets, data \in Buffers :
       \E n \in 0 .. Len(data) : Written(offset, data, n)
  \/ \E size \in Offsets :
       \E n \in Min({Len(file), size}) .. Max({Len(file), size}) : Sized(n)

Crash ==
  /\ session # "none" /\ session' = "none"
  /\ answer' = Nothing
  /\ bitmap' \in IF session = "rw" THEN {bitmap, FALSE} ELSE {bitmap}
  /\ \/ UNCHANGED file
     \/ session = "rw" /\ HalfDone

Repair ==
  /\ session = "none" /\ bitmap' = TRUE
  /\ UNCHANGED <<file, answer, session>>

-----------------------------------------------------------------------------
(* Requests.                                                               *)

\* Some of the bytes at the offset asked for, in their order.
Read(a) ==
  /\ a.at \in Offsets /\ a.size \in Sizes
  /\ \/ a.status = "ENOENT"
     \/ a.status = "ok" /\ Len(a.data) <= a.size /\ IsPrefix(a.data, From(a.at))
  /\ UNCHANGED file

\* As many bytes as are reported, at the offset asked for.
Write(a) ==
  /\ a.at \in Offsets /\ a.data \in Buffers
  /\ \/ a.status = "ENOENT" /\ UNCHANGED file
     \/ /\ a.status = "ok" /\ session = "rw"
        /\ a.count <= Len(a.data) /\ Written(a.at, a.data, a.count)

\* The size asked for.
Truncate(a) ==
  /\ a.size \in Offsets
  /\ \/ a.status = "EPERM" /\ UNCHANGED file
     \/ a.status = "ok" /\ session = "rw" /\ Sized(a.size)

\* The size of the file as it is, or none at all; blocks enough for it.
Getattr(a) ==
  /\ a.size \in {Len(file), 0} /\ a.blocks * Block >= a.size
  /\ UNCHANGED file

Statfs(a) == a.readOnly = (session = "ro") /\ UNCHANGED file

Serve ==
  LET a == answer' IN
  /\ session # "none"
  /\ \/ a.op = "read" /\ Read(a)
     \/ a.op = "write" /\ Write(a)
     \/ a.op = "truncate" /\ Truncate(a)
     \/ a.op = "getattr" /\ Getattr(a)
     \/ a.op = "statfs" /\ Statfs(a)
  /\ UNCHANGED <<bitmap, session>>

Next == Mount \/ Unmount \/ Crash \/ Repair \/ Serve

Spec == Init /\ [][Next]_vars

=============================================================================
