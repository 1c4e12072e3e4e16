------------------------- MODULE AdfMountRefinement -------------------------
(***************************************************************************)
(* AdfMount implements ImageStore: every step of the process is a step of  *)
(* the store or leaves it alone.  Numbers must fit the word, and the root  *)
(* block must be readable: without these the runs have counterexamples.    *)
(***************************************************************************)
EXTENDS AdfMountProofs

\* What the refinement takes for granted of the requests and the volume.
Fits ==
  /\ RootReadable
  /\ \A offset \in Offsets : offset < Word
  /\ \A size \in Sizes : size < Word
  /\ \A buffer \in Buffers : Len(buffer) < Word

\* session, as the mapping defines it.
Session ==
  IF pc \notin {"serving", "close_vol"} THEN "none"
  ELSE IF VolReadOnly THEN "ro" ELSE "rw"

-----------------------------------------------------------------------------
(* The data.                                                               *)

\* A number that fits the word is not changed by the cast.
LEMMA NarrowFits == \A n \in Nat : n < Word => Narrow(n) = n
BY FileAssumption DEF Narrow

\* A part of a sequence that is there: its length and its elements.
LEMMA PartOf ==
  ASSUME NEW S, NEW s \in Seq(S), NEW i \in Nat, NEW j \in Nat, i <= j, j <= Len(s)
  PROVE  /\ SubSeq(s, i + 1, j) \in Seq(S)
         /\ Len(SubSeq(s, i + 1, j)) = j - i
         /\ \A k \in 1 .. j - i : SubSeq(s, i + 1, j)[k] = s[i + k]
<1>1. \A k \in i + 1 .. j : s[k] \in S
  OBVIOUS
<1>2. /\ SubSeq(s, i + 1, j) \in Seq(S)
      /\ Len(SubSeq(s, i + 1, j)) = IF i + 1 <= j THEN j - (i + 1) + 1 ELSE 0
      /\ \A k \in 1 .. j - (i + 1) + 1 : SubSeq(s, i + 1, j)[k] = s[i + 1 + k - 1]
  BY <1>1, SubSeqProperties
<1>3. Len(SubSeq(s, i + 1, j)) = j - i
  BY <1>2
<1>4. ASSUME NEW k \in 1 .. j - i
      PROVE  SubSeq(s, i + 1, j)[k] = s[i + k]
  <2>1. i + 1 + k - 1 = i + k /\ k \in 1 .. j - (i + 1) + 1
    OBVIOUS
  <2> QED BY <1>2, <2>1
<1> QED
  BY <1>2, <1>3, <1>4

\* Whatever is read from a position is a prefix of what is there.
LEMMA PartIsPrefix ==
  ASSUME NEW S, NEW s \in Seq(S), NEW pos \in Nat, NEW n \in Nat, pos + n <= Len(s)
  PROVE  /\ Len(SubSeq(s, pos + 1, pos + n)) = n
         /\ IsPrefix(SubSeq(s, pos + 1, pos + n), SubSeq(s, pos + 1, Len(s)))
<1>1. PICK part : part = SubSeq(s, pos + 1, pos + n)
  OBVIOUS
<1>2. PICK rest : rest = SubSeq(s, pos + 1, Len(s))
  OBVIOUS
<1>3. /\ part \in Seq(S) /\ Len(part) = n
      /\ \A k \in 1 .. n : part[k] = s[pos + k]
  BY <1>1, PartOf, pos <= pos + n, pos + n \in Nat, pos + n - pos = n
<1>4. /\ rest \in Seq(S) /\ Len(rest) = Len(s) - pos
      /\ \A k \in 1 .. Len(s) - pos : rest[k] = s[pos + k]
  BY <1>2, PartOf, pos <= Len(s), Len(s) \in Nat
<1>5. n <= Len(rest) /\ n <= Len(part) /\ 0 + n = n /\ n - 0 = n
  BY <1>3, <1>4
<1>6. /\ SubSeq(part, 1, n) \in Seq(S) /\ Len(SubSeq(part, 1, n)) = n
      /\ \A k \in 1 .. n : SubSeq(part, 1, n)[k] = part[k]
  BY <1>3, <1>5, PartOf, 0 + 1 = 1
<1>7. /\ SubSeq(rest, 1, n) \in Seq(S) /\ Len(SubSeq(rest, 1, n)) = n
      /\ \A k \in 1 .. n : SubSeq(rest, 1, n)[k] = rest[k]
  BY <1>4, <1>5, PartOf, 0 + 1 = 1
<1>8. SubSeq(part, 1, n) = SubSeq(rest, 1, n)
  BY <1>3, <1>4, <1>5, <1>6, <1>7, SeqEqual
<1> QED
  BY <1>1, <1>2, <1>3, <1>5, <1>8 DEF IsPrefix

\* The smaller of an offset and the length of the file.
LEMMA PositionIs ==
  ASSUME FileTyped, NEW offset \in Nat
  PROVE  Position(offset) = IF offset <= Len(file) THEN offset ELSE Len(file)
<1>1. Len(file) \in Nat
  BY DEF FileTyped
<1> QED
  BY <1>1, MinOfTwo DEF Position

\* What adfimage_read returns begins at the offset, wherever the seek has gone.
LEMMA ReadPrefix ==
  ASSUME FileTyped, NEW offset \in Nat, NEW n \in Nat,
         n <= Len(file) - Position(offset)
  PROVE  LET data == SubSeq(file, Position(offset) + 1, Position(offset) + n) IN
         Len(data) = n /\ IsPrefix(data, Store!From(offset))
<1>1. file \in Seq(Bytes) /\ Len(file) \in Nat
  BY DEF FileTyped
<1>2. CASE offset <= Len(file)
  <2>1. Position(offset) = offset /\ offset + n <= Len(file)
    BY <1>1, <1>2, PositionIs
  <2>2. /\ Len(SubSeq(file, offset + 1, offset + n)) = n
        /\ IsPrefix(SubSeq(file, offset + 1, offset + n),
                    SubSeq(file, offset + 1, Len(file)))
    BY <1>1, <2>1, PartIsPrefix
  <2> QED BY <2>1, <2>2 DEF Store!From
<1>3. CASE offset > Len(file)
  <2>1. Position(offset) = Len(file) /\ n = 0
    BY <1>1, <1>3, PositionIs
  <2>2. SubSeq(file, Position(offset) + 1, Position(offset) + n) = <<>>
    BY <1>1, <2>1, SubSeqEmpty
  <2>3. SubSeq(file, offset + 1, Len(file)) = <<>>
    BY <1>1, <1>3, SubSeqEmpty
  <2>4. Len(<<>>) = 0 /\ IsPrefix(<<>>, <<>>)
    BY DEF IsPrefix
  <2> QED BY <2>1, <2>2, <2>3, <2>4 DEF Store!From
<1>4. offset <= Len(file) \/ offset > Len(file)
  BY <1>1
<1> QED
  BY <1>2, <1>3, <1>4, Zenon

\* Three parts one after the other.
LEMMA ThreeParts ==
  ASSUME NEW S, NEW a \in Seq(S), NEW b \in Seq(S), NEW c \in Seq(S),
         NEW whole, whole = a \o b \o c,
         NEW m \in Nat, m = Len(a) + Len(b) + Len(c)
  PROVE  /\ whole \in Seq(S) /\ Len(whole) = m
         /\ \A i \in 1 .. m :
              whole[i] = IF i <= Len(a) THEN a[i]
                         ELSE IF i <= Len(a) + Len(b) THEN b[i - Len(a)]
                         ELSE c[i - (Len(a) + Len(b))]
<1>1. Len(a) \in Nat /\ Len(b) \in Nat /\ Len(c) \in Nat
  OBVIOUS
<1>2. PICK ab : ab = a \o b
  OBVIOUS
<1>3. /\ ab \in Seq(S) /\ Len(ab) = Len(a) + Len(b)
      /\ \A i \in 1 .. Len(a) + Len(b) : ab[i] = IF i <= Len(a) THEN a[i] ELSE b[i - Len(a)]
  BY <1>2, ConcatProperties
<1>4. /\ ab \o c \in Seq(S) /\ Len(ab \o c) = Len(ab) + Len(c)
      /\ \A i \in 1 .. Len(ab) + Len(c) :
           (ab \o c)[i] = IF i <= Len(ab) THEN ab[i] ELSE c[i - Len(ab)]
  <2>1. ab \in Seq(S)
    BY <1>3
  <2> QED BY <2>1, ConcatProperties, Zenon
<1> QED
  BY <1>1, <1>2, <1>3, <1>4

\* A write changes the bytes it covers: the file is what lay before them, they,
\* and what lies behind them.
LEMMA WriteParts ==
  ASSUME FileTyped, NEW pos \in Nat, NEW d \in Seq(Bytes), pos <= Len(file)
  PROVE  Overwritten(pos, d) =
           SubSeq(file, 1, pos) \o d \o Store!From(pos + Len(d))
<1>1. file \in Seq(Bytes) /\ Len(file) \in Nat /\ Len(d) \in Nat
  BY DEF FileTyped
<1>2. PICK m : m = Max({Len(file), pos + Len(d)})
  OBVIOUS
<1>3. m \in Nat /\ m = IF Len(file) <= pos + Len(d) THEN pos + Len(d) ELSE Len(file)
  <2>1. pos + Len(d) \in Nat
    BY <1>1
  <2>2. m \in {Len(file), pos + Len(d)} /\ m >= Len(file) /\ m >= pos + Len(d)
    BY <1>1, <1>2, <2>1, MaxOfTwo
  <2> QED BY <1>1, <2>1, <2>2
<1>4. PICK front : front = SubSeq(file, 1, pos)
  OBVIOUS
<1>5. /\ front \in Seq(Bytes) /\ Len(front) = pos
      /\ \A i \in 1 .. pos : front[i] = file[i]
  BY <1>1, <1>4, PartOf, 0 + 1 = 1, pos - 0 = pos
<1>6. PICK rest : rest = Store!From(pos + Len(d))
  OBVIOUS
<1>7. /\ rest \in Seq(Bytes) /\ Len(rest) = m - (pos + Len(d))
      /\ \A i \in 1 .. m - (pos + Len(d)) : rest[i] = file[pos + Len(d) + i]
  <2>1. rest = SubSeq(file, pos + Len(d) + 1, Len(file)) /\ pos + Len(d) \in Nat
    BY <1>1, <1>6 DEF Store!From
  <2>2. CASE pos + Len(d) <= Len(file)
    <3>1. m = Len(file)
      BY <1>1, <1>3, <2>2
    <3> QED BY <1>1, <2>1, <2>2, <3>1, PartOf
  <2>3. CASE pos + Len(d) > Len(file)
    <3>1. rest = <<>>
      BY <1>1, <2>1, <2>3, SubSeqEmpty
    <3> QED BY <1>1, <1>3, <2>3, <3>1
  <2> QED BY <1>1, <2>1, <2>2, <2>3
<1>8. PICK whole : whole = front \o d \o rest
  OBVIOUS
<1>9. /\ whole \in Seq(Bytes) /\ Len(whole) = m
      /\ \A i \in 1 .. m : whole[i] = IF i <= pos THEN front[i]
                                      ELSE IF i <= pos + Len(d) THEN d[i - pos]
                                      ELSE rest[i - (pos + Len(d))]
  <2>1. front \in Seq(Bytes) /\ rest \in Seq(Bytes)
    BY <1>5, <1>7
  <2>2. Len(front) = pos /\ Len(rest) = m - (pos + Len(d))
    BY <1>5, <1>7, Zenon
  <2>3. m \in Nat /\ Len(d) \in Nat
    BY <1>1, <1>3
  <2>4. \A x, y, z \in Nat : z = x + y + (z - (x + y))
    OBVIOUS
  <2>5. m = Len(front) + Len(d) + Len(rest)
    <3>1. m = pos + Len(d) + (m - (pos + Len(d)))
      BY <2>3, <2>4, Zenon
    <3> QED BY <2>2, <3>1
  <2>6. /\ whole \in Seq(Bytes) /\ Len(whole) = m
        /\ \A i \in 1 .. m :
             whole[i] = IF i <= Len(front) THEN front[i]
                        ELSE IF i <= Len(front) + Len(d) THEN d[i - Len(front)]
                        ELSE rest[i - (Len(front) + Len(d))]
    BY <1>8, <2>1, <2>3, <2>5, ThreeParts
  <2> QED BY <2>2, <2>6
<1>10. ASSUME NEW i \in 1 .. m
       PROVE  whole[i] = IF i \in pos + 1 .. pos + Len(d) THEN d[i - pos] ELSE file[i]
  <2>1. CASE i <= pos
    BY <1>1, <1>5, <1>9, <2>1
  <2>2. CASE i \in pos + 1 .. pos + Len(d)
    BY <1>1, <1>9, <2>2
  <2>3. CASE i > pos + Len(d)
    <3>1. i - (pos + Len(d)) \in 1 .. m - (pos + Len(d))
      BY <1>1, <1>3, <2>3
    <3>2. pos + Len(d) + (i - (pos + Len(d))) = i
      BY <1>1, <1>3
    <3> QED BY <1>1, <1>7, <1>9, <2>3, <3>1, <3>2
  <2> QED BY <1>1, <1>3, <2>1, <2>2, <2>3
<1>11. whole = [i \in 1 .. m |->
                  IF i \in pos + 1 .. pos + Len(d) THEN d[i - pos] ELSE file[i]]
  BY <1>9, <1>10
<1> QED
  BY <1>2, <1>4, <1>6, <1>8, <1>11 DEF Overwritten

-----------------------------------------------------------------------------
(* Requests.                                                               *)

\* adfimage_read.
LEMMA ReadServed ==
  ASSUME Fits, FileTyped, Read
  PROVE  answer'.op = "read" /\ Store!Read(answer')
<1>1. PICK offset \in Offsets, size \in Sizes :
        \/ answer' = [op |-> "read", at |-> offset, size |-> size,
                      status |-> "ENOENT"]
        \/ \E n \in 0 .. Min({Narrow(size), Len(file) - Position(Narrow(offset))}) :
             answer' = [op |-> "read", at |-> offset, size |-> size, status |-> "ok",
                        data |-> SubSeq(file, Position(Narrow(offset)) + 1,
                                        Position(Narrow(offset)) + n)]
  BY DEF Read
<1>2. file' = file
  BY DEF Read
<1>3. /\ offset \in Nat /\ size \in Nat /\ Len(file) \in Nat
      /\ Narrow(offset) = offset /\ Narrow(size) = size
  BY FileAssumption, NarrowFits DEF Fits, FileTyped
<1>4. CASE answer'.status = "ENOENT"
  BY <1>1, <1>2, <1>4 DEF Store!Read
<1>5. CASE answer'.status # "ENOENT"
  <2>1. PICK n \in 0 .. Min({size, Len(file) - Position(offset)}) :
          answer' = [op |-> "read", at |-> offset, size |-> size, status |-> "ok",
                     data |-> SubSeq(file, Position(offset) + 1, Position(offset) + n)]
    <3>1. answer' # [op |-> "read", at |-> offset, size |-> size, status |-> "ENOENT"]
      BY <1>5
    <3> QED BY <1>1, <1>3, <3>1, Zenon
  <2>2. Len(file) - Position(offset) \in Nat
    <3>1. offset \in Nat /\ Len(file) \in Nat
      BY <1>3
    <3>2. Position(offset) \in Nat /\ Position(offset) <= Len(file)
      BY <3>1, PositionInFile
    <3> QED BY <3>1, <3>2
  <2>3. n \in Nat /\ n <= size /\ n <= Len(file) - Position(offset)
    BY <1>3, <2>2, MinOfTwo
  <2>4. Len(answer'.data) = n /\ IsPrefix(answer'.data, Store!From(offset))
    BY <1>3, <2>1, <2>3, ReadPrefix
  <2>5. /\ answer'.op = "read" /\ answer'.at = offset
        /\ answer'.size = size /\ answer'.status = "ok"
    BY <2>1
  <2>6. Store!IsPrefix(answer'.data, Store!From(offset))
    BY <2>4 DEF IsPrefix, Store!IsPrefix
  <2>7. Len(answer'.data) <= size
    BY <1>3, <2>3, <2>4
  <2> QED BY <1>2, <2>5, <2>6, <2>7 DEF Store!Read
<1> QED
  BY <1>4, <1>5

\* The bytes of a buffer that are in the file are where the store has them.
LEMMA WrittenInStore ==
  ASSUME Fits, FileTyped, NEW offset \in Offsets, NEW buffer \in Buffers,
         NEW n \in 0 .. Narrow(Len(buffer)), Written(offset, buffer, n)
  PROVE  n \in 0 .. Len(buffer) /\ Store!Written(offset, buffer, n)
<1>1. buffer \in Seq(Bytes) /\ Len(buffer) \in Nat /\ offset \in Nat
  BY FileAssumption
<1>2. Narrow(offset) = offset /\ Narrow(Len(buffer)) = Len(buffer)
  BY <1>1, NarrowFits DEF Fits
<1>3. file' = Overwritten(Position(offset), SubSeq(buffer, 1, n)) /\ n \in 0 .. Len(buffer)
  BY <1>2 DEF Written
<1>4. SubSeq(buffer, 1, n) \in Seq(Bytes) /\ Len(SubSeq(buffer, 1, n)) = n
  BY <1>1, <1>3, PartOf, 0 + 1 = 1, n - 0 = n, n \in Nat
<1>5. /\ Position(offset) \in Nat /\ Position(offset) <= Len(file)
      /\ Position(offset) = Store!Min({offset, Len(file)})
  BY <1>1, PositionInFile DEF Position, Min, Store!Min
<1>6. file' = SubSeq(file, 1, Position(offset)) \o SubSeq(buffer, 1, n)
                \o Store!From(Position(offset) + n)
  BY <1>3, <1>4, <1>5, WriteParts
<1> QED BY <1>3, <1>5, <1>6 DEF Store!Written

\* A size the file has been given is the one the store has.
LEMMA ResizedInStore ==
  ASSUME NEW n \in Nat, file' = Resized(n)
  PROVE  Store!Sized(n)
BY DEF Resized, Store!Sized

\* adfimage_write.
LEMMA WriteServed ==
  ASSUME Fits, FileTyped, pc = "serving", Write(VolReadOnly)
  PROVE  answer'.op = "write" /\ Store!Write(answer')
<1>1. PICK offset \in Offsets, buffer \in Buffers :
        \/ /\ answer' = [op |-> "write", at |-> offset, data |-> buffer,
                         status |-> "ENOENT"]
           /\ UNCHANGED file
        \/ /\ ~VolReadOnly
           /\ \E n \in 0 .. Narrow(Len(buffer)) :
                /\ Written(offset, buffer, n)
                /\ answer' = [op |-> "write", at |-> offset, data |-> buffer,
                              status |-> "ok", count |-> n]
  BY DEF Write
<1>2. CASE answer'.status = "ENOENT"
  BY <1>1, <1>2 DEF Store!Write
<1>3. CASE answer'.status # "ENOENT"
  <2>1. ~VolReadOnly
    BY <1>1, <1>3
  <2>2. PICK n \in 0 .. Narrow(Len(buffer)) :
          /\ Written(offset, buffer, n)
          /\ answer' = [op |-> "write", at |-> offset, data |-> buffer,
                        status |-> "ok", count |-> n]
    BY <1>1, <1>3
  <2>3. n \in 0 .. Len(buffer) /\ Store!Written(offset, buffer, n)
    BY <2>2, WrittenInStore
  <2>4. /\ answer'.op = "write" /\ answer'.at = offset /\ answer'.data = buffer
        /\ answer'.status = "ok" /\ answer'.count = n
    BY <2>2
  <2>5. n <= Len(buffer)
    BY <2>3, FileAssumption
  <2> QED BY <2>1, <2>3, <2>4, <2>5 DEF Store!Write
<1> QED
  BY <1>2, <1>3

\* adffs_truncate.
LEMMA TruncateServed ==
  ASSUME Fits, FileTyped, pc = "serving", Truncate(VolReadOnly)
  PROVE  answer'.op = "truncate" /\ Store!Truncate(answer')
<1>1. PICK size \in Offsets :
        \/ /\ answer' = [op |-> "truncate", size |-> size, status |-> "EPERM"]
           /\ UNCHANGED file
        \/ /\ ~VolReadOnly
           /\ file' = Resized(Narrow(size))
           /\ answer' = [op |-> "truncate", size |-> size, status |-> "ok"]
  BY DEF Truncate
<1>2. size \in Nat /\ Narrow(size) = size
  BY FileAssumption, NarrowFits DEF Fits
<1> QED
  BY <1>1, <1>2, ResizedInStore DEF Store!Truncate

\* What a kill leaves of a request is what the store may leave half done.
LEMMA InterruptedInStore ==
  ASSUME Fits, FileTyped, Interrupted
  PROVE  Store!HalfDone
<1>1. CASE \E offset \in Offsets, buffer \in Buffers :
             \E n \in 0 .. Narrow(Len(buffer)) : Written(offset, buffer, n)
  BY <1>1, WrittenInStore DEF Store!HalfDone
<1>2. ASSUME NEW size \in Offsets,
             NEW n \in Min({Len(file), Narrow(size)}) .. Max({Len(file), Narrow(size)}),
             file' = Resized(n)
      PROVE  Store!HalfDone
  <2>1. Len(file) \in Nat /\ size \in Nat /\ Narrow(size) = size
    BY FileAssumption, NarrowFits DEF Fits, FileTyped
  <2>2. Min({Len(file), size}) \in Nat
    BY <2>1, MinOfTwo
  <2>3. n \in Nat
    BY <2>1, <2>2
  <2>4. Store!Sized(n)
    BY <1>2, <2>3, ResizedInStore
  <2>5. n \in Store!Min({Len(file), size}) .. Store!Max({Len(file), size})
    BY <2>1 DEF Min, Max, Store!Min, Store!Max
  <2> QED BY <2>4, <2>5 DEF Store!HalfDone
<1> QED
  BY <1>1, <1>2 DEF Interrupted

\* A part of a block more than the whole ones has room for every byte.
LEMMA BlocksEnough == \A l \in Nat : (l \div Block + 1) * Block >= l
<1>1. \A l \in Nat, b \in Nat \ {0} : (l \div b + 1) * b >= l
  OBVIOUS
<1> QED
  BY <1>1, FileAssumption

\* adffs_getattr.
LEMMA GetattrServed ==
  ASSUME FileTyped, Getattr
  PROVE  answer'.op = "getattr" /\ Store!Getattr(answer')
<1>1. Len(file) \in Nat /\ Block \in Nat
  BY FileAssumption DEF FileTyped
<1>2. (Len(file) \div Block + 1) * Block >= Len(file) /\ 0 * Block >= 0
  BY <1>1, BlocksEnough
<1> QED
  BY <1>2 DEF Getattr, Store!Getattr

\* adffs_statfs.
LEMMA StatfsServed ==
  ASSUME pc = "serving", Statfs(VolReadOnly)
  PROVE  answer'.op = "statfs" /\ Store!Statfs(answer')
<1>1. (Session = "ro") = VolReadOnly
  BY DEF Session, VolReadOnly
<1>2. answer' = [op |-> "statfs", readOnly |-> VolReadOnly] /\ file' = file
  BY DEF Statfs
<1>3. answer'.op = "statfs" /\ answer'.readOnly = VolReadOnly
  BY <1>2
<1> QED
  BY <1>1, <1>2, <1>3, Zenon DEF Store!Statfs, Session

\* Whatever the request, it is served as the store would.
LEMMA RequestServed ==
  ASSUME Fits, FileTyped, Request
  PROVE  Store!Serve
<1>1. pc = "serving" /\ Serve(VolReadOnly)
  BY DEF Request
<1>2. bitmap' = bitmap /\ Session' = Session /\ Session # "none"
  BY DEF Request, Session, VolReadOnly, mountVars
<1>3. CASE Read
  BY <1>2, <1>3, ReadServed DEF Store!Serve, Session
<1>4. CASE Write(VolReadOnly)
  BY <1>1, <1>2, <1>4, WriteServed DEF Store!Serve, Session
<1>5. CASE Truncate(VolReadOnly)
  BY <1>1, <1>2, <1>5, TruncateServed DEF Store!Serve, Session
<1>6. CASE Getattr
  BY <1>2, <1>6, GetattrServed DEF Store!Serve, Session
<1>7. CASE Statfs(VolReadOnly)
  BY <1>1, <1>2, <1>7, StatfsServed DEF Store!Serve, Session
<1> QED
  BY <1>1, <1>3, <1>4, <1>5, <1>6, <1>7 DEF Serve

-----------------------------------------------------------------------------
(* The process.                                                            *)

\* Calls before FUSE serves and after the volume is closed are not seen.
Unseen ==
  \/ LogOpen \/ LibInit \/ DevOpen \/ DevMount \/ VolMount \/ CheckBitmap \/ Malloc
  \/ UndoVol \/ UndoDev \/ UndoLib \/ Failed
  \/ CloseDev \/ CloseImage \/ CloseLib \/ CloseLog \/ Restart

\* They leave the file, the answer and the bitmap alone, outside a session.
LEMMA UnseenStutters ==
  ASSUME Unseen
  PROVE  UNCHANGED Store!vars
<1>1. /\ pc \notin {"serving", "close_vol"} /\ pc' \notin {"serving", "close_vol"}
      /\ UNCHANGED <<file, answer, bitmap>>
  <2> USE DEF Goto, Acquire, Release, Keep, mountVars
  <2>1. CASE LogOpen \/ LibInit \/ DevMount \/ VolMount \/ Malloc
    BY <2>1 DEF LogOpen, LibInit, DevMount, VolMount, Malloc
  <2>2. CASE DevOpen
    BY <2>2, Zenon DEF DevOpen
  <2>3. CASE CheckBitmap
    BY <2>3 DEF CheckBitmap
  <2>4. CASE UndoVol \/ UndoDev \/ UndoLib \/ Failed
    BY <2>4 DEF UndoVol, UndoDev, UndoLib, Failed
  <2>5. CASE CloseDev \/ CloseImage \/ CloseLib \/ CloseLog
    BY <2>5 DEF CloseDev, CloseImage, CloseLib, CloseLog
  <2>6. CASE Restart
    BY <2>6 DEF Restart, Ended
  <2> QED BY <2>1, <2>2, <2>3, <2>4, <2>5, <2>6 DEF Unseen
<1> QED
  BY <1>1 DEF Store!vars

\* Every step of the process is one of the store, or is not seen.
LEMMA StoreStep ==
  ASSUME Fits, Checked, FileTyped, Unanswered, [Next]_vars
  PROVE  [Store!Next]_(Store!vars)
<1>1. CASE Unseen
  BY <1>1, UnseenStutters
<1>2. CASE FuseMain
  <2>1. pc = "fuse" /\ UNCHANGED <<file, answer, readOnly, devRO, bitmap>>
    BY <1>2 DEF FuseMain, Goto, Keep, mountVars
  <2>2. CASE pc' = "serving"
    <3>1. ~VolReadOnly => bitmap
      BY <2>1 DEF Checked, VolReadOnly
    <3>2. VolReadOnly' = VolReadOnly
      BY <2>1 DEF VolReadOnly
    <3> QED BY <2>1, <2>2, <3>1, <3>2 DEF Store!Next, Store!Mount
  <2>3. CASE pc' = "unserved"
    BY <2>1, <2>3 DEF Store!vars
  <2> QED BY <1>2, <2>2, <2>3 DEF FuseMain, Goto
<1>3. CASE Request
  BY <1>3, RequestServed DEF Store!Next
<1>4. CASE Destroy
  BY <1>4 DEF Destroy, Goto, Keep, mountVars, VolReadOnly, Store!vars
<1>5. CASE CloseVol
  BY <1>5 DEF CloseVol, Goto, mountVars, Nothing, Store!Nothing, Store!Next, Store!Unmount
<1>6. CASE Crash
  <2>1. /\ pc' = "killed" /\ answer' = Nothing
        /\ file' = file \/ (pc = "serving" /\ ~VolReadOnly /\ Interrupted)
        /\ bitmap' \in IF pc \in {"serving", "close_vol"} /\ ~VolReadOnly
                       THEN {bitmap, FALSE} ELSE {bitmap}
    BY <1>6 DEF Crash
  <2>2. CASE pc \in {"serving", "close_vol"}
    <3>1. file' = file \/ (~VolReadOnly /\ Store!HalfDone)
      BY <2>1, InterruptedInStore
    <3> QED BY <2>1, <2>2, <3>1 DEF Nothing, Store!Nothing, Store!Next, Store!Crash
  <2>3. CASE pc \notin {"serving", "close_vol"}
    BY <2>1, <2>3 DEF Unanswered, Store!vars
  <2> QED BY <2>2, <2>3
<1>7. CASE Repair
  BY <1>7 DEF Repair, Ended, VolReadOnly, Store!Next, Store!Repair
<1>8. CASE UNCHANGED vars
  BY <1>8 DEF vars, VolReadOnly, Store!vars
<1> QED
  BY <1>1, <1>2, <1>3, <1>4, <1>5, <1>6, <1>7, <1>8 DEF Next, Unseen

\* For any file, word and requests that fit it, and a root block that can be
\* read: what users of the mount see, through failures, crashes and restarts, is
\* the store (adfimage.c:468-571, 815-831, 33-119; adffs.c:48-96).
THEOREM MountImplementsStore ==
  ASSUME Fits
  PROVE  Spec => ImplementsImageStore
<1>1. Init => Store!Init
  BY DEF Init, Store!Init, Nothing, Store!Nothing
<1>2. Checked /\ FileTyped /\ Unanswered /\ [Next]_vars => [Store!Next]_(Store!vars)
  BY StoreStep
<1>3. Init => HeldByLabel /\ Checked /\ FileTyped /\ Unanswered
  BY HeldInit, FileAssumption DEF Init, Checked, FileTyped, Unanswered
<1>4. HeldByLabel /\ Checked /\ [Next]_vars => Checked'
  BY CheckedStep DEF HeldByLabel, Fits
<1> QED
  BY <1>1, <1>2, <1>3, <1>4, HeldStep, FileStep, UnansweredStep, PTL
  DEF Spec, ImplementsImageStore, Store!Spec

=============================================================================
