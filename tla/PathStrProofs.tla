--------------------------- MODULE PathStrProofs ---------------------------
(***************************************************************************)
(* Strings and sequences of names are two views of one path, for paths of  *)
(* any length: what a walk takes off the front of the string is the first  *)
(* name, what append_dir puts behind cwd is one name more, and cwd can be  *)
(* walked again as the names it was made of.                               *)
(***************************************************************************)
EXTENDS PathStr, WellFoundedInduction, SequenceTheorems, TLAPS

Str == Seq(Chars)

\* What any name has, dots or not: characters, none of them a slash.
Plain(d) == d \in Str /\ d # <<>> /\ \A i \in 1 .. Len(d) : d[i] # "/"

-----------------------------------------------------------------------------
(* Induction, as facts about sets.                                         *)

\* A set of numbers that has 0, and the successor of each that it has.
LEMMA AllNumbers ==
  ASSUME NEW N \in Nat, NEW S, 0 \in S, \A i \in 0 .. N - 1 : i \in S => i + 1 \in S
  PROVE  \A i \in 0 .. N : i \in S
<1>1. PICK R : R = {i \in 0 .. N : i \notin S}
  OBVIOUS
<1>2. R \in SUBSET Nat
  BY <1>1
<1>3. ASSUME R # {} PROVE FALSE
  <2>1. \E i \in R : \A j \in R : ~(<<j, i>> \in OpToRel(<, Nat))
    BY <1>2, <1>3, NatLessThanWellFounded, WFMin
  <2>2. PICK i \in R : \A j \in R : ~(j < i)
    BY <1>2, <2>1 DEF OpToRel
  <2>3. i \in 0 .. N /\ i \notin S /\ i # 0
    BY <1>1
  <2>4. i - 1 \in 0 .. N - 1 /\ i - 1 < i /\ (i - 1) + 1 = i /\ i - 1 \in 0 .. N
    BY <2>3
  <2>5. i - 1 \in S
    BY <1>1, <2>2, <2>4
  <2> QED BY <2>3, <2>4, <2>5
<1> QED BY <1>1, <1>3

\* A set of sequences that has the empty one, and each it has with one element
\* more.
LEMMA AllSequences ==
  ASSUME NEW T, NEW S, <<>> \in S, \A s \in Seq(T), e \in T : s \in S => Append(s, e) \in S
  PROVE  Seq(T) \subseteq S
<1> SUFFICES ASSUME NEW s \in Seq(T) PROVE s \in S
  OBVIOUS
<1>1. PICK N \in Nat : N = Len(s)
  BY LenProperties
<1>2. PICK K : \A k : k \in K <=> k \in 0 .. N /\ SubSeq(s, 1, k) \in S
  <2>1. \A k : k \in {j \in 0 .. N : SubSeq(s, 1, j) \in S}
                <=> k \in 0 .. N /\ SubSeq(s, 1, k) \in S
    BY Zenon
  <2> QED BY <2>1, Zenon
<1>3. 0 \in K
  <2>1. SubSeq(s, 1, 0) = <<>>
    BY SubSeqEmpty
  <2>2. 0 \in 0 .. N
    BY <1>1
  <2> QED BY <1>2, <2>1, <2>2, Zenon
<1>4. ASSUME NEW k \in 0 .. N - 1, k \in K PROVE k + 1 \in K
  <2>1. /\ SubSeq(s, 1, k + 1) = SubSeq(s, 1, k) \o <<s[k + 1]>>
        /\ SubSeq(s, 1, k) \in Seq(T) /\ s[k + 1] \in T
    <3>1. k + 1 \in 1 .. Len(s) /\ (k + 1) - 1 = k /\ k + 1 \in 1 .. Len(s)
      BY <1>1
    <3>2. SubSeq(s, 1, k + 1) = SubSeq(s, 1, k) \o <<s[k + 1]>>
      <4>1. 1 \in 1 .. Len(s) /\ k + 1 \in 1 .. Len(s) /\ (k + 1) - 1 = k
        BY <1>1
      <4> QED BY <4>1, SubSeqRecursiveSecond
    <3>3. \A i \in 1 .. k : s[i] \in T
      BY <1>1, ElementOfSeq
    <3>4. SubSeq(s, 1, k) \in Seq(T)
      BY <3>3, SubSeqProperties
    <3> QED BY <3>1, <3>2, <3>4, ElementOfSeq
  <2>2. SubSeq(s, 1, k + 1) = Append(SubSeq(s, 1, k), s[k + 1])
    BY <2>1, AppendIsConcat
  <2>3. k + 1 \in 0 .. N
    OBVIOUS
  <2>4. SubSeq(s, 1, k) \in S
    BY <1>2, <1>4, Zenon
  <2>5. Append(SubSeq(s, 1, k), s[k + 1]) \in S
    BY <2>1, <2>4, Zenon
  <2> QED BY <1>2, <2>2, <2>3, <2>5, Zenon
<1>5. N \in K
  <2>1. \A k \in 0 .. N : k \in K
    BY ONLY N \in Nat, <1>3, <1>4, AllNumbers
  <2> QED BY <2>1
<1>6. SubSeq(s, 1, N) \in S
  BY <1>2, <1>5, Zenon
<1> QED BY <1>1, <1>6, SubSeqFull

-----------------------------------------------------------------------------
(* Names joined to a string.                                               *)

\* The recursive function in FlattenSeq, and that there is one.
Joined(q) ==
  CHOOSE f : f = [i \in 1 .. Len(q) |-> IF i = 1 THEN q[i] ELSE f[i - 1] \o q[i]]

LEMMA FlattenJoined ==
  \A q : FlattenSeq(q) = IF Len(q) = 0 THEN q ELSE Joined(q)[Len(q)]
BY DEF FlattenSeq, Joined

LEMMA JoinedDef ==
  ASSUME NEW T, NEW q \in Seq(T)
  PROVE  Joined(q) =
           [i \in 1 .. Len(q) |-> IF i = 1 THEN q[i] ELSE Joined(q)[i - 1] \o q[i]]
<1> DEFINE Fits(f, n) == f = [i \in 1 .. n |-> IF i = 1 THEN q[i] ELSE f[i - 1] \o q[i]]
<1>1. PICK N \in Nat : N = Len(q)
  BY LenProperties
<1>2. PICK S : \A n : n \in S <=> n \in 0 .. N /\ \E f : Fits(f, n)
  <2> HIDE DEF Fits
  <2>1. \A n : n \in {m \in 0 .. N : \E f : Fits(f, m)}
                <=> n \in 0 .. N /\ \E f : Fits(f, n)
    BY Zenon
  <2> QED BY <2>1, Zenon
<1>3. 0 \in S
  <2>1. Fits([i \in 1 .. 0 |-> <<>>], 0)
    OBVIOUS
  <2>2. 0 \in 0 .. N
    OBVIOUS
  <2> HIDE DEF Fits
  <2> QED BY <1>2, <2>1, <2>2, Zenon
<1>4. ASSUME NEW n \in 0 .. N - 1, n \in S PROVE n + 1 \in S
  <2>1. PICK f : Fits(f, n)
    BY <1>2, <1>4
  <2>2. PICK g : g = [i \in 1 .. n + 1 |->
                        IF i = 1 THEN q[i] ELSE f[i - 1] \o q[i]]
    OBVIOUS
  <2>3. \A i \in 1 .. n : g[i] = f[i]
    <3> SUFFICES ASSUME NEW i \in 1 .. n PROVE g[i] = f[i]
      OBVIOUS
    <3>1. i \in 1 .. n + 1
      OBVIOUS
    <3>2. g[i] = IF i = 1 THEN q[i] ELSE f[i - 1] \o q[i]
      BY <2>2, <3>1, Zenon
    <3>3. f[i] = IF i = 1 THEN q[i] ELSE f[i - 1] \o q[i]
      <4>1. f = [j \in 1 .. n |-> IF j = 1 THEN q[j] ELSE f[j - 1] \o q[j]]
        BY <2>1
      <4> QED BY <4>1, Zenon
    <3> QED BY <3>2, <3>3, Zenon
  <2>4. g = [i \in 1 .. n + 1 |-> IF i = 1 THEN q[i] ELSE g[i - 1] \o q[i]]
    <3>1. \A i \in 1 .. n + 1 : i # 1 => i - 1 \in 1 .. n
      OBVIOUS
    <3>2. \A i \in 1 .. n + 1 :
            (IF i = 1 THEN q[i] ELSE f[i - 1] \o q[i]) =
            (IF i = 1 THEN q[i] ELSE g[i - 1] \o q[i])
      BY <2>3, <3>1
    <3> QED BY <2>2, <3>2, Zenon
  <2>5. Fits(g, n + 1)
    BY <2>4
  <2>6. n + 1 \in 0 .. N
    OBVIOUS
  <2> HIDE DEF Fits
  <2> QED BY <1>2, <2>5, <2>6, Zenon
<1>5. N \in S
  <2>1. \A n \in 0 .. N : n \in S
    BY ONLY N \in Nat, <1>3, <1>4, AllNumbers
  <2> QED BY <2>1
<1>6. \E f : Fits(f, N)
  <2> HIDE DEF Fits
  <2> QED BY <1>2, <1>5, Zenon
<1> QED BY <1>1, <1>6 DEF Joined

LEMMA JoinedSteps ==
  ASSUME NEW T, NEW q \in Seq(T)
  PROVE  /\ Len(q) # 0 => Joined(q)[1] = q[1]
         /\ \A i \in 1 .. Len(q) - 1 : Joined(q)[i + 1] = Joined(q)[i] \o q[i + 1]
<1>1. PICK N \in Nat : N = Len(q)
  BY LenProperties
<1>2. \A i \in 1 .. N :
        Joined(q)[i] = IF i = 1 THEN q[i] ELSE Joined(q)[i - 1] \o q[i]
  <2>1. PICK f : f = Joined(q)
    OBVIOUS
  <2>2. f = [i \in 1 .. N |-> IF i = 1 THEN q[i] ELSE f[i - 1] \o q[i]]
    BY <1>1, <2>1, JoinedDef
  <2>3. \A i \in 1 .. N : f[i] = IF i = 1 THEN q[i] ELSE f[i - 1] \o q[i]
    BY <2>2, Zenon
  <2> QED BY <2>1, <2>3
<1>3. N # 0 => Joined(q)[1] = q[1]
  <2>1. N # 0 => 1 \in 1 .. N
    OBVIOUS
  <2> QED BY <1>2, <2>1
<1>4. ASSUME NEW i \in 1 .. N - 1 PROVE Joined(q)[i + 1] = Joined(q)[i] \o q[i + 1]
  <2>1. i + 1 \in 1 .. N /\ i + 1 # 1 /\ (i + 1) - 1 = i
    OBVIOUS
  <2> QED BY <1>2, <2>1
<1> QED BY <1>1, <1>3, <1>4

LEMMA JoinedTyped ==
  ASSUME NEW q \in Seq(Str)
  PROVE  \A i \in 1 .. Len(q) : Joined(q)[i] \in Str
<1>1. PICK N \in Nat : N = Len(q)
  BY LenProperties
<1>2. PICK S : \A i : i \in S <=> i \in 0 .. N /\ (i # 0 => Joined(q)[i] \in Str)
  <2>1. \A i : i \in {j \in 0 .. N : j # 0 => Joined(q)[j] \in Str}
                 <=> i \in 0 .. N /\ (i # 0 => Joined(q)[i] \in Str)
    BY Zenon
  <2> QED BY <2>1, Zenon
<1>3. 0 \in S
  BY <1>2
<1>4. ASSUME NEW i \in 0 .. N - 1, i \in S PROVE i + 1 \in S
  <2>1. i + 1 \in 0 .. N /\ i + 1 \in 1 .. N
    OBVIOUS
  <2>2. q[i + 1] \in Str
    BY <1>1, <2>1, ElementOfSeq
  <2>3. i # 0 => Joined(q)[i] \in Str
    BY <1>2, <1>4
  <2>4. Joined(q)[i + 1] \in Str
    <3>1. CASE i = 0
      <4>1. i + 1 = 1 /\ Len(q) # 0
        BY <1>1, <3>1
      <4>2. Joined(q)[1] = q[1]
        BY <4>1, JoinedSteps
      <4> QED BY <2>2, <4>1, <4>2
    <3>2. CASE i # 0
      <4>1. i \in 1 .. N - 1
        BY <3>2
      <4>2. Joined(q)[i + 1] = Joined(q)[i] \o q[i + 1]
        BY <1>1, <4>1, JoinedSteps
      <4> QED BY <2>2, <2>3, <3>2, <4>2, ConcatProperties DEF Str
    <3> QED BY <3>1, <3>2
  <2> QED BY <1>2, <2>1, <2>4
<1>5. \A i \in 0 .. N : i \in S
  BY ONLY N \in Nat, <1>3, <1>4, AllNumbers
<1>6. ASSUME NEW i \in 1 .. N PROVE Joined(q)[i] \in Str
  <2>1. i \in 0 .. N /\ i # 0
    OBVIOUS
  <2> QED BY <1>2, <1>5, <2>1
<1> QED BY <1>1, <1>6

\* The strings of a sequence, joined one after another, up to the last.
LEMMA FlattenAppend ==
  ASSUME NEW q \in Seq(Str), NEW d \in Str
  PROVE  FlattenSeq(q) \in Str /\ FlattenSeq(Append(q, d)) = FlattenSeq(q) \o d
<1>1. PICK N \in Nat : N = Len(q)
  BY LenProperties
<1>2. PICK r : r = Append(q, d)
  OBVIOUS
<1>3. /\ r \in Seq(Str) /\ Len(r) = N + 1 /\ r[N + 1] = d
      /\ \A i \in 1 .. N : r[i] = q[i]
  BY <1>1, <1>2, AppendProperties
<1>4. ASSUME N # 0
      PROVE  /\ \A i \in 1 .. N : Joined(r)[i] = Joined(q)[i]
             /\ Joined(r)[N + 1] = Joined(r)[N] \o d
  <2>1. PICK S : \A i : i \in S <=> i \in 0 .. N /\ (i # 0 => Joined(r)[i] = Joined(q)[i])
    <3>1. \A i : i \in {j \in 0 .. N : j # 0 => Joined(r)[j] = Joined(q)[j]}
                   <=> i \in 0 .. N /\ (i # 0 => Joined(r)[i] = Joined(q)[i])
      BY Zenon
    <3> QED BY <3>1, Zenon
  <2>2. 0 \in S
    BY <2>1
  <2>3. ASSUME NEW i \in 0 .. N - 1, i \in S PROVE i + 1 \in S
    <3>1. i + 1 \in 0 .. N /\ i + 1 \in 1 .. N /\ r[i + 1] = q[i + 1]
      BY <1>3
    <3>2. Joined(r)[i + 1] = Joined(q)[i + 1]
      <4>1. CASE i = 0
        <5>1. i + 1 = 1 /\ Len(q) # 0 /\ Len(r) # 0
          BY <1>1, <1>3, <1>4, <4>1
        <5>2. Joined(q)[1] = q[1]
          BY <5>1, JoinedSteps
        <5>3. Joined(r)[1] = r[1]
          BY <1>3, <5>1, JoinedSteps
        <5> QED BY <3>1, <5>1, <5>2, <5>3
      <4>2. CASE i # 0
        <5>1. i \in 1 .. Len(q) - 1 /\ i \in 1 .. Len(r) - 1
          BY <1>1, <1>3, <4>2
        <5>2. Joined(r)[i + 1] = Joined(r)[i] \o r[i + 1]
          BY <1>3, <5>1, JoinedSteps
        <5>3. Joined(q)[i + 1] = Joined(q)[i] \o q[i + 1]
          BY <5>1, JoinedSteps
        <5>4. Joined(r)[i] = Joined(q)[i]
          BY <2>1, <2>3, <4>2
        <5> QED BY <3>1, <5>2, <5>3, <5>4
      <4> QED BY <4>1, <4>2
    <3> QED BY <2>1, <3>1, <3>2
  <2>4. \A i \in 0 .. N : i \in S
    BY ONLY N \in Nat, <2>2, <2>3, AllNumbers
  <2>5. ASSUME NEW i \in 1 .. N PROVE Joined(r)[i] = Joined(q)[i]
    <3>1. i \in 0 .. N /\ i # 0
      OBVIOUS
    <3> QED BY <2>1, <2>4, <3>1
  <2>6. N \in 1 .. Len(r) - 1
    BY <1>3, <1>4
  <2>7. Joined(r)[N + 1] = Joined(r)[N] \o r[N + 1]
    BY <1>3, <2>6, JoinedSteps
  <2> QED BY <1>3, <2>5, <2>7
<1>5. FlattenSeq(r) = Joined(r)[N + 1]
  BY <1>3, FlattenJoined
<1>6. CASE N = 0
  <2>1. q = <<>> /\ FlattenSeq(q) = <<>>
    BY <1>1, <1>6, FlattenJoined, EmptySeq
  <2>2. N + 1 = 1 /\ Len(r) # 0
    BY <1>3, <1>6
  <2>3. Joined(r)[1] = r[1]
    BY <1>3, <2>2, JoinedSteps
  <2>4. FlattenSeq(r) = d
    BY <1>3, <1>5, <2>2, <2>3
  <2> QED BY <1>2, <2>1, <2>4, ConcatEmptySeq, EmptySeq DEF Str
<1>7. CASE N # 0
  <2>1. FlattenSeq(q) = Joined(q)[N] /\ N \in 1 .. N
    BY <1>1, <1>7, FlattenJoined
  <2>2. Joined(q)[N] \in Str
    BY <1>1, <2>1, JoinedTyped
  <2> QED BY <1>2, <1>4, <1>5, <1>7, <2>1, <2>2
<1> QED BY <1>6, <1>7

\* Where the characters of two strings are when they are joined.
LEMMA Halves ==
  ASSUME NEW u \in Str, NEW v \in Str
  PROVE  /\ u \o v \in Str /\ Len(u \o v) = Len(u) + Len(v)
         /\ \A i \in 1 .. Len(u) : (u \o v)[i] = u[i]
         /\ \A i \in 1 .. Len(v) : (u \o v)[Len(u) + i] = v[i]
<1>1. PICK t : t = u \o v
  OBVIOUS
<1>2. PICK a \in Nat, b \in Nat : a = Len(u) /\ b = Len(v)
  BY LenProperties DEF Str
<1>3. /\ t \in Str /\ Len(t) = a + b
      /\ \A i \in 1 .. a + b : t[i] = IF i <= a THEN u[i] ELSE v[i - a]
  BY <1>1, <1>2, ConcatProperties DEF Str
<1>4. \A i \in 1 .. a : i \in 1 .. a + b /\ i <= a
  OBVIOUS
<1>5. \A i \in 1 .. b : a + i \in 1 .. a + b /\ ~(a + i <= a) /\ (a + i) - a = i
  OBVIOUS
<1>6. \A i \in 1 .. a : t[i] = u[i]
  BY <1>3, <1>4
<1>7. \A i \in 1 .. b : t[a + i] = v[i]
  BY <1>3, <1>5
<1> QED BY <1>1, <1>2, <1>3, <1>6, <1>7

\* A character as a string.
LEMMA Singles ==
  /\ Root \in Str /\ Len(Root) = 1 /\ Root[1] = "/" /\ "/" \in Chars
  /\ \A x \in Chars : <<x>> \in Str /\ Len(<<x>>) = 1 /\ <<x>>[1] = x
<1>1. "/" \in Chars
  BY PathAssumption
<1>2. \A x \in Chars : <<x>> \in Str /\ Len(<<x>>) = 1 /\ <<x>>[1] = x
  BY DEF Str
<1> QED BY <1>1, <1>2 DEF Root

\* A slash before a string.
LEMMA SlashBefore ==
  ASSUME NEW d \in Str
  PROVE  /\ Root \o d \in Str /\ Len(Root \o d) = Len(d) + 1 /\ (Root \o d)[1] = "/"
         /\ \A j \in 1 .. Len(d) : (Root \o d)[j + 1] = d[j]
<1>1. PICK t : t = Root \o d
  OBVIOUS
<1>2. PICK m \in Nat : m = Len(d)
  BY LenProperties DEF Str
<1>3. /\ t \in Str /\ Len(t) = 1 + m /\ (\A j \in 1 .. 1 : t[j] = Root[j])
      /\ \A j \in 1 .. m : t[1 + j] = d[j]
  <2>1. PICK a \in Nat : a = 1 /\ a = Len(Root)
    BY Singles
  <2>2. /\ t \in Str /\ Len(t) = a + m /\ (\A j \in 1 .. a : t[j] = Root[j])
        /\ \A j \in 1 .. m : t[a + j] = d[j]
    <3>1. Root \in Str /\ a = Len(Root)
      BY <2>1, Singles
    <3> QED BY ONLY d \in Str, <1>1, <1>2, <3>1, Halves
  <2> QED BY <2>1, <2>2
<1>4. \A j \in 1 .. m : t[j + 1] = d[j]
  <2>1. \A j \in 1 .. m : 1 + j = j + 1
    OBVIOUS
  <2> QED BY <1>3, <2>1
<1>5. t[1] = "/" /\ 1 + m = m + 1
  <2>1. 1 \in 1 .. 1
    OBVIOUS
  <2> QED BY <1>3, <2>1, Singles
<1> QED BY <1>1, <1>2, <1>3, <1>4, <1>5

\* A string, a slash and another string.
LEMMA Joint ==
  ASSUME NEW u \in Str, NEW d \in Str
  PROVE  LET r == u \o (Root \o d) IN
         /\ r \in Str /\ Len(r) = Len(u) + (Len(d) + 1) /\ r[Len(u) + 1] = "/"
         /\ \A i \in 1 .. Len(u) : r[i] = u[i]
         /\ \A j \in 1 .. Len(d) : r[Len(u) + 1 + j] = d[j]
<1>1. PICK n \in Nat, m \in Nat : n = Len(u) /\ m = Len(d)
  BY LenProperties DEF Str
<1>2. PICK b \in Nat : b = m + 1
  OBVIOUS
<1>3. PICK t \in Str : t = Root \o d
  BY Singles, ConcatProperties DEF Str
<1>4. /\ t \in Str /\ Len(t) = m + 1 /\ t[1] = "/"
      /\ \A j \in 1 .. m : t[j + 1] = d[j]
  BY ONLY d \in Str, <1>1, <1>3, SlashBefore
<1>5. PICK r : b = Len(t) /\ r = u \o t
  BY <1>2, <1>4
<1>6. /\ r \in Str /\ Len(r) = n + b /\ (\A i \in 1 .. n : r[i] = u[i])
      /\ \A j \in 1 .. b : r[n + j] = t[j]
  BY ONLY u \in Str, t \in Str, <1>1, <1>5, Halves
<1>7. 1 \in 1 .. b /\ n + b = n + (m + 1)
  BY <1>2
<1>8. \A j \in 1 .. m : n + 1 + j = n + (j + 1) /\ j + 1 \in 1 .. b
  BY <1>2
<1>9. \A j \in 1 .. m : r[n + 1 + j] = d[j]
  BY <1>4, <1>6, <1>8
<1>10. r[n + 1] = "/"
  BY <1>4, <1>6, <1>7
<1> QED BY <1>1, <1>3, <1>5, <1>6, <1>7, <1>9, <1>10

\* Taking two strings apart.
LEMMA Apart ==
  ASSUME NEW u \in Str, NEW v \in Str
  PROVE  /\ SubSeq(u \o v, 1, Len(u)) = u
         /\ SubSeq(u \o v, Len(u) + 1, Len(u) + Len(v)) = v
<1>1. PICK a \in Nat, b \in Nat : a = Len(u) /\ b = Len(v)
  BY LenProperties DEF Str
<1>2. PICK t : t = u \o v
  OBVIOUS
<1>3. /\ t \in Str /\ Len(t) = a + b /\ (\A i \in 1 .. a : t[i] = u[i])
      /\ \A i \in 1 .. b : t[a + i] = v[i]
  BY ONLY u \in Str, v \in Str, <1>1, <1>2, Halves
<1>4. /\ \A i \in 1 .. a : u[i] \in Chars
      /\ \A i \in 1 .. b : v[i] \in Chars
  BY <1>1, ElementOfSeq DEF Str
<1>5. SubSeq(t, 1, a) = u
  <2>1. \A i \in 1 .. a : t[i] \in Chars
    BY <1>3, <1>4
  <2>2. PICK x : x = SubSeq(t, 1, a)
    OBVIOUS
  <2>3. /\ x \in Seq(Chars) /\ Len(x) = (IF 1 <= a THEN a - 1 + 1 ELSE 0)
        /\ \A i \in 1 .. a - 1 + 1 : x[i] = t[1 + i - 1]
    BY <2>1, <2>2, SubSeqProperties
  <2>4. Len(x) = a
    BY <2>3
  <2>5. \A i \in 1 .. a : i \in 1 .. a - 1 + 1 /\ 1 + i - 1 = i
    OBVIOUS
  <2>6. \A i \in 1 .. a : x[i] = u[i]
    BY <1>3, <2>3, <2>5
  <2> QED BY <1>1, <2>2, <2>3, <2>4, <2>6, SeqEqual DEF Str
<1>6. SubSeq(t, a + 1, a + b) = v
  <2>1. \A i \in a + 1 .. a + b : t[i] \in Chars
    <3> SUFFICES ASSUME NEW i \in a + 1 .. a + b PROVE t[i] \in Chars
      OBVIOUS
    <3>1. i - a \in 1 .. b /\ a + (i - a) = i
      OBVIOUS
    <3> QED BY <1>3, <1>4, <3>1
  <2>2. PICK k \in Nat, l \in Nat : k = a + 1 /\ l = a + b
    OBVIOUS
  <2>3. PICK x : x = SubSeq(t, k, l)
    OBVIOUS
  <2>4. /\ x \in Seq(Chars) /\ Len(x) = (IF k <= l THEN l - k + 1 ELSE 0)
        /\ \A i \in 1 .. l - k + 1 : x[i] = t[k + i - 1]
    <3>1. k \in Int /\ l \in Int /\ \A i \in k .. l : t[i] \in Chars
      BY <2>1, <2>2
    <3> QED BY ONLY <2>3, <3>1, SubSeqProperties
  <2>5. Len(x) = b
    BY <2>2, <2>4
  <2>6. \A i \in 1 .. b : i \in 1 .. l - k + 1 /\ k + i - 1 = a + i
    BY <2>2
  <2>7. \A i \in 1 .. b : x[i] = v[i]
    BY <1>3, <2>4, <2>6
  <2> QED BY <1>1, <2>2, <2>3, <2>4, <2>5, <2>7, SeqEqual DEF Str
<1> QED BY <1>1, <1>2, <1>5, <1>6

\* Names with a slash before each, and the string they make: the one the root
\* and absolute paths begin with.
Slashed(c) == [i \in DOMAIN c |-> Root \o c[i]]

Above(c) == IF c = <<>> THEN <<>> ELSE Rendered(c)

LEMMA AboveAppend ==
  ASSUME NEW c \in Seq(Str), NEW d \in Str
  PROVE  /\ Above(c) \in Str
         /\ Above(Append(c, d)) = Above(c) \o (Root \o d)
         /\ Rendered(Append(c, d)) = Above(c) \o (Root \o d)
<1>1. PICK N \in Nat : N = Len(c) /\ DOMAIN c = 1 .. N /\ \A i \in 1 .. N : c[i] \in Str
  BY LenProperties, ElementOfSeq
<1>2. PICK q : q = Slashed(c)
  OBVIOUS
<1>3. q \in Seq(Str) /\ Len(q) = N /\ \A i \in 1 .. N : q[i] = Root \o c[i]
  <2>1. q = [i \in 1 .. N |-> Root \o c[i]]
    BY <1>1, <1>2 DEF Slashed
  <2>2. \A i \in 1 .. N : Root \o c[i] \in Str
    BY <1>1, Singles, ConcatProperties DEF Str
  <2>3. q \in [1 .. N -> Str]
    BY <2>1, <2>2
  <2>4. q \in Seq(Str)
    BY <2>3, SeqDef
  <2> QED BY <2>1, <2>3, <2>4, LenProperties
<1>4. PICK e : e = Append(c, d)
  OBVIOUS
<1>5. /\ e \in Seq(Str) /\ e # <<>> /\ Len(e) = N + 1 /\ e[N + 1] = d
      /\ \A i \in 1 .. N : e[i] = c[i]
  BY <1>1, <1>4, AppendProperties
<1>6. Slashed(e) = Append(q, Root \o d)
  <2>1. PICK f : f = Slashed(e)
    OBVIOUS
  <2>2. f = [i \in 1 .. N + 1 |-> Root \o e[i]]
    <3>1. DOMAIN e = 1 .. N + 1
      BY <1>5, LenProperties
    <3> QED BY <2>1, <3>1 DEF Slashed
  <2>3. PICK x : x = Root \o d /\ x \in Str
    BY Singles, ConcatProperties DEF Str
  <2>4. PICK g : g = Append(q, x)
    OBVIOUS
  <2>5. /\ g \in Seq(Str) /\ Len(g) = N + 1 /\ g[N + 1] = x
        /\ \A i \in 1 .. N : g[i] = q[i]
    BY <1>3, <2>3, <2>4, AppendProperties
  <2>6. \A i \in 1 .. N + 1 : f[i] = g[i]
    <3> SUFFICES ASSUME NEW i \in 1 .. N + 1 PROVE f[i] = g[i]
      OBVIOUS
    <3>1. f[i] = Root \o e[i]
      BY <2>2
    <3>2. CASE i \in 1 .. N
      BY <1>3, <1>5, <2>5, <3>1, <3>2
    <3>3. CASE i = N + 1
      BY <1>5, <2>3, <2>5, <3>1, <3>3
    <3> QED BY <3>2, <3>3
  <2>7. DOMAIN f = 1 .. N + 1 /\ DOMAIN g = 1 .. N + 1
    BY <2>2, <2>5, LenProperties
  <2>8. f = g
    <3>1. f \in [1 .. N + 1 -> Str] 
      <4>1. g \in [1 .. N + 1 -> Str]
        BY <2>5, LenProperties
      <4> QED BY <2>2, <2>6, <4>1
    <3>2. f \in Seq(Str)
      BY <3>1, SeqDef
    <3>3. Len(f) = N + 1
      BY <3>1, <3>2, LenProperties
    <3> QED BY <2>5, <2>6, <3>2, <3>3, SeqEqual
  <2> QED BY <2>1, <2>3, <2>4, <2>8
<1>7. Root \o d \in Str
  BY Singles, ConcatProperties DEF Str
<1>8. FlattenSeq(q) \in Str /\ FlattenSeq(Slashed(e)) = FlattenSeq(q) \o (Root \o d)
  BY <1>3, <1>6, <1>7, FlattenAppend
<1>9. Above(c) = FlattenSeq(q)
  <2>1. CASE c = <<>>
    <3>1. q = <<>>
      <4>1. N = 0
        BY <1>1, <2>1, EmptySeq
      <4> QED BY <1>3, <4>1, EmptySeq
    <3>2. FlattenSeq(q) = <<>>
      BY <3>1, FlattenJoined, EmptySeq
    <3> QED BY <2>1, <3>2 DEF Above
  <2>2. CASE c # <<>>
    BY <1>2, <2>2 DEF Above, Rendered, Slashed
  <2> QED BY <2>1, <2>2
<1>10. Rendered(e) = FlattenSeq(Slashed(e)) /\ Above(e) = Rendered(e)
  BY <1>5 DEF Above, Rendered, Slashed
<1> QED BY <1>4, <1>8, <1>9, <1>10

-----------------------------------------------------------------------------
(* Strings split into names.                                               *)

\* The last word gets one character more.
Longer(w, x) == [w EXCEPT ![Len(w)] = Append(@, x)]

LEMMA LongerWord ==
  ASSUME NEW v \in Seq(Str), NEW d \in Str, NEW x \in Chars
  PROVE  Longer(Append(v, d), x) = Append(v, Append(d, x))
<1>1. PICK n \in Nat : n = Len(v)
  BY LenProperties
<1>2. PICK w : w = Append(v, d)
  OBVIOUS
<1>3. PICK e \in Str : e = Append(d, x)
  BY AppendProperties DEF Str
<1>4. w \in Seq(Str) /\ Len(w) = n + 1 /\ w[n + 1] = d /\ \A i \in 1 .. n : w[i] = v[i]
  BY <1>1, <1>2, AppendProperties
<1>5. Longer(w, x) = [w EXCEPT ![n + 1] = e]
  BY <1>3, <1>4 DEF Longer
<1>6. PICK f : f = [w EXCEPT ![n + 1] = e]
  OBVIOUS
<1>7. n + 1 \in 1 .. Len(w)
  BY <1>4
<1>8. /\ f \in Seq(Str) /\ Len(f) = n + 1 
      /\ \A i \in 1 .. n + 1 : f[i] = IF i = n + 1 THEN e ELSE w[i]
  BY <1>4, <1>6, <1>7, ExceptSeq
<1>9. PICK g : g = Append(v, e)
  OBVIOUS
<1>10. g \in Seq(Str) /\ Len(g) = n + 1 /\ g[n + 1] = e /\ \A i \in 1 .. n : g[i] = v[i]
  BY <1>1, <1>9, AppendProperties
<1>11. \A i \in 1 .. n + 1 : f[i] = g[i]
  BY <1>4, <1>8, <1>10
<1>12. f = g
  BY <1>8, <1>10, <1>11, SeqEqual
<1> QED BY <1>2, <1>3, <1>5, <1>6, <1>9, <1>12

\* The recursive function in Split, and that there is one.
Step(s, w, i) ==
  IF i = 0 THEN <<>>
  ELSE IF s[i] = "/" THEN w[i - 1]
       ELSE IF i = 1 \/ s[i - 1] = "/" THEN Append(w[i - 1], <<s[i]>>)
       ELSE Longer(w[i - 1], s[i])

Words(s) == CHOOSE w : w = [i \in 0 .. Len(s) |-> Step(s, w, i)]

LEMMA SplitWords == \A s : Split(s) = Words(s)[Len(s)]
BY DEF Split, Words, Step, Longer

LEMMA WordsDef ==
  ASSUME NEW s \in Str
  PROVE  Words(s) = [i \in 0 .. Len(s) |-> Step(s, Words(s), i)]
<1> DEFINE Fits(w, n) == w = [i \in 0 .. n |-> Step(s, w, i)]
<1>1. PICK N \in Nat : N = Len(s)
  BY LenProperties DEF Str
<1>2. PICK S : \A n : n \in S <=> n \in 0 .. N /\ \E w : Fits(w, n)
  <2> HIDE DEF Fits
  <2>1. \A n : n \in {m \in 0 .. N : \E w : Fits(w, m)}
                <=> n \in 0 .. N /\ \E w : Fits(w, n)
    BY Zenon
  <2> QED BY <2>1, Zenon
<1>3. 0 \in S
  <2>1. PICK w : w = [i \in 0 .. 0 |-> <<>>]
    OBVIOUS
  <2>2. \A i \in 0 .. 0 : Step(s, w, i) = <<>>
    BY DEF Step
  <2>3. w = [i \in 0 .. 0 |-> Step(s, w, i)]
    BY <2>1, <2>2, Zenon
  <2>4. Fits(w, 0) /\ 0 \in 0 .. N
    BY <2>3
  <2> HIDE DEF Fits
  <2> QED BY <1>2, <2>4, Zenon
<1>4. ASSUME NEW n \in 0 .. N - 1, n \in S PROVE n + 1 \in S
  <2>1. PICK w : Fits(w, n)
    <3> HIDE DEF Fits
    <3> QED BY <1>2, <1>4, Zenon
  <2>2. PICK v : v = [i \in 0 .. n + 1 |-> Step(s, w, i)]
    OBVIOUS
  <2>3. \A i \in 0 .. n : v[i] = w[i]
    <3> SUFFICES ASSUME NEW i \in 0 .. n PROVE v[i] = w[i]
      OBVIOUS
    <3>1. i \in 0 .. n + 1
      OBVIOUS
    <3>2. v[i] = Step(s, w, i)
      BY <2>2, <3>1, Zenon
    <3>3. w[i] = Step(s, w, i)
      <4>1. w = [j \in 0 .. n |-> Step(s, w, j)]
        BY <2>1
      <4> QED BY <4>1, Zenon
    <3> QED BY <3>2, <3>3, Zenon
  <2>4. \A i \in 0 .. n + 1 : Step(s, w, i) = Step(s, v, i)
    <3> SUFFICES ASSUME NEW i \in 0 .. n + 1 PROVE Step(s, w, i) = Step(s, v, i)
      OBVIOUS
    <3>1. i # 0 => w[i - 1] = v[i - 1]
      <4>1. i # 0 => i - 1 \in 0 .. n
        OBVIOUS
      <4> QED BY <2>3, <4>1
    <3> QED BY <3>1, Zenon DEF Step
  <2>5. v = [i \in 0 .. n + 1 |-> Step(s, v, i)]
    BY <2>2, <2>4, Zenon
  <2>6. Fits(v, n + 1) /\ n + 1 \in 0 .. N
    BY <2>5
  <2> HIDE DEF Fits
  <2> QED BY <1>2, <2>6, Zenon
<1>5. N \in S
  <2>1. \A n \in 0 .. N : n \in S
    BY ONLY N \in Nat, <1>3, <1>4, AllNumbers
  <2> QED BY <2>1
<1>6. \E w : Fits(w, N)
  <2> HIDE DEF Fits
  <2> QED BY <1>2, <1>5, Zenon
<1>7. \E w : w = [i \in 0 .. Len(s) |-> Step(s, w, i)]
  BY <1>1, <1>6
<1> QED BY <1>7, Zenon DEF Words

\* What each character does to the words before it.
LEMMA WordsSteps ==
  ASSUME NEW s \in Str
  PROVE  /\ Words(s)[0] = <<>>
         /\ \A i \in 1 .. Len(s) :
              /\ s[i] = "/" => Words(s)[i] = Words(s)[i - 1]
              /\ s[i] # "/" /\ (i = 1 \/ s[i - 1] = "/") =>
                   Words(s)[i] = Append(Words(s)[i - 1], <<s[i]>>)
              /\ s[i] # "/" /\ i # 1 /\ s[i - 1] # "/" =>
                   Words(s)[i] = Longer(Words(s)[i - 1], s[i])
<1>1. PICK w : w = Words(s)
  OBVIOUS
<1>2. PICK N \in Nat : N = Len(s)
  BY LenProperties DEF Str
<1>3. w = [i \in 0 .. N |-> Step(s, w, i)]
  BY <1>1, <1>2, WordsDef
<1>4. \A i \in 0 .. N : w[i] = Step(s, w, i)
  BY <1>3, Zenon
<1>5. w[0] = <<>>
  <2>1. 0 \in 0 .. N
    OBVIOUS
  <2>2. Step(s, w, 0) = <<>>
    BY DEF Step
  <2> QED BY <1>4, <2>1, <2>2, Zenon
<1>6. ASSUME NEW i \in 1 .. N
      PROVE  /\ s[i] = "/" => w[i] = w[i - 1]
             /\ s[i] # "/" /\ (i = 1 \/ s[i - 1] = "/") =>
                  w[i] = Append(w[i - 1], <<s[i]>>)
             /\ s[i] # "/" /\ i # 1 /\ s[i - 1] # "/" =>
                  w[i] = Longer(w[i - 1], s[i])
  <2>1. i \in 0 .. N /\ i # 0
    OBVIOUS
  <2>2. w[i] = Step(s, w, i)
    BY <1>4, <2>1
  <2> QED BY <2>1, <2>2, Zenon DEF Step
<1> QED BY <1>1, <1>2, <1>5, <1>6

\* Words are strings; the last one is there as long as it is not ended.
LEMMA WordsTyped ==
  ASSUME NEW s \in Str
  PROVE  \A i \in 0 .. Len(s) : /\ Words(s)[i] \in Seq(Str)
                                /\ i # 0 /\ s[i] # "/" => Words(s)[i] # <<>>
<1> DEFINE Good(i) == /\ Words(s)[i] \in Seq(Str)
                      /\ i # 0 /\ s[i] # "/" => Words(s)[i] # <<>>
<1>1. PICK N \in Nat : N = Len(s)
  BY LenProperties DEF Str
<1>2. PICK S : \A i : i \in S <=> i \in 0 .. N /\ Good(i)
  <2> HIDE DEF Good
  <2>1. \A i : i \in {j \in 0 .. N : Good(j)} <=> i \in 0 .. N /\ Good(i)
    BY Zenon
  <2> QED BY <2>1, Zenon
<1>3. 0 \in S
  <2>1. Words(s)[0] = <<>>
    BY WordsSteps
  <2>2. Good(0) /\ 0 \in 0 .. N
    BY <2>1, EmptySeq
  <2> HIDE DEF Good
  <2> QED BY <1>2, <2>2, Zenon
<1>4. ASSUME NEW i \in 0 .. N - 1, i \in S PROVE i + 1 \in S
  <2>1. i + 1 \in 1 .. N /\ (i + 1) - 1 = i /\ i + 1 \in 0 .. N
    OBVIOUS
  <2>2. Good(i)
    <3> HIDE DEF Good
    <3> QED BY <1>2, <1>4, Zenon
  <2>3. PICK w \in Seq(Str) : w = Words(s)[i] /\ (i # 0 /\ s[i] # "/" => w # <<>>)
    BY <2>2
  <2>4. PICK x \in Chars : x = s[i + 1]
    BY <1>1, <2>1, ElementOfSeq DEF Str
  <2>5. /\ x = "/" => Words(s)[i + 1] = w
        /\ x # "/" /\ (i + 1 = 1 \/ s[i] = "/") => Words(s)[i + 1] = Append(w, <<x>>)
        /\ x # "/" /\ i + 1 # 1 /\ s[i] # "/" => Words(s)[i + 1] = Longer(w, x)
    BY <1>1, <2>1, <2>3, <2>4, WordsSteps
  <2>6. Append(w, <<x>>) \in Seq(Str) /\ Append(w, <<x>>) # <<>>
    BY Singles, AppendProperties
  <2>7. ASSUME w # <<>> PROVE Longer(w, x) \in Seq(Str) /\ Longer(w, x) # <<>>
    <3>1. PICK v \in Seq(Str), d \in Str : w = Append(v, d)
      BY <2>7, SequenceEmptyOrAppend
    <3>2. PICK e \in Str : e = Append(d, x)
      BY AppendProperties DEF Str
    <3>3. Longer(w, x) = Append(v, e)
      BY <3>1, <3>2, LongerWord
    <3>4. Append(v, e) \in Seq(Str) /\ Append(v, e) # <<>>
      BY ONLY v \in Seq(Str), e \in Str, AppendProperties
    <3> QED BY <3>3, <3>4
  <2>8. i + 1 # 1 => i # 0
    OBVIOUS
  <2>9. Good(i + 1)
    <3>1. CASE x = "/"
      BY <2>3, <2>4, <2>5, <3>1
    <3>2. CASE x # "/" /\ (i + 1 = 1 \/ s[i] = "/")
      BY <2>5, <2>6, <3>2
    <3>3. CASE x # "/" /\ i + 1 # 1 /\ s[i] # "/"
      BY <2>3, <2>5, <2>7, <2>8, <3>3
    <3> QED BY <3>1, <3>2, <3>3
  <2> HIDE DEF Good
  <2> QED BY <1>2, <2>1, <2>9, Zenon
<1>5. \A i \in 0 .. N : i \in S
  BY ONLY N \in Nat, <1>3, <1>4, AllNumbers
<1>6. \A i \in 0 .. N : Good(i)
  <2> HIDE DEF Good
  <2> QED BY <1>2, <1>5, Zenon
<1> QED BY <1>1, <1>6

\* The words of a prefix are found again.
LEMMA WordsOfPrefix ==
  ASSUME NEW s \in Str, NEW t \in Str
  PROVE  \A i \in 0 .. Len(s) : Words(s \o t)[i] = Words(s)[i]
<1>1. PICK N \in Nat, M \in Nat : N = Len(s) /\ M = Len(t)
  BY LenProperties DEF Str
<1>2. PICK r : r = s \o t
  OBVIOUS
<1>3. r \in Str /\ Len(r) = N + M /\ \A i \in 1 .. N : r[i] = s[i]
  <2>1. /\ r \in Str /\ Len(r) = N + M
        /\ \A i \in 1 .. N + M : r[i] = IF i <= N THEN s[i] ELSE t[i - N]
    BY <1>1, <1>2, ConcatProperties DEF Str
  <2>2. \A i \in 1 .. N : i \in 1 .. N + M /\ i <= N
    OBVIOUS
  <2> QED BY <2>1, <2>2
<1>4. PICK S : \A i : i \in S <=> i \in 0 .. N /\ Words(r)[i] = Words(s)[i]
  <2>1. \A i : i \in {j \in 0 .. N : Words(r)[j] = Words(s)[j]}
                 <=> i \in 0 .. N /\ Words(r)[i] = Words(s)[i]
    BY Zenon
  <2> QED BY <2>1, Zenon
<1>5. 0 \in S
  <2>1. Words(r)[0] = <<>>
    BY <1>3, WordsSteps
  <2>2. Words(s)[0] = <<>> /\ 0 \in 0 .. N
    BY WordsSteps
  <2> QED BY <1>4, <2>1, <2>2
<1>6. ASSUME NEW i \in 0 .. N - 1, i \in S PROVE i + 1 \in S
  <2>1. /\ i + 1 \in 1 .. N /\ (i + 1) - 1 = i /\ i + 1 \in 0 .. N
        /\ i + 1 \in 1 .. N + M /\ i + 1 # 1 => i \in 1 .. N
    OBVIOUS
  <2>2. PICK w : w = Words(s)[i] /\ w = Words(r)[i]
    BY <1>4, <1>6
  <2>3. PICK x : x = s[i + 1] /\ x = r[i + 1]
    BY <1>3, <2>1
  <2>4. i + 1 # 1 => r[i] = s[i]
    BY <1>3, <2>1
  <2>5. /\ x = "/" => Words(s)[i + 1] = w
        /\ x # "/" /\ (i + 1 = 1 \/ s[i] = "/") => Words(s)[i + 1] = Append(w, <<x>>)
        /\ x # "/" /\ i + 1 # 1 /\ s[i] # "/" => Words(s)[i + 1] = Longer(w, x)
    BY <1>1, <2>1, <2>2, <2>3, WordsSteps
  <2>6. /\ x = "/" => Words(r)[i + 1] = w
        /\ x # "/" /\ (i + 1 = 1 \/ r[i] = "/") => Words(r)[i + 1] = Append(w, <<x>>)
        /\ x # "/" /\ i + 1 # 1 /\ r[i] # "/" => Words(r)[i + 1] = Longer(w, x)
    BY <1>3, <2>1, <2>2, <2>3, WordsSteps
  <2>7. Words(r)[i + 1] = Words(s)[i + 1]
    BY ONLY <2>4, <2>5, <2>6
  <2> QED BY <1>4, <2>1, <2>7
<1>7. \A i \in 0 .. N : i \in S
  BY ONLY N \in Nat, <1>5, <1>6, AllNumbers
<1> QED BY <1>1, <1>2, <1>4, <1>7

\* What append_dir makes of cwd is one name more.
LEMMA SplitAppend ==
  ASSUME NEW s \in Str, NEW d, Plain(d)
  PROVE  Split(s \o (Root \o d)) = Append(Split(s), d)
<1>1. d \in Str
  BY DEF Plain
<1>2. PICK n \in Nat, m \in Nat : n = Len(s) /\ m = Len(d) /\ m # 0
  <2>1. Len(s) \in Nat /\ Len(d) \in Nat \ {0}
    BY <1>1, LenProperties, EmptySeq DEF Str, Plain
  <2> QED BY <2>1
<1>3. PICK t \in Str : t = Root \o d
  BY <1>1, Singles, ConcatProperties DEF Str
<1>4. PICK r : r = s \o t
  OBVIOUS
<1>5. /\ r \in Str /\ Len(r) = n + (m + 1) /\ r[n + 1] = "/"
      /\ \A j \in 1 .. m : r[n + 1 + j] = d[j]
  <2>1. n = Len(s) /\ m = Len(d)
    BY <1>2
  <2>2. r = s \o (Root \o d)
    BY <1>3, <1>4
  <2> QED BY ONLY s \in Str, <1>1, <2>1, <2>2, Joint
<1>6. PICK w \in Seq(Str) : w = Split(s) /\ w = Words(r)[n + 1]
  <2>1. Words(s)[n] \in Seq(Str) /\ n \in 0 .. n
    BY <1>2, WordsTyped
  <2>2. Words(r)[n] = Words(s)[n]
    BY <1>2, <1>3, <1>4, <2>1, WordsOfPrefix
  <2>3. PICK k \in 1 .. Len(r) : k = n + 1 /\ k - 1 = n
    BY <1>5
  <2>4. Words(r)[n + 1] = Words(r)[n]
    <3>1. r \in Str /\ r[k] = "/"
      BY <1>5, <2>3
    <3>2. Words(r)[k] = Words(r)[k - 1]
      BY ONLY k \in 1 .. Len(r), <3>1, WordsSteps
    <3> QED BY <2>3, <3>2
  <2> QED BY <1>2, <2>1, <2>2, <2>4, SplitWords
<1>7. \A j \in 1 .. m : d[j] \in Chars /\ d[j] # "/"
  BY <1>1, <1>2, ElementOfSeq DEF Plain, Str
<1>8. \A j \in 0 .. m : SubSeq(d, 1, j) \in Str
  <2> SUFFICES ASSUME NEW j \in 0 .. m PROVE SubSeq(d, 1, j) \in Str
    OBVIOUS
  <2>1. \A i \in 1 .. j : d[i] \in Chars
    BY <1>7
  <2> QED BY <2>1, SubSeqProperties DEF Str
<1>9. ASSUME NEW j \in 0 .. m - 1
      PROVE  SubSeq(d, 1, j + 1) = Append(SubSeq(d, 1, j), d[j + 1])
  <2>1. 1 \in 1 .. Len(d) /\ j + 1 \in 1 .. Len(d) /\ (j + 1) - 1 = j
    BY <1>2
  <2>2. SubSeq(d, 1, j + 1) = SubSeq(d, 1, j) \o <<d[j + 1]>>
    BY <1>1, <2>1, SubSeqRecursiveSecond DEF Str
  <2>3. SubSeq(d, 1, j) \in Seq(Chars) /\ d[j + 1] \in Chars
    BY <1>2, <1>7, <1>8, <2>1 DEF Str
  <2> QED BY <2>2, <2>3, AppendIsConcat
<1>10. PICK M \in Nat : M = m - 1
  BY <1>2
<1> DEFINE Held(j) == Words(r)[n + 2 + j] = Append(w, SubSeq(d, 1, j + 1))
<1>11. PICK S : \A j : j \in S <=> j \in 0 .. m - 1 /\ Held(j)
  <2> HIDE DEF Held
  <2>1. \A j : j \in {i \in 0 .. m - 1 : Held(i)} <=> j \in 0 .. m - 1 /\ Held(j)
    BY Zenon
  <2> QED BY <2>1, Zenon
<1>12. 0 \in S
  <2>1. /\ n + 2 \in 1 .. n + (m + 1) /\ (n + 2) - 1 = n + 1 /\ n + 2 = n + 1 + 1
        /\ 0 \in 0 .. m - 1 /\ 1 \in 1 .. m /\ n + 2 + 0 = n + 2 /\ 0 + 1 = 1
    BY <1>2
  <2>2. r[n + 2] = d[1] /\ d[1] # "/"
    BY <1>5, <1>7, <2>1
  <2>3. Words(r)[n + 2] = Append(Words(r)[n + 1], <<r[n + 2]>>)
    <3>1. PICK k \in 1 .. Len(r) : k = n + 2 /\ k - 1 = n + 1
      BY <1>5, <2>1
    <3>2. r \in Str /\ r[k] # "/" /\ r[k - 1] = "/"
      BY <1>5, <2>2, <3>1
    <3>3. Words(r)[k] = Append(Words(r)[k - 1], <<r[k]>>)
      BY ONLY k \in 1 .. Len(r), <3>2, WordsSteps
    <3> QED BY <3>1, <3>3
  <2>4. SubSeq(d, 1, 1) = <<d[1]>>
    <3>1. SubSeq(d, 1, 1) = Append(SubSeq(d, 1, 0), d[1]) /\ SubSeq(d, 1, 0) = <<>>
      BY <1>9, <2>1, SubSeqEmpty
    <3>2. Append(<<>>, d[1]) = <<>> \o <<d[1]>> /\ <<d[1]>> \in Seq(Chars)
      BY <1>7, <2>1, Singles, EmptySeq, AppendIsConcat DEF Str
    <3> QED BY <3>1, <3>2, ConcatEmptySeq
  <2>5. Held(0)
    BY <1>6, <2>1, <2>2, <2>3, <2>4
  <2> HIDE DEF Held
  <2> QED BY <1>11, <2>1, <2>5, Zenon
<1>13. ASSUME NEW j \in 0 .. M - 1, j \in S PROVE j + 1 \in S
  <2>1. /\ j + 1 \in 0 .. m - 1 /\ j + 1 \in 1 .. m /\ j + 2 \in 1 .. m
        /\ (j + 1) + 1 = j + 2 /\ n + 2 + j = n + 1 + (j + 1)
        /\ n + 2 + (j + 1) = n + 1 + (j + 2)
        /\ n + 2 + (j + 1) \in 1 .. n + (m + 1) /\ n + 2 + (j + 1) # 1
        /\ (n + 2 + (j + 1)) - 1 = n + 2 + j /\ j + 1 \in 0 .. m
    BY <1>2, <1>10
  <2>2. Held(j)
    <3> HIDE DEF Held
    <3> QED BY <1>11, <1>13, Zenon
  <2>3. r[n + 2 + j] # "/" /\ r[n + 2 + (j + 1)] = d[j + 2] /\ d[j + 2] # "/"
    BY <1>5, <1>7, <2>1
  <2>4. Words(r)[n + 2 + (j + 1)] = Longer(Words(r)[n + 2 + j], d[j + 2])
    <3>1. PICK k \in 1 .. Len(r), l \in Nat : /\ k = n + 2 + (j + 1) /\ l = n + 2 + j
                                              /\ l = k - 1 /\ k # 1
      BY <1>5, <2>1
    <3>2. r[l] # "/" /\ r[k] = d[j + 2] /\ d[j + 2] # "/"
      BY <2>3, <3>1
    <3>3. Words(r)[k] = Longer(Words(r)[l], r[k])
      BY <1>5, <3>1, <3>2, WordsSteps
    <3> QED BY <3>1, <3>2, <3>3
  <2>5. PICK e \in Str : e = SubSeq(d, 1, j + 1)
    BY <1>8, <2>1
  <2>6. Words(r)[n + 2 + (j + 1)] = Append(w, Append(e, d[j + 2]))
    <3>1. Words(r)[n + 2 + j] = Append(w, e)
      BY <2>2, <2>5
    <3>2. d[j + 2] \in Chars
      BY <1>7, <2>1
    <3> QED BY <2>4, <3>1, <3>2, LongerWord
  <2>7. SubSeq(d, 1, (j + 1) + 1) = Append(e, d[j + 2])
    BY <1>9, <2>1, <2>5
  <2>8. Held(j + 1)
    BY <2>6, <2>7
  <2> HIDE DEF Held
  <2> QED BY <1>11, <2>1, <2>8, Zenon
<1>14. Held(m - 1)
  <2> HIDE DEF Held
  <2>1. M \in 0 .. M
    OBVIOUS
  <2>2. \A j \in 0 .. M : j \in S
    BY ONLY M \in Nat, <1>12, <1>13, AllNumbers
  <2>3. m - 1 \in S
    BY <1>10, <2>1, <2>2
  <2> QED BY <1>11, <2>3, Zenon
<1>15. n + 2 + (m - 1) = n + (m + 1) /\ (m - 1) + 1 = m
  OBVIOUS
<1>16. Words(r)[n + (m + 1)] = Append(w, d)
  BY <1>1, <1>2, <1>14, <1>15, SubSeqFull DEF Str
<1> QED BY <1>3, <1>4, <1>5, <1>6, <1>16, SplitWords

\* A slash in front makes no difference to the names.
LEMMA SplitAfterSlash ==
  ASSUME NEW s \in Str
  PROVE  Split(Root \o s) = Split(s)
<1>1. PICK N \in Nat : N = Len(s)
  BY LenProperties DEF Str
<1>2. PICK r : r = Root \o s
  OBVIOUS
<1>3. /\ r \in Str /\ Len(r) = N + 1 /\ r[1] = "/"
      /\ \A j \in 1 .. N : r[j + 1] = s[j]
  BY ONLY s \in Str, <1>1, <1>2, SlashBefore
<1>4. PICK S : \A i : i \in S <=> i \in 0 .. N /\ Words(r)[i + 1] = Words(s)[i]
  <2>1. \A i : i \in {j \in 0 .. N : Words(r)[j + 1] = Words(s)[j]}
                 <=> i \in 0 .. N /\ Words(r)[i + 1] = Words(s)[i]
    BY Zenon
  <2> QED BY <2>1, Zenon
<1>5. 0 \in S
  <2>1. 0 \in 0 .. N /\ 0 + 1 = 1 /\ 1 \in 1 .. N + 1 /\ 1 - 1 = 0
    OBVIOUS
  <2>2. Words(r)[1] = Words(r)[0]
    BY <1>3, <2>1, WordsSteps
  <2>3. Words(r)[0] = <<>>
    BY <1>3, WordsSteps
  <2>4. Words(s)[0] = <<>>
    BY WordsSteps
  <2> QED BY <1>4, <2>1, <2>2, <2>3, <2>4
<1>6. ASSUME NEW i \in 0 .. N - 1, i \in S PROVE i + 1 \in S
  <2>1. PICK k \in 1 .. N, l \in 1 .. N + 1 :
           /\ k = i + 1 /\ k - 1 = i /\ l = k + 1 /\ l - 1 = k /\ l # 1
           /\ k \in 0 .. N /\ k # 1 => i \in 1 .. N
    <3>1. i + 1 \in 1 .. N /\ (i + 1) + 1 \in 1 .. N + 1
      OBVIOUS
    <3> QED BY <3>1
  <2>2. PICK w : w = Words(s)[i] /\ w = Words(r)[k]
    BY <1>4, <1>6, <2>1
  <2>3. PICK x : x = s[k] /\ x = r[l]
    BY <1>3, <2>1
  <2>4. IF k = 1 THEN r[k] = "/" ELSE r[k] = s[i]
    BY <1>3, <2>1
  <2>5. /\ x = "/" => Words(s)[k] = w
        /\ x # "/" /\ (k = 1 \/ s[i] = "/") => Words(s)[k] = Append(w, <<x>>)
        /\ x # "/" /\ k # 1 /\ s[i] # "/" => Words(s)[k] = Longer(w, x)
    BY <1>1, <2>1, <2>2, <2>3, WordsSteps
  <2>6. /\ x = "/" => Words(r)[l] = w
        /\ x # "/" /\ r[k] = "/" => Words(r)[l] = Append(w, <<x>>)
        /\ x # "/" /\ r[k] # "/" => Words(r)[l] = Longer(w, x)
    BY <1>3, <2>1, <2>2, <2>3, WordsSteps
  <2>7. Words(r)[l] = Words(s)[k]
    BY ONLY <2>4, <2>5, <2>6
  <2> QED BY <1>4, <2>1, <2>7
<1>7. N \in S
  <2>1. \A i \in 0 .. N : i \in S
    BY ONLY N \in Nat, <1>5, <1>6, AllNumbers
  <2> QED BY <2>1
<1> QED BY <1>1, <1>2, <1>3, <1>4, <1>7, SplitWords

-----------------------------------------------------------------------------
(* Names and strings, there and back.                                      *)

LEMMA NamesPlain ==
  /\ \A d \in Names : d \in Str /\ Plain(d) /\ d # <<".">> /\ d # <<".", ".">>
  /\ Seq(Names) \subseteq Seq(Str)
<1>1. \A d \in Names : d \in Str /\ Plain(d) /\ d # <<".">> /\ d # <<".", ".">>
  BY DEF Names, Str, Plain, Contains
<1>2. Names \subseteq Str
  BY <1>1
<1> QED BY <1>1, <1>2, SeqMonotonic

\* The names of a string made of them are those names.
LEMMA SplitRendered ==
  ASSUME NEW c \in Seq(Names)
  PROVE  Split(Rendered(c)) = c /\ Split(Above(c)) = c
<1>1. PICK S : \A n : n \in S <=> n \in Seq(Names) /\ Split(Above(n)) = n
  <2>1. \A n : n \in {m \in Seq(Names) : Split(Above(m)) = m}
                 <=> n \in Seq(Names) /\ Split(Above(n)) = n
    BY Zenon
  <2> QED BY <2>1, Zenon
<1>2. Split(<<>>) = <<>> /\ <<>> \in Str /\ <<>> \in Seq(Names)
  <2>1. <<>> \in Str /\ Len(<<>>) = 0 /\ <<>> \in Seq(Names)
    BY EmptySeq DEF Str
  <2>2. Words(<<>>)[0] = <<>>
    BY <2>1, WordsSteps
  <2> QED BY <2>1, <2>2, SplitWords
<1>3. <<>> \in S
  BY <1>1, <1>2 DEF Above
<1>4. ASSUME NEW n \in Seq(Names), NEW d \in Names, n \in S PROVE Append(n, d) \in S
  <2>1. n \in Seq(Str) /\ d \in Str /\ Plain(d) /\ Split(Above(n)) = n
    BY <1>1, <1>4, NamesPlain
  <2>2. Above(n) \in Str /\ Above(Append(n, d)) = Above(n) \o (Root \o d)
    BY <2>1, AboveAppend
  <2>3. Split(Above(Append(n, d))) = Append(n, d)
    BY <2>1, <2>2, SplitAppend
  <2>4. Append(n, d) \in Seq(Names)
    BY AppendProperties
  <2> QED BY <1>1, <2>3, <2>4
<1>5. c \in S
  BY <1>3, <1>4, AllSequences
<1>6. Split(Above(c)) = c
  BY <1>1, <1>5
<1>7. CASE c = <<>>
  <2>1. Rendered(c) = Root \o <<>>
    BY <1>7, Singles, ConcatEmptySeq DEF Rendered, Str
  <2> QED BY <1>2, <1>6, <1>7, <2>1, SplitAfterSlash
<1>8. CASE c # <<>>
  BY <1>6, <1>8 DEF Above
<1> QED BY <1>6, <1>7, <1>8

\* The string without its first slash: the names with slashes between them.
Rel(c) == IF c = <<>> THEN <<>> ELSE Head(c) \o Above(Tail(c))

LEMMA AboveFirst ==
  ASSUME NEW d \in Str, NEW c \in Seq(Str)
  PROVE  Above(<<d>> \o c) = Root \o (d \o Above(c))
<1>1. PICK S : \A n : n \in S <=>
          n \in Seq(Str) /\ Above(<<d>> \o n) = Root \o (d \o Above(n))
  <2>1. \A n : n \in {m \in Seq(Str) : Above(<<d>> \o m) = Root \o (d \o Above(m))}
                 <=> n \in Seq(Str) /\ Above(<<d>> \o n) = Root \o (d \o Above(n))
    BY Zenon
  <2> QED BY <2>1, Zenon
<1>2. <<d>> \in Seq(Str) /\ <<>> \in Seq(Str) /\ <<>> \in Str /\ Above(<<>>) = <<>>
  BY EmptySeq DEF Above, Str
<1>3. <<>> \in S
  <2>1. <<d>> \o <<>> = <<d>> /\ <<>> \o <<d>> = <<d>>
    BY <1>2, ConcatEmptySeq
  <2>2. <<d>> = Append(<<>>, d)
    BY <1>2, <2>1, AppendIsConcat
  <2>3. Root \o d \in Str
    BY Singles, ConcatProperties DEF Str
  <2>4. Above(Append(<<>>, d)) = Root \o d
    <3>1. Above(Append(<<>>, d)) = Above(<<>>) \o (Root \o d)
      BY <1>2, AboveAppend
    <3>2. <<>> \o (Root \o d) = Root \o d
      BY <2>3, ConcatEmptySeq DEF Str
    <3> QED BY <1>2, <3>1, <3>2
  <2>5. d \o Above(<<>>) = d
    BY <1>2, ConcatEmptySeq DEF Str
  <2> QED BY <1>1, <1>2, <2>1, <2>2, <2>4, <2>5
<1>4. ASSUME NEW n \in Seq(Str), NEW e \in Str, n \in S PROVE Append(n, e) \in S
  <2>1. /\ Append(n, e) = n \o <<e>> /\ Append(n, e) \in Seq(Str)
        /\ <<e>> \in Seq(Str) /\ <<d>> \o n \in Seq(Str)
    BY <1>2, AppendIsConcat, AppendProperties, ConcatProperties
  <2>2. <<d>> \o Append(n, e) = Append(<<d>> \o n, e)
    BY <1>2, <2>1, ConcatAssociative, AppendIsConcat
  <2>3. PICK t, u \in Str : t = Root \o e /\ u = Above(n) /\ t \in Str
    BY AboveAppend, Singles, ConcatProperties DEF Str
  <2>4. Above(<<d>> \o n) = Root \o (d \o u)
    BY <1>1, <1>4, <2>3
  <2>5. Above(Append(<<d>> \o n, e)) = (Root \o (d \o u)) \o t
    <3>1. PICK x \in Seq(Str) : x = <<d>> \o n
      BY <2>1
    <3>2. Above(Append(x, e)) = Above(x) \o (Root \o e)
      BY ONLY x \in Seq(Str), e \in Str, AboveAppend
    <3> QED BY <2>3, <2>4, <3>1, <3>2
  <2>6. Above(Append(n, e)) = u \o t
    BY <2>3, AboveAppend
  <2>7. (Root \o (d \o u)) \o t = Root \o (d \o (u \o t))
    <3>1. /\ Root \in Seq(Chars) /\ d \in Seq(Chars) /\ u \in Seq(Chars)
          /\ t \in Seq(Chars) /\ d \o u \in Seq(Chars)
      BY <2>3, Singles, ConcatProperties DEF Str
    <3>2. (Root \o (d \o u)) \o t = Root \o ((d \o u) \o t)
      <4>1. PICK x \in Seq(Chars) : x = d \o u
        BY <3>1
      <4>2. (Root \o x) \o t = Root \o (x \o t)
        <5>1. Root \in Seq(Chars) /\ t \in Seq(Chars)
          BY <3>1
        <5> QED BY ONLY <5>1, x \in Seq(Chars), ConcatAssociative
      <4> QED BY <4>1, <4>2
    <3>3. (d \o u) \o t = d \o (u \o t)
      BY ONLY <3>1, ConcatAssociative
    <3> QED BY <3>2, <3>3
  <2> QED BY <1>1, <2>1, <2>2, <2>5, <2>6, <2>7
<1>5. c \in S
  BY <1>3, <1>4, AllSequences
<1> QED BY <1>1, <1>5

LEMMA RenderedRel ==
  ASSUME NEW c \in Seq(Str)
  PROVE  /\ Rel(c) \in Str /\ Rendered(c) = Root \o Rel(c)
         /\ Above(c) = IF c = <<>> THEN <<>> ELSE Root \o Rel(c)
<1>1. CASE c = <<>>
  <2>1. Rel(c) = <<>> /\ <<>> \in Str /\ Above(c) = <<>> /\ Rendered(c) = Root
    BY <1>1, EmptySeq DEF Rel, Above, Rendered, Str
  <2>2. Root \o <<>> = Root
    BY Singles, ConcatEmptySeq DEF Str
  <2> QED BY <1>1, <2>1, <2>2
<1>2. CASE c # <<>>
  <2>1. PICK d \in Str, n \in Seq(Str) : d = Head(c) /\ n = Tail(c)
    BY <1>2, HeadTailProperties
  <2>2. c = <<d>> \o n
    <3>1. Len(c) \in Nat \ {0} /\ c[1] = d
      BY <1>2, <2>1, EmptySeq
    <3>2. 1 \in 1 .. Len(c) /\ Len(c) \in 1 .. Len(c)
      BY <3>1
    <3>3. SubSeq(c, 1, Len(c)) = <<c[1]>> \o SubSeq(c, 1 + 1, Len(c))
      BY <3>2, SubSeqRecursiveFirst
    <3>4. SubSeq(c, 1, Len(c)) = c
      BY SubSeqFull
    <3>5. n = SubSeq(c, 1 + 1, Len(c))
      BY <1>2, <2>1, TailIsSubSeq
    <3> QED BY <3>1, <3>3, <3>4, <3>5
  <2>3. Above(c) = Root \o (d \o Above(n))
    BY <2>2, AboveFirst
  <2>4. Rel(c) = d \o Above(n) /\ Rendered(c) = Above(c)
    BY <1>2, <2>1 DEF Rel, Above
  <2>5. Rel(c) \in Str
    BY <2>4, AboveAppend, ConcatProperties DEF Str
  <2> QED BY <1>2, <2>3, <2>4, <2>5
<1> QED BY <1>1, <1>2

-----------------------------------------------------------------------------
(* What the handlers do with a string, by its names.                       *)

\* The first and the last slash of a string, the first of its other characters.
LEMMA SelectedIndex ==
  ASSUME NEW s \in Str
  PROVE  /\ (\A i \in 1 .. Len(s) : s[i] # "/") =>
               /\ SelectInSeq(s, LAMBDA c : c = "/") = 0
               /\ SelectLastInSeq(s, LAMBDA c : c = "/") = 0
         /\ (\A i \in 1 .. Len(s) : s[i] = "/") => SelectInSeq(s, LAMBDA c : c # "/") = 0
         /\ \A k \in 1 .. Len(s) :
              /\ s[k] = "/" /\ (\A i \in 1 .. k - 1 : s[i] # "/") =>
                   SelectInSeq(s, LAMBDA c : c = "/") = k
              /\ s[k] # "/" /\ (\A i \in 1 .. k - 1 : s[i] = "/") =>
                   SelectInSeq(s, LAMBDA c : c # "/") = k
              /\ s[k] = "/" /\ (\A i \in k + 1 .. Len(s) : s[i] # "/") =>
                   SelectLastInSeq(s, LAMBDA c : c = "/") = k
<1>1. PICK N \in Nat : N = Len(s)
  BY LenProperties DEF Str
<1>2. PICK A, B : /\ A = {i \in 1 .. Len(s) : s[i] = "/"}
                  /\ B = {i \in 1 .. Len(s) : s[i] # "/"}
  OBVIOUS
<1>3. /\ A \in SUBSET (1 .. N) /\ B \in SUBSET (1 .. N)
      /\ \A i \in 1 .. N : i \in A <=> s[i] = "/"
      /\ \A i \in 1 .. N : i \in B <=> s[i] # "/"
  BY <1>1, <1>2
<1>4. /\ SelectInSeq(s, LAMBDA c : c = "/") = IF A # {} THEN Min(A) ELSE 0
      /\ SelectLastInSeq(s, LAMBDA c : c = "/") = IF A # {} THEN Max(A) ELSE 0
      /\ SelectInSeq(s, LAMBDA c : c # "/") = IF B # {} THEN Min(B) ELSE 0
  BY <1>2 DEF SelectInSeq, SelectLastInSeq
<1>5. ASSUME NEW S \in SUBSET (1 .. N), NEW k \in S
      PROVE  /\ (\A i \in 1 .. k - 1 : i \notin S) => Min(S) = k
             /\ (\A i \in k + 1 .. N : i \notin S) => Max(S) = k
  <2>1. ASSUME \A i \in 1 .. k - 1 : i \notin S PROVE Min(S) = k
    <3>1. \A i \in S : k <= i
      BY <2>1
    <3>2. \A j \in S : (\A i \in S : j <= i) => j = k
      BY <3>1
    <3> QED BY <3>1, <3>2 DEF Min
  <2>2. ASSUME \A i \in k + 1 .. N : i \notin S PROVE Max(S) = k
    <3>1. \A i \in S : k >= i
      BY <2>2
    <3>2. \A j \in S : (\A i \in S : j >= i) => j = k
      BY <3>1
    <3> QED BY <3>1, <3>2 DEF Max
  <2> QED BY <2>1, <2>2
<1>6. ASSUME \A i \in 1 .. N : s[i] # "/" PROVE A = {}
  BY <1>3, <1>6
<1>7. ASSUME \A i \in 1 .. N : s[i] = "/" PROVE B = {}
  BY <1>3, <1>7
<1>8. ASSUME NEW k \in 1 .. N
      PROVE  /\ s[k] = "/" /\ (\A i \in 1 .. k - 1 : s[i] # "/") => k \in A /\ Min(A) = k
             /\ s[k] # "/" /\ (\A i \in 1 .. k - 1 : s[i] = "/") => k \in B /\ Min(B) = k
             /\ s[k] = "/" /\ (\A i \in k + 1 .. N : s[i] # "/") => k \in A /\ Max(A) = k
  <2>1. \A i \in 1 .. k - 1 : i \in 1 .. N
    OBVIOUS
  <2>2. \A i \in k + 1 .. N : i \in 1 .. N
    OBVIOUS
  <2>3. ASSUME s[k] = "/", \A i \in 1 .. k - 1 : s[i] # "/" PROVE k \in A /\ Min(A) = k
    <3>1. k \in A /\ \A i \in 1 .. k - 1 : i \notin A
      BY <1>3, <2>1, <2>3
    <3> QED BY <1>3, <1>5, <3>1
  <2>4. ASSUME s[k] # "/", \A i \in 1 .. k - 1 : s[i] = "/" PROVE k \in B /\ Min(B) = k
    <3>1. k \in B /\ \A i \in 1 .. k - 1 : i \notin B
      BY <1>3, <2>1, <2>4
    <3> QED BY <1>3, <1>5, <3>1
  <2>5. ASSUME s[k] = "/", \A i \in k + 1 .. N : s[i] # "/" PROVE k \in A /\ Max(A) = k
    <3>1. k \in A /\ \A i \in k + 1 .. N : i \notin A
      BY <1>3, <2>2, <2>5
    <3> QED BY <1>3, <1>5, <3>1
  <2> QED BY <2>3, <2>4, <2>5
<1> QED BY <1>1, <1>4, <1>6, <1>7, <1>8

\* The directory of a path; of a name by itself, it is the one where one is.
LEMMA DirnameJoint ==
  ASSUME NEW u \in Str, NEW d, Plain(d)
  PROVE  Dirname(u \o (Root \o d)) = IF u = <<>> THEN Root ELSE u
<1>1. d \in Str
  BY DEF Plain
<1>2. PICK n \in Nat, m \in Nat : n = Len(u) /\ m = Len(d)
  BY <1>1, LenProperties DEF Str
<1>3. PICK r : r = u \o (Root \o d)
  OBVIOUS
<1>4. /\ r \in Str /\ Len(r) = n + (m + 1) /\ r[n + 1] = "/"
      /\ \A j \in 1 .. m : r[n + 1 + j] = d[j]
  <2>1. n = Len(u) /\ m = Len(d)
    BY <1>2
  <2> QED BY ONLY u \in Str, <1>1, <1>3, <2>1, Joint
<1>5. PICK k \in 1 .. Len(r) : k = n + 1
  BY <1>4
<1>6. SelectLastInSeq(r, LAMBDA c : c = "/") = k
  <2>1. \A i \in k + 1 .. Len(r) : i - k \in 1 .. m /\ n + 1 + (i - k) = i
    BY <1>4, <1>5
  <2>2. \A i \in k + 1 .. Len(r) : r[i] # "/"
    <3> SUFFICES ASSUME NEW i \in k + 1 .. Len(r) PROVE r[i] # "/"
      OBVIOUS
    <3>1. PICK j \in 1 .. m : n + 1 + j = i
      BY <2>1
    <3>2. r[i] = d[j]
      BY <1>4, <3>1
    <3> QED BY <1>2, <3>2 DEF Plain
  <2> QED BY <1>4, <1>5, <2>2, SelectedIndex
<1>7. Dirname(r) = IF k = 1 THEN Root ELSE SubSeq(r, 1, k - 1)
  BY <1>5, <1>6 DEF Dirname
<1>8. k - 1 = n /\ (k = 1 <=> u = <<>>)
  BY <1>2, <1>5, EmptySeq DEF Str
<1>9. SubSeq(r, 1, n) = u
  <2>1. PICK t \in Str, b \in Nat : t = Root \o d /\ b = Len(t)
    BY <1>1, Singles, ConcatProperties, LenProperties DEF Str
  <2>2. n = Len(u) /\ r = u \o t
    BY <1>2, <1>3, <2>1
  <2> QED BY ONLY u \in Str, t \in Str, <2>1, <2>2, Apart
<1> QED BY <1>3, <1>7, <1>8, <1>9

LEMMA DirnameName ==
  ASSUME NEW d, Plain(d)
  PROVE  Dirname(d) = <<".">>
<1>1. SelectLastInSeq(d, LAMBDA c : c = "/") = 0
  BY SelectedIndex DEF Plain
<1> QED BY <1>1 DEF Dirname

\* Leading slashes are skipped, nothing else.
LEMMA RelativeSlash ==
  ASSUME NEW s \in Str, s = <<>> \/ s[1] # "/"
  PROVE  Relative(Root \o s) = s /\ Relative(s) = s
<1>1. PICK m \in Nat : m = Len(s)
  BY LenProperties DEF Str
<1>2. PICK r : r = Root \o s
  OBVIOUS
<1>3. /\ r \in Str /\ Len(r) = m + 1 /\ r[1] = "/"
      /\ \A j \in 1 .. m : r[j + 1] = s[j]
  BY ONLY s \in Str, <1>1, <1>2, SlashBefore
<1>4. CASE s = <<>>
  <2>1. m = 0
    BY <1>1, <1>4, EmptySeq
  <2>2. \A i \in 1 .. Len(r) : r[i] = "/"
    <3>1. \A i \in 1 .. Len(r) : i = 1
      BY <1>3, <2>1
    <3> QED BY <1>3, <3>1
  <2>3. SelectInSeq(r, LAMBDA c : c # "/") = 0
    BY <1>3, <2>2, SelectedIndex
  <2>4. SelectInSeq(s, LAMBDA c : c # "/") = 0
    <3>1. \A i \in 1 .. Len(s) : s[i] = "/"
      BY <1>1, <2>1
    <3> QED BY <3>1, SelectedIndex
  <2> QED BY <1>2, <1>4, <2>3, <2>4 DEF Relative
<1>5. CASE s # <<>>
  <2>1. s[1] # "/" /\ m # 0 /\ 1 \in 1 .. Len(s) /\ 1 \in 1 .. m /\ 2 \in 1 .. Len(r)
    BY <1>1, <1>3, <1>5, EmptySeq DEF Str
  <2>2. r[2] # "/" /\ \A i \in 1 .. 2 - 1 : r[i] = "/"
    <3>1. \A i \in 1 .. 2 - 1 : i = 1
      OBVIOUS
    <3>2. r[1 + 1] # "/"
      BY <1>3, <2>1
    <3> QED BY <1>3, <3>1, <3>2
  <2>3. SelectInSeq(r, LAMBDA c : c # "/") = 2
    BY <1>3, <2>1, <2>2, SelectedIndex
  <2>4. SelectInSeq(s, LAMBDA c : c # "/") = 1
    <3>1. \A i \in 1 .. 1 - 1 : s[i] = "/"
      OBVIOUS
    <3> QED BY <2>1, <3>1, SelectedIndex
  <2>5. SubSeq(r, 2, Len(r)) = s
    <3>1. PICK a \in Nat : a = 1 /\ a = Len(Root) /\ 2 = a + 1 /\ Len(r) = a + m
      BY <1>3, Singles
    <3>2. Root \in Str /\ a = Len(Root)
      BY <3>1, Singles
    <3>3. SubSeq(r, a + 1, a + m) = s
      BY ONLY s \in Str, <1>1, <1>2, <3>2, Apart
    <3> QED BY <3>1, <3>3
  <2>6. SubSeq(s, 1, Len(s)) = s
    BY SubSeqFull DEF Str
  <2> QED BY <1>2, <2>3, <2>4, <2>5, <2>6 DEF Relative
<1> QED BY <1>4, <1>5

\* The name up to the next slash, and what is left behind it.
LEMMA FirstName ==
  ASSUME NEW d, Plain(d), NEW s \in Str
  PROVE  LET r == d \o (Root \o s)
             k == SelectInSeq(r, LAMBDA c : c = "/")
         IN  k # 0 /\ SubSeq(r, 1, k - 1) = d /\ SubSeq(r, k + 1, Len(r)) = s
<1> DEFINE r == d \o (Root \o s)
           k == SelectInSeq(r, LAMBDA c : c = "/")
<1> HIDE DEF r, k
<1>1. d \in Str
  BY DEF Plain
<1>2. PICK n \in Nat, m \in Nat : n = Len(d) /\ m = Len(s)
  BY <1>1, LenProperties DEF Str
<1>3. /\ r \in Str /\ Len(r) = n + (m + 1) /\ r[n + 1] = "/"
      /\ \A i \in 1 .. n : r[i] = d[i]
  <2>1. n = Len(d) /\ m = Len(s)
    BY <1>2
  <2>2. r = d \o (Root \o s)
    BY DEF r
  <2> QED BY ONLY s \in Str, <1>1, <2>1, <2>2, Joint
<1>4. PICK i \in 1 .. Len(r) : i = n + 1
  BY <1>3
<1>5. k = i
  <2>1. \A j \in 1 .. i - 1 : j \in 1 .. n
    BY <1>4
  <2>2. \A j \in 1 .. i - 1 : r[j] # "/"
    BY <1>2, <1>3, <2>1 DEF Plain
  <2> QED BY <1>3, <1>4, <2>2, SelectedIndex DEF k
<1>6. PICK t \in Str, b \in Nat : t = Root \o s /\ b = Len(t) /\ b = m + 1
  <2>1. PICK t : t = Root \o s
    OBVIOUS
  <2>2. t \in Str /\ Len(t) = m + 1
    BY ONLY s \in Str, <1>2, <2>1, SlashBefore
  <2>3. m + 1 \in Nat
    OBVIOUS
  <2> QED BY <2>1, <2>2, <2>3
<1>7. SubSeq(r, 1, n) = d
  <2>1. n = Len(d) /\ r = d \o t
    BY <1>2, <1>6 DEF r
  <2> QED BY ONLY t \in Str, <1>1, <2>1, Apart
<1>8. SubSeq(r, n + 1 + 1, Len(r)) = s
  <2>1. PICK x \in Str : x = d \o Root /\ Len(x) = n + 1
    <3>1. /\ Root \in Str /\ 1 = Len(Root) /\ n = Len(d)
          /\ d \o Root \in Str /\ Len(d \o Root) = Len(d) + Len(Root)
      BY <1>1, <1>2, Singles, Halves
    <3> QED BY <3>1
  <2>2. r = x \o s
    <3>1. d \in Seq(Chars) /\ s \in Seq(Chars) /\ Root \in Seq(Chars)
      BY <1>1, Singles DEF Str
    <3>2. (d \o Root) \o s = d \o (Root \o s)
      BY ONLY <3>1, ConcatAssociative
    <3> QED BY <2>1, <3>2 DEF r
  <2>3. PICK a \in Nat : a = n + 1 /\ a = Len(x)
    BY <2>1
  <2>4. SubSeq(r, a + 1, a + m) = s
    <3>1. m = Len(s) /\ a = Len(x)
      BY <1>2, <2>3
    <3> QED BY ONLY x \in Str, s \in Str, <2>2, <3>1, Apart
  <2>5. a + 1 = n + 1 + 1 /\ a + m = Len(r)
    BY <1>3, <2>3
  <2> QED BY <2>4, <2>5
<1>9. k # 0 /\ k - 1 = n /\ k + 1 = n + 1 + 1
  BY <1>4, <1>5
<1>10. k # 0 /\ SubSeq(r, 1, k - 1) = d /\ SubSeq(r, k + 1, Len(r)) = s
  BY <1>7, <1>8, <1>9
<1> QED BY <1>10 DEF r, k

\* Paths of no names, and the first character of the others.
LEMMA RenderedFacts ==
  ASSUME NEW c \in Seq(Names)
  PROVE  /\ Rendered(c) \in Str /\ Rel(c) \in Str /\ Split(Rel(c)) = c
         /\ Rel(c) = <<>> <=> c = <<>>
         /\ Rendered(c) = Root <=> c = <<>>
         /\ Rel(c) = <<>> \/ Rel(c)[1] # "/"
         /\ Head(Rendered(c)) = "/"
<1>1. /\ c \in Seq(Str) /\ Rel(c) \in Str /\ Rendered(c) = Root \o Rel(c)
      /\ Rendered(c) \in Str
  <2>1. c \in Seq(Str)
    BY NamesPlain
  <2>2. Rel(c) \in Str /\ Rendered(c) = Root \o Rel(c)
    BY <2>1, RenderedRel
  <2> QED BY <2>1, <2>2, SlashBefore
<1>2. Split(Rel(c)) = c
  BY <1>1, SplitAfterSlash, SplitRendered
<1>3. CASE c = <<>>
  <2>1. Rel(c) = <<>> /\ Rendered(c) = Root
    BY <1>3 DEF Rel, Rendered
  <2>2. Head(Root) = "/"
    BY DEF Root
  <2> QED BY <1>1, <1>2, <1>3, <2>1, <2>2
<1>4. CASE c # <<>>
  <2>1. PICK d \in Str, n \in Seq(Str) : d = Head(c) /\ n = Tail(c) /\ Plain(d)
    <3>1. Head(c) \in Names /\ Tail(c) \in Seq(Names)
      BY <1>4, HeadTailProperties
    <3> QED BY <3>1, NamesPlain
  <2>2. PICK a \in Str : a = Above(n)
    BY AboveAppend
  <2>3. Rel(c) = d \o a
    BY <1>4, <2>1, <2>2 DEF Rel
  <2>4. PICK m \in Nat, b \in Nat : m = Len(d) /\ m # 0 /\ b = Len(a)
    <3>1. Len(d) \in Nat \ {0} /\ Len(a) \in Nat
      BY <2>1, LenProperties, EmptySeq DEF Str, Plain
    <3> QED BY <3>1
  <2>5. Rel(c)[1] = d[1] /\ Len(Rel(c)) = m + b /\ 1 \in 1 .. m
    <3>1. 1 \in 1 .. Len(d)
      BY <2>4
    <3> QED BY <2>3, <2>4, <3>1, Halves
  <2>6. Rel(c)[1] # "/" /\ Rel(c) # <<>>
    BY <2>1, <2>4, <2>5, EmptySeq DEF Plain
  <2>7. Len(Rendered(c)) = (m + b) + 1 /\ Rendered(c)[1] = "/"
    BY <1>1, <2>5, SlashBefore
  <2>8. Rendered(c) # Root
    <3>1. (m + b) + 1 # 1
      BY <2>4
    <3> QED BY <2>7, <3>1, Singles
  <2>9. Head(Rendered(c)) = "/"
    BY <1>1, <2>7, EmptySeq DEF Str
  <2> QED BY <1>1, <1>2, <1>4, <2>6, <2>8, <2>9
<1> QED BY <1>3, <1>4

\* "." is no path of names.
LEMMA DotIsNoPath == \A c \in Seq(Names) : Rel(c) # <<".">>
<1> SUFFICES ASSUME NEW c \in Seq(Names), Rel(c) = <<".">> PROVE FALSE
  OBVIOUS
<1>1. PICK d : d = <<".">>
  OBVIOUS
<1>2. d \in Str /\ Plain(d)
  <2>1. "." \in Chars
    BY PathAssumption
  <2>2. d \in Str /\ Len(d) = 1 /\ d[1] = "."
    BY <1>1, <2>1, Singles
  <2>3. \A i \in 1 .. Len(d) : d[i] # "/"
    <3>1. \A i \in 1 .. Len(d) : i = 1
      BY <2>2
    <3>2. "." # "/"
      OBVIOUS
    <3> QED BY <2>2, <3>1, <3>2
  <2>4. d # <<>>
    BY <1>1
  <2> QED BY <2>2, <2>3, <2>4 DEF Plain
<1>3. <<>> \in Str /\ <<>> \in Seq(Names) /\ Rel(<<>>) = <<>>
  BY EmptySeq DEF Str, Rel
<1>4. Split(<<>>) = <<>>
  BY <1>3, RenderedFacts
<1>5. Split(<<>> \o (Root \o d)) = Append(<<>>, d)
  BY <1>2, <1>3, <1>4, SplitAppend
<1>6. <<>> \o (Root \o d) = Root \o d
  <2>1. Root \o d \in Str
    BY <1>2, SlashBefore
  <2> QED BY <2>1, ConcatEmptySeq DEF Str
<1>7. Split(d) = Append(<<>>, d)
  BY <1>2, <1>5, <1>6, SplitAfterSlash
<1>8. c = Append(<<>>, d)
  BY <1>1, <1>7, RenderedFacts
<1>9. Len(c) = 1 /\ c[1] = d
  <2>1. <<>> \in Seq(Str) /\ Len(<<>>) = 0
    BY EmptySeq
  <2> QED BY <1>2, <1>8, <2>1, AppendProperties
<1>10. d \in Names
  BY <1>9, ElementOfSeq
<1> QED BY <1>1, <1>10, NamesPlain

\* The path of the directory.
LEMMA DirnamePath ==
  ASSUME NEW c \in Seq(Names), NEW d \in Names
  PROVE  /\ Dirname(Rendered(Append(c, d))) = Rendered(c)
         /\ Dirname(Rel(Append(c, d))) = IF c = <<>> THEN <<".">> ELSE Rel(c)
<1>1. /\ c \in Seq(Str) /\ d \in Str /\ Plain(d) /\ d \in Seq(Chars)
      /\ Append(c, d) \in Seq(Str) /\ Append(c, d) \in Seq(Names)
  <2>1. c \in Seq(Str) /\ d \in Str /\ Plain(d)
    BY NamesPlain
  <2> QED BY <2>1, AppendProperties DEF Str
<1>2. PICK t \in Str : t = Root \o d
  BY <1>1, SlashBefore
<1>3. PICK a \in Str : a = Above(c)
  BY <1>1, AboveAppend
<1>4. Rendered(Append(c, d)) = a \o t
  BY <1>1, <1>2, <1>3, AboveAppend
<1>5. Dirname(a \o t) = IF a = <<>> THEN Root ELSE a
  BY <1>1, <1>2, <1>3, DirnameJoint
<1>6. PICK r, s \in Str : r = Rel(c) /\ s = Rel(Append(c, d))
  BY <1>1, RenderedFacts
<1>7. a \o t = Root \o s
  BY <1>1, <1>4, <1>6, RenderedRel
<1>8. Root \in Seq(Chars) /\ s \in Seq(Chars) /\ t \in Seq(Chars) /\ r \in Seq(Chars)
  BY <1>2, <1>6, Singles DEF Str
<1>9. CASE c = <<>>
  <2>1. a = <<>> /\ Rendered(c) = Root
    BY <1>3, <1>9 DEF Above, Rendered
  <2>2. a \o t = t
    BY <1>8, <2>1, ConcatEmptySeq
  <2>3. s = d
    <3>1. Root \o s = Root \o d
      BY <1>2, <1>7, <2>2
    <3> QED BY <1>1, <1>8, <3>1, ConcatSimplifications
  <2> QED BY <1>1, <1>4, <1>5, <1>6, <1>9, <2>1, <2>3, DirnameName
<1>10. CASE c # <<>>
  <2>1. a = Root \o r /\ Rendered(c) = a
    BY <1>1, <1>3, <1>6, <1>10, RenderedRel
  <2>2. a # <<>> /\ r # <<>>
    <3>1. r # <<>>
      BY <1>6, <1>10, RenderedFacts
    <3>2. a # <<>>
      BY <1>8, <2>1, <3>1, ConcatEqualIffEmpty
    <3> QED BY <3>1, <3>2
  <2>3. s = r \o t
    <3>1. (Root \o r) \o t = Root \o (r \o t) /\ r \o t \in Seq(Chars)
      BY <1>8, ConcatAssociative, ConcatProperties
    <3>2. Root \o s = Root \o (r \o t)
      BY <1>7, <2>1, <3>1
    <3> QED BY <1>8, <3>1, <3>2, ConcatSimplifications
  <2>4. Dirname(r \o t) = r
    BY <1>1, <1>2, <1>6, <2>2, DirnameJoint
  <2> QED BY <1>4, <1>5, <1>6, <1>10, <2>1, <2>2, <2>3, <2>4
<1> QED BY <1>9, <1>10

\* adfimage_chdir's start: the slash is skipped, of any path.
LEMMA RelativePath ==
  ASSUME NEW c \in Seq(Names)
  PROVE  Relative(Rendered(c)) = Rel(c) /\ Relative(Rel(c)) = Rel(c)
<1>1. /\ Rel(c) \in Str /\ Rendered(c) = Root \o Rel(c)
      /\ Rel(c) = <<>> \/ Rel(c)[1] # "/"
  <2>1. c \in Seq(Str)
    BY NamesPlain
  <2> QED BY <2>1, RenderedRel, RenderedFacts
<1> QED BY <1>1, RelativeSlash

\* A turn of its loop: the first name, and the others.
LEMMA FirstOfPath ==
  ASSUME NEW c \in Seq(Names), c # <<>>
  PROVE  LET s == Rel(c)
             k == SelectInSeq(s, LAMBDA x : x = "/")
         IN  IF k = 0 THEN s = Head(c) /\ Tail(c) = <<>>
             ELSE SubSeq(s, 1, k - 1) = Head(c) /\ SubSeq(s, k + 1, Len(s)) = Rel(Tail(c))
<1> DEFINE s == Rel(c)
           k == SelectInSeq(s, LAMBDA x : x = "/")
<1> HIDE DEF s, k
<1> SUFFICES IF k = 0 THEN s = Head(c) /\ Tail(c) = <<>>
             ELSE SubSeq(s, 1, k - 1) = Head(c) /\ SubSeq(s, k + 1, Len(s)) = Rel(Tail(c))
  BY DEF s, k
<1>1. PICK d \in Str, n \in Seq(Str) : /\ d = Head(c) /\ n = Tail(c) /\ Plain(d)
                                       /\ n \in Seq(Names)
  <2>1. Head(c) \in Names /\ Tail(c) \in Seq(Names)
    BY HeadTailProperties
  <2> QED BY <2>1, NamesPlain
<1>2. s = d \o Above(n)
  BY <1>1 DEF Rel, s
<1>3. CASE n = <<>>
  <2>1. s = d
    BY <1>2, <1>3, ConcatEmptySeq DEF Above, Str
  <2>2. SelectInSeq(d, LAMBDA x : x = "/") = 0
    BY <1>1, SelectedIndex DEF Plain
  <2>3. k = 0
    BY <2>1, <2>2 DEF k
  <2> QED BY <1>1, <1>3, <2>1, <2>3
<1>4. CASE n # <<>>
  <2>1. PICK r \in Str : r = Rel(n) /\ s = d \o (Root \o r)
    BY <1>2, <1>4, RenderedRel
  <2>2. k # 0 /\ SubSeq(s, 1, k - 1) = d /\ SubSeq(s, k + 1, Len(s)) = r
    BY <1>1, <2>1, FirstName DEF k
  <2> QED BY <1>1, <2>1, <2>2
<1> QED BY <1>3, <1>4

\* append_dir on such a cwd.
LEMMA AppendDirPath ==
  ASSUME NEW c \in Seq(Names), NEW d \in Names, cwd = Rendered(c)
  PROVE  AppendDir(d) = Rendered(Append(c, d))
<1>1. c \in Seq(Str) /\ d \in Str
  BY NamesPlain
<1>2. /\ Rendered(Append(c, d)) = Above(c) \o (Root \o d) /\ Above(c) \in Str
      /\ Root \o d \in Str
  BY <1>1, AboveAppend, SlashBefore
<1>3. CASE c = <<>>
  <2>1. cwd = Root /\ Above(c) = <<>>
    BY <1>3 DEF Rendered, Above
  <2>2. <<>> \o (Root \o d) = Root \o d
    BY <1>2, ConcatEmptySeq DEF Str
  <2> QED BY <1>2, <2>1, <2>2 DEF AppendDir
<1>4. CASE c # <<>>
  <2>1. cwd # Root /\ Above(c) = cwd
    BY <1>4, RenderedFacts DEF Above
  <2>2. (cwd \o Root) \o d = cwd \o (Root \o d)
    <3>1. cwd \in Seq(Chars) /\ Root \in Seq(Chars) /\ d \in Seq(Chars)
      BY <1>1, <1>2, <2>1, Singles DEF Str
    <3> QED BY ONLY <3>1, ConcatAssociative
  <2> QED BY <1>2, <2>1, <2>2 DEF AppendDir
<1> QED BY <1>3, <1>4

-----------------------------------------------------------------------------
(* What the conversion of rename looks for.                                *)

LEMMA FrontOfPath ==
  ASSUME NEW c \in Seq(Names), c # <<>>
  PROVE  \E d \in Names : c = Append(Front(c), d) /\ Front(c) \in Seq(Names)
<1>1. PICK n \in Nat : n = Len(c) /\ n # 0
  <2>1. Len(c) \in Nat \ {0}
    BY EmptySeq
  <2> QED BY <2>1
<1>2. SubSeq(c, 1, n) = SubSeq(c, 1, n - 1) \o <<c[n]>>
  <2>1. 1 \in 1 .. Len(c) /\ n \in 1 .. Len(c)
    BY <1>1
  <2> QED BY <2>1, SubSeqRecursiveSecond
<1>3. PICK d \in Names : d = c[n]
  BY <1>1, ElementOfSeq
<1>4. Front(c) \in Seq(Names) /\ Front(c) = SubSeq(c, 1, n - 1)
  <2>1. \A i \in 1 .. n - 1 : c[i] \in Names
    BY <1>1, ElementOfSeq
  <2>2. SubSeq(c, 1, n - 1) \in Seq(Names)
    BY <2>1, SubSeqProperties
  <2> QED BY <1>1, <2>2 DEF Front
<1>5. SubSeq(c, 1, n) = c
  BY <1>1, SubSeqFull
<1>6. c = Append(Front(c), d)
  BY <1>2, <1>3, <1>4, <1>5, AppendIsConcat
<1> QED BY <1>4, <1>6

\* Where strstr finds a pattern of three characters, they are.
LEMMA FoundThere ==
  ASSUME NEW s \in Str, NEW x \in Chars, NEW y \in Chars, NEW z \in Chars,
         Occurs(<<x, y, z>>, s)
  PROVE  LET i == Strstr(s, <<x, y, z>>) IN
         i \in 1 .. Len(s) /\ i + 2 <= Len(s) /\ s[i] = x /\ s[i + 1] = y /\ s[i + 2] = z
<1>1. PICK N \in Nat : N = Len(s)
  BY LenProperties DEF Str
<1>2. PICK p : p = <<x, y, z>>
  OBVIOUS
<1>3. PICK R : R = {i \in 1 .. N : IsPrefix(p, SubSeq(s, i, N))}
  OBVIOUS
<1>4. \A i : i \in R <=> i \in 1 .. N /\ IsPrefix(p, SubSeq(s, i, N))
  BY <1>3, Zenon
<1>5. PICK k \in R : \A j \in R : ~(j < k)
  <2>1. R # {}
    BY <1>1, <1>2, <1>4 DEF Occurs
  <2>2. R \in SUBSET Nat
    BY <1>4
  <2>3. \E i \in R : \A j \in R : ~(<<j, i>> \in OpToRel(<, Nat))
    BY <2>1, <2>2, NatLessThanWellFounded, WFMin
  <2> QED BY <2>2, <2>3 DEF OpToRel
<1>6. PICK i : i = Strstr(s, p)
  OBVIOUS
<1>7. i \in 1 .. N /\ IsPrefix(p, SubSeq(s, i, N))
  <2>1. k \in 1 .. N /\ IsPrefix(p, SubSeq(s, k, N))
    BY <1>4, <1>5
  <2>2. \A j \in 1 .. k - 1 : ~IsPrefix(p, SubSeq(s, j, N))
    <3>1. \A j \in 1 .. k - 1 : j \in 1 .. N /\ j < k
      BY <2>1
    <3> QED BY <1>4, <1>5, <3>1
  <2>3. \E j \in 1 .. N : /\ IsPrefix(p, SubSeq(s, j, N))
                          /\ \A l \in 1 .. j - 1 : ~IsPrefix(p, SubSeq(s, l, N))
    BY <2>1, <2>2
  <2>4. i = CHOOSE j \in 1 .. N : /\ IsPrefix(p, SubSeq(s, j, N))
                                  /\ \A l \in 1 .. j - 1 : ~IsPrefix(p, SubSeq(s, l, N))
    BY <1>1, <1>6 DEF Strstr
  <2> QED BY <2>3, <2>4, Zenon
<1>8. PICK t : t = SubSeq(s, i, N)
  OBVIOUS
<1>9. /\ t \in Str /\ Len(t) = N - i + 1
      /\ \A j \in 1 .. N - i + 1 : t[j] = s[i + j - 1]
  <2>1. i \in Int /\ N \in Int /\ i <= N
    BY <1>7
  <2>2. \A j \in i .. N : s[j] \in Chars
    BY <1>1, <1>7, ElementOfSeq DEF Str
  <2> QED BY <1>8, <2>1, <2>2, SubSeqProperties DEF Str
<1>10. p \in Seq(Chars) /\ Len(p) = 3 /\ p[1] = x /\ p[2] = y /\ p[3] = z
  BY <1>2
<1>11. 3 <= N - i + 1 /\ SubSeq(p, 1, 3) = SubSeq(t, 1, 3)
  BY <1>7, <1>8, <1>9, <1>10 DEF IsPrefix
<1>12. \A j \in 1 .. 3 : p[j] = t[j]
  <2>1. SubSeq(p, 1, 3) = p
    BY <1>10, SubSeqFull
  <2>2. \A j \in 1 .. 3 : t[j] \in Chars
    <3>1. \A j \in 1 .. 3 : j \in 1 .. Len(t)
      BY <1>7, <1>9, <1>11
    <3> QED BY <1>9, <3>1, ElementOfSeq DEF Str
  <2>3. \A j \in 1 .. 3 - 1 + 1 : SubSeq(t, 1, 3)[j] = t[1 + j - 1]
    BY <2>2, SubSeqProperties
  <2>4. \A j \in 1 .. 3 : j \in 1 .. 3 - 1 + 1 /\ 1 + j - 1 = j
    OBVIOUS
  <2> QED BY <1>11, <2>1, <2>3, <2>4
<1>13. /\ t[1] = s[i] /\ t[2] = s[i + 1] /\ t[3] = s[i + 2]
       /\ i + 2 <= N
  <2>1. /\ 1 \in 1 .. N - i + 1 /\ 2 \in 1 .. N - i + 1 /\ 3 \in 1 .. N - i + 1
        /\ i + 1 - 1 = i /\ i + 2 - 1 = i + 1 /\ i + 3 - 1 = i + 2 /\ i + 2 <= N
    BY <1>7, <1>11
  <2> QED BY <1>9, <2>1
<1>14. x = t[1] /\ y = t[2] /\ z = t[3]
  <2>1. 1 \in 1 .. 3 /\ 2 \in 1 .. 3 /\ 3 \in 1 .. 3
    OBVIOUS
  <2> QED BY <1>10, <1>12, <2>1
<1> QED BY <1>1, <1>2, <1>6, <1>7, <1>13, <1>14

\* No path ends in "/..".
LEMMA NoParentAtEnd ==
  ASSUME NEW c \in Seq(Names), NEW s, s = Rendered(c), NEW i \in Nat, i # 0,
         i + 2 = Len(s), s[i] = "/", s[i + 1] = ".", s[i + 2] = "."
  PROVE  FALSE
<1>1. CASE c = <<>>
  <2>1. Len(s) = 1
    BY <1>1, Singles DEF Rendered
  <2> QED BY <2>1
<1>2. CASE c # <<>>
  <2>1. PICK b \in Seq(Names), d \in Names : c = Append(b, d)
    BY <1>2, FrontOfPath
  <2>2. PICK a \in Str : a = Above(b) /\ s = a \o (Root \o d) /\ d \in Str /\ Plain(d)
    <3>1. b \in Seq(Str) /\ d \in Str /\ Plain(d)
      BY NamesPlain
    <3> QED BY <2>1, <3>1, AboveAppend
  <2>3. PICK n \in Nat, m \in Nat : n = Len(a) /\ m = Len(d) /\ m # 0
    <3>1. Len(a) \in Nat /\ Len(d) \in Nat \ {0}
      BY <2>2, LenProperties, EmptySeq DEF Str, Plain
    <3> QED BY <3>1
  <2>4. /\ Len(s) = n + (m + 1) /\ s[n + 1] = "/"
        /\ \A j \in 1 .. m : s[n + 1 + j] = d[j]
    BY ONLY <2>2, <2>3, Joint
  <2>5. \A j \in 1 .. m : d[j] # "/"
    BY <2>2, <2>3 DEF Plain
  <2>6. "." # "/"
    OBVIOUS
  <2>7. CASE m = 1
    <3>1. i + 1 = n + 1
      BY <2>4, <2>7
    <3> QED BY <2>4, <2>6, <3>1
  <2>8. CASE m = 2
    <3>1. i + 1 = n + 1 + 1 /\ i + 2 = n + 1 + 2 /\ 1 \in 1 .. m /\ 2 \in 1 .. m
      BY <2>4, <2>8
    <3>2. d[1] = "." /\ d[2] = "."
      BY <2>4, <3>1
    <3>3. PICK e : e = <<".", ".">>
      OBVIOUS
    <3>4. e \in Seq(Chars) /\ Len(e) = 2 /\ e[1] = "." /\ e[2] = "."
      <4>1. "." \in Chars
        BY PathAssumption
      <4> QED BY <3>3, <4>1
    <3>5. \A j \in 1 .. 2 : e[j] = d[j]
      BY <3>2, <3>4
    <3>6. e = d
      BY <2>2, <2>3, <2>8, <3>4, <3>5, SeqEqual DEF Str
    <3> QED BY <3>3, <3>6, NamesPlain
  <2>9. CASE m # 1 /\ m # 2
    <3>1. m - 2 \in 1 .. m
      BY <2>3, <2>9
    <3>2. PICK j \in 1 .. m : j = m - 2
      BY <3>1
    <3>3. n + 1 + j = i
      BY <2>4, <3>2
    <3> QED BY <2>4, <2>5, <3>3
  <2> QED BY <2>7, <2>8, <2>9
<1> QED BY <1>1, <1>2

-----------------------------------------------------------------------------
(* The inductive invariant.                                                *)

\* A string is a path, or what is left of one behind a slash.
IsPath(s) == Split(s) \in Seq(Names) /\ s = Rendered(Split(s))
IsRest(s) == Split(s) \in Seq(Names) /\ s = Rel(Split(s))

\* What a handler gives to adfimage_chdir for path p.
DirString(k, p) ==
  IF k = "list" THEN Rendered(p)
  ELSE IF k = "rename" THEN Rendered(Front(Front(p)))
  ELSE IF k = "absolute" THEN Rendered(Front(p))
  ELSE IF Front(p) = <<>> THEN <<".">> ELSE Rel(Front(p))

\* The string at each step.  The conversion of rename finds nothing to convert
\* that it would ever finish with: it shifts for ever, or leaves the string.
StringByStep ==
  /\ pc \in {"parents", "last", "lookup"} =>
       kind = "rename" /\ str = Rendered(Front(path))
  /\ pc = "shift" =>
       kind = "rename" /\ str \in Str /\ at \in Nat /\ at # 0 /\ at < Len(str)
  /\ pc = "chdir" => str = IF back THEN saved ELSE DirString(kind, path)
  /\ pc = "chdir" /\ kind = "rename" /\ ~back => Front(path) # <<>>
  /\ pc = "walk" => IsRest(str)

PathInv ==
  /\ IsPath(cwd) /\ IsPath(saved)
  /\ pc \in {"idle", "parents", "shift", "last", "lookup", "chdir", "walk"}
  /\ path \in Seq(Names) /\ back \in BOOLEAN
  /\ pc = "idle" => kind = "none" /\ path = <<>> /\ saved = Root
  /\ pc # "idle" => kind \in Kinds /\ path \in Paths /\ (path = <<>> => kind = "list")
  /\ pc \notin {"chdir", "walk"} => back = FALSE
  /\ StringByStep

LEMMA PathsOfNames ==
  /\ \A c \in Seq(Names) : IsPath(Rendered(c)) /\ IsRest(Rel(c))
  /\ IsPath(Root) /\ Split(Root) = <<>> /\ IsRest(<<>>) /\ Split(<<>>) = <<>>
  /\ <<>> \in Seq(Names)
<1>1. \A c \in Seq(Names) : IsPath(Rendered(c)) /\ IsRest(Rel(c))
  BY SplitRendered, RenderedFacts DEF IsPath, IsRest
<1>2. <<>> \in Seq(Names) /\ Rendered(<<>>) = Root /\ Rel(<<>>) = <<>>
  BY EmptySeq DEF Rendered, Rel
<1>3. Split(Root) = <<>> /\ Split(<<>>) = <<>>
  BY <1>2, SplitRendered, RenderedFacts
<1> QED BY <1>1, <1>2, <1>3

LEMMA PathInit == Init => PathInv
<1> SUFFICES ASSUME Init PROVE PathInv
  OBVIOUS
<1>1. /\ pc = "idle" /\ kind = "none" /\ path = <<>> /\ cwd = Root /\ saved = Root
      /\ back = FALSE
  BY DEF Init
<1>2. StringByStep
  BY <1>1 DEF StringByStep
<1> QED BY <1>1, <1>2, PathsOfNames DEF PathInv

\* Between requests.
LEMMA GoneKeeps ==
  ASSUME PathInv, Gone, UNCHANGED cwd
  PROVE  PathInv'
<1>1. /\ pc' = "idle" /\ kind' = "none" /\ path' = <<>> /\ saved' = Root /\ cwd' = cwd
      /\ back' = FALSE
  BY DEF Gone
<1>2. IsPath(cwd') /\ IsPath(saved') /\ path' \in Seq(Names)
  BY <1>1, PathsOfNames DEF PathInv
<1>3. StringByStep'
  BY <1>1 DEF StringByStep
<1> QED BY <1>1, <1>2, <1>3 DEF PathInv, IsPath

LEMMA RequestKeeps ==
  ASSUME PathInv, Request
  PROVE  PathInv'
<1>1. PICK k \in Kinds, p \in Paths :
        /\ pc = "idle" /\ (p = <<>> => k = "list") /\ kind' = k /\ path' = p
        /\ str' = LET s == Rendered(p) IN
                  IF k = "list" THEN s ELSE Dirname(IF k = "relative" THEN Relative(s) ELSE s)
        /\ pc' = IF k = "rename" THEN "parents" ELSE "chdir"
        /\ cwd' = cwd /\ saved' = saved /\ back' = back
  BY Zenon DEF Request
<1>2. k \in AllKinds /\ p \in Seq(Names)
  BY PathAssumption
<1>3. back = FALSE /\ IsPath(cwd) /\ IsPath(saved)
  BY <1>1 DEF PathInv
<1>4. CASE k = "list"
  <2>1. str' = DirString(k, p) /\ pc' = "chdir"
    BY <1>1, <1>4 DEF DirString
  <2>2. StringByStep'
    BY <1>1, <1>3, <1>4, <2>1 DEF StringByStep
  <2> QED BY <1>1, <1>2, <1>3, <2>1, <2>2 DEF PathInv, IsPath
<1>5. CASE k # "list"
  <2>1. PICK c \in Seq(Names), d \in Names : p = Append(c, d) /\ c = Front(p)
    BY <1>1, <1>2, <1>5, FrontOfPath
  <2>2. CASE k = "rename"
    <3>1. str' = Rendered(Front(p)) /\ pc' = "parents"
      BY <1>1, <2>1, <2>2, DirnamePath
    <3>2. StringByStep'
      BY <1>1, <2>2, <3>1 DEF StringByStep
    <3> QED BY <1>1, <1>2, <1>3, <3>1, <3>2 DEF PathInv, IsPath
  <2>3. CASE k # "rename"
    <3>1. str' = DirString(k, p) /\ pc' = "chdir"
      <4>1. CASE k = "absolute"
        BY <1>1, <2>1, <4>1, DirnamePath DEF DirString
      <4>2. CASE k = "relative"
        <5>1. Relative(Rendered(p)) = Rel(p)
          BY <1>2, RelativePath
        <5>2. Dirname(Rel(p)) = IF c = <<>> THEN <<".">> ELSE Rel(c)
          BY <2>1, DirnamePath
        <5> QED BY <1>1, <2>1, <4>2, <5>1, <5>2 DEF DirString
      <4> QED BY <1>2, <1>5, <2>3, <4>1, <4>2 DEF AllKinds
    <3>2. StringByStep'
      BY <1>1, <1>3, <2>3, <3>1 DEF StringByStep
    <3> QED BY <1>1, <1>2, <1>3, <1>5, <3>1, <3>2 DEF PathInv, IsPath
  <2> QED BY <2>2, <2>3
<1> QED BY <1>4, <1>5

\* What stays while rename converts its path.
LEMMA ConversionKeeps ==
  ASSUME PathInv, pc \in {"parents", "shift", "last", "lookup"},
         UNCHANGED <<kind, path, cwd, saved, back>>, StringByStep',
         pc' \in {"parents", "shift", "last", "lookup", "chdir"}
  PROVE  PathInv'
<1>1. kind' = kind /\ path' = path /\ cwd' = cwd /\ saved' = saved /\ back' = back
  OBVIOUS
<1>2. /\ IsPath(cwd) /\ IsPath(saved) /\ path \in Seq(Names) /\ back = FALSE
      /\ kind \in Kinds /\ path \in Paths /\ (path = <<>> => kind = "list")
  BY DEF PathInv
<1> QED BY <1>1, <1>2 DEF PathInv, IsPath

LEMMA ParentsKeeps ==
  ASSUME PathInv, Parents
  PROVE  PathInv'
<1>1. /\ pc = "parents" /\ UNCHANGED <<kind, path, cwd, saved, back>>
      /\ kind = "rename" /\ str = Rendered(Front(path)) /\ path \in Seq(Names)
      /\ path # <<>>
  BY DEF PathInv, StringByStep, Parents
<1>2. str \in Str
  BY <1>1, FrontOfPath, RenderedFacts
<1>3. CASE Occurs(<<".", ".", "/">>, str)
  <2>1. PICK i : /\ i = Strstr(str, <<".", ".", "/">>) /\ str' = [str EXCEPT ![i] = "/"]
                 /\ at' = i + 1 /\ pc' = "shift"
    BY <1>1, <1>3 DEF Parents
  <2>2. "." \in Chars /\ "/" \in Chars
    BY PathAssumption
  <2>3. i \in 1 .. Len(str) /\ i + 2 <= Len(str) /\ Len(str) \in Nat
    BY <1>2, <1>3, <2>1, <2>2, FoundThere, LenProperties DEF Str
  <2>4. str' \in Str /\ Len(str') = Len(str)
    BY <1>2, <2>1, <2>2, <2>3, ExceptSeq DEF Str
  <2>5. at' \in Nat /\ at' # 0 /\ at' < Len(str')
    BY <2>1, <2>3, <2>4
  <2>6. StringByStep'
    BY <1>1, <2>1, <2>4, <2>5 DEF StringByStep
  <2> QED BY <1>1, <2>1, <2>6, ConversionKeeps
<1>4. CASE ~Occurs(<<".", ".", "/">>, str)
  <2>1. pc' = "last" /\ str' = str
    BY <1>1, <1>4 DEF Parents
  <2>2. StringByStep'
    BY <1>1, <2>1 DEF StringByStep
  <2> QED BY <1>1, <2>1, <2>2, ConversionKeeps
<1> QED BY <1>3, <1>4

LEMMA ShiftKeeps ==
  ASSUME PathInv, Shift
  PROVE  PathInv' /\ pc' = "shift"
<1>1. /\ pc = "shift" /\ UNCHANGED <<kind, path, at, cwd, saved, back>>
      /\ str' = [str EXCEPT ![at] = str[at + 1]]
      /\ kind = "rename" /\ str \in Str /\ at \in Nat /\ at # 0 /\ at < Len(str)
      /\ pc' = "shift"
  BY DEF PathInv, StringByStep, Shift
<1>2. str' \in Str /\ Len(str') = Len(str)
  <2>1. Len(str) \in Nat
    BY <1>1, LenProperties DEF Str
  <2>2. at \in 1 .. Len(str) /\ at + 1 \in 1 .. Len(str)
    BY <1>1, <2>1
  <2>3. str[at + 1] \in Chars
    BY <1>1, <2>2, ElementOfSeq DEF Str
  <2> QED BY <1>1, <2>2, <2>3, ExceptSeq DEF Str
<1>3. StringByStep'
  BY <1>1, <1>2 DEF StringByStep
<1> QED BY <1>1, <1>3, ConversionKeeps

LEMMA LastParentKeeps ==
  ASSUME PathInv, LastParent
  PROVE  PathInv'
<1>1. /\ pc = "last" /\ UNCHANGED <<kind, path, cwd, saved, back>>
      /\ kind = "rename" /\ str = Rendered(Front(path)) /\ path \in Seq(Names)
      /\ path # <<>> /\ Front(path) \in Seq(Names) /\ pc' \in {"last", "lookup"}
  <2>1. /\ pc = "last" /\ UNCHANGED <<kind, path, cwd, saved, back>>
        /\ kind = "rename" /\ str = Rendered(Front(path)) /\ path \in Seq(Names)
        /\ path # <<>> /\ pc' \in {"last", "lookup"}
    BY DEF PathInv, StringByStep, LastParent
  <2> QED BY <2>1, FrontOfPath
<1>2. str' = str
  <2>1. CASE Occurs(Parent, str)
    <3>1. PICK i : /\ i = Strstr(str, Parent)
                   /\ str' = IF i + 2 = Len(str) THEN SubSeq(str, 1, i) \o Root ELSE str
      BY <1>1, <2>1 DEF LastParent
    <3>2. "." \in Chars /\ "/" \in Chars /\ str \in Str
      BY <1>1, PathAssumption, RenderedFacts
    <3>3. Parent = <<"/", ".", ".">>
      BY DEF Parent
    <3>4. /\ i \in 1 .. Len(str) /\ i + 2 <= Len(str) /\ str[i] = "/"
          /\ str[i + 1] = "." /\ str[i + 2] = "."
      BY <2>1, <3>1, <3>2, <3>3, FoundThere
    <3>5. i + 2 # Len(str)
      BY <1>1, <3>4, NoParentAtEnd
    <3> QED BY <3>1, <3>5
  <2>2. CASE ~Occurs(Parent, str)
    BY <1>1, <2>2 DEF LastParent
  <2> QED BY <2>1, <2>2
<1>3. StringByStep'
  BY <1>1, <1>2 DEF StringByStep
<1> QED BY <1>1, <1>3, ConversionKeeps

LEMMA LookupKeeps ==
  ASSUME PathInv, Lookup
  PROVE  /\ PathInv'
         /\ \/ Gone /\ cwd' = cwd /\ Front(path) = <<>>
            \/ pc' = "chdir" /\ UNCHANGED <<kind, path, cwd, saved, back>>
<1>1. /\ pc = "lookup" /\ kind = "rename" /\ str = Rendered(Front(path))
      /\ path \in Seq(Names) /\ path # <<>> /\ Front(path) \in Seq(Names) /\ back = FALSE
  <2>1. /\ pc = "lookup" /\ kind = "rename" /\ str = Rendered(Front(path))
        /\ path \in Seq(Names) /\ path # <<>> /\ back = FALSE
    BY DEF PathInv, StringByStep, Lookup
  <2> QED BY <2>1, FrontOfPath
<1>2. CASE str = Root
  <2>1. Gone /\ cwd' = cwd
    BY <1>2 DEF Lookup
  <2>2. Front(path) = <<>>
    BY <1>1, <1>2, RenderedFacts
  <2> QED BY <2>1, <2>2, GoneKeeps
<1>3. CASE str # Root
  <2>1. /\ pc' = "chdir" /\ str' = Dirname(str)
        /\ UNCHANGED <<kind, path, at, cwd, saved, back>>
    BY <1>3 DEF Lookup
  <2>2. Front(path) # <<>>
    BY <1>1, <1>3 DEF Rendered
  <2>3. str' = Rendered(Front(Front(path)))
    BY <1>1, <2>1, <2>2, FrontOfPath, DirnamePath
  <2>4. StringByStep'
    BY <1>1, <2>1, <2>2, <2>3 DEF StringByStep, DirString
  <2>5. PathInv'
    BY <1>1, <2>1, <2>4, ConversionKeeps
  <2> QED BY <2>1, <2>5
<1> QED BY <1>2, <1>3

-----------------------------------------------------------------------------
(* The walk.                                                               *)

\* The names of the directory a handler enters.
DirNames(k, p) ==
  IF k = "list" THEN p ELSE IF k = "rename" THEN Front(Front(p)) ELSE Front(p)

\* What adfimage_chdir makes of the path of c, from the root or from where it is.
LEMMA ChdirPath ==
  ASSUME NEW c \in Seq(Names), Chdir,
         \/ str = Rendered(c)
         \/ str = IF c = <<>> THEN <<".">> ELSE Rel(c)
  PROVE  /\ str' = Rel(c)
         /\ cwd' = IF str = Rendered(c) THEN Root ELSE cwd
<1>1. /\ cwd' = IF Head(str) = "/" THEN Root ELSE cwd
      /\ str' = LET s == Relative(str) IN IF s = <<".">> THEN <<>> ELSE s
  BY DEF Chdir
<1>2. CASE str = Rendered(c)
  <2>1. Head(str) = "/" /\ Relative(str) = Rel(c)
    BY <1>2, RenderedFacts, RelativePath
  <2> QED BY <1>1, <1>2, <2>1, DotIsNoPath
<1>3. CASE str # Rendered(c) /\ c # <<>>
  <2>1. str = Rel(c) /\ Rel(c) \in Str /\ Rel(c) # <<>> /\ Rel(c)[1] # "/"
    BY <1>3, RenderedFacts
  <2>2. Head(str) # "/"
    BY <2>1 DEF Str
  <2>3. Relative(str) = Rel(c)
    BY <2>1, RelativePath
  <2> QED BY <1>1, <1>3, <2>2, <2>3, DotIsNoPath
<1>4. CASE str # Rendered(c) /\ c = <<>>
  <2>1. PICK d \in Str : d = <<".">> /\ d[1] = "." /\ Len(d) = 1
    BY PathAssumption, Singles
  <2>2. "." # "/"
    OBVIOUS
  <2>3. str = d
    BY <1>4, <2>1
  <2>4. Relative(d) = d
    BY <2>1, <2>2, RelativeSlash
  <2>5. Head(d) = "."
    BY <2>1 DEF Str
  <2>6. Rel(c) = <<>>
    BY <1>4 DEF Rel
  <2> QED BY <1>1, <1>4, <2>1, <2>2, <2>3, <2>4, <2>5, <2>6
<1> QED BY <1>2, <1>3, <1>4

LEMMA ChdirKeeps ==
  ASSUME PathInv, Chdir
  PROVE  /\ PathInv'
         /\ Split(str') = IF back THEN Split(saved) ELSE DirNames(kind, path)
         /\ cwd' = IF ~back /\ kind = "relative" THEN cwd ELSE Root
         /\ saved' = IF back THEN saved ELSE cwd
<1>1. /\ pc = "chdir" /\ pc' = "walk" /\ UNCHANGED <<kind, path, at, back>>
      /\ saved' = IF back THEN saved ELSE cwd
      /\ str = IF back THEN saved ELSE DirString(kind, path)
      /\ back \in BOOLEAN /\ path \in Seq(Names) /\ kind \in Kinds /\ kind \in AllKinds
      /\ kind # "list" => path # <<>>
      /\ kind = "rename" /\ ~back => Front(path) # <<>>
      /\ IsPath(cwd) /\ IsPath(saved) /\ path \in Paths
  BY PathAssumption DEF PathInv, StringByStep, Chdir
<1>2. \E c \in Seq(Names) : /\ c = (IF back THEN Split(saved) ELSE DirNames(kind, path))
                            /\ IF ~back /\ kind = "relative"
                               THEN str = IF c = <<>> THEN <<".">> ELSE Rel(c)
                               ELSE str = Rendered(c)
  <2>1. CASE back
    BY <1>1, <2>1 DEF IsPath
  <2>2. CASE ~back /\ kind = "list"
    BY <1>1, <2>2 DEF DirNames, DirString
  <2>3. CASE ~back /\ kind = "rename"
    <3>1. Front(path) \in Seq(Names)
      BY <1>1, <2>3, FrontOfPath
    <3>2. Front(Front(path)) \in Seq(Names)
      BY <1>1, <2>3, <3>1, FrontOfPath
    <3> QED BY <1>1, <2>3, <3>2 DEF DirNames, DirString
  <2>4. CASE ~back /\ kind \in {"absolute", "relative"}
    <3>1. Front(path) \in Seq(Names)
      BY <1>1, <2>4, FrontOfPath
    <3>2. DirNames(kind, path) = Front(path)
      BY <2>4 DEF DirNames
    <3>3. kind = "absolute" => str = Rendered(Front(path))
      BY <1>1, <2>4 DEF DirString
    <3>4. kind = "relative" => str = IF Front(path) = <<>> THEN <<".">> ELSE Rel(Front(path))
      BY <1>1, <2>4 DEF DirString
    <3> QED BY <2>4, <3>1, <3>2, <3>3, <3>4
  <2> QED BY <1>1, <2>1, <2>2, <2>3, <2>4 DEF AllKinds
<1>3. PICK c \in Seq(Names) : /\ c = (IF back THEN Split(saved) ELSE DirNames(kind, path))
                              /\ IF ~back /\ kind = "relative"
                                 THEN str = IF c = <<>> THEN <<".">> ELSE Rel(c)
                                 ELSE str = Rendered(c)
  BY <1>2
<1>4. str' = Rel(c) /\ cwd' = IF str = Rendered(c) THEN Root ELSE cwd
  BY <1>3, ChdirPath
<1>5. ~back /\ kind = "relative" => str # Rendered(c)
  <2> SUFFICES ASSUME ~back, kind = "relative", str = Rendered(c) PROVE FALSE
    OBVIOUS
  <2>1. Head(str) = "/" /\ (Rel(c) = <<>> <=> c = <<>>) /\ Rel(c) \in Str
        /\ (Rel(c) = <<>> \/ Rel(c)[1] # "/")
    BY RenderedFacts
  <2>2. CASE c = <<>>
    <3>1. Head(<<".">>) = "." /\ "." # "/"
      OBVIOUS
    <3> QED BY <1>3, <2>1, <2>2, <3>1
  <2>3. CASE c # <<>>
    BY <1>3, <2>1, <2>3 DEF Str
  <2> QED BY <2>2, <2>3
<1>6. Split(str') = c /\ IsRest(str')
  BY <1>4, RenderedFacts DEF IsRest
<1>7. cwd' = IF ~back /\ kind = "relative" THEN cwd ELSE Root
  BY <1>3, <1>4, <1>5
<1>8. IsPath(cwd') /\ IsPath(saved')
  BY <1>1, <1>7, PathsOfNames
<1>9. StringByStep'
  BY <1>1, <1>6 DEF StringByStep, IsRest
<1>10. PathInv'
  BY <1>1, <1>8, <1>9 DEF PathInv, IsPath
<1> QED BY <1>1, <1>3, <1>6, <1>7, <1>10

\* A walk's step: what it does not touch.
LEMMA WalkKeeps ==
  ASSUME PathInv, pc = "walk", UNCHANGED <<pc, kind, path, saved, back>>,
         IsPath(cwd'), IsRest(str')
  PROVE  PathInv'
<1>1. /\ pc' = pc /\ kind' = kind /\ path' = path /\ saved' = saved /\ back' = back
      /\ IsPath(saved) /\ path \in Seq(Names) /\ back \in BOOLEAN
      /\ kind \in Kinds /\ path \in Paths /\ (path = <<>> => kind = "list")
  BY DEF PathInv
<1>2. StringByStep'
  BY <1>1 DEF StringByStep, IsRest
<1> QED BY <1>1, <1>2 DEF PathInv, IsPath

LEMMA EnterDirKeeps ==
  ASSUME PathInv, EnterDir
  PROVE  /\ PathInv' /\ Split(str) # <<>>
         /\ Split(str') = Tail(Split(str))
         /\ Split(cwd') = Append(Split(cwd), Head(Split(str)))
<1>1. /\ pc = "walk" /\ str # <<>> /\ UNCHANGED <<pc, kind, path, at, saved, back>>
      /\ IsRest(str) /\ IsPath(cwd)
  BY DEF PathInv, StringByStep, EnterDir
<1>2. PICK c \in Seq(Names), w \in Seq(Names) :
        c = Split(str) /\ str = Rel(c) /\ w = Split(cwd) /\ cwd = Rendered(w)
  BY <1>1 DEF IsRest, IsPath
<1>3. c # <<>>
  BY <1>1, <1>2 DEF Rel
<1>4. Head(c) \in Names /\ Tail(c) \in Seq(Names)
  BY <1>3, HeadTailProperties
<1>5. AppendDir(Head(c)) = Rendered(Append(w, Head(c))) /\ Append(w, Head(c)) \in Seq(Names)
  BY <1>2, <1>4, AppendDirPath, AppendProperties
<1>6. str' = Rel(Tail(c)) /\ cwd' = AppendDir(Head(c))
  <2>1. PICK k : k = SelectInSeq(str, LAMBDA x : x = "/")
    OBVIOUS
  <2>2. /\ cwd' = AppendDir(IF k = 0 THEN str ELSE SubSeq(str, 1, k - 1))
        /\ str' = IF k = 0 THEN <<>> ELSE SubSeq(str, k + 1, Len(str))
    BY <2>1 DEF EnterDir
  <2>3. IF k = 0 THEN str = Head(c) /\ Tail(c) = <<>>
        ELSE SubSeq(str, 1, k - 1) = Head(c) /\ SubSeq(str, k + 1, Len(str)) = Rel(Tail(c))
    BY <1>2, <1>3, <2>1, FirstOfPath
  <2>4. Rel(<<>>) = <<>>
    BY DEF Rel
  <2> QED BY <2>2, <2>3, <2>4
<1>7. Split(str') = Tail(c) /\ IsRest(str')
  BY <1>4, <1>6, RenderedFacts, PathsOfNames
<1>8. Split(cwd') = Append(w, Head(c)) /\ IsPath(cwd')
  BY <1>5, <1>6, SplitRendered, PathsOfNames
<1>9. PathInv'
  BY <1>1, <1>7, <1>8, WalkKeeps
<1> QED BY <1>2, <1>3, <1>7, <1>8, <1>9

LEMMA EnterFailsKeeps ==
  ASSUME PathInv, EnterFails
  PROVE  PathInv' /\ Split(str) # <<>> /\ Split(str') = <<>>
<1>1. /\ pc = "walk" /\ str # <<>> /\ str' = <<>> /\ cwd' = cwd
      /\ UNCHANGED <<pc, kind, path, saved, back>> /\ IsRest(str) /\ IsPath(cwd)
  BY DEF PathInv, StringByStep, EnterFails
<1>2. Split(str) # <<>>
  BY <1>1 DEF IsRest, Rel
<1>3. PathInv'
  BY <1>1, PathsOfNames, WalkKeeps
<1> QED BY <1>1, <1>2, <1>3, PathsOfNames

LEMMA WalkBackKeeps ==
  ASSUME PathInv, WalkBack
  PROVE  PathInv'
<1>1. /\ pc = "walk" /\ str' = saved /\ back' = TRUE /\ pc' = "chdir"
      /\ UNCHANGED <<kind, path, at, cwd, saved>>
      /\ IsPath(cwd) /\ IsPath(saved) /\ path \in Seq(Names)
      /\ kind \in Kinds /\ path \in Paths /\ (path = <<>> => kind = "list")
  BY DEF PathInv, WalkBack
<1>2. StringByStep'
  BY <1>1 DEF StringByStep
<1> QED BY <1>1, <1>2 DEF PathInv, IsPath

LEMMA ReturnKeeps ==
  ASSUME PathInv, Return
  PROVE  PathInv' /\ pc = "walk" /\ Split(str) = <<>> /\ Gone /\ cwd' = cwd
<1>1. pc = "walk" /\ str = <<>> /\ Gone /\ cwd' = cwd
  BY DEF Return
<1> QED BY <1>1, GoneKeeps, PathsOfNames

\* No step, of a handler or of the kernel's, breaks the invariant.
LEMMA PathStep ==
  ASSUME PathInv, [Next]_vars
  PROVE  PathInv'
<1>1. CASE Request
  BY <1>1, RequestKeeps
<1>2. CASE Parents
  BY <1>2, ParentsKeeps
<1>3. CASE Shift
  BY <1>3, ShiftKeeps
<1>4. CASE LastParent
  BY <1>4, LastParentKeeps
<1>5. CASE Lookup
  BY <1>5, LookupKeeps
<1>6. CASE Chdir
  BY <1>6, ChdirKeeps
<1>7. CASE EnterDir
  BY <1>7, EnterDirKeeps
<1>8. CASE EnterFails
  BY <1>8, EnterFailsKeeps
<1>9. CASE WalkBack
  BY <1>9, WalkBackKeeps
<1>10. CASE Return
  BY <1>10, ReturnKeeps
<1>11. CASE UNCHANGED vars
  BY <1>11 DEF vars, PathInv, StringByStep, IsPath, IsRest
<1> QED BY <1>1, <1>2, <1>3, <1>4, <1>5, <1>6, <1>7, <1>8, <1>9, <1>10, <1>11
        DEF Next, Handler

\* At every step of every handler, the string is the path of the names still to
\* enter, or of the directory to enter, and cwd a path (append_dir,
\* adfimage.c:1038): whatever the paths are and however long.
THEOREM PathInvariant == Spec => []PathInv
<1>1. Init => PathInv
  BY PathInit
<1>2. PathInv /\ [Next]_vars => PathInv'
  BY PathStep
<1> QED BY <1>1, <1>2, PTL DEF Spec

\* What append_dir makes of cwd (adfimage.c:1038), adfimage_chdir can walk again.
THEOREM CwdIsPath == Spec => []CwdRendered
<1>1. PathInv => CwdRendered
  BY DEF PathInv, IsPath, CwdRendered
<1> QED BY <1>1, PathInvariant, PTL

-----------------------------------------------------------------------------
(* The strings implement the names.                                        *)

\* The refinement mapping, by step of the handler.
Phase == CASE pc = "idle" -> "idle"
           [] pc = "walk" -> IF back THEN "back" ELSE "enter"
           [] pc = "chdir" /\ back -> "enter"
           [] OTHER -> "begun"

Todo == IF pc = "walk" THEN Split(str) ELSE <<>>

LEMMA PhaseByStep ==
  /\ pc = "idle" => Phase = "idle"
  /\ pc = "walk" => Phase = IF back THEN "back" ELSE "enter"
  /\ pc = "chdir" => Phase = IF back THEN "enter" ELSE "begun"
  /\ pc \in {"parents", "shift", "last", "lookup"} => Phase = "begun"
  /\ Todo = IF pc = "walk" THEN Split(str) ELSE <<>>
BY DEF Phase, Todo

LEMMA PhaseAfter ==
  /\ pc' = "idle" => Phase' = "idle"
  /\ pc' = "walk" => Phase' = IF back' THEN "back" ELSE "enter"
  /\ pc' = "chdir" => Phase' = IF back' THEN "enter" ELSE "begun"
  /\ pc' \in {"parents", "shift", "last", "lookup"} => Phase' = "begun"
  /\ Todo' = IF pc' = "walk" THEN Split(str') ELSE <<>>
BY DEF Phase, Todo

LEMMA MappedInit == Init => ByName!Init
BY PathsOfNames DEF Init, ByName!Init

\* A step that module PathNames does not see.
LEMMA MappedStutter ==
  ASSUME Phase' = Phase, Todo' = Todo, UNCHANGED <<kind, path, cwd, saved>>
  PROVE  UNCHANGED ByName!vars
BY DEF Phase, Todo, ByName!vars

LEMMA MappedConversion ==
  ASSUME PathInv, Parents \/ Shift \/ LastParent
  PROVE  UNCHANGED ByName!vars
<1>1. /\ pc \in {"parents", "shift", "last", "lookup"}
      /\ pc' \in {"parents", "shift", "last", "lookup"}
      /\ UNCHANGED <<kind, path, cwd, saved>>
  <2>1. CASE Parents
    BY <2>1 DEF Parents
  <2>2. CASE Shift
    BY <2>2 DEF Shift
  <2>3. CASE LastParent
    BY <2>3 DEF LastParent
  <2> QED BY <2>1, <2>2, <2>3
<1> QED BY <1>1, PhaseByStep, PhaseAfter, MappedStutter

LEMMA MappedRequest ==
  ASSUME PathInv, Request
  PROVE  ByName!Begin
<1>1. /\ pc = "idle" /\ pc' \in {"parents", "chdir"} /\ back' = back /\ back = FALSE
      /\ kind' \in Kinds /\ path' \in Paths /\ cwd' = cwd /\ saved' = saved
  BY DEF Request, PathInv
<1>2. Phase = "idle" /\ Phase' = "begun" /\ Todo = <<>> /\ Todo' = <<>>
  BY <1>1, PhaseByStep, PhaseAfter
<1> QED BY <1>1, <1>2 DEF Phase, Todo, ByName!Begin

LEMMA MappedGone ==
  ASSUME Gone, cwd' = cwd, Todo = <<>>,
         \/ Phase \in {"enter", "back"}
         \/ Phase = "begun" /\ kind = "rename" /\ Len(path) = 1
  PROVE  ByName!End
<1>1. pc' = "idle" /\ kind' = "none" /\ path' = <<>> /\ saved' = Root
  BY DEF Gone
<1>2. Phase' = "idle" /\ Todo' = <<>> /\ Split(saved') = <<>>
  BY <1>1, PhaseAfter, PathsOfNames
<1> QED BY <1>1, <1>2 DEF Phase, Todo, ByName!End

\* The directory of a name in the root is the root, which is no entry.
LEMMA MappedLookup ==
  ASSUME PathInv, Lookup
  PROVE  ByName!End \/ UNCHANGED ByName!vars
<1>1. pc = "lookup" /\ kind = "rename" /\ path \in Seq(Names) /\ path # <<>> /\ back = FALSE
  BY DEF PathInv, StringByStep, Lookup
<1>2. Phase = "begun" /\ Todo = <<>>
  BY <1>1, PhaseByStep
<1>3. CASE Gone /\ cwd' = cwd /\ Front(path) = <<>>
  <2>1. PICK d \in Names : path = Append(<<>>, d)
    BY <1>1, <1>3, FrontOfPath
  <2>2. Len(path) = 1
    <3>1. <<>> \in Seq(Names) /\ Len(<<>>) = 0
      BY EmptySeq
    <3> QED BY <2>1, <3>1, AppendProperties
  <2> QED BY <1>1, <1>2, <1>3, <2>2, MappedGone
<1>4. CASE pc' = "chdir" /\ UNCHANGED <<kind, path, cwd, saved, back>>
  BY <1>1, <1>2, <1>4, PhaseAfter, MappedStutter
<1> QED BY <1>3, <1>4, LookupKeeps

LEMMA MappedChdir ==
  ASSUME PathInv, Chdir
  PROVE  ByName!Enter \/ ByName!Back
<1>1. /\ pc = "chdir" /\ pc' = "walk" /\ kind' = kind /\ path' = path /\ back' = back
      /\ back \in BOOLEAN
  BY DEF PathInv, Chdir
<1>2. /\ Todo = <<>> /\ Todo' = Split(str')
      /\ Phase = IF back THEN "enter" ELSE "begun"
      /\ Phase' = IF back THEN "back" ELSE "enter"
  BY <1>1, PhaseByStep, PhaseAfter
<1>3. /\ Split(str') = IF back THEN Split(saved) ELSE DirNames(kind, path)
      /\ cwd' = IF ~back /\ kind = "relative" THEN cwd ELSE Root
      /\ saved' = IF back THEN saved ELSE cwd
  BY ChdirKeeps
<1>4. DirNames(kind, path) = ByName!Directory(kind, path)
  BY DEF DirNames, ByName!Directory, Front, ByName!Front
<1>5. CASE back
  BY <1>1, <1>2, <1>3, <1>5, PathsOfNames DEF Phase, Todo, ByName!Back
<1>6. CASE ~back
  BY <1>1, <1>2, <1>3, <1>4, <1>6, PathsOfNames DEF Phase, Todo, ByName!Enter
<1> QED BY <1>5, <1>6

LEMMA MappedWalk ==
  ASSUME PathInv, EnterDir \/ EnterFails \/ WalkBack \/ Return
  PROVE  ByName!Next \/ UNCHANGED ByName!vars
<1>1. CASE EnterDir
  <2>1. pc = "walk" /\ UNCHANGED <<pc, kind, path, at, saved, back>> /\ back \in BOOLEAN
    BY <1>1 DEF PathInv, EnterDir
  <2>2. /\ Phase \in {"enter", "back"} /\ Phase' = Phase
        /\ Todo = Split(str) /\ Todo' = Split(str')
    BY <2>1, PhaseByStep, PhaseAfter
  <2>3. /\ Todo # <<>> /\ Todo' = Tail(Todo)
        /\ Split(cwd') = Append(Split(cwd), Head(Todo))
    BY <1>1, <2>2, EnterDirKeeps
  <2>4. ByName!ChangeDir
    BY <2>1, <2>2, <2>3 DEF Phase, Todo, ByName!ChangeDir
  <2> QED BY <2>4 DEF ByName!Next
<1>2. CASE EnterFails
  <2>1. pc = "walk" /\ UNCHANGED <<pc, kind, path, at, cwd, saved, back>>
    BY <1>2 DEF EnterFails
  <2>2. Phase' = Phase /\ Todo # <<>> /\ Todo' = <<>>
    BY <1>2, <2>1, PhaseByStep, PhaseAfter, EnterFailsKeeps
  <2>3. ByName!Stop
    BY <2>1, <2>2 DEF Phase, Todo, ByName!Stop
  <2> QED BY <2>3 DEF ByName!Next
<1>3. CASE WalkBack
  <2>1. /\ pc = "walk" /\ str = <<>> /\ back = FALSE /\ pc' = "chdir" /\ back' = TRUE
        /\ UNCHANGED <<kind, path, cwd, saved>>
    BY <1>3 DEF PathInv, WalkBack
  <2>2. Phase' = Phase /\ Todo' = Todo
    BY <2>1, PhaseByStep, PhaseAfter, PathsOfNames
  <2> QED BY <2>1, <2>2, MappedStutter
<1>4. CASE Return
  <2>1. pc = "walk" /\ Split(str) = <<>> /\ Gone /\ cwd' = cwd /\ back \in BOOLEAN
    BY <1>4, ReturnKeeps DEF PathInv
  <2>2. Phase \in {"enter", "back"} /\ Todo = <<>>
    BY <2>1, PhaseByStep
  <2>3. ByName!End
    BY <2>1, <2>2, MappedGone
  <2> QED BY <2>3 DEF ByName!Next
<1> QED BY <1>1, <1>2, <1>3, <1>4

LEMMA MappedStep ==
  ASSUME PathInv, [Next]_vars
  PROVE  [ByName!Next]_ByName!vars
<1>1. CASE Request
  BY <1>1, MappedRequest DEF ByName!Next
<1>2. CASE Parents \/ Shift \/ LastParent
  BY <1>2, MappedConversion
<1>3. CASE Lookup
  BY <1>3, MappedLookup DEF ByName!Next
<1>4. CASE Chdir
  BY <1>4, MappedChdir DEF ByName!Next
<1>5. CASE EnterDir \/ EnterFails \/ WalkBack \/ Return
  BY <1>5, MappedWalk
<1>6. CASE UNCHANGED vars
  BY <1>6, MappedStutter DEF vars, Phase, Todo
<1> QED BY <1>1, <1>2, <1>3, <1>4, <1>5, <1>6 DEF Next, Handler

\* The slashes skipped, the names cut off at the next one, those append_dir puts
\* behind cwd and the way back to the copy of cwd (util.h:95,
\* adfimage.c:375-414) come to walks by names, whatever the paths are.
THEOREM StringsImplementNames == Spec => ImplementsPathNames
<1>1. Init => ByName!Init
  BY MappedInit
<1>2. PathInv /\ [Next]_vars => [ByName!Next]_ByName!vars
  BY MappedStep
<1> QED BY <1>1, <1>2, PathInvariant, PTL DEF Spec, ImplementsPathNames, ByName!Spec

=============================================================================
