------------------------- MODULE FuseadfArgsProofs -------------------------
(***************************************************************************)
(* The vector of arguments stays in order while parse_args edits it behind *)
(* getopt's back: for any command lines, and whatever numbers are read.    *)
(* A plain line reaches FUSE with its own words in their order, is noted   *)
(* word for word, and is refused only for cause.                           *)
(***************************************************************************)
EXTENDS FuseadfArgs, WellFoundedInduction, FiniteSetTheorems, TLAPS

\* Where getopt is, as an index into argv: never behind the last word, and
\* inside the vector while it is in a word; what it skipped lies in order.
GetoptInside ==
  /\ optind \in Nat /\ optind <= argc
  /\ rest # NoWord => optind < argc
  /\ skipped[1] \in Nat /\ skipped[2] \in Nat /\ skipped[1] <= skipped[2]

\* The room main has: the line, the name of the program, and one slot more.
Room ==
  /\ line \in Lines /\ argc \in Nat
  /\ DOMAIN argv = 0 .. Len(line) + 1
  /\ argc <= Len(line) + 1
  /\ pc = "parsed" => argc <= Len(line)

ArgsInv == Room /\ Terminated /\ (pc = "parse" => GetoptInside)

-----------------------------------------------------------------------------
(* What getopt returns.                                                    *)

\* A vector of a words and NULL behind them.
Ends(a, n) == \A i \in DOMAIN a : a[i] = NULL <=> i \notin 0 .. n - 1

\* A state of getopt that is inside a vector of argc words.
Inside(a, o, sk) ==
  /\ DOMAIN a = DOMAIN argv /\ Ends(a, argc)
  /\ o \in Nat /\ o <= argc
  /\ sk[1] \in Nat /\ sk[2] \in Nat /\ sk[1] <= sk[2]

\* A set of numbers that is not empty has a least one.
LEMMA LeastIndex ==
  ASSUME NEW S \in SUBSET Nat, S # {}
  PROVE  \E i \in S : \A j \in S : ~(j < i)
<1>1. \E i \in S : \A j \in S : ~(<<j, i>> \in OpToRel(<, Nat))
  BY NatLessThanWellFounded, WFMin
<1> QED BY <1>1 DEF OpToRel

\* From any index up to argc, getopt finds an option or the end.
LEMMA NextOption ==
  ASSUME NEW a, argc \in Nat, NEW o \in 0 .. argc
  PROVE  \E i \in o .. argc : /\ i = argc \/ a[i].opts # <<>>
                              /\ \A j \in o .. i - 1 : a[j].opts = <<>>
<1>1. PICK S : S = {i \in o .. argc : i = argc \/ a[i].opts # <<>>}
  OBVIOUS
<1>2. argc \in S /\ S \in SUBSET Nat
  BY <1>1
<1>3. PICK i \in S : \A j \in S : ~(j < i)
  BY <1>2, LeastIndex
<1>4. i \in o .. argc /\ (i = argc \/ a[i].opts # <<>>)
  BY <1>1, <1>3
<1>5. ASSUME NEW j \in o .. i - 1 PROVE a[j].opts = <<>>
  <2>1. j \in o .. argc /\ j # argc /\ j < i
    BY <1>4
  <2> QED BY <1>1, <1>3, <2>1
<1> QED BY <1>4, <1>5

\* Operands and options changing places stay among the words.
LEMMA ExchangedEnds ==
  ASSUME argc \in Nat, NEW a, Ends(a, argc), 0 .. argc \subseteq DOMAIN a,
         DOMAIN a \subseteq Nat,
         NEW f \in Nat, NEW l \in Nat, NEW o \in Nat, f <= l, l <= o, o <= argc
  PROVE  Ends(Exchanged(a, f, l, o), argc)
<1>1. SUFFICES ASSUME NEW i \in DOMAIN a
               PROVE  Exchanged(a, f, l, o)[i] = NULL <=> i \notin 0 .. argc - 1
  BY DEF Ends, Exchanged
<1>2. i \in Nat
  OBVIOUS
<1>3. CASE i \in f .. (f + o - l) - 1
  <2>1. i + l - f \in 0 .. argc - 1 /\ i + l - f \in DOMAIN a /\ i \in 0 .. argc - 1
    BY <1>2, <1>3
  <2> QED BY <1>3, <2>1 DEF Exchanged, Ends
<1>4. CASE i \notin f .. (f + o - l) - 1 /\ i \in f + o - l .. o - 1
  <2>1. (i + l) - o \in 0 .. argc - 1 /\ (i + l) - o \in DOMAIN a /\ i \in 0 .. argc - 1
    BY <1>2, <1>4
  <2> QED BY <1>4, <2>1 DEF Exchanged, Ends
<1>5. CASE i \notin f .. (f + o - l) - 1 /\ i \notin f + o - l .. o - 1
  BY <1>5 DEF Exchanged, Ends
<1> QED BY <1>3, <1>4, <1>5

\* The next word is one of the vector's, and what was passed lies before it.
LEMMA NextWordInside ==
  ASSUME argc \in Nat, 0 .. argc \subseteq DOMAIN argv, DOMAIN argv \subseteq Nat,
         Ends(argv, argc), NEW o \in Nat, o <= argc, NEW sk,
         sk[1] \in Nat, sk[2] \in Nat, sk[1] <= sk[2]
  PROVE  LET s == NextWord(o, sk) IN
         /\ Inside(s.argv, s.optind, s.skipped)
         /\ s.word # NoWord => s.optind < argc /\ s.optind >= o
<1> DEFINE f == Least(sk[1], o)
           l == Least(sk[2], o)
           moved == f # l /\ l # o
           start == IF moved THEN f + o - l ELSE IF l # o THEN o ELSE f
           a == IF moved THEN Exchanged(argv, f, l, o) ELSE argv
           next == CHOOSE i \in o .. argc :
                     /\ i = argc \/ a[i].opts # <<>>
                     /\ \A j \in o .. i - 1 : a[j].opts = <<>>
           to == IF next = argc /\ start # next THEN start ELSE next
           word == IF next = argc THEN NoWord ELSE a[next]
<1>1. f \in Nat /\ l \in Nat /\ f <= l /\ l <= o
  BY DEF Least
<1>2. start \in Nat /\ start <= o
  BY <1>1
<1>3. DOMAIN a = DOMAIN argv /\ Ends(a, argc)
  <2>1. CASE ~moved
    BY <2>1
  <2>2. CASE moved
    <3>1. Ends(Exchanged(argv, f, l, o), argc)
      <4> HIDE DEF f, l
      <4> QED BY <1>1, ExchangedEnds
    <3>2. DOMAIN Exchanged(argv, f, l, o) = DOMAIN argv
      BY DEF Exchanged
    <3> QED BY <2>2, <3>1, <3>2
  <2> QED BY <2>1, <2>2
<1>4. next \in o .. argc /\ (next = argc \/ a[next].opts # <<>>)
  <2> HIDE DEF a
  <2>1. o \in 0 .. argc
    OBVIOUS
  <2> QED BY <2>1, NextOption
<1> HIDE DEF next, start, a
<1>5. to \in Nat /\ to <= argc
  BY <1>2, <1>4
<1>6. Inside(a, to, <<start, next>>)
  BY <1>2, <1>3, <1>4, <1>5 DEF Inside
<1>7. word # NoWord => to < argc /\ to >= o
  BY <1>4
<1>8. NextWord(o, sk) =
        [argv |-> a, optind |-> to, skipped |-> <<start, next>>, word |-> word]
  BY DEF NextWord, next, start, a
<1> QED BY <1>6, <1>7, <1>8

\* Where getopt looks at a letter, it is inside a word, and behind argv[0].
LEMMA ScannedInside ==
  ASSUME ArgsInv, pc = "parse", argc >= 1
  PROVE  /\ Inside(Scanned.argv, Scanned.optind, Scanned.skipped)
         /\ Scanned.word # NoWord => Scanned.optind < argc /\ Scanned.optind >= 1
<1>1. /\ argc \in Nat /\ 0 .. argc \subseteq DOMAIN argv /\ DOMAIN argv \subseteq Nat
      /\ Ends(argv, argc)
  BY ArgsAssumption DEF ArgsInv, Room, Terminated, Ends, Given
<1>2. GetoptInside
  BY DEF ArgsInv
<1>3. CASE optind = 0
  BY <1>1, <1>3, NextWordInside DEF Scanned
<1>4. CASE optind # 0 /\ rest # NoWord
  BY <1>1, <1>2, <1>4 DEF Scanned, GetoptInside, Inside
<1>5. CASE optind # 0 /\ rest = NoWord
  <2>1. Scanned = NextWord(optind, skipped) /\ optind \in Nat /\ optind >= 1
    BY <1>2, <1>5 DEF Scanned, GetoptInside
  <2>2. LET s == NextWord(optind, skipped) IN
        /\ Inside(s.argv, s.optind, s.skipped)
        /\ s.word # NoWord => s.optind < argc /\ s.optind >= optind
    BY <1>1, <1>2, NextWordInside DEF GetoptInside
  <2> QED BY <1>1, <2>1, <2>2 DEF Inside
<1> QED BY <1>3, <1>4, <1>5

\* What getopt returns lies inside the vector; an option leaves behind it the
\* words parse_args drops for it.
Returned(g) ==
  /\ Inside(g.argv, g.optind, g.skipped)
  /\ g.opt = "p" \/ (g.opt = "l" /\ g.arg # "") => g.optind >= 2
  /\ g.opt \in {"l", "i", "h", "V"} => g.optind >= 1
  /\ g.rest # NoWord => g.optind < argc

\* A result made up of a state inside the vector and an index behind the words
\* of its option.
LEMMA ResultReturned ==
  ASSUME argc \in Nat, NEW s, Inside(s.argv, s.optind, s.skipped), NEW opt, NEW arg,
         NEW o \in Nat, o <= argc, NEW r, r # NoWord => o < argc,
         opt = "p" \/ (opt = "l" /\ arg # "") => o >= 2,
         opt \in {"l", "i", "h", "V"} => o >= 1
  PROVE  Returned([opt |-> opt, arg |-> arg, argv |-> s.argv, optind |-> o,
                   skipped |-> s.skipped, rest |-> r])
<1>1. Inside(s.argv, o, s.skipped)
  BY DEF Inside
<1> QED BY <1>1 DEF Returned

\* From a letter inside the vector getopt comes to a result inside the vector.
LEMMA TakenReturned ==
  ASSUME argc \in Nat, NEW s, Inside(s.argv, s.optind, s.skipped),
         s.word # NoWord => s.optind < argc /\ s.optind >= 1
  PROVE  Returned(Taken(s))
<1> DEFINE c == Head(s.word.opts)
           more == [opts |-> Tail(s.word.opts), arg |-> s.word.arg]
           after == IF more.opts = <<>> THEN s.optind + 1 ELSE s.optind
           at(opt, arg, o, r) == [opt |-> opt, arg |-> arg, argv |-> s.argv, optind |-> o,
                                  skipped |-> s.skipped, rest |-> r]
<1>1. CASE s.word = NoWord
  BY <1>1 DEF Taken, Returned
<1>2. CASE s.word # NoWord
  <2>1. s.optind \in Nat /\ s.optind < argc /\ s.optind >= 1
    BY <1>2 DEF Inside
  <2>2. /\ after \in Nat /\ after <= argc /\ after >= s.optind
        /\ more.opts # <<>> => after < argc
    <3> HIDE DEF more
    <3>1. after = s.optind \/ after = s.optind + 1
      OBVIOUS
    <3>2. more.opts # <<>> => after = s.optind
      OBVIOUS
    <3> QED BY <2>1, <3>1, <3>2
  <2>3. CASE c \in {"p", "o"} /\ s.word.arg = ""
    <3>1. CASE after >= argc
      <4>1. Taken(s) = at("?", "", after, NoWord)
        BY <1>2, <2>3, <3>1 DEF Taken
      <4> HIDE DEF after
      <4>2. Returned(at("?", "", after, NoWord))
        BY <2>2, ResultReturned
      <4> QED BY <4>1, <4>2
    <3>2. CASE ~(after >= argc)
      <4>1. Taken(s) = at(c, Text(s.argv[after]), after + 1, NoWord)
        BY <1>2, <2>3, <3>2 DEF Taken
      <4> HIDE DEF after, c
      <4>2. after + 1 \in Nat /\ after + 1 <= argc /\ after + 1 >= 2 /\ after + 1 >= 1
        BY <2>1, <2>2, <3>2
      <4>3. Returned(at(c, Text(s.argv[after]), after + 1, NoWord))
        <5>1. PICK o : o = after + 1
          OBVIOUS
        <5>2. Returned(at(c, Text(s.argv[after]), o, NoWord))
          BY <4>2, <5>1, ResultReturned
        <5> QED BY <5>1, <5>2
      <4> QED BY <4>1, <4>3
    <3> QED BY <3>1, <3>2
  <2>4. CASE ~(c \in {"p", "o"} /\ s.word.arg = "") /\ c \in {"p", "o", "l"}
    <3>1. Taken(s) = at(c, s.word.arg, s.optind + 1, NoWord)
      BY <1>2, <2>4 DEF Taken
    <3> HIDE DEF c
    <3>2. PICK o \in Nat : o = s.optind + 1 /\ o <= argc /\ o >= 2 /\ o >= 1
      BY <2>1
    <3>3. Returned(at(c, s.word.arg, s.optind + 1, NoWord))
      <4>1. Returned(at(c, s.word.arg, o, NoWord))
        BY <3>2, ResultReturned
      <4> QED BY <3>2, <4>1
    <3> QED BY <3>1, <3>3
  <2>5. CASE c \notin {"p", "o", "l"}
    <3>1. Taken(s) = at(c, "", after, IF more.opts = <<>> THEN NoWord ELSE more)
      BY <1>2, <2>5 DEF Taken
    <3> DEFINE r == IF more.opts = <<>> THEN NoWord ELSE more
    <3>2. r # NoWord => after < argc
      BY <2>2
    <3> HIDE DEF c, after, more, r
    <3>3. Returned(at(c, "", after, r))
      <4>1. /\ c = "p" \/ (c = "l" /\ "" # "") => after >= 2
            /\ c \in {"l", "i", "h", "V"} => after >= 1
        BY <2>1, <2>2, <2>5
      <4> QED BY <2>2, <3>2, <4>1, ResultReturned
    <3> QED BY <3>1, <3>3 DEF r
  <2> QED BY <2>3, <2>4, <2>5
<1> QED BY <1>1, <1>2

LEMMA GetoptReturned ==
  ASSUME ArgsInv, pc = "parse"
  PROVE  Returned(Getopt)
<1>1. argc \in Nat
  BY DEF ArgsInv, Room
<1>2. CASE argc < 1
  <2>1. Ends(argv, argc) /\ GetoptInside
    BY DEF ArgsInv, Terminated, Ends, Given
  <2> QED BY <1>1, <1>2, <2>1 DEF Getopt, Returned, Inside, GetoptInside
<1>3. CASE argc >= 1
  <2>1. Getopt = Taken(Scanned)
    <3>1. ~(argc < 1)
      BY <1>1, <1>3
    <3> QED BY <3>1, Zenon DEF Getopt
  <2>2. /\ Inside(Scanned.argv, Scanned.optind, Scanned.skipped)
        /\ Scanned.word # NoWord => Scanned.optind < argc /\ Scanned.optind >= 1
    BY <1>3, ScannedInside
  <2>3. Returned(Taken(Scanned))
    BY <1>1, <2>2, TakenReturned
  <2> QED BY <2>1, <2>3
<1> QED BY <1>1, <1>2, <1>3

-----------------------------------------------------------------------------
(* What parse_args makes of it.                                            *)

\* Dropping num words that are there leaves a vector of num words less.
LEMMA DropEnds ==
  ASSUME argc \in Nat, NEW a, Ends(a, argc), DOMAIN a \subseteq Nat,
         0 .. argc \subseteq DOMAIN a, NEW index \in Nat, NEW num \in Nat,
         index + num <= argc
  PROVE  Ends(DropArgs(a, index, num), argc - num)
<1>1. SUFFICES ASSUME NEW i \in DOMAIN a
               PROVE  DropArgs(a, index, num)[i] = NULL <=> i \notin 0 .. (argc - num) - 1
  BY DEF Ends, DropArgs
<1>2. i \in Nat /\ argc - num \in Nat
  OBVIOUS
<1>3. CASE i \in index .. (argc - num) - 1
  <2>1. i + num \in 0 .. argc - 1 /\ i + num \in DOMAIN a
    BY <1>2, <1>3
  <2> QED BY <1>2, <1>3, <2>1 DEF DropArgs, Ends
<1>4. CASE i \in argc - num .. argc - 1
  BY <1>2, <1>4 DEF DropArgs
<1>5. CASE i \notin index .. (argc - num) - 1 /\ i \notin argc - num .. argc - 1
  <2>1. i \in 0 .. argc - 1 <=> i \in 0 .. (argc - num) - 1
    BY <1>2, <1>5
  <2> QED BY <1>5, <2>1 DEF DropArgs, Ends
<1> QED BY <1>3, <1>4, <1>5

\* A turn of the loop that keeps every word.
LEMMA KeepStep ==
  ASSUME ArgsInv, pc = "parse", NEW g, Returned(g), Keep(g), pc' # "parsed"
  PROVE  ArgsInv'
<1>1. Room' /\ Terminated'
  BY DEF ArgsInv, Room, Terminated, Given, Returned, Inside, Ends, Keep
<1>2. GetoptInside'
  BY DEF Returned, Inside, GetoptInside, Keep
<1> QED BY <1>1, <1>2 DEF ArgsInv

\* A turn of the loop that drops the num words before getopt's.
LEMMA DropStep ==
  ASSUME ArgsInv, pc = "parse", NEW g, Returned(g), NEW num \in Nat, g.optind >= num,
         Drop(g, num), pc' # "parsed"
  PROVE  ArgsInv'
<1>1. /\ argc \in Nat /\ g.optind \in Nat /\ g.optind <= argc
      /\ g.optind - num \in Nat /\ argc - num \in Nat
  <2>1. argc \in Nat /\ g.optind \in Nat /\ g.optind <= argc
    BY DEF ArgsInv, Room, Returned, Inside
  <2> QED BY <2>1
<1>2. /\ Ends(g.argv, argc) /\ DOMAIN g.argv = 0 .. Len(line) + 1
      /\ Len(line) \in Nat /\ argc <= Len(line) + 1
  BY ArgsAssumption DEF ArgsInv, Room, Returned, Inside
<1>3. Ends(argv', argc') /\ argc' = argc - num
  <2>1. argv' = DropArgs(g.argv, g.optind - num, num) /\ argc' = argc - num
    BY DEF Drop
  <2>2. Ends(DropArgs(g.argv, g.optind - num, num), argc - num)
    <3>1. DOMAIN g.argv \subseteq Nat /\ 0 .. argc \subseteq DOMAIN g.argv
      BY <1>1, <1>2
    <3>2. PICK index \in Nat : index = g.optind - num
      BY <1>1
    <3>3. index + num <= argc
      BY <1>1, <3>2
    <3>4. Ends(DropArgs(g.argv, index, num), argc - num)
      <4>1. argc \in Nat BY <1>1
      <4>2. Ends(g.argv, argc) BY <1>2
      <4> QED BY ONLY <4>1, <4>2, <3>1, <3>3, num \in Nat, index \in Nat, DropEnds
    <3> QED BY ONLY <3>2, <3>4
  <2> QED BY <2>1, <2>2
<1>4. DOMAIN argv' = 0 .. Len(line) + 1 /\ line' = line
  BY <1>2 DEF Drop, DropArgs
<1>5. Room'
  BY <1>1, <1>2, <1>3, <1>4 DEF Room, ArgsInv
<1>6. Terminated'
  BY <1>1, <1>2, <1>3, <1>4 DEF Terminated, Given, Ends
<1>7. GetoptInside'
  <2>1. /\ skipped' = g.skipped /\ rest' = g.rest
        /\ optind' = g.optind - num /\ argc' = argc - num
    BY DEF Drop
  <2>2. /\ g.skipped[1] \in Nat /\ g.skipped[2] \in Nat
        /\ g.skipped[1] <= g.skipped[2] /\ (g.rest # NoWord => g.optind < argc)
    BY DEF Returned, Inside
  <2>3. optind' \in Nat /\ optind' <= argc' /\ (rest' # NoWord => optind' < argc')
    BY <1>1, <2>1, <2>2
  <2> QED BY <2>1, <2>2, <2>3 DEF GetoptInside
<1> QED BY <1>5, <1>6, <1>7 DEF ArgsInv

\* The last turn: the name of the image goes.
LEMMA OperandsStep ==
  ASSUME ArgsInv, pc = "parse", NEW g, Returned(g), Operands(g)
  PROVE  ArgsInv'
<1>1. CASE g.optind + 2 # argc
  BY <1>1, KeepStep DEF Operands, Becomes
<1>2. CASE g.optind + 2 = argc
  <2>1. argc \in Nat /\ argc >= 2 /\ argc - 2 \in Nat /\ argc - 1 \in Nat
    <3>1. argc \in Nat /\ g.optind \in Nat
      BY DEF ArgsInv, Room, Returned, Inside
    <3> QED BY <1>2, <3>1
  <2>2. /\ Ends(g.argv, argc) /\ DOMAIN g.argv = 0 .. Len(line) + 1
        /\ Len(line) \in Nat /\ argc <= Len(line) + 1
    BY ArgsAssumption DEF ArgsInv, Room, Returned, Inside
  <2>3. /\ argv' = DropArgs(g.argv, argc - 2, 1) /\ argc' = argc - 1
        /\ line' = line /\ pc' = "parsed"
    BY <1>2 DEF Operands
  <2>4. Ends(argv', argc')
    <3>1. Ends(DropArgs(g.argv, argc - 2, 1), argc - 1)
      BY <2>1, <2>2, DropEnds
    <3> QED BY <2>3, <3>1
  <2>5. DOMAIN argv' = 0 .. Len(line) + 1
    BY <2>2, <2>3 DEF DropArgs
  <2>6. Room' /\ Terminated'
    BY <2>1, <2>2, <2>3, <2>4, <2>5 DEF Room, Terminated, Given, Ends, ArgsInv
  <2> QED BY <2>3, <2>6 DEF ArgsInv
<1> QED BY <1>1, <1>2

LEMMA ParseStep == ArgsInv /\ ParseArgs => ArgsInv'
<1> SUFFICES ASSUME ArgsInv, ParseArgs PROVE ArgsInv'
  OBVIOUS
<1>1. PICK g : /\ g = Getopt
               /\ \/ Partition(g) \/ Logging(g) \/ IgnoreChecksums(g) \/ FuseOption(g)
                  \/ MountOption(g) \/ Help(g) \/ Unknown(g) \/ Operands(g)
  BY DEF ParseArgs
<1>2. pc = "parse" /\ Returned(g)
  BY <1>1, GetoptReturned DEF ParseArgs
<1>3. CASE Partition(g)
  <2>1. Keep(g) \/ Drop(g, 2)
    BY <1>3 DEF Partition
  <2>2. g.optind >= 2 /\ pc' # "parsed"
    BY <1>2, <1>3 DEF Partition, Returned, Becomes, Notes
  <2> QED BY <1>2, <2>1, <2>2, KeepStep, DropStep
<1>4. CASE Logging(g)
  <2>1. PICK num \in {1, 2} : Drop(g, num) /\ (num = 2 => g.arg # "")
    <3>1. CASE g.arg # ""
      BY <1>4, <3>1 DEF Logging
    <3>2. CASE g.arg = ""
      <4>1. (IF g.arg # "" THEN 2 ELSE 1) = 1
        BY <3>2
      <4>2. Drop(g, 1)
        BY <1>4, <4>1 DEF Logging, Drop, DropArgs
      <4>3. 1 \in {1, 2} /\ (1 = 2 => g.arg # "")
        OBVIOUS
      <4> QED BY <4>2, <4>3
    <3> QED BY <3>1, <3>2
  <2>2. g.optind >= num /\ pc' # "parsed"
    BY <1>2, <1>4, <2>1 DEF Logging, Returned, Notes
  <2> QED BY <1>2, <2>1, <2>2, DropStep
<1>5. CASE IgnoreChecksums(g) \/ Help(g)
  <2>1. Drop(g, 1) /\ g.optind >= 1 /\ pc' # "parsed"
    BY <1>2, <1>5 DEF IgnoreChecksums, Help, Returned, Notes, Becomes
  <2> QED BY <1>2, <2>1, DropStep
<1>6. CASE FuseOption(g) \/ MountOption(g) \/ Unknown(g)
  <2>1. Keep(g) /\ pc' # "parsed"
    BY <1>2, <1>6 DEF FuseOption, MountOption, Unknown, Notes, Becomes
  <2> QED BY <1>2, <2>1, KeepStep
<1>7. CASE Operands(g)
  BY <1>2, <1>7, OperandsStep
<1> QED BY <1>1, <1>3, <1>4, <1>5, <1>6, <1>7

\* main writes -s into the slot behind the words, which parse_args has freed.
LEMMA FuseMainStep == ArgsInv /\ FuseMain => ArgsInv'
<1> SUFFICES ASSUME ArgsInv, FuseMain PROVE ArgsInv'
  OBVIOUS
<1>1. /\ pc = "parsed" /\ pc' = "fuse" /\ line' = line
      /\ argc \in Nat /\ Len(line) \in Nat /\ argc <= Len(line)
      /\ DOMAIN argv = 0 .. Len(line) + 1
  BY ArgsAssumption DEF FuseMain, Becomes, ArgsInv, Room
<1>2. CASE UNCHANGED <<argv, argc>>
  BY <1>1, <1>2 DEF ArgsInv, Room, Terminated, Given
<1>3. CASE argv' = [argv EXCEPT ![argc] = Opt("s")] /\ argc' = argc + 1
  <2>1. Opt("s") # NULL
    BY DEF Opt, NULL, Operand
  <2>2. DOMAIN argv' = DOMAIN argv
    BY <1>3
  <2>3. ASSUME NEW i \in DOMAIN argv PROVE argv'[i] = NULL <=> i \notin 0 .. (argc + 1) - 1
    <3>1. CASE i = argc
      BY <1>1, <1>3, <2>1, <3>1
    <3>2. CASE i # argc
      <4>1. argv'[i] = argv[i] /\ (argv[i] = NULL <=> i \notin 0 .. argc - 1)
        BY <1>3, <3>2 DEF ArgsInv, Terminated, Given
      <4> QED BY <1>1, <3>2, <4>1
    <3> QED BY <3>1, <3>2
  <2>4. Room'
    BY <1>1, <1>3, <2>2 DEF Room, ArgsInv
  <2>5. Terminated'
    BY <1>1, <1>3, <2>2, <2>3 DEF Terminated, Given
  <2> QED BY <1>1, <2>4, <2>5 DEF ArgsInv
<1> QED BY <1>2, <1>3 DEF FuseMain

-----------------------------------------------------------------------------

LEMMA ArgsInit == Init => ArgsInv
<1> SUFFICES ASSUME Init PROVE ArgsInv
  OBVIOUS
<1>1. Len(line) \in Nat /\ DOMAIN line = 1 .. Len(line)
  BY ArgsAssumption DEF Init
<1>2. Prog # NULL
  BY DEF Prog, NULL, Operand
<1>3. ASSUME NEW i \in DOMAIN argv PROVE argv[i] = NULL <=> i \notin 0 .. argc - 1
  <2>1. CASE i = 0
    BY <1>1, <1>2, <2>1 DEF Init
  <2>2. CASE i \in 1 .. Len(line)
    <3>1. argv[i] = line[i] /\ line[i] # NULL
      BY <1>1, <2>2, ArgsAssumption DEF Init
    <3> QED BY <1>1, <2>2, <3>1 DEF Init
  <2>3. CASE i = Len(line) + 1
    BY <1>1, <2>3 DEF Init
  <2> QED BY <1>1, <2>1, <2>2, <2>3 DEF Init
<1>4. Room /\ GetoptInside
  BY <1>1 DEF Init, Room, GetoptInside
<1>5. Terminated
  BY <1>1, <1>3 DEF Init, Terminated, Given
<1> QED BY <1>4, <1>5 DEF ArgsInv

\* Whatever the command line, and wherever getopt is when parse_args drops
\* words: argv holds argc words and NULL behind them, so that -s is written
\* into a slot of the vector and FUSE finds its end (fuseadf.c:265-293).
THEOREM VectorTerminated == Spec => []Terminated
<1>1. Init => ArgsInv
  BY ArgsInit
<1>2. ArgsInv /\ [Next]_vars => ArgsInv'
  <2>1. ArgsInv /\ UNCHANGED vars => ArgsInv'
    BY DEF vars, scan, ArgsInv, Room, Terminated, Given, GetoptInside
  <2> QED BY <2>1, ParseStep, FuseMainStep DEF Next
<1>3. ArgsInv => Terminated
  BY DEF ArgsInv
<1> QED BY <1>1, <1>2, <1>3, PTL DEF Spec

-----------------------------------------------------------------------------
(* Places in a line.                                                       *)

\* The words of S up to the k-th are finitely many, and all of S at the end.
LEMMA PlaceType ==
  ASSUME NEW n \in Nat, NEW S \in SUBSET (1 .. n), NEW k \in Nat
  PROVE  /\ IsFiniteSet({j \in S : j <= k}) /\ Place(S, k) \in Nat
         /\ Place(S, 0) = 0
         /\ k >= n => Place(S, k) = Cardinality(S)
<1>1. IsFiniteSet(1 .. n)
  BY FS_Interval
<1>2. \A T \in SUBSET (1 .. n) : IsFiniteSet(T) /\ Cardinality(T) \in Nat
  BY <1>1, FS_Subset, FS_CardinalityType
<1>a. \A j \in S : j \in Nat /\ j >= 1 /\ j <= n
  OBVIOUS
<1>3. {j \in S : j <= k} \in SUBSET (1 .. n) /\ S \in SUBSET (1 .. n)
  OBVIOUS
<1>4. {j \in S : j <= 0} = {}
  <2>1. \A j \in S : ~(j <= 0)
    BY <1>a
  <2> QED BY <2>1
<1>5. k >= n => {j \in S : j <= k} = S
  <2>1. k >= n => \A j \in S : j <= k
    BY <1>a
  <2> QED BY <2>1, Zenon
<1> QED BY <1>2, <1>3, <1>4, <1>5, FS_EmptySet DEF Place

\* One word more.
LEMMA PlaceNext ==
  ASSUME NEW n \in Nat, NEW S \in SUBSET (1 .. n), NEW k \in Nat
  PROVE  Place(S, k + 1) = IF k + 1 \in S THEN Place(S, k) + 1 ELSE Place(S, k)
<1>a. \A j \in S : j \in Nat /\ j >= 1 /\ j <= n
  OBVIOUS
<1>1. PICK T : T = {j \in S : j <= k}
  OBVIOUS
<1>2. IsFiniteSet(T) /\ k + 1 \notin T
  <2>1. k + 1 \notin T
    BY <1>1
  <2> QED BY <1>1, <2>1, PlaceType
<1>3. CASE k + 1 \in S
  <2>1. {j \in S : j <= k + 1} = T \cup {k + 1}
    <3>1. \A j \in S : j <= k + 1 <=> (j <= k \/ j = k + 1)
      BY <1>a
    <3> QED BY <1>1, <1>3, <3>1, Zenon
  <2>2. Cardinality(T \cup {k + 1}) = Cardinality(T) + 1
    BY <1>2, FS_AddElement
  <2> QED BY <1>1, <1>3, <2>1, <2>2 DEF Place
<1>4. CASE k + 1 \notin S
  <2>1. {j \in S : j <= k + 1} = T
    <3>1. \A j \in S : j <= k + 1 <=> j <= k
      BY <1>a, <1>4
    <3> QED BY <1>1, <3>1, Zenon
  <2> QED BY <1>1, <1>4, <2>1 DEF Place
<1> QED BY <1>3, <1>4

\* Places grow along the line, and with each word of S.
LEMMA PlaceGrows ==
  ASSUME NEW n \in Nat, NEW S \in SUBSET (1 .. n), NEW i \in Nat, NEW k \in Nat
  PROVE  /\ i <= k => Place(S, i) <= Place(S, k)
         /\ i < k /\ k \in S => Place(S, i) < Place(S, k)
<1>a. \A j \in S : j \in Nat /\ j >= 1 /\ j <= n
  OBVIOUS
<1>1. ASSUME NEW m \in Nat, i <= m PROVE Place(S, i) <= Place(S, m)
  <2>1. \A j \in S : j <= i => j <= m
    BY <1>a, <1>1
  <2>2. {j \in S : j <= i} \in SUBSET {j \in S : j <= m}
    BY <2>1
  <2>3. IsFiniteSet({j \in S : j <= m})
    BY PlaceType
  <2> QED BY <2>2, <2>3, FS_Subset DEF Place
<1>2. ASSUME i < k, k \in S PROVE Place(S, i) < Place(S, k)
  <2>1. PICK m \in Nat : k = m + 1 /\ i <= m
    <3>1. k - 1 \in Nat /\ k = (k - 1) + 1 /\ i <= k - 1
      BY ONLY i \in Nat, k \in Nat, <1>2
    <3> QED BY <3>1
  <2>2. Place(S, k) = Place(S, m) + 1
    BY <1>2, <2>1, PlaceNext
  <2>3. Place(S, i) <= Place(S, m) /\ Place(S, i) \in Nat /\ Place(S, m) \in Nat
    BY <1>1, <2>1, PlaceType
  <2> QED BY <2>2, <2>3
<1> QED BY <1>1, <1>2

\* The place of a word of S among the first k.
LEMMA PlaceOf ==
  ASSUME NEW n \in Nat, NEW S \in SUBSET (1 .. n), NEW k \in Nat, NEW i \in S
  PROVE  /\ i \in Nat /\ Place(S, i) \in Nat /\ Place(S, i) >= 1
         /\ i <= k => Place(S, i) <= Place(S, k)
         /\ i > k => Place(S, i) > Place(S, k)
<1>1. i \in Nat /\ i > 0 /\ 0 \in Nat
  OBVIOUS
<1>2. Place(S, 0) < Place(S, i) /\ Place(S, 0) = 0 /\ Place(S, i) \in Nat
  BY <1>1, PlaceGrows, PlaceType
<1>3. i <= k => Place(S, i) <= Place(S, k)
  BY <1>1, PlaceGrows
<1>4. i > k => Place(S, i) > Place(S, k)
  <2>1. i > k => Place(S, k) < Place(S, i)
    BY <1>1, PlaceGrows
  <2> QED BY <2>1, PlaceType
<1> QED BY <1>1, <1>2, <1>3, <1>4

\* Words that are none of S.
LEMMA PlaceNone ==
  ASSUME NEW n \in Nat, NEW S \in SUBSET (1 .. n), NEW k \in Nat, NEW m \in Nat, k <= m,
         \A j \in k + 1 .. m : j \notin S
  PROVE  Place(S, m) = Place(S, k)
<1>1. \A j \in S : j \in Nat /\ j >= 1 /\ j <= n
  OBVIOUS
<1>2. \A j \in S : j <= m <=> j <= k
  BY <1>1
<1>3. {j \in S : j <= m} = {j \in S : j <= k}
  BY <1>2, Zenon
<1> QED BY <1>3 DEF Place

\* Words that are all of S.
LEMMA PlaceAll ==
  ASSUME NEW n \in Nat, NEW S \in SUBSET (1 .. n), NEW k \in Nat, NEW m \in Nat, k <= m,
         \A j \in k + 1 .. m : j \in S
  PROVE  Place(S, m) = Place(S, k) + (m - k)
<1>a. \A j \in S : j \in Nat /\ j >= 1 /\ j <= n
  OBVIOUS
<1>1. PICK T : T = {j \in S : j <= k}
  OBVIOUS
<1>2. PICK num \in Nat : num = m - k /\ m = k + num
  OBVIOUS
<1>3. {j \in S : j <= m} = T \cup (k + 1 .. m)
  <2>1. \A j \in S : j <= m <=> (j <= k \/ j \in k + 1 .. m)
    BY <1>a, <1>2
  <2> QED BY <1>1, <1>2, <2>1, Zenon
<1>4. T \cap (k + 1 .. m) = {}
  <2>1. \A j \in S : ~(j <= k /\ j \in k + 1 .. m)
    BY <1>a
  <2> QED BY <1>1, <2>1
<1>5. IsFiniteSet(k + 1 .. m) /\ Cardinality(k + 1 .. m) = num
  <2>1. Cardinality(k + 1 .. m) = IF k + 1 > m THEN 0 ELSE (m - (k + 1)) + 1
    BY FS_Interval
  <2>2. k + 1 \in Int /\ m \in Int
    OBVIOUS
  <2>3. IsFiniteSet(k + 1 .. m)
    BY <2>2, FS_Interval
  <2> QED BY <1>2, <2>1, <2>3
<1>6. IsFiniteSet(T) /\ Cardinality(T) \in Nat
  <2>1. IsFiniteSet(T)
    BY <1>1, PlaceType
  <2> QED BY <2>1, FS_CardinalityType
<1>7. Cardinality(T \cup (k + 1 .. m)) = Cardinality(T) + num - Cardinality({})
  BY <1>4, <1>5, <1>6, FS_Union
<1>8. Cardinality({}) = 0
  BY FS_EmptySet
<1>9. Place(S, m) = Cardinality(T \cup (k + 1 .. m)) /\ Place(S, k) = Cardinality(T)
  BY <1>1, <1>3 DEF Place
<1>10. Place(S, m) = Place(S, k) + num
  BY <1>6, <1>7, <1>8, <1>9
<1> QED BY <1>2, <1>10

-----------------------------------------------------------------------------
(* The words of a line that is plain.                                      *)

Own == ForFuse(line)
Two == OperandsOf(line)

Letters == {"p", "o", "l", "i", "s", "d", "f"}

\* The word behind the k-th is not the value of an option.
Boundary(k) == k = 0 \/ line[k] \notin {Opt("p"), Opt("o")}

\* An option of one letter, to getopt.
LEMMA OptWord ==
  \A c : /\ Opt(c).opts = <<c>> /\ Opt(c).arg = "" /\ Opt(c).opts # <<>>
         /\ Head(Opt(c).opts) = c /\ Tail(Opt(c).opts) = <<>>
BY DEF Opt

LEMMA OptsDiffer == \A c, d : Opt(c) = Opt(d) => c = d
<1> SUFFICES ASSUME NEW c, NEW d, Opt(c) = Opt(d) PROVE c = d
  OBVIOUS
<1>1. Head(Opt(c).opts) = c /\ Head(Opt(d).opts) = d
  BY OptWord
<1> QED BY <1>1, Zenon

\* A line is a sequence, and the two kinds of words are among its.
LEMMA LineShape ==
  ASSUME line \in Lines
  PROVE  /\ Len(line) \in Nat /\ DOMAIN line = 1 .. Len(line)
         /\ Own \in SUBSET (1 .. Len(line)) /\ Two \in SUBSET (1 .. Len(line))
<1>1. Len(line) \in Nat /\ DOMAIN line = 1 .. Len(line)
  BY ArgsAssumption
<1> QED BY <1>1 DEF Own, Two, ForFuse, OperandsOf

\* Words without a letter, from a boundary on, are operands.
LEMMA OperandRun ==
  ASSUME line \in Lines, Plain(line), NEW k \in Nat, Boundary(k), NEW m \in Nat, k <= m,
         m <= Len(line), \A j \in k + 1 .. m : line[j].opts = <<>>
  PROVE  /\ \A j \in k + 1 .. m :
              /\ j \in Two /\ j \notin Own /\ \A c : line[j] # Opt(c)
              /\ ~ValueOf(line, j, "p") /\ ~ValueOf(line, j, "o")
         /\ Boundary(m)
<1>1. Len(line) \in Nat /\ DOMAIN line = 1 .. Len(line)
  BY LineShape
<1>2. ASSUME NEW j \in k + 1 .. m
      PROVE  /\ \A c : line[j] # Opt(c)
             /\ ~ValueOf(line, j, "p") /\ ~ValueOf(line, j, "o")
  <2>1. j \in Nat /\ j >= k + 1 /\ j <= m /\ j - 1 \in Nat
    OBVIOUS
  <2>2. \A c : line[j] # Opt(c)
    BY OptWord
  <2>3. CASE j = k + 1
    <3>1. j - 1 = k
      BY <2>3
    <3> QED BY <2>2, <2>3, <3>1 DEF ValueOf, Boundary
  <2>4. CASE j # k + 1
    <3>1. j - 1 \in k + 1 .. m
      BY <2>1, <2>4
    <3>2. line[j - 1].opts = <<>>
      BY <3>1
    <3>3. \A c : line[j - 1] # Opt(c)
      BY <3>2, OptWord
    <3> QED BY <2>2, <3>3 DEF ValueOf
  <2> QED BY <2>3, <2>4
<1>3. ASSUME NEW j \in k + 1 .. m PROVE j \in Two /\ j \notin Own
  <2>1. j \in DOMAIN line
    BY <1>1
  <2> QED BY <1>2, <2>1 DEF Two, Own, OperandsOf, ForFuse
<1>4. Boundary(m)
  <2>1. CASE m = k
    BY <2>1
  <2>2. CASE m # k
    <3>1. m \in k + 1 .. m
      BY <2>2
    <3> QED BY <1>2, <3>1 DEF Boundary
  <2> QED BY <2>1, <2>2
<1> QED BY <1>2, <1>3, <1>4

\* A word with a letter, at a boundary, is an option of one letter; it is kept
\* for FUSE or not, by its letter alone.
LEMMA OptionWord ==
  ASSUME line \in Lines, Plain(line), NEW m \in Nat, Boundary(m), m < Len(line),
         line[m + 1].opts # <<>>
  PROVE  \E c \in Letters :
           /\ line[m + 1] = Opt(c) /\ m + 1 \notin Two
           /\ m + 1 \in Own <=> c \in {"o", "s", "d", "f"}
           /\ ~ValueOf(line, m + 1, "p") /\ ~ValueOf(line, m + 1, "o")
           /\ c \notin {"p", "o"} => Boundary(m + 1)
<1>1. m + 1 \in DOMAIN line /\ (m + 1) - 1 = m /\ m + 1 # 0
  BY LineShape
<1>2. PICK c \in Letters : line[m + 1] = Opt(c)
  BY <1>1 DEF Plain, Letters
<1>3. ~ValueOf(line, m + 1, "p") /\ ~ValueOf(line, m + 1, "o")
  BY <1>1 DEF ValueOf, Boundary
<1>4. m + 1 \notin Two
  BY DEF Two, OperandsOf
<1>5. m + 1 \in Own <=> c \in {"o", "s", "d", "f"}
  <2>1. m + 1 \in Own <=> line[m + 1] \in {Opt(d) : d \in {"o", "s", "d", "f"}}
    BY <1>1, <1>3 DEF Own, ForFuse
  <2> QED BY <1>2, <2>1, OptsDiffer
<1>6. c \notin {"p", "o"} => Boundary(m + 1)
  BY <1>2, OptsDiffer DEF Boundary
<1> QED BY <1>2, <1>3, <1>4, <1>5, <1>6

\* The value behind an option that takes one.
LEMMA ValueWord ==
  ASSUME line \in Lines, Plain(line), NEW m \in Nat, NEW c \in {"p", "o"},
         m + 2 <= Len(line), line[m + 1] = Opt(c)
  PROVE  /\ line[m + 2].opts = <<>> /\ m + 2 \notin Two
         /\ m + 2 \in Own <=> c = "o"
         /\ \A d : ValueOf(line, m + 2, d) <=> d = c
         /\ Boundary(m + 2)
<1>1. /\ m + 1 \in DOMAIN line /\ m + 2 \in DOMAIN line /\ (m + 1) + 1 = m + 2
      /\ (m + 2) - 1 = m + 1 /\ m + 1 < Len(line) /\ m + 2 > 1
  BY LineShape
<1>2. line[m + 2].opts = <<>>
  BY <1>1 DEF Plain
<1>3. \A d : line[m + 2] # Opt(d)
  BY <1>2, OptWord
<1>4. \A d : ValueOf(line, m + 2, d) <=> d = c
  BY <1>1, OptsDiffer DEF ValueOf
<1>5. m + 2 \notin Two /\ (m + 2 \in Own <=> c = "o")
  BY <1>1, <1>3, <1>4 DEF Two, Own, OperandsOf, ForFuse
<1> QED BY <1>2, <1>3, <1>4, <1>5 DEF Boundary

-----------------------------------------------------------------------------
(* The vector while a plain line is read.                                  *)

\* The words behind the k-th lie from index o on, as in the line.
Unread(a, o, k) == \A j \in k + 1 .. Len(line) : a[(o + (j - k)) - 1] = line[j]

\* FUSE's words among the first k lie in order, the first of them before the
\* operands getopt has skipped, the others behind.
OwnAt(a, sk, k) ==
  \A i \in Own : i <= k =>
    a[IF Place(Own, i) < sk[1] THEN Place(Own, i)
      ELSE Place(Own, i) + Place(Two, k)] = line[i]

\* The operands among the first k are those getopt has skipped, in order.
OperandsAt(a, sk, k) ==
  \A i \in Two : i <= k => a[(sk[1] - 1) + Place(Two, i)] = line[i]

\* The first k words of the line are read, and getopt is at index o of a
\* vector of n words.
Standing(a, n, o, sk, k) ==
  /\ k \in Nat /\ k <= Len(line) /\ Boundary(k)
  /\ o = Place(Own, k) + Place(Two, k) + 1
  /\ n = o + (Len(line) - k)
  /\ sk[1] \in Nat /\ sk[1] >= 1 /\ sk[2] = sk[1] + Place(Two, k) /\ sk[2] <= o
  /\ a[0] = Prog
  /\ Unread(a, o, k) /\ OwnAt(a, sk, k) /\ OperandsAt(a, sk, k)

\* The numbers in it.
LEMMA StandingNumbers ==
  ASSUME line \in Lines, NEW a, NEW n, NEW o, NEW sk, NEW k, Standing(a, n, o, sk, k)
  PROVE  /\ Len(line) \in Nat /\ k \in Nat
         /\ Place(Own, k) \in Nat /\ Place(Two, k) \in Nat
         /\ o \in Nat /\ o >= 1 /\ n \in Nat /\ o <= n
         /\ sk[1] \in Nat /\ sk[2] \in Nat
         /\ sk[1] <= Place(Own, k) + 1
<1>1. Len(line) \in Nat /\ k \in Nat /\ k <= Len(line)
  BY LineShape DEF Standing
<1>2. Place(Own, k) \in Nat /\ Place(Two, k) \in Nat
  BY <1>1, LineShape, PlaceType
<1>3. PICK L \in Nat, p \in Nat, q \in Nat :
        L = Len(line) /\ p = Place(Own, k) /\ q = Place(Two, k)
  BY <1>1, <1>2
<1>4. o = p + q + 1 /\ n = o + (L - k) /\ k <= L
  BY <1>1, <1>3 DEF Standing
<1>5. PICK f, l : f = sk[1] /\ l = sk[2]
  OBVIOUS
<1>6. f \in Nat /\ l = f + q /\ l <= o
  BY <1>3, <1>5 DEF Standing
<1>7. o \in Nat /\ o >= 1
  BY ONLY <1>4, p \in Nat, q \in Nat
<1>8. n \in Nat /\ o <= n
  BY ONLY <1>1, <1>4, <1>7, L \in Nat
<1>9. l \in Nat /\ f <= p + 1
  BY ONLY <1>4, <1>6, p \in Nat, q \in Nat
<1> QED BY ONLY <1>1, <1>2, <1>3, <1>5, <1>6, <1>7, <1>8, <1>9

\* Words that stay are read where they are.
LEMMA KeepStanding ==
  ASSUME line \in Lines, NEW a, NEW n \in Nat, NEW o \in Nat, NEW sk, NEW k \in Nat,
         Standing(a, n, o, sk, k),
         NEW num \in Nat, k + num <= Len(line), Boundary(k + num),
         \A j \in k + 1 .. k + num : j \in Own /\ j \notin Two
  PROVE  Standing(a, n, o + num, sk, k + num)
<1> DEFINE m == k + num
<1>1. /\ Len(line) \in Nat /\ k \in Nat
      /\ Place(Own, k) \in Nat /\ Place(Two, k) \in Nat
      /\ o \in Nat /\ o >= 1 /\ n \in Nat /\ o <= n
      /\ sk[1] \in Nat /\ sk[2] \in Nat
      /\ sk[1] <= Place(Own, k) + 1 /\ o = Place(Own, k) + Place(Two, k) + 1
      /\ n = o + (Len(line) - k)
  BY StandingNumbers DEF Standing
<1>2. m \in Nat /\ k <= m
  BY <1>1
<1>3. Place(Two, m) = Place(Two, k)
  <2>1. Two \in SUBSET (1 .. Len(line)) /\ \A j \in k + 1 .. m : j \notin Two
    BY LineShape
  <2> HIDE DEF m
  <2> QED BY ONLY <1>1, <1>2, <2>1, PlaceNone
<1>a. Own \in SUBSET (1 .. Len(line)) /\ \A j \in k + 1 .. k + num : j \in Own
  BY LineShape
<1>4. \A i \in k + 1 .. m : Place(Own, i) = Place(Own, k) + (i - k)
  <2> SUFFICES ASSUME NEW i \in k + 1 .. m PROVE Place(Own, i) = Place(Own, k) + (i - k)
    OBVIOUS
  <2>1. PICK r \in Nat : r = i
    BY <1>2
  <2>2. \A j \in k + 1 .. r : j \in Own
    BY <1>a, <1>2, <2>1
  <2>3. k <= r
    BY <1>2, <2>1
  <2>4. PICK L \in Nat : Own \in SUBSET (1 .. L)
    BY <1>1, <1>a
  <2>5. Place(Own, r) = Place(Own, k) + (r - k)
    BY ONLY k \in Nat, L \in Nat, r \in Nat, <2>2, <2>3, <2>4, PlaceAll
  <2> QED BY ONLY <2>1, <2>5
<1>5. Place(Own, m) = Place(Own, k) + num
  <2>1. \A j \in k + 1 .. m : j \in Own
    BY <1>a
  <2>2. PICK L \in Nat : Own \in SUBSET (1 .. L)
    BY <1>1, <1>a
  <2>3. m - k = num
    OBVIOUS
  <2>4. PICK M \in Nat : M = m
    BY <1>2
  <2>5. k <= M
    BY <1>2, <2>4
  <2>6. \A j \in k + 1 .. M : j \in Own
    BY <2>1, <2>4
  <2>7. Place(Own, M) = Place(Own, k) + (M - k)
    BY ONLY k \in Nat, L \in Nat, M \in Nat, <2>2, <2>5, <2>6, PlaceAll
  <2> QED BY ONLY <2>3, <2>4, <2>7
<1>6. Unread(a, o + num, m)
  <2> SUFFICES ASSUME NEW j \in m + 1 .. Len(line)
               PROVE  a[((o + num) + (j - m)) - 1] = line[j]
    BY DEF Unread
  <2>1. j \in k + 1 .. Len(line) /\ ((o + num) + (j - m)) - 1 = (o + (j - k)) - 1
    BY <1>1, <1>2
  <2> QED BY <2>1 DEF Standing, Unread
<1>7. OwnAt(a, sk, m)
  <2> DEFINE at(i, q) == IF Place(Own, i) < sk[1] THEN Place(Own, i) ELSE Place(Own, i) + q
  <2> SUFFICES ASSUME NEW i \in Own, i <= m PROVE a[at(i, Place(Two, m))] = line[i]
    BY DEF OwnAt
  <2>1. i \in Nat
    BY LineShape
  <2>2. CASE i <= k
    <3>1. a[at(i, Place(Two, k))] = line[i]
      BY <2>2 DEF Standing, OwnAt
    <3> QED BY <1>3, <3>1
  <2>3. CASE i > k
    <3>1. i \in k + 1 .. m /\ i \in k + 1 .. Len(line)
      BY <1>1, <1>2, <2>1, <2>3
    <3>2. Place(Own, i) = Place(Own, k) + (i - k)
      BY <1>4, <3>1
    <3>3. at(i, Place(Two, m)) = Place(Own, i) + Place(Two, k)
      <4>1. PICK r \in Int, p \in Nat, f \in Nat :
              r = Place(Own, i) /\ p = Place(Own, k) /\ f = sk[1]
        BY <1>1, <2>1, <3>2
      <4>2. f <= p + 1 /\ r = p + (i - k)
        BY <1>1, <3>2, <4>1
      <4>3. ~(r < f)
        BY ONLY <2>1, <2>3, <4>2, r \in Int, p \in Nat, f \in Nat, k \in Nat
      <4> QED BY <1>3, <4>1, <4>3
    <3>4. Place(Own, i) + Place(Two, k) = (o + (i - k)) - 1
      <4>1. PICK p \in Nat, q \in Nat : p = Place(Own, k) /\ q = Place(Two, k)
        BY <1>1
      <4>2. PICK s \in Int : s = i - k
        BY <1>1, <2>1
      <4>3. o = p + q + 1 /\ Place(Own, i) = p + s
        BY ONLY <1>1, <3>2, <4>1, <4>2
      <4>4. (p + s) + q = (o + s) - 1
        BY ONLY <4>1, <4>2, <4>3
      <4> QED BY ONLY <4>1, <4>2, <4>3, <4>4
    <3>5. a[(o + (i - k)) - 1] = line[i]
      BY <3>1 DEF Standing, Unread
    <3> QED BY <3>3, <3>4, <3>5
  <2> QED BY <1>1, <2>1, <2>2, <2>3
<1>8. OperandsAt(a, sk, m)
  <2> SUFFICES ASSUME NEW i \in Two, i <= m
               PROVE  a[(sk[1] - 1) + Place(Two, i)] = line[i]
    BY DEF OperandsAt
  <2>1. i \in Nat /\ i \notin k + 1 .. m
    BY LineShape
  <2>2. i <= k
    BY <1>1, <1>2, <2>1
  <2> QED BY <2>2 DEF Standing, OperandsAt
<1>9. /\ o + num = Place(Own, m) + Place(Two, m) + 1
      /\ n = (o + num) + (Len(line) - m)
      /\ sk[2] = sk[1] + Place(Two, m) /\ sk[2] <= o + num
  <2>1. sk[2] = sk[1] + Place(Two, k) /\ sk[2] <= o
    BY DEF Standing
  <2>2. PICK p \in Nat, q \in Nat : p = Place(Own, k) /\ q = Place(Two, k)
    BY <1>1
  <2>3. /\ o = p + q + 1 /\ Place(Own, m) = p + num /\ Place(Two, m) = q
        /\ sk[2] = sk[1] + q
    BY ONLY <1>1, <1>3, <1>5, <2>1, <2>2
  <2>4. PICK L \in Nat, s \in Nat : L = Len(line) /\ s = sk[2]
    BY <1>1
  <2>5. o = p + q + 1 /\ s <= o /\ n = o + (L - k)
    BY <1>1, <2>1, <2>3, <2>4
  <2>a. o + num = (p + num) + q + 1 /\ s <= o + num /\ n = (o + num) + (L - (k + num))
    BY ONLY o \in Nat, num \in Nat, k \in Nat, n \in Nat, p \in Nat, q \in Nat,
            L \in Nat, s \in Nat, <2>5
  <2>6. o + num = (p + num) + q + 1 /\ sk[2] <= o + num /\ n = (o + num) + (Len(line) - m)
    BY <2>4, <2>a
  <2> QED BY ONLY <2>3, <2>6
<1> QED BY <1>1, <1>2, <1>6, <1>7, <1>8, <1>9 DEF Standing

\* Words that are dropped leave the others in order.
LEMMA DropStanding ==
  ASSUME line \in Lines, NEW a, NEW n \in Nat, NEW o \in Nat, NEW sk, NEW k \in Nat,
         Standing(a, n, o, sk, k),
         NEW num \in Nat, k + num <= Len(line), Boundary(k + num),
         \A j \in k + 1 .. k + num : j \notin Own /\ j \notin Two,
         NEW b, \A i \in 0 .. o - 1 : b[i] = a[i],
         \A i \in o .. (n - num) - 1 : b[i] = a[i + num]
  PROVE  Standing(b, n - num, o, sk, k + num)
<1> DEFINE m == k + num
<1>1. /\ Len(line) \in Nat /\ k \in Nat
      /\ Place(Own, k) \in Nat /\ Place(Two, k) \in Nat
      /\ o \in Nat /\ o >= 1 /\ n \in Nat /\ o <= n
      /\ sk[1] \in Nat /\ sk[1] >= 1 /\ sk[2] = sk[1] + Place(Two, k) /\ sk[2] <= o
      /\ sk[1] <= Place(Own, k) + 1 /\ o = Place(Own, k) + Place(Two, k) + 1
      /\ n = o + (Len(line) - k)
  BY StandingNumbers DEF Standing
<1>2. m \in Nat /\ k <= m
  BY <1>1
<1>3. Place(Two, m) = Place(Two, k) /\ Place(Own, m) = Place(Own, k)
  <2>1. /\ Two \in SUBSET (1 .. Len(line)) /\ \A j \in k + 1 .. m : j \notin Two
        /\ Own \in SUBSET (1 .. Len(line)) /\ \A j \in k + 1 .. m : j \notin Own
    BY LineShape
  <2> HIDE DEF m
  <2> QED BY ONLY <1>1, <1>2, <2>1, PlaceNone
<1>4. Unread(b, o, m)
  <2> SUFFICES ASSUME NEW j \in m + 1 .. Len(line) PROVE b[(o + (j - m)) - 1] = line[j]
    BY DEF Unread
  <2>1. /\ j \in k + 1 .. Len(line)
        /\ (o + (j - m)) - 1 \in o .. (n - num) - 1
        /\ ((o + (j - m)) - 1) + num = (o + (j - k)) - 1
    <3>1. j \in Nat /\ j >= m + 1 /\ j <= Len(line)
      BY <1>1, <1>2
    <3>2. PICK L \in Nat : L = Len(line)
      BY <1>1
    <3>3. /\ j \in k + 1 .. L
          /\ (o + (j - (k + num))) - 1 \in o .. (n - num) - 1
          /\ ((o + (j - (k + num))) - 1) + num = (o + (j - k)) - 1
      <4>1. n = o + (L - k) /\ j >= k + num + 1 /\ j <= L
        BY <1>1, <3>1, <3>2
      <4>2. j \in Nat
        BY <3>1
      <4> QED BY ONLY <4>1, <4>2, o \in Nat, k \in Nat, n \in Nat, num \in Nat, L \in Nat
    <3> QED BY ONLY <3>2, <3>3, m = k + num
  <2>2. b[(o + (j - m)) - 1] = a[((o + (j - m)) - 1) + num]
    BY <2>1
  <2>3. a[(o + (j - k)) - 1] = line[j]
    BY <2>1 DEF Standing, Unread
  <2> QED BY <2>1, <2>2, <2>3
<1>5. OwnAt(b, sk, m)
  <2> DEFINE at(i) == IF Place(Own, i) < sk[1] THEN Place(Own, i)
                      ELSE Place(Own, i) + Place(Two, k)
  <2> SUFFICES ASSUME NEW i \in Own, i <= m PROVE b[at(i)] = line[i]
    BY <1>3 DEF OwnAt
  <2>1. i \in Nat /\ i \notin k + 1 .. m
    BY LineShape
  <2>2. i <= k
    BY <1>1, <1>2, <2>1
  <2>3. a[at(i)] = line[i]
    BY <2>2 DEF Standing, OwnAt
  <2>4. Place(Own, i) \in Nat /\ Place(Own, i) <= Place(Own, k)
    BY <1>1, <2>2, LineShape, PlaceOf
  <2>5. at(i) \in 0 .. o - 1
    <3>1. PICK p \in Nat, q \in Nat, r \in Nat :
            p = Place(Own, k) /\ q = Place(Two, k) /\ r = Place(Own, i)
      BY <1>1, <2>4
    <3>2. o = p + q + 1 /\ r <= p
      BY ONLY <1>1, <2>4, <3>1
    <3>3. r \in 0 .. o - 1 /\ r + q \in 0 .. o - 1
      BY ONLY <3>2, p \in Nat, q \in Nat, r \in Nat
    <3> QED BY <3>1, <3>3
  <2> QED BY <2>3, <2>5
<1>6. OperandsAt(b, sk, m)
  <2> SUFFICES ASSUME NEW i \in Two, i <= m
               PROVE  b[(sk[1] - 1) + Place(Two, i)] = line[i]
    BY DEF OperandsAt
  <2>1. i \in Nat /\ i \notin k + 1 .. m
    BY LineShape
  <2>2. i <= k
    BY <1>1, <1>2, <2>1
  <2>3. a[(sk[1] - 1) + Place(Two, i)] = line[i]
    BY <2>2 DEF Standing, OperandsAt
  <2>4. Place(Two, i) \in Nat /\ Place(Two, i) <= Place(Two, k)
    BY <1>1, <2>2, LineShape, PlaceOf
  <2>5. (sk[1] - 1) + Place(Two, i) \in 0 .. o - 1
    <3>1. PICK q \in Nat, r \in Nat : q = Place(Two, k) /\ r = Place(Two, i)
      BY <1>1, <2>4
    <3>2. PICK s \in Nat : s = sk[1]
      BY <1>1
    <3>3. s + q <= o /\ r <= q /\ s >= 1
      BY ONLY <1>1, <2>4, <3>1, <3>2
    <3>4. (s - 1) + r \in 0 .. o - 1
      BY ONLY o \in Nat, q \in Nat, r \in Nat, s \in Nat, <3>3
    <3> QED BY <3>1, <3>2, <3>4
  <2> QED BY <2>3, <2>5
<1>7. b[0] = Prog
  <2>1. 0 \in 0 .. o - 1 /\ a[0] = Prog
    BY <1>1 DEF Standing
  <2> QED BY <2>1
<1>8. /\ o = Place(Own, m) + Place(Two, m) + 1
      /\ n - num = o + (Len(line) - m)
      /\ sk[2] = sk[1] + Place(Two, m)
  <2>1. PICK L \in Nat, p \in Nat, q \in Nat :
          L = Len(line) /\ p = Place(Own, k) /\ q = Place(Two, k)
    BY <1>1
  <2>2. /\ o = p + q + 1 /\ n = o + (L - k)
        /\ p = Place(Own, m) /\ q = Place(Two, m) /\ sk[2] = sk[1] + q
    BY ONLY <1>1, <1>3, <2>1
  <2>3. n - num = o + (L - (k + num))
    BY ONLY <2>2, o \in Nat, p \in Nat, q \in Nat, n \in Nat, L \in Nat, k \in Nat, num \in Nat
  <2>4. n - num = o + (L - m)
    BY <2>3
  <2> QED BY ONLY <2>1, <2>2, <2>4
<1> QED BY <1>1, <1>2, <1>4, <1>5, <1>6, <1>7, <1>8 DEF Standing

\* The operands getopt has skipped come behind FUSE's words when it goes on.
LEMMA MovedStanding ==
  ASSUME Room, NEW o \in Nat, NEW sk, NEW k \in Nat, Standing(argv, argc, o, sk, k),
         sk[1] # sk[2], sk[2] # o
  PROVE  Standing(Exchanged(argv, sk[1], sk[2], o), argc, o, <<sk[1] + (o - sk[2]), o>>, k)
<1> DEFINE b == Exchanged(argv, sk[1], sk[2], o)
<1>1. line \in Lines /\ argc \in Nat
  BY DEF Room
<1>2. PICK L \in Nat, p \in Nat, q \in Nat, f \in Nat, l \in Nat :
        L = Len(line) /\ p = Place(Own, k) /\ q = Place(Two, k) /\ f = sk[1] /\ l = sk[2]
  BY <1>1, StandingNumbers
<1>3. /\ o = p + q + 1 /\ argc = o + (L - k) /\ k <= L /\ argc <= L + 1
      /\ f >= 1 /\ l = f + q /\ l <= o
  BY <1>2 DEF Standing, Room
<1>4. \A i \in 0 .. L + 1 :
        /\ i < f => b[i] = argv[i]
        /\ i >= f /\ i <= p => b[i] = argv[i + q]
        /\ i >= p + 1 /\ i < o => b[i] = argv[((f - 1) + i) - p]
        /\ i >= o => b[i] = argv[i]
  <2>1. DOMAIN argv = 0 .. L + 1
    BY <1>2 DEF Room
  <2> SUFFICES ASSUME NEW i \in 0 .. L + 1
               PROVE  /\ i < f => b[i] = argv[i]
                      /\ i >= f /\ i <= p => b[i] = argv[i + q]
                      /\ i >= p + 1 /\ i < o => b[i] = argv[((f - 1) + i) - p]
                      /\ i >= o => b[i] = argv[i]
    OBVIOUS
  <2>2. b[i] = IF i \in f .. (f + o - l) - 1 THEN argv[i + l - f]
               ELSE IF i \in f + o - l .. o - 1 THEN argv[(i + l) - o] ELSE argv[i]
    BY <1>2, <2>1 DEF Exchanged
  <2>3. /\ i \in f .. (f + o - l) - 1 <=> i >= f /\ i <= p
        /\ i \in f + o - l .. o - 1 <=> i >= p + 1 /\ i < o
        /\ i + l - f = i + q /\ (i + l) - o = ((f - 1) + i) - p
    <3>1. i \in Nat
      OBVIOUS
    <3> QED BY ONLY <1>3, <3>1, o \in Nat, p \in Nat, q \in Nat, f \in Nat, l \in Nat
  <2>4. (i < f => ~(i >= f)) /\ (i >= f /\ i <= p => ~(i >= p + 1)) /\ (i >= o => i >= p + 1)
        /\ (i >= o => ~(i < o)) /\ (i < f => ~(i >= p + 1 /\ i < o))
    <3>1. i \in Nat
      OBVIOUS
    <3> QED BY ONLY <1>3, <3>1, o \in Nat, p \in Nat, q \in Nat, f \in Nat, l \in Nat
  <2>5. i >= p + 1 => ~(i >= f /\ i <= p)
    <3>1. i \in Nat
      OBVIOUS
    <3> QED BY ONLY <3>1, p \in Nat
  <2> HIDE DEF b
  <2> QED BY ONLY <2>2, <2>3, <2>4, <2>5
<1> HIDE DEF b
<1>5. PICK g : g = <<sk[1] + (o - sk[2]), o>>
  OBVIOUS
<1>6. g[1] = p + 1 /\ g[2] = o
  <2>1. f + (o - l) = p + 1
    BY ONLY <1>3, o \in Nat, p \in Nat, q \in Nat, f \in Nat, l \in Nat
  <2> QED BY <1>2, <1>5, <2>1
<1>7. b[0] = Prog
  <2>1. 0 \in 0 .. L + 1 /\ 0 < f
    BY <1>3
  <2> QED BY <1>4, <2>1 DEF Standing
<1>8. Unread(b, o, k)
  <2> SUFFICES ASSUME NEW j \in k + 1 .. Len(line) PROVE b[(o + (j - k)) - 1] = line[j]
    BY DEF Unread
  <2>1. (o + (j - k)) - 1 \in 0 .. L + 1 /\ (o + (j - k)) - 1 >= o
    <3>1. j \in Nat /\ j >= k + 1 /\ j <= L
      BY <1>2
    <3> QED BY ONLY <1>3, <3>1, o \in Nat, k \in Nat, L \in Nat, argc \in Nat, p \in Nat, q \in Nat
  <2>2. b[(o + (j - k)) - 1] = argv[(o + (j - k)) - 1]
    BY <1>4, <2>1
  <2> QED BY <2>2 DEF Standing, Unread
<1>9. OwnAt(b, g, k)
  <2> SUFFICES ASSUME NEW i \in Own, i <= k
               PROVE  b[IF Place(Own, i) < g[1] THEN Place(Own, i)
                        ELSE Place(Own, i) + Place(Two, k)] = line[i]
    BY DEF OwnAt
  <2>1. PICK r \in Nat : r = Place(Own, i) /\ r >= 1 /\ r <= p
    BY <1>1, <1>2, LineShape, PlaceOf
  <2>2. argv[IF r < f THEN r ELSE r + q] = line[i]
    BY <1>2, <2>1 DEF Standing, OwnAt
  <2>3. r \in 0 .. L + 1 /\ r < p + 1
    BY ONLY <1>3, <2>1, p \in Nat, q \in Nat, o \in Nat, L \in Nat, k \in Nat, argc \in Nat
  <2>4. b[r] = line[i]
    <3>1. CASE r < f
      BY <1>4, <2>2, <2>3, <3>1
    <3>2. CASE ~(r < f)
      <4>1. r >= f
        BY <3>2
      <4> QED BY <1>4, <2>1, <2>2, <2>3, <3>2, <4>1
    <3> QED BY <3>1, <3>2
  <2> QED BY ONLY <1>6, <2>1, <2>3, <2>4
<1>10. OperandsAt(b, g, k)
  <2> SUFFICES ASSUME NEW i \in Two, i <= k
               PROVE  b[(g[1] - 1) + Place(Two, i)] = line[i]
    BY DEF OperandsAt
  <2>1. PICK r \in Nat : r = Place(Two, i) /\ r >= 1 /\ r <= q
    BY <1>1, <1>2, LineShape, PlaceOf
  <2>2. argv[(f - 1) + r] = line[i]
    BY <1>2, <2>1 DEF Standing, OperandsAt
  <2>3. /\ p + r \in 0 .. L + 1 /\ p + r >= p + 1 /\ p + r < o
        /\ ((f - 1) + (p + r)) - p = (f - 1) + r /\ ((p + 1) - 1) + r = p + r
    BY ONLY <1>3, <2>1, p \in Nat, q \in Nat, o \in Nat, L \in Nat, k \in Nat, argc \in Nat,
            f \in Nat, r \in Nat
  <2>4. b[p + r] = line[i]
    BY <1>4, <2>2, <2>3
  <2> QED BY ONLY <1>6, <2>1, <2>3, <2>4
<1>11. g[1] \in Nat /\ g[1] >= 1 /\ g[2] = g[1] + Place(Two, k) /\ g[2] <= o
  <2>1. p + 1 \in Nat /\ p + 1 >= 1 /\ o = (p + 1) + q /\ o <= o
    BY <1>3
  <2> QED BY ONLY <1>2, <1>6, <2>1
<1>12. Standing(b, argc, o, g, k)
  BY <1>7, <1>8, <1>9, <1>10, <1>11 DEF Standing
<1> QED BY <1>5, <1>12 DEF b

\* ... or lie behind them already.
LEMMA StayedStanding ==
  ASSUME Room, NEW o \in Nat, NEW sk, NEW k \in Nat, Standing(argv, argc, o, sk, k),
         sk[1] = sk[2] \/ sk[2] = o
  PROVE  Standing(argv, argc, o, <<IF sk[2] # o THEN o ELSE sk[1], o>>, k)
<1>1. line \in Lines /\ argc \in Nat
  BY DEF Room
<1>2. PICK L \in Nat, p \in Nat, q \in Nat, f \in Nat, l \in Nat :
        L = Len(line) /\ p = Place(Own, k) /\ q = Place(Two, k) /\ f = sk[1] /\ l = sk[2]
  BY <1>1, StandingNumbers
<1>3. o = p + q + 1 /\ f >= 1 /\ l = f + q /\ l <= o /\ (f = l \/ l = o)
  BY <1>2 DEF Standing
<1>4. PICK g : g = <<IF sk[2] # o THEN o ELSE sk[1], o>>
  OBVIOUS
<1>5. g[1] = p + 1 /\ g[2] = o
  <2>1. (IF l # o THEN o ELSE f) = p + 1
    BY ONLY <1>3, o \in Nat, p \in Nat, q \in Nat, f \in Nat, l \in Nat
  <2> QED BY <1>2, <1>4, <2>1
<1>6. OwnAt(argv, g, k)
  <2> SUFFICES ASSUME NEW i \in Own, i <= k
               PROVE  argv[IF Place(Own, i) < g[1] THEN Place(Own, i)
                           ELSE Place(Own, i) + Place(Two, k)] = line[i]
    BY DEF OwnAt
  <2>1. PICK r \in Nat : r = Place(Own, i) /\ r >= 1 /\ r <= p
    BY <1>1, <1>2, LineShape, PlaceOf
  <2>2. argv[IF r < f THEN r ELSE r + q] = line[i]
    BY <1>2, <2>1 DEF Standing, OwnAt
  <2>3. r < p + 1 /\ (IF r < f THEN r ELSE r + q) = r
    BY ONLY <1>3, <2>1, p \in Nat, q \in Nat, o \in Nat, f \in Nat, l \in Nat, r \in Nat
  <2>4. argv[r] = line[i]
    BY ONLY <2>2, <2>3
  <2> QED BY ONLY <1>5, <2>1, <2>3, <2>4
<1>7. OperandsAt(argv, g, k)
  <2> SUFFICES ASSUME NEW i \in Two, i <= k
               PROVE  argv[(g[1] - 1) + Place(Two, i)] = line[i]
    BY DEF OperandsAt
  <2>1. PICK r \in Nat : r = Place(Two, i) /\ r >= 1 /\ r <= q
    BY <1>1, <1>2, LineShape, PlaceOf
  <2>2. argv[(f - 1) + r] = line[i]
    BY <1>2, <2>1 DEF Standing, OperandsAt
  <2>3. f = p + 1
    BY ONLY <1>3, <2>1, p \in Nat, q \in Nat, o \in Nat, f \in Nat, l \in Nat, r \in Nat
  <2> QED BY ONLY <1>5, <2>1, <2>2, <2>3
<1>8. g[1] \in Nat /\ g[1] >= 1 /\ g[2] = g[1] + Place(Two, k) /\ g[2] <= o
  <2>1. p + 1 \in Nat /\ p + 1 >= 1 /\ o = (p + 1) + q /\ o <= o
    BY <1>3
  <2> QED BY ONLY <1>2, <1>5, <2>1
<1>9. Standing(argv, argc, o, g, k)
  BY <1>6, <1>7, <1>8 DEF Standing
<1> QED BY <1>4, <1>9

\* Operands that getopt passes by become the last it has skipped.
LEMMA SkipStanding ==
  ASSUME line \in Lines, Plain(line), NEW a, NEW n \in Nat, NEW o \in Nat, NEW sk,
         NEW k \in Nat, Standing(a, n, o, sk, k), sk[2] = o,
         NEW m \in Nat, k <= m, m <= Len(line), \A j \in k + 1 .. m : line[j].opts = <<>>
  PROVE  Standing(a, n, o + (m - k), <<sk[1], o + (m - k)>>, m)
<1>1. PICK L \in Nat, p \in Nat, q \in Nat, f \in Nat, d \in Nat, t \in Nat :
        /\ L = Len(line) /\ p = Place(Own, k) /\ q = Place(Two, k) /\ f = sk[1]
        /\ m = k + d /\ t = o + d /\ t = o + (m - k)
  <2>1. m - k \in Nat /\ o + (m - k) \in Nat /\ m = k + (m - k)
    BY ONLY m \in Nat, k \in Nat, k <= m, o \in Nat
  <2>2. /\ Len(line) \in Nat /\ Place(Own, k) \in Nat /\ Place(Two, k) \in Nat
        /\ sk[1] \in Nat
    BY StandingNumbers
  <2> QED BY ONLY <2>1, <2>2
<1>2. /\ o = p + q + 1 /\ n = o + (L - k) /\ k <= L /\ m <= L /\ o = f + q /\ f >= 1
      /\ m = k + d /\ t = o + d /\ f = p + 1
  <2>1. o = p + q + 1 /\ n = o + (L - k) /\ k <= L /\ m <= L /\ o = f + q /\ f >= 1
    BY <1>1 DEF Standing
  <2>2. f = p + 1
    BY ONLY <2>1, o \in Nat, p \in Nat, q \in Nat, f \in Nat
  <2> QED BY ONLY <1>1, <2>1, <2>2
<1>3. \A j \in k + 1 .. m : j \in Two /\ j \notin Own
  BY OperandRun DEF Standing
<1>4. Boundary(m)
  BY OperandRun DEF Standing
<1>5. /\ Len(line) \in Nat
      /\ Own \in SUBSET (1 .. Len(line)) /\ Two \in SUBSET (1 .. Len(line))
  BY LineShape
<1>6. Place(Own, m) = p
  <2>1. PICK M \in Nat : Own \in SUBSET (1 .. M)
    BY ONLY <1>5
  <2>2. \A j \in k + 1 .. m : j \notin Own
    BY ONLY <1>3
  <2>3. Place(Own, m) = Place(Own, k)
    BY ONLY <2>1, <2>2, M \in Nat, m \in Nat, k \in Nat, k <= m, PlaceNone
  <2> QED BY ONLY <1>1, <2>3
<1>7. \A i \in k + 1 .. m : Place(Two, i) = q + (i - k)
  <2> SUFFICES ASSUME NEW i \in k + 1 .. m PROVE Place(Two, i) = q + (i - k)
    OBVIOUS
  <2>1. i \in Nat /\ k <= i /\ \A j \in k + 1 .. i : j \in Two
    BY <1>3
  <2>2. Place(Two, i) = Place(Two, k) + (i - k)
    BY ONLY k \in Nat, <2>1, <1>5, i \in k + 1 .. m, PlaceAll
  <2> QED BY <1>1, <2>2
<1>8. Place(Two, m) = q + d
  <2>1. Place(Two, m) = Place(Two, k) + (m - k)
    BY ONLY <1>3, <1>5, m \in Nat, k \in Nat, k <= m, PlaceAll
  <2>2. m - k = d
    BY ONLY <1>2, m \in Nat, k \in Nat, d \in Nat
  <2> QED BY ONLY <1>1, <2>1, <2>2
<1>9. PICK g : g = <<f, t>>
  OBVIOUS
<1>10. g[1] = f /\ g[2] = t
  BY <1>9
<1>11. Unread(a, t, m)
  <2> SUFFICES ASSUME NEW j \in m + 1 .. Len(line) PROVE a[(t + (j - m)) - 1] = line[j]
    BY DEF Unread
  <2>1. j \in k + 1 .. Len(line) /\ (t + (j - m)) - 1 = (o + (j - k)) - 1
    <3>1. j \in Nat /\ j >= m + 1 /\ j <= L
      BY <1>1
    <3>2. j \in k + 1 .. L /\ (t + (j - m)) - 1 = (o + (j - k)) - 1
      BY ONLY <1>2, <3>1, o \in Nat, p \in Nat, q \in Nat, n \in Nat, f \in Nat,
              k \in Nat, m \in Nat, L \in Nat, d \in Nat, t \in Nat
    <3> QED BY ONLY <1>1, <3>2
  <2> QED BY <2>1 DEF Standing, Unread
<1>12. OwnAt(a, g, m)
  <2> SUFFICES ASSUME NEW i \in Own, i <= m
               PROVE  a[IF Place(Own, i) < g[1] THEN Place(Own, i)
                        ELSE Place(Own, i) + Place(Two, m)] = line[i]
    BY DEF OwnAt
  <2>1. i \in Nat /\ i \notin k + 1 .. m
    BY <1>3, <1>5
  <2>2. i <= k
    BY ONLY <2>1, i <= m, k \in Nat, m \in Nat
  <2>3. PICK r \in Nat : r = Place(Own, i) /\ r >= 1 /\ r <= p
    BY <1>1, <2>2, LineShape, PlaceOf
  <2>4. a[IF r < f THEN r ELSE r + q] = line[i]
    BY <1>1, <2>2, <2>3 DEF Standing, OwnAt
  <2>5. r < f
    BY ONLY <1>2, <2>3, p \in Nat, f \in Nat
  <2> QED BY ONLY <1>10, <2>3, <2>4, <2>5
<1>13. OperandsAt(a, g, m)
  <2> SUFFICES ASSUME NEW i \in Two, i <= m
               PROVE  a[(g[1] - 1) + Place(Two, i)] = line[i]
    BY DEF OperandsAt
  <2>1. i \in Nat
    BY <1>5
  <2>2. CASE i <= k
    BY <1>1, <1>10, <2>2 DEF Standing, OperandsAt
  <2>3. CASE ~(i <= k)
    <3>1. i \in k + 1 .. m
      BY ONLY <2>1, <2>3, i <= m, k \in Nat, m \in Nat
    <3>2. Place(Two, i) = q + (i - k)
      BY <1>7, <3>1
    <3>3. i \in k + 1 .. L /\ (f - 1) + (q + (i - k)) = (o + (i - k)) - 1
      BY ONLY <1>2, <2>1, <3>1, k \in Nat, m \in Nat, L \in Nat, f \in Nat, q \in Nat,
              p \in Nat, o \in Nat
    <3>4. a[(o + (i - k)) - 1] = line[i]
      BY <1>1, <3>3 DEF Standing, Unread
    <3> QED BY ONLY <1>10, <3>2, <3>3, <3>4
  <2> QED BY <2>2, <2>3
<1>14. /\ t = Place(Own, m) + Place(Two, m) + 1 /\ n = t + (Len(line) - m)
       /\ g[1] \in Nat /\ g[1] >= 1 /\ g[2] = g[1] + Place(Two, m) /\ g[2] <= t
  <2>1. t = p + (q + d) + 1 /\ n = t + (L - m) /\ t = f + (q + d) /\ t <= t
    BY ONLY <1>2, o \in Nat, k \in Nat, m \in Nat, L \in Nat, d \in Nat, t \in Nat,
            p \in Nat, q \in Nat, f \in Nat, n \in Nat
  <2> QED BY ONLY <1>1, <1>2, <1>6, <1>8, <1>10, <2>1, f \in Nat
<1>15. Standing(a, n, t, g, m)
  BY <1>4, <1>11, <1>12, <1>13, <1>14 DEF Standing
<1> QED BY <1>1, <1>9, <1>15

\* getopt goes on to the next option of the line, or to its end: it takes FUSE's
\* words to the front, and the operands it passes stay in order behind them.
LEMMA NextStanding ==
  ASSUME Room, Plain(line), NEW o \in Nat, NEW sk, NEW k \in Nat,
         Standing(argv, argc, o, sk, k)
  PROVE  LET s == NextWord(o, sk) IN
         \E m \in Nat :
           /\ k <= m /\ m <= Len(line) /\ \A j \in k + 1 .. m : line[j].opts = <<>>
           /\ Standing(s.argv, argc, s.skipped[2], s.skipped, m)
           /\ \/ m = Len(line) /\ s.word = NoWord /\ s.optind = s.skipped[1]
              \/ /\ m < Len(line) /\ s.word = line[m + 1] /\ line[m + 1].opts # <<>>
                 /\ s.optind = s.skipped[2]
<1> DEFINE f == Least(sk[1], o)
           l == Least(sk[2], o)
           moved == f # l /\ l # o
           start == IF moved THEN f + o - l ELSE IF l # o THEN o ELSE f
           a == IF moved THEN Exchanged(argv, f, l, o) ELSE argv
           next == CHOOSE i \in o .. argc :
                     /\ i = argc \/ a[i].opts # <<>>
                     /\ \A j \in o .. i - 1 : a[j].opts = <<>>
           to == IF next = argc /\ start # next THEN start ELSE next
           word == IF next = argc THEN NoWord ELSE a[next]
<1>1. line \in Lines /\ argc \in Nat
  BY DEF Room
<1>2. PICK L \in Nat : L = Len(line)
  BY <1>1, StandingNumbers
<1>3. argc = o + (L - k) /\ k <= L /\ o <= argc
  <2>1. argc = o + (L - k) /\ k <= L
    BY <1>2 DEF Standing
  <2> QED BY ONLY <2>1, o \in Nat, k \in Nat, L \in Nat, <1>1
<1>4. f = sk[1] /\ l = sk[2]
  <2>1. sk[1] \in Nat /\ sk[2] \in Nat /\ sk[1] <= sk[2] /\ sk[2] <= o
    <3>1. PICK q \in Nat : q = Place(Two, k)
      BY <1>1, StandingNumbers
    <3>2. sk[1] \in Nat /\ sk[2] = sk[1] + q /\ sk[2] <= o
      BY <3>1 DEF Standing
    <3> QED BY ONLY <3>2, q \in Nat
  <2> QED BY <2>1 DEF Least
<1>5. PICK g : g = <<start, o>>
  OBVIOUS
<1>6. Standing(a, argc, o, g, k)
  <2>1. CASE moved
    <3>1. Standing(Exchanged(argv, sk[1], sk[2], o), argc, o, <<sk[1] + (o - sk[2]), o>>, k)
      BY <1>4, <2>1, MovedStanding
    <3>2. a = Exchanged(argv, f, l, o) /\ start = f + (o - l)
      <4> HIDE DEF f, l
      <4> QED BY <2>1
    <3>3. a = Exchanged(argv, sk[1], sk[2], o) /\ start = sk[1] + (o - sk[2])
      <4> HIDE DEF a, start, f, l
      <4> QED BY ONLY <1>4, <3>2
    <3>4. g = <<sk[1] + (o - sk[2]), o>>
      <4> HIDE DEF a, start
      <4> QED BY ONLY <1>5, <3>3
    <3> QED BY ONLY <3>1, <3>3, <3>4
  <2>2. CASE ~moved
    <3>1. sk[1] = sk[2] \/ sk[2] = o
      BY <1>4, <2>2
    <3>2. Standing(argv, argc, o, <<IF sk[2] # o THEN o ELSE sk[1], o>>, k)
      BY <3>1, StayedStanding
    <3>3. a = argv /\ g = <<IF sk[2] # o THEN o ELSE sk[1], o>>
      BY <1>4, <1>5, <2>2
    <3> QED BY ONLY <3>2, <3>3
  <2> QED BY <2>1, <2>2
<1>7. /\ next \in o .. argc /\ (next = argc \/ a[next].opts # <<>>)
      /\ \A j \in o .. next - 1 : a[j].opts = <<>>
  <2> HIDE DEF a
  <2>1. o \in 0 .. argc
    BY <1>1, <1>3
  <2> QED BY <1>1, <2>1, NextOption
<1>8. NextWord(o, sk) =
        [argv |-> a, optind |-> to, skipped |-> <<start, next>>, word |-> word]
  BY DEF NextWord
<1> HIDE DEF next, start, a
<1>9. PICK m \in Nat, t \in Nat :
        /\ t = next /\ m = k + (t - o) /\ t = o + (m - k) /\ k <= m /\ m <= L /\ t <= argc
        /\ (t = argc <=> m = L)
  <2>1. next \in Nat /\ next >= o /\ next <= argc
    BY <1>7, <1>1
  <2>2. PICK t \in Nat : t = next /\ t >= o /\ t <= argc
    BY <2>1
  <2>3. k + (t - o) \in Nat
    BY ONLY <2>2, t \in Nat, o \in Nat, k \in Nat
  <2>4. PICK m \in Nat : m = k + (t - o)
    BY <2>3
  <2>5. t = o + (m - k) /\ k <= m /\ m <= L /\ (t = argc <=> m = L)
    BY ONLY <1>1, <1>3, <2>2, <2>4, t \in Nat, o \in Nat, k \in Nat, L \in Nat, m \in Nat
  <2> QED BY <2>2, <2>4, <2>5
<1>10. \A j \in k + 1 .. m : line[j].opts = <<>>
  <2> SUFFICES ASSUME NEW j \in k + 1 .. m PROVE line[j].opts = <<>>
    OBVIOUS
  <2>1. j \in k + 1 .. L /\ (o + (j - k)) - 1 \in o .. t - 1
    BY ONLY <1>9, j \in k + 1 .. m, k \in Nat, m \in Nat, L \in Nat, o \in Nat, t \in Nat
  <2>2. a[(o + (j - k)) - 1] = line[j]
    BY <1>2, <1>6, <2>1 DEF Standing, Unread
  <2> QED BY <1>7, <1>9, <2>1, <2>2
<1>11. Standing(a, argc, t, <<start, t>>, m)
  <2>1. g[1] = start /\ g[2] = o
    BY <1>5
  <2>2. m <= Len(line)
    BY <1>2, <1>9
  <2>3. Standing(a, argc, o + (m - k), <<g[1], o + (m - k)>>, m)
    BY <1>1, <1>6, <1>9, <1>10, <2>1, <2>2, SkipStanding
  <2> QED BY ONLY <1>9, <2>1, <2>3
<1>12. \/ m = Len(line) /\ word = NoWord /\ to = start
       \/ m < Len(line) /\ word = line[m + 1] /\ line[m + 1].opts # <<>> /\ to = t
  <2>1. CASE t = argc
    BY <1>2, <1>9, <2>1
  <2>2. CASE t # argc
    <3>1. m < L /\ word = a[t] /\ to = t /\ a[t].opts # <<>>
      BY <1>7, <1>9, <2>2
    <3>2. m + 1 \in k + 1 .. L /\ (o + ((m + 1) - k)) - 1 = t
      BY ONLY <1>9, <3>1, k \in Nat, m \in Nat, L \in Nat, o \in Nat, t \in Nat
    <3>3. a[(o + ((m + 1) - k)) - 1] = line[m + 1]
      BY <1>2, <1>6, <3>2 DEF Standing, Unread
    <3>4. a[t] = line[m + 1]
      BY ONLY <3>2, <3>3
    <3> QED BY <1>2, <3>1, <3>4
  <2> QED BY <2>1, <2>2
<1>13. /\ NextWord(o, sk).argv = a /\ NextWord(o, sk).optind = to
       /\ NextWord(o, sk).skipped = <<start, t>> /\ NextWord(o, sk).word = word
       /\ NextWord(o, sk).skipped[1] = start /\ NextWord(o, sk).skipped[2] = t
  <2> HIDE DEF to, word
  <2> QED BY <1>8, <1>9
<1> HIDE DEF to, word
<1>14. k <= m /\ m <= Len(line) /\ m \in Nat
  BY <1>2, <1>9
<1> QED BY ONLY <1>10, <1>11, <1>12, <1>13, <1>14

\* The option of one letter that getopt takes from s, where its word is Opt(c).
OptionTaken(t, s, c) ==
  /\ t.rest = NoWord
  /\ c \in {"p", "o"} =>
       IF s.optind + 1 >= argc THEN t.opt = "?"
       ELSE /\ t.opt = c /\ t.arg = Text(s.argv[s.optind + 1])
            /\ t.optind = (s.optind + 1) + 1
  /\ c \in {"l", "i", "s", "d", "f"} =>
       t.opt = c /\ t.arg = "" /\ t.optind = s.optind + 1

\* What getopt makes of the end, and of an option of one letter.
LEMMA TakenPlain ==
  ASSUME NEW s, NEW t, t = Taken(s)
  PROVE  /\ t.argv = s.argv /\ t.skipped = s.skipped
         /\ s.word = NoWord =>
              t.opt = "end" /\ t.optind = s.optind /\ t.rest = NoWord
         /\ \A c : s.word = Opt(c) => OptionTaken(t, s, c)
<1>1. t.argv = s.argv /\ t.skipped = s.skipped
  BY DEF Taken
<1>2. s.word = NoWord =>
        t.opt = "end" /\ t.optind = s.optind /\ t.rest = NoWord
  BY DEF Taken
<1>3. ASSUME NEW c, s.word = Opt(c) PROVE OptionTaken(t, s, c)
  <2> DEFINE d == Head(s.word.opts)
             more == [opts |-> Tail(s.word.opts), arg |-> s.word.arg]
             after == IF more.opts = <<>> THEN s.optind + 1 ELSE s.optind
             at(opt, arg, o, r) == [opt |-> opt, arg |-> arg, argv |-> s.argv, optind |-> o,
                                    skipped |-> s.skipped, rest |-> r]
  <2>1. d = c /\ s.word.arg = "" /\ more.opts = <<>> /\ s.word # NoWord
    <3>1. NoWord.opts = <<>>
      BY DEF NoWord, Operand
    <3> QED BY <1>3, <3>1, OptWord
  <2>2. after = s.optind + 1
    BY <2>1
  <2>3. CASE c \in {"p", "o"}
    <3>1. CASE s.optind + 1 >= argc
      <4>1. t = at("?", "", after, NoWord)
        BY <2>1, <2>2, <2>3, <3>1 DEF Taken
      <4>2. t.rest = NoWord /\ t.opt = "?"
        <5> HIDE DEF after
        <5> QED BY ONLY <4>1
      <4>3. c \notin {"l", "i", "s", "d", "f"}
        BY <2>3
      <4> QED BY ONLY <2>3, <3>1, <4>2, <4>3 DEF OptionTaken
    <3>2. CASE ~(s.optind + 1 >= argc)
      <4>1. t = at(d, Text(s.argv[after]), after + 1, NoWord)
        BY <2>1, <2>2, <2>3, <3>2 DEF Taken
      <4>2. /\ t.rest = NoWord /\ t.opt = d
            /\ t.arg = Text(s.argv[after]) /\ t.optind = after + 1
        <5> HIDE DEF d, after, more
        <5> QED BY <4>1
      <4>3. c \notin {"l", "i", "s", "d", "f"}
        BY <2>3
      <4> HIDE DEF d, after, more
      <4> QED BY ONLY <2>1, <2>2, <2>3, <3>2, <4>2, <4>3 DEF OptionTaken
    <3> QED BY <3>1, <3>2
  <2>4. CASE c = "l"
    <3>1. t = at(d, s.word.arg, s.optind + 1, NoWord)
      BY <2>1, <2>4 DEF Taken
    <3>2. /\ t.rest = NoWord /\ t.opt = d
          /\ t.arg = s.word.arg /\ t.optind = s.optind + 1
      <4> HIDE DEF d, after, more
      <4> QED BY <3>1
    <3>3. c \notin {"p", "o"}
      BY <2>4
    <3> HIDE DEF d, after, more
    <3> QED BY ONLY <2>1, <2>4, <3>2, <3>3 DEF OptionTaken
  <2>5. CASE c \notin {"p", "o", "l"}
    <3>1. t = at(d, "", after, NoWord)
      BY <2>1, <2>5 DEF Taken
    <3>2. /\ t.rest = NoWord /\ t.opt = d
          /\ t.arg = "" /\ t.optind = after
      <4> HIDE DEF d, after, more
      <4> QED BY ONLY <3>1 DEF at
    <3>3. c \notin {"p", "o"}
      BY <2>5
    <3> HIDE DEF d, after, more
    <3> QED BY ONLY <2>1, <2>2, <3>2, <3>3 DEF OptionTaken
  <2> QED BY <2>3, <2>4, <2>5
<1> QED BY <1>1, <1>2, <1>3

\* What getopt comes to on a plain line: behind m words, it has found the end,
\* an option whose value is missing, one with its value, or one without.
Found(g, m) ==
  /\ Standing(g.argv, argc, g.skipped[2], g.skipped, m) /\ g.rest = NoWord
  /\ \/ m = Len(line) /\ g.opt = "end" /\ g.optind = g.skipped[1]
     \/ m + 1 = Len(line) /\ line[m + 1] \in {Opt("p"), Opt("o")} /\ g.opt = "?"
     \/ /\ m + 2 <= Len(line) /\ g.opt \in {"p", "o"} /\ line[m + 1] = Opt(g.opt)
        /\ g.arg = line[m + 2].arg /\ g.optind = g.skipped[2] + 2
     \/ /\ m + 1 <= Len(line) /\ g.opt \in {"l", "i", "s", "d", "f"}
        /\ line[m + 1] = Opt(g.opt) /\ g.arg = "" /\ g.optind = g.skipped[2] + 1

LEMMA PlainFound ==
  ASSUME Room, Plain(line), rest = NoWord, NEW k \in Nat,
         Standing(argv, argc, optind, skipped, k)
  PROVE  \E m \in Nat :
           /\ k <= m /\ m <= Len(line) /\ \A j \in k + 1 .. m : line[j].opts = <<>>
           /\ Found(Getopt, m)
<1>1. line \in Lines /\ argc \in Nat
  BY DEF Room
<1>2. optind \in Nat /\ optind >= 1 /\ optind <= argc
  BY <1>1, StandingNumbers
<1>3. PICK s : s = NextWord(optind, skipped)
  OBVIOUS
<1>4. Getopt = Taken(s)
  <2>1. ~(argc < 1) /\ optind # 0
    BY <1>1, <1>2
  <2> QED BY <1>3, <2>1 DEF Getopt, Scanned
<1>5. PICK m \in Nat :
        /\ k <= m /\ m <= Len(line) /\ \A j \in k + 1 .. m : line[j].opts = <<>>
        /\ Standing(s.argv, argc, s.skipped[2], s.skipped, m)
        /\ \/ m = Len(line) /\ s.word = NoWord /\ s.optind = s.skipped[1]
           \/ /\ m < Len(line) /\ s.word = line[m + 1] /\ line[m + 1].opts # <<>>
              /\ s.optind = s.skipped[2]
  BY <1>2, <1>3, NextStanding
<1>6. PICK g : g = Taken(s) /\ g.argv = s.argv /\ g.skipped = s.skipped
  BY TakenPlain
<1>7. Found(g, m)
  <2>1. CASE m = Len(line) /\ s.word = NoWord /\ s.optind = s.skipped[1]
    <3>1. g.opt = "end" /\ g.optind = s.optind /\ g.rest = NoWord
      BY <1>6, <2>1, TakenPlain
    <3> QED BY <1>5, <1>6, <2>1, <3>1 DEF Found
  <2>2. CASE /\ m < Len(line) /\ s.word = line[m + 1] /\ line[m + 1].opts # <<>>
             /\ s.optind = s.skipped[2]
    <3>1. PICK c \in Letters : line[m + 1] = Opt(c)
      <4>1. Boundary(m)
        BY <1>5 DEF Standing
      <4> QED BY <1>1, <2>2, <4>1, OptionWord
    <3>a. OptionTaken(g, s, c)
      BY <1>6, <2>2, <3>1, TakenPlain
    <3>2. g.rest = NoWord
      BY <3>a DEF OptionTaken
    <3>3. PICK L \in Nat, t \in Nat :
            L = Len(line) /\ t = s.skipped[2] /\ argc = t + (L - m) /\ m < L
      <4>1. Len(line) \in Nat /\ s.skipped[2] \in Nat
        BY <1>1, <1>5, StandingNumbers
      <4> QED BY <1>5, <2>2, <4>1 DEF Standing
    <3>4. CASE c \in {"p", "o"}
      <4>1. CASE m + 1 = L
        <5>1. t + 1 >= argc
          BY ONLY <3>3, <4>1, t \in Nat, m \in Nat, L \in Nat
        <5>2. g.opt = "?"
          BY ONLY <2>2, <3>3, <3>4, <3>a, <5>1 DEF OptionTaken
        <5> QED BY <1>5, <1>6, <3>1, <3>2, <3>3, <3>4, <4>1, <5>2 DEF Found
      <4>2. CASE m + 1 # L
        <5>1. /\ ~(t + 1 >= argc) /\ m + 2 <= L /\ m + 2 \in m + 1 .. L
              /\ (t + ((m + 2) - m)) - 1 = t + 1 /\ (t + 1) + 1 = t + 2
          BY ONLY <3>3, <4>2, t \in Nat, m \in Nat, L \in Nat
        <5>2. /\ g.opt = c /\ g.arg = Text(s.argv[s.optind + 1])
              /\ g.optind = (s.optind + 1) + 1
          BY ONLY <2>2, <3>3, <3>4, <3>a, <5>1 DEF OptionTaken
        <5>3. s.argv[(t + ((m + 2) - m)) - 1] = line[m + 2]
          BY <1>5, <3>3, <5>1 DEF Standing, Unread
        <5>5. line[m + 2].opts = <<>>
          BY <1>1, <1>5, <3>1, <3>3, <3>4, <5>1, ValueWord DEF Standing
        <5>4. g.arg = line[m + 2].arg /\ g.optind = t + 2
          BY ONLY <2>2, <3>3, <5>1, <5>2, <5>3, <5>5 DEF Text
        <5> QED BY <1>5, <1>6, <3>1, <3>2, <3>3, <3>4, <5>1, <5>2, <5>4 DEF Found
      <4> QED BY <4>1, <4>2
    <3>5. CASE c \in {"l", "i", "s", "d", "f"}
      <4>1. g.opt = c /\ g.arg = "" /\ g.optind = s.optind + 1
        BY ONLY <3>5, <3>a DEF OptionTaken
      <4>2. m + 1 <= L
        BY <3>3
      <4> QED BY <1>5, <1>6, <2>2, <3>1, <3>2, <3>3, <3>5, <4>1, <4>2 DEF Found
    <3> QED BY <3>1, <3>4, <3>5 DEF Letters
  <2> QED BY <1>5, <2>1, <2>2
<1> QED BY <1>4, <1>5, <1>6, <1>7

-----------------------------------------------------------------------------
(* What has been noted of the first k words.                               *)

\* Option c is among them; "ro" is the value of an -o; v is the partition that
\* the last -p has given.
Seen(c, k) == \E i \in DOMAIN line : i <= k /\ line[i] = Opt(c)
AskedReadOnly(k) ==
  \E i \in DOMAIN line : i <= k /\ ValueOf(line, i, "o") /\ line[i].arg = "ro"
LastPartition(v, k) ==
  LET parts == {i \in DOMAIN line : i <= k /\ ValueOf(line, i, "p")} IN
  /\ parts = {} => v = 0
  /\ \A i \in parts : (\A j \in parts : j <= i) => v = Volume(line[i].arg)

Noted(r, k) ==
  /\ LastPartition(r.adf_volume, k)
  /\ r.logging <=> Seen("l", k)
  /\ r.ignore_checksum_errors <=> Seen("i", k)
  /\ r.single_threaded <=> Seen("s", k)
  /\ r.write_mode <=> ~AskedReadOnly(k)

\* Words up to the m-th, when the first k are known.
LEMMA SeenMore ==
  ASSUME line \in Lines, NEW k \in Nat, NEW m \in Nat, k <= m, m <= Len(line)
  PROVE  /\ \A c : Seen(c, m) <=> Seen(c, k) \/ \E i \in k + 1 .. m : line[i] = Opt(c)
         /\ AskedReadOnly(m) <=>
              \/ AskedReadOnly(k)
              \/ \E i \in k + 1 .. m : ValueOf(line, i, "o") /\ line[i].arg = "ro"
         /\ \A v : (\A i \in k + 1 .. m : ~ValueOf(line, i, "p")) =>
              (LastPartition(v, k) <=> LastPartition(v, m))
<1>1. Len(line) \in Nat /\ DOMAIN line = 1 .. Len(line)
  BY LineShape
<1>2. /\ \A i \in DOMAIN line : i <= m <=> (i <= k \/ i \in k + 1 .. m)
      /\ \A i \in k + 1 .. m : i \in DOMAIN line
  BY <1>1
<1>3. \A c : Seen(c, m) <=> Seen(c, k) \/ \E i \in k + 1 .. m : line[i] = Opt(c)
  BY <1>2, Zenon DEF Seen
<1>4. AskedReadOnly(m) <=>
        \/ AskedReadOnly(k)
        \/ \E i \in k + 1 .. m : ValueOf(line, i, "o") /\ line[i].arg = "ro"
  BY <1>2, Zenon DEF AskedReadOnly
<1>5. ASSUME NEW v, \A i \in k + 1 .. m : ~ValueOf(line, i, "p")
      PROVE  LastPartition(v, k) <=> LastPartition(v, m)
  <2>1. \A i \in DOMAIN line :
          i <= m /\ ValueOf(line, i, "p") <=> i <= k /\ ValueOf(line, i, "p")
    BY <1>2, <1>5
  <2>2. {i \in DOMAIN line : i <= m /\ ValueOf(line, i, "p")}
          = {i \in DOMAIN line : i <= k /\ ValueOf(line, i, "p")}
    BY <2>1, Zenon
  <2> QED BY <2>2, Zenon DEF LastPartition
<1> QED BY <1>3, <1>4, <1>5

\* Operands are not noted.
LEMMA NotedRun ==
  ASSUME line \in Lines, Plain(line), NEW r, NEW k \in Nat, Boundary(k), Noted(r, k),
         NEW m \in Nat, k <= m, m <= Len(line), \A j \in k + 1 .. m : line[j].opts = <<>>
  PROVE  Noted(r, m)
<1>1. \A j \in k + 1 .. m :
        (\A c : line[j] # Opt(c)) /\ ~ValueOf(line, j, "p") /\ ~ValueOf(line, j, "o")
  BY OperandRun
<1>2. \A c : Seen(c, m) <=> Seen(c, k)
  BY <1>1, SeenMore
<1>3. AskedReadOnly(m) <=> AskedReadOnly(k)
  BY <1>1, SeenMore
<1>4. LastPartition(r.adf_volume, m)
  BY <1>1, SeenMore DEF Noted
<1> QED BY <1>2, <1>3, <1>4 DEF Noted

\* What is noted of an option without a value.
LEMMA NotedOption ==
  ASSUME line \in Lines, Plain(line), NEW r, NEW m \in Nat, Boundary(m), Noted(r, m),
         m + 1 <= Len(line), NEW c \in {"l", "i", "s", "d", "f"}, line[m + 1] = Opt(c),
         NEW s, s.adf_volume = r.adf_volume, s.write_mode = r.write_mode,
         s.logging = IF c = "l" THEN TRUE ELSE r.logging,
         s.ignore_checksum_errors = IF c = "i" THEN TRUE ELSE r.ignore_checksum_errors,
         s.single_threaded = IF c = "s" THEN TRUE ELSE r.single_threaded
  PROVE  Noted(s, m + 1)
<1>1. PICK n \in Nat : n = m + 1 /\ m <= n /\ n <= Len(line)
  BY LineShape
<1>2. \A i : i \in m + 1 .. n <=> i = n
  BY <1>1
<1>3. ~ValueOf(line, n, "p") /\ ~ValueOf(line, n, "o")
  <2>1. n - 1 = m /\ (n > 1 => m # 0)
    BY <1>1
  <2> QED BY <2>1 DEF ValueOf, Boundary
<1>4. \A d : Seen(d, n) <=> Seen(d, m) \/ d = c
  <2>1. \A d : Seen(d, n) <=> Seen(d, m) \/ \E i \in m + 1 .. n : line[i] = Opt(d)
    BY <1>1, SeenMore
  <2>2. \A d : line[n] = Opt(d) <=> d = c
    BY <1>1, OptsDiffer
  <2>3. \A d : (\E i \in m + 1 .. n : line[i] = Opt(d)) <=> line[n] = Opt(d)
    BY ONLY <1>2, Zenon
  <2> QED BY ONLY <2>1, <2>2, <2>3, Zenon
<1>5. AskedReadOnly(n) <=> AskedReadOnly(m)
  <2>1. \A i \in m + 1 .. n : ~ValueOf(line, i, "o")
    BY <1>2, <1>3
  <2> QED BY <1>1, <2>1, SeenMore
<1>6. LastPartition(r.adf_volume, n)
  <2>1. \A i \in m + 1 .. n : ~ValueOf(line, i, "p")
    BY <1>2, <1>3
  <2> QED BY <1>1, <2>1, SeenMore DEF Noted
<1>7. Noted(s, n)
  <2>1. LastPartition(s.adf_volume, n)
    BY <1>6
  <2>2. s.logging <=> Seen("l", n)
    BY <1>4 DEF Noted
  <2>3. s.ignore_checksum_errors <=> Seen("i", n)
    BY <1>4 DEF Noted
  <2>4. s.single_threaded <=> Seen("s", n)
    BY <1>4 DEF Noted
  <2>5. s.write_mode <=> ~AskedReadOnly(n)
    BY <1>5 DEF Noted
  <2> QED BY <2>1, <2>2, <2>3, <2>4, <2>5 DEF Noted
<1> QED BY <1>1, <1>7

\* What is noted of an option with a value.
LEMMA NotedValue ==
  ASSUME line \in Lines, Plain(line), NEW r, NEW m \in Nat, Boundary(m), Noted(r, m),
         m + 2 <= Len(line), NEW c \in {"p", "o"}, line[m + 1] = Opt(c), NEW s,
         s.logging = r.logging, s.ignore_checksum_errors = r.ignore_checksum_errors,
         s.single_threaded = r.single_threaded,
         s.adf_volume = IF c = "p" THEN Volume(line[m + 2].arg) ELSE r.adf_volume,
         s.write_mode = IF c = "o" /\ line[m + 2].arg = "ro" THEN FALSE ELSE r.write_mode
  PROVE  Noted(s, m + 2)
<1>1. PICK n \in Nat : n = m + 2 /\ m <= n /\ n <= Len(line) /\ m + 1 # n /\ n - 1 = m + 1
  BY LineShape
<1>2. \A i : i \in m + 1 .. n <=> i = m + 1 \/ i = n
  BY <1>1
<1>3. ~ValueOf(line, m + 1, "p") /\ ~ValueOf(line, m + 1, "o")
  <2>1. (m + 1) - 1 = m /\ (m + 1 > 1 => m # 0)
    OBVIOUS
  <2> QED BY <2>1 DEF ValueOf, Boundary
<1>4. line[n].opts = <<>> /\ \A d : ValueOf(line, n, d) <=> d = c
  BY <1>1, ValueWord
<1>5. \A d \in {"l", "i", "s"} : Seen(d, n) <=> Seen(d, m)
  <2>1. \A d : Seen(d, n) <=> Seen(d, m) \/ \E i \in m + 1 .. n : line[i] = Opt(d)
    BY <1>1, SeenMore
  <2>2. \A d \in {"l", "i", "s"} : line[m + 1] # Opt(d)
    BY OptsDiffer
  <2>3. \A d : line[n] # Opt(d)
    BY <1>4, OptWord
  <2>4. \A d \in {"l", "i", "s"} : ~\E i \in m + 1 .. n : line[i] = Opt(d)
    BY ONLY <1>2, <2>2, <2>3, Zenon
  <2> QED BY ONLY <2>1, <2>4, Zenon
<1>6. AskedReadOnly(n) <=> AskedReadOnly(m) \/ (c = "o" /\ line[n].arg = "ro")
  <2>1. AskedReadOnly(n) <=>
          \/ AskedReadOnly(m)
          \/ \E i \in m + 1 .. n : ValueOf(line, i, "o") /\ line[i].arg = "ro"
    BY <1>1, SeenMore
  <2>2. ValueOf(line, n, "o") <=> c = "o"
    BY <1>4
  <2> QED BY ONLY <1>2, <1>3, <2>1, <2>2
<1>7. LastPartition(s.adf_volume, n)
  <2>1. CASE c = "o"
    <3>1. \A i \in m + 1 .. n : ~ValueOf(line, i, "p")
      BY <1>2, <1>3, <1>4, <2>1
    <3> QED BY <1>1, <2>1, <3>1, SeenMore DEF Noted
  <2>2. CASE c = "p"
    <3> DEFINE parts == {i \in DOMAIN line : i <= n /\ ValueOf(line, i, "p")}
    <3>1. n \in parts
      <4>1. n \in DOMAIN line /\ n <= n
        BY <1>1, LineShape
      <4> QED BY <1>4, <2>2, <4>1
    <3>2. ASSUME NEW i \in parts, \A j \in parts : j <= i
          PROVE  s.adf_volume = Volume(line[i].arg)
      <4>1. n <= i /\ i <= n /\ i \in Nat
        BY <3>1, <3>2, LineShape
      <4>2. i = n
        BY ONLY <4>1, n \in Nat
      <4> QED BY <1>1, <2>2, <4>2
    <3> QED BY <3>1, <3>2 DEF LastPartition
  <2> QED BY <2>1, <2>2
<1>8. Noted(s, n)
  <2>1. s.logging <=> Seen("l", n)
    BY <1>5 DEF Noted
  <2>2. s.ignore_checksum_errors <=> Seen("i", n)
    BY <1>5 DEF Noted
  <2>3. s.single_threaded <=> Seen("s", n)
    BY <1>5 DEF Noted
  <2>4. s.write_mode <=> ~AskedReadOnly(n)
    BY <1>1, <1>6 DEF Noted
  <2> QED BY <1>7, <2>1, <2>2, <2>3, <2>4 DEF Noted
<1> QED BY <1>1, <1>8

\* Nothing is noted of no words.
LEMMA NotedNothing ==
  ASSUME line \in Lines
  PROVE  Noted(Defaults, 0)
<1>1. \A i \in DOMAIN line : ~(i <= 0)
  BY LineShape
<1>2. /\ \A c : ~Seen(c, 0)
      /\ ~AskedReadOnly(0)
  BY <1>1 DEF Seen, AskedReadOnly
<1>3. LastPartition(0, 0)
  BY <1>1 DEF LastPartition
<1> QED BY <1>2, <1>3 DEF Noted, Defaults

-----------------------------------------------------------------------------
(* What parse_args has made of a plain line.                               *)

Reading ==
  /\ rest = NoWord
  /\ \E k \in Nat : Standing(argv, argc, optind, skipped, k) /\ Noted(options, k)

\* FUSE's words, and the mount point behind them; the operands are taken.
Ready ==
  LET n == Cardinality(Own) IN
  /\ argv[0] = Prog
  /\ \A i \in Own : argv[Place(Own, i)] = line[i]
  /\ Cardinality(Two) = 2
  /\ \A i \in Two : IF Place(Two, i) = 1 THEN options.adf_filename = line[i]
                    ELSE argv[n + 1] = line[i] /\ options.mount_point = Resolved(line[i])
  /\ argc = n + 2

LineInv ==
  Plain(line) =>
    /\ pc = "parse" => Reading
    /\ pc = "parsed" => Ready
    /\ pc \in {"parsed", "fuse"} => Noted(options, Len(line))

\* The options have their fields.
Fields == DOMAIN options = DOMAIN Defaults

PlainInv == LineInv /\ LineServed /\ RefusedForReason

\* Why a plain line may be refused.
Reason ==
  \/ Cardinality(Two) # 2
  \/ \E i \in DOMAIN line :
       \/ /\ ValueOf(line, i, "p")
          /\ line[i].arg \notin DOMAIN Number \/ Volume(line[i].arg) > 10
       \/ line[i] \in {Opt("p"), Opt("o")} /\ i = Len(line)

\* A number that has been cast is a number.
LEMMA VolumeType ==
  ASSUME NEW v \in DOMAIN Number
  PROVE  Volume(v) \in Nat
<1>1. Number[v] \in Nat /\ UInt \in Nat /\ UInt > 0
  BY NumberAssumption
<1> QED BY <1>1 DEF Volume

\* The line stays, and with it what is known of its words.
LEMMA SameWords ==
  ASSUME line' = line
  PROVE  /\ Own' = Own /\ Two' = Two /\ Len(line)' = Len(line)
         /\ Plain(line)' <=> Plain(line)
         /\ Reason' <=> Reason
<1>1. Own' = Own
  BY DEF Own, ForFuse, ValueOf
<1>2. Two' = Two
  BY DEF Two, OperandsOf, ValueOf
<1>3. Plain(line)' <=> Plain(line)
  BY DEF Plain
<1>4. Reason' <=> Reason
  BY <1>2 DEF Reason, ValueOf
<1> QED BY <1>1, <1>2, <1>3, <1>4

LEMMA StandingNext ==
  ASSUME line' = line, NEW k \in Nat, Standing(argv', argc', optind', skipped', k)
  PROVE  Standing(argv, argc, optind, skipped, k)'
<1>1. Own' = Own /\ Two' = Two
  BY SameWords
<1> QED BY <1>1 DEF Standing, Unread, OwnAt, OperandsAt, Boundary

LEMMA NotedNext ==
  ASSUME line' = line, NEW k \in Nat, Noted(options', k)
  PROVE  Noted(options, k)'
<1>1. LastPartition(options.adf_volume, k)'
  BY DEF Noted, LastPartition, ValueOf
<1>2. /\ (options.logging <=> Seen("l", k))'
      /\ (options.ignore_checksum_errors <=> Seen("i", k))'
      /\ (options.single_threaded <=> Seen("s", k))'
  BY DEF Noted, Seen
<1>3. (options.write_mode <=> ~AskedReadOnly(k))'
  BY DEF Noted, AskedReadOnly, ValueOf
<1> QED BY <1>1, <1>2, <1>3 DEF Noted

\* The ways a turn of the loop leaves a plain line.
LEMMA Outcomes ==
  ASSUME line' = line, line \in Lines
  PROVE  /\ pc' = "parse" /\ Reading' => PlainInv'
         /\ pc' = "failed" /\ Reason => PlainInv'
         /\ pc' = "parsed" /\ Ready' /\ Noted(options', Len(line)) => PlainInv'
<1>1. pc' = "parse" /\ Reading' => PlainInv'
  BY DEF PlainInv, LineInv, LineServed, RefusedForReason
<1>2. pc' = "failed" /\ Reason => PlainInv'
  <2>1. pc' = "failed" /\ Reason => RefusedForReason'
    BY SameWords DEF Reason, RefusedForReason, Two
  <2> QED BY <2>1 DEF PlainInv, LineInv, LineServed
<1>3. pc' = "parsed" /\ Ready' /\ Noted(options', Len(line)) => PlainInv'
  <2>1. Noted(options', Len(line)) => Noted(options, Len(line))'
    <3>1. PICK k \in Nat : k = Len(line) /\ k = Len(line)'
      BY LineShape
    <3>2. Noted(options', k) => Noted(options, k)'
      BY NotedNext
    <3> QED BY <3>1, <3>2
  <2> QED BY <2>1 DEF PlainInv, LineInv, LineServed, RefusedForReason
<1> QED BY <1>1, <1>2, <1>3

\* The words of an option found, by its letter.
LEMMA FoundWords ==
  ASSUME line \in Lines, Plain(line), NEW g, NEW m \in Nat, Found(g, m),
         g.opt # "end", g.opt # "?"
  PROVE  LET num == IF g.opt \in {"p", "o"} THEN 2 ELSE 1 IN
         /\ g.opt \in Letters /\ line[m + 1] = Opt(g.opt) /\ Boundary(m)
         /\ m + num <= Len(line) /\ Boundary(m + num) /\ g.optind = g.skipped[2] + num
         /\ \A j \in m + 1 .. m + num :
              j \notin Two /\ (j \in Own <=> g.opt \in {"o", "s", "d", "f"})
         /\ g.opt \in {"p", "o"} => g.arg = line[m + 2].arg
         /\ g.opt \notin {"p", "o"} => g.arg = ""
<1>1. Boundary(m) /\ Len(line) \in Nat
  BY LineShape DEF Found, Standing
<1>2. CASE /\ m + 2 <= Len(line) /\ g.opt \in {"p", "o"} /\ line[m + 1] = Opt(g.opt)
           /\ g.arg = line[m + 2].arg /\ g.optind = g.skipped[2] + 2
  <2>1. PICK c : c = g.opt
    OBVIOUS
  <2>2. line[m + 1].opts # <<>> /\ m < Len(line)
    <3>1. Opt(g.opt).opts # <<>>
      BY OptWord
    <3>2. m < Len(line)
      BY ONLY <1>1, <1>2, m \in Nat
    <3> QED BY ONLY <1>2, <3>1, <3>2
  <2>3. PICK d \in Letters :
          /\ line[m + 1] = Opt(d) /\ m + 1 \notin Two
          /\ m + 1 \in Own <=> d \in {"o", "s", "d", "f"}
    BY <1>1, <2>2, OptionWord
  <2>4. d = c
    BY <1>2, <2>1, <2>3, OptsDiffer
  <2>5. m + 2 \notin Two /\ (m + 2 \in Own <=> c = "o") /\ Boundary(m + 2)
    BY <1>2, <2>1, ValueWord
  <2>6. \A j \in m + 1 .. m + 2 : j = m + 1 \/ j = m + 2
    OBVIOUS
  <2>7. c \in {"p", "o"} /\ c \in Letters /\ (c \in {"o", "s", "d", "f"} <=> c = "o")
    BY <1>2, <2>1 DEF Letters
  <2>8. \A j \in m + 1 .. m + 2 : j \notin Two /\ (j \in Own <=> c \in {"o", "s", "d", "f"})
    BY ONLY <2>3, <2>4, <2>5, <2>6, <2>7
  <2>9. (IF c \in {"p", "o"} THEN 2 ELSE 1) = 2
    BY <2>7
  <2> QED BY ONLY <1>1, <1>2, <2>1, <2>5, <2>7, <2>8, <2>9
<1>3. CASE /\ m + 1 <= Len(line) /\ g.opt \in {"l", "i", "s", "d", "f"}
           /\ line[m + 1] = Opt(g.opt) /\ g.arg = "" /\ g.optind = g.skipped[2] + 1
  <2>1. PICK c : c = g.opt
    OBVIOUS
  <2>2. line[m + 1].opts # <<>> /\ m < Len(line)
    <3>1. Opt(g.opt).opts # <<>>
      BY OptWord
    <3>2. m < Len(line)
      <4>1. PICK L \in Nat : L = Len(line)
        BY <1>1
      <4>2. m + 1 <= L
        BY <1>3, <4>1
      <4>3. m < L
        BY ONLY <4>2, m \in Nat, L \in Nat
      <4> QED BY <4>1, <4>3
    <3> QED BY ONLY <1>3, <3>1, <3>2
  <2>3. PICK d \in Letters :
          /\ line[m + 1] = Opt(d) /\ m + 1 \notin Two
          /\ m + 1 \in Own <=> d \in {"o", "s", "d", "f"}
          /\ d \notin {"p", "o"} => Boundary(m + 1)
    BY <1>1, <2>2, OptionWord
  <2>4. d = c
    BY <1>3, <2>1, <2>3, OptsDiffer
  <2>5. \A j \in m + 1 .. m + 1 : j = m + 1
    OBVIOUS
  <2>6. c \notin {"p", "o"} /\ c \in Letters
    BY <1>3, <2>1 DEF Letters
  <2>7. \A j \in m + 1 .. m + 1 : j \notin Two /\ (j \in Own <=> c \in {"o", "s", "d", "f"})
    BY ONLY <2>3, <2>4, <2>5
  <2>8. (IF c \in {"p", "o"} THEN 2 ELSE 1) = 1
    BY <2>6
  <2> QED BY ONLY <1>1, <1>3, <2>1, <2>3, <2>4, <2>6, <2>7, <2>8
<1> QED BY <1>2, <1>3 DEF Found

\* An option that stays, with its value, for FUSE.
LEMMA KeepReading ==
  ASSUME line \in Lines, NEW g, NEW m \in Nat, Found(g, m), NEW num \in Nat,
         m + num <= Len(line), Boundary(m + num), g.optind = g.skipped[2] + num,
         \A j \in m + 1 .. m + num : j \in Own /\ j \notin Two,
         Keep(g), Noted(options', m + num)
  PROVE  Reading' /\ line' = line
<1>1. /\ argv' = g.argv /\ optind' = g.skipped[2] + num /\ skipped' = g.skipped
      /\ argc' = argc /\ line' = line /\ rest' = NoWord'
  BY DEF Found, Keep, NoWord, Operand
<1>2. PICK o \in Nat, n \in Nat :
        o = g.skipped[2] /\ n = argc /\ Standing(g.argv, n, o, g.skipped, m)
  <2>1. Standing(g.argv, argc, g.skipped[2], g.skipped, m)
    BY DEF Found
  <2>2. g.skipped[2] \in Nat /\ argc \in Nat
    BY <2>1, StandingNumbers
  <2> QED BY <2>1, <2>2
<1>3. Standing(g.argv, n, o + num, g.skipped, m + num)
  BY <1>2, KeepStanding
<1>4. PICK k \in Nat : k = m + num
  OBVIOUS
<1>5. Standing(argv', argc', optind', skipped', k)
  BY ONLY <1>1, <1>2, <1>3, <1>4
<1>6. Standing(argv, argc, optind, skipped, k)'
  BY <1>1, <1>5, StandingNext
<1>7. Noted(options, k)'
  BY <1>1, <1>4, NotedNext
<1> QED BY <1>1, <1>6, <1>7 DEF Reading

\* An option that is parse_args' own goes, with its value.
LEMMA DropReading ==
  ASSUME ArgsInv, NEW g, Returned(g), NEW m \in Nat, Found(g, m), NEW num \in Nat,
         m + num <= Len(line), Boundary(m + num), g.optind = g.skipped[2] + num,
         \A j \in m + 1 .. m + num : j \notin Own /\ j \notin Two,
         Drop(g, num), Noted(options', m + num)
  PROVE  Reading' /\ line' = line
<1>1. line \in Lines /\ argc \in Nat /\ Len(line) \in Nat /\ argc <= Len(line) + 1
  BY LineShape DEF ArgsInv, Room
<1>2. PICK o \in Nat : /\ o = g.skipped[2] /\ o >= 1
                       /\ Standing(g.argv, argc, o, g.skipped, m)
                       /\ argc = o + (Len(line) - m)
  <2>1. Standing(g.argv, argc, g.skipped[2], g.skipped, m)
    BY DEF Found
  <2>2. g.skipped[2] \in Nat /\ g.skipped[2] >= 1
    BY <1>1, <2>1, StandingNumbers
  <2>3. argc = g.skipped[2] + (Len(line) - m)
    BY <2>1 DEF Standing
  <2> QED BY <2>1, <2>2, <2>3
<1>3. g.optind - num = o
  BY <1>2
<1>4. /\ argv' = DropArgs(g.argv, o, num) /\ optind' = o /\ skipped' = g.skipped
      /\ argc' = argc - num /\ line' = line /\ rest' = NoWord'
  BY <1>3 DEF Found, Drop, NoWord, Operand
<1>5. DOMAIN g.argv = 0 .. Len(line) + 1
  BY DEF ArgsInv, Room, Returned, Inside
<1>6. PICK L \in Nat : L = Len(line) /\ argc = o + (L - m) /\ m + num <= L /\ argc <= L + 1
  BY <1>1, <1>2
<1>7. \A i \in 0 .. o - 1 : argv'[i] = g.argv[i]
  <2> SUFFICES ASSUME NEW i \in 0 .. o - 1 PROVE argv'[i] = g.argv[i]
    OBVIOUS
  <2>1. /\ i \in 0 .. L + 1 /\ i \notin o .. (argc - num) - 1 /\ i \notin argc - num .. argc - 1
    <3>1. i \in Nat /\ i <= o - 1
      OBVIOUS
    <3> QED BY ONLY <1>6, <3>1, argc \in Nat, <1>1, o \in Nat, m \in Nat, num \in Nat, L \in Nat
  <2> QED BY ONLY <1>4, <1>5, <1>6, <2>1 DEF DropArgs
<1>8. \A i \in o .. (argc - num) - 1 : argv'[i] = g.argv[i + num]
  <2> SUFFICES ASSUME NEW i \in o .. (argc - num) - 1 PROVE argv'[i] = g.argv[i + num]
    OBVIOUS
  <2>1. i \in 0 .. L + 1
    <3>1. i \in Int /\ i >= o /\ i <= (argc - num) - 1
      BY <1>1
    <3> QED BY ONLY <1>6, <3>1, <1>1, o \in Nat, m \in Nat, num \in Nat, L \in Nat
  <2> QED BY ONLY <1>4, <1>5, <1>6, <2>1, i \in o .. (argc - num) - 1 DEF DropArgs
<1>9. Standing(argv', argc - num, o, g.skipped, m + num)
  BY ONLY <1>1, <1>2, <1>7, <1>8, m \in Nat, num \in Nat, m + num <= Len(line),
          Boundary(m + num), \A j \in m + 1 .. m + num : j \notin Own /\ j \notin Two,
          DropStanding
<1>10. PICK k \in Nat : k = m + num
  OBVIOUS
<1>11. Standing(argv', argc', optind', skipped', k)
  BY ONLY <1>4, <1>9, <1>10
<1>12. Standing(argv, argc, optind, skipped, k)'
  BY <1>4, <1>11, StandingNext
<1>13. Noted(options, k)'
  BY <1>4, <1>10, NotedNext
<1> QED BY <1>4, <1>12, <1>13 DEF Reading

\* The image and the mount point are taken from behind FUSE's words.
LEMMA OperandsReady ==
  ASSUME ArgsInv, Fields, Plain(line), NEW g, Returned(g), Found(g, Len(line)),
         g.optind = g.skipped[1], g.optind + 2 = argc, Operands(g)
  PROVE  Ready' /\ line' = line /\ pc' = "parsed"
<1>1. line \in Lines /\ argc \in Nat /\ Len(line) \in Nat /\ argc <= Len(line) + 1
  BY LineShape DEF ArgsInv, Room
<1>2. PICK p \in Nat, q \in Nat, f \in Nat, t \in Nat, L \in Nat :
        /\ p = Place(Own, L) /\ q = Place(Two, L) /\ f = g.skipped[1] /\ t = g.skipped[2]
        /\ L = Len(line) /\ p = Cardinality(Own) /\ q = Cardinality(Two)
        /\ Standing(g.argv, argc, t, g.skipped, L)
  <2>1. Standing(g.argv, argc, g.skipped[2], g.skipped, Len(line))
    BY DEF Found
  <2>2. /\ Place(Own, Len(line)) \in Nat /\ Place(Two, Len(line)) \in Nat
        /\ g.skipped[1] \in Nat /\ g.skipped[2] \in Nat
    BY <1>1, <2>1, StandingNumbers
  <2>3. Len(line) >= Len(line)
    BY <1>1
  <2>4. Place(Own, Len(line)) = Cardinality(Own) /\ Place(Two, Len(line)) = Cardinality(Two)
    BY <1>1, <2>3, LineShape, PlaceType
  <2> QED BY <1>1, <2>1, <2>2, <2>4
<1>3. f = p + 1 /\ q = 2 /\ argc = p + 3 /\ argc <= L + 1
  <2>1. t = p + q + 1 /\ argc = t + (L - L) /\ t = f + q /\ f + 2 = argc /\ argc <= L + 1
    BY <1>1, <1>2 DEF Standing
  <2> QED BY ONLY <1>1, <2>1, p \in Nat, q \in Nat, f \in Nat, t \in Nat, L \in Nat
<1>4. PICK a : a = g.argv
  OBVIOUS
<1>5. /\ a[0] = Prog
      /\ \A i \in Own : a[Place(Own, i)] = line[i] /\ Place(Own, i) \in 1 .. p
      /\ \A i \in Two : a[p + Place(Two, i)] = line[i] /\ Place(Two, i) \in {1, 2}
  <2>1. a[0] = Prog
    BY <1>2, <1>4 DEF Standing
  <2>2. ASSUME NEW i \in Own PROVE a[Place(Own, i)] = line[i] /\ Place(Own, i) \in 1 .. p
    <3>1. i \in Nat /\ i <= L
      BY <1>1, <1>2, LineShape
    <3>a. Own \in SUBSET (1 .. Len(line))
      BY <1>1, LineShape
    <3>b. Place(Own, i) \in Nat /\ Place(Own, i) >= 1 /\ Place(Own, i) <= Place(Own, L)
      BY ONLY <1>1, <3>1, <3>a, i \in Own, L \in Nat, PlaceOf
    <3>2. PICK r \in Nat : r = Place(Own, i) /\ r >= 1 /\ r <= p
      BY ONLY <1>2, <3>b
    <3>3. r < f
      BY ONLY <1>3, <3>2, p \in Nat, r \in Nat
    <3>4. a[r] = line[i]
      BY <1>2, <1>4, <3>1, <3>2, <3>3 DEF Standing, OwnAt
    <3> QED BY <3>2, <3>4
  <2>3. ASSUME NEW i \in Two PROVE a[p + Place(Two, i)] = line[i] /\ Place(Two, i) \in {1, 2}
    <3>1. i \in Nat /\ i <= L
      BY <1>1, <1>2, LineShape
    <3>a. Two \in SUBSET (1 .. Len(line))
      BY <1>1, LineShape
    <3>b. Place(Two, i) \in Nat /\ Place(Two, i) >= 1 /\ Place(Two, i) <= Place(Two, L)
      BY ONLY <1>1, <3>1, <3>a, i \in Two, L \in Nat, PlaceOf
    <3>2. PICK r \in Nat : r = Place(Two, i) /\ r >= 1 /\ r <= q
      BY ONLY <1>2, <3>b
    <3>3. (f - 1) + r = p + r /\ r \in {1, 2}
      BY ONLY <1>3, <3>2, p \in Nat, r \in Nat
    <3>4. a[(f - 1) + r] = line[i]
      BY <1>2, <1>4, <3>1, <3>2 DEF Standing, OperandsAt
    <3> QED BY ONLY <3>2, <3>3, <3>4
  <2> QED BY <2>1, <2>2, <2>3
<1>6. /\ argv' = DropArgs(a, p + 1, 1) /\ argc' = p + 2 /\ line' = line /\ pc' = "parsed"
      /\ options' = [options EXCEPT !.adf_filename = a[p + 1], !.mount_point = Resolved(a[p + 2])]
  <2>1. argc - 2 = p + 1 /\ argc - 1 = p + 2
    BY <1>3
  <2>2. /\ argv' = DropArgs(a, argc - 2, 1) /\ argc' = argc - 1 /\ line' = line /\ pc' = "parsed"
        /\ options' = [options EXCEPT !.adf_filename = a[argc - 2], !.mount_point = Resolved(a[argc - 1])]
    BY <1>4 DEF Operands
  <2> QED BY ONLY <2>1, <2>2
<1>7. DOMAIN a = 0 .. L + 1
  BY <1>2, <1>4 DEF ArgsInv, Room, Returned, Inside
<1>8. \A i \in 0 .. p : argv'[i] = a[i]
  <2> SUFFICES ASSUME NEW i \in 0 .. p PROVE argv'[i] = a[i]
    OBVIOUS
  <2>1. i \in 0 .. L + 1 /\ i \notin p + 1 .. (argc - 1) - 1 /\ i \notin argc - 1 .. argc - 1
    <3>1. i \in Nat /\ i <= p
      OBVIOUS
    <3> QED BY ONLY <1>1, <1>3, <3>1, p \in Nat, L \in Nat
  <2> QED BY ONLY <1>6, <1>7, <2>1 DEF DropArgs
<1>9. argv'[p + 1] = a[p + 2]
  <2>1. PICK i \in Nat : i = p + 1 /\ i + 1 = p + 2
    OBVIOUS
  <2>2. i \in 0 .. L + 1 /\ i \in p + 1 .. (argc - 1) - 1
    BY ONLY <1>1, <1>3, <2>1, p \in Nat, L \in Nat
  <2>3. argv'[i] = a[i + 1]
    BY ONLY <1>6, <1>7, <2>2 DEF DropArgs
  <2> QED BY ONLY <2>1, <2>3
<1>10. /\ options'.adf_filename = a[p + 1] /\ options'.mount_point = Resolved(a[p + 2])
       /\ Fields'
  BY <1>6 DEF Fields, Defaults
<1>11. Own' = Own /\ Two' = Two
  BY <1>6, SameWords
<1>12. argv'[0] = Prog'
  <2>1. 0 \in 0 .. p
    OBVIOUS
  <2> QED BY <1>5, <1>8, <2>1 DEF Prog, Operand
<1>13. \A i \in Own : argv'[Place(Own, i)] = line[i]
  <2>1. 1 .. p \subseteq 0 .. p
    OBVIOUS
  <2> QED BY ONLY <1>5, <1>8, <2>1
<1>14. \A i \in Two : IF Place(Two, i) = 1 THEN options'.adf_filename = line[i]
                      ELSE /\ argv'[p + 1] = line[i]
                           /\ options'.mount_point = Resolved(line[i])
  BY ONLY <1>5, <1>9, <1>10
<1>15. Cardinality(Own) + 1 = p + 1 /\ Cardinality(Own) + 2 = p + 2 /\ Cardinality(Two) = 2
  BY ONLY <1>2, <1>3
<1>16. Ready'
  BY ONLY <1>6, <1>9, <1>10, <1>11, <1>12, <1>13, <1>14, <1>15 DEF Ready
<1> QED BY <1>6, <1>10, <1>16

\* A turn of the loop on a plain line: each option is noted and kept or dropped,
\* or the line is refused for a reason, or it is read to its end.
LEMMA PlainStep ==
  ASSUME ArgsInv, Fields, Reading, Plain(line), ParseArgs
  PROVE  PlainInv'
<1>1. line \in Lines /\ Room /\ pc = "parse" /\ rest = NoWord /\ Len(line) \in Nat
  BY LineShape DEF ArgsInv, Room, Reading, ParseArgs
<1>2. PICK g : /\ g = Getopt
               /\ \/ Partition(g) \/ Logging(g) \/ IgnoreChecksums(g) \/ FuseOption(g)
                  \/ MountOption(g) \/ Help(g) \/ Unknown(g) \/ Operands(g)
  BY DEF ParseArgs
<1>3. Returned(g)
  BY <1>1, <1>2, GetoptReturned
<1>4. PICK k \in Nat : Standing(argv, argc, optind, skipped, k) /\ Noted(options, k)
  BY DEF Reading
<1>5. PICK m \in Nat :
        /\ k <= m /\ m <= Len(line) /\ \A j \in k + 1 .. m : line[j].opts = <<>>
        /\ Found(g, m)
  BY <1>1, <1>2, <1>4, PlainFound
<1>6. Noted(options, m)
  <2>1. Boundary(k)
    BY <1>4 DEF Standing
  <2> QED BY <1>1, <1>4, <1>5, <2>1, NotedRun
<1>7. PICK num \in {1, 2} : num = IF g.opt \in {"p", "o"} THEN 2 ELSE 1
  OBVIOUS
<1>8. ASSUME g.opt # "end", g.opt # "?"
      PROVE  /\ g.opt \in Letters /\ line[m + 1] = Opt(g.opt) /\ Boundary(m)
             /\ m + num <= Len(line) /\ Boundary(m + num) /\ g.optind = g.skipped[2] + num
             /\ \A j \in m + 1 .. m + num :
                  j \notin Two /\ (j \in Own <=> g.opt \in {"o", "s", "d", "f"})
             /\ g.opt \in {"p", "o"} => g.arg = line[m + 2].arg
             /\ g.opt \notin {"p", "o"} => g.arg = ""
  BY <1>1, <1>5, <1>7, <1>8, FoundWords
<1>9. CASE Partition(g)
  <2>1. g.opt = "p" /\ num = 2 /\ g.opt # "end" /\ g.opt # "?"
    BY <1>7, <1>9 DEF Partition
  <2>2. line[m + 1] = Opt("p") /\ m + 2 <= Len(line) /\ g.arg = line[m + 2].arg
    BY <1>8, <2>1
  <2>3. CASE g.arg \in DOMAIN Number /\ Volume(g.arg) <= 10
    <3>1. /\ options' = [options EXCEPT !.adf_volume = Volume(g.arg)]
          /\ pc' = pc /\ Drop(g, num)
      BY <1>9, <2>1, <2>3 DEF Partition, Notes
    <3>2. Noted(options', m + 2)
      <4>1. Boundary(m) /\ "p" \in {"p", "o"}
        BY <1>8, <2>1
      <4>2. /\ options'.logging = options.logging
            /\ options'.ignore_checksum_errors = options.ignore_checksum_errors
            /\ options'.single_threaded = options.single_threaded
            /\ options'.adf_volume = Volume(line[m + 2].arg)
            /\ options'.write_mode = options.write_mode
        BY <2>2, <3>1 DEF Fields, Defaults
      <4> QED BY <1>1, <1>6, <2>2, <4>1, <4>2, NotedValue
    <3>3. \A j \in m + 1 .. m + num : j \notin Own /\ j \notin Two
      BY <1>8, <2>1
    <3>4. Reading' /\ line' = line
      BY <1>3, <1>5, <1>8, <2>1, <3>1, <3>2, <3>3, DropReading
    <3> QED BY <1>1, <3>1, <3>4, Outcomes
  <2>4. CASE ~(g.arg \in DOMAIN Number /\ Volume(g.arg) <= 10)
    <3>1. pc' = "failed" /\ line' = line
      BY <1>9, <2>4 DEF Partition, Becomes, Keep
    <3>2. ValueOf(line, m + 2, "p") /\ m + 2 \in DOMAIN line
      <4>1. \A d : ValueOf(line, m + 2, d) <=> d = "p"
        <5>1. "p" \in {"p", "o"}
          OBVIOUS
        <5> QED BY <1>1, <2>2, <5>1, ValueWord
      <4> QED BY <1>1, <2>2, <4>1, LineShape
    <3>3. Reason
      <4>1. g.arg \notin DOMAIN Number \/ Volume(g.arg) > 10
        <5>1. CASE g.arg \in DOMAIN Number
          <6>1. Volume(g.arg) \in Nat
            BY <5>1, VolumeType
          <6> QED BY <2>4, <5>1, <6>1
        <5> QED BY <5>1
      <4> QED BY ONLY <2>2, <3>2, <4>1 DEF Reason
    <3> QED BY <1>1, <3>1, <3>3, Outcomes
  <2> QED BY <2>3, <2>4
<1>10. CASE Logging(g) \/ IgnoreChecksums(g)
  <2>1. /\ g.opt \in {"l", "i"} /\ num = 1
        /\ g.opt # "end" /\ g.opt # "?" /\ g.opt \notin {"p", "o"}
    BY <1>7, <1>10 DEF Logging, IgnoreChecksums
  <2>2. /\ pc' = pc /\ Drop(g, num)
        /\ g.opt = "l" => options' = [options EXCEPT !.logging = TRUE]
        /\ g.opt = "i" => options' = [options EXCEPT !.ignore_checksum_errors = TRUE]
    <3>1. g.arg = ""
      BY <1>8, <2>1
    <3>2. (IF g.arg # "" THEN 2 ELSE 1) = num
      BY <2>1, <3>1
    <3>3. CASE Logging(g)
      <4>1. Drop(g, num)
        BY ONLY <3>2, <3>3 DEF Logging, Drop, DropArgs
      <4> QED BY <3>3, <4>1 DEF Logging, Notes
    <3>4. CASE IgnoreChecksums(g)
      BY <2>1, <3>4 DEF IgnoreChecksums, Notes
    <3> QED BY <1>10, <3>3, <3>4
  <2>3. Noted(options', m + num)
    <3>1. PICK c \in {"l", "i", "s", "d", "f"} : c = g.opt
      BY <2>1
    <3>2. /\ options'.adf_volume = options.adf_volume
          /\ options'.write_mode = options.write_mode
          /\ options'.single_threaded = options.single_threaded
          /\ options'.logging = IF c = "l" THEN TRUE ELSE options.logging
          /\ options'.ignore_checksum_errors
               = IF c = "i" THEN TRUE ELSE options.ignore_checksum_errors
      BY <2>1, <2>2, <3>1 DEF Fields, Defaults
    <3>3. options'.single_threaded = IF c = "s" THEN TRUE ELSE options.single_threaded
      BY <2>1, <3>1, <3>2
    <3>4. Boundary(m) /\ m + 1 <= Len(line) /\ line[m + 1] = Opt(c)
      BY <1>8, <2>1, <3>1
    <3>5. Noted(options', m + 1)
      BY <1>1, <1>6, <3>2, <3>3, <3>4, NotedOption
    <3> QED BY <2>1, <3>5
  <2>4. \A j \in m + 1 .. m + num : j \notin Own /\ j \notin Two
    BY <1>8, <2>1
  <2>5. Reading' /\ line' = line
    BY <1>3, <1>5, <1>8, <2>1, <2>2, <2>3, <2>4, DropReading
  <2> QED BY <1>1, <2>2, <2>5, Outcomes
<1>11. CASE FuseOption(g)
  <2>1. /\ g.opt \in {"s", "d", "f"} /\ num = 1
        /\ g.opt # "end" /\ g.opt # "?" /\ g.opt \notin {"p", "o"}
    BY <1>7, <1>11 DEF FuseOption
  <2>2. /\ pc' = pc /\ Keep(g)
        /\ options' = IF g.opt = "s" THEN [options EXCEPT !.single_threaded = TRUE] ELSE options
    BY <1>11 DEF FuseOption, Notes
  <2>3. Noted(options', m + num)
    <3>1. PICK c \in {"l", "i", "s", "d", "f"} : c = g.opt
      BY <2>1
    <3>2. /\ options'.adf_volume = options.adf_volume
          /\ options'.write_mode = options.write_mode
          /\ options'.logging = options.logging
          /\ options'.ignore_checksum_errors = options.ignore_checksum_errors
          /\ options'.single_threaded = IF c = "s" THEN TRUE ELSE options.single_threaded
      BY <2>2, <3>1 DEF Fields, Defaults
    <3>3. /\ options'.logging = IF c = "l" THEN TRUE ELSE options.logging
          /\ options'.ignore_checksum_errors
               = IF c = "i" THEN TRUE ELSE options.ignore_checksum_errors
      BY <2>1, <3>1, <3>2
    <3>4. Boundary(m) /\ m + 1 <= Len(line) /\ line[m + 1] = Opt(c)
      BY <1>8, <2>1, <3>1
    <3>5. Noted(options', m + 1)
      BY <1>1, <1>6, <3>2, <3>3, <3>4, NotedOption
    <3> QED BY <2>1, <3>5
  <2>4. \A j \in m + 1 .. m + num : j \in Own /\ j \notin Two
    BY <1>8, <2>1
  <2>5. Reading' /\ line' = line
    BY <1>1, <1>5, <1>8, <2>1, <2>2, <2>3, <2>4, KeepReading
  <2> QED BY <1>1, <2>2, <2>5, Outcomes
<1>12. CASE MountOption(g)
  <2>1. g.opt = "o" /\ num = 2 /\ g.opt # "end" /\ g.opt # "?"
    BY <1>7, <1>12 DEF MountOption
  <2>2. /\ pc' = pc /\ Keep(g)
        /\ options' = IF g.arg = "ro" THEN [options EXCEPT !.write_mode = FALSE] ELSE options
    BY <1>12 DEF MountOption, Notes
  <2>3. line[m + 1] = Opt("o") /\ m + 2 <= Len(line) /\ g.arg = line[m + 2].arg /\ Boundary(m)
    BY <1>8, <2>1
  <2>4. Noted(options', m + 2)
    <3>1. /\ options'.logging = options.logging
          /\ options'.ignore_checksum_errors = options.ignore_checksum_errors
          /\ options'.single_threaded = options.single_threaded
          /\ options'.adf_volume = options.adf_volume
          /\ options'.write_mode = IF line[m + 2].arg = "ro" THEN FALSE ELSE options.write_mode
      BY <2>2, <2>3 DEF Fields, Defaults
    <3>2. PICK c \in {"p", "o"} : c = "o"
      OBVIOUS
    <3>3. /\ options'.adf_volume
               = IF c = "p" THEN Volume(line[m + 2].arg) ELSE options.adf_volume
          /\ options'.write_mode
               = IF c = "o" /\ line[m + 2].arg = "ro" THEN FALSE ELSE options.write_mode
      BY <3>1, <3>2
    <3> QED BY <1>1, <1>6, <2>3, <3>1, <3>2, <3>3, NotedValue
  <2>5. \A j \in m + 1 .. m + num : j \in Own /\ j \notin Two
    BY <1>8, <2>1
  <2>6. Reading' /\ line' = line
    BY <1>1, <1>5, <1>8, <2>1, <2>2, <2>4, <2>5, KeepReading
  <2> QED BY <1>1, <2>2, <2>6, Outcomes
<1>13. CASE Help(g)
  <2>1. g.opt \in {"h", "V"} /\ g.opt # "end" /\ g.opt # "?"
    BY <1>13 DEF Help
  <2> QED BY <1>8, <2>1 DEF Letters
<1>14. CASE Unknown(g)
  <2>1. pc' = "failed" /\ line' = line
    BY <1>14 DEF Unknown, Becomes, Keep
  <2>2. g.opt = "?"
    <3>1. g.opt # "w"
      BY <1>8 DEF Letters
    <3> QED BY <1>14, <3>1 DEF Unknown
  <2>3. m + 1 = Len(line) /\ line[m + 1] \in {Opt("p"), Opt("o")}
    BY <1>5, <2>2 DEF Found
  <2>4. m + 1 \in DOMAIN line
    BY <1>1, <2>3, LineShape
  <2>5. Reason
    BY <2>3, <2>4 DEF Reason
  <2> QED BY <1>1, <2>1, <2>5, Outcomes
<1>15. CASE Operands(g)
  <2>1. g.opt = "end"
    BY <1>15 DEF Operands
  <2>2. m = Len(line) /\ g.optind = g.skipped[1]
    BY <1>5, <2>1 DEF Found
  <2>3. CASE g.optind + 2 # argc
    <3>1. pc' = "failed" /\ line' = line
      BY <1>15, <2>3 DEF Operands, Becomes, Keep
    <3>2. Cardinality(Two) # 2
      <4>1. PICK q \in Nat, f \in Nat, t \in Nat :
              /\ q = Place(Two, m) /\ f = g.skipped[1] /\ t = g.skipped[2]
              /\ Standing(g.argv, argc, t, g.skipped, m)
        <5>1. Standing(g.argv, argc, g.skipped[2], g.skipped, m)
          BY <1>5 DEF Found
        <5> QED BY <1>1, <5>1, StandingNumbers
      <4>2. argc = t /\ t = f + q
        <5>1. argc = t + (m - m) /\ t = f + q
          BY <2>2, <4>1 DEF Standing
        <5> QED BY ONLY <5>1, m \in Nat, t \in Nat
      <4>3. q # 2
        BY ONLY <2>2, <2>3, <4>1, <4>2
      <4>4. Place(Two, m) = Cardinality(Two)
        <5>1. m >= Len(line) /\ Two \in SUBSET (1 .. Len(line))
          BY <1>1, <2>2, LineShape
        <5> QED BY ONLY <1>1, <5>1, m \in Nat, PlaceType
      <4> QED BY ONLY <4>1, <4>3, <4>4
    <3>3. Reason
      BY <3>2 DEF Reason
    <3> QED BY <1>1, <3>1, <3>3, Outcomes
  <2>4. CASE g.optind + 2 = argc
    <3>1. Ready' /\ line' = line /\ pc' = "parsed"
      BY <1>3, <1>5, <1>15, <2>2, <2>4, OperandsReady
    <3>2. Noted(options', Len(line))
      <4>1. \E x, y : options' = [options EXCEPT !.adf_filename = x, !.mount_point = y]
        BY <1>15, <2>4 DEF Operands
      <4>2. /\ options'.logging = options.logging
            /\ options'.ignore_checksum_errors = options.ignore_checksum_errors
            /\ options'.single_threaded = options.single_threaded
            /\ options'.adf_volume = options.adf_volume
            /\ options'.write_mode = options.write_mode
        BY <4>1 DEF Fields, Defaults
      <4> QED BY ONLY <1>6, <2>2, <4>2 DEF Noted
    <3> QED BY <1>1, <3>1, <3>2, Outcomes
  <2> QED BY <2>3, <2>4
<1> QED BY <1>2, <1>9, <1>10, <1>11, <1>12, <1>13, <1>14, <1>15

\* main hands FUSE the vector, with -s behind the mount point.
LEMMA PlainFuseMain ==
  ASSUME ArgsInv, PlainInv, Plain(line), FuseMain
  PROVE  PlainInv'
<1>1. /\ line \in Lines /\ line' = line /\ pc = "parsed" /\ pc' = "fuse" /\ options' = options
      /\ DOMAIN argv = 0 .. Len(line) + 1 /\ argc \in Nat /\ argc <= Len(line)
  BY DEF FuseMain, Becomes, ArgsInv, Room
<1>2. Ready /\ Noted(options, Len(line))
  BY <1>1 DEF PlainInv, LineInv
<1>3. PICK n \in Nat : n = Cardinality(Own) /\ argc = n + 2
  <2>1. Len(line) \in Nat /\ Own \in SUBSET (1 .. Len(line))
    BY <1>1, LineShape
  <2>2. Cardinality(Own) \in Nat
    <3>1. IsFiniteSet(1 .. Len(line))
      BY <2>1, FS_Interval
    <3>2. IsFiniteSet(Own)
      BY <2>1, <3>1, FS_Subset
    <3> QED BY <3>2, FS_CardinalityType
  <2> QED BY <1>2, <2>2 DEF Ready
<1>4. /\ argv[0] = Prog
      /\ \A i \in Own : argv[Place(Own, i)] = line[i] /\ Place(Own, i) \in 1 .. n
  <2>1. ASSUME NEW i \in Own PROVE Place(Own, i) \in 1 .. n
    <3>1. Len(line) \in Nat /\ Own \in SUBSET (1 .. Len(line)) /\ i <= Len(line)
      BY <1>1, LineShape
    <3>2. PICK L \in Nat : L = Len(line) /\ L >= Len(line)
      BY <3>1
    <3>3. Place(Own, L) = n
      BY ONLY <1>3, <3>1, <3>2, L \in Nat, PlaceType
    <3>4. /\ Place(Own, i) \in Nat /\ Place(Own, i) >= 1
          /\ Place(Own, i) <= Place(Own, L)
      BY ONLY <3>1, <3>2, i \in Own, L \in Nat, PlaceOf
    <3> QED BY ONLY <3>3, <3>4, n \in Nat
  <2> QED BY <1>2, <1>3, <2>1 DEF Ready
<1>5. options.single_threaded <=> \E i \in Own : line[i] = Opt("s")
  <2>1. options.single_threaded <=> Seen("s", Len(line))
    BY <1>2 DEF Noted
  <2>2. \A i \in DOMAIN line : i <= Len(line)
    BY <1>1, LineShape
  <2>3. \A i \in DOMAIN line : line[i] = Opt("s") => i \in Own
    BY DEF Own, ForFuse
  <2>4. \A i \in Own : i \in DOMAIN line
    BY DEF Own, ForFuse
  <2> QED BY ONLY <2>1, <2>2, <2>3, <2>4, Zenon DEF Seen
<1>6. /\ \A i \in 0 .. n + 1 : argv'[i] = argv[i]
      /\ IF options.single_threaded THEN argc' = n + 2
         ELSE argc' = n + 3 /\ argv'[n + 2] = Opt("s")
  <2>1. CASE options.single_threaded
    BY <1>3, <2>1 DEF FuseMain
  <2>2. CASE ~options.single_threaded
    <3>1. argv' = [argv EXCEPT ![n + 2] = Opt("s")] /\ argc' = n + 3
      <4>1. argv' = [argv EXCEPT ![argc] = Opt("s")] /\ argc' = argc + 1
        BY <2>2 DEF FuseMain
      <4>2. (n + 2) + 1 = n + 3
        OBVIOUS
      <4> QED BY ONLY <1>3, <4>1, <4>2
    <3>2. n + 2 \in DOMAIN argv /\ \A i \in 0 .. n + 1 : i # n + 2 /\ i \in DOMAIN argv
      <4>1. PICK L \in Nat : L = Len(line)
        BY <1>1, LineShape
      <4>2. n + 2 <= L /\ DOMAIN argv = 0 .. L + 1
        BY <1>1, <1>3, <4>1
      <4> QED BY ONLY <4>2, n \in Nat, L \in Nat
    <3> QED BY ONLY <2>2, <3>1, <3>2
  <2> QED BY <2>1, <2>2
<1>7. LineServed'
  <2>1. Own' = Own /\ Two' = Two
    BY <1>1, SameWords
  <2>2. /\ argv'[0] = Prog /\ argv'[n + 1] = argv[n + 1]
        /\ \A i \in Own : argv'[Place(Own, i)] = line[i]
    <3>1. 0 \in 0 .. n + 1 /\ n + 1 \in 0 .. n + 1 /\ \A r \in 1 .. n : r \in 0 .. n + 1
      OBVIOUS
    <3> QED BY ONLY <1>4, <1>6, <3>1
  <2>3. /\ Cardinality(Two) = 2
        /\ \A i \in Two : IF Place(Two, i) = 1 THEN options.adf_filename = line[i]
                          ELSE /\ argv'[n + 1] = line[i]
                               /\ options.mount_point = Resolved(line[i])
    BY <1>2, <1>3, <2>2 DEF Ready
  <2>4. ForFuse(line') = Own /\ OperandsOf(line') = Two
    BY <2>1 DEF Own, Two
  <2>5. IF \E i \in Own : line[i] = Opt("s") THEN argc' = n + 2
        ELSE argc' = n + 3 /\ argv'[n + 2] = Opt("s")
    BY ONLY <1>5, <1>6
  <2>6. Prog' = Prog /\ Opt("s")' = Opt("s")
    BY DEF Prog, Operand, Opt
  <2>7. /\ argv'[0] = Prog
        /\ \A i \in ForFuse(line') : argv'[Place(ForFuse(line'), i)] = line'[i]
        /\ Cardinality(OperandsOf(line')) = 2
        /\ \A i \in OperandsOf(line') :
             IF Place(OperandsOf(line'), i) = 1 THEN options'.adf_filename = line'[i]
             ELSE /\ argv'[Cardinality(ForFuse(line')) + 1] = line'[i]
                  /\ options'.mount_point = Resolved(line'[i])
        /\ IF \E i \in ForFuse(line') : line'[i] = Opt("s")
           THEN argc' = Cardinality(ForFuse(line')) + 2
           ELSE /\ argc' = Cardinality(ForFuse(line')) + 3
                /\ argv'[Cardinality(ForFuse(line')) + 2] = Opt("s")
    BY ONLY <1>1, <1>3, <2>2, <2>3, <2>4, <2>5
  <2> QED BY <2>7 DEF LineServed
<1>8. Noted(options, Len(line))'
  <2>1. PICK k \in Nat : k = Len(line) /\ k = Len(line)'
    BY <1>1, LineShape
  <2>2. Noted(options', k)
    BY <1>1, <1>2, <2>1
  <2>3. Noted(options, k)'
    BY <1>1, <2>2, NotedNext
  <2> QED BY <2>1, <2>3
<1> QED BY <1>1, <1>7, <1>8 DEF PlainInv, LineInv, RefusedForReason

\* Before the first word of a line, nothing is read and nothing is noted.
LEMMA PlainStart ==
  ASSUME Init
  PROVE  PlainInv /\ Fields
<1>1. /\ line \in Lines /\ Len(line) \in Nat /\ DOMAIN line = 1 .. Len(line)
      /\ pc = "parse" /\ rest = NoWord /\ options = Defaults
      /\ optind = 1 /\ skipped = <<1, 1>> /\ argc = Len(line) + 1
  BY ArgsAssumption DEF Init
<1>2. Own \in SUBSET (1 .. Len(line)) /\ Two \in SUBSET (1 .. Len(line))
  BY <1>1, LineShape
<1>3. \A i \in Own \cup Two : ~(i <= 0)
  BY <1>1, <1>2
<1>4. Place(Own, 0) = 0 /\ Place(Two, 0) = 0
  BY <1>1, <1>2, PlaceType
<1>5. argv[0] = Prog /\ Unread(argv, 1, 0)
  <2>1. argv[0] = Prog
    BY <1>1 DEF Init
  <2>2. ASSUME NEW j \in 0 + 1 .. Len(line) PROVE argv[(1 + (j - 0)) - 1] = line[j]
    <3>1. j \in 0 .. Len(line) + 1 /\ j # 0 /\ ~(j > Len(line)) /\ (1 + (j - 0)) - 1 = j
      BY <1>1
    <3> QED BY <3>1 DEF Init
  <2> QED BY <2>1, <2>2 DEF Unread
<1>6. Standing(argv, argc, optind, skipped, 0)
  <2>1. OwnAt(argv, skipped, 0) /\ OperandsAt(argv, skipped, 0)
    BY <1>3 DEF OwnAt, OperandsAt
  <2> QED BY <1>1, <1>4, <1>5, <2>1 DEF Standing, Boundary
<1>7. Noted(options, 0)
  BY <1>1, NotedNothing
<1>8. Reading
  BY <1>1, <1>6, <1>7 DEF Reading
<1> QED BY <1>1, <1>8 DEF PlainInv, LineInv, LineServed, RefusedForReason, Fields

\* The options keep their fields.
LEMMA FieldsStep == Fields /\ Next => Fields'
<1> SUFFICES ASSUME Fields, Next PROVE Fields'
  OBVIOUS
<1>1. \/ options' = options
      \/ \E field, value : options' = [options EXCEPT ![field] = value]
      \/ \E x, y : options' = [options EXCEPT !.adf_filename = x, !.mount_point = y]
  <2>1. CASE FuseMain
    BY <2>1 DEF FuseMain, Becomes
  <2>2. CASE ParseArgs
    <3>1. PICK g : \/ Partition(g) \/ Logging(g) \/ IgnoreChecksums(g) \/ FuseOption(g)
                   \/ MountOption(g) \/ Help(g) \/ Unknown(g) \/ Operands(g)
      BY <2>2 DEF ParseArgs
    <3>2. CASE Partition(g) \/ Logging(g) \/ IgnoreChecksums(g)
      BY <3>2 DEF Partition, Logging, IgnoreChecksums, Notes, Becomes
    <3>3. CASE FuseOption(g) \/ MountOption(g) \/ Help(g) \/ Unknown(g)
      BY <3>3 DEF FuseOption, MountOption, Help, Unknown, Notes, Becomes
    <3>4. CASE Operands(g)
      BY <3>4 DEF Operands, Becomes
    <3> QED BY <3>1, <3>2, <3>3, <3>4
  <2> QED BY <2>1, <2>2 DEF Next
<1>2. DOMAIN options' = DOMAIN options
  BY <1>1
<1> QED BY <1>2 DEF Fields, Defaults

-----------------------------------------------------------------------------
(* On every plain line, whatever the words and wherever the options stand.  *)

CommandLineInv == ArgsInv /\ Fields /\ PlainInv

LEMMA CommandLineStutter ==
  ASSUME CommandLineInv, UNCHANGED vars
  PROVE  CommandLineInv'
<1>1. ArgsInv /\ Fields /\ PlainInv
  BY DEF CommandLineInv
<1>2. /\ line' = line /\ argv' = argv /\ argc' = argc /\ optind' = optind /\ rest' = rest
      /\ skipped' = skipped /\ options' = options /\ pc' = pc
  BY DEF vars, scan
<1>3. ArgsInv' /\ Fields'
  BY <1>1, <1>2
     DEF ArgsInv, Room, Terminated, Given, GetoptInside, Fields, Defaults, NoWord, Operand
<1>4. Own' = Own /\ Two' = Two /\ (Plain(line)' <=> Plain(line)) /\ Len(line)' = Len(line)
  BY <1>2, SameWords
<1>5. Reading => Reading'
  <2> SUFFICES ASSUME Reading PROVE Reading'
    OBVIOUS
  <2>1. PICK k \in Nat : Standing(argv, argc, optind, skipped, k) /\ Noted(options, k)
    BY DEF Reading
  <2>2. Standing(argv', argc', optind', skipped', k) /\ Noted(options', k)
    BY <1>2, <2>1
  <2>3. Standing(argv, argc, optind, skipped, k)' /\ Noted(options, k)'
    BY <1>2, <2>2, StandingNext, NotedNext
  <2>4. rest' = NoWord'
    BY <1>2 DEF Reading, NoWord, Operand
  <2> QED BY <2>3, <2>4 DEF Reading
<1>6. Ready => Ready'
  BY <1>2, <1>4 DEF Ready, Prog, Operand
<1>7. Noted(options, Len(line)) => Noted(options, Len(line))'
  <2>1. PICK k \in Nat : k = Len(line) /\ k = Len(line)'
    BY <1>1, <1>2, LineShape DEF ArgsInv, Room
  <2>2. Noted(options', k) => Noted(options, k)'
    BY <1>2, NotedNext
  <2> QED BY <1>2, <2>1, <2>2
<1>8. LineInv'
  BY <1>1, <1>2, <1>4, <1>5, <1>6, <1>7 DEF PlainInv, LineInv
<1>9. LineServed'
  BY <1>1, <1>2 DEF PlainInv, LineServed
<1>10. RefusedForReason'
  BY <1>1, <1>2 DEF PlainInv, RefusedForReason
<1> QED BY <1>3, <1>8, <1>9, <1>10 DEF CommandLineInv, PlainInv

LEMMA CommandLineStep ==
  ASSUME CommandLineInv, Next
  PROVE  CommandLineInv'
<1>1. ArgsInv /\ Fields /\ PlainInv
  BY DEF CommandLineInv
<1>2. ArgsInv'
  BY <1>1, ParseStep, FuseMainStep DEF Next
<1>3. Fields'
  BY <1>1, FieldsStep
<1>4. line' = line
  <2>1. CASE FuseMain
    BY <2>1 DEF FuseMain
  <2>2. CASE ParseArgs
    <3>1. PICK g : \/ Partition(g) \/ Logging(g) \/ IgnoreChecksums(g) \/ FuseOption(g)
                   \/ MountOption(g) \/ Help(g) \/ Unknown(g) \/ Operands(g)
      BY <2>2 DEF ParseArgs
    <3> QED BY <3>1 DEF Partition, Logging, IgnoreChecksums, FuseOption, MountOption, Help,
                        Unknown, Operands, Keep, Drop
  <2> QED BY <2>1, <2>2 DEF Next
<1>5. PlainInv'
  <2>1. CASE ~Plain(line)
    <3>1. ~Plain(line)'
      BY <1>4, <2>1, SameWords
    <3> QED BY <3>1 DEF PlainInv, LineInv, LineServed, RefusedForReason
  <2>2. CASE Plain(line) /\ ParseArgs
    <3>1. Reading
      BY <1>1, <2>2 DEF ParseArgs, PlainInv, LineInv
    <3> QED BY <1>1, <2>2, <3>1, PlainStep
  <2>3. CASE Plain(line) /\ FuseMain
    BY <1>1, <2>3, PlainFuseMain
  <2> QED BY <2>1, <2>2, <2>3 DEF Next
<1> QED BY <1>2, <1>3, <1>5 DEF CommandLineInv

LEMMA CommandLine == Spec => []CommandLineInv
<1>1. Init => CommandLineInv
  BY ArgsInit, PlainStart DEF CommandLineInv
<1>2. CommandLineInv /\ [Next]_vars => CommandLineInv'
  BY CommandLineStutter, CommandLineStep
<1> QED BY <1>1, <1>2, PTL DEF Spec

\* FUSE is given its own words of a plain line in their order, the mount point
\* and one -s, although getopt moves the words about while parse_args drops some
\* of them; the operands become the image and the mount point in the order they
\* were given (fuseadf.c:178-262, 88-91).
THEOREM LineIsServed == Spec => []LineServed
<1>1. CommandLineInv => LineServed
  BY DEF CommandLineInv, PlainInv
<1> QED BY <1>1, CommandLine, PTL

\* parse_args notes each option of a plain line, and takes no value of one for
\* another option (fuseadf.c:181-235).
THEOREM OptionsAreRead == Spec => []OptionsRead
<1>1. CommandLineInv => OptionsRead
  <2> SUFFICES ASSUME CommandLineInv, pc \in {"parsed", "fuse"}, Plain(line)
               PROVE  OptionsRead
    BY DEF OptionsRead
  <2>1. Noted(options, Len(line)) /\ line \in Lines
    BY DEF CommandLineInv, PlainInv, LineInv, ArgsInv, Room
  <2>2. \A i \in DOMAIN line : i <= Len(line)
    BY <2>1, LineShape
  <2>3. {i \in DOMAIN line : i <= Len(line) /\ ValueOf(line, i, "p")}
          = {i \in DOMAIN line : ValueOf(line, i, "p")}
    BY <2>2, Zenon
  <2>4. /\ \A c : Seen(c, Len(line)) <=> \E i \in DOMAIN line : line[i] = Opt(c)
        /\ AskedReadOnly(Len(line)) <=>
             \E i \in DOMAIN line : ValueOf(line, i, "o") /\ line[i].arg = "ro"
    BY <2>2, Zenon DEF Seen, AskedReadOnly
  <2> QED BY <2>1, <2>3, <2>4 DEF OptionsRead, Noted, LastPartition
<1> QED BY <1>1, CommandLine, PTL

\* parse_args refuses no plain line that has a partition it knows, a value to
\* each option that takes one, and two operands (fuseadf.c:181-257).
THEOREM RefusalsHaveReasons == Spec => []RefusedForReason
<1>1. CommandLineInv => RefusedForReason
  BY DEF CommandLineInv, PlainInv
<1> QED BY <1>1, CommandLine, PTL

=============================================================================
