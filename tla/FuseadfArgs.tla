---------------------------- MODULE FuseadfArgs ----------------------------
(***************************************************************************)
(* The command line of fuseadf: parse_args takes the options that are not  *)
(* FUSE's out of argv while getopt is walking it, takes the image and the  *)
(* mount point from its end, and main adds -s to what FUSE is given.       *)
(*                                                                         *)
(* A word of the command line is a record: its option letters, and the     *)
(* value written in one word with the last of them ("" when there is none);*)
(* a word without letters is an operand, or the value of the option before.*)
(***************************************************************************)
EXTENDS Naturals, Sequences, FiniteSets, SequencesExt

CONSTANTS
  Lines,      \* the command lines, without the name of the program
  Number,     \* what strtoul makes of a value, for the values it can read
  UInt,       \* how many values an unsigned int has
  Realpath    \* what realpath makes of a word, for those that name a path

Opt(c)         == [opts |-> <<c>>, arg |-> ""]
Attached(c, v) == [opts |-> <<c>>, arg |-> v]
Operand(v)     == [opts |-> <<>>, arg |-> v]

Prog == Operand("fuseadf")
NULL == Operand("NULL")

ASSUME ArgsAssumption ==
  \A l \in Lines :
    /\ Len(l) \in Nat /\ DOMAIN l = 1 .. Len(l)
    /\ \A i \in DOMAIN l : l[i] # NULL /\ l[i] # Prog

\* strtoul's numbers are unsigned, and wider than an unsigned int; it reads
\* none in a text that begins with the dash of an option.
ASSUME NumberAssumption ==
  /\ \A v \in DOMAIN Number : Number[v] \in Nat
  /\ "-" \notin DOMAIN Number
  /\ UInt \in Nat \ {0}

VARIABLES
  line,         \* the command line, as it was given
  argv, argc,   \* ... as it is now; argv[0] is the name of the program
  optind,       \* getopt: the index of the next word
  rest,         \* getopt: the word it is in, without the letters behind it
  skipped,      \* getopt: first and last index of the operands skipped
  options,      \* cmdline_options_t
  pc

scan == <<argv, optind, rest, skipped>>
vars == <<line, argv, argc, optind, rest, skipped, options, pc>>

Defaults ==
  [adf_volume |-> 0, write_mode |-> TRUE, single_threaded |-> FALSE,
   logging |-> FALSE, ignore_checksum_errors |-> FALSE,
   adf_filename |-> NULL, mount_point |-> NULL]

-----------------------------------------------------------------------------
(* getopt of the GNU C library, for "p:l::o:fdshiwV".                      *)

NoWord == Operand("")

\* A word read as a value: one with option letters is a text with a dash.
Text(w) == IF w.opts = <<>> THEN w.arg ELSE "-"

Least(m, n) == IF m < n THEN m ELSE n

\* The operands a[f..l-1] and the options a[l..o-1] change places.
Exchanged(a, f, l, o) ==
  [i \in DOMAIN a |->
     IF i \in f .. (f + o - l) - 1 THEN a[i + l - f]
     ELSE IF i \in f + o - l .. o - 1 THEN a[(i + l) - o] ELSE a[i]]

\* The first letter of the next option from a[o] on, the operands a[sk[1]..o-1]
\* passed so far being moved behind the options before it.
NextWord(o, sk) ==
  LET f == Least(sk[1], o)
      l == Least(sk[2], o)
      moved == f # l /\ l # o
      start == IF moved THEN f + o - l ELSE IF l # o THEN o ELSE f
      a == IF moved THEN Exchanged(argv, f, l, o) ELSE argv
      next == CHOOSE i \in o .. argc :
                /\ i = argc \/ a[i].opts # <<>>
                /\ \A j \in o .. i - 1 : a[j].opts = <<>>
  IN [argv |-> a,
      optind |-> IF next = argc /\ start # next THEN start ELSE next,
      skipped |-> <<start, next>>,
      word |-> IF next = argc THEN NoWord ELSE a[next]]

\* Where getopt is when it looks at a letter: at the next one of its word, or
\* at the next option.  An optind of 0 makes it start over.
Scanned ==
  IF optind = 0 THEN NextWord(1, <<1, 1>>)
  ELSE IF rest # NoWord
  THEN [argv |-> argv, optind |-> optind, skipped |-> skipped, word |-> rest]
  ELSE NextWord(optind, skipped)

\* What getopt returns ("end" for -1), with its argument, and its new state,
\* when it has come to s.
Taken(s) ==
  LET c == Head(s.word.opts)
      more == [opts |-> Tail(s.word.opts), arg |-> s.word.arg]
      \* the index after this word, or of it while letters are left
      after == IF more.opts = <<>> THEN s.optind + 1 ELSE s.optind
      at(opt, arg, o, r) == [opt |-> opt, arg |-> arg, argv |-> s.argv, optind |-> o,
                             skipped |-> s.skipped, rest |-> r]
  IN
  IF s.word = NoWord THEN at("end", "", s.optind, NoWord)
  ELSE IF c \in {"p", "o"} /\ s.word.arg = ""
  THEN IF after >= argc THEN at("?", "", after, NoWord)
                        ELSE at(c, Text(s.argv[after]), after + 1, NoWord)
  ELSE IF c \in {"p", "o", "l"} THEN at(c, s.word.arg, s.optind + 1, NoWord)
  ELSE at(c, "", after, IF more.opts = <<>> THEN NoWord ELSE more)

Getopt ==
  IF argc < 1
  THEN [opt |-> "end", arg |-> "", argv |-> argv, optind |-> optind,
        skipped |-> skipped, rest |-> rest]
  ELSE Taken(Scanned)

-----------------------------------------------------------------------------
(* parse_args.                                                             *)

\* Variant with a defect: the slots left over are not cleared.
DropArgsUncleared(a, index, num) ==
  [i \in DOMAIN a |-> IF i \in index .. (argc - num) - 1 THEN a[i + num] ELSE a[i]]

\* drop_arg and drop_args: num words go at index.
DropArgs(a, index, num) ==
  [i \in DOMAIN a |->
     IF i \in index .. (argc - num) - 1 THEN a[i + num]
     ELSE IF i \in argc - num .. argc - 1 THEN NULL ELSE a[i]]

Keep(g) ==
  /\ argv' = g.argv /\ optind' = g.optind
  /\ rest' = g.rest /\ skipped' = g.skipped
  /\ UNCHANGED <<line, argc>>

\* Variant with a defect: the words found there stay.
DropNothing(g, num) == Keep([g EXCEPT !.optind = g.optind - num])

\* Variant with a defect: one word goes where num should.
DropOneWord(g, num) ==
  /\ argv' = DropArgs(g.argv, g.optind - num, 1)
  /\ argc' = argc - 1
  /\ optind' = g.optind - num
  /\ rest' = g.rest /\ skipped' = g.skipped
  /\ UNCHANGED line

\* optind goes back by num, and the num words found there go.
Drop(g, num) ==
  /\ argv' = DropArgs(g.argv, g.optind - num, num)
  /\ argc' = argc - num
  /\ optind' = g.optind - num
  /\ rest' = g.rest /\ skipped' = g.skipped
  /\ UNCHANGED line

Becomes(what) == pc' = what /\ UNCHANGED options
Notes(field, value) == options' = [options EXCEPT ![field] = value] /\ UNCHANGED pc

\* What is left of a number that is cast to an unsigned int.
Volume(v) == Number[v] % UInt

\* -p: the number must be one, and at most 10 when it has been cast.
Partition(g) ==
  /\ g.opt = "p"
  /\ IF g.arg \in DOMAIN Number /\ Volume(g.arg) <= 10
     THEN Notes("adf_volume", Volume(g.arg)) /\ Drop(g, 2)
     ELSE Becomes("failed") /\ Keep(g)

\* -l: with a value two words go, without one word.
Logging(g) ==
  /\ g.opt = "l"
  /\ Notes("logging", TRUE)
  /\ Drop(g, IF g.arg # "" THEN 2 ELSE 1)

\* -i
IgnoreChecksums(g) ==
  /\ g.opt = "i"
  /\ Notes("ignore_checksum_errors", TRUE)
  /\ Drop(g, 1)

\* -s, -d and -f stay, for FUSE; -s is noted.
FuseOption(g) ==
  /\ g.opt \in {"s", "d", "f"}
  /\ IF g.opt = "s" THEN Notes("single_threaded", TRUE) ELSE UNCHANGED <<options, pc>>
  /\ Keep(g)

\* Variant with a defect: strcmp is taken for true when the words are equal.
MountOptionMisread(g) ==
  /\ g.opt = "o"
  /\ IF g.arg # "ro" THEN Notes("write_mode", FALSE) ELSE UNCHANGED <<options, pc>>
  /\ Keep(g)

\* -o stays, for FUSE; "ro" is noted.
MountOption(g) ==
  /\ g.opt = "o"
  /\ IF g.arg = "ro" THEN Notes("write_mode", FALSE) ELSE UNCHANGED <<options, pc>>
  /\ Keep(g)

\* -h and -V: main shows the help or the version, and exits.
Help(g) ==
  /\ g.opt \in {"h", "V"}
  /\ Becomes("helped")
  /\ Drop(g, 1)

\* Anything else, a missing value, and -w, which getopt is told of but the
\* switch is not.
Unknown(g) ==
  /\ g.opt \in {"?", "w"}
  /\ Becomes("failed") /\ Keep(g)

\* The canonical path of a word; NULL if it does not name one.
Resolved(w) == IF w \in DOMAIN Realpath THEN Realpath[w] ELSE NULL

\* No option is left: there must be two operands.  FUSE is left the second as
\* it was given; what main keeps of it is resolved, and is not looked at again.
Operands(g) ==
  /\ g.opt = "end"
  /\ IF g.optind + 2 # argc THEN Becomes("failed") /\ Keep(g)
     ELSE /\ options' = [options EXCEPT !.adf_filename = g.argv[argc - 2],
                                        !.mount_point = Resolved(g.argv[argc - 1])]
          /\ pc' = "parsed"
          /\ argv' = DropArgs(g.argv, argc - 2, 1)
          /\ argc' = argc - 1
          /\ UNCHANGED <<line, optind, rest, skipped>>

\* Variant with a defect: -s is left to the user.
FuseMainAsGiven ==
  pc = "parsed" /\ Becomes("fuse") /\ UNCHANGED <<line, scan, argc>>

\* main: add_arg puts -s behind the vector, unless it is there; fuse_main.
FuseMain ==
  /\ pc = "parsed" /\ Becomes("fuse")
  /\ IF options.single_threaded THEN UNCHANGED <<argv, argc>>
     ELSE argv' = [argv EXCEPT ![argc] = Opt("s")] /\ argc' = argc + 1
  /\ UNCHANGED <<line, optind, rest, skipped>>

Init ==
  /\ line \in Lines
  /\ argv = [i \in 0 .. Len(line) + 1 |->
               IF i = 0 THEN Prog ELSE IF i > Len(line) THEN NULL ELSE line[i]]
  /\ argc = Len(line) + 1
  /\ optind = 1 /\ rest = NoWord /\ skipped = <<1, 1>>
  /\ options = Defaults
  /\ pc = "parse"

\* One turn of the loop: g is what getopt returns.
ParseArgs ==
  /\ pc = "parse"
  /\ \E g \in {Getopt} :
       \/ Partition(g) \/ Logging(g) \/ IgnoreChecksums(g) \/ FuseOption(g)
       \/ MountOption(g) \/ Help(g) \/ Unknown(g) \/ Operands(g)

Next == ParseArgs \/ FuseMain

Spec == Init /\ [][Next]_vars

\* parse_args is a loop without waiting.
FairSpec == Spec /\ WF_vars(Next)

-----------------------------------------------------------------------------
(* What must hold.                                                         *)

Given == 0 .. argc - 1

\* The vector ends where argc says: whatever was dropped, it holds argc words
\* and then NULL, also when -s has been written into the slot argv[argc]
\* (fuseadf.c:265-293; FUSE walks the vector again).
Terminated ==
  /\ argc \in DOMAIN argv
  /\ \A i \in DOMAIN argv : argv[i] = NULL <=> i \notin Given

\* A plain line has one option to a word, the values of -p and -o in words of
\* their own, and -l without a value.  (The usage text, fuseadf.c:153, also has
\* "-l logfile" in two words; for getopt, "l::", that logfile is an operand.)
Plain(l) ==
  \A i \in DOMAIN l :
    /\ l[i].opts = <<>> \/ l[i] \in {Opt(c) : c \in {"p", "o", "l", "i", "s", "d", "f"}}
    /\ l[i] \in {Opt("p"), Opt("o")} /\ i < Len(l) => l[i + 1].opts = <<>>

ValueOf(l, i, c) == i > 1 /\ l[i - 1] = Opt(c)

\* Words of line l that are FUSE's, and its operands.
ForFuse(l)    == {i \in DOMAIN l : \/ l[i] \in {Opt(c) : c \in {"o", "s", "d", "f"}}
                                  \/ ValueOf(l, i, "o")}
OperandsOf(l) == {i \in DOMAIN l : /\ l[i].opts = <<>>
                                  /\ ~ValueOf(l, i, "p") /\ ~ValueOf(l, i, "o")}

\* How many of the words in S there are up to the i-th of the line: the place
\* of the i-th word among them.
Place(S, i) == Cardinality({j \in S : j <= i})

\* Wherever the options stand, and however argv has been edited under getopt,
\* FUSE is given its own words of a plain line in their order, the mount point
\* as it was written, and -s if it is not among them; the image is the first
\* operand, the mount point the second (fuseadf.c:178-262, 88-91).
LineServed ==
  pc = "fuse" /\ Plain(line) =>
    LET own == ForFuse(line)
        two == OperandsOf(line)
        n == Cardinality(own)
    IN
    /\ argv[0] = Prog
    /\ \A i \in own : argv[Place(own, i)] = line[i]
    /\ Cardinality(two) = 2
    /\ \A i \in two : IF Place(two, i) = 1 THEN options.adf_filename = line[i]
                      ELSE /\ argv[n + 1] = line[i]
                           /\ options.mount_point = Resolved(line[i])
    /\ IF \E i \in own : line[i] = Opt("s") THEN argc = n + 2
       ELSE argc = n + 3 /\ argv[n + 2] = Opt("s")

\* Each option of a plain line counts once, and none of the others' values is
\* taken for it: the partition is that of the last -p, cast, and -l, -i and
\* -o ro are noted exactly when they are there (fuseadf.c:181-235).
OptionsRead ==
  pc \in {"parsed", "fuse"} /\ Plain(line) =>
    LET parts == {i \in DOMAIN line : ValueOf(line, i, "p")} IN
    /\ parts = {} => options.adf_volume = 0
    /\ \A i \in parts :
         (\A j \in parts : j <= i) => options.adf_volume = Volume(line[i].arg)
    /\ options.logging <=> \E i \in DOMAIN line : line[i] = Opt("l")
    /\ options.ignore_checksum_errors <=> \E i \in DOMAIN line : line[i] = Opt("i")
    /\ options.write_mode <=>
         ~\E i \in DOMAIN line : ValueOf(line, i, "o") /\ line[i].arg = "ro"

\* A plain line is refused only for a reason: a partition that is no number or,
\* cast, above 10; a value that is missing; a number of operands other than two,
\* among which the words behind -l count (fuseadf.c:181-199, 254-255).
RefusedForReason ==
  pc = "failed" /\ Plain(line) =>
    \/ Cardinality(OperandsOf(line)) # 2
    \/ \E i \in DOMAIN line :
         \/ /\ ValueOf(line, i, "p")
            /\ line[i].arg \notin DOMAIN Number \/ Volume(line[i].arg) > 10
         \/ line[i] \in {Opt("p"), Opt("o")} /\ i = Len(line)

\* The loop of parse_args ends, although it moves getopt back (fuseadf.c:178).
Parsed == <>(pc # "parse")

=============================================================================
