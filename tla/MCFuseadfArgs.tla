--------------------------- MODULE MCFuseadfArgs ---------------------------
(* Command lines for the model checker, and what is said of them.          *)
EXTENDS FuseadfArgs

\* Four bits are enough for the partitions, and for two that are none.  16 is
\* 2^32 here: the number that is 0 when it has been cast.
MCUInt == 16
MCNumber == ("1" :> 1) @@ ("11" :> 11) @@ ("16" :> 16)

Img == Operand("img")
Mnt == Operand("mnt")

\* "mnt" is there; "img" is no path that realpath can follow.
MCRealpath == Mnt :> Operand("/mnt")

\* The options of plain lines, with their values.
Units == {<<Opt("p"), Operand("1")>>, <<Opt("p"), Operand("11")>>,
          <<Opt("p"), Operand("16")>>, <<Opt("p"), Operand("x")>>,
          <<Opt("o"), Operand("ro")>>, <<Opt("o"), Operand("x")>>,
          <<Opt("l")>>, <<Opt("i")>>, <<Opt("s")>>, <<Opt("f")>>}

\* Runs of n options.
Runs[n \in 0 .. 3] ==
  IF n = 0 THEN {<<>>} ELSE {l \o u : l \in Runs[n - 1], u \in Units}

\* Up to three options before, between and behind two operands, or two options
\* with one operand or none.
Places == {x \in (0 .. 3) \X (0 .. 3) \X (0 .. 3) : x[1] + x[2] + x[3] <= 3}

TwoOperands(x) ==
  {a \o <<Img>> \o b \o <<Mnt>> \o c :
     a \in Runs[x[1]], b \in Runs[x[2]], c \in Runs[x[3]]}

OneOperand(x) == {a \o <<Img>> \o b : a \in Runs[x[1]], b \in Runs[x[2]]}

PlainLines ==
  UNION {TwoOperands(x) : x \in Places}
    \cup UNION {OneOperand(x) : x \in {y \in Places : y[1] + y[2] + y[3] <= 2}}
    \cup Runs[1] \cup Runs[2] \cup {<<Mnt, Img>>, <<Mnt, Opt("l"), Img>>}

\* Words of all kinds, in any order: several letters in one word, values
\* written in one word with their option.
AnyWords == {Opt("p"), Opt("l"), Opt("i"), Opt("s"), Opt("h"), Opt("w"),
             Attached("p", "1"), Attached("l", "log"),
             [opts |-> <<"i", "s">>, arg |-> ""], [opts |-> <<"s", "i">>, arg |-> ""], Img}

AnyLines == UNION {[1 .. k -> AnyWords] : k \in 0 .. 4}

MCLines == PlainLines \cup AnyLines

\* "Since 0.3, the FUSE's single-threaded mode is enforced, adding -s is no
\* longer needed" (README.md:62): whatever the line, FUSE is given -s.
SingleThreadEnforced ==
  pc = "fuse" =>
    \E i \in 1 .. argc - 1 : \E k \in DOMAIN argv[i].opts : argv[i].opts[k] = "s"

\* The options as the usage text has them (fuseadf.c:149-163), one of them
\* "-l logfile - enable logging and (optionally) specify logging file"
\* (fuseadf.c:153, README.md:22, doc/fuseadf.1:50), before the two operands.
Documented ==
  {<<Opt("p"), Operand("1")>>, <<Opt("l")>>, <<Opt("l"), Operand("log")>>, <<Opt("i")>>,
   <<Opt("o"), Operand("ro")>>, <<Opt("f")>>, <<Opt("d")>>, <<Opt("s")>>}

UsageLines ==
  {u \o <<Img, Mnt>> : u \in Documented}
    \cup {u \o v \o <<Img, Mnt>> : u \in Documented, v \in Documented}

\* "fuseadf -l logfile -p 1 -o ro mydisk.adf myfiles" (doc/fuseadf.1:62) and the
\* usage text: no line written as they have it is refused (fuseadf.c:176, 254).
UsageServed == line \in UsageLines => pc # "failed"

=============================================================================
