---------------------------- MODULE CommandChain ----------------------------
(***************************************************************************)
(* How src/mcp_ssh/policy.py reads a command line: _parse_command_chain    *)
(* takes it apart at the chaining operators, _split_command_args (shlex)   *)
(* makes an argument vector of one command, and _normalize_command undoes  *)
(* quoting.  A command is a sequence of symbols: a blank, a character the  *)
(* shell treats specially, or a word, which stands for a run of others.    *)
(* There is no backslash among the symbols.                                *)
(***************************************************************************)
EXTENDS Integers, FiniteSets, SequencesExt

Blank  == " "
Quotes == {"'", "\""}
Tick   == "backtick"
Parens == {"(", ")"}
Chain  == {"&", "|", ";"}

Positions(s) == [i \in DOMAIN s |-> i]

\* The elements of s that are in S, in their order.
Among(s, S) ==
    FoldLeft(LAMBDA kept, x : IF x \in S THEN Append(kept, x) ELSE kept, <<>>, s)

Strip(s) ==
    LET solid == {i \in DOMAIN s : s[i] # Blank}
        first == CHOOSE i \in solid : \A j \in solid : i <= j
        last  == CHOOSE i \in solid : \A j \in solid : i >= j
    IN  IF solid = {} THEN <<>> ELSE SubSeq(s, first, last)

Occurs(part, s) ==
    \E i \in 0..Len(s) - Len(part) : SubSeq(s, i + 1, i + Len(part)) = part

-----------------------------------------------------------------------------
(* Slips a change to this code could make; the runs must notice each.        *)

\* The positions one may reach from p over blanks.
PastBlanks(cmd, p) ==
    {q \in p + 1..Len(cmd) : \A r \in p + 1..q - 1 : cmd[r] = Blank}

\* A quick look that knows "&&", "||" and ";" but not the pipe.
PipelessHasChaining(cmd) ==
    \/ \E p \in DOMAIN cmd : \E q \in PastBlanks(cmd, p) :
         \/ cmd[p] \in Chain /\ cmd[q] \in {"&", "|"}
         \/ cmd[p] = ";" /\ cmd[q] # ";"
    \/ Occurs(<<Tick>>, cmd) \/ Occurs(<<"$", "(">>, cmd)

-----------------------------------------------------------------------------
(* _parse_command_chain                                                      *)

\* The quick look that spares most commands the scan: three regular expressions
\* and the two marks of a substitution.
HasChaining(cmd) ==
    \/ \E p \in DOMAIN cmd : \E q \in PastBlanks(cmd, p) :
         \/ cmd[p] \in Chain /\ cmd[q] \in {"&", "|"}
         \/ cmd[p] \in {";", "|"} /\ cmd[q] # cmd[p]
    \/ Occurs(<<Tick>>, cmd) \/ Occurs(<<"$", "(">>, cmd)

\* Where the scan is: inside which quote, substitution or group, where the
\* current command began, the commands so far, and whether the symbol at hand
\* is the second of two read together.
ScanStart == [quote |-> "none", tick |-> FALSE, dollar |-> 0, paren |-> 0,
              from |-> 1, members |-> <<>>, skip |-> FALSE]

Plain(s) == s.quote = "none" /\ ~s.tick /\ s.dollar = 0

NextIs(cmd, i, c) == i < Len(cmd) /\ cmd[i + 1] = c

\* "&&", "||", ";" and "|"; a single "&" is none.
OperatorLength(cmd, i) ==
    CASE cmd[i] \in {"&", "|"} /\ NextIs(cmd, i, cmd[i]) -> 2
      [] cmd[i] = ";"                                    -> 1
      [] cmd[i] = "|" /\ ~NextIs(cmd, i, "|")            -> 1
      [] OTHER                                           -> 0

\* The commands so far and the one that ends at position to, unless it is blank.
Collect(cmd, s, to) ==
    LET current == Strip(SubSeq(cmd, s.from, to))
    IN  IF current = <<>> THEN s.members ELSE Append(s.members, current)

Level(c) == IF c = "(" THEN 1 ELSE -1

\* One turn of the loop.  "$(" inside "$(" starts counting anew.
Consume(cmd, s, i) ==
    LET c == cmd[i]
        width == OperatorLength(cmd, i)
    IN  IF s.skip THEN [s EXCEPT !.skip = FALSE] ELSE
        CASE c \in Quotes /\ s.quote \in {"none", c} /\ ~s.tick /\ s.dollar = 0 ->
               [s EXCEPT !.quote = IF @ = c THEN "none" ELSE c]
          [] c = Tick /\ s.quote = "none" -> [s EXCEPT !.tick = ~@]
          [] c = "$" /\ NextIs(cmd, i, "(") /\ s.quote = "none" /\ ~s.tick ->
               [s EXCEPT !.dollar = 1, !.skip = TRUE]
          [] c \in Parens /\ s.dollar > 0 -> [s EXCEPT !.dollar = @ + Level(c)]
          [] c \in Parens /\ Plain(s)     -> [s EXCEPT !.paren = @ + Level(c)]
          [] width > 0 /\ Plain(s) /\ s.paren = 0 ->
               [s EXCEPT !.members = Collect(cmd, s, i - 1), !.from = i + width,
                         !.skip = width = 2]
          [] OTHER -> s

Scan(cmd) ==
    LET end == FoldLeft(LAMBDA s, i : Consume(cmd, s, i), ScanStart, Positions(cmd))
    IN  Collect(cmd, end, Len(cmd))

ParseCommandChain(cmd) ==
    LET scanned == IF HasChaining(cmd) THEN Scan(cmd) ELSE <<>>
    IN  CASE Strip(cmd) = <<>> -> <<>>
          [] Strip(cmd) # <<>> /\ scanned # <<>> -> scanned
          [] OTHER -> <<Strip(cmd)>>

-----------------------------------------------------------------------------
(* _split_command_args and _normalize_command                                *)

\* The quote that is open before each symbol, and after the last, as a shell
\* reads them.
OpenQuotes(cmd) ==
    LET Read(open, c) ==
            LET now == open[Len(open)]
            IN  Append(open, IF now = "none" /\ c \in Quotes THEN c
                             ELSE IF now = c THEN "none" ELSE now)
    IN  FoldLeft(Read, <<"none">>, cmd)

\* The symbols that open or close a quote.
Marks(cmd, open) == {i \in DOMAIN cmd : open[i] # open[i + 1]}

\* The positions in In, in order.
InOrder(cmd, In) == Among(Positions(cmd), In)

\* The runs of adjacent positions in In, each as its first and last, in order.
Runs(cmd, In) ==
    LET starts == InOrder(cmd, {i \in In : i - 1 \notin In})
        ends   == InOrder(cmd, {i \in In : i + 1 \notin In})
    IN  [k \in DOMAIN starts |-> <<starts[k], ends[k]>>]

\* The symbols at the positions of Kept between from and to.
Symbols(cmd, from, to, Kept) ==
    LET order == InOrder(cmd, Kept \cap (from..to))
    IN  [k \in DOMAIN order |-> cmd[order[k]]]

\* shlex.split: blanks outside quotes part arguments, quotes are taken off, and
\* with a quote left open there is no result.
SplitCommandArgs(cmd) ==
    LET open  == OpenQuotes(cmd)
        solid == {i \in DOMAIN cmd : cmd[i] # Blank \/ open[i] # "none"}
        parts == Runs(cmd, solid)
    IN  IF open[Len(open)] # "none" THEN <<>>
        ELSE [k \in DOMAIN parts |->
                Symbols(cmd, parts[k][1], parts[k][2], DOMAIN cmd \ Marks(cmd, open))]

\* All quotes removed, blanks collapsed; the tokens are what is between them.
Tokens(cmd) ==
    LET bare == Among(cmd, ToSet(cmd) \ Quotes)
        parts == Runs(bare, {i \in DOMAIN bare : bare[i] # Blank})
    IN  [k \in DOMAIN parts |-> SubSeq(bare, parts[k][1], parts[k][2])]

NormalizeCommand(cmd) ==
    Strip(FlattenSeq([k \in DOMAIN Tokens(cmd) |-> <<Blank>> \o Tokens(cmd)[k]]))

-----------------------------------------------------------------------------
(* What _parse_command_chain is for, said without a scan.  The operators are  *)
(* the code's and those of docs/wiki/06.3-policy.yml.md:133; a shell also     *)
(* parts commands at a single "&" and at the end of a line, which here, as in *)
(* the code, part nothing (an end of line is one of the blanks).              *)

Substitutes(cmd) == Occurs(<<Tick>>, cmd) \/ Occurs(<<"$", "(">>, cmd)

\* Position i separates two commands: an operator outside quotes and groups.  Of
\* a run of "&" an odd last one is no operator.
Separates(cmd, open, i) ==
    LET outside == {p \in DOMAIN cmd : open[p] = "none" /\ open[p + 1] = "none"}
        depth == Cardinality({p \in outside : p < i /\ cmd[p] = "("})
                 - Cardinality({p \in outside : p < i /\ cmd[p] = ")"})
        run == {p \in 1..i : \A r \in p..i : cmd[r] = "&"}
    IN  /\ i \in outside /\ depth = 0 /\ cmd[i] \in Chain
        /\ cmd[i] = "&" /\ ~NextIs(cmd, i, "&") => Cardinality(run) % 2 = 0

\* The commands between the separators, blank ones left out.
Commands(cmd) ==
    LET open  == OpenQuotes(cmd)
        parts == Runs(cmd, {i \in DOMAIN cmd : ~Separates(cmd, open, i)})
        texts == [k \in DOMAIN parts |-> Strip(SubSeq(cmd, parts[k][1], parts[k][2]))]
    IN  Among(texts, ToSet(texts) \ {<<>>})

\* What is left of a command without blanks and operators.
Substance(cmd) == Among(cmd, ToSet(cmd) \ (Chain \cup {Blank}))

\* Nothing of a command is lost or moved by taking it apart; and where there is
\* no substitution, it is taken apart exactly at the operators that are outside
\* quotes and groups, whichever of the two ways through the parser it took.
\* (A single command is passed on as it stands, stray operators and all.)
SplitRight(cmd) ==
    LET parsed == ParseCommandChain(cmd)
    IN  /\ Substance(FlattenSeq(parsed)) = Substance(cmd)
        /\ ~Substitutes(cmd) /\ (Len(parsed) > 1 \/ Len(Commands(cmd)) > 1)
              => parsed = Commands(cmd)
=============================================================================
