--------------------------- MODULE MCRegexParser ----------------------------
(***************************************************************************)
(* Instances of NfaReduce, and RegexParser, for TLC, and what the NFA must *)
(* recognize.  The lines of a file are generated from expressions as       *)
(* trees, so that their words are known.                                   *)
(***************************************************************************)
EXTENDS NfaReduce

CONSTANT LongestWord

R == INSTANCE Regex

a    == R!Atom(R!Char(0))
b    == R!Atom(R!Char(1))
none == R!Cat(<<>>)

Finite  == {<<0, 1>>, <<2, 2>>, <<0, 2>>, <<1, 2>>, <<2, 3>>, <<1, 3>>, <<0, 3>>, <<2, 4>>}
Looping == {<<0, -1>>, <<1, -1>>}
AtLeastTwo == {<<2, -1>>}

Reps(E, bounds) == {R!Rep(e, r[1], r[2]) : e \in E, r \in bounds}

BoundsOf(e) == <<e[3], e[4]>>

-----------------------------------------------------------------------------
(***************************************************************************)
(* The expressions whose machines can be put together soundly.  A loop at  *)
(* the first state of a machine must not be skipped into or out of, a loop *)
(* at its last state not be entered by what follows or be copied.          *)
(***************************************************************************)
RECURSIVE LoopsAtFirst(_)
LoopsAtFirst(e) ==
  \/ R!IsRep(e) /\ (BoundsOf(e) \in Looping \/ LoopsAtFirst(e[2]))
  \/ R!IsCat(e) /\ e[2] # <<>> /\ LoopsAtFirst(e[2][1])

RECURSIVE LoopsAtLast(_)
LoopsAtLast(e) ==
  \/ R!IsRep(e) /\ BoundsOf(e) \in AtLeastTwo
  \/ R!IsCat(e) /\ e[2] # <<>> /\ LoopsAtLast(e[2][Len(e[2])])

RECURSIVE HasAtLeast(_)
HasAtLeast(e) ==
  CASE R!IsAtom(e) -> FALSE
    [] R!IsRep(e)  -> BoundsOf(e) \in AtLeastTwo \/ HasAtLeast(e[2])
    [] R!IsCat(e)  -> \E i \in DOMAIN e[2] : HasAtLeast(e[2][i])
    [] OTHER       -> HasAtLeast(e[2]) \/ HasAtLeast(e[3])

Skips(e) == e[3] # e[4] /\ BoundsOf(e) \notin AtLeastTwo

RECURSIVE Supported(_)
Supported(e) ==
  CASE R!IsAtom(e) -> TRUE
    [] R!IsRep(e)  -> /\ Supported(e[2])
                      /\ ~HasAtLeast(e[2])
                      /\ Skips(e) => ~LoopsAtFirst(e[2])
    [] R!IsCat(e)  -> \A i \in DOMAIN e[2] :
                        /\ Supported(e[2][i])
                        /\ i > 1 /\ LoopsAtLast(e[2][i - 1]) => ~LoopsAtFirst(e[2][i])
    [] OTHER       -> Supported(e[2]) /\ Supported(e[3])

-----------------------------------------------------------------------------
AllBounds == Finite \cup Looping \cup AtLeastTwo

Pieces == {a, b} \cup Reps({a}, AllBounds)
Tails  == {b} \cup Reps({b}, {<<0, -1>>, <<0, 1>>, <<2, -1>>})
Parts  == {R!Cat(<<p, q>>) : p \in Pieces, q \in Tails}
            \cup {R!Alt(p, q) : p \in Pieces, q \in {b, R!Rep(b, 1, -1), none}}
Nested == Reps({R!Cat(<<g, t>>) : g \in Reps({R!Alt(a, R!Cat(<<b, a>>)), R!Cat(<<a, b>>)},
                                             AllBounds),
                                 t \in Tails}, AllBounds)
Regexes == Parts \cup Reps(Parts, AllBounds) \cup Nested
            \cup {R!Cat(<<a, p, t>>) : p \in Parts, t \in Tails}

Line(tilde, e) == [tilde |-> tilde, tokens |-> R!TokensOf(e), tree |-> e]

File(lines, i, m) == [lines |-> lines, i_modifier |-> i, m_modifier |-> m]

(* Files of one anchored line without options, and of two short lines,     *)
(* anchored or not, with all options.                                      *)
OneLineFiles(E) == {File(<<Line(TRUE, e)>>, FALSE, FALSE) : e \in E}

ShortLines ==
  {R!Cat(<<a, b>>), R!Rep(a, 2, 2), R!Atom(R!NotInBrackets({0})),
   R!Cat(<<R!Atom(R!AnySymbol), R!Rep(R!Atom(R!Escape({0, 2})), 0, 1)>>),
   R!Rep(R!Atom(R!InBrackets({1})), 1, -1), none}

TwoLineFiles ==
  {File(<<Line(t, e), Line(u, f)>>, i, m) :
     t \in BOOLEAN, u \in BOOLEAN, i \in BOOLEAN, m \in BOOLEAN,
     e \in ShortLines, f \in ShortLines}

(* A repetition that is rejected *)
RejectedFiles == {File(<<Line(TRUE, R!Rep(a, r[1], r[2]))>>, FALSE, FALSE) :
                    r \in {<<0, 0>>, <<1, 0>>, <<3, 2>>}}

(* Of these the NFAs of two lines, the first anchored, with the m modifier *)
(* and of single lines that do not begin with a loop are reduced.          *)
MCReduced ==
  {f \in TwoLineFiles : f.m_modifier /\ ~f.i_modifier /\ f.lines[1].tilde}
    \cup OneLineFiles({e \in Parts \cup Reps(Parts, {<<0, 1>>, <<2, 2>>}) :
                          Supported(e) /\ ~LoopsAtFirst(e)})

MCRuleFiles == OneLineFiles({e \in Regexes : Supported(e)})
                 \cup TwoLineFiles \cup RejectedFiles

(* Part of what Supported leaves out: loops that are skipped over.         *)
SkippedLoops ==
  OneLineFiles({R!Rep(R!Cat(<<R!Rep(a, 0, -1), b>>), r[1], r[2]) : r \in Finite \cup Looping})

(* 0 and 1 are the two cases of a letter, 2 is a newline. *)
MCCaseTwin == [c \in Symbols |-> IF c < 2 THEN 1 - c ELSE c]

-----------------------------------------------------------------------------
Words == SeqOf(Symbols, LongestWord)

(* What the atoms mean: their symbols in both cases if case is ignored. *)
Twins(S) == IF file.i_modifier THEN S \cup {MCCaseTwin[c] : c \in S} ELSE S

MeaningOf(t) ==
  CASE t.kind = "any" -> Symbols
    [] t.negate       -> Symbols \ Twins(t.symbols)
    [] OTHER          -> Twins(t.symbols)

Meaning(e) == [t \in R!AtomsOf(e) |-> MeaningOf(t)]

(* A word of a line begins with the input, after a newline with the m      *)
(* modifier, and anywhere if the line is not anchored.                     *)
MayBegin(line, w, i) ==
  \/ i = 1
  \/ ~line.tilde
  \/ file.m_modifier /\ w[i - 1] \in Newlines

(* The words, up to the bound, that end with a word of the line. *)
Matches(line) ==
  LET own == R!WordsOf(line.tree, LongestWord, Meaning(line.tree))
  IN {w \in Words : \E i \in 1 .. Len(w) + 1 :
        MayBegin(line, w, i) /\ SubSeq(w, i, Len(w)) \in own}

(* The NFA reports exactly the expressions of the file that the input read *)
(* so far ends with (parser.h, nfa.h): "the initial .* is implicit" for    *)
(* expressions that do not begin with a tilde.  It does so when parse      *)
(* returns, without epsilon transitions, and after reduce; transform keeps *)
(* it but for the empty input: the rules of the closure of the first state *)
(* are not given to the first state.                                       *)
Expected == UNION {Matches(file.lines[i]) \X {i} : i \in DOMAIN file.lines}

RecognizesTheFile ==
  /\ pc \in {"done", "no_epsilon", "reduced"} =>
       Reports(heap, LongestWord) = Expected
  /\ pc = "transformed" =>
       Reports(heap, LongestWord) = {x \in Expected : x[1] # <<>>}
=============================================================================
