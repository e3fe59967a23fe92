------------------------------- MODULE Regex --------------------------------
(***************************************************************************)
(* What regular expressions mean: their words up to a length, and the      *)
(* tokens in which a rule file writes them.  This is the reference the     *)
(* parser is compared with and models no code.                             *)
(***************************************************************************)
EXTENDS Integers, Sequences, FiniteSets, SequencesExt

Unbounded == -1

Atom(t)          == <<"atom", t>>
Rep(e, lb, ub)   == <<"rep", e, lb, ub>>
Cat(es)          == <<"cat", es, "">>
Alt(e, f)        == <<"alt", e, f, "", "">>

IsAtom(e) == e[1] = "atom"
IsRep(e)  == e[1] = "rep"
IsCat(e)  == e[1] = "cat"

Token(k, S, n) == [kind |-> k, symbols |-> S, negate |-> n]
Char(c)        == Token("char", {c}, FALSE)
Escape(S)      == Token("escape", S, FALSE)
InBrackets(S)  == Token("range", S, FALSE)
NotInBrackets(S) == Token("range", S, TRUE)
AnySymbol      == Token("any", {}, FALSE)

Quantifier(lb, ub) ==
  CASE lb = 0 /\ ub = Unbounded -> [kind |-> "star"]
    [] lb = 1 /\ ub = Unbounded -> [kind |-> "plus"]
    [] lb = 0 /\ ub = 1         -> [kind |-> "opt"]
    [] OTHER                    -> [kind |-> "quantifier", lb |-> lb, ub |-> ub]

Bracketed(ts) == <<[kind |-> "open"]>> \o ts \o <<[kind |-> "close"]>>

(* The tokens of an expression; what is repeated or is an alternative is   *)
(* bracketed where it is more than an atom.                                *)
RECURSIVE TokensOf(_)
TokensOf(e) ==
  LET inner(f) == IF IsAtom(f) THEN TokensOf(f) ELSE Bracketed(TokensOf(f))
      part(f)  == IF f[1] = "alt" THEN Bracketed(TokensOf(f)) ELSE TokensOf(f)
  IN CASE IsAtom(e) -> <<e[2]>>
       [] IsRep(e)  -> Append(inner(e[2]), Quantifier(e[3], e[4]))
       [] IsCat(e)  -> FlattenSeq([i \in DOMAIN e[2] |-> part(e[2][i])])
       [] OTHER     -> TokensOf(e[2]) \o <<[kind |-> "or"]>> \o TokensOf(e[3])

AtomsOf(e) == {t \in ToSet(TokensOf(e)) :
                 t.kind \in {"char", "escape", "range", "any"}}

-----------------------------------------------------------------------------
Concatenated(A, B, n) == {w \in {a \o b : a \in A, b \in B} : Len(w) <= n}

(* The words of at most n symbols; `meaning' maps atoms to their symbols. *)
RECURSIVE WordsOf(_, _, _)
WordsOf(e, n, meaning) ==
  CASE IsAtom(e) -> {<<c>> : c \in meaning[e[2]]}
    [] IsCat(e)  ->
         FoldLeft(LAMBDA W, f : Concatenated(W, WordsOf(f, n, meaning), n),
                  {<<>>}, e[2])
    [] IsRep(e)  ->
         LET once == WordsOf(e[2], n, meaning)
             most == IF e[4] = Unbounded THEN n ELSE e[4] - e[3]
             all  == [k \in 1 .. e[3] |-> once]
                       \o [k \in 1 .. most |-> once \cup {<<>>}]
         IN FoldLeft(LAMBDA W, X : Concatenated(W, X, n), {<<>>}, all)
    [] OTHER     -> WordsOf(e[2], n, meaning) \cup WordsOf(e[3], n, meaning)
=============================================================================
