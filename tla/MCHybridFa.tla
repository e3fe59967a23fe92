---------------------------- MODULE MCHybridFa -----------------------------
(***************************************************************************)
(* Instances of HybridFa for TLC: NFAs that are chains of states, each     *)
(* with one of the rows the parser builds for a symbol, for any symbol,    *)
(* for a dot-star in front of a symbol and for a way back to the root.     *)
(* With SPECIAL_DEPTH 2 and MAX_TX 2 the states from the third on are      *)
(* special, and so is a second one with a dot-star.                        *)
(***************************************************************************)
EXTENDS HybridFa

Row(x, y) == [c \in Symbols |-> IF c = 0 THEN x ELSE y]

RowsOf(s, root) ==
  {Row({s + 1}, {}), Row({s + 1}, {s + 1}), Row({s, s + 1}, {s}), Row({s + 1}, {root})}

Chain(root, n) == root .. root + n - 1

(* NFAs whose last state accepts; the one before may accept another rule.  *)
RowChoices(root, n) ==
  {r \in [Chain(root, n) -> UNION {RowsOf(s, root) : s \in Chain(root, n)} \cup {Row({}, {})}] :
     \A s \in Chain(root, n) :
       r[s] \in IF s = root + n - 1 THEN {Row({}, {}), Row({s}, {})} ELSE RowsOf(s, root)}

NfaOf(r, accepting) ==
  [transitions |-> r, epsilon |-> [s \in DOMAIN r |-> {}], accepting |-> accepting]

OneNfas ==
  {[how |-> "one", roots |-> <<0>>,
    nfa |-> NfaOf(r, [s \in Chain(0, 4) |-> IF s = 3 THEN {1}
                                             ELSE IF s = 2 /\ two THEN {2} ELSE {}])] :
     r \in {x \in RowChoices(0, 4) : x[0] \in {Row({1}, {}), Row({0, 1}, {0})}}, two \in {TRUE}}

(* Two NFAs, one with two states. *)
TwoNfas(lengths) ==
  UNION {{[how |-> "list", roots |-> <<0, 10>>,
           nfa |-> NfaOf(q @@ r, [s \in DOMAIN q \cup DOMAIN r |->
                                    IF s = n[1] - 1 THEN {1}
                                    ELSE IF s = 9 + n[2] THEN {1, 2} ELSE {}])] :
            q \in RowChoices(0, n[1]),
            r \in {x \in RowChoices(10, n[2]) : x[10] = Row({10, 11}, {10})}} :
         n \in lengths}

(* A list of one NFA, whose head may be too large to be kept. *)
OneInList ==
  {[t EXCEPT !.how = "list"] : t \in {x \in OneNfas : x.nfa.transitions[0] = Row({1}, {})}}

MCTasks == OneNfas \cup OneInList \cup TwoNfas({<<3, 2>>})

ListTasks == TwoNfas({<<4, 2>>})
=============================================================================
