------------------------------ MODULE MCMemory ------------------------------
(***************************************************************************)
(* Instances for TLC. For Memory: DFAs of two states over four symbols,    *)
(* the second compressed against the first, and NFAs of three states, with *)
(* and without epsilon transitions, states without transitions and several *)
(* transitions on a symbol. Two symbols share a bit of a bitmap and a word *)
(* holds one second-level bitmap, so that words can be miscounted. For     *)
(* FbDfa: lists of DFAs, below.                                            *)
(***************************************************************************)
EXTENDS Memory, FbMinimise

Row(f) == [a \in Symbols |-> f[a + 1]]

(* labeled and default as fast_compression_algorithm leaves them. *)
Compressed(first, second) ==
  [size |-> 2,
   table |-> [s \in 0 .. 1 |-> IF s = 0 THEN first ELSE second],
   labeled |-> [s \in 0 .. 1 |-> IF s = 0 THEN Symbols ELSE {a \in Symbols : first[a] # second[a]}],
   default |-> [s \in 0 .. 1 |-> IF s = 0 THEN NO_STATE ELSE 0],
   accepted |-> [s \in 0 .. 1 |-> {s + 1}]]

DfasWith(first) == {Compressed(first, second) : second \in [Symbols -> 0 .. 1]}

Singles == {<<D>> : D \in DfasWith(Row(<<1, 0, 0, 1>>))}

Pairs == {<<D, E>> : D \in {Compressed(Row(<<1, 0, 0, 1>>), Row(<<1, 1, 0, 1>>))},
                     E \in DfasWith(Row(<<0, 1, 0, 0>>))}

NfaOf(first, epsilon, second) ==
  [transitions |-> [s \in 0 .. 2 |-> CASE s = 0 -> first [] s = 1 -> second
                                       [] OTHER -> [a \in Symbols |-> {}]],
   epsilon |-> [s \in 0 .. 2 |-> IF s = epsilon THEN {2} ELSE {}],
   accepting |-> [s \in 0 .. 2 |-> IF s = 0 THEN {} ELSE {s}]]

Nfas == {<<NfaOf(Row(<<{0, 1}, {0}, {0}, {0}>>), epsilon, second)>> :
           epsilon \in 0 .. 2, second \in [Symbols -> {{}, {2}}]}
        \cup {<<NfaOf(Row(<<{}, {1}, {1, 2}, {}>>), 1, Row(<<{0}, {}, {0, 1}, {2}>>))>>}

Layouts == {<<"LINEAR", 1>>, <<"LINEAR", 4>>, <<"BITMAP", 2>>, <<"BITMAP", 5>>,
            <<"INDIRECT_ADDR", 3>>}

OneSet == [kind |-> "cache", size |-> 16, line_size |-> 8, assoc |-> 2]

TwoSets == [kind |-> "cache", size |-> 32, line_size |-> 8, assoc |-> 2]

TaskOf(how, fa, layout, reader) ==
  [how |-> how, fa |-> fa, layout |-> layout[1], threshold |-> layout[2], reader |-> reader]

MCTasks ==
  {TaskOf("dfa", fa, l, OneSet) : fa \in Singles, l \in Layouts}
    \cup {TaskOf("dfas", fa, l, TwoSets) : fa \in Pairs, l \in Layouts}
    \cup {TaskOf("nfa", fa, l, TwoSets) : fa \in Nfas, l \in Layouts}
    \cup {TaskOf("dfa", fa, l, [kind |-> kind, size |-> 24]) :
            fa \in Singles, l \in {<<"LINEAR", 1>>}, kind \in {"onchip", "none"}}

-----------------------------------------------------------------------------
(***************************************************************************)
(* Lists for FbDfa: expressions .*X, .*XY, ^X and ^X{4} over bytes of two  *)
(* digits to the base 3, one that never matches, and two rules in one DFA. *)
(* Some are too large for a block, alone or together, for each reason that *)
(* converge looks for; a dead_state is stale, as minimize may leave it.    *)
(***************************************************************************)
DfaOf(n, dead, To(_, _), Accepts(_)) ==
  [size |-> n, dead_state |-> dead,
   table |-> [q \in 0 .. n - 1 |-> [b \in Bytes |-> To(q, b)]],
   accepted |-> [q \in 0 .. n - 1 |-> Accepts(q)]]

EndsIn(X) ==
  DfaOf(2, NO_STATE, LAMBDA q, b : IF b \in X THEN 1 ELSE 0,
        LAMBDA q : IF q = 1 THEN {1} ELSE {})

EndsInPair(X, Y) ==
  DfaOf(3, NO_STATE,
        LAMBDA q, b : IF q = 1 /\ b \in Y THEN 2 ELSE IF b \in X THEN 1 ELSE 0,
        LAMBDA q : IF q = 2 THEN {1} ELSE {})

BeginsWith(X, dead) ==
  DfaOf(3, dead, LAMBDA q, b : IF q = 0 /\ b \in X THEN 1 ELSE 2,
        LAMBDA q : IF q = 1 THEN {1} ELSE {})

FourTimes(X) ==
  DfaOf(6, 5, LAMBDA q, b : IF q < 4 /\ b \in X THEN q + 1 ELSE 5,
        LAMBDA q : IF q = 4 THEN {1} ELSE {})

NeverMatches == DfaOf(1, NO_STATE, LAMBDA q, b : 0, LAMBDA q : {})

TwoRules(X, Y) ==
  DfaOf(3, NO_STATE, LAMBDA q, b : IF b \in X THEN 1 ELSE IF b \in Y THEN 2 ELSE 0,
        LAMBDA q : IF q = 0 THEN {} ELSE {q})

Common == {EndsIn({0}), EndsIn({0, 4}), EndsInPair({0}, {4}), EndsInPair({1}, {1}),
           BeginsWith({3}, 2)}

MCLists ==
  {<<D>> : D \in {EndsIn({0, 4, 8}), BeginsWith({3, 4}, 1), FourTimes({2}), NeverMatches,
                  TwoRules({1}, {3}), TwoRules({0}, {4})}}
    \cup {<<NeverMatches, EndsIn({0})>>, <<FourTimes({2}), EndsIn({0})>>}
    \cup {<<D>> : D \in Common} \cup (Common \X Common) \cup (Common \X Common \X Common)

-----------------------------------------------------------------------------
(* A behaviour is of one of the two: of a memory layout that is read, or   *)
(* of blocks that are written and loaded.                                  *)
OneTask == CHOOSE t \in MCTasks : t.how = "dfa"

InitEither ==
  /\ Init
  /\ \/ dfas = <<>> /\ NothingDone /\ fpga = "idle"
     \/ task = OneTask /\ InitFpga

NextEither ==
  \/ fpga = "idle" /\ Next /\ UNCHANGED fbVars
  \/ fpga # "idle" /\ NextFpga /\ UNCHANGED vars

SpecEither == InitEither /\ [][NextEither]_<<vars, fbVars>>
=============================================================================
