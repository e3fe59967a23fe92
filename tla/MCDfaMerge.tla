----------------------------- MODULE MCDfaMerge -----------------------------
(***************************************************************************)
(* Instances of DfaMerge for TLC: a DFA of two states with any table, one  *)
(* of a few DFAs of three states with or without a dead state and a        *)
(* border, in either order, and some lists of one and of three.            *)
(***************************************************************************)
EXTENDS DfaMerge

NoBorder == [s \in {} |-> {}]

(* State 1 reports rule 1; a two-state DFA has no dead state.              *)
TwoStateDfas ==
  {[size |-> 2, table |-> t, dead_state |-> NO_STATE, border |-> NoBorder,
    accepted |-> [s \in 0 .. 1 |-> IF s = 1 THEN {1} ELSE {}]] :
     t \in [0 .. 1 -> [Symbols -> 0 .. 1]]}

Row(x, y, z) == [a \in Symbols |-> IF a = 0 THEN x ELSE IF a = 1 THEN y ELSE z]

(* An anchored expression: state 1 reports rule 2 and state 2 is dead, or  *)
(* the other way round.                                                    *)
Anchored(dead, row) ==
  [size |-> 3, dead_state |-> dead, border |-> NoBorder,
   table |-> [s \in 0 .. 2 |-> IF s = 0 THEN row ELSE Row(dead, dead, dead)],
   accepted |-> [s \in 0 .. 2 |-> IF s = 3 - dead THEN {2} ELSE {}]]

(* A head of a hybrid automaton: states 1 and 2 hand over to tails, and    *)
(* state 0 where a word leads back to it.                                  *)
WithBorder(row) ==
  [size |-> 3, dead_state |-> NO_STATE,
   border |-> [s \in {t \in 0 .. 2 : t = 0 => \E a \in Symbols : row[a] = 0} |->
                 IF s = 2 THEN {"n1", "n2"} ELSE {"n1"}],
   table |-> [s \in 0 .. 2 |-> IF s = 0 THEN row ELSE Row(0, s, 2)],
   accepted |-> [s \in 0 .. 2 |-> IF s = 2 THEN {2} ELSE {}]]

Rows == {Row(1, 2, 2), Row(2, 2, 1), Row(0, 1, 2), Row(1, 1, 1)}

ThreeStateDfas ==
  {Anchored(d, r) : d \in {1, 2}, r \in Rows} \cup {WithBorder(r) : r \in Rows}

MCMerges ==
  {<<D>> : D \in ThreeStateDfas}
    \cup {<<D, E>> : D \in TwoStateDfas, E \in ThreeStateDfas}
    \cup {<<D, E>> : D \in ThreeStateDfas, E \in ThreeStateDfas}
    \cup {<<D, E, F>> : D \in {Anchored(2, r) : r \in Rows},
                        E \in {WithBorder(r) : r \in Rows},
                        F \in ThreeStateDfas}
=============================================================================
