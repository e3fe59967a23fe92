---------------------------- MODULE MCD2fa ---------------------------------
(***************************************************************************)
(* Instances of D2fa for TLC: automata of four and five states over        *)
(* three symbols, numbered by distance from state 0 as nfa2dfa does, whose *)
(* rows share zero to three targets.                                       *)
(***************************************************************************)
EXTENDS D2fa

Row(x, y, z) == [a \in Symbols |-> IF a = 0 THEN x ELSE IF a = 1 THEN y ELSE z]

Dfa(n, t) ==
  [size |-> n, table |-> t, dead_state |-> IF n = 4 THEN NO_STATE ELSE 4,
   accepted |-> [q \in 0 .. n - 1 |-> IF q = 3 THEN {1} ELSE {}]]

(* State 0 leads to states 1 and 2, one of these to 3.                     *)
FourStates ==
  {Dfa(4, [q \in 0 .. 3 |-> IF q = 0 THEN Row(1, 2, 0) ELSE r[q]]) :
     r \in [1 .. 3 -> {Row(1, 2, 0), Row(1, 3, 0), Row(0, 2, 0)}]}

(* A path 0, 1, 2, 3 and a state 4 off its end.                            *)
FiveStates ==
  {Dfa(5, [q \in 0 .. 4 |-> IF q < 3 THEN Row(q + 1, 0, x[q]) ELSE r[q]]) :
     x \in [0 .. 2 -> {0, 1}],
     r \in {f \in [3 .. 4 -> {Row(4, 0, 0), Row(4, 4, 4), Row(4, 1, 0)}] :
              f[4] # Row(4, 1, 0)}}

Reachable(D) == \E d \in [StatesOf(D) -> 0 .. D.size - 1] : IsDepth(D, d)

MCDfas == {D \in FourStates \cup FiveStates : Reachable(D)}

MCKs == {1, 2}
MCBounds == {-1, 1, 2}
MCGarbage == {-1, 7}
=============================================================================
