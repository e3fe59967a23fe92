----------------------------- MODULE MCNfaToDfa -----------------------------
(***************************************************************************)
(* Instances of NfaToDfa for TLC: every automaton of two states over three *)
(* symbols whose labeled transitions have at most one target each, and the *)
(* automata of three states whose rows have one of the shapes the parser   *)
(* builds for a class, a dot-star in front of a symbol, a negated class,   *)
(* and a last state.                                                       *)
(***************************************************************************)
EXTENDS NfaToDfa

AtMostOne(S) == {{}} \cup {{x} : x \in S}

(* Automata of the states 0 and 1; state 2 is left out of them.            *)
TwoStateNfas ==
  {[transitions |-> [s \in NfaStates |-> IF s = 2 THEN [c \in Symbols |-> {}]
                                                  ELSE t[s]],
    epsilon     |-> [s \in NfaStates |-> IF s = 0 /\ e THEN {1} ELSE {}],
    accepting   |-> [s \in NfaStates |-> IF s = 1 THEN {1} ELSE {}]] :
     t \in [{0, 1} -> [Symbols -> AtMostOne({0, 1})]], e \in BOOLEAN}

Following(s) == (s + 1) % 3

RowShapes(s) ==
  {[c \in Symbols |-> {Following(s)}],
   [c \in Symbols |-> IF c = 0 THEN {s, Following(s)} ELSE {s}],
   [c \in Symbols |-> IF c = 1 THEN {} ELSE {0, Following(s)}],
   [c \in Symbols |-> {}]}

ThreeStateNfas ==
  {[transitions |-> [s \in NfaStates |-> r[s]],
    epsilon     |-> [s \in NfaStates |-> IF e THEN {Following(s)} \ {1} ELSE {}],
    accepting   |-> [s \in NfaStates |-> IF s = 0 THEN {} ELSE {s}]] :
     r \in {f \in [NfaStates -> UNION {RowShapes(s) : s \in NfaStates}] :
              \A s \in NfaStates : f[s] \in RowShapes(s)},
     e \in BOOLEAN}

MCNfas == TwoStateNfas \cup ThreeStateNfas
=============================================================================
