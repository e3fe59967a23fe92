----------------------------- MODULE MCHopcroft -----------------------------
(***************************************************************************)
(* Instances of Hopcroft and Pfac for TLC.  minimize runs on what nfa2dfa  *)
(* and the merge produce: automata whose states are all reachable and      *)
(* numbered in the order in which a breadth-first pass over states and     *)
(* symbols meets them, with a dead_state that is a sink without rules, or  *)
(* none.                                                                   *)
(***************************************************************************)
EXTENDS Pfac

CONSTANT ExhaustiveSize   \* every table of at most this many states

(* State s is first met from a smaller state, after all states below s.    *)
NumberedByDiscovery(t, n) ==
  \A s \in 1 .. n - 1 :
    \E r \in 0 .. s - 1, c \in Symbols :
      /\ t[r][c] = s
      /\ \A q \in 0 .. r, d \in Symbols : q < r \/ d < c => t[q][d] < s
      /\ \A u \in 1 .. s - 1 : \E q \in 0 .. r, d \in Symbols :
           (q < r \/ d < c) /\ t[q][d] = u

Tables(n) ==
  {t \in [0 .. n - 1 -> [Symbols -> 0 .. n - 1]] : NumberedByDiscovery(t, n)}

(* Tables of four states whose entry state leads to states 1 and 2, and    *)
(* whose last state leads back to states 0 and 1.                          *)
FourStateTables ==
  {t \in [0 .. 3 -> {[c \in Symbols |-> IF c = 0 THEN x ELSE y] : x, y \in 0 .. 3}] :
     /\ t[0] = [c \in Symbols |-> IF c = 0 THEN 1 ELSE 2]
     /\ t[3] = [c \in Symbols |-> c]
     /\ NumberedByDiscovery(t, 4)}

(* The entry state accepts nothing; the last state may accept one rule     *)
(* more than the others.                                                   *)
Acceptances(n) ==
  {a \in [0 .. n - 1 -> {{}, {1}, {1, 2}}] :
     /\ a[0] = {}
     /\ \A s \in 0 .. n - 2 : a[s] # {1, 2}}

SmallDfas ==
  UNION {{[size |-> n, table |-> t, accepted |-> a, dead_state |-> NO_STATE] :
            t \in Tables(n), a \in Acceptances(n)} :
         n \in 1 .. ExhaustiveSize}

(* The last state accepts.                                                 *)
FourStateDfas ==
  {[size |-> 4, table |-> t, dead_state |-> NO_STATE,
    accepted |-> [s \in 0 .. 3 |-> IF s = 3 THEN {1} ELSE {}]] :
     t \in FourStateTables}

(* What nfa2dfa makes of expressions of length two, such as ^(ab|cb): the  *)
(* entry state leads to two states, 1 and 2, these lead to an accepting    *)
(* state or to the dead state, and the dead state was met before or after  *)
(* the accepting one.                                                      *)
MCDfasWithDead ==
  LET Rows(d) == {f \in [{1, 2} -> [Symbols -> {3, 4}]] :
                    /\ f[1] = [c \in Symbols |-> 3 + c]
                    /\ \E c \in Symbols : f[2][c] = 7 - d}
      Dfa(d, f) ==
        [size |-> 5, dead_state |-> d,
         table |-> [s \in 0 .. 4 |->
                      IF s = 0 THEN [c \in Symbols |-> IF c = 0 THEN 1 ELSE 2]
                      ELSE IF s \in {1, 2} THEN f[s]
                      ELSE [c \in Symbols |-> d]],
         accepted |-> [s \in 0 .. 4 |-> IF s = 7 - d THEN {1} ELSE {}]]
  IN UNION {{Dfa(d, f) : f \in Rows(d)} : d \in {3, 4}}

(* Three states, one of them dead_state, whichever others accept; the      *)
(* minimization may merge the other two, or one of them with the dead.     *)
DfasWithSink ==
  UNION {{[size |-> 3, dead_state |-> d, table |-> t,
           accepted |-> [s \in 0 .. 2 |-> IF s \in A THEN {1} ELSE {}]] :
            A \in SUBSET ((0 .. 2) \ {d}),
            t \in {u \in Tables(3) : \A c \in Symbols : u[d][c] = d}} :
         d \in {1, 2}}

MCRenumbered == MCDfasWithDead \cup DfasWithSink

MCDfas == SmallDfas \cup FourStateDfas \cup MCRenumbered

(* More and fewer symbols than lanes, and as many as four lanes that never *)
(* meet dead_state read to the end in the same turn, leaving one over.     *)
MCInputs ==
  {<<0, 1>>, <<0, 0, 1, 0, 1>>, <<0, 1, 1, 0, 1>>, <<0, 0, 0, 0, 0, 0, 0, 0, 1>>}
=============================================================================
