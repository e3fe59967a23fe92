------------------------------ MODULE Automata ------------------------------
(***************************************************************************)
(* Vocabulary shared by the models of the regular-expression processor:    *)
(* the symbols and rules, nondeterministic automata as nfa.h keeps them    *)
(* and complete deterministic automata as dfa.h keeps them.  Only data     *)
(* and pure operators live here; every module that has a state machine     *)
(* EXTENDS this one.                                                       *)
(***************************************************************************)
EXTENDS Integers, FiniteSets, Sequences

CONSTANTS CSIZE,  \* size of the alphabet (256 in stdinc.h)
          Rules   \* numbers of the regular expressions an automaton accepts

ASSUME AlphabetAssumption == CSIZE \in Nat \ {0}

Symbols == 0 .. CSIZE - 1

NO_STATE == -1

-----------------------------------------------------------------------------
(***************************************************************************)
(* Nondeterministic automata.  A state is one NFA object; its id stands    *)
(* for the object (set_NFA2ids maps one to the other).  `transitions' are  *)
(* labeled, `epsilon' are not, `accepting' is the linked_set of rules.     *)
(***************************************************************************)
NfaOver(S) == [transitions : [S -> [Symbols -> SUBSET S]],
               epsilon     : [S -> SUBSET S],
               accepting   : [S -> SUBSET Rules]]

(* The states an NFA state reaches through epsilon transitions, itself     *)
(* included: what the work list of NFA::epsilon_closure collects, which is *)
(* the least set that holds the state and is closed under `epsilon'.       *)
EpsilonClosed(nfa, C) == \A x \in C : nfa.epsilon[x] \subseteq C

EpsilonClosure(nfa, s) ==
  {t \in DOMAIN nfa.epsilon :
     \A C \in SUBSET DOMAIN nfa.epsilon :
        s \in C /\ EpsilonClosed(nfa, C) => t \in C}

(* NFA::get_transitions(c, target): the closure of every successor on c.   *)
GetTransitions(nfa, s, c) ==
  UNION {EpsilonClosure(nfa, t) : t \in nfa.transitions[s][c]}

(* The subset the determinisation reaches from the subset S on symbol c.   *)
Move(nfa, S, c) == UNION {GetTransitions(nfa, s, c) : s \in S}

(* The rules of a subset: the union of what its states accept.             *)
AcceptedBy(nfa, S) == UNION {nfa.accepting[s] : s \in S}

(* trace::traverse(NFA): the set of NFA states active after the word w.    *)
ActiveSet(nfa, root, w) ==
  LET active[k \in 0 .. Len(w)] ==
        IF k = 0 THEN EpsilonClosure(nfa, root)
                 ELSE LET before == active[k - 1] IN Move(nfa, before, w[k])
  IN active[Len(w)]

-----------------------------------------------------------------------------
(***************************************************************************)
(* Complete deterministic automata: the state table and the accepted rules *)
(* of the states 0 .. size-1; the entry state is 0.                        *)
(***************************************************************************)
DfaOver(n) == [size     : {n},
               table    : [0 .. n - 1 -> [Symbols -> 0 .. n - 1]],
               accepted : [0 .. n - 1 -> SUBSET Rules]]

StatesOf(D) == 0 .. D.size - 1

(* The state a complete DFA reaches from s on the word w.                  *)
RunFrom(D, s, w) ==
  LET at[k \in 0 .. Len(w)] ==
        IF k = 0 THEN s
                 ELSE LET before == at[k - 1] IN D.table[before][w[k]]
  IN at[Len(w)]

(* States from which every word leads to the same accepted rules: the      *)
(* greatest relation that agrees on the rules and is kept by every symbol. *)
(* Each pass drops the pairs that some symbol sends outside of it; as the  *)
(* relation stays an equivalence, size passes reach the fixed point.       *)
EquivalentPairs(D) ==
  LET R[k \in 0 .. D.size] ==
        IF k = 0
          THEN {p \in StatesOf(D) \X StatesOf(D) :
                  D.accepted[p[1]] = D.accepted[p[2]]}
          ELSE LET prev == R[k - 1]
               IN {p \in prev : \A c \in Symbols :
                      <<D.table[p[1]][c], D.table[p[2]][c]>> \in prev}
  IN R[D.size]

(* Pairs of states two automata reach together on a common word.           *)
JointlyReached(D, E) ==
  LET n == D.size * E.size
      R[k \in 0 .. n] ==
        IF k = 0
          THEN {<<0, 0>>}
          ELSE LET prev == R[k - 1]
               IN prev \cup {<<D.table[p[1]][c], E.table[p[2]][c]>> :
                               p \in prev, c \in Symbols}
  IN R[n]

(* Two complete automata report the same rules after every word.           *)
SameRules(D, E) ==
  \A p \in JointlyReached(D, E) : D.accepted[p[1]] = E.accepted[p[2]]

(* A state "involving no progression" (dfa.h, on dead_state): it accepts   *)
(* nothing and no symbol leaves it.                                        *)
NoProgression(D, s) ==
  /\ D.accepted[s] = {}
  /\ \A c \in Symbols : D.table[s][c] = s

(***************************************************************************)
(* What DFA::minimize leaves, whatever the order of its work list: each    *)
(* class of equivalent states is replaced by its smallest state and the    *)
(* kept states move up.  The module Hopcroft shows that the algorithm      *)
(* computes this.                                                          *)
(***************************************************************************)
SmallestEquivalent(D) ==
  LET same == EquivalentPairs(D)
  IN [s \in StatesOf(D) |->
        CHOOSE t \in StatesOf(D) :
          <<s, t>> \in same /\ \A u \in StatesOf(D) : <<s, u>> \in same => t <= u]

Quotient(D) ==
  LET trans == SmallestEquivalent(D)
      kept  == {s \in StatesOf(D) : trans[s] = s}
      newId == [s \in kept |-> Cardinality({t \in kept : t < s})]
      old   == [j \in 0 .. Cardinality(kept) - 1 |->
                  CHOOSE s \in kept : newId[s] = j]
  IN [D EXCEPT
        !.size     = Cardinality(kept),
        !.table    = [j \in DOMAIN old |->
                        [c \in Symbols |-> newId[trans[D.table[old[j]][c]]]]],
        !.accepted = [j \in DOMAIN old |-> D.accepted[old[j]]]]
=============================================================================
