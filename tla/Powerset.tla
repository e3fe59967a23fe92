------------------------------ MODULE Powerset ------------------------------
(***************************************************************************)
(* What the determinisation of an NFA promises, with no numbering, no      *)
(* queue and no symbol order: subsets are found, the moves between them    *)
(* are fixed for any group of symbols that agree, and the construction     *)
(* ends when every found subset has all its moves, or gives up.            *)
(***************************************************************************)
EXTENDS Automata

CONSTANTS NfaStates, Root, Nfas, MAX_DFA_SIZE

VARIABLES nfa,    \* the automaton
          found,  \* the subsets found so far
          moves,  \* the moves fixed so far: triples <<subset, symbol, subset>>
          status  \* "building", "done" or "null"

vars == <<nfa, found, moves, status>>

Fixed(S, c) == \E T \in found : <<S, c, T>> \in moves

Init ==
  /\ nfa \in Nfas
  /\ found = {EpsilonClosure(nfa, Root)}
  /\ moves = {}
  /\ status = "building"

(* Fix the moves of a found subset on a group of symbols with one target.  *)
FixMoves(S, group) ==
  /\ status = "building"
  /\ group # {}
  /\ \A c \in group : ~Fixed(S, c)
  /\ \E T \in SUBSET NfaStates :
       /\ \A c \in group : Move(nfa, S, c) = T
       /\ found' = found \cup {T}
       /\ moves' = moves \cup {<<S, c, T>> : c \in group}
  /\ UNCHANGED <<nfa, status>>

Finish ==
  /\ status = "building"
  /\ \A S \in found, c \in Symbols : Fixed(S, c)
  /\ status' = "done"
  /\ UNCHANGED <<nfa, found, moves>>

(* Giving up is allowed only in front of one subset too many.              *)
GiveUp ==
  /\ status = "building"
  /\ Cardinality(found) >= MAX_DFA_SIZE
  /\ \E S \in found, c \in Symbols : Move(nfa, S, c) \notin found
  /\ status' = "null"
  /\ UNCHANGED <<nfa, found, moves>>

Next ==
  \/ \E S \in found, group \in SUBSET Symbols : FixMoves(S, group)
  \/ Finish
  \/ GiveUp

Spec == Init /\ [][Next]_vars
=============================================================================
