----------------------------- MODULE FbMinimise -----------------------------
(***************************************************************************)
(* The other ways to reduce an automaton: Fb_DFA::minimise, which reverses *)
(* it twice, and minimize_do_not_dis_accept, which does to whole bytes     *)
(* what minimise2 does to halves.  All lead to automata of one size that   *)
(* accept the same words.                                                  *)
(***************************************************************************)
EXTENDS FbDfa

(* What minimize_do_not_dis_accept begins with.                            *)
WholeBytes(D) ==
  [size        |-> D.size,
   table       |-> D.table,
   is_accept   |-> {s \in StatesOf(D) : D.accepted[s] # {}},
   accept_list |-> [s \in StatesOf(D) |-> <<>>],
   dead_state  |-> IF D.dead_state \in StatesOf(D) THEN D.dead_state ELSE NO_STATE]

minimize_do_not_dis_accept(D) == Reduced(WholeBytes(D))

-----------------------------------------------------------------------------
(* minimise: the reversed automaton made deterministic, twice.  States are *)
(* subsets here; Fb_NFA::nfa2dfa numbers them as it meets them.            *)
Letters(B) == DOMAIN B.table[B.start]

reverse2dfa(B) ==
  LET Into(S, n) == {s \in DOMAIN B.table : B.table[s][n] \in S}
      RECURSIVE Closed(_)
      Closed(found) ==
        LET more == {Into(S, n) : S \in found, n \in Letters(B)}
        IN IF more \subseteq found THEN found ELSE Closed(found \cup more)
      subsets == Closed({B.accept})
  IN [start  |-> B.accept,
      table  |-> [S \in subsets |-> [n \in Letters(B) |-> Into(S, n)]],
      accept |-> {S \in subsets : B.start \in S}]

Rooted(A) == [start |-> 0, table |-> A.table, accept |-> A.is_accept]

minimise(A) == reverse2dfa(reverse2dfa(Rooted(A)))

-----------------------------------------------------------------------------
(* Two automata accept the same words.                                     *)
SameWords(A, B) ==
  LET RECURSIVE Closed(_)
      Closed(found) ==
        LET more == {<<A.table[p[1]][n], B.table[p[2]][n]>> : p \in found, n \in Letters(A)}
        IN IF more \subseteq found THEN found ELSE Closed(found \cup more)
  IN \A p \in Closed({<<A.start, B.start>>}) : p[1] \in A.accept <=> p[2] \in B.accept

(* The two ways to reduce an automaton, by pairs of states in rounds       *)
(* (minimise2, minimize_do_not_dis_accept) and by reversing it twice       *)
(* (minimise), leave as many states, and automata that accept the same     *)
(* words as it, provided that it accepts any (the rounds leave a state too *)
(* many otherwise).                                                        *)
ReducedIsMinimal ==
  fpga = "compile" =>
    \A e \in DOMAIN dfas :
      LET D == dfas[e]
          IsMinimal(A, reduced) ==
            A.is_accept # {} =>
              /\ reduced.size = Cardinality(DOMAIN minimise(A).table)
              /\ SameWords(Rooted(A), Rooted(reduced))
              /\ SameWords(Rooted(A), minimise(A))
      IN /\ IsMinimal(FromDfa(D), Reduced(FromDfa(D)))
         /\ IsMinimal(WholeBytes(D), minimize_do_not_dis_accept(D))
=============================================================================
