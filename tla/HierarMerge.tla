----------------------------- MODULE HierarMerge -----------------------------
(***************************************************************************)
(* hm_dfalist2dfa and hm_nfa2dfa (hierarMerging.cpp): the DFAs of a rule   *)
(* set are merged in rounds, k at a time, until one is left; hm_nfa2dfa    *)
(* makes them of NFAs first, in a parallel loop.  The iterations of a      *)
(* round form an OpenMP parallel loop: each takes up to k DFAs from the    *)
(* shared list, one per visit to a critical section, merges them on its    *)
(* own and puts the result into the list of the next round in another      *)
(* critical section; the loop ends in a barrier.                           *)
(*                                                                         *)
(* A DFA is the set of the given DFAs it was merged from: DfaMerge shows   *)
(* that a merge reports what these report.  The lists decide by their      *)
(* order only who meets whom; they are sets here and any element may come  *)
(* next.  Any iterations may run at the same time: a build without OpenMP  *)
(* or with few threads does less.                                          *)
(*                                                                         *)
(* No NFA is too large: both hm_nfa2dfa and main call minimize on what     *)
(* nfa2dfa returns, be it NULL (module NfaToDfa says when it is).          *)
(***************************************************************************)
EXTENDS Integers, FiniteSets

CONSTANTS Given,   \* the NFAs or DFAs the function is called with
          k        \* how many are merged at a time (2 in the calls)

ASSUME MergingAssumption ==
  /\ IsFiniteSet(Given)
  /\ Given # {}
  /\ k \in Nat \ {0, 1}

VARIABLES
  nfa_list,            \* hm_nfa2dfa: the NFAs nobody has taken yet,
  compiling,           \* and those an iteration has taken
  dfa_list,            \* the DFAs of this round nobody has taken yet
  dfa_amount,          \* how many DFAs this round began with
  next_round_dfa_lis,  \* the DFAs of the next round
  dfa_tomerge_lis,     \* for every iteration the DFAs it has taken
  iteration,           \* for every iteration "taking", "merging" or "done"
  hm_pc                   \* "nfas", "rounds" or "returned"

nfaVars == <<nfa_list, compiling>>

hm_vars == <<nfaVars, dfa_list, dfa_amount, next_round_dfa_lis, dfa_tomerge_lis, iteration, hm_pc>>

-----------------------------------------------------------------------------
(* The number of iterations of the loop for n DFAs, and a slip: one group  *)
(* more than needed when k divides n.                                      *)
GroupsPlusOne(n) == n \div k + 1
Groups(n) == (n - 1) \div k + 1

Iterations == 1 .. Groups(dfa_amount)

HmInit ==
  /\ compiling = {}
  /\ \/ hm_pc = "rounds" /\ dfa_list = {{d} : d \in Given} /\ nfa_list = {}
     \/ hm_pc = "nfas" /\ dfa_list = {} /\ nfa_list = Given
  /\ dfa_amount = Cardinality(Given)
  /\ next_round_dfa_lis = {}
  /\ dfa_tomerge_lis = [i \in Iterations |-> {}]
  /\ iteration = [i \in Iterations |-> "taking"]

-----------------------------------------------------------------------------
roundVars == <<dfa_amount, next_round_dfa_lis, dfa_tomerge_lis, iteration>>

(* section1: an iteration takes an NFA.  There are as many as iterations.  *)
TakeNfa(n) ==
  /\ hm_pc = "nfas"
  /\ n \in nfa_list
  /\ nfa_list' = nfa_list \ {n}
  /\ compiling' = compiling \cup {n}
  /\ UNCHANGED <<dfa_list, roundVars, hm_pc>>

(* remove_epsilon, nfa2dfa and minimize on its own NFA, then section2.     *)
CompileAndPush(n) ==
  /\ hm_pc = "nfas"
  /\ n \in compiling
  /\ dfa_list' = dfa_list \cup {{n}}
  /\ compiling' = compiling \ {n}
  /\ UNCHANGED <<nfa_list, roundVars, hm_pc>>

(* The barrier; dfa_amount is the number of the NFAs.                      *)
AllCompiled ==
  /\ hm_pc = "nfas"
  /\ nfa_list = {} /\ compiling = {}
  /\ hm_pc' = "rounds"
  /\ UNCHANGED <<nfaVars, dfa_list, roundVars>>

-----------------------------------------------------------------------------
(* While one DFA is left the loop over the rounds is not entered again.    *)
InRound == hm_pc = "rounds" /\ dfa_amount # 1

(* A slip to compare with: front() and pop_front() in different sections,  *)
(* so that two iterations may take the same DFA.                           *)
TakeWithoutPop(i) ==
  /\ InRound
  /\ iteration[i] = "taking"
  /\ Cardinality(dfa_tomerge_lis[i]) < k
  /\ \E D \in dfa_list :
       /\ dfa_tomerge_lis' = [dfa_tomerge_lis EXCEPT ![i] = @ \cup {D}]
       /\ \E popped \in {{}, {D}} : dfa_list' = dfa_list \ popped
  /\ UNCHANGED <<nfaVars, dfa_amount, next_round_dfa_lis, iteration, hm_pc>>

(* section3 with DFAs left: take one.                                      *)
Take(i) ==
  /\ InRound
  /\ iteration[i] = "taking"
  /\ Cardinality(dfa_tomerge_lis[i]) < k
  /\ \E D \in dfa_list :
       /\ dfa_list' = dfa_list \ {D}
       /\ dfa_tomerge_lis' = [dfa_tomerge_lis EXCEPT ![i] = @ \cup {D}]
  /\ UNCHANGED <<nfaVars, dfa_amount, next_round_dfa_lis, iteration, hm_pc>>

(* k DFAs taken, or section3 found the list empty.                         *)
StopTaking(i) ==
  /\ InRound
  /\ iteration[i] = "taking"
  /\ Cardinality(dfa_tomerge_lis[i]) = k \/ dfa_list = {}
  /\ iteration' = [iteration EXCEPT ![i] = "merging"]
  /\ UNCHANGED <<nfaVars, dfa_list, dfa_amount, next_round_dfa_lis, dfa_tomerge_lis, hm_pc>>

(* dfas_merge_improve on the iteration's own DFAs, then section4.          *)
MergeAndPush(i) ==
  /\ InRound
  /\ iteration[i] = "merging"
  /\ next_round_dfa_lis' = next_round_dfa_lis \cup {UNION dfa_tomerge_lis[i]}
  /\ dfa_tomerge_lis' = [dfa_tomerge_lis EXCEPT ![i] = {}]
  /\ iteration' = [iteration EXCEPT ![i] = "done"]
  /\ UNCHANGED <<nfaVars, dfa_list, dfa_amount, hm_pc>>

(* The barrier: the next round begins with what this one has produced.     *)
NextRound ==
  LET amount == Cardinality(next_round_dfa_lis) IN
  /\ InRound
  /\ \A i \in Iterations : iteration[i] = "done"
  /\ dfa_list' = next_round_dfa_lis
  /\ next_round_dfa_lis' = {}
  /\ dfa_amount' = amount
  /\ dfa_tomerge_lis' = [i \in 1 .. Groups(amount) |-> {}]
  /\ iteration' = [i \in 1 .. Groups(amount) |-> "taking"]
  /\ UNCHANGED <<nfaVars, hm_pc>>

(* The last DFA is taken from the list and returned; hm_dfalist2dfa alone  *)
(* minimizes it before.                                                    *)
HmReturn ==
  /\ hm_pc = "rounds"
  /\ dfa_amount = 1
  /\ hm_pc' = "returned"
  /\ UNCHANGED <<nfaVars, dfa_list, dfa_amount, next_round_dfa_lis, dfa_tomerge_lis, iteration>>

HmNext ==
  \/ \E n \in Given : TakeNfa(n) \/ CompileAndPush(n)
  \/ AllCompiled
  \/ \E i \in Iterations : Take(i) \/ StopTaking(i) \/ MergeAndPush(i)
  \/ NextRound
  \/ HmReturn

HmSpec == HmInit /\ [][HmNext]_hm_vars /\ WF_hm_vars(HmNext)

-----------------------------------------------------------------------------
(***************************************************************************)
(* Properties.                                                             *)
(***************************************************************************)
Dfa == SUBSET Given

(* Type invariant.                                                         *)
HmTypeOK ==
  /\ nfa_list \subseteq Given /\ compiling \subseteq Given
  /\ dfa_list \subseteq Dfa
  /\ dfa_amount \in 1 .. Cardinality(Given)
  /\ next_round_dfa_lis \subseteq Dfa
  /\ dfa_tomerge_lis \in [Iterations -> SUBSET Dfa]
  /\ \A i \in Iterations : Cardinality(dfa_tomerge_lis[i]) <= k
  /\ iteration \in [Iterations -> {"taking", "merging", "done"}]
  /\ hm_pc \in {"nfas", "rounds", "returned"}

(* The places an automaton can be in, and the automata in each.            *)
TheList == 0
TheNextRound == -1
TheNfas == -2
TheCompiler == -3

Places == {TheList, TheNextRound, TheNfas, TheCompiler} \cup Iterations

At(p) == CASE p = TheList      -> dfa_list
           [] p = TheNextRound -> next_round_dfa_lis
           [] p = TheNfas      -> {{n} : n \in nfa_list}
           [] p = TheCompiler  -> {{n} : n \in compiling}
           [] OTHER            -> dfa_tomerge_lis[p]

(* However the critical sections interleave, every automaton given is part *)
(* of exactly one in one place: no rule is dropped between the rounds and  *)
(* no DFA is handed to two iterations (each deletes what it has merged).   *)
(* So no iteration merges an empty list into a DFA that reports nothing.   *)
EveryRuleInOnePlace ==
  /\ HmTypeOK
  /\ \A d \in Given : \E p \in Places : \E D \in At(p) : d \in D
  /\ \A p, q \in Places : \A D \in At(p), E \in At(q) :
       D \cap E # {} => D = E /\ p = q
  /\ \A i \in Iterations : iteration[i] = "merging" => dfa_tomerge_lis[i] # {}

(* The rounds come to an end, and the DFA that is returned reports every   *)
(* rule.                                                                   *)
Terminates == <>[](hm_pc = "returned" /\ dfa_list = {Given})
=============================================================================
