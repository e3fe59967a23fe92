--------------------------- MODULE Hopcroft_proofs ---------------------------
(***************************************************************************)
(* Theorems about the partition refinement of DFA::minimize, for every     *)
(* complete automaton, alphabet and order of the work list.  At the heart  *)
(* is DisagreementIsPending: it explains why it is enough to put one half  *)
(* of a split block in the work list, and makes the partition stable when  *)
(* the list is empty.                                                      *)
(***************************************************************************)
EXTENDS Pfac, Automata_proofs

-----------------------------------------------------------------------------
(* The states of a block accept the same rules, and no state is put with   *)
(* the error state.                                                        *)
BlocksAgreeOnRules ==
  Refining =>
    /\ \A s, t \in States : block[s] = block[t] => Accepts(s) = Accepts(t)
    /\ \A s \in States : block[s] # block[NO_STATE]
    /\ block[NO_STATE] = ErrorBlock

(* The inductive invariant: the invariants lean on each other, as a split  *)
(* has to keep the error state alone and a pair to be a block in use.      *)
IInv ==
  /\ given \in Dfas
  /\ TypeOK
  /\ NoEmptyBlocks
  /\ BlocksAgreeOnRules
  /\ DisagreementIsPending
  /\ pc = "rebuild" => L = {}

-----------------------------------------------------------------------------
(* What an automaton that is given has: states, the error state apart, a whole table. *)
LEMMA GivenType ==
  ASSUME given \in Dfas
  PROVE  /\ given.size \in Nat \ {0}
         /\ States = 0 .. given.size - 1
         /\ NO_STATE \notin States
         /\ AllStates = States \cup {NO_STATE}
         /\ IsFiniteSet(States)
         /\ \A s \in AllStates, a \in Symbols : Delta(s, a) \in AllStates
         /\ \A s \in States, a \in Symbols :
              Delta(s, a) \in States /\ Delta(s, a) = given.table[s][a]
<1>1. given.size \in Nat \ {0} /\ States = 0 .. given.size - 1
  BY DfasAssumption DEF States, StatesOf
<1>2. NO_STATE \notin States
  BY <1>1 DEF NO_STATE
<1>3. IsFiniteSet(States)
  BY <1>1, FS_Interval
<1>4. \A s \in States, a \in Symbols : given.table[s][a] \in States
  BY DfasAssumption DEF States
<1> QED
  BY <1>1, <1>2, <1>3, <1>4 DEF Delta, AllStates

(* The invariant holds before the states are grouped. *)
LEMMA InitIInv == Init => IInv
<1> SUFFICES ASSUME Init PROVE IInv
  OBVIOUS
<1>1. TypeOK
  BY DEF Init, TypeOK, ErrorBlock
<1> QED
  BY <1>1 DEF Init, IInv, NoEmptyBlocks, BlocksAgreeOnRules,
              DisagreementIsPending, Refining

-----------------------------------------------------------------------------
(* Group: blocks 1 .. last for the sets of rules, block 0 for the error    *)
(* state.                                                                  *)
LEMMA GroupIInv == ASSUME IInv, Group PROVE IInv'
<1> DEFINE keys == {Accepts(s) : s \in States}
           last == Cardinality(keys)
<1>1. PICK number \in Bijection(keys, 1 .. last) :
        /\ block' = [s \in AllStates |->
                       IF s = NO_STATE THEN ErrorBlock ELSE number[Accepts(s)]]
        /\ \E max \in 0 .. last : L' = ((0 .. last) \ {max}) \X Symbols
  BY DEF Group
<1>2. /\ lastBlock' = last /\ pc' = "split"
      /\ UNCHANGED <<given, dfa>> /\ dfa = given
  BY DEF Group, IInv, TypeOK
<1>3. last \in Nat
  <2>1. IsFiniteSet(States)
    BY GivenType DEF IInv
  <2>2. IsFiniteSet(keys)
    <3> DEFINE f == [s \in States |-> Accepts(s)]
    <3>1. f \in Surjection(States, keys)
      BY DEF Surjection
    <3> QED
      BY <2>1, <3>1, FS_Surjection DEF ExistsSurjection
  <2> QED
    BY <2>2, FS_CardinalityType
<1>4. /\ number \in [keys -> 1 .. last]
      /\ \A x, y \in keys : number[x] = number[y] => x = y
      /\ \A B \in 1 .. last : \E x \in keys : number[x] = B
  BY <1>1 DEF Bijection, Injection, Surjection, IsInjective
<1>5. /\ block'[NO_STATE] = 0
      /\ \A s \in States :
           /\ block'[s] = number[Accepts(s)]
           /\ block'[s] \in 1 .. last
  BY SMTT(20), <1>1, <1>4, GivenType DEF ErrorBlock, IInv
<1>6. States' = States /\ AllStates' = AllStates
  BY <1>2 DEF States, AllStates
<1>7. TypeOK'
  <2>1. block' \in [AllStates -> 0 .. last]
    <3>1. \A s \in AllStates : block'[s] \in 0 .. last
      BY <1>3, <1>5 DEF AllStates
    <3>2. block' = [s \in AllStates |-> block'[s]]
      BY <1>1
    <3> QED
      BY <3>1, <3>2
  <2>2. L' \subseteq (0 .. last) \X Symbols
    BY <1>1
  <2> QED
    BY <1>2, <1>3, <1>6, <2>1, <2>2 DEF TypeOK
<1>8. NoEmptyBlocks'
  <2>1. ASSUME NEW B \in 0 .. last
        PROVE  \E s \in AllStates : block'[s] = B
    <3>1. CASE B = 0
      BY <1>5, <3>1 DEF AllStates
    <3>2. CASE B # 0
      <4>1. B \in 1 .. last
        BY <1>3, <3>2
      <4>2. PICK s \in States : number[Accepts(s)] = B
        BY <1>4, <4>1
      <4> QED
        BY <1>5, <4>2 DEF AllStates
    <3> QED
      BY <3>1, <3>2
  <2> QED
    BY <1>2, <1>6, <2>1 DEF NoEmptyBlocks, Members
<1>9. BlocksAgreeOnRules'
  <2>1. \A s \in States : Accepts(s)' = Accepts(s) /\ Accepts(s) \in keys
    BY <1>2 DEF Accepts
  <2> QED
    BY <1>4, <1>5, <1>6, <2>1 DEF BlocksAgreeOnRules, ErrorBlock
<1>10. DisagreementIsPending'
  <2>1. PICK max \in 0 .. last : L' = ((0 .. last) \ {max}) \X Symbols
    BY <1>1
  <2>2. \A s \in AllStates, c \in Symbols :
          /\ Delta(s, c)' = Delta(s, c)
          /\ block'[Delta(s, c)] \in 0 .. last
    BY SMTT(20), <1>2, <1>3, <1>5, GivenType DEF Delta, AllStates, IInv
  <2>3. ASSUME NEW s \in AllStates, NEW t \in AllStates, NEW c \in Symbols,
               block'[Delta(s, c)] # block'[Delta(t, c)]
        PROVE  \/ <<block'[Delta(s, c)], c>> \in L'
               \/ <<block'[Delta(t, c)], c>> \in L'
    BY <2>1, <2>2, <2>3
  <2> QED
    BY <1>6, <2>2, <2>3 DEF DisagreementIsPending
<1> QED
  BY <1>2, <1>7, <1>8, <1>9, <1>10 DEF IInv

-----------------------------------------------------------------------------
(* Split refines the blocks exactly by membership in the sources of the    *)
(* pair; a disagreement either appears inside a split block, one half of   *)
(* which is put in the work list, or was pending, and stays so.            *)
LEMMA SplitIInv == ASSUME IInv, NEW p \in L, Split(p) PROVE IInv'
<1> DEFINE D == Sources(p)
           Broken == SplitBy(D)
           k == Cardinality(Broken)
<1>0. PICK twin \in Twins(Broken) :
        /\ block' = Moved(D, Broken, twin)
        /\ L' = OtherPairs(p) \cup
                UNION {Requeued(Moved(D, Broken, twin), B, twin[B], c, OtherPairs(p)) :
                         B \in Broken, c \in Symbols}
        /\ lastBlock' = lastBlock + k
  BY DEF Split
<1>1. /\ block' = Moved(D, Broken, twin)
      /\ L' = OtherPairs(p) \cup
              UNION {Requeued(block', B, twin[B], c, OtherPairs(p)) :
                       B \in Broken, c \in Symbols}
      /\ lastBlock' = lastBlock + k
      /\ k \in Nat
      /\ Broken \subseteq 0 .. lastBlock
      /\ \A B \in Broken : twin[B] \in lastBlock + 1 .. lastBlock + k
      /\ \A B, C \in Broken : twin[B] = twin[C] => B = C
      /\ \A N \in lastBlock + 1 .. lastBlock + k : \E B \in Broken : twin[B] = N
      /\ \A s \in AllStates :
           /\ block[s] \in 0 .. lastBlock
           /\ block'[s] = IF block[s] \in Broken /\ s \in D
                            THEN twin[block[s]] ELSE block[s]
      /\ \A s, t \in AllStates :
           block[s] = block[t] /\ block[s] \notin Broken => (s \in D <=> t \in D)
  <2>1. Broken \subseteq 0 .. lastBlock
    BY DEF SplitBy
  <2>2. k \in Nat
    <3>1. IsFiniteSet(0 .. lastBlock)
      BY FS_Interval DEF IInv, TypeOK
    <3> QED
      BY <2>1, <3>1, FS_Subset, FS_CardinalityType
  <2>3. /\ twin \in [Broken -> lastBlock + 1 .. lastBlock + k]
        /\ \A B, C \in Broken : twin[B] = twin[C] => B = C
        /\ \A N \in lastBlock + 1 .. lastBlock + k : \E B \in Broken : twin[B] = N
    BY <1>0 DEF Twins, Bijection, Injection, Surjection, IsInjective
  <2>4. \A s \in AllStates :
          /\ block[s] \in 0 .. lastBlock
          /\ block'[s] = IF block[s] \in Broken /\ s \in D
                           THEN twin[block[s]] ELSE block[s]
    BY <1>0 DEF IInv, TypeOK, Moved
  <2>5. \A s, t \in AllStates :
          block[s] = block[t] /\ block[s] \notin Broken => (s \in D <=> t \in D)
    BY <2>4 DEF SplitBy, Members
  <2>6. \A B \in Broken : twin[B] \in lastBlock + 1 .. lastBlock + k
    BY <2>3
  <2> HIDE DEF D, Broken, k
  <2> QED
    BY <1>0, <2>1, <2>2, <2>3, <2>4, <2>5, <2>6
<1>2. /\ UNCHANGED <<given, dfa, pc>> /\ pc = "split" /\ dfa = given
      /\ lastBlock \in Nat /\ L \subseteq (0 .. lastBlock) \X Symbols
      /\ States' = States /\ AllStates' = AllStates
      /\ given \in Dfas /\ given' \in Dfas
      /\ Refining /\ Refining'
  BY DEF Split, IInv, TypeOK, Refining, States, AllStates
<1>3. \A B \in Broken :
        /\ \E s \in AllStates : block[s] = B /\ s \in D
        /\ \E s \in AllStates : block[s] = B /\ s \notin D
  BY DEF SplitBy, Members
<1>4. \A s \in AllStates : s \in D <=> block[Delta(s, p[2])] = p[1]
  BY DEF Sources
<1> HIDE DEF D, Broken, k
<1>5. \A s, t \in AllStates :
        block'[s] = block'[t] => block[s] = block[t] /\ (s \in D <=> t \in D)
  <2> SUFFICES ASSUME NEW s \in AllStates, NEW t \in AllStates,
                      block'[s] = block'[t]
               PROVE  block[s] = block[t] /\ (s \in D <=> t \in D)
    OBVIOUS
  <2>1. CASE block[s] \in Broken /\ s \in D
    BY <1>1, <1>2, <2>1
  <2>2. CASE block[t] \in Broken /\ t \in D
    BY <1>1, <1>2, <2>2
  <2>3. CASE ~(block[s] \in Broken /\ s \in D) /\ ~(block[t] \in Broken /\ t \in D)
    BY <1>1, <2>3
  <2> QED
    BY <2>1, <2>2, <2>3
<1>6. TypeOK'
  <2>1. \A s \in AllStates : block'[s] \in 0 .. lastBlock + k
    BY <1>1, <1>2
  <2>2. block' \in [AllStates -> 0 .. lastBlock + k]
    BY <1>1, <2>1 DEF Moved
  <2>3. ASSUME NEW B \in Broken, NEW c \in Symbols,
               NEW r \in Requeued(block', B, twin[B], c, OtherPairs(p))
        PROVE  r \in (0 .. lastBlock + k) \X Symbols
    <3>1. r = <<B, c>> \/ r = <<twin[B], c>>
      BY DEF Requeued
    <3>2. B \in 0 .. lastBlock + k /\ twin[B] \in 0 .. lastBlock + k
      BY <1>1, <1>2
    <3> QED
      BY <3>1, <3>2
  <2>4. L' \subseteq (0 .. lastBlock + k) \X Symbols
    <3>1. OtherPairs(p) \subseteq (0 .. lastBlock + k) \X Symbols
      BY <1>1, <1>2 DEF OtherPairs
    <3> QED
      BY <1>1, <2>3, <3>1
  <2> QED
    BY <1>1, <1>2, <2>2, <2>4 DEF TypeOK
<1>7. NoEmptyBlocks'
  <2>1. ASSUME NEW B \in 0 .. lastBlock + k
        PROVE  \E s \in AllStates : block'[s] = B
    <3>1. CASE B \in 0 .. lastBlock /\ B \notin Broken
      <4>1. PICK s \in AllStates : block[s] = B
        BY <1>2, <3>1 DEF IInv, NoEmptyBlocks, Members
      <4> QED
        BY <1>1, <3>1, <4>1
    <3>2. CASE B \in Broken
      BY <1>1, <1>3, <3>2
    <3>3. CASE B \notin 0 .. lastBlock
      <4>1. B \in lastBlock + 1 .. lastBlock + k
        BY <1>1, <1>2, <3>3
      <4>2. PICK C \in Broken : twin[C] = B
        BY <1>1, <4>1
      <4> QED
        BY <1>1, <1>3, <4>2
    <3> QED
      BY <3>1, <3>2, <3>3
  <2> QED
    BY <1>1, <1>2, <2>1 DEF NoEmptyBlocks, Members
<1>8. BlocksAgreeOnRules'
  <2>1. \A s \in AllStates : Accepts(s)' = Accepts(s)
    BY <1>2 DEF Accepts
  <2>2. States \subseteq AllStates /\ NO_STATE \in AllStates
    BY DEF AllStates
  <2>3. block'[NO_STATE] = block[NO_STATE]
    <3>1. block[NO_STATE] \notin Broken
      BY <1>2, <1>3, <2>2 DEF AllStates, BlocksAgreeOnRules, IInv
    <3> QED
      BY <1>1, <2>2, <3>1
  <2> QED
    BY <1>2, <1>5, <2>1, <2>2, <2>3 DEF BlocksAgreeOnRules, IInv, ErrorBlock
<1>9. DisagreementIsPending'
  <2> SUFFICES ASSUME NEW s \in AllStates, NEW t \in AllStates, NEW c \in Symbols,
                      block'[s] = block'[t],
                      block'[Delta(s, c)] # block'[Delta(t, c)]
               PROVE  \/ <<block'[Delta(s, c)], c>> \in L'
                      \/ <<block'[Delta(t, c)], c>> \in L'
    <3>1. \A s \in AllStates, c \in Symbols : Delta(s, c)' = Delta(s, c)
      BY <1>2 DEF Delta
    <3> QED
      BY <1>2, <3>1 DEF DisagreementIsPending
  <2> DEFINE x == Delta(s, c)
             y == Delta(t, c)
  <2>1. x \in AllStates /\ y \in AllStates
    BY <1>2, GivenType
  <2>2. block[s] = block[t] /\ (s \in D <=> t \in D)
    BY <1>5
  <2>3. \A B \in Broken : Requeued(block', B, twin[B], c, OtherPairs(p)) \subseteq L'
    BY <1>1
  <2>4. OtherPairs(p) \subseteq L'
    BY <1>1
  <2> HIDE DEF x, y
  <2>5. CASE block[x] = block[y]
    <3>1. /\ block[x] \in Broken
          /\ x \in D => block'[x] = twin[block[x]] /\ block'[y] = block[x]
          /\ x \notin D => block'[y] = twin[block[x]] /\ block'[x] = block[x]
      BY <1>1, <2>1, <2>5 DEF x, y
    <3>2. <<block[x], c>> \in L' \/ <<twin[block[x]], c>> \in L'
      BY <2>3, <3>1 DEF Requeued
    <3> QED
      BY <3>1, <3>2 DEF x, y
  <2>6. CASE block[x] # block[y]
    <3>1. <<block[x], c>> \in L \/ <<block[y], c>> \in L
      BY <1>2, <2>2, <2>6 DEF IInv, DisagreementIsPending, x, y
    <3>2. <<block[x], c>> # p /\ <<block[y], c>> # p
      BY <1>4, <2>2, <2>6 DEF x, y
    <3>3. ASSUME NEW z \in AllStates, <<block[z], c>> \in L, <<block[z], c>> # p
          PROVE  <<block'[z], c>> \in L'
      <4>1. <<block[z], c>> \in OtherPairs(p)
        BY <3>3 DEF OtherPairs
      <4>2. CASE block'[z] = block[z]
        BY <2>4, <4>1, <4>2
      <4>3. CASE block[z] \in Broken /\ block'[z] = twin[block[z]]
        BY <2>3, <4>1, <4>3 DEF Requeued
      <4> QED
        BY <1>1, <4>2, <4>3
    <3> QED
      BY <2>1, <3>1, <3>2, <3>3 DEF x, y
  <2> QED
    BY <2>5, <2>6
<1> QED
  BY <1>2, <1>6, <1>7, <1>8, <1>9 DEF IInv

-----------------------------------------------------------------------------
(* The invariant is inductive. *)
LEMMA NextIInv == IInv /\ [Next]_vars => IInv'
<1> SUFFICES ASSUME IInv, [Next]_vars PROVE IInv'
  OBVIOUS
<1>1. CASE Group
  BY <1>1, GroupIInv
<1>2. CASE \E p \in L : Split(p)
  BY <1>2, SplitIInv
<1>3. CASE EmptyWorkList
  BY <1>3 DEF EmptyWorkList, IInv, TypeOK, NoEmptyBlocks, BlocksAgreeOnRules,
              DisagreementIsPending, Refining, Members, States, AllStates,
              Accepts, Delta
<1>4. CASE Rebuild
  BY <1>4 DEF Rebuild, IInv, TypeOK, NoEmptyBlocks, BlocksAgreeOnRules,
              DisagreementIsPending, Refining, Members, States, AllStates
<1>5. CASE UNCHANGED vars
  BY <1>5 DEF vars, IInv, TypeOK, NoEmptyBlocks, BlocksAgreeOnRules,
              DisagreementIsPending, Refining, Members, States, AllStates,
              Accepts, Delta
<1> QED
  BY <1>1, <1>2, <1>3, <1>4, <1>5 DEF Next

(* The invariant holds in every state of minimize, for all automata,       *)
(* alphabets and orders of the work list.                                  *)
THEOREM Inductive == Spec => []IInv
BY InitIInv, NextIInv, PTL DEF Spec

(* The block of every state is in use and every pair of the work list      *)
(* names such a block: block[], and the arrays indexed by blocks, are      *)
(* never read outside of what was written.                                 *)
THEOREM TypeCorrect == Spec => []TypeOK
<1>1. IInv => TypeOK
  BY DEF IInv
<1> QED
  BY Inductive, <1>1, PTL

(* "There are no empty blocks!" (dfa.cpp): every block in use has a state, *)
(* which the rebuild's search for its smallest state relies on.            *)
THEOREM BlocksHaveStates == Spec => []NoEmptyBlocks
<1>1. IInv => NoEmptyBlocks
  BY DEF IInv
<1> QED
  BY Inductive, <1>1, PTL

(* The error state is never joined by another one and never moves.         *)
THEOREM ErrorStateStaysAlone == Spec => []ErrorBlockIsAlone
<1>1. IInv => ErrorBlockIsAlone
  BY GivenType DEF IInv, BlocksAgreeOnRules, ErrorBlockIsAlone, Members, AllStates
<1> QED
  BY Inductive, <1>1, PTL

(* Putting the smaller half of a split block in the work list is enough:   *)
(* a disagreement inside a block always has one of its two target blocks   *)
(* in the list.                                                            *)
THEOREM DisagreementsArePending == Spec => []DisagreementIsPending
<1>1. IInv => DisagreementIsPending
  BY DEF IInv
<1> QED
  BY Inductive, <1>1, PTL

(* With an empty list no disagreement is left.                             *)
LEMMA StableWhenDone == IInv => BlocksAreABisimulation
<1> SUFFICES ASSUME IInv, pc = "rebuild",
                    NEW s \in States, NEW t \in States, block[s] = block[t]
             PROVE  /\ given.accepted[s] = given.accepted[t]
                    /\ \A c \in Symbols :
                         /\ given.table[s][c] \in States
                         /\ given.table[t][c] \in States
                         /\ block[given.table[s][c]] = block[given.table[t][c]]
  BY DEF BlocksAreABisimulation, IsBisimulation
<1>1. given.accepted[s] = given.accepted[t]
  BY DEF IInv, BlocksAgreeOnRules, Refining, Accepts
<1>2. \A c \in Symbols :
        /\ Delta(s, c) \in States /\ Delta(s, c) = given.table[s][c]
        /\ Delta(t, c) \in States /\ Delta(t, c) = given.table[t][c]
  BY GivenType DEF IInv
<1>3. \A c \in Symbols : block[Delta(s, c)] = block[Delta(t, c)]
  BY DEF IInv, DisagreementIsPending, Refining, AllStates
<1> QED
  BY <1>1, <1>2, <1>3

(* When the work list is empty the blocks agree on the accepted rules and  *)
(* on the successors, so merging a block changes no result.                *)
THEOREM PartitionIsStable == Spec => []BlocksAreABisimulation
BY Inductive, StableWhenDone, PTL

-----------------------------------------------------------------------------
(* The blocks are never finer than a relation R that could be merged.      *)
KeepsTogether(R) ==
  /\ R \subseteq States \X States
  /\ IsBisimulation(R)
  /\ Refining
  => \A p \in R : block[p[1]] = block[p[2]]

(* No step of minimize parts states that a bisimulation relates. *)
LEMMA KeepsTogetherStep ==
  ASSUME NEW CONSTANT R, IInv, KeepsTogether(R), [Next]_vars
  PROVE  KeepsTogether(R)'
<1> SUFFICES ASSUME R \subseteq States \X States, IsBisimulation(R), Refining',
                    NEW s, NEW t, <<s, t>> \in R
             PROVE  block'[s] = block'[t]
  <2>1. given' = given
    BY DEF Next, vars, Group, Split, EmptyWorkList, Rebuild
  <2>2. States' = States /\ (IsBisimulation(R)' <=> IsBisimulation(R))
    BY <2>1 DEF States, IsBisimulation
  <2>3. R \subseteq States \X States =>
          \A p \in R : p = <<p[1], p[2]>>
    OBVIOUS
  <2> QED
    BY <2>2, <2>3 DEF KeepsTogether
<1>1. /\ s \in States /\ t \in States /\ States \subseteq AllStates
      /\ given.accepted[s] = given.accepted[t]
      /\ \A c \in Symbols : <<given.table[s][c], given.table[t][c]>> \in R
  BY DEF IsBisimulation, AllStates
<1>2. CASE Group
  <2>1. PICK number :
          block' = [q \in AllStates |->
                      IF q = NO_STATE THEN ErrorBlock ELSE number[Accepts(q)]]
    BY <1>2 DEF Group
  <2>2. s # NO_STATE /\ t # NO_STATE
    BY <1>1, GivenType DEF IInv
  <2> QED
    BY <1>1, <2>1, <2>2 DEF Accepts
<1>3. ASSUME NEW p \in L, Split(p)
      PROVE  block'[s] = block'[t]
  <2>1. Refining /\ p[2] \in Symbols
    BY <1>3 DEF Split, Refining, IInv, TypeOK
  <2>2. /\ block[s] = block[t]
        /\ \A c \in Symbols : block[given.table[s][c]] = block[given.table[t][c]]
    BY <1>1, <2>1 DEF KeepsTogether
  <2>3. /\ Delta(s, p[2]) = given.table[s][p[2]]
        /\ Delta(t, p[2]) = given.table[t][p[2]]
    BY <1>1, <2>1, GivenType DEF IInv
  <2>4. s \in Sources(p) <=> t \in Sources(p)
    BY <1>1, <2>1, <2>2, <2>3 DEF Sources
  <2> QED
    BY <1>1, <1>3, <2>2, <2>4 DEF Split, Moved
<1>4. CASE UNCHANGED block /\ Refining
  BY <1>4 DEF KeepsTogether
<1> QED
  BY <1>2, <1>3, <1>4 DEF Next, vars, EmptyWorkList, Rebuild, Refining

(* No split is ever superfluous: states related by any relation that       *)
(* agrees on the rules and is kept by every symbol stay in one block, so   *)
(* with PartitionIsStable the final blocks are the largest such relation   *)
(* and the automaton cannot be made smaller.                               *)
THEOREM PartitionIsCoarsest == ASSUME NEW CONSTANT R PROVE Spec => []KeepsTogether(R)
<1>1. Init => KeepsTogether(R)
  BY DEF Init, KeepsTogether, Refining
<1>2. IInv /\ KeepsTogether(R) /\ [Next]_vars => KeepsTogether(R)'
  BY KeepsTogetherStep
<1> QED
  BY Inductive, <1>1, <1>2, PTL DEF Spec

-----------------------------------------------------------------------------
(***************************************************************************)
(* What minimize returns.                                                  *)
(***************************************************************************)
(* The automaton minimize works on is one in the sense of Automata_proofs. *)
LEMMA GivenIsDfa == ASSUME given \in Dfas PROVE IsCompleteDfa(given)
  BY DfasAssumption DEF IsCompleteDfa

(* Equivalent states are never separated.                                  *)
EquivalentStayTogether ==
  Refining => \A p \in EquivalentPairs(given) : block[p[1]] = block[p[2]]

(* No step of minimize parts equivalent states. *)
LEMMA EquivalentStayTogetherStep ==
  ASSUME IInv, EquivalentStayTogether, [Next]_vars
  PROVE  EquivalentStayTogether'
<1>1. PICK R : R = EquivalentPairs(given)
  OBVIOUS
<1>2. R \subseteq States \X States /\ IsBisimulation(R)
  <2>1. IsBisimulationOf(given, EquivalentPairs(given))
    BY GivenIsDfa, EquivalenceIsABisimulation DEF IInv
  <2> QED
    BY <1>1, <2>1 DEF IsBisimulationOf, IsBisimulation, Pairs, Successors, States
<1>3. KeepsTogether(R)
  BY <1>1 DEF KeepsTogether, EquivalentStayTogether
<1>4. KeepsTogether(R)'
  BY <1>3, KeepsTogetherStep
<1>5. given' = given
  BY DEF Next, vars, Group, Split, EmptyWorkList, Rebuild
<1>6. States' = States /\ (IsBisimulation(R)' <=> IsBisimulation(R))
  BY <1>5 DEF States, IsBisimulation
<1>7. EquivalentPairs(given)' = R
  BY <1>1, <1>5
<1> QED
  BY <1>2, <1>4, <1>6, <1>7 DEF KeepsTogether, EquivalentStayTogether

(* So the final blocks are the classes of equivalent states.               *)
LEMMA BlocksAreClasses ==
  ASSUME IInv, EquivalentStayTogether, pc = "rebuild"
  PROVE  \A s, t \in States : block[s] = block[t] <=> <<s, t>> \in EquivalentPairs(given)
<1> DEFINE R == {p \in States \X States : block[p[1]] = block[p[2]]}
<1>1. IsBisimulation(R)
  BY StableWhenDone DEF BlocksAreABisimulation
<1>2. IsBisimulationOf(given, R)
  BY <1>1 DEF IsBisimulationOf, IsBisimulation, Pairs, Successors, States
<1>3. R \subseteq EquivalentPairs(given)
  BY <1>2, GivenIsDfa, BisimulationsAreEquivalent DEF IsCompleteDfa, IInv
<1>4. \A p \in EquivalentPairs(given) : block[p[1]] = block[p[2]]
  BY DEF EquivalentStayTogether, Refining
<1> QED
  BY <1>3, <1>4

(* trans[] names the smallest equivalent state, and a kept row moves up to *)
(* the number of kept rows before it.                                      *)
LEMMA RowsMoveUp ==
  ASSUME IInv, EquivalentStayTogether, pc = "rebuild"
  PROVE  /\ \A s \in States : Trans(s) = SmallestEquivalent(given)[s]
         /\ Kept = KeptStates(given)
         /\ \A s \in Kept : NewId(s) = NewName(given, s)
<1> DEFINE same == EquivalentPairs(given)
           trans == SmallestEquivalent(given)
           Is(s, t) == block[t] = block[s] /\ \A u \in States : block[u] = block[s] => t <= u
<1>0. IsCompleteDfa(given) /\ given.size \in Nat /\ States = StatesOf(given) /\ States = 0 .. given.size - 1
  BY GivenType, GivenIsDfa DEF IInv, States
<1>1. /\ trans \in [States -> KeptStates(given)]
      /\ KeptStates(given) = {s \in States : trans[s] = s}
      /\ \A s \in States : <<s, trans[s]>> \in same
  BY <1>0, SmallestEquivalentIsFirst
<1>2. \A s \in KeptStates(given) : \A t \in States : <<s, t>> \in same => s <= t
  BY <1>0 DEF KeptStates, Firsts
<1>3. \A s, t \in States : block[s] = block[t] <=> <<s, t>> \in same
  BY BlocksAreClasses
<1> HIDE DEF same, trans
<1>4. ASSUME NEW s \in States
      PROVE  Trans(s) = trans[s]
  <2>1. trans[s] \in States /\ Is(s, trans[s])
    <3>1. trans[s] \in KeptStates(given) /\ trans[s] \in States /\ <<s, trans[s]>> \in same
      BY <1>1
    <3>2. block[s] = block[trans[s]]
      BY <1>3, <3>1
    <3>3. ASSUME NEW u \in States, block[u] = block[s]
          PROVE  trans[s] <= u
      BY ZenonT(20), <1>2, <1>3, <3>1, <3>2, <3>3
    <3> QED
      BY <3>1, <3>2, <3>3
  <2>2. Trans(s) = CHOOSE t \in States : Is(s, t)
    BY DEF Trans
  <2>3. Trans(s) \in States /\ Is(s, Trans(s))
    <3> HIDE DEF Is
    <3> QED
      BY <2>1, <2>2
  <2>4. Trans(s) <= trans[s] /\ trans[s] <= Trans(s)
    BY <2>1, <2>3
  <2>5. Trans(s) \in Int /\ trans[s] \in Int
    BY <1>0, <2>1, <2>3
  <2> QED
    BY <2>4, <2>5
<1>5. Kept = KeptStates(given)
  BY <1>1, <1>4 DEF Kept
<1>6. ASSUME NEW s \in Kept
      PROVE  NewId(s) = NewName(given, s)
  <2> DEFINE Killed == {t \in States : t < s /\ t \notin Kept}
             Before == 0 .. s - 1
             Stay == Below(Kept, s)
  <2>1. s \in States /\ s \in Nat /\ trans[s] = s
    BY <1>0, <1>1, <1>5
  <2>2. IsFiniteSet(Before) /\ Cardinality(Before) = s
    <3>1. 0 \in Int /\ s - 1 \in Int /\ (s - 1) - 0 + 1 = s /\ (0 > s - 1 => s = 0)
      BY <2>1
    <3> QED
      BY <3>1, FS_Interval
  <2>3. Killed = Before \ Stay /\ Before \cap Stay = Stay
    <3>1. \A t : t \in Before <=> t \in States /\ t < s
      BY <1>0, <2>1
    <3>2. \A t \in Kept : t \in States
      BY DEF Kept
    <3> HIDE DEF Before
    <3> QED
      BY <3>1, <3>2 DEF Below
  <2>4. IsFiniteSet(Stay) /\ Cardinality(Stay) \in Nat
    <3>1. Stay \in SUBSET Before
      BY <2>3
    <3> QED
      BY <2>2, <3>1, FS_Subset, FS_CardinalityType
  <2>5. Cardinality(Killed) = Cardinality(Before) - Cardinality(Stay)
    BY <2>2, <2>3, FS_Difference
  <2>6. NewId(s) = s - Cardinality(Killed)
    BY DEF NewId
  <2>7. NewName(given, s) = Cardinality(Stay)
    BY <1>5, <2>1 DEF NewName, trans
  <2> HIDE DEF Killed, Before, Stay
  <2> QED
    BY <2>1, <2>2, <2>4, <2>5, <2>6, <2>7
<1> QED
  BY <1>4, <1>5, <1>6 DEF trans

(* The automaton that is left is the quotient.                             *)
LEMMA RebuildsTheQuotient ==
  ASSUME IInv, EquivalentStayTogether, Rebuild
  PROVE  dfa' = Quotient(given)
<1> DEFINE size == Cardinality(Kept)
           old(j) == CHOOSE s \in Kept : NewId(s) = j
           E == Quotient(given)
           table == [j \in 0 .. size - 1 |-> [c \in Symbols |-> NewTarget(old(j), c)]]
           accepted == [j \in 0 .. size - 1 |-> given.accepted[old(j)]]
<1>0. /\ pc = "rebuild" /\ dfa = given /\ IsCompleteDfa(given) /\ States = StatesOf(given)
      /\ \A s \in States, c \in Symbols : given.table[s][c] \in States
  BY GivenIsDfa DEF IInv, TypeOK, Rebuild, States, IsCompleteDfa
<1>1. dfa' = [size |-> size, table |-> table, accepted |-> accepted,
              dead_state |-> given.dead_state]
  BY <1>0 DEF Rebuild
<1>2. /\ \A s \in States : Trans(s) = SmallestEquivalent(given)[s]
      /\ Kept = KeptStates(given) /\ Kept \subseteq States
      /\ \A s \in Kept : NewId(s) = NewName(given, s)
  BY <1>0, RowsMoveUp DEF Kept
<1>3. /\ IsCompleteDfa(E) /\ E.size = size /\ E.dead_state = given.dead_state
      /\ \A s \in States :
           /\ E.accepted[NewName(given, s)] = given.accepted[s]
           /\ \A c \in Symbols :
                E.table[NewName(given, s)][c] = NewName(given, given.table[s][c])
      /\ \A j \in StatesOf(E) : \E s \in Kept : NewName(given, s) = j
  BY <1>0, <1>2, QuotientRenames
<1>4. StatesOf(E) = 0 .. size - 1
  BY <1>3 DEF StatesOf
<1>5. \A s \in States : NewId(Trans(s)) = NewName(given, s)
  <2> SUFFICES ASSUME NEW s \in States PROVE NewId(Trans(s)) = NewName(given, s)
    OBVIOUS
  <2>1. SmallestEquivalent(given)[s] \in Kept
    BY <1>0, <1>2, SmallestEquivalentIsFirst
  <2>2. SmallestEquivalent(given)[SmallestEquivalent(given)[s]] = SmallestEquivalent(given)[s]
    BY <1>0, <1>2, <2>1, SmallestEquivalentIsFirst
  <2> QED
    BY <1>2, <2>1, <2>2 DEF NewName
<1>6. ASSUME NEW j \in 0 .. size - 1
      PROVE  old(j) \in Kept /\ old(j) \in States /\ NewName(given, old(j)) = j
  <2>1. \E s \in Kept : NewId(s) = j
    BY <1>2, <1>3, <1>4
  <2>2. old(j) \in Kept /\ NewId(old(j)) = j
    BY <2>1
  <2> HIDE DEF old
  <2> QED
    BY <1>2, <2>2
<1> HIDE DEF E, old, size
<1>7. table = E.table
  <2>1. \A j \in 0 .. size - 1, c \in Symbols : E.table[j][c] = NewTarget(old(j), c)
    <3> SUFFICES ASSUME NEW j \in 0 .. size - 1, NEW c \in Symbols
                 PROVE  E.table[j][c] = NewTarget(old(j), c)
      OBVIOUS
    <3>1. E.table[j][c] = NewName(given, given.table[old(j)][c])
      BY <1>3, <1>6
    <3>2. given.table[old(j)][c] \in States
      BY <1>0, <1>6
    <3> QED
      BY <1>5, <3>1, <3>2 DEF NewTarget
  <2>2. E.table \in [0 .. size - 1 -> [Symbols -> 0 .. size - 1]]
    BY <1>3, <1>4 DEF IsCompleteDfa
  <2>3. \A j \in 0 .. size - 1 : E.table[j] = [c \in Symbols |-> NewTarget(old(j), c)]
    <3> SUFFICES ASSUME NEW j \in 0 .. size - 1
                 PROVE  E.table[j] = [c \in Symbols |-> NewTarget(old(j), c)]
      OBVIOUS
    <3>1. E.table[j] = [c \in Symbols |-> E.table[j][c]]
      BY <2>2
    <3> QED
      BY <2>1, <3>1
  <2>4. E.table = [j \in 0 .. size - 1 |-> E.table[j]]
    BY <2>2
  <2> QED
    BY <2>3, <2>4
<1>8. accepted = E.accepted
  <2>1. \A j \in 0 .. size - 1 : E.accepted[j] = given.accepted[old(j)]
    BY <1>3, <1>6
  <2>2. E.accepted \in [0 .. size - 1 -> SUBSET Rules]
    BY <1>3, <1>4 DEF IsCompleteDfa
  <2> QED
    BY <2>1, <2>2
<1>9. E = [size |-> E.size, table |-> E.table, accepted |-> E.accepted,
           dead_state |-> E.dead_state]
  BY <1>3 DEF IsCompleteDfa
<1> HIDE DEF table, accepted
<1> QED
  BY <1>1, <1>3, <1>7, <1>8, <1>9 DEF E

(* The invariant of the whole run.                                         *)
MinimizeInv ==
  /\ IInv
  /\ EquivalentStayTogether
  /\ pc = "done" => dfa = Quotient(given)

(* Every step of minimize keeps what is said of its result. *)
LEMMA MinimizeInvStep == MinimizeInv /\ [Next]_vars => MinimizeInv'
<1> SUFFICES ASSUME MinimizeInv, [Next]_vars PROVE MinimizeInv'
  OBVIOUS
<1>1. IInv' /\ EquivalentStayTogether'
  BY NextIInv, EquivalentStayTogetherStep DEF MinimizeInv
<1>2. ASSUME pc' = "done"
      PROVE  dfa' = Quotient(given)'
  <2>1. CASE Rebuild
    <3>1. given' = given
      BY <2>1 DEF Rebuild
    <3> QED
      BY <2>1, <3>1, RebuildsTheQuotient DEF MinimizeInv
  <2>2. CASE ~ Rebuild
    <3>1. UNCHANGED vars
      BY <1>2, <2>2 DEF Next, Group, Split, EmptyWorkList
    <3> QED
      BY <1>2, <3>1 DEF MinimizeInv, vars
  <2> QED
    BY <2>1, <2>2
<1> QED
  BY <1>1, <1>2 DEF MinimizeInv

(* minimize leaves the quotient of the automaton it was given, in every behaviour. *)
THEOREM ResultInductive == Spec => []MinimizeInv
<1>1. Init => MinimizeInv
  BY InitIInv DEF Init, MinimizeInv, EquivalentStayTogether, Refining
<1> QED
  BY <1>1, MinimizeInvStep, PTL DEF Spec

(* minimize leaves an automaton that reports the same rules and in which   *)
(* no two states could be merged; it is the same one whatever the order of *)
(* the work list was.                                                      *)
THEOREM ResultIsTheQuotient == Spec => []ResultIsMinimal
<1>1. MinimizeInv => ResultIsMinimal
  BY GivenIsDfa, QuotientHasSameRules, QuotientIsReduced DEF MinimizeInv, IInv, ResultIsMinimal
<1> QED
  BY ResultInductive, <1>1, PTL

(* After every word, of whatever length, the result accepts what the       *)
(* automaton that was given accepts.                                       *)
SameRulesAfterEveryWord ==
  pc = "done" =>
    \A w \in Seq(Symbols) :
      dfa.accepted[RunFrom(dfa, 0, w)] = given.accepted[RunFrom(given, 0, w)]

(* The automaton that minimize leaves reports after every word the rules the
   given one reports. *)
THEOREM ResultReportsEveryWord == Spec => []SameRulesAfterEveryWord
<1>1. MinimizeInv => SameRulesAfterEveryWord
  <2> SUFFICES ASSUME MinimizeInv, pc = "done", NEW w \in Seq(Symbols)
               PROVE  dfa.accepted[RunFrom(dfa, 0, w)] = given.accepted[RunFrom(given, 0, w)]
    BY DEF SameRulesAfterEveryWord
  <2>1. IsCompleteDfa(given) /\ dfa = Quotient(given)
    BY GivenIsDfa DEF MinimizeInv, IInv
  <2>2. /\ 0 \in StatesOf(given)
        /\ given.table \in [StatesOf(given) -> [Symbols -> StatesOf(given)]]
    BY <2>1 DEF IsCompleteDfa, StatesOf
  <2>3. RunFrom(given, 0, w) \in StatesOf(given)
    BY <2>2, RunFromStays
  <2>4. RunFrom(dfa, 0, w) = NewName(given, RunFrom(given, 0, w))
    <3>1. NewName(given, 0) = 0
      BY <2>1, QuotientRenames
    <3>2. RunFrom(dfa, NewName(given, 0), w) = NewName(given, RunFrom(given, 0, w))
      BY <2>1, <2>2, QuotientFollows
    <3> QED
      BY <3>1, <3>2
  <2> QED
    BY <2>1, <2>3, <2>4, QuotientRenames
<1> QED
  BY ResultInductive, <1>1, PTL

-----------------------------------------------------------------------------
(***************************************************************************)
(* The traversals that count matches on the renumbered automaton.          *)
(***************************************************************************)
(* Renumbering gives every state a number of its own, those that accept    *)
(* the smallest.                                                           *)
LEMMA NumbersAreDistinct ==
  ASSUME IsCompleteDfa(dfa)
  PROVE  LET accepting == Cardinality({s \in StatesOf(dfa) : ~ Empty(s)})
         IN /\ accepting \in Nat
            /\ \A s \in StatesOf(dfa) :
                 /\ NewNumber(s) \in StatesOf(dfa)
                 /\ NewNumber(s) < accepting <=> ~ Empty(s)
            /\ \A s, t \in StatesOf(dfa) : NewNumber(s) = NewNumber(t) => s = t
            /\ Empty(0) => NewNumber(0) = accepting
<1> DEFINE n == dfa.size
           S == StatesOf(dfa)
           Acc == {s \in S : ~ Empty(s)}
           Rej == {s \in S : Empty(s)}
           m == Cardinality(Acc)
           r == Cardinality(Rej)
<1>0. n \in Nat \ {0} /\ S = 0 .. n - 1 /\ Acc \in SUBSET S /\ Rej \in SUBSET S
  BY DEF IsCompleteDfa, StatesOf
<1>1. /\ IsFiniteSet(Acc) /\ m \in Nat
      /\ \A s \in Acc : Cardinality(Below(Acc, s)) \in 0 .. m - 1
      /\ \A s, t \in Acc : s < t => Cardinality(Below(Acc, s)) < Cardinality(Below(Acc, t))
  <2> HIDE DEF Acc, n
  <2>1. Acc \in SUBSET (0 .. n - 1) /\ n \in Nat
    BY <1>0
  <2>2. /\ IsFiniteSet(Acc) /\ m \in 0 .. n
        /\ \A s \in Acc : Cardinality(Below(Acc, s)) \in 0 .. m - 1
        /\ \A s, t \in Acc : s < t => Cardinality(Below(Acc, s)) < Cardinality(Below(Acc, t))
    BY <2>1, MembersAreNumbered
  <2> QED
    BY <2>1, <2>2
<1>2. /\ IsFiniteSet(Rej) /\ r \in Nat
      /\ \A s \in Rej : Cardinality(Below(Rej, s)) \in 0 .. r - 1
      /\ \A s, t \in Rej : s < t => Cardinality(Below(Rej, s)) < Cardinality(Below(Rej, t))
  <2> HIDE DEF Rej, n
  <2>1. Rej \in SUBSET (0 .. n - 1) /\ n \in Nat
    BY <1>0
  <2>2. /\ IsFiniteSet(Rej) /\ r \in 0 .. n
        /\ \A s \in Rej : Cardinality(Below(Rej, s)) \in 0 .. r - 1
        /\ \A s, t \in Rej : s < t => Cardinality(Below(Rej, s)) < Cardinality(Below(Rej, t))
    BY <2>1, MembersAreNumbered
  <2> QED
    BY <2>1, <2>2
<1>3. m + r = n
  <2>1. Acc \cup Rej = 0 .. n - 1 /\ Acc \cap Rej = {}
    BY <1>0
  <2> HIDE DEF Acc, Rej, n
  <2>2. Cardinality(Acc \cup Rej) = n
    <3>1. 0 \in Int /\ n - 1 \in Int /\ (n - 1) - 0 + 1 = n /\ (0 > n - 1 => n = 0)
      BY <1>0
    <3> QED
      BY <2>1, <3>1, FS_Interval
  <2>3. Cardinality(Acc \cup Rej) = m + r - Cardinality(Acc \cap Rej)
    BY <1>1, <1>2, FS_Union
  <2>4. Cardinality(Acc \cap Rej) = 0
    BY <2>1, FS_EmptySet
  <2> QED
    BY <1>1, <1>2, <2>2, <2>3, <2>4
<1>4. ASSUME NEW s \in Acc
      PROVE  NewNumber(s) = Cardinality(Below(Acc, s))
  <2>1. {t \in S : ~ Empty(t) /\ t < s} = Below(Acc, s)
    BY DEF Below
  <2> QED
    BY <2>1 DEF NewNumber
<1>5. ASSUME NEW s \in Rej
      PROVE  NewNumber(s) = m + Cardinality(Below(Rej, s))
  <2> DEFINE B == Below(Rej, s)
  <2>1. {t \in S : ~ Empty(t) \/ t < s} = Acc \cup B
    BY DEF Below
  <2>2. Acc \cap B = {} /\ B \in SUBSET Rej
    BY DEF Below
  <2>3. IsFiniteSet(B) /\ Cardinality(B) \in Nat
    BY <1>2, <2>2, FS_Subset, FS_CardinalityType
  <2>4. NewNumber(s) = Cardinality(Acc \cup B)
    BY <2>1 DEF NewNumber
  <2> HIDE DEF Acc, B
  <2>5. Cardinality(Acc \cup B) = m + Cardinality(B)
    BY <1>1, <2>2, <2>3, FS_Union, FS_EmptySet
  <2> QED
    BY <2>4, <2>5 DEF B
<1>6. \A s \in S : s \in Acc <=> ~ Empty(s)
  OBVIOUS
<1>7. \A s \in S : s \in Acc \/ s \in Rej
  OBVIOUS
<1>8. Empty(0) => 0 \in Rej /\ Below(Rej, 0) = {}
  BY <1>0 DEF Below
<1> HIDE DEF Acc, Rej, m, r, n
<1>9. \A s \in Acc : NewNumber(s) \in 0 .. m - 1
  BY <1>1, <1>4
<1>10. \A s \in Rej : NewNumber(s) \in m .. n - 1
  BY <1>1, <1>2, <1>3, <1>5
<1>11. ASSUME NEW s \in S
       PROVE  NewNumber(s) \in S /\ (NewNumber(s) < m <=> ~ Empty(s))
  <2>1. n \in Nat /\ m \in Nat /\ m <= n
    BY <1>0, <1>1, <1>2, <1>3
  <2>2. CASE s \in Acc
    BY <1>0, <1>6, <1>9, <2>1, <2>2
  <2>3. CASE s \in Rej
    <3>1. NewNumber(s) \in m .. n - 1
      BY <1>10, <2>3
    <3>2. Empty(s)
      BY <2>3 DEF Rej
    <3> QED
      BY <1>0, <2>1, <3>1, <3>2
  <2> QED
    BY <1>7, <2>2, <2>3
<1>12. ASSUME NEW s \in S, NEW t \in S, s < t
       PROVE  NewNumber(s) # NewNumber(t)
  <2>1. CASE s \in Acc /\ t \in Acc
    BY <1>1, <1>4, <1>12, <2>1
  <2>2. CASE s \in Rej /\ t \in Rej
    BY <1>1, <1>2, <1>5, <1>12, <2>2
  <2>3. CASE s \in Acc /\ t \in Rej
    BY <1>1, <1>9, <1>10, <2>3
  <2>4. CASE s \in Rej /\ t \in Acc
    BY <1>1, <1>9, <1>10, <2>4
  <2> QED
    BY <1>7, <2>1, <2>2, <2>3, <2>4
<1>13. ASSUME NEW s \in S, NEW t \in S, NewNumber(s) = NewNumber(t)
       PROVE  s = t
  <2>1. s < t \/ t < s \/ s = t
    BY <1>0
  <2> QED
    BY <1>12, <1>13, <2>1
<1>14. Empty(0) => NewNumber(0) = m
  BY <1>1, <1>5, <1>8, FS_EmptySet
<1> QED
  BY <1>1, <1>11, <1>13, <1>14 DEF m, Acc

(* What renumber leaves.                                                   *)
IsRenumbered == phase \notin {"minimize", "crashed"}

RenumberedInv ==
  /\ phase # "minimize" => pc = "done"
  /\ IsRenumbered =>
       /\ state_table = [n \in StatesOf(dfa) |-> NewRow(n)]
       /\ max_accept_state = Cardinality({s \in StatesOf(dfa) : ~ Empty(s)}) - 1

(* The number of a state of the automaton that was given.                  *)
Named(s) == NewNumber(NewName(given, s))

(* The renumbered table follows the automaton that was given, and its      *)
(* numbers tell which states accept.                                       *)
LEMMA TableFollowsGiven ==
  ASSUME MinimizeInv, RenumberedInv, IsRenumbered, StartIsKept
  PROVE  /\ IsCompleteDfa(given) /\ 0 \in StatesOf(given) /\ InitialState = Named(0)
         /\ \A s \in StatesOf(given) :
              /\ Named(s) \in StatesOf(dfa)
              /\ Accepts4(Named(s)) <=> given.accepted[s] # {}
              /\ \A c \in Symbols : state_table[Named(s)][c] = Named(given.table[s][c])
<1> DEFINE accepting == Cardinality({s \in StatesOf(dfa) : ~ Empty(s)})
<1>1. IsCompleteDfa(given) /\ dfa = Quotient(given) /\ IsCompleteDfa(dfa)
  BY GivenIsDfa, QuotientRenames DEF MinimizeInv, IInv, RenumberedInv, IsRenumbered
<1>2. /\ 0 \in StatesOf(given) /\ NewName(given, 0) = 0
      /\ \A s \in StatesOf(given) :
           /\ NewName(given, s) \in StatesOf(dfa)
           /\ dfa.accepted[NewName(given, s)] = given.accepted[s]
           /\ \A c \in Symbols :
                dfa.table[NewName(given, s)][c] = NewName(given, given.table[s][c])
  <2>1. 0 \in StatesOf(given)
    BY <1>1 DEF IsCompleteDfa, StatesOf
  <2> QED
    BY <1>1, <2>1, QuotientRenames
<1>3. /\ state_table = [n \in StatesOf(dfa) |-> NewRow(n)]
      /\ max_accept_state = accepting - 1
  BY DEF RenumberedInv
<1>4. /\ accepting \in Nat
      /\ \A s \in StatesOf(dfa) :
           /\ NewNumber(s) \in StatesOf(dfa)
           /\ NewNumber(s) < accepting <=> ~ Empty(s)
      /\ \A s, t \in StatesOf(dfa) : NewNumber(s) = NewNumber(t) => s = t
      /\ Empty(0) => NewNumber(0) = accepting
  BY <1>1, NumbersAreDistinct
<1> HIDE DEF accepting
<1>5. InitialState = Named(0)
  <2>1. Empty(0)
    BY <1>2 DEF StartIsKept, Empty
  <2> QED
    BY <1>2, <1>3, <1>4, <2>1 DEF InitialState, Named
<1>6. ASSUME NEW s \in StatesOf(given)
      PROVE  /\ Named(s) \in StatesOf(dfa)
             /\ Accepts4(Named(s)) <=> given.accepted[s] # {}
             /\ \A c \in Symbols : state_table[Named(s)][c] = Named(given.table[s][c])
  <2> DEFINE t == NewName(given, s)
  <2>1. t \in StatesOf(dfa) /\ NewNumber(t) \in StatesOf(dfa) /\ Named(s) = NewNumber(t)
    BY <1>2, <1>4 DEF Named
  <2>2. NewNumber(t) \in Int
    BY <1>1, <2>1 DEF StatesOf, IsCompleteDfa
  <2>3. Accepts4(Named(s)) <=> ~ Empty(t)
    <3>1. max_accept_state # -1
      BY DEF StartIsKept
    <3>2. NewNumber(t) <= accepting - 1 <=> NewNumber(t) < accepting
      BY <1>4, <2>2
    <3> QED
      BY <1>3, <1>4, <2>1, <3>1, <3>2 DEF Accepts4
  <2>4. Empty(t) <=> given.accepted[s] = {}
    BY <1>2 DEF Empty
  <2>5. OldNumber(NewNumber(t)) = t
    BY <1>4, <2>1 DEF OldNumber
  <2>6. ASSUME NEW c \in Symbols
        PROVE  state_table[Named(s)][c] = Named(given.table[s][c])
    <3>1. state_table[Named(s)][c] = NewNumber(dfa.table[t][c])
      BY <1>3, <2>1, <2>5 DEF NewRow
    <3>2. dfa.table[t][c] = NewName(given, given.table[s][c])
      BY <1>2
    <3> QED
      BY <3>1, <3>2 DEF Named
  <2> QED
    BY <2>1, <2>3, <2>4, <2>6
<1> QED
  BY <1>1, <1>2, <1>5, <1>6

(* Every step of minimize, renumber and the traversals keeps the renumbered table. *)
LEMMA RenumberedInvStep ==
  ASSUME MinimizeInv, RenumberedInv, [Minimize \/ Renumber \/ Traverse]_allVars
  PROVE  RenumberedInv'
<1>1. CASE Minimize
  <2>1. phase = "minimize" /\ phase' = phase
    BY <1>1 DEF Minimize, pfacVars, RenumberedInv, Next, Group, Split, EmptyWorkList, Rebuild
  <2> QED
    BY <2>1 DEF RenumberedInv, IsRenumbered
<1>2. CASE Renumber
  <2>1. pc' = "done" /\ dfa' = dfa
    BY <1>2 DEF Renumber, vars
  <2>2. \A n : NewRow(n)' = NewRow(n) /\ Empty(n)' = Empty(n)
    BY <2>1 DEF NewRow, NewNumber, OldNumber, Empty
  <2>3. CASE phase' = "crashed"
    BY <2>1, <2>3 DEF RenumberedInv, IsRenumbered
  <2>4. CASE phase' # "crashed"
    <3>1. /\ state_table' = [n \in StatesOf(dfa) |-> NewRow(n)]
          /\ max_accept_state' = Cardinality({s \in StatesOf(dfa) : ~ Empty(s)}) - 1
      BY <1>2, <2>4 DEF Renumber
    <3> QED
      BY <2>1, <2>2, <3>1 DEF RenumberedInv, IsRenumbered
  <2> QED
    BY <2>3, <2>4
<1>3. CASE Traverse \/ UNCHANGED allVars
  <2>1. /\ UNCHANGED <<pc, dfa, state_table, max_accept_state>>
        /\ phase \in {"minimize", "crashed"} => phase' = phase
    BY <1>3 DEF Traverse, Start, ReadSymbol, AtEndOfInput, EndOfTraversal, Traversing,
                allVars, vars, pfacVars, automatonVars
  <2>2. \A n : NewRow(n)' = NewRow(n) /\ Empty(n)' = Empty(n)
    BY <2>1 DEF NewRow, NewNumber, OldNumber, Empty
  <2>3. phase # "minimize" => pc = "done"
    BY DEF RenumberedInv
  <2>4. phase' # "minimize" => pc' = "done"
    <3>1. phase' # "minimize" => phase # "minimize"
      BY <2>1
    <3> QED
      BY <2>1, <2>3, <3>1
  <2>5. IsRenumbered' => IsRenumbered
    BY <2>1 DEF IsRenumbered
  <2> QED
    BY <2>1, <2>2, <2>4, <2>5 DEF RenumberedInv
<1> QED
  BY <1>1, <1>2, <1>3

-----------------------------------------------------------------------------
(***************************************************************************)
(* The lanes.  starts[i] is the offset lane i began at; the pairs of an    *)
(* offset and an end that were met are those the lanes have come to, and   *)
(* all those of an offset that was given up.                               *)
(***************************************************************************)
Reached(starts) ==
  {p \in AcceptedPairs :
     /\ p[1] <= nxt_off
     /\ \A i \in 1 .. Len(lanes) : p[1] = starts[i] + 1 => p[2] <= lanes[i].off}

LanesType(starts) ==
  /\ Len(lanes) \in {1, 4}
  /\ phase = "one lane" => Len(lanes) = 1
  /\ phase = "four lanes" => Len(lanes) = 4
  /\ turn \in 1 .. Len(lanes)
  /\ nxt_off \in Nat
  /\ data \in Seq(Symbols)
  /\ lanes \in [1 .. Len(lanes) -> [state : StatesOf(dfa), off : Nat]]
  /\ starts \in [1 .. Len(lanes) -> Nat]

LanesFollow(starts) ==
  /\ \A i \in 1 .. Len(lanes) :
       /\ starts[i] < nxt_off /\ starts[i] <= lanes[i].off
       /\ lanes[i].off <= flen \/ lanes[i].off = starts[i]
       /\ lanes[i].state = Named(StateAfter(starts[i] + 1, lanes[i].off))
  /\ \A i, k \in 1 .. Len(lanes) : starts[i] = starts[k] => i = k

LanesInv(starts) == LanesType(starts) /\ LanesFollow(starts)

CountInv(starts) ==
  /\ matched_times \in Nat
  /\ matched_times <= Cardinality(Reached(starts))
  /\ NothingIsMissed => matched_times = Cardinality(Reached(starts))

TraversalInv ==
  StartIsKept =>
    /\ Traversing \/ phase = "counted" =>
         \E starts : LanesInv(starts) /\ CountInv(starts)
    /\ phase = "counted" =>
         /\ \A i \in 1 .. Len(lanes) : lanes[i].off >= flen
         /\ nxt_off < flen => Len(lanes) = 4

(* The pairs are finitely many.                                            *)
LEMMA ReachedIsFinite ==
  ASSUME NEW starts, data \in Seq(Symbols)
  PROVE  /\ IsFiniteSet(Reached(starts))
         /\ Cardinality(Reached(starts)) \in Nat
         /\ \A p \in AcceptedPairs :
              /\ p[1] \in 1 .. flen /\ p[2] \in 1 .. flen /\ p = <<p[1], p[2]>>
              /\ p[1] <= p[2] /\ given.accepted[StateAfter(p[1], p[2])] # {}
<1>1. IsFiniteSet(1 .. flen)
  BY FS_Interval DEF flen
<1>2. IsFiniteSet((1 .. flen) \X (1 .. flen))
  BY <1>1, FS_Product
<1>3. AcceptedPairs \subseteq (1 .. flen) \X (1 .. flen)
  BY DEF AcceptedPairs
<1>4. Reached(starts) \in SUBSET ((1 .. flen) \X (1 .. flen))
  BY <1>3 DEF Reached
<1> QED
  BY <1>2, <1>3, <1>4, FS_Subset, FS_CardinalityType DEF AcceptedPairs

(* The words a lane reads.                                                 *)
LEMMA WordsGrow ==
  ASSUME IsCompleteDfa(given), data \in Seq(Symbols), NEW a \in Nat, NEW j \in Nat,
         a <= j, j <= flen \/ j = a
  PROVE  /\ StateAfter(a + 1, j) \in StatesOf(given)
         /\ j = a => StateAfter(a + 1, j) = 0
         /\ j < flen =>
              /\ data[j + 1] \in Symbols
              /\ StateAfter(a + 1, j + 1) = given.table[StateAfter(a + 1, j)][data[j + 1]]
<1> DEFINE w == SubSeq(data, a + 1, j)
           v == SubSeq(data, a + 1, j + 1)
<1>1. /\ 0 \in StatesOf(given) /\ flen \in Nat
      /\ given.table \in [StatesOf(given) -> [Symbols -> StatesOf(given)]]
  BY DEF IsCompleteDfa, StatesOf, flen
<1>2. w \in Seq(Symbols) /\ (j = a => Len(w) = 0)
  <2>1. CASE j = a
    BY <2>1
  <2>2. CASE j # a
    BY <2>2 DEF flen
  <2> QED
    BY <2>1, <2>2
<1>3. ASSUME j < flen
      PROVE  /\ data[j + 1] \in Symbols /\ v \in Seq(Symbols)
             /\ Len(v) = Len(w) + 1 /\ v[Len(v)] = data[j + 1]
             /\ \A k \in 1 .. Len(w) : v[k] = w[k]
  BY <1>3 DEF flen
<1> HIDE DEF w, v
<1>4. j < flen => RunFrom(given, 0, v) = given.table[RunFrom(given, 0, w)][data[j + 1]]
  <2> SUFFICES ASSUME j < flen
               PROVE  RunFrom(given, 0, v) = given.table[RunFrom(given, 0, w)][data[j + 1]]
    OBVIOUS
  <2>1. RunFrom(given, 0, v) = given.table[RunFrom(given, 0, w)][v[Len(v)]]
    BY <1>1, <1>2, <1>3, RunFromGrows
  <2> QED
    BY <1>3, <2>1
<1>5. RunFrom(given, 0, w) \in StatesOf(given) /\ (j = a => RunFrom(given, 0, w) = 0)
  BY <1>1, <1>2, RunFromStays
<1> QED
  BY <1>3, <1>4, <1>5 DEF StateAfter, w, v

(* Behind a dead state nothing more is accepted.                           *)
LEMMA DeadStaysDead ==
  ASSUME MinimizeInv, RenumberedInv, IsRenumbered, StartIsKept, DeadStateIsDead,
         data \in Seq(Symbols), NEW a \in Nat, NEW j \in Nat, a <= j, j <= flen,
         Named(StateAfter(a + 1, j)) = dead_state
  PROVE  \A k \in j .. flen : given.accepted[StateAfter(a + 1, k)] = {}
<1> DEFINE Off == {k \in j .. flen : Named(StateAfter(a + 1, k)) # dead_state}
<1>0. flen \in Nat /\ IsCompleteDfa(given)
  BY TableFollowsGiven DEF flen
<1>1. Off = {}
  <2> SUFFICES ASSUME Off # {} PROVE FALSE
    OBVIOUS
  <2>1. PICK k \in Off : \A l \in Off : k <= l
    <3>1. Off \in SUBSET Nat
      BY <1>0
    <3> HIDE DEF Off
    <3> QED
      BY <3>1, LeastNumber
  <2>2. k # j
    BY <2>1
  <2>3. k - 1 \in j .. flen /\ k - 1 \in Nat /\ k - 1 < flen /\ a <= k - 1 /\ k - 1 \notin Off
    BY <1>0, <2>1, <2>2
  <2>4. /\ StateAfter(a + 1, k - 1) \in StatesOf(given)
        /\ data[(k - 1) + 1] \in Symbols
        /\ StateAfter(a + 1, (k - 1) + 1) = given.table[StateAfter(a + 1, k - 1)][data[(k - 1) + 1]]
    BY <1>0, <2>3, WordsGrow
  <2>5. Named(StateAfter(a + 1, k - 1)) = dead_state /\ (k - 1) + 1 = k
    BY <1>0, <2>1, <2>3
  <2>6. Named(StateAfter(a + 1, k)) = state_table[dead_state][data[k]]
    BY <2>4, <2>5, TableFollowsGiven
  <2>7. Named(StateAfter(a + 1, k)) = dead_state
    BY <2>4, <2>5, <2>6 DEF DeadStateIsDead
  <2> QED
    BY <2>1, <2>7
<1>2. ASSUME NEW k \in j .. flen
      PROVE  given.accepted[StateAfter(a + 1, k)] = {}
  <2>1. Named(StateAfter(a + 1, k)) = dead_state
    BY <1>1
  <2>2. k \in Nat /\ a <= k /\ k <= flen
    BY <1>0
  <2>3. StateAfter(a + 1, k) \in StatesOf(given)
    BY <1>0, <2>2, WordsGrow
  <2> QED
    BY <2>1, <2>3, TableFollowsGiven DEF DeadStateIsDead
<1> QED
  BY <1>2

(* What the traversals leave alone.                                        *)
LEMMA TraversalFrame ==
  ASSUME UNCHANGED <<automatonVars, data>>
  PROVE  /\ \A i, j : StateAfter(i, j)' = StateAfter(i, j)
         /\ AcceptedPairs' = AcceptedPairs
         /\ \A s : Named(s)' = Named(s)
         /\ StatesOf(dfa)' = StatesOf(dfa) /\ flen' = flen
         /\ InitialState' = InitialState
         /\ StartIsKept' <=> StartIsKept
         /\ Len(lanes') = Len(lanes) => (NothingIsMissed' <=> NothingIsMissed)
<1>1. UNCHANGED <<given, dfa, state_table, dead_state, max_accept_state, data>>
  BY DEF automatonVars, vars
<1>2. /\ \A i, j : StateAfter(i, j)' = StateAfter(i, j)
      /\ \A s : Named(s)' = Named(s)
      /\ flen' = flen
  BY <1>1 DEF StateAfter, Named, NewNumber, Empty, flen
<1>3. AcceptedPairs' = AcceptedPairs
  BY <1>1, <1>2 DEF AcceptedPairs
<1>4. /\ StatesOf(dfa)' = StatesOf(dfa)
      /\ InitialState' = InitialState
      /\ StartIsKept' <=> StartIsKept
  BY <1>1 DEF InitialState, StartIsKept
<1>5. /\ DeadStateIsDead' <=> DeadStateIsDead
      /\ Accepts4(dead_state)' <=> Accepts4(dead_state)
  BY <1>1 DEF DeadStateIsDead, Accepts4
<1>6. Len(lanes') = Len(lanes) => (NothingIsMissed' <=> NothingIsMissed)
  BY <1>1, <1>4, <1>5 DEF NothingIsMissed
<1> QED
  BY <1>2, <1>3, <1>4, <1>6

(* Lanes are replaced one at a time, in turn.                              *)
LEMMA LanesStay ==
  ASSUME NEW CONSTANT starts, LanesInv(starts), NEW lane \in [state : StatesOf(dfa), off : Nat],
         lanes' = [lanes EXCEPT ![turn] = lane], NextTurn
  PROVE  /\ Len(lanes') = Len(lanes) /\ turn' \in 1 .. Len(lanes)
         /\ lanes' \in [1 .. Len(lanes) -> [state : StatesOf(dfa), off : Nat]]
         /\ lanes'[turn] = lane
         /\ \A i \in 1 .. Len(lanes) : i # turn => lanes'[i] = lanes[i]
<1> DEFINE n == Len(lanes)
           A == [state : StatesOf(dfa), off : Nat]
<1>1. n \in {1, 4} /\ turn \in 1 .. n /\ lanes \in [1 .. n -> A]
  BY DEF LanesInv, LanesType, LanesFollow
<1>2. turn' \in 1 .. n
  BY <1>1 DEF NextTurn
<1> HIDE DEF n, A
<1>3. lanes' \in [1 .. n -> A]
  BY <1>1 DEF A
<1>4. Len(lanes') = n
  <2>1. lanes' \in Seq(A) /\ DOMAIN lanes' = 1 .. n
    BY <1>1, <1>3
  <2> QED
    BY <1>1, <2>1
<1>5. lanes'[turn] = lane /\ \A i \in 1 .. n : i # turn => lanes'[i] = lanes[i]
  BY <1>1
<1> QED
  BY <1>2, <1>3, <1>4, <1>5 DEF n, A

(* A lane that begins again leaves the rest of its offset for met, and     *)
(* meets nothing yet of the next one.                                      *)
LEMMA RestartStep ==
  ASSUME MinimizeInv, RenumberedInv, IsRenumbered, StartIsKept,
         NEW CONSTANT starts, LanesInv(starts),
         Restart, NextTurn, UNCHANGED <<automatonVars, phase, data>>,
         NEW CONSTANT next, next = [starts EXCEPT ![turn] = nxt_off]
  PROVE  /\ LanesInv(next)' /\ Len(lanes') = Len(lanes)
         /\ Reached(next)' =
              Reached(starts) \cup {p \in AcceptedPairs : p[1] = starts[turn] + 1}
<1> DEFINE n == Len(lanes)
<1>0. /\ n \in {1, 4} /\ turn \in 1 .. n /\ nxt_off \in Nat /\ data \in Seq(Symbols)
      /\ lanes \in [1 .. n -> [state : StatesOf(dfa), off : Nat]]
      /\ starts \in [1 .. n -> Nat]
      /\ \A i \in 1 .. n :
           /\ starts[i] < nxt_off /\ starts[i] <= lanes[i].off
           /\ lanes[i].off <= flen \/ lanes[i].off = starts[i]
           /\ lanes[i].state = Named(StateAfter(starts[i] + 1, lanes[i].off))
      /\ \A i, k \in 1 .. n : starts[i] = starts[k] => i = k
  BY DEF LanesInv, LanesType, LanesFollow
<1>1. /\ IsCompleteDfa(given) /\ InitialState = Named(0) /\ Named(0) \in StatesOf(dfa)
  BY TableFollowsGiven
<1>2. /\ lanes' = [lanes EXCEPT ![turn] = Lane(nxt_off)] /\ nxt_off' = nxt_off + 1
      /\ Lane(nxt_off) = [state |-> Named(0), off |-> nxt_off]
      /\ Lane(nxt_off) \in [state : StatesOf(dfa), off : Nat]
  BY <1>0, <1>1 DEF Restart, Lane
<1>3. /\ Len(lanes') = n /\ turn' \in 1 .. n
      /\ lanes' \in [1 .. n -> [state : StatesOf(dfa), off : Nat]]
      /\ lanes'[turn] = Lane(nxt_off)
      /\ \A i \in 1 .. n : i # turn => lanes'[i] = lanes[i]
  BY <1>2, LanesStay
<1>4. /\ next \in [1 .. n -> Nat] /\ next[turn] = nxt_off
      /\ \A i \in 1 .. n : i # turn => next[i] = starts[i]
  BY <1>0
<1>5. /\ \A i, j : StateAfter(i, j)' = StateAfter(i, j)
      /\ AcceptedPairs' = AcceptedPairs
      /\ \A s : Named(s)' = Named(s)
      /\ StatesOf(dfa)' = StatesOf(dfa) /\ flen' = flen
      /\ phase' = phase /\ data' = data
  BY TraversalFrame
<1>6. StateAfter(nxt_off + 1, nxt_off) = 0
  BY <1>0, <1>1, WordsGrow
<1>7. flen \in Nat
  BY <1>0 DEF flen
<1>8. ASSUME NEW i \in 1 .. n
      PROVE  /\ next[i] < nxt_off' /\ next[i] <= lanes'[i].off
             /\ lanes'[i].off <= flen \/ lanes'[i].off = next[i]
             /\ lanes'[i].state = Named(StateAfter(next[i] + 1, lanes'[i].off))
  <2>1. CASE i = turn
    BY <1>0, <1>2, <1>3, <1>4, <1>6, <2>1
  <2>2. CASE i # turn
    <3>1. next[i] = starts[i] /\ lanes'[i] = lanes[i]
      BY <1>3, <1>4, <2>2
    <3>2. starts[i] \in Nat /\ starts[i] < nxt_off
      BY <1>0
    <3>3. starts[i] < nxt_off'
      BY <1>0, <1>2, <3>2
    <3> QED
      BY <1>0, <3>1, <3>3
  <2> QED
    BY <2>1, <2>2
<1>9. ASSUME NEW i \in 1 .. n, NEW k \in 1 .. n, next[i] = next[k]
      PROVE  i = k
  <2>1. \A l \in 1 .. n : starts[l] # nxt_off
    BY <1>0
  <2> QED
    BY <1>0, <1>4, <1>9, <2>1
<1>10. LanesInv(next)'
  <2>1. nxt_off' \in Nat
    BY <1>0, <1>2
  <2>2. \A i \in 1 .. n :
          /\ next[i] < nxt_off' /\ next[i] <= lanes'[i].off
          /\ lanes'[i].off <= flen' \/ lanes'[i].off = next[i]
          /\ lanes'[i].state = Named(StateAfter(next[i] + 1, lanes[i].off))'
    BY <1>5, <1>8
  <2>3. (phase' = "one lane" => n = 1) /\ (phase' = "four lanes" => n = 4)
    BY <1>5 DEF LanesInv, LanesType, LanesFollow
  <2> HIDE DEF n
  <2>4. Len(lanes') = n
    BY <1>3
  <2>5. LanesFollow(next)'
    BY <1>9, <2>2, <2>4 DEF LanesFollow
  <2>6. LanesType(next)'
    BY <1>0, <1>3, <1>4, <1>5, <2>1, <2>3, <2>4 DEF LanesType
  <2> QED
    BY <2>5, <2>6 DEF LanesInv
<1>11. ASSUME NEW p \in AcceptedPairs
       PROVE  p \in Reached(next)' <=> p \in Reached(starts) \/ p[1] = starts[turn] + 1
  <2>1. p[1] \in 1 .. flen /\ p[2] \in 1 .. flen /\ p[1] <= p[2]
    BY <1>0, ReachedIsFinite
  <2>2. p \in Reached(next)' <=>
          /\ p[1] <= nxt_off + 1
          /\ \A i \in 1 .. n : p[1] = next[i] + 1 => p[2] <= lanes'[i].off
    BY <1>2, <1>3, <1>5 DEF Reached
  <2>3. p \in Reached(starts) <=>
          /\ p[1] <= nxt_off
          /\ \A i \in 1 .. n : p[1] = starts[i] + 1 => p[2] <= lanes[i].off
    BY DEF Reached
  <2>4. CASE p[1] = starts[turn] + 1
    <3>0. starts[turn] \in Nat /\ starts[turn] < nxt_off
      BY <1>0
    <3>1. p[1] <= nxt_off + 1 /\ p[1] # nxt_off + 1
      BY <1>0, <2>4, <3>0
    <3>2. \A i \in 1 .. n : i # turn => next[i] # starts[turn]
      BY <1>0, <1>4
    <3>3. ASSUME NEW i \in 1 .. n PROVE p[1] # next[i] + 1
      <4>1. CASE i = turn
        BY <1>4, <3>1, <4>1
      <4>2. CASE i # turn
        <5>1. next[i] \in Nat /\ next[i] # starts[turn]
          BY <1>4, <3>2, <4>2
        <5> QED
          BY <2>4, <3>0, <5>1
      <4> QED
        BY <4>1, <4>2
    <3> QED
      BY <2>2, <2>4, <3>1, <3>3
  <2>5. CASE p[1] # starts[turn] + 1
    <3>1. p[1] = nxt_off + 1 => ~ (p[2] <= lanes'[turn].off)
      BY <1>0, <1>2, <1>3, <2>1
    <3>2. p[1] <= nxt_off + 1 <=> p[1] <= nxt_off \/ p[1] = nxt_off + 1
      BY <1>0, <2>1
    <3>3. p[1] = nxt_off + 1 => p \notin Reached(next)' /\ p \notin Reached(starts)
      <4>1. ASSUME p[1] = nxt_off + 1 PROVE ~ (p[1] <= nxt_off)
        BY <1>0, <4>1
      <4> QED
        BY <1>0, <1>4, <2>2, <2>3, <3>1, <4>1
    <3>4. ASSUME p[1] # nxt_off + 1, NEW i \in 1 .. n
          PROVE  (p[1] = next[i] + 1 => p[2] <= lanes'[i].off) <=>
                 (p[1] = starts[i] + 1 => p[2] <= lanes[i].off)
      <4>1. CASE i = turn
        BY <1>4, <2>5, <3>4, <4>1
      <4>2. CASE i # turn
        BY <1>3, <1>4, <4>2
      <4> QED
        BY <4>1, <4>2
    <3> QED
      BY <2>2, <2>3, <2>5, <3>2, <3>3, <3>4
  <2> QED
    BY <2>3, <2>4, <2>5
<1>12. Reached(next)' \subseteq AcceptedPairs /\ Reached(starts) \subseteq AcceptedPairs
  BY <1>5 DEF Reached
<1> QED
  BY <1>3, <1>10, <1>11, <1>12

(* A lane that goes on meets the pair that ends with its symbol.           *)
LEMMA GoOnStep ==
  ASSUME MinimizeInv, RenumberedInv, IsRenumbered, StartIsKept,
         NEW CONSTANT starts, LanesInv(starts), lanes[turn].off < flen,
         GoOn(state_table[lanes[turn].state][data[lanes[turn].off + 1]]),
         NextTurn, UNCHANGED <<automatonVars, phase, data>>
  PROVE  LET p == <<starts[turn] + 1, lanes[turn].off + 1>>
         IN /\ LanesInv(starts)' /\ Len(lanes') = Len(lanes)
            /\ p \notin Reached(starts)
            /\ Reached(starts)' =
                 IF given.accepted[StateAfter(p[1], p[2])] # {}
                   THEN Reached(starts) \cup {p} ELSE Reached(starts)
<1> DEFINE n == Len(lanes)
           a == starts[turn]
           j == lanes[turn].off
           new == <<a + 1, j + 1>>
           s == Named(StateAfter(a + 1, j + 1))
<1>0. /\ n \in {1, 4} /\ turn \in 1 .. n /\ nxt_off \in Nat /\ data \in Seq(Symbols)
      /\ lanes \in [1 .. n -> [state : StatesOf(dfa), off : Nat]]
      /\ starts \in [1 .. n -> Nat]
      /\ \A i \in 1 .. n :
           /\ starts[i] < nxt_off /\ starts[i] <= lanes[i].off
           /\ lanes[i].off <= flen \/ lanes[i].off = starts[i]
           /\ lanes[i].state = Named(StateAfter(starts[i] + 1, lanes[i].off))
      /\ \A i, k \in 1 .. n : starts[i] = starts[k] => i = k
  BY DEF LanesInv, LanesType, LanesFollow
<1>1. IsCompleteDfa(given) /\ flen \in Nat
  BY <1>0, TableFollowsGiven DEF flen
<1>2. a \in Nat /\ j \in Nat /\ a <= j /\ j < flen /\ a < nxt_off
  BY <1>0
<1>3. /\ StateAfter(a + 1, j) \in StatesOf(given) /\ data[j + 1] \in Symbols
      /\ StateAfter(a + 1, j + 1) = given.table[StateAfter(a + 1, j)][data[j + 1]]
  BY <1>0, <1>1, <1>2, WordsGrow
<1>4. StateAfter(a + 1, j + 1) \in StatesOf(given) /\ s \in StatesOf(dfa)
  <2>1. StateAfter(a + 1, j + 1) \in StatesOf(given)
    BY <1>1, <1>3 DEF IsCompleteDfa
  <2> QED
    BY <2>1, TableFollowsGiven
<1>5. state_table[lanes[turn].state][data[lanes[turn].off + 1]] = s
  <2>1. lanes[turn].state = Named(StateAfter(a + 1, j))
    BY <1>0
  <2> QED
    BY <1>3, <2>1, TableFollowsGiven
<1>6. /\ lanes' = [lanes EXCEPT ![turn] = [state |-> s, off |-> j + 1]] /\ nxt_off' = nxt_off
      /\ [state |-> s, off |-> j + 1] \in [state : StatesOf(dfa), off : Nat]
  <2>1. /\ lanes' = [lanes EXCEPT ![turn] = [state |-> s, off |-> lanes[turn].off + 1]]
        /\ nxt_off' = nxt_off
    BY <1>5 DEF GoOn
  <2> QED
    BY <1>2, <1>4, <2>1
<1>7. /\ Len(lanes') = n /\ turn' \in 1 .. n
      /\ lanes' \in [1 .. n -> [state : StatesOf(dfa), off : Nat]]
      /\ lanes'[turn] = [state |-> s, off |-> j + 1]
      /\ \A i \in 1 .. n : i # turn => lanes'[i] = lanes[i]
  BY <1>6, LanesStay
<1>8. /\ \A i, k : StateAfter(i, k)' = StateAfter(i, k)
      /\ AcceptedPairs' = AcceptedPairs
      /\ \A t : Named(t)' = Named(t)
      /\ StatesOf(dfa)' = StatesOf(dfa) /\ flen' = flen
      /\ phase' = phase /\ data' = data
  BY TraversalFrame
<1>9. ASSUME NEW i \in 1 .. n
      PROVE  /\ starts[i] < nxt_off' /\ starts[i] <= lanes'[i].off
             /\ lanes'[i].off <= flen \/ lanes'[i].off = starts[i]
             /\ lanes'[i].state = Named(StateAfter(starts[i] + 1, lanes'[i].off))
  <2>1. CASE i = turn
    <3>1. a <= j + 1 /\ j + 1 <= flen
      BY <1>1, <1>2
    <3> QED
      BY <1>2, <1>6, <1>7, <2>1, <3>1
  <2>2. CASE i # turn
    BY <1>0, <1>6, <1>7, <2>2
  <2> QED
    BY <2>1, <2>2
<1>10. LanesInv(starts)'
  <2>1. \A i \in 1 .. n :
          /\ starts[i] < nxt_off' /\ starts[i] <= lanes'[i].off
          /\ lanes'[i].off <= flen' \/ lanes'[i].off = starts[i]
          /\ lanes'[i].state = Named(StateAfter(starts[i] + 1, lanes[i].off))'
    BY <1>8, <1>9
  <2>2. (phase' = "one lane" => n = 1) /\ (phase' = "four lanes" => n = 4)
    BY <1>8 DEF LanesInv, LanesType, LanesFollow
  <2> HIDE DEF n
  <2>3. Len(lanes') = n
    BY <1>7
  <2>4. LanesFollow(starts)'
    BY <1>0, <2>1, <2>3 DEF LanesFollow
  <2>5. LanesType(starts)'
    BY <1>0, <1>6, <1>7, <1>8, <2>2, <2>3 DEF LanesType
  <2> QED
    BY <2>4, <2>5 DEF LanesInv
<1>11. new \notin Reached(starts)
  <2> SUFFICES ASSUME new \in Reached(starts) PROVE FALSE
    OBVIOUS
  <2>1. new[1] = a + 1 => new[2] <= j
    BY <1>0 DEF Reached
  <2> QED
    BY <1>2, <2>1
<1>12. new \in AcceptedPairs <=> given.accepted[StateAfter(a + 1, j + 1)] # {}
  <2>1. a + 1 \in 1 .. flen /\ j + 1 \in 1 .. flen /\ a + 1 <= j + 1
    BY <1>1, <1>2
  <2> QED
    BY <2>1 DEF AcceptedPairs
<1>13. ASSUME NEW p \in AcceptedPairs
       PROVE  p \in Reached(starts)' <=> p \in Reached(starts) \/ p = new
  <2>1. p[1] \in 1 .. flen /\ p[2] \in 1 .. flen /\ p = <<p[1], p[2]>>
    BY <1>0, ReachedIsFinite
  <2>2. p \in Reached(starts)' <=>
          /\ p[1] <= nxt_off
          /\ \A i \in 1 .. n : p[1] = starts[i] + 1 => p[2] <= lanes'[i].off
    BY <1>6, <1>7, <1>8 DEF Reached
  <2>3. p \in Reached(starts) <=>
          /\ p[1] <= nxt_off
          /\ \A i \in 1 .. n : p[1] = starts[i] + 1 => p[2] <= lanes[i].off
    BY DEF Reached
  <2>4. CASE p[1] # a + 1
    <3>1. p # new
      BY <2>4
    <3>2. \A i \in 1 .. n : (p[1] = starts[i] + 1 => p[2] <= lanes'[i].off) <=>
                            (p[1] = starts[i] + 1 => p[2] <= lanes[i].off)
      <4>1. \A i \in 1 .. n : p[1] = starts[i] + 1 => i # turn
        BY <2>4
      <4> QED
        BY <1>7, <4>1
    <3> QED
      BY <2>2, <2>3, <3>1, <3>2
  <2>5. CASE p[1] = a + 1
    <3>1. \A i \in 1 .. n : i # turn => p[1] # starts[i] + 1
      BY <1>0, <1>2, <2>5
    <3>2. p[1] <= nxt_off
      BY <1>0, <1>2, <2>5
    <3>3. p \in Reached(starts)' <=> p[2] <= j + 1
      BY <1>0, <1>7, <2>2, <2>5, <3>1, <3>2
    <3>4. p \in Reached(starts) <=> p[2] <= j
      BY <1>0, <2>3, <2>5, <3>1, <3>2
    <3>5. p = new <=> p[2] = j + 1
      BY <2>1, <2>5
    <3>6. p[2] <= j + 1 <=> p[2] <= j \/ p[2] = j + 1
      BY <1>1, <1>2, <2>1
    <3> QED
      BY <3>3, <3>4, <3>5, <3>6
  <2> QED
    BY <2>4, <2>5
<1>14. Reached(starts)' \subseteq AcceptedPairs /\ Reached(starts) \subseteq AcceptedPairs
  BY <1>8 DEF Reached
<1>15. Reached(starts)' =
         IF given.accepted[StateAfter(a + 1, j + 1)] # {}
           THEN Reached(starts) \cup {new} ELSE Reached(starts)
  <2> HIDE DEF new
  <2>1. CASE given.accepted[StateAfter(a + 1, j + 1)] # {}
    BY <1>12, <1>13, <1>14, <2>1
  <2>2. CASE given.accepted[StateAfter(a + 1, j + 1)] = {}
    BY <1>12, <1>13, <1>14, <2>2
  <2> QED
    BY <2>1, <2>2
<1> QED
  BY <1>7, <1>10, <1>11, <1>15

(* Nothing is met before the first turn.                                   *)
LEMMA StartTraversal ==
  ASSUME MinimizeInv, RenumberedInv, NEW CONSTANT n \in {1, 4}, Start(n), StartIsKept
  PROVE  \E starts : (LanesInv(starts) /\ CountInv(starts))'
<1>0. IsRenumbered /\ StartIsKept
  BY DEF Start, IsRenumbered
<1>1. /\ data' \in Seq(Symbols) /\ lanes' = [i \in 1 .. n |-> Lane(i - 1)]
      /\ nxt_off' = n /\ turn' = 1 /\ matched_times' = 0
      /\ UNCHANGED automatonVars
  BY InputsAssumption DEF Start
<1>2. IsCompleteDfa(given) /\ InitialState = Named(0) /\ Named(0) \in StatesOf(dfa)
  BY <1>0, TableFollowsGiven
<1>3. \A i \in 1 .. n : Lane(i - 1) = [state |-> Named(0), off |-> i - 1]
  BY <1>2 DEF Lane
<1>4. /\ lanes' \in [1 .. n -> [state : StatesOf(dfa), off : Nat]]
      /\ \A i \in 1 .. n : lanes'[i].off = i - 1 /\ lanes'[i].state = Named(0)
  <2>1. \A i \in 1 .. n : i - 1 \in Nat
    OBVIOUS
  <2>2. \A i \in 1 .. n : Lane(i - 1) \in [state : StatesOf(dfa), off : Nat]
    <3> SUFFICES ASSUME NEW i \in 1 .. n
                 PROVE  Lane(i - 1) \in [state : StatesOf(dfa), off : Nat]
      OBVIOUS
    <3>1. i - 1 \in Nat /\ Lane(i - 1) = [state |-> Named(0), off |-> i - 1]
      BY <1>3, <2>1
    <3> QED
      BY <1>2, <3>1
  <2>3. \A i \in 1 .. n : lanes'[i] = Lane(i - 1)
    BY <1>1
  <2>4. lanes' \in [1 .. n -> [state : StatesOf(dfa), off : Nat]]
    BY <1>1, <2>2
  <2>5. ASSUME NEW i \in 1 .. n
        PROVE  lanes'[i].off = i - 1 /\ lanes'[i].state = Named(0)
    <3>1. lanes'[i] = [state |-> Named(0), off |-> i - 1]
      BY <1>3, <2>3
    <3> QED
      BY <3>1
  <2> QED
    BY <2>4, <2>5
<1>5. Len(lanes') = n
  <2> DEFINE A == [state : StatesOf(dfa), off : Nat]
  <2>1. n \in Nat /\ lanes' \in [1 .. n -> A]
    BY <1>4
  <2> HIDE DEF A
  <2>2. lanes' \in Seq(A) /\ DOMAIN lanes' = 1 .. n
    BY <2>1
  <2> QED
    BY <2>1, <2>2
<1>6. /\ UNCHANGED <<given, dfa, state_table, dead_state, max_accept_state>>
      /\ \A s : Named(s)' = Named(s)
  BY <1>1 DEF automatonVars, vars, Named, NewNumber, Empty
<1>7. PICK starts : starts = [i \in 1 .. n |-> i - 1]
  OBVIOUS
<1>8. ASSUME NEW i \in 1 .. n
      PROVE  StateAfter(starts[i] + 1, lanes[i].off)' = 0
  <2>1. starts[i] = i - 1 /\ i - 1 \in Nat /\ lanes'[i].off = i - 1
    BY <1>4, <1>7
  <2>2. SubSeq(data', (i - 1) + 1, i - 1) = << >>
    BY <1>1, <2>1
  <2>3. 0 \in StatesOf(given)
    BY <1>2 DEF IsCompleteDfa, StatesOf
  <2>4. << >> \in Seq(Symbols) /\ Len(<< >>) = 0
    OBVIOUS
  <2>5. RunFrom(given, 0, << >>) = 0
    BY <1>2, <2>3, <2>4, RunFromStays DEF IsCompleteDfa
  <2> QED
    BY <1>6, <2>1, <2>2, <2>5 DEF StateAfter
<1>9. LanesInv(starts)'
  <2>1. \A i \in 1 .. n :
          /\ starts[i] \in Nat /\ starts[i] < nxt_off' /\ starts[i] <= lanes'[i].off
          /\ lanes'[i].off = starts[i]
    BY <1>1, <1>4, <1>7
  <2>2. \A i \in 1 .. n : lanes'[i].state = Named(StateAfter(starts[i] + 1, lanes[i].off))'
    BY <1>4, <1>6, <1>8
  <2>3. \A i, k \in 1 .. n : starts[i] = starts[k] => i = k
    BY <1>7
  <2>4. starts \in [1 .. n -> Nat]
    BY <1>7
  <2>5. turn' \in 1 .. n /\ nxt_off' \in Nat
    BY <1>1
  <2>6. (phase' = "one lane" => n = 1) /\ (phase' = "four lanes" => n = 4)
    BY DEF Start
  <2>7. StatesOf(dfa)' = StatesOf(dfa)
    BY <1>6
  <2> QED
    BY <1>1, <1>4, <1>5, <2>1, <2>2, <2>3, <2>4, <2>5, <2>6, <2>7 DEF LanesInv, LanesType, LanesFollow
<1>10. Reached(starts)' = {}
  <2> SUFFICES ASSUME NEW p \in Reached(starts)' PROVE FALSE
    OBVIOUS
  <2>1. /\ p \in AcceptedPairs' /\ p[1] <= n
        /\ \A i \in 1 .. n : p[1] = starts[i] + 1 => p[2] <= lanes'[i].off
    BY <1>1, <1>5 DEF Reached
  <2>2. p[1] \in Nat \ {0} /\ p[2] \in Nat /\ p[1] <= p[2]
    <3>1. flen' \in Nat
      BY <1>1 DEF flen
    <3> QED
      BY <2>1, <3>1 DEF AcceptedPairs
  <2>3. p[1] \in 1 .. n
    BY <2>1, <2>2
  <2>4. starts[p[1]] = p[1] - 1 /\ lanes'[p[1]].off = p[1] - 1
    BY <1>4, <1>7, <2>3
  <2>5. p[2] <= p[1] - 1
    BY <2>1, <2>2, <2>3, <2>4
  <2> QED
    BY <2>2, <2>5
<1>11. CountInv(starts)'
  <2>1. Cardinality(Reached(starts)') = 0
    BY <1>10, FS_EmptySet
  <2> QED
    BY <1>1, <2>1 DEF CountInv
<1> QED
  BY <1>9, <1>11

(* A turn meets the pair it counts.                                        *)
LEMMA ReadSymbolCounts ==
  ASSUME MinimizeInv, RenumberedInv, IsRenumbered, StartIsKept,
         NEW CONSTANT starts, LanesInv(starts), CountInv(starts), ReadSymbol
  PROVE  \E next : (LanesInv(next) /\ CountInv(next))'
<1> DEFINE a == starts[turn]
           j == lanes[turn].off
           s == state_table[lanes[turn].state][data[j + 1]]
<1>0. /\ j < flen /\ NextTurn /\ UNCHANGED <<automatonVars, phase, data>>
      /\ IF Stops(s) THEN Restart ELSE GoOn(s)
      /\ matched_times' = IF Accepts4(s) /\ ~ Stops(s) THEN matched_times + 1 ELSE matched_times
  BY DEF ReadSymbol
<1>1. /\ turn \in 1 .. Len(lanes) /\ data \in Seq(Symbols)
      /\ a \in Nat /\ j \in Nat /\ a <= j
      /\ lanes[turn].state = Named(StateAfter(a + 1, j))
  BY DEF LanesInv, LanesType, LanesFollow
<1>2. /\ matched_times \in Nat /\ matched_times <= Cardinality(Reached(starts))
      /\ NothingIsMissed => matched_times = Cardinality(Reached(starts))
  BY DEF CountInv
<1>3. IsCompleteDfa(given) /\ flen \in Nat
  BY <1>1, TableFollowsGiven DEF flen
<1>4. /\ StateAfter(a + 1, j) \in StatesOf(given) /\ data[j + 1] \in Symbols
      /\ StateAfter(a + 1, j + 1) = given.table[StateAfter(a + 1, j)][data[j + 1]]
      /\ StateAfter(a + 1, j + 1) \in StatesOf(given)
  <2> HIDE DEF a, j
  <2>1. /\ StateAfter(a + 1, j) \in StatesOf(given) /\ data[j + 1] \in Symbols
        /\ StateAfter(a + 1, j + 1) = given.table[StateAfter(a + 1, j)][data[j + 1]]
    BY <1>0, <1>1, <1>3, WordsGrow
  <2>2. StateAfter(a + 1, j + 1) \in StatesOf(given)
    BY <1>3, <2>1 DEF IsCompleteDfa
  <2> QED
    BY <2>1, <2>2
<1>5. s = Named(StateAfter(a + 1, j + 1))
  BY <1>1, <1>4, TableFollowsGiven
<1>6. /\ s \in StatesOf(dfa)
      /\ Accepts4(s) <=> given.accepted[StateAfter(a + 1, j + 1)] # {}
  BY <1>4, <1>5, TableFollowsGiven
<1>7. IsFiniteSet(Reached(starts)) /\ Cardinality(Reached(starts)) \in Nat
  BY <1>1, ReachedIsFinite
<1>8. CASE ~ Stops(s)
  <2> DEFINE p == <<a + 1, j + 1>>
  <2>1. GoOn(state_table[lanes[turn].state][data[lanes[turn].off + 1]])
    BY <1>0, <1>8
  <2>2. /\ LanesInv(starts)' /\ Len(lanes') = Len(lanes)
        /\ p \notin Reached(starts)
        /\ Reached(starts)' =
             IF given.accepted[StateAfter(a + 1, j + 1)] # {}
               THEN Reached(starts) \cup {p} ELSE Reached(starts)
    <3>1. /\ LanesInv(starts)' /\ Len(lanes') = Len(lanes)
          /\ p \notin Reached(starts)
          /\ Reached(starts)' =
               IF given.accepted[StateAfter(p[1], p[2])] # {}
                 THEN Reached(starts) \cup {p} ELSE Reached(starts)
      BY <1>0, <2>1, GoOnStep
    <3> QED
      BY <3>1
  <2>3. NothingIsMissed' <=> NothingIsMissed
    BY <1>0, <2>2, TraversalFrame
  <2> HIDE DEF p, s
  <2>4. CASE Accepts4(s)
    <3>1. Reached(starts)' = Reached(starts) \cup {p} /\ matched_times' = matched_times + 1
      BY <1>0, <1>6, <1>8, <2>2, <2>4
    <3>2. Cardinality(Reached(starts)') = Cardinality(Reached(starts)) + 1
      BY <1>7, <2>2, <3>1, FS_AddElement
    <3>3. CountInv(starts)'
      BY <1>2, <1>7, <2>3, <3>1, <3>2 DEF CountInv
    <3> QED
      BY <2>2, <3>3
  <2>5. CASE ~ Accepts4(s)
    <3>1. Reached(starts)' = Reached(starts) /\ matched_times' = matched_times
      BY <1>0, <1>6, <2>2, <2>5
    <3>2. CountInv(starts)'
      BY <1>2, <2>3, <3>1 DEF CountInv
    <3> QED
      BY <2>2, <3>2
  <2> QED
    BY <2>4, <2>5
<1>9. CASE Stops(s)
  <2>1. Restart /\ matched_times' = matched_times
    BY <1>0, <1>9
  <2>2. PICK next : next = [starts EXCEPT ![turn] = nxt_off]
    OBVIOUS
  <2> DEFINE Rest == {p \in AcceptedPairs : p[1] = a + 1}
  <2>3. /\ LanesInv(next)' /\ Len(lanes') = Len(lanes)
        /\ Reached(next)' = Reached(starts) \cup Rest
    BY <1>0, <2>1, <2>2, RestartStep
  <2>4. NothingIsMissed' <=> NothingIsMissed
    BY <1>0, <2>3, TraversalFrame
  <2>5. IsFiniteSet(Reached(next)') /\ Cardinality(Reached(next)') \in Nat
    <3>1. data' \in Seq(Symbols)
      BY <2>3 DEF LanesInv, LanesType, LanesFollow
    <3>2. IsFiniteSet(AcceptedPairs)
      <4>1. IsFiniteSet((1 .. flen) \X (1 .. flen))
        <5>1. IsFiniteSet(1 .. flen)
          BY <1>3, FS_Interval
        <5> QED
          BY <5>1, FS_Product
      <4>2. AcceptedPairs \in SUBSET ((1 .. flen) \X (1 .. flen))
        BY DEF AcceptedPairs
      <4> QED
        BY <4>1, <4>2, FS_Subset
    <3>3. Reached(next)' \in SUBSET AcceptedPairs
      BY <2>3 DEF Reached
    <3> QED
      BY <3>2, <3>3, FS_Subset, FS_CardinalityType
  <2>6. Cardinality(Reached(starts)) <= Cardinality(Reached(next)')
    BY <2>3, <2>5, FS_Subset
  <2>7. NothingIsMissed => Rest \subseteq Reached(starts)
    <3> SUFFICES ASSUME NothingIsMissed, NEW p \in AcceptedPairs, p[1] = a + 1
                 PROVE  p \in Reached(starts)
      OBVIOUS
    <3>1. s = dead_state
      BY <1>9 DEF Stops
    <3>2. DeadStateIsDead
      <4>1. dead_state \in StatesOf(dfa)
        BY <1>6, <3>1
      <4>2. ~ (Len(lanes) = 4 /\ Accepts4(dead_state))
        <5>1. CASE DeadFirst
          <6>1. Len(lanes) = 1
            BY <5>1 DEF DeadFirst, LanesInv, LanesType, LanesFollow
          <6> QED
            BY <6>1
        <5>2. CASE ~ DeadFirst
          BY <1>9, <3>1, <5>2 DEF Stops
        <5> QED
          BY <5>1, <5>2
      <4> QED
        BY <4>1, <4>2 DEF NothingIsMissed
    <3>3. \A k \in j + 1 .. flen : given.accepted[StateAfter(a + 1, k)] = {}
      <4>1. a <= j + 1 /\ j + 1 <= flen /\ j + 1 \in Nat
        BY SMTT(20), <1>0, <1>1, <1>3
      <4>2. Named(StateAfter(a + 1, j + 1)) = dead_state
        BY <1>5, <3>1
      <4> QED
        BY <1>1, <3>2, <4>1, <4>2, DeadStaysDead
    <3>4. /\ p[1] \in 1 .. flen /\ p[2] \in 1 .. flen
          /\ given.accepted[StateAfter(a + 1, p[2])] # {}
      BY <1>1, ReachedIsFinite
    <3>5. p[2] <= j
      <4>1. p[2] \notin j + 1 .. flen
        BY <3>3, <3>4
      <4> QED
        BY <1>1, <1>3, <3>4, <4>1
    <3>6. /\ starts[turn] < nxt_off /\ nxt_off \in Nat
          /\ \A i \in 1 .. Len(lanes) : starts[i] = a => i = turn
          /\ starts \in [1 .. Len(lanes) -> Nat]
      BY <1>1 DEF LanesInv, LanesType, LanesFollow
    <3>7. p[1] <= nxt_off
      BY <1>1, <3>6
    <3>8. ASSUME NEW i \in 1 .. Len(lanes), p[1] = starts[i] + 1
          PROVE  p[2] <= lanes[i].off
      <4>1. starts[i] \in Nat /\ starts[i] = a
        BY SMTT(20), <1>1, <3>6, <3>8
      <4> QED
        BY <3>5, <3>6, <4>1
    <3> QED
      BY <3>7, <3>8 DEF Reached
  <2>8. NothingIsMissed => Reached(next)' = Reached(starts)
    BY <2>3, <2>7
  <2>9. CountInv(next)'
    BY <1>2, <1>7, <2>1, <2>4, <2>5, <2>6, <2>8 DEF CountInv
  <2> QED
    BY <2>3, <2>9
<1> QED
  BY <1>8, <1>9

(* The pairs of a lane at the end of the input were all met.               *)
LEMMA AtEndCounts ==
  ASSUME MinimizeInv, RenumberedInv, IsRenumbered, StartIsKept,
         NEW CONSTANT starts, LanesInv(starts), CountInv(starts), AtEndOfInput
  PROVE  \E next : (LanesInv(next) /\ CountInv(next))'
<1>0. /\ lanes[turn].off >= flen /\ Restart /\ NextTurn
      /\ UNCHANGED <<automatonVars, phase, data, matched_times>>
  BY DEF AtEndOfInput
<1>1. PICK next : next = [starts EXCEPT ![turn] = nxt_off]
  OBVIOUS
<1> DEFINE Rest == {p \in AcceptedPairs : p[1] = starts[turn] + 1}
<1>2. /\ LanesInv(next)' /\ Len(lanes') = Len(lanes)
      /\ Reached(next)' = Reached(starts) \cup Rest
  BY <1>0, <1>1, RestartStep
<1>3. NothingIsMissed' <=> NothingIsMissed
  BY <1>0, <1>2, TraversalFrame
<1>4. /\ turn \in 1 .. Len(lanes) /\ data \in Seq(Symbols) /\ nxt_off \in Nat
      /\ starts \in [1 .. Len(lanes) -> Nat] /\ starts[turn] < nxt_off
      /\ lanes[turn].off \in Nat
      /\ \A i \in 1 .. Len(lanes) : starts[i] = starts[turn] => i = turn
  BY DEF LanesInv, LanesType, LanesFollow
<1>5. Rest \subseteq Reached(starts)
  <2> SUFFICES ASSUME NEW p \in AcceptedPairs, p[1] = starts[turn] + 1
               PROVE  p \in Reached(starts)
    OBVIOUS
  <2>1. p[1] \in 1 .. flen /\ p[2] \in 1 .. flen /\ flen \in Nat
    <3>1. flen \in Nat
      BY <1>4 DEF flen
    <3>2. p[1] \in 1 .. flen /\ p[2] \in 1 .. flen
      BY <1>4, ReachedIsFinite
    <3> QED
      BY <3>1, <3>2
  <2>2. p[1] <= nxt_off
    BY <1>4
  <2>3. ASSUME NEW i \in 1 .. Len(lanes), p[1] = starts[i] + 1
        PROVE  p[2] <= lanes[i].off
    <3>1. starts[i] \in Nat /\ starts[i] = starts[turn]
      BY <1>4, <2>3
    <3>2. p[2] <= lanes[turn].off
      BY <1>0, <1>4, <2>1
    <3> QED
      BY <1>4, <3>1, <3>2
  <2> QED
    BY <2>2, <2>3 DEF Reached
<1>6. Reached(next)' = Reached(starts)
  BY <1>2, <1>5
<1>7. CountInv(next)'
  BY <1>0, <1>3, <1>6 DEF CountInv
<1> QED
  BY <1>2, <1>7

(* Every step of minimize, renumber and the traversals keeps what is said of the
   lanes and of the count. *)
LEMMA TraversalInvStep ==
  ASSUME MinimizeInv, RenumberedInv, TraversalInv, [Minimize \/ Renumber \/ Traverse]_allVars
  PROVE  TraversalInv'
<1>1. CASE Minimize
  <2>1. phase = "minimize" /\ phase' = phase
    BY <1>1 DEF Minimize, pfacVars, RenumberedInv, Next, Group, Split, EmptyWorkList, Rebuild
  <2> QED
    BY <2>1 DEF TraversalInv, Traversing
<1>2. CASE Renumber
  BY <1>2 DEF Renumber, TraversalInv, Traversing
<1>3. ASSUME NEW n \in {1, 4}, Start(n)
      PROVE  TraversalInv'
  <2>1. UNCHANGED <<given, max_accept_state>> /\ phase' # "counted"
    BY <1>3 DEF Start, automatonVars, vars
  <2>2. StartIsKept' => StartIsKept
    BY <2>1 DEF StartIsKept
  <2>3. StartIsKept => \E starts : (LanesInv(starts) /\ CountInv(starts))'
    BY <1>3, StartTraversal
  <2> QED
    BY <2>1, <2>2, <2>3 DEF TraversalInv
<1>4. CASE ReadSymbol \/ AtEndOfInput
  <2> SUFFICES ASSUME StartIsKept'
               PROVE  /\ \E starts : (LanesInv(starts) /\ CountInv(starts))'
                      /\ phase' # "counted"
    BY DEF TraversalInv
  <2>1. /\ Traversing /\ IsRenumbered /\ phase' = phase /\ phase # "counted"
        /\ UNCHANGED <<automatonVars, data>>
    BY <1>4 DEF ReadSymbol, AtEndOfInput, Traversing, IsRenumbered
  <2>2. StartIsKept
    BY <2>1, TraversalFrame
  <2>3. PICK starts : LanesInv(starts) /\ CountInv(starts)
    BY <2>1, <2>2 DEF TraversalInv
  <2>4. \E next : (LanesInv(next) /\ CountInv(next))'
    BY <1>4, <2>1, <2>2, <2>3, ReadSymbolCounts, AtEndCounts
  <2> QED
    BY <2>1, <2>4
<1>5. CASE EndOfTraversal
  <2> SUFFICES ASSUME StartIsKept'
               PROVE  /\ \E starts : (LanesInv(starts) /\ CountInv(starts))'
                      /\ \A i \in 1 .. Len(lanes') : lanes'[i].off >= flen'
                      /\ nxt_off' < flen' => Len(lanes') = 4
    BY DEF TraversalInv
  <2>1. /\ phase = "one lane" \/ phase = "four lanes"
        /\ ~ MoreToRead /\ (phase = "one lane" => nxt_off >= flen)
        /\ phase' = "counted"
        /\ UNCHANGED <<automatonVars, lanes, turn, nxt_off, data, matched_times>>
    BY <1>5 DEF EndOfTraversal, Traversing
  <2>2. /\ StartIsKept /\ (NothingIsMissed' <=> NothingIsMissed) /\ flen' = flen
        /\ \A i, k : StateAfter(i, k)' = StateAfter(i, k)
        /\ AcceptedPairs' = AcceptedPairs
        /\ \A s : Named(s)' = Named(s)
        /\ StatesOf(dfa)' = StatesOf(dfa)
    BY <2>1, TraversalFrame
  <2>3. PICK starts : LanesInv(starts) /\ CountInv(starts)
    BY <2>1, <2>2 DEF TraversalInv, Traversing
  <2>4. LanesInv(starts)'
    BY <2>1, <2>2, <2>3 DEF LanesInv, LanesType, LanesFollow
  <2>5. CountInv(starts)'
    BY <2>1, <2>2, <2>3 DEF CountInv, Reached
  <2>6. /\ lanes \in [1 .. Len(lanes) -> [state : StatesOf(dfa), off : Nat]]
        /\ data \in Seq(Symbols) /\ nxt_off \in Nat
    BY <2>3 DEF LanesInv, LanesType, LanesFollow
  <2>7. \A i \in 1 .. Len(lanes) : lanes[i].off >= flen
    <3>1. flen \in Nat
      BY <2>6 DEF flen
    <3>2. \A i \in 1 .. Len(lanes) : ~ (lanes[i].off < flen) /\ lanes[i].off \in Nat
      BY <2>1, <2>6 DEF MoreToRead
    <3> QED
      BY <3>1, <3>2
  <2>8. nxt_off < flen => Len(lanes) = 4
    <3>1. CASE phase = "one lane"
      <4>1. nxt_off >= flen /\ flen \in Nat /\ nxt_off \in Nat
        <5>1. nxt_off >= flen
          BY <2>1, <3>1
        <5> QED
          BY <2>6, <5>1 DEF flen
      <4> QED
        BY <4>1
    <3>2. CASE phase = "four lanes"
      BY <2>3, <3>2 DEF LanesInv, LanesType, LanesFollow
    <3> QED
      BY <2>1, <3>1, <3>2
  <2> QED
    BY <2>1, <2>2, <2>4, <2>5, <2>7, <2>8
<1>6. CASE UNCHANGED allVars
  <2>1. /\ UNCHANGED <<automatonVars, lanes, turn, nxt_off, data, matched_times, phase>>
        /\ Len(lanes') = Len(lanes)
    BY <1>6 DEF allVars, pfacVars, automatonVars
  <2>2. /\ (StartIsKept' <=> StartIsKept) /\ (NothingIsMissed' <=> NothingIsMissed)
        /\ flen' = flen
        /\ \A i, k : StateAfter(i, k)' = StateAfter(i, k)
        /\ AcceptedPairs' = AcceptedPairs
        /\ \A s : Named(s)' = Named(s)
        /\ StatesOf(dfa)' = StatesOf(dfa)
    BY <2>1, TraversalFrame
  <2>3. \A starts : LanesInv(starts) => LanesInv(starts)'
    BY <2>1, <2>2 DEF LanesInv, LanesType, LanesFollow
  <2>4. \A starts : CountInv(starts) => CountInv(starts)'
    BY <2>1, <2>2 DEF CountInv, Reached
  <2> QED
    BY <2>1, <2>2, <2>3, <2>4 DEF TraversalInv, Traversing
<1> QED
  BY <1>1, <1>2, <1>3, <1>4, <1>5, <1>6 DEF Traverse

(* The invariant of minimization, renumbering and traversal together.      *)
PfacInv == MinimizeInv /\ RenumberedInv /\ TraversalInv

(* Minimizing, renumbering and traversing keep the inductive invariant of Pfac. *)
THEOREM PfacInductive == SpecPfac => []PfacInv
<1>1. InitPfac => PfacInv
  <2> SUFFICES ASSUME InitPfac PROVE PfacInv
    OBVIOUS
  <2>1. MinimizeInv
    BY InitIInv DEF InitPfac, Init, MinimizeInv, EquivalentStayTogether, Refining
  <2> QED
    BY <2>1 DEF InitPfac, PfacInv, RenumberedInv, IsRenumbered, TraversalInv, Traversing
<1>2. PfacInv /\ [Minimize \/ Renumber \/ Traverse]_allVars => PfacInv'
  <2> SUFFICES ASSUME PfacInv, [Minimize \/ Renumber \/ Traverse]_allVars PROVE PfacInv'
    OBVIOUS
  <2>1. [Next]_vars
    BY DEF Minimize, Renumber, Traverse, Start, ReadSymbol, AtEndOfInput, EndOfTraversal,
           automatonVars, allVars
  <2>2. MinimizeInv'
    BY <2>1, MinimizeInvStep DEF PfacInv
  <2> QED
    BY <2>2, RenumberedInvStep, TraversalInvStep DEF PfacInv
<1> QED
  BY <1>1, <1>2, PTL DEF SpecPfac

(* For every automaton and every input the two PFAC traversals count the   *)
(* accepted pairs of the offsets they begin at, all of them if nothing can *)
(* be missed, and never one that is not there; only four lanes leave       *)
(* offsets over, and only if all of them come to the end together.         *)
THEOREM PfacCounts == SpecPfac => []MatchesAreCounted
<1>1. PfacInv => MatchesAreCounted
  <2> SUFFICES ASSUME PfacInv, phase = "counted", StartIsKept
               PROVE  LET begun == Cardinality({p \in AcceptedPairs : p[1] <= nxt_off})
                      IN /\ matched_times <= begun
                         /\ NothingIsMissed => matched_times = begun
                         /\ nxt_off < flen =>
                              Len(lanes) = 4 /\ \A i \in DOMAIN lanes : lanes[i].off = flen
    BY DEF MatchesAreCounted
  <2>1. PICK starts : LanesInv(starts) /\ CountInv(starts)
    BY DEF PfacInv, TraversalInv
  <2>2. /\ \A i \in 1 .. Len(lanes) : lanes[i].off >= flen
        /\ nxt_off < flen => Len(lanes) = 4
    BY DEF PfacInv, TraversalInv
  <2>3. /\ data \in Seq(Symbols) /\ nxt_off \in Nat /\ starts \in [1 .. Len(lanes) -> Nat]
        /\ lanes \in [1 .. Len(lanes) -> [state : StatesOf(dfa), off : Nat]]
        /\ \A i \in 1 .. Len(lanes) :
             starts[i] < nxt_off /\ (lanes[i].off <= flen \/ lanes[i].off = starts[i])
    BY <2>1 DEF LanesInv, LanesType, LanesFollow
  <2>4. flen \in Nat
    BY <2>3 DEF flen
  <2>5. Reached(starts) = {p \in AcceptedPairs : p[1] <= nxt_off}
    <3>1. ASSUME NEW p \in AcceptedPairs, NEW i \in 1 .. Len(lanes)
          PROVE  p[2] <= lanes[i].off
      <4>1. p[2] \in 1 .. flen
        BY <2>3, ReachedIsFinite
      <4>2. lanes[i].off \in Nat /\ lanes[i].off >= flen
        BY <2>2, <2>3
      <4> QED
        BY <2>4, <4>1, <4>2
    <3> QED
      BY <3>1 DEF Reached
  <2>6. ASSUME nxt_off < flen, NEW i \in DOMAIN lanes
        PROVE  lanes[i].off = flen
    <3>1. /\ i \in 1 .. Len(lanes) /\ lanes[i].off \in Nat /\ starts[i] \in Nat
          /\ starts[i] < nxt_off /\ lanes[i].off >= flen
          /\ lanes[i].off <= flen \/ lanes[i].off = starts[i]
      BY <2>2, <2>3
    <3> QED
      BY <2>3, <2>4, <2>6, <3>1
  <2> QED
    BY <2>1, <2>2, <2>5, <2>6 DEF CountInv
<1> QED
  BY PfacInductive, <1>1, PTL
=============================================================================
