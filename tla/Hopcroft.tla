------------------------------ MODULE Hopcroft ------------------------------
(***************************************************************************)
(* DFA::minimize (dfa.cpp): Hopcroft's partition refinement after Gries.   *)
(* The states are first grouped by their accepted rules; a work list L of  *)
(* pairs <<block, symbol>> then splits every block whose states disagree   *)
(* on whether the symbol leads into that block; at the end each block is   *)
(* replaced by its smallest state and the states are renumbered in place.  *)
(*                                                                         *)
(* The additional error state of the code (state 0, the others shifted by  *)
(* one, so that NO_STATE + 1 is the error state) is NO_STATE here.  The    *)
(* order of the circular list L and the order in which the blocks split by *)
(* one pair get their numbers depend on the layout of linked lists; any    *)
(* order is allowed here, so what is shown does not rest on it.            *)
(***************************************************************************)
EXTENDS Automata, Functions

CONSTANT Dfas    \* the automata minimize is called on, with their dead_state

(* minimize is called on complete automata: the code indexes trans[] with  *)
(* every entry of the table.  It does not read dead_state, which an        *)
(* earlier minimize may have left behind as the number of no state.        *)
ASSUME DfasAssumption ==
  \A D \in Dfas :
    /\ D.size \in Nat \ {0}
    /\ D \in [size       : {D.size},
             table      : [StatesOf(D) -> [Symbols -> StatesOf(D)]],
             accepted   : [StatesOf(D) -> SUBSET Rules],
             dead_state : Int]

VARIABLES
  given,      \* the automaton minimize was called on (history)
  dfa,        \* _size, state_table, accepted_rules and dead_state
  pc,         \* "group", "split", "rebuild" or "done"
  block,      \* block[s] for every state and the error state
  lastBlock,  \* the last block in use
  L           \* the work list

vars == <<given, dfa, pc, block, lastBlock, L>>

-----------------------------------------------------------------------------
States == StatesOf(given)
AllStates == States \cup {NO_STATE}

(* The block of the error state, b0 in the code.                           *)
ErrorBlock == 0

(* The transition function made total with the error state.                *)
Delta(s, a) == IF s = NO_STATE THEN NO_STATE ELSE given.table[s][a]

Members(blk, B) == {s \in AllStates : blk[s] = B}

-----------------------------------------------------------------------------
Init ==
  /\ given \in Dfas
  /\ dfa = given
  /\ pc = "group"
  /\ block = [s \in AllStates |-> ErrorBlock]
  /\ lastBlock = ErrorBlock
  /\ L = {}

(* What linked_set::equal compares to group the states.                    *)
Accepts(s) == given.accepted[s]

(* The first of the largest blocks.                                        *)
IsLargest(blk, last, B) ==
  /\ \A C \in 0 .. last :
       Cardinality(Members(blk, C)) <= Cardinality(Members(blk, B))
  /\ \A C \in 0 .. B - 1 :
       Cardinality(Members(blk, C)) < Cardinality(Members(blk, B))

(* Group the states by what they accept, the blocks numbered from 1 in the *)
(* order of their first states; all blocks but the first largest go into   *)
(* the work list, with every symbol.                                       *)
Group ==
  LET keys == {Accepts(s) : s \in States}
      last == Cardinality(keys)
  IN /\ pc = "group"
     /\ \E number \in Bijection(keys, 1 .. last) :
          /\ \A s, t \in States :
               number[Accepts(s)] < number[Accepts(t)] =>
                 \E u \in States : Accepts(u) = Accepts(s) /\ u < t
          /\ LET blk == [s \in AllStates |->
                           IF s = NO_STATE THEN ErrorBlock ELSE number[Accepts(s)]]
             IN /\ block' = blk
                /\ \E max \in 0 .. last :
                     /\ IsLargest(blk, last, max)
                     /\ L' = ((0 .. last) \ {max}) \X Symbols
     /\ lastBlock' = last
     /\ pc' = "split"
     /\ UNCHANGED <<given, dfa>>

(* The states with a transition into the block of the pair: inv_delta.     *)
Sources(p) == {s \in AllStates : block[Delta(s, p[2])] = p[1]}

(* A slip to compare with: blocks that lie in D as a whole are split too.  *)
TouchedBy(D) == {B \in 0 .. lastBlock : \E s \in Members(block, B) : s \in D}

(* The blocks with states inside and outside of D.                         *)
SplitBy(D) ==
  {B \in 0 .. lastBlock :
     /\ \E s \in Members(block, B) : s \in D
     /\ \E s \in Members(block, B) : s \notin D}

(* The twin of each split block, a new block for its states in D.          *)
Twins(Broken) ==
  LET k == Cardinality(Broken)
  IN Bijection(Broken, lastBlock + 1 .. lastBlock + k)

(* The states of the split blocks that are in D move to the twin.          *)
Moved(D, Broken, twin) ==
  [s \in AllStates |->
     IF block[s] \in Broken /\ s \in D THEN twin[block[s]] ELSE block[s]]

(* A slip to compare with: only pairs that are pending get their twin.     *)
OnlyPending(blk, B, twin, c, pending) ==
  IF <<B, c>> \in pending THEN {<<twin, c>>} ELSE {}

(* What (B, c) of a split block adds to the work list: the twin if (B, c)  *)
(* is still to be done, otherwise the smaller of the two halves.           *)
Requeued(blk, B, twin, c, pending) ==
  IF <<B, c>> \in pending
    THEN {<<twin, c>>}
    ELSE IF Cardinality(Members(blk, B)) <= Cardinality(Members(blk, twin))
           THEN {<<B, c>>} ELSE {<<twin, c>>}

(* The pair that was picked is deleted from the work list, and a slip: it  *)
(* stays.                                                                  *)
PickedStays(p) == L
OtherPairs(p) == L \ {p}

Split(p) ==
  LET D == Sources(p)
      Broken == SplitBy(D)
  IN /\ pc = "split"
     /\ \E twin \in Twins(Broken) :
          /\ block' = Moved(D, Broken, twin)
          /\ L' = OtherPairs(p) \cup
                  UNION {Requeued(Moved(D, Broken, twin), B, twin[B], c, OtherPairs(p)) :
                           B \in Broken, c \in Symbols}
     /\ lastBlock' = lastBlock + Cardinality(Broken)
     /\ UNCHANGED <<given, dfa, pc>>

EmptyWorkList ==
  /\ pc = "split"
  /\ L = {}
  /\ pc' = "rebuild"
  /\ UNCHANGED <<given, dfa, block, lastBlock, L>>

-----------------------------------------------------------------------------
(* trans[s]: the smallest state of the block, which replaces s.            *)
Trans(s) == CHOOSE t \in States :
              /\ block[t] = block[s]
              /\ \A u \in States : block[u] = block[s] => t <= u

Kept == {s \in States : Trans(s) = s}

(* The row of a kept state moves up by the number of killed rows before it.*)
NewId(s) == s - Cardinality({t \in States : t < s /\ t \notin Kept})

(* A slip to compare with: the rows move up but keep their old targets.    *)
TargetWithoutMove(s, c) == Trans(given.table[s][c])

NewTarget(s, c) == NewId(Trans(given.table[s][c]))

(* The kept rows, translated and moved up; dead_state keeps its old value, *)
(* no statement of minimize assigns it.                                    *)
Rebuild ==
  LET size == Cardinality(Kept)
      old(j) == CHOOSE s \in Kept : NewId(s) = j
  IN /\ pc = "rebuild"
     /\ dfa' = [size       |-> size,
                table      |-> [j \in 0 .. size - 1 |->
                                  [c \in Symbols |-> NewTarget(old(j), c)]],
                accepted   |-> [j \in 0 .. size - 1 |-> given.accepted[old(j)]],
                dead_state |-> dfa.dead_state]
     /\ pc' = "done"
     /\ UNCHANGED <<given, block, lastBlock, L>>

Next ==
  \/ Group
  \/ \E p \in L : Split(p)
  \/ EmptyWorkList
  \/ Rebuild

Spec == Init /\ [][Next]_vars /\ WF_vars(Next)

-----------------------------------------------------------------------------
(***************************************************************************)
(* Properties.                                                             *)
(***************************************************************************)
Refining == pc \in {"split", "rebuild"}

(* Type invariant; until Rebuild the automaton is as it was given.         *)
TypeOK ==
  /\ pc \in {"group", "split", "rebuild", "done"}
  /\ lastBlock \in Nat
  /\ block \in [AllStates -> 0 .. lastBlock]
  /\ L \subseteq (0 .. lastBlock) \X Symbols
  /\ pc # "done" => dfa = given

(* "There are no empty blocks!" (dfa.cpp): what the search for the         *)
(* smallest state of a block relies on, and why n states and the error     *)
(* state fit the arrays of 2n entries.                                     *)
NoEmptyBlocks ==
  Refining => \A B \in 0 .. lastBlock : Members(block, B) # {}

(* The error state stays alone in block b0, which is never split: the      *)
(* membership test l_forward > 0 takes the predecessor of pair (b0, 0) for *)
(* absent, so that pair must not be put into L again, and the search for   *)
(* the smallest states starts at b0 + 1.                                   *)
ErrorBlockIsAlone ==
  Refining => Members(block, ErrorBlock) = {NO_STATE}

(* Related states accept the same rules and have related successors.       *)
IsBisimulation(R) ==
  \A p \in R :
    /\ given.accepted[p[1]] = given.accepted[p[2]]
    /\ \A c \in Symbols :
         <<given.table[p[1]][c], given.table[p[2]][c]>> \in R

(* The reason the smaller half is enough: if a symbol leads two states of  *)
(* one block into different blocks, one of these is still in L with it.    *)
DisagreementIsPending ==
  Refining =>
    \A s, t \in AllStates, c \in Symbols :
      LET B == block[Delta(s, c)]
          C == block[Delta(t, c)]
      IN block[s] = block[t] /\ B # C => <<B, c>> \in L \/ <<C, c>> \in L

(* When the list has run empty, states of one block accept the same rules  *)
(* and every symbol leads them into one block: a kept row can stand for    *)
(* all rows of its block.                                                  *)
BlocksAreABisimulation ==
  pc = "rebuild" =>
    IsBisimulation({p \in States \X States : block[p[1]] = block[p[2]]})

(* The result accepts the same rules after every word, no two of its       *)
(* states could be merged, and it does not depend on the order of L.       *)
ResultIsMinimal ==
  pc = "done" =>
    /\ dfa = Quotient(given)
    /\ SameRules(given, dfa)
    /\ \A p \in EquivalentPairs(dfa) : p[1] = p[2]

(* The work list runs empty and minimize returns.                          *)
Terminates == <>(pc = "done")
=============================================================================
