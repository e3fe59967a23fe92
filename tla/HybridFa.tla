------------------------------ MODULE HybridFa ------------------------------
(***************************************************************************)
(* Hybrid automata (hybrid_fa.cpp): a head, which is a DFA, and tails,     *)
(* which stay NFA states.  The determinisation does not go on from NFA     *)
(* states that are `special'; border maps the head states that have such   *)
(* states in their subset to them, and a traversal that meets the head     *)
(* state makes them active.                                                *)
(*                                                                         *)
(* HybridFA(NFA) builds one head, minimize() refines it by what its states *)
(* accept and border on, and trace::traverse runs head and tails.          *)
(* HybridFA(nfa_list) builds a head for every NFA, merges them and can be  *)
(* written by dumpmem and searched by mem_search_hfa (hfadump.cpp).        *)
(*                                                                         *)
(* The NFAs are as remove_epsilon leaves them.  One step processes a head  *)
(* state, is a step of minimize, or reads a symbol.                        *)
(***************************************************************************)
EXTENDS Automata, SequencesExt, FiniteSetsExt

CONSTANTS Tasks,             \* the NFAs, their roots, and the constructor
          SPECIAL_DEPTH,     \* states so deep are special (10)
          SPECIAL_MIN_DEPTH, \* those above are not, ... (5)
          MAX_TX,            \* ... the others if they have more transitions (250)
          MAX_HEAD,          \* states of the largest head that is kept (50)
          NUM_LIMIT          \* accept_num counts modulo this (4 bits: 16)

(* A task: nfa holds the states of all NFAs, which do not share any; one   *)
(* root for HybridFA(NFA).                                                 *)
ASSUME TaskAssumption ==
  /\ \A t \in Tasks :
       /\ t.nfa \in NfaOver(DOMAIN t.nfa.epsilon) /\ IsFiniteSet(DOMAIN t.nfa.epsilon)
       /\ \A n \in DOMAIN t.nfa.epsilon : t.nfa.epsilon[n] = {}
       /\ t.roots \in Seq(DOMAIN t.nfa.epsilon) /\ t.roots # <<>>
       /\ t.how = "one" => Len(t.roots) = 1
  /\ {SPECIAL_DEPTH, SPECIAL_MIN_DEPTH} \subseteq Nat \ {0}
  /\ {MAX_TX, MAX_HEAD, NUM_LIMIT} \subseteq Nat

VARIABLES
  task,     \* the NFAs and the constructor that is called
  pc,       \* "build", "merge", "endless", "built", "minimize", "minimized",
            \* "traverse", "search", and "searching" once a symbol is read
  head,     \* the head being built: a DFA with its border
  subsets,  \* subsets[s + 1]: the NFA states of head state s
  queue,    \* head states to be processed
  heads,    \* the list constructor: the heads of the NFAs done
  which,    \* the NFA being determinised
  depth,    \* the depth of every NFA state
  given, dfa, mpc, block, lastBlock, L, \* the local data of minimize
  dfa_state, nfa_state, accepted_rules, \* trace::traverse
  mem,                                  \* the memory dumpmem writes
  dfastate, nfa_currentstates, printed, \* mem_search_hfa
  active, expected  \* what the NFAs do: active states, rules met (history)

minVars == <<given, dfa, mpc, block, lastBlock, L>>
buildVars == <<head, subsets, queue, heads, which>>
runVars == <<dfa_state, nfa_state, accepted_rules, active, expected>>
searchVars == <<mem, dfastate, nfa_currentstates, printed>>
vars == <<task, depth, pc, buildVars, minVars, runVars, searchVars>>

Refine == INSTANCE Hopcroft WITH Dfas <- {}, pc <- mpc

-----------------------------------------------------------------------------
StatesIn(nfa) == DOMAIN nfa.epsilon

SuccessorsOf(nfa, n) == UNION {nfa.transitions[n][c] : c \in Symbols}

(* The states reached from a root in at most so many transitions.          *)
ReachedFrom(nfa, root) ==
  LET reached[d \in 0 .. Cardinality(StatesIn(nfa))] ==
        IF d = 0 THEN {root}
                 ELSE LET before == reached[d - 1]
                      IN before \cup UNION {SuccessorsOf(nfa, n) : n \in before}
  IN reached

(* traverse: the states reached from a root, and set_depth: the least      *)
(* number of transitions from it.                                          *)
TraversalOf(nfa, root) == ReachedFrom(nfa, root)[Cardinality(StatesIn(nfa))]

DepthFrom(nfa, root, n) ==
  LET reached == ReachedFrom(nfa, root)
  IN CHOOSE d \in DOMAIN reached : n \in reached[d] /\ \A e \in 0 .. d - 1 : n \notin reached[e]

(* No two NFAs share a state, so that one root reaches it.                 *)
DepthsOf(t) ==
  [n \in UNION {TraversalOf(t.nfa, root) : root \in ToSet(t.roots)} |->
     DepthFrom(t.nfa, CHOOSE root \in ToSet(t.roots) : n \in TraversalOf(t.nfa, root), n)]

NumTransitions(n) == Cardinality({p \in Symbols \X StatesIn(task.nfa) :
                                    p[2] \in task.nfa.transitions[n][p[1]]})

(* hmspecial *)
Special(n) ==
  \/ depth[n] >= SPECIAL_DEPTH
  \/ NumTransitions(n) > MAX_TX /\ depth[n] >= SPECIAL_MIN_DEPTH

-----------------------------------------------------------------------------
(***************************************************************************)
(* build and nfa2dfa_withborder.                                           *)
(***************************************************************************)
NoRow == [c \in Symbols |-> NO_STATE]

(* add_state for a subset of NFA states. *)
WithState(D, S) ==
  [size       |-> D.size + 1,
   table      |-> [s \in 0 .. D.size |-> IF s = D.size THEN NoRow ELSE D.table[s]],
   accepted   |-> [s \in 0 .. D.size |->
                     IF s = D.size THEN AcceptedBy(task.nfa, S) ELSE D.accepted[s]],
   border     |-> [s \in 0 .. D.size |-> IF s = D.size THEN {} ELSE D.border[s]],
   dead_state |-> IF S = {} THEN D.size ELSE D.dead_state]

NoDfa == [size |-> 0, table |-> <<>>, accepted |-> <<>>, border |-> <<>>,
          dead_state |-> NO_STATE]

StartHead(t, n) ==
  [size |-> 1, table |-> [s \in {0} |-> NoRow], border |-> [s \in {0} |-> {}],
   accepted |-> [s \in {0} |-> t.nfa.accepting[t.roots[n]]], dead_state |-> NO_STATE]

Target(S, c) == UNION {task.nfa.transitions[n][c] : n \in S}

AddedState(st, target) ==
  [head    |-> WithState(st.head, target),
   subsets |-> Append(st.subsets, target),
   queue   |-> Append(st.queue, st.head.size)]

Lookup(st, target) == IF target \in ToSet(st.subsets) THEN st ELSE AddedState(st, target)

StateOf(st, target) == (CHOOSE i \in DOMAIN st.subsets : st.subsets[i] = target) - 1

AddTransition(st, state, target, c) ==
  [st EXCEPT !.head.table[state][c] = StateOf(st, target)]

(* One symbol of a head state whose states that are not special are S.     *)
FollowTarget(st, state, target, c) == AddTransition(Lookup(st, target), state, target, c)

FollowSymbols(st, state, S) ==
  LET after[i \in 0 .. CSIZE] ==
        IF i = 0 THEN st
                 ELSE LET before == after[i - 1]
                      IN FollowTarget(before, state, Target(S, i - 1), i - 1)
  IN after[CSIZE]

(* The special states join the border of the head state, the others are    *)
(* followed on every symbol.                                               *)
Processed(state, S, special) ==
  FollowSymbols([head |-> [head EXCEPT !.border[state] = special],
                 subsets |-> subsets, queue |-> Tail(queue)],
                state, S \ special)

SpecialIn(S) == {n \in S : Special(n)}

SubsetOf(state) == subsets[state + 1]

SetHead(st) == head' = st.head /\ subsets' = st.subsets /\ queue' = st.queue

ProcessState ==
  /\ pc = "build"
  /\ queue # <<>>
  /\ SetHead(Processed(Head(queue), SubsetOf(Head(queue)), SpecialIn(SubsetOf(Head(queue)))))
  /\ UNCHANGED <<task, depth, pc, heads, which, minVars, runVars, searchVars>>

HeadDone ==
  /\ pc = "build"
  /\ queue = <<>>
  /\ task.how = "one"
  /\ pc' = "built"
  /\ UNCHANGED <<task, depth, buildVars, minVars, runVars, searchVars>>

(* hmbuild: a head that is too large is deleted, and its rule with it.     *)
KeptHeads == IF head.size > MAX_HEAD THEN heads ELSE Append(heads, head)

NextNfa ==
  /\ pc = "build"
  /\ queue = <<>>
  /\ task.how = "list"
  /\ heads' = KeptHeads
  /\ IF which < Len(task.roots)
       THEN /\ which' = which + 1
            /\ head' = StartHead(task, which + 1)
            /\ subsets' = <<{task.roots[which + 1]}>>
            /\ queue' = <<0>>
            /\ UNCHANGED pc
       ELSE /\ pc' = "merge"
            /\ UNCHANGED <<which, head, subsets, queue>>
  /\ UNCHANGED <<task, depth, minVars, runVars, searchVars>>

-----------------------------------------------------------------------------
(***************************************************************************)
(* hm_dfalist2dfa.  DfaMerge models dfas_merge_improve step by step; this  *)
(* is what it returns: the tuples of states, numbered as they are met.     *)
(***************************************************************************)
MeetSymbol(tuples, i, list, c) ==
  LET target == [j \in DOMAIN list |-> list[j].table[tuples[i][j]][c]]
  IN IF target \in ToSet(tuples) THEN tuples ELSE Append(tuples, target)

TuplesFrom(entry, list) ==
  LET most == list[1].size * list[2].size
      met[i \in 0 .. most] ==
        IF i = 0 THEN <<entry>>
        ELSE LET before == met[i - 1]
             IN IF i > Len(before) THEN before
                ELSE FoldLeft(LAMBDA ts, c : MeetSymbol(ts, i, list, c), before,
                              [k \in 1 .. CSIZE |-> k - 1])
  IN met[most]

(* The tuples joined; the entry tuple inherits no border.                  *)
Joined(list, tuples) ==
  LET n         == Len(tuples)
      number(t) == (CHOOSE i \in 1 .. n : tuples[i] = t) - 1
      dead      == {i \in 1 .. n : \A j \in DOMAIN list : tuples[i][j] = list[j].dead_state}
  IN [size     |-> n,
      table    |-> [s \in 0 .. n - 1 |-> [c \in Symbols |->
                      number([j \in DOMAIN list |-> list[j].table[tuples[s + 1][j]][c]])]],
      accepted |-> [s \in 0 .. n - 1 |->
                      UNION {list[j].accepted[tuples[s + 1][j]] : j \in DOMAIN list}],
      border   |-> [s \in 0 .. n - 1 |-> IF s = 0 THEN {} ELSE
                      UNION {list[j].border[tuples[s + 1][j]] : j \in DOMAIN list}],
      dead_state |-> IF dead = {} THEN NO_STATE ELSE Min(dead) - 1]

Merged(list) ==
  IF Len(list) = 1 THEN list[1]
  ELSE Joined(list, TuplesFrom([j \in DOMAIN list |-> 0], list))

(* A round merges the heads two by two; both lists are pushed at the front.*)
Round(list) ==
  Reverse([i \in 1 .. (Len(list) + 1) \div 2 |->
             Merged(IF 2 * i <= Len(list) THEN <<list[2 * i], list[2 * i - 1]>>
                                          ELSE <<list[2 * i - 1]>>)])

Rounds(list) ==
  LET after[n \in 0 .. Len(list)] == IF n = 0 THEN list ELSE Round(after[n - 1])
  IN after[Len(list)][1]

(* DFA::minimize (module Hopcroft shows that it leaves the quotient) knows *)
(* nothing of the border: its keys stay as they are.                       *)
MinimizedAsDfa(D) == Quotient(D)

(* The border of a state, no longer a state perhaps. *)
BorderAt(D, s) == IF s \in DOMAIN D.border THEN D.border[s] ELSE {}

MergeHeads ==
  /\ pc = "merge"
  /\ heads # <<>>
  /\ head' = MinimizedAsDfa(Rounds(heads))
  /\ pc' = "built"
  /\ UNCHANGED <<task, depth, subsets, queue, heads, which, minVars, runVars, searchVars>>

(* The loop ends when one DFA is left, which never happens with none.      *)
NothingToMerge ==
  /\ pc = "merge"
  /\ heads = <<>>
  /\ pc' = "endless"
  /\ UNCHANGED <<task, depth, buildVars, minVars, runVars, searchVars>>

-----------------------------------------------------------------------------
(***************************************************************************)
(* HybridFA::minimize is a copy of DFA::minimize, whose actions are those  *)
(* of the module Hopcroft: it groups the states by what they accept and    *)
(* border on, and the border moves with the kept rows.                     *)
(***************************************************************************)
RuleLabel(r) == <<"rule", r>>
TailLabel(n) == <<"tail", n>>

Labels(D, s) == {RuleLabel(r) : r \in D.accepted[s]} \cup {TailLabel(n) : n \in BorderAt(D, s)}

Labelled(D) ==
  [size |-> D.size, table |-> D.table, dead_state |-> D.dead_state,
   accepted |-> [s \in StatesOf(D) |-> Labels(D, s)]]

Unlabelled(D) ==
  [size |-> D.size, table |-> D.table, dead_state |-> D.dead_state,
   accepted |-> [s \in StatesOf(D) |-> {l[2] : l \in {x \in D.accepted[s] : x[1] = "rule"}}],
   border   |-> [s \in StatesOf(D) |-> {l[2] : l \in {x \in D.accepted[s] : x[1] = "tail"}}]]

NoLocals == /\ given' = NoDfa /\ dfa' = NoDfa /\ mpc' = "done"
            /\ block' = <<>> /\ lastBlock' = 0 /\ L' = {}

StartMinimize ==
  /\ pc \in {"built", "minimized"}
  /\ given' = Labelled(head)
  /\ dfa' = Labelled(head)
  /\ mpc' = "group"
  /\ block' = [s \in StatesOf(head) \cup {NO_STATE} |-> Refine!ErrorBlock]
  /\ lastBlock' = Refine!ErrorBlock
  /\ L' = {}
  /\ pc' = "minimize"
  /\ UNCHANGED <<task, depth, buildVars, runVars, searchVars>>

Minimizing == pc = "minimize" /\ UNCHANGED <<task, depth, pc, buildVars, runVars, searchVars>>

GroupHeadStates == Minimizing /\ Refine!Group
SplitHeadBlocks == Minimizing /\ \E p \in L : Refine!Split(p)
NothingToSplit  == Minimizing /\ Refine!EmptyWorkList
RebuildHead     == Minimizing /\ Refine!Rebuild

EndMinimize ==
  /\ pc = "minimize"
  /\ mpc = "done"
  /\ head' = Unlabelled(dfa)
  /\ NoLocals
  /\ pc' = "minimized"
  /\ UNCHANGED <<task, depth, subsets, queue, heads, which, runVars, searchVars>>

-----------------------------------------------------------------------------
(***************************************************************************)
(* trace::traverse: the head moves, then the tails, then the border of the *)
(* new head state joins the tails; the rules of all of them are recorded,  *)
(* those of the entry state are not.                                       *)
(***************************************************************************)
(* A slip to compare with: a border state starts the tails anew.           *)
StartAnew(tails, s) == IF BorderAt(head, s) = {} THEN tails ELSE BorderAt(head, s)

JoinBorder(tails, s) == tails \cup BorderAt(head, s)

NextTails(tails, s, c) ==
  JoinBorder(UNION {task.nfa.transitions[n][c] : n \in tails}, s)

HeadMove(c) == head.table[dfa_state][c]

(* The rules the hybrid automaton records on a symbol. *)
Recorded(c) ==
  LET s == HeadMove(c)
  IN head.accepted[s] \cup AcceptedBy(task.nfa, NextTails(nfa_state, s, c))

Roots == ToSet(task.roots)

StartRun ==
  /\ dfa_state' = 0
  /\ nfa_state' = {}
  /\ accepted_rules' = {}
  /\ active' = Roots
  /\ expected' = {}

Advance(c) ==
  /\ dfa_state' = HeadMove(c)
  /\ nfa_state' = NextTails(nfa_state, HeadMove(c), c)
  /\ accepted_rules' = accepted_rules \cup Recorded(c)
  /\ active' = UNION {task.nfa.transitions[n][c] : n \in active}
  /\ expected' = expected \cup AcceptedBy(task.nfa, active')

StartTraverse ==
  /\ pc \in {"built", "minimized"}
  /\ task.how = "one"
  /\ StartRun
  /\ pc' = "traverse"
  /\ UNCHANGED <<task, depth, buildVars, minVars, searchVars>>

TraverseSymbol ==
  /\ pc = "traverse"
  /\ \E c \in Symbols : Advance(c)
  /\ UNCHANGED <<task, depth, pc, buildVars, minVars, searchVars>>

-----------------------------------------------------------------------------
(***************************************************************************)
(* dumpmem.  The NFA states are numbered NFA by NFA in the order nfaList   *)
(* has, which is that in which the OpenMP loop of the constructor ended.   *)
(* Lists of NFA states end in VALUE_END; an offset, or VALUE_NULL, says    *)
(* where the list begins.                                                  *)
(***************************************************************************)
VALUE_NULL == -1
VALUE_END == -1

Ascending(S) == SetToSortSeq(S, LAMBDA x, y : x < y)

Flattened(lists) == FoldLeft(LAMBDA x, y : x \o y, <<>>, lists)

(* rearrange_nfaids: the NFA states in the order of their new ids.         *)
Rearranged(nfaList) ==
  Flattened([i \in DOMAIN nfaList |-> Ascending(TraversalOf(task.nfa, nfaList[i]))])

NewIds(states) == [n \in ToSet(states) |-> (CHOOSE i \in DOMAIN states : states[i] = n) - 1]

(* The slots of a list of NFA states, and a slip: none for the end.        *)
SlotsWithoutEnd(S) == Cardinality(S)
Slots(S) == Cardinality(S) + 1

(* dumpnfa and dumphead go through the same lists in the same order: the   *)
(* NFA states with the symbols they have transitions on, the head states   *)
(* with a border.                                                          *)
NfaLists(states) ==
  SelectSeq([i \in 1 .. Len(states) * CSIZE |->
               <<states[(i - 1) \div CSIZE + 1], (i - 1) % CSIZE>>],
            LAMBDA p : task.nfa.transitions[p[1]][p[2]] # {})

BorderStates == SelectSeq([s \in 1 .. head.size |-> s - 1], LAMBDA s : BorderAt(head, s) # {})

(* Where the k-th of the sets begins, after so many slots.                 *)
OffsetOf(before, sets, k) == FoldLeft(LAMBDA n, S : n + Slots(S), before, SubSeq(sets, 1, k - 1))

Position(list, x) == CHOOSE k \in DOMAIN list : list[k] = x

DumpNfa(states) ==
  LET lists == NfaLists(states)
      sets  == [k \in DOMAIN lists |-> task.nfa.transitions[lists[k][1]][lists[k][2]]]
  IN [i \in 0 .. Len(states) - 1 |->
        [c \in Symbols |->
           IF <<states[i + 1], c>> \in ToSet(lists)
             THEN OffsetOf(0, sets, Position(lists, <<states[i + 1], c>>)) ELSE VALUE_NULL]]

DumpHead(states) ==
  LET lists    == NfaLists(states)
      sets     == [k \in DOMAIN lists |-> task.nfa.transitions[lists[k][1]][lists[k][2]]]
      borders  == [k \in DOMAIN BorderStates |-> BorderAt(head, BorderStates[k])]
      nfa_sets == OffsetOf(0, sets, Len(sets) + 1)
      nfa_acc  == FoldLeft(LAMBDA k, n : k + Cardinality(task.nfa.accepting[n]), 0, states)
      acc[s \in 0 .. head.size] ==
        IF s = 0 THEN nfa_acc ELSE acc[s - 1] + Cardinality(head.accepted[s - 1])
  IN [s \in StatesOf(head) |->
        [nextstates       |-> head.table[s],
         accept_num       |-> Cardinality(head.accepted[s]) % NUM_LIMIT,
         accept_offset    |-> acc[s],
         offset_to_nfaset |-> IF s \in ToSet(BorderStates)
                                THEN OffsetOf(nfa_sets, borders, Position(BorderStates, s))
                                ELSE VALUE_NULL]]

DumpNfaSet(states) ==
  LET ids     == NewIds(states)
      lists   == NfaLists(states)
      list(S) == LET order == Ascending(S)
                 IN [k \in DOMAIN order |-> ids[order[k]]] \o <<VALUE_END>>
  IN Flattened([k \in DOMAIN lists |-> list(task.nfa.transitions[lists[k][1]][lists[k][2]])])
       \o Flattened([k \in DOMAIN BorderStates |-> list(BorderAt(head, BorderStates[k]))])

DumpAccept(states) ==
  Flattened([i \in DOMAIN states |-> Ascending(task.nfa.accepting[states[i]])])
    \o Flattened([s \in 1 .. head.size |-> Ascending(head.accepted[s - 1])])

(* read_mem reads back what dumpmem has written.  The traversal of the     *)
(* objects in memory is run beside the search, to compare with.            *)
Dump ==
  /\ pc \in {"built", "minimized"}
  /\ task.how = "list"
  /\ \E nfaList \in SetToSeqs(Roots) :
       LET states == Rearranged(nfaList)
       IN mem' = [ids |-> NewIds(states), nfa_mem |-> DumpNfa(states),
                  dfa_mem |-> DumpHead(states), nfaset_mem |-> DumpNfaSet(states),
                  node_mem |-> DumpAccept(states)]
  /\ dfastate' = 0
  /\ nfa_currentstates' = {}
  /\ printed' = {}
  /\ StartRun
  /\ pc' = "search"
  /\ UNCHANGED <<task, depth, buildVars, minVars>>

(* The list that begins at an offset. *)
ListAt(offset) ==
  IF offset = VALUE_NULL THEN {}
  ELSE LET end == Min({k \in offset + 1 .. Len(mem.nfaset_mem) : mem.nfaset_mem[k] = VALUE_END})
       IN {mem.nfaset_mem[k] : k \in offset + 1 .. end - 1}

(* mem_search_hfa.  The rules of the tail states are looked up with an     *)
(* accept_offset that dumpnfa never sets: only the head's are modelled.    *)
SearchSymbol ==
  /\ pc \in {"search", "searching"}
  /\ \E c \in Symbols :
       LET s   == mem.dfa_mem[dfastate].nextstates[c]
           row == mem.dfa_mem[s]
       IN /\ dfastate' = s
          /\ nfa_currentstates' = UNION {ListAt(mem.nfa_mem[i][c]) : i \in nfa_currentstates}
                                    \cup ListAt(row.offset_to_nfaset)
          /\ printed' = {mem.node_mem[row.accept_offset + k] : k \in 1 .. row.accept_num}
          /\ Advance(c)
  /\ pc' = "searching"
  /\ UNCHANGED <<task, depth, buildVars, minVars, mem>>

-----------------------------------------------------------------------------
Init ==
  /\ task \in Tasks
  /\ depth = DepthsOf(task)
  /\ pc = "build"
  /\ head = StartHead(task, 1)
  /\ subsets = <<{task.roots[1]}>>
  /\ queue = <<0>>
  /\ heads = <<>>
  /\ which = 1
  /\ given = NoDfa /\ dfa = NoDfa /\ mpc = "done"
  /\ block = <<>> /\ lastBlock = 0 /\ L = {}
  /\ dfa_state = 0 /\ nfa_state = {} /\ accepted_rules = {}
  /\ active = {} /\ expected = {}
  /\ mem = <<>> /\ dfastate = 0 /\ nfa_currentstates = {} /\ printed = {}

Next ==
  \/ ProcessState \/ HeadDone \/ NextNfa
  \/ MergeHeads \/ NothingToMerge
  \/ StartMinimize \/ GroupHeadStates \/ SplitHeadBlocks \/ NothingToSplit
  \/ RebuildHead \/ EndMinimize
  \/ StartTraverse \/ TraverseSymbol
  \/ Dump \/ SearchSymbol

Spec == Init /\ [][Next]_vars

-----------------------------------------------------------------------------
(***************************************************************************)
(* Properties.                                                             *)
(***************************************************************************)
(* Type invariant. *)
TypeOK ==
  /\ which \in DOMAIN task.roots
  /\ DOMAIN head.table = StatesOf(head) /\ StatesOf(head) \subseteq DOMAIN head.border
  /\ ToSet(queue) \subseteq StatesOf(head)
  /\ dfa_state \in StatesOf(head)
  /\ nfa_state \cup active \subseteq StatesIn(task.nfa)

(* Head and tails together report what the NFA does, however the states    *)
(* were split between them, and whether and in which order minimize has    *)
(* refined the head: after every input the traversal has recorded exactly  *)
(* the rules that the NFA has met.                                         *)
ReportsTheRules ==
  pc = "traverse" => accepted_rules = expected

(* What dumpmem writes is the automaton: the search of the memory is in    *)
(* the head state and the tail states in which a traversal of the objects  *)
(* would be, and prints the rules of the head state.  The offsets are      *)
(* counted by other functions than those that write the lists.             *)
SearchFollowsTheAutomaton ==
  /\ TypeOK
  /\ pc = "searching" =>
       /\ dfastate = dfa_state
       /\ nfa_currentstates = {mem.ids[n] : n \in nfa_state}
       /\ printed = head.accepted[dfa_state]

(* border is a "mapping between DFA state and corresponding set of NFA     *)
(* states" (hybrid_fa.h) also of the automaton the list constructor builds:*)
(* head and tails together report what the NFAs of the list do.            *)
ListReportsTheRules ==
  pc = "searching" => accepted_rules = expected
=============================================================================
