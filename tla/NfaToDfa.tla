------------------------------ MODULE NfaToDfa ------------------------------
(***************************************************************************)
(* NFA::nfa2dfa (nfa.cpp): the subset construction.  A queue holds the DFA *)
(* states still to process, a second queue the set of NFA states each one  *)
(* stands for, and dave_subset maps a set of NFA ids to its DFA state.     *)
(* The symbols of a state are taken in runs over which no NFA state of the *)
(* set changes its targets (get_length_same_target).  The construction     *)
(* returns NULL when it would create state number MAX_DFA_SIZE.            *)
(*                                                                         *)
(* One step is one pass through the loop over the symbols, one dequeue, or *)
(* the end of a loop.                                                      *)
(***************************************************************************)
EXTENDS Automata

CONSTANTS NfaStates,     \* ids of the NFA states
          Root,          \* the state nfa2dfa is called on
          Nfas,          \* the automata to determinise
          MAX_DFA_SIZE,  \* cap on the number of DFA states (stdinc.h)
          LongestWord    \* how far the runs read (bounds a property only)

ASSUME NfaAssumption ==
  /\ IsFiniteSet(NfaStates)
  /\ Root \in NfaStates
  /\ Nfas \subseteq NfaOver(NfaStates)
  /\ MAX_DFA_SIZE \in Nat \ {0}
  /\ LongestWord \in Nat

VARIABLES
  nfa,            \* the automaton being determinised; never changes
  pc,             \* "loop": at while(!queue->empty()); "chars": in the loop
                  \* over the symbols; "done": returned dfa; "null": NULL
  mapping,        \* dave_subset: set of NFA ids -> DFA state
  size,           \* dfa->_size
  state_table,    \* dfa->state_table, NO_STATE where nothing is written yet
  accepted_rules, \* dfa->accepted_rules
  marking,        \* DFA states that have been taken from the queue
  dead_state,     \* dfa->dead_state
  queue,          \* DFA states to be processed
  mapping_queue,  \* the set of NFA states of each of them
  state,          \* the DFA state being processed
  cl_state,       \* the set of NFA states it stands for
  i               \* the next symbol to process

vars == <<nfa, pc, mapping, size, state_table, accepted_rules, marking,
          dead_state, queue, mapping_queue, state, cl_state, i>>

-----------------------------------------------------------------------------
(* What DFA::add_state leaves in the row of a new state.                   *)
EmptyRow == [c \in Symbols |-> NO_STATE]

(* A slip to compare with: the longest run of the states, not the          *)
(* shortest.                                                               *)
LengthWithSomeTarget(S, c, len) ==
  /\ S # {} =>
       \E s \in S : \A j \in c .. c + len - 1 :
          GetTransitions(nfa, s, j) = GetTransitions(nfa, s, c)
  /\ c + len < CSIZE =>
       \A s \in S :
          GetTransitions(nfa, s, c + len) # GetTransitions(nfa, s, c)

(* The number of symbols from c on over which no state of S changes its    *)
(* targets: the minimum over S of get_length_same_target(c), or all the    *)
(* remaining symbols when S is empty.                                      *)
LengthWithSameTarget(S, c, len) ==
  /\ \A s \in S : \A j \in c .. c + len - 1 :
       GetTransitions(nfa, s, j) = GetTransitions(nfa, s, c)
  /\ c + len < CSIZE =>
       \E s \in S :
          GetTransitions(nfa, s, c + len) # GetTransitions(nfa, s, c)

(* push_back, and a slip: push_front.                                      *)
PushedFront(q, s) == <<s>> \o q
Enqueued(q, s) == Append(q, s)

(* add_transition over the run of len symbols from i.                      *)
RowOver(row, len, t) ==
  [c \in Symbols |-> IF c \in i .. i + len - 1 THEN t ELSE row[c]]

-----------------------------------------------------------------------------
(* Whether creating one more DFA state would hit the cap, and a slip: one  *)
(* state early.                                                            *)
AtCapEarly == size = MAX_DFA_SIZE - 1
AtCap == size = MAX_DFA_SIZE

(* A slip to compare with: the entry subset without its closure.           *)
InitWithoutClosure ==
  /\ nfa \in Nfas
  /\ pc = "loop"
  /\ mapping = [S \in {{Root}} |-> 0]
  /\ size = 1
  /\ state_table = [s \in {0} |-> EmptyRow]
  /\ accepted_rules = [s \in {0} |-> AcceptedBy(nfa, {Root})]
  /\ marking = {}
  /\ dead_state = NO_STATE
  /\ queue = <<0>>
  /\ mapping_queue = <<{Root}>>
  /\ state = NO_STATE
  /\ cl_state = {}
  /\ i = 0

Init ==
  LET start == EpsilonClosure(nfa, Root) IN
  /\ nfa \in Nfas
  /\ pc = "loop"
  /\ mapping = [S \in {start} |-> 0]
  /\ size = 1
  /\ state_table = [s \in {0} |-> EmptyRow]
  /\ accepted_rules = [s \in {0} |-> AcceptedBy(nfa, start)]
  /\ marking = {}
  /\ dead_state = NO_STATE
  /\ queue = <<0>>
  /\ mapping_queue = <<start>>
  /\ state = NO_STATE
  /\ cl_state = {}
  /\ i = 0

(* A slip to compare with: the state stays at the head of the queues.      *)
DequeueKeepingHead ==
  /\ pc = "loop"
  /\ queue # <<>>
  /\ state' = Head(queue)
  /\ cl_state' = Head(mapping_queue)
  /\ marking' = marking \cup {Head(queue)}
  /\ pc' = "chars"
  /\ i' = 0
  /\ UNCHANGED <<nfa, mapping, size, state_table, accepted_rules, dead_state,
                 queue, mapping_queue>>

(* Take the first DFA state from the queue; a marked one is skipped.       *)
Dequeue ==
  /\ pc = "loop"
  /\ queue # <<>>
  /\ state' = Head(queue)
  /\ cl_state' = Head(mapping_queue)
  /\ queue' = Tail(queue)
  /\ mapping_queue' = Tail(mapping_queue)
  /\ marking' = marking \cup {Head(queue)}
  /\ pc' = IF Head(queue) \in marking THEN "loop" ELSE "chars"
  /\ i' = 0
  /\ UNCHANGED <<nfa, mapping, size, state_table, accepted_rules, dead_state>>

(* The target set of the run that starts at i has a DFA state already.     *)
FollowKnown(len) ==
  LET target == Move(nfa, cl_state, i) IN
  /\ pc = "chars"
  /\ i < CSIZE
  /\ LengthWithSameTarget(cl_state, i, len)
  /\ target \in DOMAIN mapping
  /\ state_table' = [state_table EXCEPT
                       ![state] = RowOver(@, len, mapping[target])]
  /\ i' = i + len
  /\ UNCHANGED <<nfa, pc, mapping, size, accepted_rules, marking, dead_state,
                 queue, mapping_queue, state, cl_state>>

(* The target set is new: lookup adds a DFA state, which gets its rules,   *)
(* joins both queues, and is the dead state if the set is empty.           *)
CreateState(len) ==
  LET target == Move(nfa, cl_state, i) IN
  /\ pc = "chars"
  /\ i < CSIZE
  /\ LengthWithSameTarget(cl_state, i, len)
  /\ target \notin DOMAIN mapping
  /\ ~AtCap
  /\ mapping' = [S \in DOMAIN mapping \cup {target} |->
                   IF S = target THEN size ELSE mapping[S]]
  /\ size' = size + 1
  /\ state_table' = [s \in 0 .. size |->
                       IF s = state THEN RowOver(state_table[s], len, size)
                       ELSE IF s = size THEN EmptyRow ELSE state_table[s]]
  /\ accepted_rules' = [s \in 0 .. size |->
                          IF s = size THEN AcceptedBy(nfa, target)
                                      ELSE accepted_rules[s]]
  /\ dead_state' = IF target = {} THEN size ELSE dead_state
  /\ queue' = Enqueued(queue, size)
  /\ mapping_queue' = Append(mapping_queue, target)
  /\ i' = i + len
  /\ UNCHANGED <<nfa, pc, marking, state, cl_state>>

(* lookup answers MAX_DFA_SIZE: everything is freed and NULL returned.     *)
GiveUp ==
  /\ pc = "chars"
  /\ i < CSIZE
  /\ Move(nfa, cl_state, i) \notin DOMAIN mapping
  /\ AtCap
  /\ pc' = "null"
  /\ UNCHANGED <<nfa, mapping, size, state_table, accepted_rules, marking,
                 dead_state, queue, mapping_queue, state, cl_state, i>>

EndOfState ==
  /\ pc = "chars"
  /\ i = CSIZE
  /\ pc' = "loop"
  /\ UNCHANGED <<nfa, mapping, size, state_table, accepted_rules, marking,
                 dead_state, queue, mapping_queue, state, cl_state, i>>

Return ==
  /\ pc = "loop"
  /\ queue = <<>>
  /\ pc' = "done"
  /\ UNCHANGED <<nfa, mapping, size, state_table, accepted_rules, marking,
                 dead_state, queue, mapping_queue, state, cl_state, i>>

Next ==
  \/ Dequeue
  \/ \E len \in 1 .. CSIZE - i : FollowKnown(len) \/ CreateState(len)
  \/ GiveUp
  \/ EndOfState
  \/ Return

Spec == Init /\ [][Next]_vars /\ WF_vars(Next)

-----------------------------------------------------------------------------
(***************************************************************************)
(* Properties.                                                             *)
(***************************************************************************)
DfaStates == 0 .. size - 1

(* Type invariant: the arrays of the DFA have one row per state, the       *)
(* states are numbered without gaps, and a run of symbols never leaves the *)
(* row it is written to (i never passes CSIZE).                            *)
TypeOK ==
  /\ pc \in {"loop", "chars", "done", "null"}
  /\ size \in 1 .. MAX_DFA_SIZE
  /\ DOMAIN mapping \subseteq SUBSET NfaStates
  /\ mapping \in [DOMAIN mapping -> DfaStates]
  /\ state_table \in [DfaStates -> [Symbols -> DfaStates \cup {NO_STATE}]]
  /\ accepted_rules \in [DfaStates -> SUBSET Rules]
  /\ marking \subseteq DfaStates
  /\ dead_state \in DfaStates \cup {NO_STATE}
  /\ queue \in Seq(DfaStates)
  /\ mapping_queue \in Seq(SUBSET NfaStates)
  /\ state \in DfaStates \cup {NO_STATE}
  /\ cl_state \subseteq NfaStates
  /\ i \in 0 .. CSIZE

(* The two queues are separate lists that must stay in step: whatever DFA  *)
(* state is taken next, the set taken with it is the set it stands for.    *)
QueuesInStep ==
  /\ Len(queue) = Len(mapping_queue)
  /\ \A k \in 1 .. Len(queue) :
       /\ mapping_queue[k] \in DOMAIN mapping
       /\ mapping[mapping_queue[k]] = queue[k]
  /\ pc = "chars" => cl_state \in DOMAIN mapping /\ mapping[cl_state] = state

(* Every transition written, whatever run of symbols it was written in,    *)
(* leads to the DFA state of the set the NFA moves to; two sets never      *)
(* share a DFA state.                                                      *)
TransitionsFollowMoves ==
  /\ \A S, T \in DOMAIN mapping : mapping[S] = mapping[T] => S = T
  /\ \A S \in DOMAIN mapping, c \in Symbols :
       state_table[mapping[S]][c] # NO_STATE =>
         /\ Move(nfa, S, c) \in DOMAIN mapping
         /\ state_table[mapping[S]][c] = mapping[Move(nfa, S, c)]

Words(k) == UNION {[1 .. n -> Symbols] : n \in 0 .. k}

Result == [size |-> size, table |-> state_table, accepted |-> accepted_rules]

SameRulesAsNfa(w) ==
  accepted_rules[RunFrom(Result, 0, w)] = AcceptedBy(nfa, ActiveSet(nfa, Root, w))

(* The returned DFA reports, after every word of at most LongestWord       *)
(* symbols, the rules that trace::traverse(NFA) reports by keeping the     *)
(* active set.                                                             *)
SameRulesOnShortWords == pc = "done" => \A w \in Words(LongestWord) : SameRulesAsNfa(w)

(* All subsets the NFA can be in, whatever the construction did.           *)
ReachableSubsets ==
  LET bound == 2 ^ Cardinality(NfaStates)
      R[k \in 0 .. bound] ==
        IF k = 0 THEN {EpsilonClosure(nfa, Root)}
                 ELSE LET prev == R[k - 1]
                      IN prev \cup {Move(nfa, S, c) : S \in prev, c \in Symbols}
  IN R[bound]

(* NULL is returned exactly for the automata with more than MAX_DFA_SIZE   *)
(* reachable subsets; any other DFA has one state per reachable subset,    *)
(* and its dead_state is the state of the empty set, if there is one.      *)
NullIffTooLarge ==
  /\ pc = "null" => Cardinality(ReachableSubsets) > MAX_DFA_SIZE
  /\ pc = "done" =>
       /\ DOMAIN mapping = ReachableSubsets
       /\ size = Cardinality(ReachableSubsets)
       /\ IF {} \in DOMAIN mapping THEN dead_state = mapping[{}]
                                   ELSE dead_state = NO_STATE

(* The construction returns, a DFA or NULL.                                *)
Returns == <>(pc \in {"done", "null"})

(* The construction is a powerset construction: its subsets and moves      *)
(* evolve as Powerset says.                                                *)
Abstract == INSTANCE Powerset WITH
  found  <- DOMAIN mapping,
  moves  <- {m \in (DOMAIN mapping) \X Symbols \X (DOMAIN mapping) :
               state_table[mapping[m[1]]][m[2]] = mapping[m[3]]},
  status <- IF pc \in {"done", "null"} THEN pc ELSE "building"

BuildsPowerset == Abstract!Spec
=============================================================================
