----------------------------- MODULE DefaultTx -----------------------------
(***************************************************************************)
(* Default transitions of a DFA (dfa.cpp, trace.cpp).                      *)
(* fast_compression_algorithm gives every state the state of smaller depth *)
(* whose row is most like its own as default transition and keeps only the *)
(* labeled transitions that differ; lookup and traverse_compressed run on  *)
(* the compressed form; put writes it to a file and get rebuilds the whole *)
(* automaton from the file.                                                *)
(*                                                                         *)
(* One step is one state compressed, one call of lookup, one export or one *)
(* import.  The path lengths in dt_length are not initialised by the code: *)
(* they begin with any value.                                              *)
(***************************************************************************)
EXTENDS Automata

CONSTANTS Dfas,      \* the automata that are compressed
          Ks,        \* values of the parameter k
          Bounds,    \* values of the parameter bound, -1 for none
          Garbage,   \* what uninitialised memory may hold
          MAX_INPUTS \* longest input (bounds the model only)

(* What set_depth leaves: the length of the shortest way from state 0, in  *)
(* the form of the equations that fix it.                                  *)
IsDepth(D, d) ==
  /\ d[0] = 0
  /\ \A t \in StatesOf(D), a \in Symbols : d[D.table[t][a]] <= d[t] + 1
  /\ \A t \in StatesOf(D) \ {0} :
       \E r \in StatesOf(D), a \in Symbols :
         D.table[r][a] = t /\ d[t] = d[r] + 1

(* The automata nfa2dfa, the merge and minimize leave: complete, and       *)
(* numbered in the order in which their states are found, by a queue, so   *)
(* that no state is nearer to state 0 than one numbered before it.         *)
ASSUME DfasAssumption ==
  \A D \in Dfas :
    /\ D.size \in Nat \ {0}
    /\ D \in [size       : {D.size},
             table      : [StatesOf(D) -> [Symbols -> StatesOf(D)]],
             accepted   : [StatesOf(D) -> SUBSET Rules],
             dead_state : StatesOf(D) \cup {NO_STATE}]
    /\ \A d \in [StatesOf(D) -> 0 .. D.size] :
         IsDepth(D, d) => \A t, u \in StatesOf(D) : t < u => d[t] <= d[u]

ASSUME ParametersAssumption ==
  /\ Ks \subseteq Nat \ {0}
  /\ Bounds \subseteq Nat \cup {-1}
  /\ Garbage \subseteq Int
  /\ MAX_INPUTS \in Nat

VARIABLES
  given,       \* the automaton before it is compressed (history)
  dfa,         \* state_table, accepted_rules, dead_state
  k, bound,    \* the parameters of the call
  algorithm,   \* what chose the default transitions (history)
  pc,          \* "fresh", "compress", "ready", "dumped", "crashed"
  depth,       \* distance of every state from state 0
  s,           \* the next state to compress
  dt_length,   \* length of the default path of every state
  default_tx,  \* the default transitions
  labeled_tx,  \* the labeled transitions of every state
  file,        \* what put has written
  ref,         \* where the whole automaton would be (history)
  state, c,    \* the arguments of lookup; c is NoSymbol between two lookups
  inputs,      \* symbols read
  accesses     \* total_traversals: calls of lookup

compressionVars == <<algorithm, depth, s, dt_length, default_tx, labeled_tx>>
traversalVars == <<ref, state, c, inputs, accesses>>
vars == <<given, dfa, k, bound, pc, compressionVars, file, traversalVars>>

NoSymbol == -1
NoFile == [size |-> 0]

States == StatesOf(dfa)

-----------------------------------------------------------------------------
AllLabeled(D, t) == D.table[t]

(* A slip to compare with: the targets are those of the default state.     *)
DifferingInDefault(D, t, u) ==
  [a \in {b \in Symbols : D.table[t][b] # D.table[u][b]} |-> D.table[u][a]]

(* The transitions of t that its default state u does not make.            *)
Differing(D, t, u) ==
  [a \in {b \in Symbols : D.table[t][b] # D.table[u][b]} |-> D.table[t][a]]

Common(D, t, u) == Cardinality({a \in Symbols : D.table[t][a] = D.table[u][a]})

(* Traversals are counted to the number no property looks beyond.          *)
Counted(n) == IF n > 2 * MAX_INPUTS THEN n ELSE n + 1

(* A slip to compare with: any state compressed before s.                  *)
CandidateBefore(t) == (bound = -1 \/ dt_length[t] < bound) /\ t < s

(* A slip to compare with: k levels of depth are not asked for.            *)
CandidateAtAnyDepth(t) ==
  /\ bound = -1 \/ dt_length[t] < bound
  /\ depth[s] >= depth[t]

(* A slip to compare with: the path of t may itself have length `bound'.   *)
CandidateAtBound(t) ==
  /\ bound = -1 \/ dt_length[t] <= bound
  /\ depth[s] - k >= depth[t]

(* Which states s may fall back to.                                        *)
Candidate(t) ==
  /\ bound = -1 \/ dt_length[t] < bound
  /\ depth[s] - k >= depth[t]

Candidates == {t \in States : Candidate(t)}

(* The scan over t keeps the first state with most transitions in common,  *)
(* among these with the shortest default path.                             *)
IsBest(t) ==
  \A u \in Candidates :
    LET cu == Common(dfa, s, u)
        ct == Common(dfa, s, t)
    IN \/ cu < ct
       \/ cu = ct /\ dt_length[t] < dt_length[u]
       \/ cu = ct /\ dt_length[t] = dt_length[u] /\ t <= u

-----------------------------------------------------------------------------
Init ==
  /\ given \in Dfas
  /\ dfa = given
  /\ k \in Ks
  /\ bound \in Bounds
  /\ pc = "fresh"
  /\ algorithm = "none"
  /\ depth = [t \in States |-> 0]
  /\ s = 1
  /\ dt_length = [t \in States |-> 0]
  /\ default_tx = [t \in States |-> NO_STATE]
  /\ labeled_tx = [t \in States |-> << >>]
  /\ file = NoFile
  /\ ref = 0
  /\ state = 0
  /\ c = NoSymbol
  /\ inputs = 0
  /\ accesses = 0

(* set_depth; state 0 keeps all its transitions and is its own default.    *)
StartCompression ==
  /\ pc = "fresh"
  /\ \E d \in [States -> 0 .. dfa.size] : IsDepth(dfa, d) /\ depth' = d
  /\ \E g \in [States -> Garbage] : dt_length' = [g EXCEPT ![0] = 0]
  /\ default_tx' = [default_tx EXCEPT ![0] = 0]
  /\ labeled_tx' = [t \in States |-> IF t = 0 THEN AllLabeled(dfa, 0) ELSE << >>]
  /\ s' = 1
  /\ algorithm' = "fast_compression"
  /\ pc' = "compress"
  /\ UNCHANGED <<given, dfa, k, bound, file, traversalVars>>

Compressing == pc = "compress" /\ s < dfa.size

(* The best candidate has more than one transition, or none, in common     *)
(* with s: s falls back to it.                                             *)
FallTo(t) ==
  /\ Compressing
  /\ Candidate(t)
  /\ IsBest(t)
  /\ Common(dfa, s, t) # 1
  /\ default_tx' = [default_tx EXCEPT ![s] = t]
  /\ dt_length' = [dt_length EXCEPT ![s] = dt_length[t] + 1]
  /\ labeled_tx' = [labeled_tx EXCEPT ![s] = Differing(dfa, s, t)]
  /\ s' = s + 1
  /\ UNCHANGED <<given, dfa, k, bound, algorithm, pc, depth, file, traversalVars>>

(* One common transition is not worth a default transition.                *)
OneInCommon ==
  /\ Compressing
  /\ \E t \in Candidates : IsBest(t) /\ Common(dfa, s, t) = 1
  /\ default_tx' = [default_tx EXCEPT ![s] = NO_STATE]
  /\ dt_length' = [dt_length EXCEPT ![s] = 0]
  /\ labeled_tx' = [labeled_tx EXCEPT ![s] = AllLabeled(dfa, s)]
  /\ s' = s + 1
  /\ UNCHANGED <<given, dfa, k, bound, algorithm, pc, depth, file, traversalVars>>

(* No candidate at all: the length is read from dt_length[NO_STATE], which *)
(* lies outside of the array: a crash, or any value.                       *)
NoCandidate ==
  /\ Compressing
  /\ Candidates = {}
  /\ \/ /\ pc' = "crashed"
        /\ UNCHANGED compressionVars
     \/ /\ \E g \in Garbage : dt_length' = [dt_length EXCEPT ![s] = g + 1]
        /\ default_tx' = [default_tx EXCEPT ![s] = NO_STATE]
        /\ labeled_tx' = [labeled_tx EXCEPT ![s] = AllLabeled(dfa, s)]
        /\ s' = s + 1
        /\ UNCHANGED <<pc, algorithm, depth>>
  /\ UNCHANGED <<given, dfa, k, bound, file, traversalVars>>

(* The lengths are freed.                                                  *)
EndCompression ==
  /\ pc = "compress"
  /\ s = dfa.size
  /\ dt_length' = [t \in States |-> 0]
  /\ s' = 1
  /\ pc' = "ready"
  /\ UNCHANGED <<given, dfa, k, bound, algorithm, depth, default_tx, labeled_tx,
                 file, traversalVars>>

-----------------------------------------------------------------------------
(* A slip to compare with: a dead state of 0 is written.                   *)
PutWithoutDeadState ==
  /\ pc = "ready"
  /\ file = NoFile
  /\ inputs = 0 /\ c = NoSymbol
  /\ file' = [size |-> dfa.size, default_tx |-> default_tx,
              labeled_tx |-> labeled_tx, accepted |-> dfa.accepted,
              dead_state |-> 0]
  /\ pc' = "dumped"
  /\ UNCHANGED <<given, dfa, k, bound, compressionVars, traversalVars>>

(* put writes the compressed form, the rules and the dead state.  (It is   *)
(* written once, before anything is read.)                                 *)
Put ==
  /\ pc = "ready"
  /\ file = NoFile
  /\ inputs = 0 /\ c = NoSymbol
  /\ file' = [size |-> dfa.size, default_tx |-> default_tx,
              labeled_tx |-> labeled_tx, accepted |-> dfa.accepted,
              dead_state |-> dfa.dead_state]
  /\ pc' = "dumped"
  /\ UNCHANGED <<given, dfa, k, bound, compressionVars, traversalVars>>

(* The default path of t, and where on it a label a is found.              *)
DefaultPath(defaults, t) ==
  LET path[n \in 0 .. Cardinality(DOMAIN defaults)] ==
        IF n = 0 THEN t
        ELSE IF path[n - 1] = NO_STATE THEN NO_STATE ELSE defaults[path[n - 1]]
  IN path

LabelsOnPath(f, t, a) ==
  LET path == DefaultPath(f.default_tx, t)
  IN {n \in DOMAIN path : path[n] # NO_STATE /\ a \in DOMAIN f.labeled_tx[path[n]]}

(* What lookup(t, a) answers: the target of the first of them.             *)
Lookup(f, t, a) ==
  LET found == LabelsOnPath(f, t, a)
      first == CHOOSE n \in found : \A m \in found : n <= m
  IN f.labeled_tx[DefaultPath(f.default_tx, t)[first]][a]

(* get frees what the automaton holds and reads the file; the state table  *)
(* is rebuilt by lookup.  A number of NO_STATE is written as 4294967295    *)
(* and read back into the same 32 bits.  depth becomes NULL, and is        *)
(* computed again by traverse_compressed.  (A lookup that finds no label   *)
(* does not return.)                                                       *)
Get ==
  /\ pc = "dumped"
  /\ \A t \in States, a \in Symbols : LabelsOnPath(file, t, a) # {}
  /\ default_tx' = file.default_tx
  /\ labeled_tx' = file.labeled_tx
  /\ dfa' = [size       |-> file.size,
             table      |-> [t \in 0 .. file.size - 1 |->
                               [a \in Symbols |-> Lookup(file, t, a)]],
             accepted   |-> file.accepted,
             dead_state |-> file.dead_state]
  /\ \E d \in [States -> 0 .. dfa.size] : IsDepth(dfa', d) /\ depth' = d
  /\ pc' = "ready"
  /\ UNCHANGED <<given, k, bound, algorithm, s, dt_length, file, traversalVars>>

-----------------------------------------------------------------------------
(* traverse_compressed reads the next symbol and calls lookup.             *)
ReadSymbol(a) ==
  /\ pc = "ready"
  /\ c = NoSymbol
  /\ inputs < MAX_INPUTS
  /\ c' = a
  /\ accesses' = Counted(accesses)
  /\ UNCHANGED <<given, dfa, k, bound, pc, compressionVars, file, ref, state,
                 inputs>>

(* lookup finds a labeled transition.                                      *)
FollowLabel ==
  /\ c # NoSymbol
  /\ state # NO_STATE
  /\ c \in DOMAIN labeled_tx[state]
  /\ state' = labeled_tx[state][c]
  /\ ref' = given.table[ref][c]
  /\ c' = NoSymbol
  /\ inputs' = inputs + 1
  /\ UNCHANGED <<given, dfa, k, bound, pc, compressionVars, file, accesses>>

(* lookup calls itself on the default state.                               *)
FallBack ==
  /\ c # NoSymbol
  /\ state # NO_STATE
  /\ c \notin DOMAIN labeled_tx[state]
  /\ state' = default_tx[state]
  /\ accesses' = Counted(accesses)
  /\ UNCHANGED <<given, dfa, k, bound, pc, compressionVars, file, ref, c, inputs>>

Compression ==
  \/ StartCompression
  \/ \E t \in States : FallTo(t)
  \/ OneInCommon
  \/ NoCandidate
  \/ EndCompression

Use ==
  \/ Put
  \/ Get
  \/ \E a \in Symbols : ReadSymbol(a)
  \/ FollowLabel
  \/ FallBack

Next == Compression \/ Use

(* A lookup that has been called goes on.                                  *)
Fairness == WF_vars(FollowLabel \/ FallBack)

Spec == Init /\ [][Next]_vars /\ Fairness

-----------------------------------------------------------------------------
(***************************************************************************)
(* Properties.                                                             *)
(***************************************************************************)
(* Type invariant: a default path never leaves the states, a state without *)
(* default transition has every label.                                     *)
TypeOK ==
  /\ depth \in [States -> Nat]
  /\ s \in 1 .. dfa.size
  /\ dt_length \in [States -> Int]
  /\ default_tx \in [States -> States \cup {NO_STATE}]
  /\ \A t \in States : /\ DOMAIN labeled_tx[t] \subseteq Symbols
                       /\ \A a \in DOMAIN labeled_tx[t] : labeled_tx[t][a] \in States
  /\ state \in States /\ ref \in States
  /\ c \in Symbols \cup {NoSymbol}
  /\ inputs \in 0 .. MAX_INPUTS
  /\ accesses \in Nat

(* Whatever default transitions are taken, the traversal of the compressed *)
(* automaton is where the traversal of the whole one would be: "the        *)
(* default and labeled transitions are functionally equivalent to          *)
(* full-DFA" (dfa.h, crosscheck_default_tx).                               *)
FollowsWholeDfa == TypeOK /\ (c = NoSymbol => state = ref)

(* "Resulting time complexity to process an input text of length N:        *)
(* (k+1/k)N" (dfa.h): N symbols cost at most N (k+1)/k state traversals,   *)
(* because a default transition gives up k levels of depth and a symbol    *)
(* gains one.                                                              *)
AmortizedTraversals ==
  algorithm = "fast_compression" /\ c = NoSymbol =>
    k * accesses <= (k + 1) * inputs

PathWithin(t, n) ==
  \E m \in 0 .. n :
    \E path \in [0 .. m -> States] :
      /\ path[0] = t
      /\ \A j \in 1 .. m : path[j] = default_tx[path[j - 1]] /\ path[j] # path[j - 1]
      /\ default_tx[path[m]] \in {NO_STATE, path[m]}

(* "bound: if > -1, gives an upper bound to the default path length"       *)
(* (dfa.h).                                                                *)
BoundOnDefaultPaths ==
  algorithm = "fast_compression" /\ pc = "ready" /\ bound > -1 =>
    \A t \in States : PathWithin(t, bound)

(* The bound holds when it is positive and k is 1, as every state then has *)
(* a candidate and no length is read from outside of the array; nothing    *)
(* crashes then either.                                                    *)
BoundOnPaths == k = 1 /\ bound # 0 => pc # "crashed" /\ BoundOnDefaultPaths

(* What get reads back is the automaton put has written, although the file *)
(* holds only labeled transitions that differ.                             *)
ImportRestoresExport == pc = "ready" => dfa = given

(* Every lookup comes to an answer: no default path runs in a circle.      *)
LookupAnswers == (c # NoSymbol) ~> (c = NoSymbol)
=============================================================================
