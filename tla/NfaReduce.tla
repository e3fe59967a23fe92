----------------------------- MODULE NfaReduce ------------------------------
(***************************************************************************)
(* What is done to the NFA of a file before it is made deterministic:      *)
(* remove_epsilon gives every state what its closure has, reduce merges    *)
(* states by a subset construction that stays nondeterministic (a target   *)
(* common to all symbols, and the part of a target that is in the subset   *)
(* itself, become states of their own), transform does both at once.  All  *)
(* work on the objects RegexParser left and delete most of them.           *)
(*                                                                         *)
(* One step is remove_epsilon, one pair of duplicates merged, one subset   *)
(* expanded, or the end of a construction.                                 *)
(***************************************************************************)
EXTENDS RegexParser

CONSTANT Reduced   \* the rule files whose NFA is reduced

VARIABLES
  sources,   \* remove_duplicates: the states not met yet,
  sizes,     \* and the number of pairs in the transitions of each
  this_tx,   \* the old targets of the first state, for the deletion
  mapping,   \* the new state of every set of old states
  queue,     \* <<new state, set of old states>>, still to be expanded
  new_this   \* the new first state of transform, `this' itself for reduce

reduceVars == <<sources, sizes, this_tx, mapping, queue, new_this>>
allVars == <<vars, reduceVars>>

parserRest == <<file, rule, ptr, frames, parsed>>

InitReduce ==
  /\ Init /\ sources = {} /\ sizes = << >>
  /\ this_tx = {} /\ mapping = << >> /\ queue = <<>> /\ new_this = nfa

-----------------------------------------------------------------------------
(* epsilon_closure without the state itself. *)
OthersInClosure(h, n) == Closure(h, {n}, {}) \ {n}

(* The labeled transitions alone.                                          *)
WithoutAccepting(h, n) ==
  [h.node[n] EXCEPT !.transitions =
     @ \cup UNION {h.node[m].transitions : m \in OthersInClosure(h, n)}]

WithClosure(h, n) ==
  [WithoutAccepting(h, n) EXCEPT !.accepting =
     @ \cup UNION {h.node[m].accepting : m \in OthersInClosure(h, n)}]

(* The states that are reached only by epsilon transitions go.             *)
OnlyByEpsilon(h, all) ==
  LET labeled == UNION {{t[2] : t \in WithClosure(h, n).transitions} : n \in all}
  IN UNION {OthersInClosure(h, n) : n \in all} \ labeled

WithoutEpsilon(h, all, gone) ==
  [h EXCEPT !.node =
     SubSeq([n \in DOMAIN @ |->
               IF n \in gone THEN [@[n] EXCEPT !.deleted = TRUE]
               ELSE IF n \in all THEN [WithClosure(h, n) EXCEPT !.epsilon = <<>>]
               ELSE @[n]], 1, Len(@))]

RemoveEpsilon ==
  /\ pc = "done" /\ file \in Reduced
  /\ LET all == Traverse(heap, nfa)
     IN heap' = WithoutEpsilon(heap, all, OnlyByEpsilon(heap, all))
  /\ pc' = "no_epsilon"
  /\ UNCHANGED <<parserRest, reduceVars>>

-----------------------------------------------------------------------------
(* same_transitions: all of the first are among the second, and there are  *)
(* as many.  A pair whose target is redirected stays in its set, so that   *)
(* the numbers of pairs (sizes) do not change when two pairs become equal. *)
SameTransitions(h, m, n) ==
  /\ h.node[m].transitions \subseteq h.node[n].transitions
  /\ sizes[m] = sizes[n]

IsDuplicate(h, source, target) ==
  /\ source # target /\ ~ h.node[target].deleted
  /\ h.node[source].accepting = h.node[target].accepting
  /\ SameTransitions(h, source, target)

(* A slip to compare with: transitions to the duplicate stay as they are.  *)
NotRedirected(h, source, target) == [h EXCEPT !.node[target].deleted = TRUE]

(* Every transition to target leads to source from now on.                 *)
RedirectTo(h, source, target) ==
  [h EXCEPT !.node =
     SubSeq([n \in DOMAIN @ |->
               [@[n] EXCEPT
                  !.transitions = {<<t[1], Redirected(t[2], target, source)>> : t \in @},
                  !.first   = IF n = nfa THEN Redirected(@, target, source) ELSE @,
                  !.deleted = @ \/ n = target]], 1, Len(@))]

TargetsOf(h, n) == {t[2] : t \in h.node[n].transitions}

HasDuplicate(h, source, targets) == \E n \in targets : IsDuplicate(h, source, n)

(* The heaps that the walk over the transitions of a source may leave: its *)
(* targets are met in the order of the addresses of the pairs (a target    *)
(* met several times is a duplicate once or never).  `targets' are those   *)
(* not met yet.                                                            *)
RECURSIVE Absorbed(_, _, _)
Absorbed(h, source, targets) ==
  IF ~ HasDuplicate(h, source, targets) THEN {h}
  ELSE UNION {Absorbed(IF IsDuplicate(h, source, n) THEN RedirectTo(h, source, n) ELSE h,
                       source, targets \ {n}) : n \in targets}

(* reduce begins with remove_duplicates.                                   *)
StartReduce ==
  /\ pc \in {"done", "no_epsilon"} /\ file \in Reduced
  /\ pc' = "duplicates"
  /\ sources' = Traverse(heap, nfa)
  /\ sizes' = [n \in Traverse(heap, nfa) |-> Cardinality(heap.node[n].transitions)]
  /\ UNCHANGED <<parserRest, heap, this_tx, mapping, queue, new_this>>

MayAbsorb(n) == ~ heap.node[n].deleted /\ HasDuplicate(heap, n, TargetsOf(heap, n))

(* The states are met once each, in the order of their addresses.          *)
AbsorbDuplicates(n) ==
  /\ pc = "duplicates" /\ n \in sources
  /\ \E m \in sources : MayAbsorb(m)
  /\ heap' \in IF heap.node[n].deleted THEN {heap}
               ELSE Absorbed(heap, n, TargetsOf(heap, n))
  /\ sources' = sources \ {n}
  /\ UNCHANGED <<parserRest, pc, sizes, this_tx, mapping, queue, new_this>>

EndOfDuplicates ==
  /\ pc = "duplicates" /\ ~ \E m \in sources : MayAbsorb(m)
  /\ pc' = "reduce"
  /\ this_tx' = TargetsOf(heap, nfa)
  /\ mapping' = {nfa} :> nfa
  /\ queue' = <<<<nfa, {nfa}>>>>
  /\ UNCHANGED <<parserRest, heap, new_this, sources, sizes>>

(* transform begins at the closure of the first state and builds a new     *)
(* first state.                                                            *)
StartTransform ==
  /\ pc = "done" /\ file \in Reduced
  /\ pc' = "transform"
  /\ LET new == NewNfa(heap)
         start == Closure(heap, {nfa}, {})
     IN /\ heap' = new.heap
        /\ mapping' = start :> new.at
        /\ queue' = <<<<new.at, start>>>>
        /\ new_this' = new.at
  /\ this_tx' = TargetsOf(heap, nfa) \cup ToSet(heap.node[nfa].epsilon)
  /\ UNCHANGED <<parserRest, sources, sizes>>

-----------------------------------------------------------------------------
(* Where a subset goes on a symbol: with the closures for transform.       *)
Target(subset, c) ==
  LET direct == UNION {{t[2] : t \in {x \in heap.node[n].transitions : x[1] = c}} :
                         n \in subset}
  IN IF pc = "transform" THEN Closure(heap, direct, {}) ELSE direct

(* COMMON_TARGET_REDUCTION *)
CommonTarget(subset) ==
  {n \in Target(subset, 0) : \A c \in Symbols : n \in Target(subset, c)}

OwnTarget(subset, c) == Target(subset, c) \ CommonTarget(subset)

(* self_target and target *)
Split(T, subset) == {T \cap subset, T \ subset} \ {{}}

(* subset::lookup for all the sets a subset leads to: a set seen for the   *)
(* first time gets a new state with the rules of its members.              *)
RECURSIVE LookUp(_, _)
LookUp(st, sets) ==
  IF sets = {} THEN st
  ELSE LET set == CHOOSE x \in sets : TRUE
           new == NewNfa(st.heap)
       IN LookUp(IF set \in DOMAIN st.mapping THEN st
                 ELSE [heap    |-> [new.heap EXCEPT !.node[new.at].accepting =
                                      RulesOf(st.heap, set)],
                       mapping |-> (set :> new.at) @@ st.mapping,
                       queue   |-> Append(st.queue, <<new.at, set>>)],
                 sets \ {set})

(* transform: transitions to new_this lead to `this', which replaces it.   *)
AddressOf(map, set) == IF map[set] = new_this THEN nfa ELSE map[set]

ExpandedFrom(st, me, own, common) ==
  FoldSet(LAMBDA set, h : AddTransitionsTo(h, me, Symbols, AddressOf(st.mapping, set)),
          [st.heap EXCEPT !.node[me].transitions =
             {<<x[1], AddressOf(st.mapping, x[2])>> : x \in own}],
          common)

Expand ==
  /\ pc \in {"reduce", "transform"} /\ queue # <<>>
  /\ LET me     == queue[1][1]
         subset == queue[1][2]
         own    == UNION {{c} \X Split(OwnTarget(subset, c), subset) : c \in Symbols}
         common == Split(CommonTarget(subset), subset)
         st     == LookUp([heap |-> heap, mapping |-> mapping, queue |-> Tail(queue)],
                          {x[2] : x \in own} \cup common)
     IN /\ heap' = ExpandedFrom(st, me, own, common)
        /\ mapping' = st.mapping
        /\ queue' = st.queue
  /\ UNCHANGED <<parserRest, pc, this_tx, new_this, sources, sizes>>

(* The old states, reached from the old targets of `this', are deleted.    *)
OldStates == UNION {Traverse(heap, n) : n \in this_tx \ {nfa}}

WithoutStates(h, gone) ==
  [h EXCEPT !.node = SubSeq([n \in DOMAIN @ |-> [@[n] EXCEPT !.deleted = @ \/ n \in gone]],
                            1, Len(@))]

EndReduce ==
  /\ pc = "reduce" /\ queue = <<>>
  /\ heap' = WithoutStates([heap EXCEPT !.node[nfa].last = nfa], OldStates)
  /\ pc' = "reduced"
  /\ UNCHANGED <<parserRest, reduceVars>>

(* `this' takes over the transitions of new_this, not what it accepts.     *)
EndTransform ==
  /\ pc = "transform" /\ queue = <<>>
  /\ heap' = [WithoutStates(heap, (OldStates \ {nfa}) \cup {new_this})
                EXCEPT !.node[nfa].transitions = heap.node[new_this].transitions,
                       !.node[nfa].epsilon = <<>>]
  /\ pc' = "transformed"
  /\ UNCHANGED <<parserRest, reduceVars>>

Reduce == \/ RemoveEpsilon \/ StartReduce \/ EndOfDuplicates
          \/ \E n \in DOMAIN heap.node : AbsorbDuplicates(n)
          \/ StartTransform \/ Expand \/ EndReduce \/ EndTransform

Parse == Next /\ UNCHANGED reduceVars

Finished == pc \in {"done", "fatal", "no_epsilon", "reduced", "transformed"} /\ UNCHANGED allVars

SpecReduce == InitReduce /\ [][Parse \/ Reduce \/ Finished]_allVars

-----------------------------------------------------------------------------
(* While a construction goes on, its subsets hold old states only: were    *)
(* the first state entered by another, it would be read after its          *)
(* transitions have been replaced, and deleted with the old states.        *)
SubsetsAreOld ==
  \A i \in DOMAIN queue : \A n \in queue[i][2] :
     /\ n \in Live
     /\ \A set \in DOMAIN mapping : mapping[set] = n => n = nfa /\ i = 1 /\ set = {nfa}
=============================================================================
