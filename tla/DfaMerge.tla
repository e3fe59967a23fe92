------------------------------ MODULE DfaMerge ------------------------------
(***************************************************************************)
(* dfas_merge_improve (hierarMerging.cpp): one DFA that reports what every *)
(* DFA of a list reports.  Its states stand for tuples with one state of   *)
(* each DFA.  The symbols of a tuple are taken in segments over which no   *)
(* DFA of the list changes its target, read off mask_table.  A tuple all   *)
(* of whose DFAs are in their dead_state becomes the dead_state; a tuple   *)
(* inherits the border (NFA states where a hybrid automaton goes on) of    *)
(* its components.                                                         *)
(*                                                                         *)
(* Rules of a state are added when it is taken from the queue, not when it *)
(* is created.  One step is one dequeue or one segment.                    *)
(***************************************************************************)
EXTENDS Automata

CONSTANTS Merges,   \* the lists the function is called on
          TailNfas, \* the NFA states a border may hold
          KMAX,     \* length of the longest list (hierarMerging.h)
          LongestWord \* how far the runs read (bounds the properties only)

(* A DFA with the two fields the merge reads besides the table: border     *)
(* maps the states that have one to a set of NFA states.                   *)
IsDfa(D) ==
  /\ D.size \in Nat \ {0}
  /\ D.table \in [StatesOf(D) -> [Symbols -> StatesOf(D)]]
  /\ D.accepted \in [StatesOf(D) -> SUBSET Rules]
  /\ D.dead_state \in StatesOf(D) \cup {NO_STATE}
  /\ DOMAIN D.border \subseteq StatesOf(D)
  /\ D.border \in [DOMAIN D.border -> SUBSET TailNfas]

ASSUME MergeAssumption ==
  /\ KMAX \in Nat \ {0}
  /\ LongestWord \in Nat
  /\ \A list \in Merges :
       /\ list \in Seq({list[j] : j \in DOMAIN list})
       /\ Len(list) \in 1 .. KMAX
       /\ \A j \in DOMAIN list : IsDfa(list[j])

VARIABLES
  tomerge_lis,    \* the DFAs to merge; never changes
  pc,             \* "loop": at while(!queue->empty()); "chars": in the loop
                  \* over the symbols; "done": returned dfa
  mapProcessed,   \* tuple -> state of the merged DFA
  size,           \* dfa->_size
  state_table,    \* dfa->state_table
  accepted_rules, \* dfa->accepted_rules
  dead_state,     \* dfa->dead_state
  border,         \* dfa->border
  queue,          \* states to be processed
  mapping_queue,  \* the tuple of each of them
  currentState,   \* the state being processed
  currentLis,     \* its tuple
  c               \* the next symbol to process

vars == <<tomerge_lis, pc, mapProcessed, size, state_table, accepted_rules,
          dead_state, border, queue, mapping_queue, currentState, currentLis, c>>

-----------------------------------------------------------------------------
Positions == DOMAIN tomerge_lis

StartLis == [j \in Positions |-> 0]

(* The rules of a tuple.                                                   *)
AcceptsOf(t) == UNION {tomerge_lis[j].accepted[t[j]] : j \in Positions}

TargetLis(t, a) == [j \in Positions |-> tomerge_lis[j].table[t[j]][a]]

(* initialize_masktable: mask_table[s][a] is the number of symbols right   *)
(* after a with the same target as a.                                      *)
MaskTable(D, s, a) ==
  CHOOSE n \in 0 .. CSIZE - 1 - a :
    /\ \A b \in a .. a + n : D.table[s][b] = D.table[s][a]
    /\ a + n < CSIZE - 1 => D.table[s][a + n + 1] # D.table[s][a]

(* A slip to compare with: the longest segment of the DFAs.                *)
LongestSegment(t, a) ==
  CHOOSE n \in {MaskTable(tomerge_lis[j], t[j], a) : j \in Positions} :
    \A j \in Positions : MaskTable(tomerge_lis[j], t[j], a) <= n

(* The shortest segment of the DFAs.                                       *)
SegmentLen(t, a) ==
  CHOOSE n \in {MaskTable(tomerge_lis[j], t[j], a) : j \in Positions} :
    \A j \in Positions : n <= MaskTable(tomerge_lis[j], t[j], a)

(* A slip to compare with: one dead component is taken for all.            *)
SomeDead(t) == \E j \in Positions : t[j] = tomerge_lis[j].dead_state

(* Whether every component is in the dead_state of its DFA.                *)
AllDead(t) == \A j \in Positions : t[j] = tomerge_lis[j].dead_state

(* A slip to compare with: the border of the first component that has one. *)
FirstBorder(t) ==
  LET has == {j \in Positions : t[j] \in DOMAIN tomerge_lis[j].border}
  IN IF has = {} THEN {}
     ELSE LET first == CHOOSE j \in has : \A h \in has : j <= h
          IN tomerge_lis[first].border[t[first]]

(* What a new tuple inherits from the borders of its components.           *)
BorderOf(t) ==
  UNION {tomerge_lis[j].border[t[j]] :
           j \in {h \in Positions : t[h] \in DOMAIN tomerge_lis[h].border}}

EmptyRow == [a \in Symbols |-> NO_STATE]

-----------------------------------------------------------------------------
(* A list of one DFA is handed back as it is; otherwise the start state,   *)
(* the tuple of the entry states, is created and queued.                   *)
Init ==
  /\ tomerge_lis \in Merges
  /\ currentState = NO_STATE
  /\ currentLis = StartLis
  /\ c = 0
  /\ \/ /\ Len(tomerge_lis) = 1
        /\ LET front == tomerge_lis[1] IN
             /\ pc = "done"
             /\ mapProcessed = [t \in [Positions -> StatesOf(front)] |-> t[1]]
             /\ size = front.size
             /\ state_table = front.table
             /\ accepted_rules = front.accepted
             /\ dead_state = front.dead_state
             /\ border = front.border
             /\ queue = <<>>
             /\ mapping_queue = <<>>
     \/ /\ Len(tomerge_lis) > 1
        /\ pc = "loop"
        /\ mapProcessed = [t \in {StartLis} |-> 0]
        /\ size = 1
        /\ state_table = [s \in {0} |-> EmptyRow]
        /\ accepted_rules = [s \in {0} |-> AcceptsOf(StartLis)]
        /\ dead_state = NO_STATE
        /\ border = [s \in {} |-> {}]
        /\ queue = <<0>>
        /\ mapping_queue = <<StartLis>>

(* A slip to compare with: the rules of a dequeued state are not added.    *)
DequeueWithoutRules ==
  /\ pc = "loop"
  /\ queue # <<>>
  /\ currentState' = Head(queue)
  /\ currentLis' = Head(mapping_queue)
  /\ queue' = Tail(queue)
  /\ mapping_queue' = Tail(mapping_queue)
  /\ c' = 0
  /\ pc' = "chars"
  /\ UNCHANGED <<tomerge_lis, mapProcessed, size, state_table, accepted_rules,
                 dead_state, border>>

Dequeue ==
  /\ pc = "loop"
  /\ queue # <<>>
  /\ currentState' = Head(queue)
  /\ currentLis' = Head(mapping_queue)
  /\ queue' = Tail(queue)
  /\ mapping_queue' = Tail(mapping_queue)
  /\ accepted_rules' =
       [accepted_rules EXCEPT ![Head(queue)] = @ \cup AcceptsOf(Head(mapping_queue))]
  /\ c' = 0
  /\ pc' = "chars"
  /\ UNCHANGED <<tomerge_lis, mapProcessed, size, state_table, dead_state, border>>

(* add_transition over the segment that starts at c.                       *)
RowOver(row, t) ==
  [a \in Symbols |->
     IF a \in c .. c + SegmentLen(currentLis, c) THEN t ELSE row[a]]

(* The first symbol after the segment.                                     *)
Upper == c + SegmentLen(currentLis, c) + 1

(* The target tuple of the segment that starts at c has a state already.   *)
FollowKnown ==
  LET target == TargetLis(currentLis, c) IN
  /\ pc = "chars"
  /\ c < CSIZE
  /\ target \in DOMAIN mapProcessed
  /\ state_table' = [state_table EXCEPT
                       ![currentState] = RowOver(@, mapProcessed[target])]
  /\ c' = Upper
  /\ UNCHANGED <<tomerge_lis, pc, mapProcessed, size, accepted_rules, dead_state,
                 border, queue, mapping_queue, currentState, currentLis>>

(* The target tuple is new: it gets a state, which joins both queues, may  *)
(* be the dead state, and inherits a border.                               *)
CreateState ==
  LET target == TargetLis(currentLis, c) IN
  /\ pc = "chars"
  /\ c < CSIZE
  /\ target \notin DOMAIN mapProcessed
  /\ mapProcessed' = [t \in DOMAIN mapProcessed \cup {target} |->
                        IF t = target THEN size ELSE mapProcessed[t]]
  /\ size' = size + 1
  /\ state_table' = [s \in 0 .. size |->
                       IF s = currentState THEN RowOver(state_table[s], size)
                       ELSE IF s = size THEN EmptyRow ELSE state_table[s]]
  /\ accepted_rules' = [s \in 0 .. size |->
                          IF s = size THEN {} ELSE accepted_rules[s]]
  /\ dead_state' = IF AllDead(target) THEN size ELSE dead_state
  /\ border' = IF BorderOf(target) = {} THEN border
               ELSE [s \in DOMAIN border \cup {size} |->
                       IF s = size THEN BorderOf(target) ELSE border[s]]
  /\ queue' = Append(queue, size)
  /\ mapping_queue' = Append(mapping_queue, target)
  /\ c' = Upper
  /\ UNCHANGED <<tomerge_lis, pc, currentState, currentLis>>

EndOfState ==
  /\ pc = "chars"
  /\ c = CSIZE
  /\ pc' = "loop"
  /\ UNCHANGED <<tomerge_lis, mapProcessed, size, state_table, accepted_rules,
                 dead_state, border, queue, mapping_queue, currentState,
                 currentLis, c>>

Return ==
  /\ pc = "loop"
  /\ queue = <<>>
  /\ pc' = "done"
  /\ UNCHANGED <<tomerge_lis, mapProcessed, size, state_table, accepted_rules,
                 dead_state, border, queue, mapping_queue, currentState,
                 currentLis, c>>

Next == Dequeue \/ FollowKnown \/ CreateState \/ EndOfState \/ Return

Spec == Init /\ [][Next]_vars

-----------------------------------------------------------------------------
(***************************************************************************)
(* Properties.                                                             *)
(***************************************************************************)
MergedStates == 0 .. size - 1

Tuples == {t \in [Positions -> UNION {StatesOf(tomerge_lis[j]) : j \in Positions}] :
             \A j \in Positions : t[j] \in StatesOf(tomerge_lis[j])}

(* Type invariant: the states are numbered without gaps, every array has a *)
(* row for each of them, and no segment passes the end of the row.         *)
TypeOK ==
  /\ pc \in {"loop", "chars", "done"}
  /\ size \in Nat \ {0}
  /\ DOMAIN mapProcessed \subseteq Tuples
  /\ mapProcessed \in [DOMAIN mapProcessed -> MergedStates]
  /\ state_table \in [MergedStates -> [Symbols -> MergedStates \cup {NO_STATE}]]
  /\ accepted_rules \in [MergedStates -> SUBSET Rules]
  /\ dead_state \in MergedStates \cup {NO_STATE}
  /\ DOMAIN border \subseteq MergedStates
  /\ border \in [DOMAIN border -> SUBSET TailNfas]
  /\ queue \in Seq(MergedStates)
  /\ mapping_queue \in Seq(Tuples)
  /\ currentState \in MergedStates \cup {NO_STATE}
  /\ currentLis \in Tuples
  /\ c \in 0 .. CSIZE

(* Every transition written, whatever segment it was written with, leads   *)
(* to the state of the tuple the DFAs move to; no two tuples share a state *)
(* and a state waits in the queue next to its own tuple.                   *)
TuplesFollowComponents ==
  /\ TypeOK
  /\ \A t, u \in DOMAIN mapProcessed : mapProcessed[t] = mapProcessed[u] => t = u
  /\ \A t \in DOMAIN mapProcessed, a \in Symbols :
       state_table[mapProcessed[t]][a] # NO_STATE =>
         /\ TargetLis(t, a) \in DOMAIN mapProcessed
         /\ state_table[mapProcessed[t]][a] = mapProcessed[TargetLis(t, a)]
  /\ Len(queue) = Len(mapping_queue)
  /\ \A n \in 1 .. Len(queue) :
       /\ mapping_queue[n] \in DOMAIN mapProcessed
       /\ mapProcessed[mapping_queue[n]] = queue[n]

Result == [size |-> size, table |-> state_table, accepted |-> accepted_rules]

Words(n) == UNION {[1 .. m -> Symbols] : m \in 0 .. n}

(* After the word w the merged DFA reports exactly the rules the DFAs of   *)
(* the list report between them.                                           *)
ReportsEveryRule(w) ==
  accepted_rules[RunFrom(Result, 0, w)]
    = UNION {tomerge_lis[j].accepted[RunFrom(tomerge_lis[j], 0, w)] : j \in Positions}

(* After the word w a hybrid automaton continues in the NFA states of the  *)
(* borders its DFAs have reached; but the entry state of a merge has no    *)
(* border, whatever its DFAs border on there.                              *)
InheritsEveryBorder(w) ==
  LET s == RunFrom(Result, 0, w)
      reached(j) == RunFrom(tomerge_lis[j], 0, w)
  IN (IF s \in DOMAIN border THEN border[s] ELSE {})
       = IF s = 0 /\ Len(tomerge_lis) > 1 THEN {}
         ELSE UNION {tomerge_lis[j].border[reached(j)] :
                       j \in {h \in Positions :
                                reached(h) \in DOMAIN tomerge_lis[h].border}}

(* No rule set loses a match by being merged, after no word of at most     *)
(* LongestWord symbols.                                                    *)
ReportsEveryRuleOfShortWords ==
  pc = "done" => \A w \in Words(LongestWord) : ReportsEveryRule(w)

(* No border is lost, but for the one of the entry state.                  *)
InheritsEveryBorderOnShortWords ==
  pc = "done" => \A w \in Words(LongestWord) : InheritsEveryBorder(w)

(* If the dead_state of every DFA is one "involving no progression"        *)
(* (dfa.h:145), so is the dead_state of the merged DFA, and it has one as  *)
(* soon as a word leads all of them there.                                 *)
DeadStateStaysDead ==
  LET dead == [j \in Positions |-> tomerge_lis[j].dead_state] IN
  /\ pc = "done"
  /\ \A j \in Positions :
       dead[j] # NO_STATE => NoProgression(tomerge_lis[j], dead[j])
  => IF dead \in DOMAIN mapProcessed \ {StartLis}
       THEN /\ dead_state = mapProcessed[dead]
            /\ NoProgression(Result, dead_state)
       ELSE Len(tomerge_lis) > 1 => dead_state = NO_STATE

=============================================================================
