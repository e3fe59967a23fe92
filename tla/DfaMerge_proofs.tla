-------------------------- MODULE DfaMerge_proofs --------------------------
(***************************************************************************)
(* Theorems about dfas_merge_improve, for every alphabet, every list of    *)
(* DFAs and every word, and about the rounds of merges that hm_nfa2dfa and *)
(* hm_dfalist2dfa make of it.                                              *)
(***************************************************************************)
EXTENDS DfaMerge, HierarMerge, Automata_proofs

(***************************************************************************)
(* The inductive invariant.  That transitions follow the components does   *)
(* not stand on its own: rules, rows and borders are those of the tuple a  *)
(* state stands for, and what a state still lacks is told by the queue.    *)
(***************************************************************************)
(* A state waits in the queue for its rules and its row.                   *)
Waits(q, s) == \E n \in 1 .. Len(q) : q[n] = s

(* The states are those of the tuples, the entry state that of the entry   *)
(* states, and the state being processed that of its tuple.                *)
StatesHaveTuples ==
  /\ StartLis \in DOMAIN mapProcessed
  /\ mapProcessed[StartLis] = 0
  /\ \A s \in MergedStates : \E t \in DOMAIN mapProcessed : mapProcessed[t] = s
  /\ pc = "chars" => /\ currentLis \in DOMAIN mapProcessed
                     /\ mapProcessed[currentLis] = currentState

(* A state that does not wait has its row, but for the symbols from c on   *)
(* of the state being processed.                                           *)
RowsWritten ==
  /\ \A s \in MergedStates, a \in Symbols :
       ~ Waits(queue, s) /\ ~ (pc = "chars" /\ s = currentState)
         => state_table[s][a] # NO_STATE
  /\ pc = "chars" =>
       \A a \in Symbols : a < c => state_table[currentState][a] # NO_STATE
  /\ pc = "done" => queue = <<>>

(* A state has no rules but those of its tuple, and all of them once it    *)
(* has left the queue.                                                     *)
RulesFollow ==
  \A t \in DOMAIN mapProcessed :
    /\ accepted_rules[mapProcessed[t]] \subseteq AcceptsOf(t)
    /\ ~ Waits(queue, mapProcessed[t]) => accepted_rules[mapProcessed[t]] = AcceptsOf(t)

BorderAt(b, s) == IF s \in DOMAIN b THEN b[s] ELSE {}

(* A state has the border its tuple inherits, but for the entry state.     *)
BordersFollow ==
  \A t \in DOMAIN mapProcessed :
    BorderAt(border, mapProcessed[t]) =
      IF t = StartLis /\ Len(tomerge_lis) > 1 THEN {} ELSE BorderOf(t)

DeadLis == [j \in Positions |-> tomerge_lis[j].dead_state]

(* The dead state is the state of the tuple of the dead states.            *)
DeadFollows ==
  IF DeadLis \in DOMAIN mapProcessed \ {StartLis}
    THEN dead_state = mapProcessed[DeadLis]
    ELSE Len(tomerge_lis) > 1 => dead_state = NO_STATE

IInv ==
  /\ tomerge_lis \in Merges
  /\ TuplesFollowComponents
  /\ StatesHaveTuples
  /\ RowsWritten
  /\ RulesFollow
  /\ BordersFollow
  /\ DeadFollows

-----------------------------------------------------------------------------
(* What the assumption on Merges says of the list being merged.            *)
LEMMA ListFacts ==
  ASSUME tomerge_lis \in Merges
  PROVE  /\ Len(tomerge_lis) \in Nat \ {0}
         /\ Positions = 1 .. Len(tomerge_lis)
         /\ 1 \in Positions
         /\ \A j \in Positions : IsDfa(tomerge_lis[j])
<1>1. /\ tomerge_lis \in Seq({tomerge_lis[j] : j \in DOMAIN tomerge_lis})
      /\ Len(tomerge_lis) \in 1 .. KMAX
      /\ \A j \in DOMAIN tomerge_lis : IsDfa(tomerge_lis[j])
  BY MergeAssumption
<1>2. Len(tomerge_lis) \in Nat /\ DOMAIN tomerge_lis = 1 .. Len(tomerge_lis)
  BY <1>1
<1>3. Len(tomerge_lis) # 0
  BY <1>1, MergeAssumption
<1> QED
  BY <1>1, <1>2, <1>3 DEF Positions

(* A tuple has a state of each DFA.                                        *)
LEMMA TupleIntro ==
  ASSUME NEW t, t = [j \in Positions |-> t[j]],
         \A j \in Positions : t[j] \in StatesOf(tomerge_lis[j])
  PROVE  t \in Tuples
BY DEF Tuples

(* A tuple has one state of every DFA. *)
LEMMA TupleElim ==
  ASSUME NEW t \in Tuples
  PROVE  /\ t = [j \in Positions |-> t[j]]
         /\ \A j \in Positions : t[j] \in StatesOf(tomerge_lis[j])
BY DEF Tuples

(* The DFAs start in a tuple and move to tuples.                           *)
LEMMA TargetType ==
  ASSUME tomerge_lis \in Merges, NEW t \in Tuples, NEW a \in Symbols
  PROVE  TargetLis(t, a) \in Tuples
<1> DEFINE u == TargetLis(t, a)
<1>1. u = [j \in Positions |-> u[j]]
  BY DEF TargetLis
<1>2. ASSUME NEW j \in Positions
      PROVE  u[j] \in StatesOf(tomerge_lis[j])
  <2>1. tomerge_lis[j].table \in [StatesOf(tomerge_lis[j]) -> [Symbols -> StatesOf(tomerge_lis[j])]]
    BY ListFacts DEF IsDfa
  <2>2. t[j] \in StatesOf(tomerge_lis[j])
    BY TupleElim
  <2>3. u[j] = tomerge_lis[j].table[t[j]][a]
    BY DEF TargetLis
  <2> QED
    BY <2>1, <2>2, <2>3
<1> QED
  BY <1>1, <1>2, TupleIntro

(* The tuple of entry states is a tuple. *)
LEMMA StartType ==
  ASSUME tomerge_lis \in Merges
  PROVE  StartLis \in Tuples
<1>1. StartLis = [j \in Positions |-> StartLis[j]]
  BY DEF StartLis
<1>2. ASSUME NEW j \in Positions
      PROVE  StartLis[j] \in StatesOf(tomerge_lis[j])
  <2>1. tomerge_lis[j].size \in Nat \ {0}
    BY ListFacts DEF IsDfa
  <2> QED
    BY <2>1 DEF StartLis, StatesOf
<1> QED
  BY <1>1, <1>2, TupleIntro

(* The rules a tuple accepts are rules. *)
LEMMA AcceptsType ==
  ASSUME tomerge_lis \in Merges, NEW t \in Tuples
  PROVE  AcceptsOf(t) \in SUBSET Rules
<1>1. ASSUME NEW j \in Positions
      PROVE  tomerge_lis[j].accepted[t[j]] \in SUBSET Rules
  <2>1. tomerge_lis[j].accepted \in [StatesOf(tomerge_lis[j]) -> SUBSET Rules]
    BY ListFacts DEF IsDfa
  <2> QED
    BY <2>1, TupleElim
<1> QED
  BY <1>1 DEF AcceptsOf

(* The tails a tuple borders on are tails. *)
LEMMA BorderType ==
  ASSUME tomerge_lis \in Merges, NEW t \in Tuples
  PROVE  BorderOf(t) \in SUBSET TailNfas
<1>1. ASSUME NEW j \in Positions, t[j] \in DOMAIN tomerge_lis[j].border
      PROVE  tomerge_lis[j].border[t[j]] \in SUBSET TailNfas
  BY <1>1, ListFacts DEF IsDfa
<1> QED
  BY <1>1 DEF BorderOf

-----------------------------------------------------------------------------
(* mask_table counts symbols of the row with one target: the count exists. *)
LEMMA MaskTableCounts ==
  ASSUME NEW D, NEW s, NEW a \in Symbols
  PROVE  /\ MaskTable(D, s, a) \in 0 .. CSIZE - 1 - a
         /\ \A b \in a .. a + MaskTable(D, s, a) : D.table[s][b] = D.table[s][a]
<1> DEFINE to(b) == D.table[s][b]
           Ends == {n \in 0 .. CSIZE - 1 - a : a + n < CSIZE - 1 => to(a + n + 1) # to(a)}
           Is(n) == /\ \A b \in a .. a + n : to(b) = to(a)
                    /\ a + n < CSIZE - 1 => to(a + n + 1) # to(a)
<1>1. CSIZE \in Nat \ {0} /\ a \in Nat /\ a <= CSIZE - 1
  BY AlphabetAssumption DEF Symbols
<1>2. CSIZE - 1 - a \in Ends
  BY <1>1
<1>3. PICK n \in Ends : \A m \in Ends : n <= m
  <2>1. Ends \in SUBSET Nat
    BY <1>1
  <2> HIDE DEF Ends
  <2> QED
    BY <1>2, <2>1, LeastNumber
<1>4. ASSUME NEW b \in a .. a + n
      PROVE  to(b) = to(a)
  <2>1. CASE b = a
    BY <2>1
  <2>2. CASE b # a
    <3>1. b - a - 1 \in 0 .. CSIZE - 1 - a /\ ~ (n <= b - a - 1)
          /\ a + (b - a - 1) + 1 = b
      BY <1>1, <1>3, <2>2
    <3>2. b - a - 1 \notin Ends
      BY <1>3, <3>1
    <3> QED
      BY <3>1, <3>2
  <2> QED
    BY <2>1, <2>2
<1>5. n \in 0 .. CSIZE - 1 - a /\ Is(n)
  BY <1>3, <1>4
<1>6. MaskTable(D, s, a) = CHOOSE m \in 0 .. CSIZE - 1 - a : Is(m)
  BY DEF MaskTable
<1> HIDE DEF Is
<1>7. MaskTable(D, s, a) \in 0 .. CSIZE - 1 - a /\ Is(MaskTable(D, s, a))
  BY <1>5, <1>6
<1> QED
  BY <1>7 DEF Is

(* A segment ends in the row, and over it no DFA changes its target.       *)
LEMMA SegmentMovesTogether ==
  ASSUME tomerge_lis \in Merges, NEW t, NEW a \in Symbols
  PROVE  /\ SegmentLen(t, a) \in 0 .. CSIZE - 1 - a
         /\ \A b \in a .. a + SegmentLen(t, a) : TargetLis(t, b) = TargetLis(t, a)
<1> DEFINE mask(j) == MaskTable(tomerge_lis[j], t[j], a)
           Masks == {mask(j) : j \in Positions}
           Least(n) == \A j \in Positions : n <= mask(j)
<1>1. CSIZE \in Nat \ {0} /\ a \in Nat /\ a <= CSIZE - 1
  BY AlphabetAssumption DEF Symbols
<1>2. \A j \in Positions :
        /\ mask(j) \in 0 .. CSIZE - 1 - a
        /\ \A b \in a .. a + mask(j) :
             tomerge_lis[j].table[t[j]][b] = tomerge_lis[j].table[t[j]][a]
  BY MaskTableCounts
<1> HIDE DEF mask
<1>3. PICK n \in Masks : \A m \in Masks : n <= m
  <2>1. Masks \in SUBSET Nat
    BY <1>1, <1>2
  <2>2. Masks # {}
    BY ListFacts
  <2> HIDE DEF Masks
  <2> QED
    BY <2>1, <2>2, LeastNumber
<1>4. Least(n)
  BY <1>3
<1>5. SegmentLen(t, a) = CHOOSE m \in Masks : Least(m)
  BY DEF SegmentLen, mask
<1> HIDE DEF Least
<1>6. SegmentLen(t, a) \in Masks /\ Least(SegmentLen(t, a))
  BY <1>3, <1>4, <1>5
<1> USE DEF Least
<1>7. SegmentLen(t, a) \in 0 .. CSIZE - 1 - a
  BY <1>2, <1>6
<1>8. ASSUME NEW b \in a .. a + SegmentLen(t, a)
      PROVE  TargetLis(t, b) = TargetLis(t, a)
  <2>1. \A j \in Positions : b \in a .. a + mask(j)
    BY <1>1, <1>2, <1>6, <1>7
  <2>2. \A j \in Positions : tomerge_lis[j].table[t[j]][b] = tomerge_lis[j].table[t[j]][a]
    BY <1>2, <2>1
  <2> QED
    BY <2>2 DEF TargetLis
<1> QED
  BY <1>7, <1>8

-----------------------------------------------------------------------------
(* A list of one DFA is handed back as it is.                              *)
LEMMA InitOfOne ==
  ASSUME Init, Len(tomerge_lis) = 1
  PROVE  IInv
<1> DEFINE front == tomerge_lis[1]
           single == [Positions -> StatesOf(front)]
<1>1. /\ tomerge_lis \in Merges
      /\ pc = "done"
      /\ mapProcessed = [t \in single |-> t[1]]
      /\ size = front.size
      /\ state_table = front.table
      /\ accepted_rules = front.accepted
      /\ dead_state = front.dead_state
      /\ border = front.border
      /\ queue = <<>> /\ mapping_queue = <<>>
      /\ currentState = NO_STATE /\ currentLis = StartLis /\ c = 0
  BY DEF Init
<1>2. Positions = {1} /\ IsDfa(front)
  BY <1>1, ListFacts
<1>3. /\ size \in Nat \ {0}
      /\ MergedStates = StatesOf(front) /\ 0 \in MergedStates
      /\ state_table \in [MergedStates -> [Symbols -> MergedStates]]
      /\ accepted_rules \in [MergedStates -> SUBSET Rules]
      /\ dead_state \in MergedStates \cup {NO_STATE}
      /\ DOMAIN border \subseteq MergedStates
  BY <1>1, <1>2 DEF IsDfa, MergedStates, StatesOf
<1>4. border \in [DOMAIN border -> SUBSET TailNfas]
  BY <1>1, <1>2 DEF IsDfa
<1>5. single = Tuples
  <2>1. ASSUME NEW t \in single PROVE t \in Tuples
    BY <1>2, TupleIntro
  <2>2. ASSUME NEW t \in Tuples PROVE t \in single
    BY <1>2, TupleElim
  <2> QED
    BY <2>1, <2>2
<1>6. StartLis \in Tuples /\ StartLis[1] = 0
  BY <1>1, <1>2, StartType DEF StartLis
<1>7. /\ DOMAIN mapProcessed = Tuples
      /\ \A t \in Tuples : mapProcessed[t] = t[1] /\ t[1] \in MergedStates
      /\ \A t, u \in Tuples : t[1] = u[1] => t = u
  <2>1. \A t, u \in single : t[1] = u[1] => t = u
    BY <1>2
  <2> QED
    BY <1>1, <1>2, <1>3, <1>5, <2>1
<1>8. TypeOK
  <2>1. 0 \in 0 .. CSIZE
    BY AlphabetAssumption
  <2>2. mapProcessed \in [DOMAIN mapProcessed -> MergedStates]
    BY <1>1, <1>5, <1>7
  <2> QED
    BY <1>1, <1>3, <1>4, <1>6, <1>7, <2>1, <2>2 DEF TypeOK
<1>9. ASSUME NEW t \in Tuples, NEW a \in Symbols
      PROVE  /\ TargetLis(t, a) \in Tuples
             /\ state_table[mapProcessed[t]][a] = mapProcessed[TargetLis(t, a)]
             /\ state_table[mapProcessed[t]][a] # NO_STATE
  <2>1. TargetLis(t, a) \in Tuples
    BY <1>1, TargetType
  <2>2. TargetLis(t, a)[1] = front.table[t[1]][a]
    BY <1>2 DEF TargetLis
  <2>3. state_table[t[1]][a] \in MergedStates
    BY <1>3, <1>7
  <2> QED
    BY <1>1, <1>7, <2>1, <2>2, <2>3 DEF MergedStates, NO_STATE
<1>10. TuplesFollowComponents
  <2>1. Len(queue) = 0 /\ Len(mapping_queue) = 0
    BY <1>1
  <2> QED
    BY <1>7, <1>8, <1>9, <2>1 DEF TuplesFollowComponents
<1>11. \A s \in MergedStates : \E t \in Tuples : t[1] = s
  <2>1. ASSUME NEW s \in MergedStates PROVE [j \in Positions |-> s] \in single
    BY <1>3
  <2> QED
    BY <1>2, <1>5, <2>1
<1>12. StatesHaveTuples
  BY <1>1, <1>6, <1>7, <1>11 DEF StatesHaveTuples
<1>13. RowsWritten
  <2>1. \A s \in MergedStates, a \in Symbols : state_table[s][a] # NO_STATE
    BY <1>3 DEF MergedStates, NO_STATE
  <2> QED
    BY <1>1, <2>1 DEF RowsWritten
<1>14. \A t \in Tuples : AcceptsOf(t) = front.accepted[t[1]]
  BY <1>2 DEF AcceptsOf
<1>15. RulesFollow
  BY <1>1, <1>7, <1>14 DEF RulesFollow
<1>16. \A t \in Tuples : BorderOf(t) = BorderAt(border, t[1])
  <2>1. ASSUME NEW t \in Tuples, t[1] \in DOMAIN border
        PROVE  BorderOf(t) = BorderAt(border, t[1])
    <3>1. {h \in Positions : t[h] \in DOMAIN tomerge_lis[h].border} = {1}
      BY <1>1, <1>2, <2>1
    <3> QED
      BY <1>1, <2>1, <3>1 DEF BorderOf, BorderAt
  <2>2. ASSUME NEW t \in Tuples, t[1] \notin DOMAIN border
        PROVE  BorderOf(t) = BorderAt(border, t[1])
    <3>1. {h \in Positions : t[h] \in DOMAIN tomerge_lis[h].border} = {}
      BY <1>1, <1>2, <2>2
    <3> QED
      BY <1>1, <2>2, <3>1 DEF BorderOf, BorderAt
  <2> QED
    BY <2>1, <2>2
<1>17. BordersFollow
  BY <1>7, <1>16 DEF BordersFollow
<1>18. DeadFollows
  <2>1. DeadLis[1] = dead_state
    BY <1>1, <1>2 DEF DeadLis
  <2> QED
    BY <1>7, <2>1 DEF DeadFollows
<1> QED
  BY <1>1, <1>10, <1>12, <1>13, <1>15, <1>17, <1>18 DEF IInv

(* Of more DFAs the start state is created.                                *)
LEMMA InitOfMore ==
  ASSUME Init, Len(tomerge_lis) # 1
  PROVE  IInv
<1>1. /\ tomerge_lis \in Merges
      /\ pc = "loop"
      /\ mapProcessed = [t \in {StartLis} |-> 0]
      /\ size = 1
      /\ state_table = [s \in {0} |-> EmptyRow]
      /\ accepted_rules = [s \in {0} |-> AcceptsOf(StartLis)]
      /\ dead_state = NO_STATE
      /\ border = [s \in {} |-> {}]
      /\ queue = <<0>> /\ mapping_queue = <<StartLis>>
      /\ currentState = NO_STATE /\ currentLis = StartLis /\ c = 0
  BY DEF Init
<1>2. StartLis \in Tuples /\ AcceptsOf(StartLis) \in SUBSET Rules
  BY <1>1, StartType, AcceptsType
<1>3. MergedStates = {0}
  BY <1>1 DEF MergedStates
<1>4. /\ DOMAIN mapProcessed = {StartLis}
      /\ \A t \in DOMAIN mapProcessed : t = StartLis /\ mapProcessed[t] = 0
      /\ \A a \in Symbols : state_table[0][a] = NO_STATE
      /\ accepted_rules[0] = AcceptsOf(StartLis)
  BY <1>1 DEF EmptyRow
<1>5. /\ Len(queue) = 1 /\ Len(mapping_queue) = 1
      /\ queue[1] = 0 /\ mapping_queue[1] = StartLis
      /\ Waits(queue, 0)
  BY <1>1 DEF Waits
<1>6. TypeOK
  <2>1. 0 \in 0 .. CSIZE
    BY AlphabetAssumption
  <2>2. EmptyRow \in [Symbols -> {0} \cup {NO_STATE}]
    BY DEF EmptyRow
  <2>3. queue \in Seq({0}) /\ mapping_queue \in Seq(Tuples)
    BY <1>1, <1>2
  <2> QED
    BY <1>1, <1>2, <1>3, <2>1, <2>2, <2>3 DEF TypeOK
<1>7. TuplesFollowComponents
  BY <1>4, <1>5, <1>6 DEF TuplesFollowComponents
<1>8. StatesHaveTuples
  BY <1>1, <1>3, <1>4 DEF StatesHaveTuples
<1>9. RowsWritten
  BY <1>1, <1>3, <1>5 DEF RowsWritten
<1>10. RulesFollow
  BY <1>4 DEF RulesFollow
<1>11. BordersFollow
  BY SMTT(20), <1>1, <1>4 DEF BordersFollow, BorderAt
<1>12. DeadFollows
  BY <1>1, <1>4 DEF DeadFollows
<1> QED
  BY <1>1, <1>7, <1>8, <1>9, <1>10, <1>11, <1>12 DEF IInv

(* The invariant holds when the merge begins, whether of one DFA or of more. *)
LEMMA InitIInv == Init => IInv
BY InitOfOne, InitOfMore

-----------------------------------------------------------------------------
(* The state being processed is the state of the tuple being processed.    *)
LEMMA Processing ==
  ASSUME IInv, pc = "chars"
  PROVE  /\ currentLis \in DOMAIN mapProcessed
         /\ currentLis \in Tuples
         /\ mapProcessed[currentLis] = currentState
         /\ currentState \in MergedStates
BY DEF IInv, StatesHaveTuples, TuplesFollowComponents, TypeOK

(* The segment that starts at c.                                           *)
LEMMA SegmentFacts ==
  ASSUME IInv, pc = "chars", c < CSIZE
  PROVE  /\ c \in Symbols
         /\ Upper \in 0 .. CSIZE
         /\ \A a \in Symbols : a < Upper <=> a < c \/ a \in c .. c + SegmentLen(currentLis, c)
         /\ \A a \in c .. c + SegmentLen(currentLis, c) :
              a \in Symbols /\ TargetLis(currentLis, a) = TargetLis(currentLis, c)
<1>1. CSIZE \in Nat \ {0} /\ c \in 0 .. CSIZE
  BY AlphabetAssumption DEF IInv, TuplesFollowComponents, TypeOK
<1>2. c \in Symbols
  BY <1>1 DEF Symbols
<1>3. /\ SegmentLen(currentLis, c) \in 0 .. CSIZE - 1 - c
      /\ \A b \in c .. c + SegmentLen(currentLis, c) :
           TargetLis(currentLis, b) = TargetLis(currentLis, c)
  BY <1>2, SegmentMovesTogether DEF IInv
<1> QED
  BY <1>1, <1>2, <1>3 DEF Symbols, Upper

(* The tuple the DFAs move to from the tuple being processed.              *)
LEMMA TargetFacts ==
  ASSUME IInv, pc = "chars", c < CSIZE
  PROVE  TargetLis(currentLis, c) \in Tuples
BY Processing, SegmentFacts, TargetType DEF IInv

-----------------------------------------------------------------------------
(* Taking a state and its tuple from the two queues keeps the invariant. *)
LEMMA DequeueIInv == ASSUME IInv, Dequeue PROVE IInv'
<1> USE DEF IInv
<1> DEFINE s == Head(queue)
           t == Head(mapping_queue)
<1>1. /\ UNCHANGED <<tomerge_lis, mapProcessed, size, state_table, dead_state, border>>
      /\ currentState' = s /\ currentLis' = t
      /\ queue' = Tail(queue) /\ mapping_queue' = Tail(mapping_queue)
      /\ accepted_rules' = [accepted_rules EXCEPT ![s] = accepted_rules[s] \cup AcceptsOf(t)]
      /\ c' = 0 /\ pc = "loop" /\ pc' = "chars" /\ queue # <<>>
  BY DEF Dequeue
<1>2. /\ TypeOK
      /\ queue \in Seq(MergedStates) /\ mapping_queue \in Seq(Tuples)
      /\ Len(mapping_queue) = Len(queue)
  BY DEF TuplesFollowComponents, TypeOK
<1>3. /\ Len(queue) \in Nat /\ Len(queue) > 0
      /\ s = queue[1] /\ t = mapping_queue[1]
      /\ s \in MergedStates /\ t \in Tuples
      /\ queue' \in Seq(MergedStates) /\ mapping_queue' \in Seq(Tuples)
      /\ Len(queue') = Len(queue) - 1 /\ Len(mapping_queue') = Len(queue) - 1
      /\ \A n \in 1 .. Len(queue') :
           queue'[n] = queue[n + 1] /\ mapping_queue'[n] = mapping_queue[n + 1]
  BY <1>1, <1>2
<1>4. t \in DOMAIN mapProcessed /\ mapProcessed[t] = s
  <2>1. 1 \in 1 .. Len(queue)
    BY <1>3
  <2> QED
    BY <1>3, <2>1 DEF TuplesFollowComponents
<1>5. Positions' = Positions /\ Tuples' = Tuples /\ MergedStates' = MergedStates
  BY <1>1 DEF Positions, Tuples, MergedStates
<1>6. /\ \A u : AcceptsOf(u)' = AcceptsOf(u) /\ BorderOf(u)' = BorderOf(u)
      /\ \A u, a : TargetLis(u, a)' = TargetLis(u, a)
      /\ StartLis' = StartLis /\ DeadLis' = DeadLis
      /\ \A r : BorderAt(border', r) = BorderAt(border, r)
  BY <1>1, <1>5 DEF AcceptsOf, BorderOf, TargetLis, StartLis, DeadLis, BorderAt
<1>7. \A r \in MergedStates : Waits(queue, r) => Waits(queue', r) \/ r = s
  <2>1. ASSUME NEW r \in MergedStates, NEW n \in 1 .. Len(queue), queue[n] = r, r # s
        PROVE  \E m \in 1 .. Len(queue') : queue'[m] = r
    <3>1. n - 1 \in 1 .. Len(queue') /\ n - 1 + 1 = n
      BY <1>3, <2>1
    <3> QED
      BY <1>3, <2>1, <3>1
  <2> QED
    BY <2>1 DEF Waits
<1>8. accepted_rules' \in [MergedStates -> SUBSET Rules]
  <2>1. AcceptsOf(t) \in SUBSET Rules
    BY <1>3, AcceptsType
  <2> QED
    BY <1>1, <1>2, <1>3, <2>1 DEF TypeOK
<1>9. TypeOK'
  <2>1. 0 \in 0 .. CSIZE
    BY AlphabetAssumption
  <2> QED
    BY <1>1, <1>2, <1>3, <1>5, <1>8, <2>1 DEF TypeOK
<1>10. TuplesFollowComponents'
  <2>1. ASSUME NEW n \in 1 .. Len(queue')
        PROVE  /\ mapping_queue'[n] \in DOMAIN mapProcessed
               /\ mapProcessed[mapping_queue'[n]] = queue'[n]
    <3>1. n + 1 \in 1 .. Len(queue)
      BY <1>3
    <3>2. /\ mapping_queue[n + 1] \in DOMAIN mapProcessed
          /\ mapProcessed[mapping_queue[n + 1]] = queue[n + 1]
      BY <3>1 DEF TuplesFollowComponents
    <3>3. queue'[n] = queue[n + 1] /\ mapping_queue'[n] = mapping_queue[n + 1]
      BY <1>3
    <3> QED
      BY <3>2, <3>3
  <2> QED
    BY <1>1, <1>3, <1>6, <1>9, <2>1 DEF TuplesFollowComponents
<1>11. StatesHaveTuples'
  BY <1>1, <1>4, <1>5, <1>6 DEF StatesHaveTuples
<1>12. RowsWritten'
  <2>1. \A a \in Symbols : ~ (a < 0)
    BY AlphabetAssumption DEF Symbols
  <2> QED
    BY <1>1, <1>5, <1>7, <2>1 DEF RowsWritten
<1>13. RulesFollow'
  <2>1. ASSUME NEW u \in DOMAIN mapProcessed
        PROVE  /\ accepted_rules'[mapProcessed[u]] \subseteq AcceptsOf(u)
               /\ ~ Waits(queue', mapProcessed[u]) => accepted_rules'[mapProcessed[u]] = AcceptsOf(u)
    <3>1. mapProcessed[u] \in MergedStates
      BY <1>2 DEF TypeOK
    <3>2. CASE mapProcessed[u] = s
      <4>1. u = t
        BY <1>4, <3>2 DEF TuplesFollowComponents
      <4>2. accepted_rules[s] \subseteq AcceptsOf(t)
        BY <1>4 DEF RulesFollow
      <4>3. accepted_rules'[s] = AcceptsOf(t)
        BY <1>1, <1>2, <1>3, <4>2 DEF TypeOK
      <4> QED
        BY <3>2, <4>1, <4>3
    <3>3. CASE mapProcessed[u] # s
      <4>1. accepted_rules'[mapProcessed[u]] = accepted_rules[mapProcessed[u]]
        BY <1>1, <1>2, <3>1, <3>3 DEF TypeOK
      <4>2. Waits(queue, mapProcessed[u]) => Waits(queue', mapProcessed[u])
        BY <1>1, <1>7, <3>1, <3>3 DEF Waits
      <4> QED
        BY <4>1, <4>2 DEF RulesFollow
    <3> QED
      BY <3>2, <3>3
  <2> QED
    BY <1>1, <1>6, <2>1 DEF RulesFollow
<1>14. BordersFollow'
  BY <1>1, <1>6 DEF BordersFollow
<1>15. DeadFollows'
  BY <1>1, <1>6 DEF DeadFollows
<1> QED
  BY <1>1, <1>10, <1>11, <1>12, <1>13, <1>14, <1>15

(* Steps that only move between the loops disturb nothing: at the end of a *)
(* row all of it is written.                                               *)
LEMMA ControlIInv == ASSUME IInv, EndOfState \/ Return PROVE IInv'
<1> USE DEF IInv
<1>1. UNCHANGED <<tomerge_lis, mapProcessed, size, state_table, accepted_rules,
                  dead_state, border, queue, mapping_queue, currentState, currentLis, c>>
  BY DEF EndOfState, Return
<1>2. /\ pc' \in {"loop", "done"}
      /\ pc' = "done" => queue' = <<>>
  BY DEF EndOfState, Return
<1>3. Positions' = Positions /\ Tuples' = Tuples /\ MergedStates' = MergedStates
  BY <1>1 DEF Positions, Tuples, MergedStates
<1>4. /\ \A u : AcceptsOf(u)' = AcceptsOf(u) /\ BorderOf(u)' = BorderOf(u)
      /\ \A u, a : TargetLis(u, a)' = TargetLis(u, a)
      /\ StartLis' = StartLis /\ DeadLis' = DeadLis
      /\ \A r : BorderAt(border', r) = BorderAt(border, r) /\ Waits(queue', r) = Waits(queue, r)
  BY <1>1, <1>3 DEF AcceptsOf, BorderOf, TargetLis, StartLis, DeadLis, BorderAt, Waits
<1>5. TypeOK'
  BY <1>1, <1>2, <1>3 DEF TuplesFollowComponents, TypeOK
<1>6. TuplesFollowComponents'
  BY <1>1, <1>4, <1>5 DEF TuplesFollowComponents
<1>7. StatesHaveTuples'
  BY <1>1, <1>2, <1>3, <1>4 DEF StatesHaveTuples
<1>8. RowsWritten'
  <2>1. ASSUME pc = "chars", NEW a \in Symbols
        PROVE  state_table[currentState][a] # NO_STATE
    <3>1. c = CSIZE
      BY <2>1 DEF EndOfState, Return
    <3>2. a < c
      BY <3>1, AlphabetAssumption DEF Symbols
    <3> QED
      BY <2>1, <3>2 DEF RowsWritten
  <2>2. \A s \in MergedStates, a \in Symbols : ~ Waits(queue, s) => state_table[s][a] # NO_STATE
    BY <2>1 DEF RowsWritten
  <2> QED
    BY <1>1, <1>2, <1>3, <1>4, <2>2 DEF RowsWritten
<1>9. RulesFollow' /\ BordersFollow' /\ DeadFollows'
  BY <1>1, <1>4 DEF RulesFollow, BordersFollow, DeadFollows
<1> QED
  BY <1>1, <1>6, <1>7, <1>8, <1>9

(* A segment that leads to a known tuple keeps the invariant. *)
LEMMA FollowKnownIInv == ASSUME IInv, FollowKnown PROVE IInv'
<1> USE DEF IInv
<1> DEFINE target == TargetLis(currentLis, c)
           segment == c .. c + SegmentLen(currentLis, c)
           row == RowOver(state_table[currentState], mapProcessed[target])
<1>1. /\ UNCHANGED <<tomerge_lis, pc, mapProcessed, size, accepted_rules, dead_state,
                     border, queue, mapping_queue, currentState, currentLis>>
      /\ pc = "chars" /\ c < CSIZE /\ target \in DOMAIN mapProcessed
      /\ state_table' = [state_table EXCEPT ![currentState] = row]
      /\ c' = Upper
  BY DEF FollowKnown
<1>2. TypeOK
  BY DEF TuplesFollowComponents
<1>3. /\ currentLis \in DOMAIN mapProcessed
      /\ mapProcessed[currentLis] = currentState
      /\ currentState \in MergedStates
  BY <1>1, Processing
<1>4. /\ Upper \in 0 .. CSIZE
      /\ \A a \in Symbols : a < Upper <=> a < c \/ a \in segment
      /\ \A a \in segment : a \in Symbols /\ TargetLis(currentLis, a) = target
  BY <1>1, SegmentFacts
<1>5. mapProcessed[target] \in MergedStates
  BY <1>1, <1>2 DEF TypeOK
<1>6. mapProcessed[target] # NO_STATE
  BY <1>2, <1>5 DEF TypeOK, MergedStates, NO_STATE
<1>7. /\ row \in [Symbols -> MergedStates \cup {NO_STATE}]
      /\ \A a \in Symbols :
           row[a] = IF a \in segment THEN mapProcessed[target] ELSE state_table[currentState][a]
  <2>1. state_table[currentState] \in [Symbols -> MergedStates \cup {NO_STATE}]
    BY <1>2, <1>3 DEF TypeOK
  <2> QED
    BY <1>5, <2>1 DEF RowOver
<1>8. /\ state_table' \in [MergedStates -> [Symbols -> MergedStates \cup {NO_STATE}]]
      /\ state_table'[currentState] = row
      /\ \A s \in MergedStates \ {currentState} : state_table'[s] = state_table[s]
  BY <1>1, <1>2, <1>3, <1>7 DEF TypeOK
<1> HIDE DEF target, segment, row
<1>9. Positions' = Positions /\ Tuples' = Tuples /\ MergedStates' = MergedStates
  BY <1>1 DEF Positions, Tuples, MergedStates
<1>10. /\ \A u : AcceptsOf(u)' = AcceptsOf(u) /\ BorderOf(u)' = BorderOf(u)
       /\ \A u, a : TargetLis(u, a)' = TargetLis(u, a)
       /\ StartLis' = StartLis /\ DeadLis' = DeadLis
       /\ \A r : BorderAt(border', r) = BorderAt(border, r) /\ Waits(queue', r) = Waits(queue, r)
  BY <1>1, <1>9 DEF AcceptsOf, BorderOf, TargetLis, StartLis, DeadLis, BorderAt, Waits
<1>11. TypeOK'
  BY <1>1, <1>2, <1>4, <1>8, <1>9 DEF TypeOK
<1>12. TuplesFollowComponents'
  <2>1. ASSUME NEW t \in DOMAIN mapProcessed, NEW a \in Symbols,
               state_table'[mapProcessed[t]][a] # NO_STATE
        PROVE  /\ TargetLis(t, a) \in DOMAIN mapProcessed
               /\ state_table'[mapProcessed[t]][a] = mapProcessed[TargetLis(t, a)]
    <3>1. mapProcessed[t] \in MergedStates
      BY <1>2 DEF TypeOK
    <3>2. CASE t = currentLis /\ a \in segment
      <4>1. TargetLis(t, a) = target
        BY <1>4, <3>2
      <4>2. state_table'[mapProcessed[t]][a] = mapProcessed[target]
        BY <1>3, <1>7, <1>8, <3>2
      <4> QED
        BY <1>1, <4>1, <4>2
    <3>3. CASE ~ (t = currentLis /\ a \in segment)
      <4>1. mapProcessed[t] = currentState => t = currentLis
        BY <1>3 DEF TuplesFollowComponents
      <4>2. state_table'[mapProcessed[t]][a] = state_table[mapProcessed[t]][a]
        BY <1>3, <1>7, <1>8, <3>1, <3>3, <4>1
      <4> QED
        BY <2>1, <4>2 DEF TuplesFollowComponents
    <3> QED
      BY <3>2, <3>3
  <2> QED
    BY <1>1, <1>10, <1>11, <2>1 DEF TuplesFollowComponents
<1>13. StatesHaveTuples'
  BY <1>1, <1>9, <1>10 DEF StatesHaveTuples
<1>14. RowsWritten'
  <2>1. ASSUME NEW s \in MergedStates, NEW a \in Symbols, ~ Waits(queue, s), s # currentState
        PROVE  state_table'[s][a] # NO_STATE
    BY <1>8, <2>1 DEF RowsWritten
  <2>2. ASSUME NEW a \in Symbols, a < Upper
        PROVE  state_table'[currentState][a] # NO_STATE
    <3>1. a < c \/ a \in segment
      BY <1>4, <2>2
    <3>2. a < c => state_table[currentState][a] # NO_STATE
      BY <1>1 DEF RowsWritten
    <3> QED
      BY <1>6, <1>7, <1>8, <3>1, <3>2
  <2> QED
    BY <1>1, <1>9, <1>10, <2>1, <2>2 DEF RowsWritten
<1>15. RulesFollow' /\ BordersFollow' /\ DeadFollows'
  BY <1>1, <1>10 DEF RulesFollow, BordersFollow, DeadFollows
<1> QED
  BY <1>1, <1>12, <1>13, <1>14, <1>15

(* A sequence over a set is a sequence over every larger set.              *)
LEMMA SeqMonotonic ==
  ASSUME NEW S, NEW T, S \subseteq T, NEW q \in Seq(S)
  PROVE  q \in Seq(T)
<1>1. q \in [1 .. Len(q) -> S] /\ Len(q) \in Nat
  OBVIOUS
<1>2. q \in [1 .. Len(q) -> T]
  BY <1>1
<1> QED
  BY <1>1, <1>2

(* A segment that leads to a new tuple keeps the invariant. *)
LEMMA CreateStateIInv == ASSUME IInv, CreateState PROVE IInv'
<1> USE DEF IInv
<1> DEFINE target == TargetLis(currentLis, c)
           segment == c .. c + SegmentLen(currentLis, c)
           row == RowOver(state_table[currentState], size)
<1>1. /\ UNCHANGED <<tomerge_lis, pc, currentState, currentLis>>
      /\ pc = "chars" /\ c < CSIZE /\ target \notin DOMAIN mapProcessed
      /\ mapProcessed' = [t \in DOMAIN mapProcessed \cup {target} |->
                            IF t = target THEN size ELSE mapProcessed[t]]
      /\ size' = size + 1
      /\ state_table' = [s \in 0 .. size |->
                           IF s = currentState THEN RowOver(state_table[s], size)
                           ELSE IF s = size THEN EmptyRow ELSE state_table[s]]
      /\ accepted_rules' = [s \in 0 .. size |->
                              IF s = size THEN {} ELSE accepted_rules[s]]
      /\ dead_state' = IF AllDead(target) THEN size ELSE dead_state
      /\ border' = IF BorderOf(target) = {} THEN border
                   ELSE [s \in DOMAIN border \cup {size} |->
                           IF s = size THEN BorderOf(target) ELSE border[s]]
      /\ queue' = Append(queue, size)
      /\ mapping_queue' = Append(mapping_queue, target)
      /\ c' = Upper
  BY DEF CreateState
<1>2. TypeOK
  BY DEF TuplesFollowComponents
<1>3. /\ currentLis \in DOMAIN mapProcessed
      /\ mapProcessed[currentLis] = currentState
      /\ currentState \in MergedStates
  BY <1>1, Processing
<1>4. /\ Upper \in 0 .. CSIZE
      /\ \A a \in Symbols : a < Upper <=> a < c \/ a \in segment
      /\ \A a \in segment : a \in Symbols /\ TargetLis(currentLis, a) = target
  BY <1>1, SegmentFacts
<1>5. target \in Tuples /\ BorderOf(target) \in SUBSET TailNfas
  BY <1>1, TargetFacts, BorderType
<1>6. /\ size \in Nat \ {0} /\ size' \in Nat \ {0}
      /\ MergedStates = 0 .. size - 1 /\ MergedStates' = 0 .. size
      /\ MergedStates' = MergedStates \cup {size}
      /\ size \notin MergedStates /\ size # NO_STATE /\ size # currentState
  <2>1. size \in Nat \ {0} /\ size' = size + 1
    BY <1>1, <1>2 DEF TypeOK
  <2>2. MergedStates = 0 .. size - 1 /\ MergedStates' = 0 .. size
    BY <2>1 DEF MergedStates
  <2> QED
    BY <1>3, <2>1, <2>2 DEF NO_STATE
<1>7. /\ DOMAIN mapProcessed' = DOMAIN mapProcessed \cup {target}
      /\ mapProcessed'[target] = size
      /\ \A t \in DOMAIN mapProcessed :
           /\ mapProcessed'[t] = mapProcessed[t]
           /\ mapProcessed[t] \in MergedStates
           /\ t # target
  BY <1>1, <1>2 DEF TypeOK
<1>8. /\ row \in [Symbols -> MergedStates' \cup {NO_STATE}]
      /\ \A a \in Symbols :
           row[a] = IF a \in segment THEN size ELSE state_table[currentState][a]
  <2>1. state_table[currentState] \in [Symbols -> MergedStates' \cup {NO_STATE}]
    BY <1>2, <1>3, <1>6 DEF TypeOK
  <2> QED
    BY <1>6, <2>1 DEF RowOver
<1>9. /\ state_table'[currentState] = row
      /\ state_table'[size] = EmptyRow
      /\ \A s \in MergedStates \ {currentState} : state_table'[s] = state_table[s]
  BY <1>1, <1>3, <1>6
<1>10. state_table' \in [MergedStates' -> [Symbols -> MergedStates' \cup {NO_STATE}]]
  <2>1. EmptyRow \in [Symbols -> MergedStates' \cup {NO_STATE}]
    BY DEF EmptyRow
  <2>2. \A s \in MergedStates : state_table[s] \in [Symbols -> MergedStates' \cup {NO_STATE}]
    BY <1>2, <1>6 DEF TypeOK
  <2> QED
    BY <1>1, <1>6, <1>8, <2>1, <2>2
<1>11. /\ accepted_rules' \in [MergedStates' -> SUBSET Rules]
       /\ accepted_rules'[size] = {}
       /\ \A s \in MergedStates : accepted_rules'[s] = accepted_rules[s]
  BY <1>1, <1>2, <1>6 DEF TypeOK
<1>12. /\ DOMAIN border' \subseteq MergedStates'
       /\ border' \in [DOMAIN border' -> SUBSET TailNfas]
       /\ BorderAt(border', size) = BorderOf(target)
       /\ \A s \in MergedStates : BorderAt(border', s) = BorderAt(border, s)
  <2>1. DOMAIN border \subseteq MergedStates /\ border \in [DOMAIN border -> SUBSET TailNfas]
    BY <1>2 DEF TypeOK
  <2> QED
    BY <1>1, <1>5, <1>6, <2>1 DEF BorderAt
<1>13. /\ queue' \in Seq(MergedStates') /\ mapping_queue' \in Seq(Tuples)
       /\ Len(queue) \in Nat /\ Len(mapping_queue) = Len(queue)
       /\ Len(queue') = Len(queue) + 1 /\ Len(mapping_queue') = Len(queue) + 1
       /\ \A n \in 1 .. Len(queue) :
            queue'[n] = queue[n] /\ mapping_queue'[n] = mapping_queue[n]
       /\ queue'[Len(queue) + 1] = size /\ mapping_queue'[Len(queue) + 1] = target
  <2>1. /\ queue \in Seq(MergedStates) /\ mapping_queue \in Seq(Tuples)
        /\ Len(mapping_queue) = Len(queue)
    BY <1>2 DEF TypeOK, TuplesFollowComponents
  <2>2. queue \in Seq(MergedStates') /\ size \in MergedStates'
    BY <1>6, <2>1, SeqMonotonic
  <2> QED
    BY <1>1, <1>5, <2>1, <2>2
<1>14. \A s \in MergedStates' : Waits(queue', s) <=> Waits(queue, s) \/ s = size
  BY <1>13 DEF Waits
<1> HIDE DEF target, segment, row
<1>15. Positions' = Positions /\ Tuples' = Tuples
  BY <1>1 DEF Positions, Tuples
<1>16. /\ \A u : AcceptsOf(u)' = AcceptsOf(u) /\ BorderOf(u)' = BorderOf(u)
       /\ \A u, a : TargetLis(u, a)' = TargetLis(u, a)
       /\ StartLis' = StartLis /\ DeadLis' = DeadLis
  BY <1>1, <1>15 DEF AcceptsOf, BorderOf, TargetLis, StartLis, DeadLis
<1>17. TypeOK'
  <2>1. dead_state' \in MergedStates' \cup {NO_STATE}
    BY <1>1, <1>2, <1>6 DEF TypeOK
  <2>2. mapProcessed' \in [DOMAIN mapProcessed' -> MergedStates']
    BY <1>1, <1>6, <1>7
  <2>3. DOMAIN mapProcessed' \subseteq Tuples
    BY <1>2, <1>5, <1>7 DEF TypeOK
  <2> QED
    BY <1>1, <1>2, <1>4, <1>6, <1>10, <1>11, <1>12, <1>13, <1>15, <2>1, <2>2, <2>3 DEF TypeOK
<1>18. TuplesFollowComponents'
  <2>1. \A t, u \in DOMAIN mapProcessed' : mapProcessed'[t] = mapProcessed'[u] => t = u
    BY <1>6, <1>7 DEF TuplesFollowComponents
  <2>2. ASSUME NEW t \in DOMAIN mapProcessed', NEW a \in Symbols,
               state_table'[mapProcessed'[t]][a] # NO_STATE
        PROVE  /\ TargetLis(t, a) \in DOMAIN mapProcessed'
               /\ state_table'[mapProcessed'[t]][a] = mapProcessed'[TargetLis(t, a)]
    <3>1. CASE t = target
      BY <1>7, <1>9, <2>2, <3>1 DEF EmptyRow
    <3>2. CASE t = currentLis /\ a \in segment
      <4>1. TargetLis(t, a) = target
        BY <1>4, <3>2
      <4>2. state_table'[mapProcessed'[t]][a] = size
        BY <1>3, <1>7, <1>8, <1>9, <3>2
      <4> QED
        BY <1>7, <4>1, <4>2
    <3>3. CASE t # target /\ ~ (t = currentLis /\ a \in segment)
      <4>1. /\ t \in DOMAIN mapProcessed /\ mapProcessed'[t] = mapProcessed[t]
            /\ mapProcessed[t] \in MergedStates
        BY <1>7, <3>3
      <4>2. mapProcessed[t] = currentState => t = currentLis
        BY <1>3, <4>1 DEF TuplesFollowComponents
      <4>3. state_table'[mapProcessed[t]][a] = state_table[mapProcessed[t]][a]
        BY <1>3, <1>8, <1>9, <3>3, <4>1, <4>2
      <4>4. /\ TargetLis(t, a) \in DOMAIN mapProcessed
            /\ state_table[mapProcessed[t]][a] = mapProcessed[TargetLis(t, a)]
        BY <2>2, <4>1, <4>3 DEF TuplesFollowComponents
      <4> QED
        BY <1>7, <4>1, <4>3, <4>4
    <3> QED
      BY <3>1, <3>2, <3>3
  <2>3. ASSUME NEW n \in 1 .. Len(queue')
        PROVE  /\ mapping_queue'[n] \in DOMAIN mapProcessed'
               /\ mapProcessed'[mapping_queue'[n]] = queue'[n]
    <3>1. CASE n \in 1 .. Len(queue)
      <4>1. /\ mapping_queue[n] \in DOMAIN mapProcessed
            /\ mapProcessed[mapping_queue[n]] = queue[n]
        BY <3>1 DEF TuplesFollowComponents
      <4> QED
        BY <1>7, <1>13, <3>1, <4>1
    <3>2. CASE n = Len(queue) + 1
      BY <1>7, <1>13, <3>2
    <3> QED
      BY <1>13, <3>1, <3>2
  <2>4. Len(queue') = Len(mapping_queue')
    BY <1>13
  <2> QED
    BY <1>16, <1>17, <2>1, <2>2, <2>3, <2>4 DEF TuplesFollowComponents
<1>19. StatesHaveTuples'
  <2>1. /\ StartLis \in DOMAIN mapProcessed' /\ mapProcessed'[StartLis] = 0
        /\ currentLis \in DOMAIN mapProcessed' /\ mapProcessed'[currentLis] = currentState
    BY <1>3, <1>7 DEF StatesHaveTuples
  <2>2. ASSUME NEW s \in MergedStates'
        PROVE  \E t \in DOMAIN mapProcessed' : mapProcessed'[t] = s
    BY <1>6, <1>7 DEF StatesHaveTuples
  <2> QED
    BY <1>1, <1>16, <2>1, <2>2 DEF StatesHaveTuples
<1>20. RowsWritten'
  <2>1. ASSUME NEW s \in MergedStates', NEW a \in Symbols, ~ Waits(queue', s), s # currentState
        PROVE  state_table'[s][a] # NO_STATE
    <3>1. s \in MergedStates /\ ~ Waits(queue, s)
      BY <1>6, <1>14, <2>1
    <3> QED
      BY <1>9, <2>1, <3>1 DEF RowsWritten
  <2>2. ASSUME NEW a \in Symbols, a < Upper
        PROVE  state_table'[currentState][a] # NO_STATE
    <3>1. a < c \/ a \in segment
      BY <1>4, <2>2
    <3>2. a < c => state_table[currentState][a] # NO_STATE
      BY <1>1 DEF RowsWritten
    <3> QED
      BY <1>6, <1>8, <1>9, <3>1, <3>2
  <2> QED
    BY <1>1, <2>1, <2>2 DEF RowsWritten
<1>21. RulesFollow'
  <2>1. ASSUME NEW t \in DOMAIN mapProcessed'
        PROVE  /\ accepted_rules'[mapProcessed'[t]] \subseteq AcceptsOf(t)
               /\ ~ Waits(queue', mapProcessed'[t]) =>
                    accepted_rules'[mapProcessed'[t]] = AcceptsOf(t)
    <3>1. CASE t = target
      BY <1>6, <1>7, <1>11, <1>14, <3>1
    <3>2. CASE t # target
      <4>1. /\ t \in DOMAIN mapProcessed /\ mapProcessed'[t] = mapProcessed[t]
            /\ mapProcessed[t] \in MergedStates /\ mapProcessed[t] \in MergedStates'
        BY <1>6, <1>7, <3>2
      <4> QED
        BY <1>11, <1>14, <4>1 DEF RulesFollow
    <3> QED
      BY <3>1, <3>2
  <2> QED
    BY <1>16, <2>1 DEF RulesFollow
<1>22. StartLis # target
  BY <1>7 DEF StatesHaveTuples
<1>23. BordersFollow'
  <2>1. ASSUME NEW t \in DOMAIN mapProcessed'
        PROVE  BorderAt(border', mapProcessed'[t]) =
                 IF t = StartLis /\ Len(tomerge_lis) > 1 THEN {} ELSE BorderOf(t)
    <3>1. CASE t = target
      BY <1>7, <1>12, <1>22, <3>1
    <3>2. CASE t # target
      BY <1>7, <1>12, <3>2 DEF BordersFollow
    <3> QED
      BY <3>1, <3>2
  <2> QED
    BY <1>1, <1>16, <2>1 DEF BordersFollow
<1>24. DeadFollows'
  <2>1. AllDead(target) <=> target = DeadLis
    BY <1>5, TupleElim DEF AllDead, DeadLis
  <2>2. DeadLis # target => (DeadLis \in DOMAIN mapProcessed' <=> DeadLis \in DOMAIN mapProcessed)
    BY <1>7
  <2> QED
    BY <1>1, <1>7, <1>16, <1>22, <2>1, <2>2 DEF DeadFollows
<1> QED
  BY <1>1, <1>18, <1>19, <1>20, <1>21, <1>23, <1>24

(* The invariant is inductive. *)
LEMMA NextIInv == IInv /\ [Next]_vars => IInv'
<1> SUFFICES ASSUME IInv, [Next]_vars PROVE IInv'
  OBVIOUS
<1>1. CASE UNCHANGED vars
  <2>1. UNCHANGED <<tomerge_lis, pc, mapProcessed, size, state_table, accepted_rules,
                    dead_state, border, queue, mapping_queue, currentState, currentLis, c>>
    BY <1>1 DEF vars
  <2>2. Positions' = Positions /\ Tuples' = Tuples /\ MergedStates' = MergedStates
    BY <2>1 DEF Positions, Tuples, MergedStates
  <2>3. /\ \A u : AcceptsOf(u)' = AcceptsOf(u) /\ BorderOf(u)' = BorderOf(u)
        /\ \A u, a : TargetLis(u, a)' = TargetLis(u, a)
        /\ StartLis' = StartLis /\ DeadLis' = DeadLis
    BY <2>1, <2>2 DEF AcceptsOf, BorderOf, TargetLis, StartLis, DeadLis
  <2>4. TuplesFollowComponents'
    BY <2>1, <2>2, <2>3 DEF IInv, TuplesFollowComponents, TypeOK
  <2>5. StatesHaveTuples' /\ RowsWritten'
    BY <2>1, <2>2, <2>3 DEF IInv, StatesHaveTuples, RowsWritten
  <2>6. RulesFollow' /\ BordersFollow' /\ DeadFollows'
    BY <2>1, <2>3 DEF IInv, RulesFollow, BordersFollow, DeadFollows
  <2> QED
    BY <2>1, <2>4, <2>5, <2>6 DEF IInv
<1> QED
  BY <1>1, DequeueIInv, FollowKnownIInv, CreateStateIInv, ControlIInv DEF Next

-----------------------------------------------------------------------------
(* The invariant holds in every state of dfas_merge_improve.               *)
THEOREM Inductive == Spec => []IInv
BY InitIInv, NextIInv, PTL DEF Spec

(* The arrays of the merged DFA have a row for each state, and no segment  *)
(* passes the end of its row, for every alphabet and list.                 *)
THEOREM TypeCorrect == Spec => []TypeOK
<1>1. IInv => TypeOK
  BY DEF IInv, TuplesFollowComponents
<1> QED
  BY <1>1, Inductive, PTL

(* Writing the transitions of a segment at once never writes one that the  *)
(* DFAs do not make, and a state waits next to its own tuple.              *)
THEOREM TransitionsFollow == Spec => []TuplesFollowComponents
BY Inductive, PTL DEF IInv

-----------------------------------------------------------------------------
(* A merged DFA that is returned has every transition.                     *)
LEMMA ResultIsComplete ==
  ASSUME IInv, pc = "done"
  PROVE  /\ \A s \in MergedStates, a \in Symbols : state_table[s][a] # NO_STATE
         /\ \A s : ~ Waits(queue, s)
         /\ StatesOf(Result) = MergedStates
         /\ Result.table \in [StatesOf(Result) -> [Symbols -> StatesOf(Result)]]
<1>1. \A s : ~ Waits(queue, s)
  <2>1. queue = <<>> /\ Len(<<>>) = 0
    BY DEF IInv, RowsWritten
  <2> QED
    BY <2>1 DEF Waits
<1>2. \A s \in MergedStates, a \in Symbols : state_table[s][a] # NO_STATE
  BY <1>1 DEF IInv, RowsWritten
<1>3. Result.table = state_table /\ StatesOf(Result) = MergedStates
  BY DEF Result, StatesOf, MergedStates
<1>4. state_table \in [MergedStates -> [Symbols -> MergedStates]]
  BY <1>2 DEF IInv, TuplesFollowComponents, TypeOK
<1> QED
  BY <1>1, <1>2, <1>3, <1>4

(* After the word w the merged DFA is in the state of the tuple of the     *)
(* states the DFAs are in.                                                 *)
LEMMA RunFollowsComponents ==
  ASSUME IInv, pc = "done", NEW CONSTANT w \in Seq(Symbols),
         NEW u, u = [j \in Positions |-> RunFrom(tomerge_lis[j], 0, w)]
  PROVE  u \in DOMAIN mapProcessed /\ RunFrom(Result, 0, w) = mapProcessed[u]
<1> DEFINE n == Len(w)
           IsRunOf(j, at) == /\ IsRun(tomerge_lis[j], 0, w, at)
                             /\ RunFrom(tomerge_lis[j], 0, w) = at[n]
           run == [j \in Positions |-> CHOOSE at : IsRunOf(j, at)]
           tuple(m) == [j \in Positions |-> run[j][m]]
<1>1. \A j \in Positions : IsRunOf(j, run[j])
  <2>1. ASSUME NEW j \in Positions PROVE \E at : IsRunOf(j, at)
    <3>1. /\ tomerge_lis[j].table
               \in [StatesOf(tomerge_lis[j]) -> [Symbols -> StatesOf(tomerge_lis[j])]]
          /\ tomerge_lis[j].size \in Nat \ {0}
      BY ListFacts DEF IInv, IsDfa
    <3>2. 0 \in StatesOf(tomerge_lis[j])
      BY <3>1 DEF StatesOf
    <3> QED
      BY <3>1, <3>2, RunFromIsRun
  <2> HIDE DEF IsRunOf
  <2> QED
    BY <2>1
<1> HIDE DEF run
<1>2. /\ \A j \in Positions : run[j][0] = 0
      /\ \A j \in Positions, m \in 1 .. n :
           run[j][m] = tomerge_lis[j].table[run[j][m - 1]][w[m]]
  BY <1>1 DEF IsRun
<1>3. 0 \in StatesOf(Result)
  BY ResultIsComplete DEF IInv, TuplesFollowComponents, TypeOK, MergedStates
<1>4. PICK at : IsRun(Result, 0, w, at) /\ RunFrom(Result, 0, w) = at[n]
  BY <1>3, ResultIsComplete, RunFromIsRun
<1>5. /\ at[0] = 0
      /\ \A m \in 1 .. n : at[m] = state_table[at[m - 1]][w[m]]
  BY <1>4 DEF IsRun, Result
<1>6. n \in Nat /\ \A m \in 1 .. n : w[m] \in Symbols /\ m - 1 \in 0 .. n
  OBVIOUS
<1> HIDE DEF n
<1> DEFINE Off == {m \in 0 .. n :
                     ~ (tuple(m) \in DOMAIN mapProcessed /\ at[m] = mapProcessed[tuple(m)])}
<1>7. Off = {}
  <2>1. SUFFICES ASSUME Off # {} PROVE FALSE
    OBVIOUS
  <2>2. PICK m \in Off : \A l \in Off : m <= l
    <3>1. Off \in SUBSET Nat
      BY <1>6
    <3> HIDE DEF Off
    <3> QED
      BY <2>1, <3>1, LeastNumber
  <2>3. m # 0
    <3>1. tuple(0) = StartLis
      BY <1>2 DEF StartLis
    <3>2. tuple(0) \in DOMAIN mapProcessed /\ at[0] = mapProcessed[tuple(0)]
      BY <1>5, <3>1 DEF IInv, StatesHaveTuples
    <3> QED
      BY <2>2, <3>2
  <2>4. m \in 1 .. n /\ m - 1 \in 0 .. n /\ ~ (m <= m - 1)
    BY <1>6, <2>2, <2>3
  <2>5. m - 1 \notin Off
    BY <2>2, <2>4
  <2> DEFINE before == tuple(m - 1)
  <2>6. before \in DOMAIN mapProcessed /\ at[m - 1] = mapProcessed[before]
    BY <2>4, <2>5
  <2>7. tuple(m) = TargetLis(before, w[m])
    BY <1>2, <2>4 DEF TargetLis
  <2> HIDE DEF before
  <2>8. at[m] = state_table[mapProcessed[before]][w[m]] /\ w[m] \in Symbols
    BY <1>5, <1>6, <2>4, <2>6
  <2>9. mapProcessed[before] \in MergedStates
    BY <2>6 DEF IInv, TuplesFollowComponents, TypeOK
  <2>10. state_table[mapProcessed[before]][w[m]] # NO_STATE
    BY <2>8, <2>9, ResultIsComplete
  <2>11. /\ TargetLis(before, w[m]) \in DOMAIN mapProcessed
         /\ state_table[mapProcessed[before]][w[m]] = mapProcessed[TargetLis(before, w[m])]
    BY <2>6, <2>8, <2>10 DEF IInv, TuplesFollowComponents
  <2> QED
    BY <2>2, <2>7, <2>8, <2>11
<1>8. n \notin Off /\ n \in 0 .. n
  <2>1. n \in 0 .. n
    BY <1>6
  <2>2. n \notin Off
    <3> HIDE DEF Off
    <3> QED
      BY <1>7
  <2> QED
    BY <2>1, <2>2
<1>9. tuple(n) = u
  BY <1>1
<1> QED
  BY <1>4, <1>8, <1>9

(* A finished merge reports the rules of its DFAs, for one word. *)
LEMMA ReportsAfterEveryWord ==
  ASSUME IInv, pc = "done", NEW CONSTANT w \in Seq(Symbols)
  PROVE  ReportsEveryRule(w)
<1> DEFINE u == [j \in Positions |-> RunFrom(tomerge_lis[j], 0, w)]
<1>1. u \in DOMAIN mapProcessed /\ RunFrom(Result, 0, w) = mapProcessed[u]
  BY RunFollowsComponents
<1>2. accepted_rules[mapProcessed[u]] = AcceptsOf(u)
  <2> HIDE DEF u
  <2> QED
    BY <1>1, ResultIsComplete DEF IInv, RulesFollow
<1>3. AcceptsOf(u)
        = UNION {tomerge_lis[j].accepted[RunFrom(tomerge_lis[j], 0, w)] : j \in Positions}
  BY DEF AcceptsOf
<1> HIDE DEF u
<1> QED
  BY <1>1, <1>2, <1>3 DEF ReportsEveryRule

(* A finished merge borders on the tails of its DFAs, for one word. *)
LEMMA InheritsAfterEveryWord ==
  ASSUME IInv, pc = "done", NEW CONSTANT w \in Seq(Symbols)
  PROVE  InheritsEveryBorder(w)
<1> DEFINE u == [j \in Positions |-> RunFrom(tomerge_lis[j], 0, w)]
           s == RunFrom(Result, 0, w)
           inherited == UNION {tomerge_lis[j].border[RunFrom(tomerge_lis[j], 0, w)] :
                          j \in {h \in Positions :
                                   RunFrom(tomerge_lis[h], 0, w)
                                     \in DOMAIN tomerge_lis[h].border}}
<1>1. u \in DOMAIN mapProcessed /\ s = mapProcessed[u]
  BY RunFollowsComponents
<1>2. BorderOf(u) = inherited
  <2>1. \A j \in Positions : u[j] = RunFrom(tomerge_lis[j], 0, w)
    OBVIOUS
  <2> HIDE DEF u
  <2> QED
    BY <2>1 DEF BorderOf
<1> HIDE DEF u
<1>3. s = 0 <=> u = StartLis
  BY <1>1 DEF IInv, StatesHaveTuples, TuplesFollowComponents
<1>4. BorderAt(border, s) =
        IF u = StartLis /\ Len(tomerge_lis) > 1 THEN {} ELSE BorderOf(u)
  BY <1>1 DEF IInv, BordersFollow
<1>5. (IF s \in DOMAIN border THEN border[s] ELSE {})
        = IF s = 0 /\ Len(tomerge_lis) > 1 THEN {} ELSE inherited
  BY <1>2, <1>3, <1>4 DEF BorderAt
<1> QED
  BY <1>5 DEF InheritsEveryBorder

(* The words TLC tries are words. *)
LEMMA ShortWords ==
  ASSUME NEW w \in Words(LongestWord)
  PROVE  w \in Seq(Symbols)
<1>1. PICK m \in 0 .. LongestWord : w \in [1 .. m -> Symbols]
  BY DEF Words
<1>2. m \in Nat
  BY MergeAssumption
<1> QED
  BY <1>1, <1>2

(* The merged DFA that dfas_merge_improve returns reports, after every     *)
(* word, what the DFAs of the list report between them.                    *)
THEOREM ReportsEveryRuleOfEveryWord ==
  Spec => [](pc = "done" => \A w \in Seq(Symbols) : ReportsEveryRule(w))
<1>1. IInv => (pc = "done" => \A w \in Seq(Symbols) : ReportsEveryRule(w))
  BY ReportsAfterEveryWord
<1> QED
  BY <1>1, Inductive, PTL

(* What TLC checks of the words up to a bound, for every bound.            *)
THEOREM ReportsShortWords == Spec => []ReportsEveryRuleOfShortWords
<1>1. IInv => ReportsEveryRuleOfShortWords
  BY ReportsAfterEveryWord, ShortWords DEF ReportsEveryRuleOfShortWords
<1> QED
  BY <1>1, Inductive, PTL

(* A hybrid automaton over the merged DFA continues, after every word, in  *)
(* the NFA states it would continue in over the DFAs of the list, but for  *)
(* the border of the entry state.                                          *)
THEOREM InheritsEveryBorderOfEveryWord ==
  Spec => [](pc = "done" => \A w \in Seq(Symbols) : InheritsEveryBorder(w))
<1>1. IInv => (pc = "done" => \A w \in Seq(Symbols) : InheritsEveryBorder(w))
  BY InheritsAfterEveryWord
<1> QED
  BY <1>1, Inductive, PTL

(* What TLC checks of the words up to a bound, for every bound.            *)
THEOREM InheritsShortWords == Spec => []InheritsEveryBorderOnShortWords
<1>1. IInv => InheritsEveryBorderOnShortWords
  BY InheritsAfterEveryWord, ShortWords DEF InheritsEveryBorderOnShortWords
<1> QED
  BY <1>1, Inductive, PTL

(* The dead_state of the merged DFA accepts nothing and is never left, for *)
(* every list whose dead states are so.                                    *)
THEOREM DeadStateIsDead == Spec => []DeadStateStaysDead
<1>1. ASSUME IInv, pc = "done", NEW d, d = DeadLis,
             \A j \in Positions : d[j] # NO_STATE => NoProgression(tomerge_lis[j], d[j]),
             d \in DOMAIN mapProcessed \ {StartLis}
      PROVE  dead_state = mapProcessed[d] /\ NoProgression(Result, dead_state)
  <2>1. dead_state = mapProcessed[d] /\ d \in Tuples /\ dead_state \in MergedStates
    BY <1>1 DEF IInv, DeadFollows, TuplesFollowComponents, TypeOK
  <2>2. ASSUME NEW j \in Positions
        PROVE  NoProgression(tomerge_lis[j], d[j])
    <3>1. d[j] \in StatesOf(tomerge_lis[j])
      BY <2>1, TupleElim
    <3>2. tomerge_lis[j].size \in Nat \ {0}
      BY <1>1, ListFacts DEF IInv, IsDfa
    <3>3. d[j] # NO_STATE
      BY <3>1, <3>2 DEF StatesOf, NO_STATE
    <3> QED
      BY <1>1, <3>3
  <2>3. AcceptsOf(d) = {}
    BY <2>2 DEF AcceptsOf, NoProgression
  <2>4. accepted_rules[dead_state] = {}
    BY <1>1, <2>1, <2>3 DEF IInv, RulesFollow
  <2>5. ASSUME NEW a \in Symbols PROVE state_table[dead_state][a] = dead_state
    <3>1. TargetLis(d, a) = [j \in Positions |-> d[j]]
      BY <2>2 DEF TargetLis, NoProgression
    <3>2. TargetLis(d, a) = d
      BY <2>1, <3>1, TupleElim
    <3>3. state_table[dead_state][a] # NO_STATE
      BY <1>1, <2>1, ResultIsComplete
    <3> QED
      BY <1>1, <2>1, <3>2, <3>3 DEF IInv, TuplesFollowComponents
  <2> QED
    BY <2>1, <2>4, <2>5 DEF NoProgression, Result
<1>2. ASSUME IInv, pc = "done", DeadLis \notin DOMAIN mapProcessed \ {StartLis}
      PROVE  Len(tomerge_lis) > 1 => dead_state = NO_STATE
  BY <1>2 DEF IInv, DeadFollows
<1>3. IInv => DeadStateStaysDead
  BY <1>1, <1>2 DEF DeadStateStaysDead, DeadLis
<1> QED
  BY <1>3, Inductive, PTL
-----------------------------------------------------------------------------
(***************************************************************************)
(* The rounds of hm_nfa2dfa and hm_dfalist2dfa, for every number of        *)
(* automata and of iterations and every k.  That the critical sections     *)
(* hand every DFA to one iteration is half of the argument (MoveOne,       *)
(* Unite).  The other half counts: the iterations of a round together have *)
(* room for as many DFAs as the round began with, and one that stops while *)
(* the list is not empty has taken k.  So no iteration finds the list      *)
(* empty having taken nothing, and at the barrier nothing is left in the   *)
(* list (IterationsTakeAll).                                               *)
(***************************************************************************)
-----------------------------------------------------------------------------
(* The automata in each place, as a function of the place.                 *)
Where == [p \in Places |-> At(p)]

(* EveryRuleInOnePlace of any assignment A of automata to places P: every  *)
(* given automaton is part of one in some place, automata that share a     *)
(* given one are the same automaton in the same place, and none is empty.  *)
InOnePlace(A, P) ==
  /\ \A d \in Given : \E p \in P : \E D \in A[p] : d \in D
  /\ \A p, q \in P : \A D \in A[p], E \in A[q] : D \cap E # {} => D = E /\ p = q
  /\ \A p \in P : \A D \in A[p] : D # {}

(* What is where, and the places are different.                            *)
EachPlace ==
  /\ Places = {TheList, TheNextRound, TheNfas, TheCompiler} \cup Iterations
  /\ TheList # TheNextRound /\ TheList # TheNfas /\ TheList # TheCompiler
  /\ TheNextRound # TheNfas /\ TheNextRound # TheCompiler /\ TheNfas # TheCompiler
  /\ \A i \in Iterations : i \notin {TheList, TheNextRound, TheNfas, TheCompiler}
  /\ Where[TheList] = dfa_list
  /\ Where[TheNextRound] = next_round_dfa_lis
  /\ Where[TheNfas] = {{n} : n \in nfa_list}
  /\ Where[TheCompiler] = {{n} : n \in compiling}
  /\ \A i \in Iterations : Where[i] = dfa_tomerge_lis[i]

(* The iterations that have pushed their result in section4, and the DFAs  *)
(* taken in section3, each with the iteration that holds it.               *)
Done  == {i \in Iterations : iteration[i] = "done"}
Taken == {t \in Iterations \X Dfa : t[2] \in dfa_tomerge_lis[t[1]]}

(* While hm_nfa2dfa compiles the NFAs, its list holds single rules and no  *)
(* iteration of a round has begun.                                         *)
BeforeTheRounds ==
  /\ dfa_list \subseteq {{d} : d \in Given}
  /\ next_round_dfa_lis = {}
  /\ dfa_tomerge_lis = [i \in Iterations |-> {}]
  /\ iteration = [i \in Iterations |-> "taking"]
  /\ dfa_amount = Cardinality(Given)

(* Counting k for every iteration that is done, the DFAs in the list and   *)
(* those taken account for all the round began with; and as long as the    *)
(* list is not empty exactly so, since until then an iteration stops only  *)
(* when it has k.                                                          *)
IterationsTakeAll ==
  LET accounted == Cardinality(dfa_list) + Cardinality(Taken) + k * Cardinality(Done)
  IN /\ dfa_amount <= accounted
     /\ dfa_list # {} =>
          /\ dfa_amount = accounted
          /\ \A i \in Iterations :
               iteration[i] = "merging" => Cardinality(dfa_tomerge_lis[i]) = k

(* The inductive invariant. That nothing is merged from an empty list and  *)
(* that the barrier finds the list empty follow from the count; that every *)
(* rule is in one place needs both.                                        *)
HmIInv ==
  /\ HmTypeOK
  /\ InOnePlace(Where, Places)
  /\ \A i \in Iterations : iteration[i] = "merging" => dfa_tomerge_lis[i] # {}
  /\ \A i \in Iterations : iteration[i] = "done" => dfa_tomerge_lis[i] = {}
  /\ hm_pc = "nfas" => BeforeTheRounds
  /\ hm_pc # "nfas" => nfa_list = {} /\ compiling = {}
  /\ hm_pc = "rounds" => IterationsTakeAll

-----------------------------------------------------------------------------
(* The loop over the groups of k has iterations enough for n DFAs, and one *)
(* less would be too few.                                                  *)
LEMMA GroupsHold ==
  ASSUME NEW n \in Nat \ {0}
  PROVE  /\ Groups(n) \in Nat \ {0}
         /\ k * (Groups(n) - 1) < n
         /\ n <= k * Groups(n)
<1> DEFINE q == (n - 1) \div k
<1>1. n - 1 \in Nat /\ k \in Nat \ {0}
  BY MergingAssumption
<1>2. q \in Nat /\ k * q <= n - 1 /\ n - 1 < k * (q + 1)
  BY <1>1
<1> QED
  BY <1>1, <1>2 DEF Groups

(* An automaton goes from one place to another, as in section1 to          *)
(* section3: every rule stays in one place.                                *)
LEMMA MoveOne ==
  ASSUME NEW P, NEW A, NEW B, InOnePlace(A, P),
         NEW p \in P, NEW q \in P, p # q, NEW D \in A[p],
         B[p] = A[p] \ {D}, B[q] = A[q] \cup {D}, \A r \in P \ {p, q} : B[r] = A[r]
  PROVE  InOnePlace(B, P)
<1> DEFINE Origin(r, E) == IF r = q /\ E = D THEN p ELSE r
<1>1. \A r \in P : \A E \in B[r] : E \in A[Origin(r, E)] /\ Origin(r, E) \in P
  OBVIOUS
<1>2. ASSUME NEW d \in Given
      PROVE  \E r \in P : \E E \in B[r] : d \in E
  <2>1. PICK r \in P : \E E \in A[r] : d \in E
    BY DEF InOnePlace
  <2>2. PICK E \in A[r] : d \in E
    BY <2>1
  <2>3. E \in B[r] \/ E \in B[q]
    OBVIOUS
  <2> QED
    BY <2>2, <2>3
<1>3. ASSUME NEW r \in P, NEW s \in P, NEW E \in B[r], NEW F \in B[s], E \cap F # {}
      PROVE  E = F /\ r = s
  <2>1. E = F /\ Origin(r, E) = Origin(s, F)
    BY <1>1, <1>3 DEF InOnePlace
  <2>2. D # {}
    BY DEF InOnePlace
  <2>3. \A t \in P \ {p} : D \notin A[t]
    BY <2>2 DEF InOnePlace
  <2> QED
    BY <2>1, <2>3
<1>4. \A r \in P : \A E \in B[r] : E # {}
  BY <1>1 DEF InOnePlace
<1> QED
  BY <1>2, <1>3, <1>4 DEF InOnePlace

(* All automata of one place become a single one in another, as the merge  *)
(* and section4 do: every rule stays in one place.                         *)
LEMMA Unite ==
  ASSUME NEW P, NEW A, NEW B, InOnePlace(A, P),
         NEW p \in P, NEW q \in P, p # q, A[p] # {},
         B[p] = {}, B[q] = A[q] \cup {UNION A[p]}, \A r \in P \ {p, q} : B[r] = A[r]
  PROVE  InOnePlace(B, P)
<1> DEFINE U == UNION A[p]
<1>1. U # {}
  BY DEF InOnePlace
<1>2. ASSUME NEW d \in Given
      PROVE  \E r \in P : \E E \in B[r] : d \in E
  <2>1. PICK r \in P : \E E \in A[r] : d \in E
    BY DEF InOnePlace
  <2>2. PICK E \in A[r] : d \in E
    BY <2>1
  <2>3. CASE r = p
    <3>1. d \in U /\ U \in B[q]
      BY <2>2, <2>3
    <3> QED
      BY <3>1
  <2>4. CASE r # p
    <3>1. E \in B[r]
      BY <2>4
    <3> QED
      BY <2>2, <3>1
  <2> QED
    BY <2>3, <2>4
<1>3. ASSUME NEW r \in P \ {p}, NEW E \in A[r]
      PROVE  E \cap U = {}
  BY DEF InOnePlace
<1>4. ASSUME NEW r \in P, NEW s \in P, NEW E \in B[r], NEW F \in B[s], E \cap F # {}
      PROVE  E = F /\ r = s
  <2>1. r # p /\ s # p
    OBVIOUS
  <2>2. CASE E \in A[r] /\ F \in A[s]
    BY <2>2, <1>4 DEF InOnePlace
  <2>3. CASE E \notin A[r]
    <3>1. r = q /\ E = U
      BY <2>1, <2>3
    <3>2. F \notin A[s]
      BY <2>1, <3>1, <1>3, <1>4
    <3> QED
      BY <2>1, <3>1, <3>2
  <2>4. CASE F \notin A[s]
    <3>1. s = q /\ F = U
      BY <2>1, <2>4
    <3>2. E \notin A[r]
      BY <2>1, <3>1, <1>3, <1>4
    <3> QED
      BY <2>1, <3>1, <3>2
  <2> QED
    BY <2>2, <2>3, <2>4
<1>5. \A r \in P : \A E \in B[r] : E # {}
  BY <1>1 DEF InOnePlace
<1> QED
  BY <1>2, <1>4, <1>5 DEF InOnePlace

-----------------------------------------------------------------------------
(* Any set of DFAs over the given automata is finite.                      *)
LEMMA FiniteDfas ==
  ASSUME NEW S \in SUBSET Dfa
  PROVE  IsFiniteSet(S) /\ Cardinality(S) \in Nat
<1>1. IsFiniteSet(Dfa)
  BY MergingAssumption, FS_SUBSET DEF Dfa
<1> QED
  BY <1>1, FS_Subset, FS_CardinalityType

(* There are as many DFAs of one rule as automata given: dfa_amount is the *)
(* length of the list when the first round begins.                         *)
LEMMA Singletons ==
  Cardinality({{d} : d \in Given}) = Cardinality(Given)
<1> DEFINE T == {{d} : d \in Given}
           f == [d \in Given |-> {d}]
<1>1. f \in Bijection(Given, T)
  BY DEF Bijection, Injection, IsInjective, Surjection
<1>2. ExistsBijection(Given, T)
  BY <1>1 DEF ExistsBijection
<1> QED
  BY <1>2, FS_Bijection, MergingAssumption

(* DFAs that share no rule are no more than the automata given: the next   *)
(* round is never larger than HmTypeOK allows.                             *)
LEMMA NoMoreThanGiven ==
  ASSUME NEW S \in SUBSET Dfa, \A D \in S : D # {},
         \A D, E \in S : D \cap E # {} => D = E
  PROVE  Cardinality(S) <= Cardinality(Given)
<1> DEFINE f == [D \in S |-> CHOOSE d \in Given : d \in D]
<1>1. \A D \in S : f[D] \in Given /\ f[D] \in D
  BY DEF Dfa
<1>2. f \in Injection(S, Given)
  BY <1>1 DEF Injection, IsInjective
<1> QED
  BY <1>2, FS_Injection, MergingAssumption

(* At most k DFAs have different numbers from 1 to k.                      *)
LEMMA Slots ==
  ASSUME NEW S \in SUBSET Dfa, Cardinality(S) <= k
  PROVE  \E f : f \in Injection(S, 1 .. k)
<1>1. Cardinality(S) \in Nat /\ ExistsBijection(1 .. Cardinality(S), S)
  BY FiniteDfas, FS_CardinalityType
<1>2. PICK g : g \in Bijection(1 .. Cardinality(S), S)
  BY <1>1 DEF ExistsBijection
<1> DEFINE f == [D \in S |-> CHOOSE j \in 1 .. Cardinality(S) : g[j] = D]
<1>3. \A D \in S : f[D] \in 1 .. Cardinality(S) /\ g[f[D]] = D
  BY <1>2 DEF Bijection, Surjection
<1>4. 1 .. Cardinality(S) \subseteq 1 .. k
  BY <1>1, MergingAssumption
<1>5. f \in Injection(S, 1 .. k)
  BY <1>3, <1>4 DEF Injection, IsInjective
<1> QED
  BY <1>5

(* The iterations of J, with at most k DFAs each, hold at most k times as  *)
(* many DFAs as they are.                                                  *)
LEMMA NoMoreThanSlots ==
  ASSUME NEW I, NEW J \in SUBSET I, IsFiniteSet(J),
         NEW lists \in [I -> SUBSET Dfa], \A i \in I : Cardinality(lists[i]) <= k,
         NEW T \in SUBSET (J \X Dfa), \A t \in T : t[2] \in lists[t[1]]
  PROVE  Cardinality(T) \in Nat /\ Cardinality(T) <= k * Cardinality(J)
<1> DEFINE slot(j) == CHOOSE f : f \in Injection(lists[j], 1 .. k)
           h == [t \in T |-> <<t[1], slot(t[1])[t[2]]>>]
<1>1. \A j \in J : slot(j) \in Injection(lists[j], 1 .. k)
  BY Slots
<1>2. \A t \in T : t = <<t[1], t[2]>> /\ t[1] \in J /\ t[2] \in lists[t[1]]
  OBVIOUS
<1>3. \A t \in T : slot(t[1])[t[2]] \in 1 .. k
  BY <1>1, <1>2 DEF Injection, IsInjective
<1> HIDE DEF slot
<1>4. ASSUME NEW t \in T, NEW u \in T, t[1] = u[1], slot(t[1])[t[2]] = slot(u[1])[u[2]]
      PROVE  t = u
  <2>1. t[2] = u[2]
    BY <1>1, <1>2, <1>4 DEF Injection, IsInjective
  <2> QED
    BY <2>1, <1>2, <1>4
<1>5. h \in Injection(T, J \X (1 .. k))
  <2>1. h \in [T -> J \X (1 .. k)]
    BY <1>2, <1>3
  <2>2. \A t, u \in T : h[t] = h[u] => t = u
    BY <1>4
  <2> QED
    BY <2>1, <2>2 DEF Injection, IsInjective
<1>6. IsFiniteSet(1 .. k) /\ Cardinality(1 .. k) = k /\ k \in Nat
  BY FS_Interval, MergingAssumption
<1>7. IsFiniteSet(J \X (1 .. k)) /\ Cardinality(J \X (1 .. k)) = Cardinality(J) * k
  BY <1>6, FS_Product
<1>8. Cardinality(J) \in Nat
  BY FS_CardinalityType
<1>9. IsFiniteSet(T) /\ Cardinality(T) <= Cardinality(J) * k
  BY <1>5, <1>7, FS_Injection
<1> QED
  BY <1>6, <1>8, <1>9, FS_CardinalityType

-----------------------------------------------------------------------------
(* A round has at least one iteration and finitely many.                   *)
LEMMA IterationsType ==
  ASSUME HmTypeOK
  PROVE  /\ dfa_amount \in Nat \ {0}
         /\ Groups(dfa_amount) \in Nat \ {0}
         /\ Iterations = 1 .. Groups(dfa_amount)
         /\ IsFiniteSet(Iterations)
         /\ Cardinality(Iterations) = Groups(dfa_amount)
<1>1. Cardinality(Given) \in Nat
  BY FS_CardinalityType, MergingAssumption
<1>2. dfa_amount \in Nat \ {0}
  BY <1>1 DEF HmTypeOK
<1>3. Groups(dfa_amount) \in Nat \ {0}
  BY <1>2, GroupsHold
<1> QED
  BY <1>2, <1>3, FS_Interval DEF Iterations

(* The places are different, and At tells the contents of each: the case   *)
(* distinction of At is made here, once for all.                           *)
LEMMA WhereEachIs ==
  ASSUME HmTypeOK
  PROVE  EachPlace
<1>1. Iterations \subseteq Nat \ {0}
  BY IterationsType
<1> QED
  BY <1>1 DEF EachPlace, Where, At, Places, TheList, TheNextRound, TheNfas, TheCompiler

(* The same of the next state.                                             *)
LEMMA WhereEachIsNext ==
  ASSUME HmTypeOK'
  PROVE  EachPlace'
<1>1. Iterations' \subseteq Nat \ {0}
  BY DEF Iterations
<1> QED
  BY <1>1 DEF EachPlace, Where, At, Places, TheList, TheNextRound, TheNfas, TheCompiler

(* section1 moves one NFA from the list to the iteration that compiles it. *)
LEMMA TakeNfaKeeps ==
  ASSUME HmIInv, NEW n \in Given, TakeNfa(n)
  PROVE  HmIInv'
<1>1. HmTypeOK' /\ Iterations' = Iterations /\ Places' = Places
  BY DEF HmIInv, HmTypeOK, TakeNfa, roundVars, Iterations, Places
<1>2. EachPlace /\ EachPlace'
  BY <1>1, WhereEachIs, WhereEachIsNext DEF HmIInv
<1>3. InOnePlace(Where', Places)
  <2>1. {{m} : m \in nfa_list'} = {{m} : m \in nfa_list} \ {{n}}
    BY DEF TakeNfa
  <2>2. {{m} : m \in compiling'} = {{m} : m \in compiling} \cup {{n}}
    BY DEF TakeNfa
  <2>3. {n} \in Where[TheNfas]
    BY <1>2 DEF EachPlace, TakeNfa
  <2>4. /\ Where'[TheNfas] = Where[TheNfas] \ {{n}}
        /\ Where'[TheCompiler] = Where[TheCompiler] \cup {{n}}
        /\ \A r \in Places \ {TheNfas, TheCompiler} : Where'[r] = Where[r]
    BY <1>1, <1>2, <2>1, <2>2 DEF EachPlace, TakeNfa, roundVars
  <2>5. TheNfas \in Places /\ TheCompiler \in Places /\ TheNfas # TheCompiler
    BY <1>2 DEF EachPlace
  <2> QED
    BY <2>3, <2>4, <2>5, MoveOne DEF HmIInv
<1>4. InOnePlace(Where, Places)'
  BY <1>1, <1>3
<1>5. BeforeTheRounds'
  BY <1>1 DEF HmIInv, BeforeTheRounds, TakeNfa, roundVars
<1> QED
  BY <1>1, <1>4, <1>5 DEF HmIInv, TakeNfa, roundVars

(* section2 moves its DFA into the list of the first round.                *)
LEMMA CompileAndPushKeeps ==
  ASSUME HmIInv, NEW n \in Given, CompileAndPush(n)
  PROVE  HmIInv'
<1>1. HmTypeOK' /\ Iterations' = Iterations /\ Places' = Places
  BY DEF HmIInv, HmTypeOK, CompileAndPush, roundVars, Iterations, Places, Dfa
<1>2. EachPlace /\ EachPlace'
  BY <1>1, WhereEachIs, WhereEachIsNext DEF HmIInv
<1>3. InOnePlace(Where', Places)
  <2>1. {{m} : m \in compiling'} = {{m} : m \in compiling} \ {{n}}
    BY DEF CompileAndPush
  <2>2. {n} \in Where[TheCompiler]
    BY <1>2 DEF EachPlace, CompileAndPush
  <2>3. /\ Where'[TheCompiler] = Where[TheCompiler] \ {{n}}
        /\ Where'[TheList] = Where[TheList] \cup {{n}}
        /\ \A r \in Places \ {TheCompiler, TheList} : Where'[r] = Where[r]
    BY <1>1, <1>2, <2>1 DEF EachPlace, CompileAndPush, roundVars
  <2>4. TheCompiler \in Places /\ TheList \in Places /\ TheCompiler # TheList
    BY <1>2 DEF EachPlace
  <2> QED
    BY <2>2, <2>3, <2>4, MoveOne DEF HmIInv
<1>4. InOnePlace(Where, Places)'
  BY <1>1, <1>3
<1>5. BeforeTheRounds'
  BY <1>1 DEF HmIInv, BeforeTheRounds, CompileAndPush, roundVars
<1> QED
  BY <1>1, <1>4, <1>5 DEF HmIInv, CompileAndPush, roundVars

(* When a round begins the list alone accounts for dfa_amount.             *)
LEMMA NothingTakenYet ==
  ASSUME HmTypeOK, dfa_tomerge_lis = [i \in Iterations |-> {}],
         iteration = [i \in Iterations |-> "taking"],
         dfa_amount = Cardinality(dfa_list)
  PROVE  IterationsTakeAll
<1>1. Taken = {} /\ Done = {}
  BY DEF Taken, Done
<1>2. Cardinality(Taken) = 0 /\ Cardinality(Done) = 0
  BY <1>1, FS_EmptySet
<1>3. dfa_amount \in Nat /\ k \in Nat
  BY IterationsType, MergingAssumption
<1>4. \A i \in Iterations : iteration[i] # "merging"
  OBVIOUS
<1> QED
  BY <1>2, <1>3, <1>4 DEF IterationsTakeAll

(* When no NFA is left to take or to compile the list holds a DFA for      *)
(* each.                                                                   *)
LEMMA AllInTheList ==
  ASSUME HmIInv, hm_pc = "nfas", nfa_list = {}, compiling = {}
  PROVE  dfa_list = {{d} : d \in Given}
<1>1. EachPlace /\ BeforeTheRounds
  BY WhereEachIs DEF HmIInv
<1>2. ASSUME NEW d \in Given
      PROVE  {d} \in dfa_list
  <2>1. PICK p \in Places : \E D \in Where[p] : d \in D
    BY DEF HmIInv, InOnePlace
  <2>2. p = TheList
    BY <1>1, <2>1 DEF EachPlace, BeforeTheRounds
  <2>3. PICK D \in dfa_list : d \in D
    BY <1>1, <2>1, <2>2 DEF EachPlace
  <2> QED
    BY <1>1, <2>3 DEF BeforeTheRounds
<1> QED
  BY <1>1, <1>2 DEF BeforeTheRounds

(* The barrier after the NFAs: the list holds a DFA for every NFA, so as   *)
(* many as dfa_amount says.                                                *)
LEMMA AllCompiledKeeps ==
  ASSUME HmIInv, AllCompiled
  PROVE  HmIInv'
<1>1. HmTypeOK' /\ Iterations' = Iterations /\ Places' = Places
  BY DEF HmIInv, HmTypeOK, AllCompiled, nfaVars, roundVars, Iterations, Places
<1>2. EachPlace /\ EachPlace'
  BY <1>1, WhereEachIs, WhereEachIsNext DEF HmIInv
<1>3. \A r \in Places : Where'[r] = Where[r]
  BY <1>1, <1>2 DEF EachPlace, AllCompiled, nfaVars, roundVars
<1>4. InOnePlace(Where, Places)'
  BY <1>1, <1>3 DEF HmIInv, InOnePlace
<1>5. BeforeTheRounds
  BY DEF HmIInv, AllCompiled
<1>6. dfa_list = {{d} : d \in Given}
  BY AllInTheList DEF AllCompiled
<1>7. IterationsTakeAll
  BY <1>5, <1>6, Singletons, NothingTakenYet DEF HmIInv, BeforeTheRounds
<1>8. IterationsTakeAll'
  BY <1>1, <1>7 DEF IterationsTakeAll, Taken, Done, AllCompiled, roundVars
<1> QED
  BY <1>1, <1>4, <1>8 DEF HmIInv, AllCompiled, nfaVars, roundVars

(* The sets that are counted are finite.                                   *)
LEMMA FiniteTaken ==
  ASSUME HmTypeOK
  PROVE  /\ IsFiniteSet(Taken) /\ Cardinality(Taken) \in Nat
         /\ IsFiniteSet(Done) /\ Cardinality(Done) \in Nat
<1>1. IsFiniteSet(Iterations) /\ IsFiniteSet(Dfa)
  BY IterationsType, FiniteDfas
<1>2. IsFiniteSet(Iterations \X Dfa)
  BY <1>1, FS_Product
<1>3. Taken \subseteq Iterations \X Dfa /\ Done \subseteq Iterations
  BY DEF Taken, Done
<1> QED
  BY <1>1, <1>2, <1>3, FS_Subset, FS_CardinalityType

(* section3 moves a DFA from the list to the iteration; the account does   *)
(* not change, the DFA is counted in the one place instead of the other.   *)
LEMMA TakeKeeps ==
  ASSUME HmIInv, NEW i \in Iterations, Take(i)
  PROVE  HmIInv'
<1>1. Iterations' = Iterations /\ Places' = Places
  BY DEF Take, Iterations, Places
<1>2. PICK D \in dfa_list :
        /\ dfa_list' = dfa_list \ {D}
        /\ dfa_tomerge_lis' = [dfa_tomerge_lis EXCEPT ![i] = @ \cup {D}]
  BY DEF Take
<1>3. dfa_tomerge_lis[i] \in SUBSET Dfa /\ D \in Dfa /\ dfa_list \in SUBSET Dfa
  BY <1>2 DEF HmIInv, HmTypeOK
<1>4. dfa_tomerge_lis' \in [Iterations -> SUBSET Dfa]
  BY <1>2, <1>3 DEF HmIInv, HmTypeOK
<1>5. \A j \in Iterations : Cardinality(dfa_tomerge_lis'[j]) <= k
  <2>1. Cardinality(dfa_tomerge_lis[i]) \in Nat /\ IsFiniteSet(dfa_tomerge_lis[i])
    BY <1>3, FiniteDfas
  <2>2. Cardinality(dfa_tomerge_lis[i] \cup {D}) =
          IF D \in dfa_tomerge_lis[i] THEN Cardinality(dfa_tomerge_lis[i])
          ELSE Cardinality(dfa_tomerge_lis[i]) + 1
    BY <2>1, FS_AddElement
  <2>3. Cardinality(dfa_tomerge_lis[i]) < k
    BY DEF Take
  <2>4. Cardinality(dfa_tomerge_lis[i] \cup {D}) <= k
    BY <2>1, <2>2, <2>3, MergingAssumption
  <2> QED
    BY <1>2, <2>4 DEF HmIInv, HmTypeOK
<1>6. HmTypeOK'
  BY <1>1, <1>2, <1>4, <1>5 DEF HmIInv, HmTypeOK, Take, nfaVars
<1>7. EachPlace /\ EachPlace'
  BY <1>6, WhereEachIs, WhereEachIsNext DEF HmIInv
<1>8. InOnePlace(Where', Places)
  <2>1. D \in Where[TheList]
    BY <1>2, <1>7 DEF EachPlace
  <2>2. /\ Where'[TheList] = Where[TheList] \ {D}
        /\ Where'[i] = Where[i] \cup {D}
        /\ \A r \in Places \ {TheList, i} : Where'[r] = Where[r]
    BY ZenonT(20), <1>1, <1>2, <1>7 DEF EachPlace, Take, nfaVars, HmIInv, HmTypeOK
  <2>3. TheList \in Places /\ i \in Places /\ TheList # i
    BY <1>7 DEF EachPlace
  <2> QED
    BY <2>1, <2>2, <2>3, MoveOne DEF HmIInv
<1>9. InOnePlace(Where, Places)'
  BY <1>1, <1>8
<1>10. IterationsTakeAll'
  <2>1. <<i, D>> \notin Taken
    BY <1>2, <1>3, <1>7 DEF Taken, EachPlace, HmIInv, InOnePlace
  <2>2. Taken' = Taken \cup {<<i, D>>}
    BY <1>1, <1>2, <1>3 DEF Taken, HmIInv, HmTypeOK
  <2>3. Cardinality(Taken') = Cardinality(Taken) + 1
    BY <2>1, <2>2, FiniteTaken, FS_AddElement DEF HmIInv
  <2>4. Cardinality(dfa_list') = Cardinality(dfa_list) - 1
    BY <1>2, <1>3, FiniteDfas, FS_RemoveElement
  <2>5. Done' = Done
    BY <1>1 DEF Done, Take
  <2>6. /\ Cardinality(dfa_list) \in Nat /\ Cardinality(Taken) \in Nat
        /\ Cardinality(Done) \in Nat /\ k \in Nat /\ dfa_amount \in Nat
    BY <1>3, FiniteDfas, FiniteTaken, IterationsType, MergingAssumption DEF HmIInv
  <2>7. IterationsTakeAll /\ dfa_list # {}
    BY <1>2 DEF HmIInv, Take, InRound
  <2>8. \A j \in Iterations : iteration[j] = "merging" => dfa_tomerge_lis'[j] = dfa_tomerge_lis[j]
    BY <1>2 DEF Take, HmIInv, HmTypeOK
  <2>9. dfa_amount' = dfa_amount /\ iteration' = iteration
    BY DEF Take
  <2>10. dfa_amount = Cardinality(dfa_list') + Cardinality(Taken') + k * Cardinality(Done')
    BY <2>3, <2>4, <2>5, <2>6, <2>7 DEF IterationsTakeAll
  <2>11. \A j \in Iterations : iteration[j] = "merging" => Cardinality(dfa_tomerge_lis'[j]) = k
    BY <2>7, <2>8 DEF IterationsTakeAll
  <2> QED
    BY <1>1, <2>6, <2>9, <2>10, <2>11 DEF IterationsTakeAll
<1>11. \A j \in Iterations : iteration[j] = "merging" => dfa_tomerge_lis'[j] # {}
  BY <1>2 DEF HmIInv, HmTypeOK
<1>12. \A j \in Iterations : iteration[j] = "done" => dfa_tomerge_lis'[j] = {}
  BY <1>2 DEF HmIInv, HmTypeOK, Take
<1> QED
  BY <1>1, <1>6, <1>9, <1>10, <1>11, <1>12 DEF HmIInv, Take, InRound, nfaVars

(* While an iteration has taken nothing the list is not empty: the others  *)
(* have room for fewer DFAs than the round began with.                     *)
LEMMA NoIterationComesTooLate ==
  ASSUME HmIInv, hm_pc = "rounds", NEW i \in Iterations,
         iteration[i] = "taking", dfa_tomerge_lis[i] = {}
  PROVE  dfa_list # {}
<1> SUFFICES ASSUME dfa_list = {}
             PROVE  FALSE
  OBVIOUS
<1> DEFINE J == (Iterations \ Done) \ {i}
           g == Cardinality(Iterations)
<1>1. IsFiniteSet(Iterations) /\ g \in Nat /\ k \in Nat /\ dfa_amount \in Nat
        /\ k * (g - 1) < dfa_amount
  BY IterationsType, GroupsHold, MergingAssumption DEF HmIInv
<1>2. Done \subseteq Iterations /\ i \notin Done /\ IsFiniteSet(Done)
        /\ Cardinality(Done) \in Nat
  BY FiniteTaken DEF Done, HmIInv
<1>3. IsFiniteSet(J) /\ Cardinality(J) = g - Cardinality(Done) - 1
  <2>1. Iterations \cap Done = Done
    BY <1>2
  <2>2. IsFiniteSet(Iterations \ Done)
          /\ Cardinality(Iterations \ Done) = g - Cardinality(Done)
    BY <1>1, <2>1, FS_Difference
  <2> QED
    BY <1>1, <1>2, <2>2, FS_RemoveElement
<1>4. Taken \in SUBSET (J \X Dfa)
  BY DEF Taken, Done, HmIInv
<1>5. Cardinality(Taken) \in Nat /\ Cardinality(Taken) <= k * Cardinality(J)
  <2>1. \A t \in Taken : t[2] \in dfa_tomerge_lis[t[1]]
    BY DEF Taken
  <2>2. /\ dfa_tomerge_lis \in [Iterations -> SUBSET Dfa]
        /\ \A j \in Iterations : Cardinality(dfa_tomerge_lis[j]) <= k
    BY DEF HmIInv, HmTypeOK
  <2> QED
    BY <1>3, <1>4, <2>1, <2>2, NoMoreThanSlots
<1>6. dfa_amount <= Cardinality(Taken) + k * Cardinality(Done)
  <2>1. Cardinality(dfa_list) = 0
    BY FS_EmptySet
  <2> QED
    BY <1>1, <1>2, <1>5, <2>1 DEF HmIInv, IterationsTakeAll
<1> HIDE DEF J, g
<1>7. k * Cardinality(J) + k * Cardinality(Done) = k * (g - 1)
  BY <1>1, <1>2, <1>3
<1> QED
  BY <1>1, <1>2, <1>3, <1>5, <1>6, <1>7

(* k DFAs taken, or the list found empty: nothing moves, and what the      *)
(* iteration goes on to merge is not empty.                                *)
LEMMA StopTakingKeeps ==
  ASSUME HmIInv, NEW i \in Iterations, StopTaking(i)
  PROVE  HmIInv'
<1>1. Iterations' = Iterations /\ Places' = Places
  BY DEF StopTaking, Iterations, Places
<1>2. HmTypeOK'
  BY <1>1 DEF HmIInv, HmTypeOK, StopTaking, nfaVars
<1>3. EachPlace /\ EachPlace'
  BY <1>2, WhereEachIs, WhereEachIsNext DEF HmIInv
<1>4. \A r \in Places : Where'[r] = Where[r]
  BY <1>1, <1>3 DEF EachPlace, StopTaking, nfaVars
<1>5. InOnePlace(Where, Places)'
  BY <1>1, <1>4 DEF HmIInv, InOnePlace
<1>6. dfa_tomerge_lis[i] # {}
  <2>1. CASE dfa_list = {}
    BY <2>1, NoIterationComesTooLate DEF StopTaking, InRound
  <2>2. CASE Cardinality(dfa_tomerge_lis[i]) = k
    BY <2>2, FS_EmptySet, MergingAssumption
  <2> QED
    BY <2>1, <2>2 DEF StopTaking
<1>7. Taken' = Taken /\ Done' = Done
  <2>1. \A j \in Iterations : iteration'[j] = "done" <=> iteration[j] = "done"
    BY DEF StopTaking, HmIInv, HmTypeOK
  <2> QED
    BY <1>1, <2>1 DEF Taken, Done, StopTaking
<1>8. IterationsTakeAll'
  <2>1. IterationsTakeAll
    BY DEF HmIInv, StopTaking, InRound
  <2>2. dfa_list # {} => \A j \in Iterations :
          iteration'[j] = "merging" => Cardinality(dfa_tomerge_lis[j]) = k
    BY <2>1 DEF IterationsTakeAll, StopTaking, HmIInv, HmTypeOK
  <2> QED
    BY <1>1, <1>7, <2>1, <2>2 DEF IterationsTakeAll, StopTaking
<1>9. \A j \in Iterations : iteration'[j] = "merging" => dfa_tomerge_lis[j] # {}
  BY <1>6 DEF HmIInv, HmTypeOK, StopTaking
<1>10. \A j \in Iterations : iteration'[j] = "done" => dfa_tomerge_lis[j] = {}
  BY DEF HmIInv, HmTypeOK, StopTaking
<1> QED
  BY <1>1, <1>2, <1>5, <1>8, <1>9, <1>10 DEF HmIInv, StopTaking, InRound, nfaVars

(* The merge and section4: what the iteration took becomes one DFA of the  *)
(* next round; at most k leave the account and k are added to it, exactly  *)
(* k if DFAs are left.                                                     *)
LEMMA MergeAndPushKeeps ==
  ASSUME HmIInv, NEW i \in Iterations, MergeAndPush(i)
  PROVE  HmIInv'
<1> DEFINE U == UNION dfa_tomerge_lis[i]
           held == Cardinality(dfa_tomerge_lis[i])
<1>1. Iterations' = Iterations /\ Places' = Places
  BY DEF MergeAndPush, Iterations, Places
<1>2. dfa_tomerge_lis[i] \in SUBSET Dfa /\ held \in Nat /\ held <= k /\ dfa_tomerge_lis[i] # {}
  BY FiniteDfas DEF HmIInv, HmTypeOK, MergeAndPush
<1>3. HmTypeOK'
  <2>1. U \in Dfa
    BY <1>2 DEF Dfa
  <2>2. next_round_dfa_lis' \subseteq Dfa
    BY <2>1 DEF MergeAndPush, HmIInv, HmTypeOK
  <2>3. dfa_tomerge_lis' \in [Iterations -> SUBSET Dfa]
    BY DEF MergeAndPush, HmIInv, HmTypeOK
  <2>4. \A j \in Iterations : Cardinality(dfa_tomerge_lis'[j]) <= k
    BY FS_EmptySet, MergingAssumption DEF MergeAndPush, HmIInv, HmTypeOK
  <2> QED
    BY <1>1, <2>2, <2>3, <2>4 DEF MergeAndPush, HmIInv, HmTypeOK, nfaVars
<1>4. EachPlace /\ EachPlace'
  BY <1>3, WhereEachIs, WhereEachIsNext DEF HmIInv
<1>5. InOnePlace(Where', Places)
  <2>1. Where[i] # {}
    BY <1>2, <1>4 DEF EachPlace
  <2>2. /\ Where'[i] = {}
        /\ Where'[TheNextRound] = Where[TheNextRound] \cup {UNION Where[i]}
        /\ \A r \in Places \ {i, TheNextRound} : Where'[r] = Where[r]
    BY <1>1, <1>4 DEF EachPlace, MergeAndPush, nfaVars, HmIInv, HmTypeOK
  <2>3. TheNextRound \in Places /\ i \in Places /\ i # TheNextRound
    BY <1>4 DEF EachPlace
  <2> QED
    BY <2>1, <2>2, <2>3, Unite DEF HmIInv
<1>6. InOnePlace(Where, Places)'
  BY <1>1, <1>5
<1>7. IterationsTakeAll'
  <2> DEFINE R == {i} \X dfa_tomerge_lis[i]
  <2>1. /\ Cardinality(dfa_list) \in Nat /\ Cardinality(Taken) \in Nat /\ IsFiniteSet(Taken)
        /\ Cardinality(Done) \in Nat /\ IsFiniteSet(Done) /\ k \in Nat /\ dfa_amount \in Nat
    BY FiniteDfas, FiniteTaken, IterationsType, MergingAssumption DEF HmIInv, HmTypeOK
  <2>2. Cardinality(R) = held
    <3>1. IsFiniteSet({i}) /\ Cardinality({i}) = 1
      BY FS_Singleton
    <3>2. IsFiniteSet(dfa_tomerge_lis[i])
      BY <1>2, FiniteDfas
    <3>3. Cardinality(R) = 1 * held
      BY <3>1, <3>2, FS_Product
    <3> QED
      BY <1>2, <3>3
  <2>3. Taken \cap R = R
    BY <1>2 DEF Taken
  <2>4. Taken' = Taken \ R
    BY <1>1 DEF Taken, MergeAndPush, HmIInv, HmTypeOK
  <2>5. Cardinality(Taken') = Cardinality(Taken) - held
    <3> HIDE DEF R, held
    <3>1. Cardinality(Taken \ R) = Cardinality(Taken) - Cardinality(Taken \cap R)
      BY <2>1, FS_Difference
    <3> QED
      BY <2>2, <2>3, <2>4, <3>1
  <2>6. Done' = Done \cup {i} /\ i \notin Done
    BY <1>1 DEF Done, MergeAndPush, HmIInv, HmTypeOK
  <2>7. Cardinality(Done') = Cardinality(Done) + 1
    BY <2>1, <2>6, FS_AddElement
  <2>8. k * Cardinality(Done') = k * Cardinality(Done) + k
    BY <2>1, <2>7
  <2>9. IterationsTakeAll
    BY DEF HmIInv, MergeAndPush, InRound
  <2>10. k * Cardinality(Done) \in Nat
    BY <2>1
  <2>11. dfa_amount <= Cardinality(dfa_list) + Cardinality(Taken') + k * Cardinality(Done')
    BY <1>2, <2>1, <2>5, <2>8, <2>9, <2>10 DEF IterationsTakeAll
  <2>12. dfa_list # {} =>
           dfa_amount = Cardinality(dfa_list) + Cardinality(Taken') + k * Cardinality(Done')
    BY <1>2, <2>1, <2>5, <2>8, <2>9, <2>10 DEF IterationsTakeAll, MergeAndPush
  <2>13. dfa_list # {} => \A j \in Iterations :
           iteration'[j] = "merging" => Cardinality(dfa_tomerge_lis'[j]) = k
    BY <2>9 DEF IterationsTakeAll, MergeAndPush, HmIInv, HmTypeOK
  <2> QED
    BY <1>1, <2>11, <2>12, <2>13 DEF IterationsTakeAll, MergeAndPush
<1>8. \A j \in Iterations : iteration'[j] = "merging" => dfa_tomerge_lis'[j] # {}
  BY DEF HmIInv, HmTypeOK, MergeAndPush
<1>9. \A j \in Iterations : iteration'[j] = "done" => dfa_tomerge_lis'[j] = {}
  BY DEF HmIInv, HmTypeOK, MergeAndPush
<1> QED
  BY <1>1, <1>3, <1>6, <1>7, <1>8, <1>9 DEF HmIInv, MergeAndPush, InRound, nfaVars

(* The iterations of a round have room for all its DFAs.                   *)
LEMMA NothingIsLeft ==
  ASSUME HmIInv, hm_pc = "rounds", \A i \in Iterations : iteration[i] = "done"
  PROVE  dfa_list = {}
<1> SUFFICES ASSUME dfa_list # {}
             PROVE  FALSE
  OBVIOUS
<1>1. Done = Iterations /\ Taken = {}
  BY DEF Done, Taken, HmIInv
<1>2. Cardinality(Taken) = 0
  BY <1>1, FS_EmptySet
<1>3. Cardinality(dfa_list) \in Nat \ {0}
  BY FiniteDfas, FS_EmptySet DEF HmIInv, HmTypeOK
<1>4. /\ Cardinality(Done) = Groups(dfa_amount) /\ Groups(dfa_amount) \in Nat
      /\ dfa_amount \in Nat /\ k \in Nat /\ dfa_amount <= k * Groups(dfa_amount)
  BY <1>1, IterationsType, GroupsHold, MergingAssumption DEF HmIInv
<1>5. dfa_amount = Cardinality(dfa_list) + Cardinality(Taken) + k * Cardinality(Done)
  BY DEF HmIInv, IterationsTakeAll
<1> QED
  BY <1>2, <1>3, <1>4, <1>5

(* At the barrier every rule is in the list of the next round.             *)
LEMMA AllInTheNextRound ==
  ASSUME HmIInv, NextRound
  PROVE  /\ \A p \in Places \ {TheNextRound} : Where[p] = {}
         /\ \A d \in Given : \E D \in next_round_dfa_lis : d \in D
<1>1. EachPlace
  BY WhereEachIs DEF HmIInv
<1>2. dfa_list = {} /\ nfa_list = {} /\ compiling = {}
  BY NothingIsLeft DEF HmIInv, NextRound, InRound
<1>3. \A p \in Places \ {TheNextRound} : Where[p] = {}
  BY <1>1, <1>2 DEF EachPlace, HmIInv, NextRound
<1> QED
  BY <1>1, <1>3 DEF EachPlace, HmIInv, InOnePlace

(* The barrier: all DFAs are in the list of the next round, so the next    *)
(* round begins with every rule in one place and the count right.          *)
LEMMA NextRoundKeeps ==
  ASSUME HmIInv, NextRound
  PROVE  HmIInv'
<1> DEFINE amount == Cardinality(next_round_dfa_lis)
<1>1. EachPlace
  BY WhereEachIs DEF HmIInv
<1>2. dfa_list = {} /\ nfa_list = {} /\ compiling = {}
  BY NothingIsLeft DEF HmIInv, NextRound, InRound
<1>3. \A p \in Places \ {TheNextRound} : Where[p] = {}
  BY AllInTheNextRound
<1>4. \A d \in Given : \E D \in next_round_dfa_lis : d \in D
  BY AllInTheNextRound
<1>5. /\ \A D, E \in next_round_dfa_lis : D \cap E # {} => D = E
      /\ \A D \in next_round_dfa_lis : D # {}
  BY <1>1 DEF EachPlace, HmIInv, InOnePlace
<1>6. amount \in 1 .. Cardinality(Given)
  <2>1. next_round_dfa_lis \in SUBSET Dfa /\ next_round_dfa_lis # {}
    BY <1>4, MergingAssumption DEF HmIInv, HmTypeOK
  <2>2. amount \in Nat /\ amount # 0
    BY <2>1, FiniteDfas, FS_EmptySet
  <2>3. amount <= Cardinality(Given) /\ Cardinality(Given) \in Nat
    BY <1>5, <2>1, NoMoreThanGiven, FS_CardinalityType, MergingAssumption
  <2> QED
    BY <2>2, <2>3
<1>7. Iterations' = 1 .. Groups(amount)
  BY DEF Iterations, NextRound
<1>8. /\ dfa_tomerge_lis' = [i \in Iterations' |-> {}]
      /\ iteration' = [i \in Iterations' |-> "taking"]
  BY <1>7 DEF NextRound
<1>9. HmTypeOK'
  <2>1. Cardinality({}) <= k
    BY FS_EmptySet, MergingAssumption
  <2> QED
    BY <1>2, <1>6, <1>8, <2>1 DEF HmIInv, HmTypeOK, NextRound, InRound, nfaVars
<1>10. EachPlace'
  BY <1>9, WhereEachIsNext
<1>11. /\ TheList \in Places'
       /\ Where'[TheList] = next_round_dfa_lis
       /\ \A p \in Places' \ {TheList} : Where'[p] = {}
  BY ZenonT(20), <1>2, <1>8, <1>10 DEF EachPlace, NextRound, nfaVars
<1>12. InOnePlace(Where', Places')
  BY <1>4, <1>5, <1>11 DEF InOnePlace
<1>13. InOnePlace(Where, Places)'
  BY <1>12
<1>14. IterationsTakeAll'
  <2>1. Taken' = {} /\ Done' = {}
    BY <1>8 DEF Taken, Done
  <2>2. Cardinality(Taken') = 0 /\ Cardinality(Done') = 0
    BY <2>1, FS_EmptySet
  <2>3. \A i \in Iterations' : iteration'[i] # "merging"
    BY <1>8
  <2>4. amount \in Nat /\ k \in Nat
    BY <1>6, MergingAssumption
  <2>5. dfa_amount' = amount /\ Cardinality(dfa_list') = amount
    BY DEF NextRound
  <2> QED
    BY <2>2, <2>3, <2>4, <2>5 DEF IterationsTakeAll
<1> QED
  BY <1>2, <1>8, <1>9, <1>13, <1>14 DEF HmIInv, NextRound, InRound, nfaVars

(* Where only hm_pc changes every automaton stays where it is.             *)
LEMMA SamePlaces ==
  ASSUME HmIInv, UNCHANGED <<nfaVars, dfa_list, dfa_amount, next_round_dfa_lis,
                           dfa_tomerge_lis, iteration>>,
         hm_pc' \in {"nfas", "rounds", "returned"}
  PROVE  /\ HmTypeOK' /\ Iterations' = Iterations
         /\ InOnePlace(Where, Places)'
<1>1. Iterations' = Iterations /\ Places' = Places
  BY DEF Iterations, Places
<1>2. HmTypeOK'
  BY <1>1 DEF HmIInv, HmTypeOK, nfaVars
<1>3. EachPlace /\ EachPlace'
  BY <1>2, WhereEachIs, WhereEachIsNext DEF HmIInv
<1>4. \A r \in Places : Where'[r] = Where[r]
  BY <1>1, <1>3 DEF EachPlace, nfaVars
<1> QED
  BY <1>1, <1>2, <1>4 DEF HmIInv, InOnePlace

(* Leaving the loop over the rounds disturbs nothing.                      *)
LEMMA ReturnKeeps ==
  ASSUME HmIInv, HmReturn
  PROVE  HmIInv'
<1>1. HmTypeOK' /\ Iterations' = Iterations /\ InOnePlace(Where, Places)'
  BY SamePlaces DEF HmReturn
<1> QED
  BY <1>1 DEF HmIInv, HmReturn, nfaVars

(* A step that changes nothing keeps the invariant.                        *)
LEMMA StutteringKeeps ==
  ASSUME HmIInv, UNCHANGED hm_vars
  PROVE  HmIInv'
<1>1. HmTypeOK' /\ Iterations' = Iterations /\ InOnePlace(Where, Places)'
  BY SamePlaces DEF hm_vars, HmIInv, HmTypeOK
<1>2. BeforeTheRounds => BeforeTheRounds'
  BY <1>1 DEF BeforeTheRounds, hm_vars
<1>3. IterationsTakeAll => IterationsTakeAll'
  BY <1>1 DEF IterationsTakeAll, Taken, Done, hm_vars
<1> QED
  BY <1>1, <1>2, <1>3 DEF HmIInv, hm_vars, nfaVars

(* hm_dfalist2dfa begins with a DFA for every rule in the list, hm_nfa2dfa *)
(* with all NFAs in theirs.                                                *)
LEMMA InitiallyInOnePlace ==
  ASSUME HmInit
  PROVE  HmIInv
<1>1. Cardinality(Given) \in Nat \ {0}
  BY FS_CardinalityType, FS_EmptySet, MergingAssumption
<1>2. HmTypeOK
  <2>1. Cardinality({}) <= k
    BY FS_EmptySet, MergingAssumption
  <2> QED
    BY <1>1, <2>1 DEF HmInit, HmTypeOK, Dfa
<1>3. EachPlace
  BY <1>2, WhereEachIs
<1>4. InOnePlace(Where, Places)
  <2>1. PICK p \in {TheList, TheNfas} :
          /\ Where[p] = {{d} : d \in Given}
          /\ \A r \in Places \ {p} : Where[r] = {}
    BY <1>3 DEF EachPlace, HmInit
  <2>2. p \in Places
    BY <1>3 DEF EachPlace
  <2>3. \A d \in Given : {d} \in Where[p]
    BY <2>1
  <2>4. \A r \in Places : \A D \in Where[r] : r = p /\ \E d \in Given : D = {d}
    BY <2>1
  <2>5. \A d \in Given : \E r \in Places : \E D \in Where[r] : d \in D
    BY <2>2, <2>3
  <2>6. ASSUME NEW q \in Places, NEW r \in Places,
               NEW D \in Where[q], NEW E \in Where[r], D \cap E # {}
        PROVE  D = E /\ q = r
    <3>1. PICK d \in Given : D = {d}
      BY <2>4
    <3>2. PICK e \in Given : E = {e}
      BY <2>4
    <3> QED
      BY <2>4, <2>6, <3>1, <3>2
  <2>7. \A r \in Places : \A D \in Where[r] : D # {}
    BY <2>4
  <2> QED
    BY <2>5, <2>6, <2>7 DEF InOnePlace
<1>5. hm_pc = "rounds" => IterationsTakeAll
  BY <1>2, Singletons, NothingTakenYet DEF HmInit
<1>6. hm_pc = "nfas" => BeforeTheRounds
  BY DEF HmInit, BeforeTheRounds
<1> QED
  BY <1>2, <1>4, <1>5, <1>6 DEF HmIInv, HmInit

(* No critical section, merge or barrier breaks the invariant.             *)
LEMMA EachStepKeeps ==
  ASSUME HmIInv, [HmNext]_hm_vars
  PROVE  HmIInv'
BY TakeNfaKeeps, CompileAndPushKeeps, AllCompiledKeeps, TakeKeeps, StopTakingKeeps,
   MergeAndPushKeeps, NextRoundKeeps, ReturnKeeps, StutteringKeeps DEF HmNext

(* The inductive invariant implies the property.                           *)
LEMMA InvariantIsEnough ==
  ASSUME HmIInv
  PROVE  EveryRuleInOnePlace
<1>1. \A p \in Places : At(p) = Where[p]
  BY DEF Where
<1> QED
  BY <1>1 DEF HmIInv, InOnePlace, EveryRuleInOnePlace

(* However the critical sections of the parallel loops interleave, for any *)
(* number of rules and any k, every automaton given is part of exactly one *)
(* automaton in exactly one place, and no iteration merges an empty list.  *)
THEOREM RulesStayInOnePlace ==
  HmSpec => []EveryRuleInOnePlace
<1>1. HmInit => HmIInv
  BY InitiallyInOnePlace
<1>2. HmIInv /\ [HmNext]_hm_vars => HmIInv'
  BY EachStepKeeps
<1>3. HmIInv => EveryRuleInOnePlace
  BY InvariantIsEnough
<1> QED
  BY <1>1, <1>2, <1>3, PTL DEF HmSpec

-----------------------------------------------------------------------------
(* The variables have their types.                                         *)
THEOREM HmTypeCorrect ==
  HmSpec => []HmTypeOK
<1>1. HmInit => HmIInv
  BY InitiallyInOnePlace
<1>2. HmIInv /\ [HmNext]_hm_vars => HmIInv'
  BY EachStepKeeps
<1>3. HmIInv => HmTypeOK
  BY DEF HmIInv
<1> QED
  BY <1>1, <1>2, <1>3, PTL DEF HmSpec

-----------------------------------------------------------------------------
(* A round of one DFA has all rules in it, and only then the loop ends.    *)
LastHasEveryRule ==
  /\ hm_pc # "nfas" /\ dfa_amount = 1 => dfa_list = {Given}
  /\ hm_pc = "returned" => dfa_amount = 1

(* A list of length one that holds every rule holds the one DFA of all.    *)
LEMMA OneOfAll ==
  ASSUME NEW S \in SUBSET Dfa, Cardinality(S) = 1,
         \A d \in Given : \E D \in S : d \in D
  PROVE  S = {Given}
<1>1. PICK D : S = {D}
  BY FiniteDfas, FS_Singleton
<1>2. D \subseteq Given
  BY <1>1 DEF Dfa
<1>3. D = Given
  BY <1>1, <1>2
<1> QED
  BY <1>1, <1>3

(* A lone rule is a round of one DFA from the start.                       *)
LEMMA LoneRule ==
  ASSUME Cardinality(Given) = 1
  PROVE  {{d} : d \in Given} = {Given}
<1>1. {{d} : d \in Given} \in SUBSET Dfa
  BY DEF Dfa
<1>2. \A d \in Given : \E D \in {{e} : e \in Given} : d \in D
  OBVIOUS
<1> QED
  BY <1>1, <1>2, Singletons, OneOfAll

(* Only the barriers begin a round; within one the amount is not 1.        *)
LEMMA LastHasEveryRuleStays ==
  ASSUME HmIInv, LastHasEveryRule, [HmNext]_hm_vars
  PROVE  LastHasEveryRule'
<1>1. CASE \E n \in Given : TakeNfa(n) \/ CompileAndPush(n)
  BY <1>1 DEF LastHasEveryRule, TakeNfa, CompileAndPush, roundVars
<1>2. CASE AllCompiled
  <2>1. dfa_list = {{d} : d \in Given} /\ dfa_amount = Cardinality(Given)
    BY <1>2, AllInTheList DEF AllCompiled, HmIInv, BeforeTheRounds
  <2> QED
    BY <1>2, <2>1, LoneRule DEF LastHasEveryRule, AllCompiled, roundVars
<1>3. CASE \E i \in Iterations : Take(i) \/ StopTaking(i) \/ MergeAndPush(i)
  BY <1>3 DEF LastHasEveryRule, Take, StopTaking, MergeAndPush, InRound
<1>4. CASE NextRound
  <2>1. \A d \in Given : \E D \in next_round_dfa_lis : d \in D
    BY <1>4, AllInTheNextRound
  <2>2. next_round_dfa_lis \in SUBSET Dfa
    BY DEF HmIInv, HmTypeOK
  <2>3. dfa_amount' = 1 => dfa_list' = {Given}
    BY <1>4, <2>1, <2>2, OneOfAll DEF NextRound
  <2> QED
    BY <1>4, <2>3 DEF LastHasEveryRule, NextRound, InRound
<1>5. CASE HmReturn
  BY <1>5 DEF LastHasEveryRule, HmReturn
<1>6. CASE UNCHANGED hm_vars
  BY <1>6 DEF LastHasEveryRule, hm_vars
<1> QED
  BY <1>1, <1>2, <1>3, <1>4, <1>5, <1>6 DEF HmNext

(* The DFA that hm_nfa2dfa and hm_dfalist2dfa return is made of every rule *)
(* and is the only one left, whatever the interleaving.                    *)
THEOREM ReturnedDfaHasEveryRule ==
  HmSpec => [](hm_pc = "returned" => dfa_list = {Given})
<1>1. HmInit => HmIInv /\ LastHasEveryRule
  <2>1. HmInit => LastHasEveryRule
    BY LoneRule DEF HmInit, LastHasEveryRule
  <2> QED
    BY <2>1, InitiallyInOnePlace
<1>2. HmIInv /\ LastHasEveryRule /\ [HmNext]_hm_vars => (HmIInv /\ LastHasEveryRule)'
  <2>1. ASSUME HmIInv, LastHasEveryRule, [HmNext]_hm_vars
        PROVE  HmIInv' /\ LastHasEveryRule'
    BY <2>1, EachStepKeeps, LastHasEveryRuleStays
  <2> QED
    BY <2>1
<1>3. LastHasEveryRule => (hm_pc = "returned" => dfa_list = {Given})
  BY DEF LastHasEveryRule
<1> QED
  BY <1>1, <1>2, <1>3, PTL DEF HmSpec
=============================================================================
