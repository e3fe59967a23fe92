--------------------------- MODULE NfaToDfa_proofs ---------------------------
(***************************************************************************)
(* Theorems about the subset construction, for every NFA, alphabet, cap on *)
(* the number of states and word.                                          *)
(***************************************************************************)
EXTENDS NfaToDfa, Automata_proofs, FiniteSetTheorems

-----------------------------------------------------------------------------
(* The inductive invariant.  TransitionsFollowMoves does not stand on its  *)
(* own: a run is written to the row of `state' with the moves of           *)
(* `cl_state', so the two must belong together, now and for all that is    *)
(* queued.                                                                 *)
IInv ==
  /\ nfa \in Nfas
  /\ TypeOK
  /\ QueuesInStep
  /\ TransitionsFollowMoves

-----------------------------------------------------------------------------
(* A set of symbols moves a set of NFA states to NFA states.               *)
LEMMA MoveType ==
  ASSUME NEW n \in Nfas, NEW S \in SUBSET NfaStates, NEW c \in Symbols
  PROVE  Move(n, S, c) \in SUBSET NfaStates
<1>1. n \in NfaOver(NfaStates)
  BY NfaAssumption
<1>2. DOMAIN n.epsilon = NfaStates
  BY <1>1 DEF NfaOver
<1>3. \A t : EpsilonClosure(n, t) \subseteq NfaStates
  BY <1>2 DEF EpsilonClosure
<1> QED
  BY <1>3 DEF Move, GetTransitions

(* Over a run all symbols move a set where the first one does.             *)
LEMMA RunMovesTogether ==
  ASSUME NEW S, NEW c, NEW len, LengthWithSameTarget(S, c, len),
         NEW j \in c .. c + len - 1
  PROVE  Move(nfa, S, j) = Move(nfa, S, c)
<1>1. \A s \in S : GetTransitions(nfa, s, j) = GetTransitions(nfa, s, c)
  BY DEF LengthWithSameTarget
<1> QED
  BY <1>1 DEF Move

(* A sequence over a set is a sequence over every larger set.              *)
LEMMA SeqMonotonic ==
  ASSUME NEW S, NEW T, S \subseteq T, NEW q \in Seq(S)
  PROVE  q \in Seq(T)
<1>1. q \in [1 .. Len(q) -> S] /\ Len(q) \in Nat
  OBVIOUS
<1>2. q \in [1 .. Len(q) -> T]
  BY <1>1
<1> QED
  BY <1>1, <1>2

-----------------------------------------------------------------------------
(* The invariant holds when nfa2dfa has queued the closure of the root. *)
LEMMA InitIInv == Init => IInv
<1> SUFFICES ASSUME Init PROVE IInv
  OBVIOUS
<1> DEFINE start == EpsilonClosure(nfa, Root)
<1>1. nfa \in NfaOver(NfaStates)
  BY NfaAssumption DEF Init
<1>2. start \in SUBSET NfaStates
  BY <1>1 DEF EpsilonClosure, NfaOver
<1>3. AcceptedBy(nfa, start) \in SUBSET Rules
  BY <1>1, <1>2 DEF AcceptedBy, NfaOver
<1>4. TypeOK
  <2>1. size = 1 /\ 0 .. size - 1 = {0} /\ size \in 1 .. MAX_DFA_SIZE
    BY NfaAssumption DEF Init
  <2>2. state_table \in [{0} -> [Symbols -> {0} \cup {NO_STATE}]]
    BY DEF Init, EmptyRow
  <2>3. i \in 0 .. CSIZE
    BY AlphabetAssumption DEF Init
  <2> QED
    BY <1>2, <1>3, <2>1, <2>2, <2>3 DEF Init, TypeOK, DfaStates, NO_STATE
<1>5. QueuesInStep
  BY DEF Init, QueuesInStep
<1>6. TransitionsFollowMoves
  BY DEF Init, TransitionsFollowMoves, EmptyRow
<1> QED
  BY <1>4, <1>5, <1>6 DEF Init, IInv

-----------------------------------------------------------------------------
(* Steps that only move between the loops disturb nothing.                 *)
LEMMA ControlIInv ==
  ASSUME IInv, GiveUp \/ EndOfState \/ Return
  PROVE  IInv'
<1> USE DEF IInv
<1>1. UNCHANGED <<nfa, mapping, size, state_table, accepted_rules, marking,
                  dead_state, queue, mapping_queue, state, cl_state, i>>
  BY DEF GiveUp, EndOfState, Return
<1>2. pc' \in {"loop", "done", "null"}
  BY DEF GiveUp, EndOfState, Return
<1>3. TypeOK'
  BY <1>1, <1>2 DEF TypeOK, DfaStates
<1>4. QueuesInStep'
  BY <1>1, <1>2 DEF QueuesInStep
<1>5. TransitionsFollowMoves'
  BY <1>1 DEF TransitionsFollowMoves
<1> QED
  BY <1>1, <1>3, <1>4, <1>5

(* Popping both queues keeps the invariant. *)
LEMMA DequeueIInv == ASSUME IInv, Dequeue PROVE IInv'
<1> USE DEF IInv
<1>1. /\ Len(queue) \in Nat /\ Len(queue) > 0
      /\ Len(mapping_queue) = Len(queue)
      /\ Head(queue) = queue[1] /\ Head(mapping_queue) = mapping_queue[1]
  BY DEF Dequeue, TypeOK, QueuesInStep
<1>2. /\ Head(queue) \in DfaStates
      /\ Head(mapping_queue) \in SUBSET NfaStates
      /\ Tail(queue) \in Seq(DfaStates)
      /\ Tail(mapping_queue) \in Seq(SUBSET NfaStates)
  BY <1>1 DEF Dequeue, TypeOK
<1>3. TypeOK'
  <2>1. 0 \in 0 .. CSIZE
    BY AlphabetAssumption
  <2> QED
    BY <1>2, <2>1 DEF Dequeue, TypeOK, DfaStates
<1>4. QueuesInStep'
  <2>1. /\ Len(queue') = Len(queue) - 1 /\ Len(mapping_queue') = Len(queue) - 1
        /\ \A n \in 1 .. Len(queue') :
             queue'[n] = queue[n + 1] /\ mapping_queue'[n] = mapping_queue[n + 1]
    BY <1>1 DEF Dequeue, TypeOK
  <2>2. ASSUME NEW n \in 1 .. Len(queue')
        PROVE  mapping_queue'[n] \in DOMAIN mapping
               /\ mapping[mapping_queue'[n]] = queue'[n]
    <3>1. n + 1 \in 1 .. Len(queue)
      BY <1>1, <2>1
    <3> QED
      BY <2>1, <3>1 DEF QueuesInStep
  <2>3. cl_state' \in DOMAIN mapping /\ mapping[cl_state'] = state'
    <3>1. 1 \in 1 .. Len(queue)
      BY <1>1
    <3> QED
      BY <1>1, <3>1 DEF Dequeue, QueuesInStep
  <2>4. mapping' = mapping
    BY DEF Dequeue
  <2> QED
    BY <2>1, <2>2, <2>3, <2>4 DEF QueuesInStep
<1>5. TransitionsFollowMoves'
  BY DEF Dequeue, TransitionsFollowMoves
<1> QED
  BY <1>3, <1>4, <1>5 DEF Dequeue

(* While symbols are processed, state has a row and stands for cl_state.   *)
LEMMA Processing ==
  ASSUME IInv, pc = "chars"
  PROVE  /\ cl_state \in DOMAIN mapping
         /\ mapping[cl_state] = state
         /\ state \in DfaStates
BY DEF IInv, QueuesInStep, TypeOK

(* A run to a subset found before keeps the invariant. *)
LEMMA FollowKnownIInv ==
  ASSUME IInv, NEW len \in 1 .. CSIZE - i, FollowKnown(len)
  PROVE  IInv'
<1> USE DEF IInv
<1> DEFINE target == Move(nfa, cl_state, i)
<1>1. /\ cl_state \in DOMAIN mapping /\ mapping[cl_state] = state
      /\ state \in DfaStates
  BY Processing DEF FollowKnown
<1>2. /\ i \in Symbols /\ CSIZE \in Nat /\ i \in Nat /\ len \in Nat
      /\ i + len \in 0 .. CSIZE
  BY AlphabetAssumption DEF FollowKnown, TypeOK, Symbols
<1>3. target \in DOMAIN mapping /\ mapping[target] \in DfaStates
  BY DEF FollowKnown, TypeOK
<1>4. state_table' = [state_table EXCEPT
                        ![state] = RowOver(state_table[state], len, mapping[target])]
  BY DEF FollowKnown
<1>5. RowOver(state_table[state], len, mapping[target])
        \in [Symbols -> DfaStates \cup {NO_STATE}]
  BY <1>1, <1>3 DEF RowOver, TypeOK
<1>6. TypeOK'
  BY <1>1, <1>2, <1>4, <1>5 DEF FollowKnown, TypeOK, DfaStates
<1>7. QueuesInStep'
  BY DEF FollowKnown, QueuesInStep
<1>8. TransitionsFollowMoves'
  <2>1. UNCHANGED <<mapping, nfa>>
    BY DEF FollowKnown
  <2>2. ASSUME NEW S \in DOMAIN mapping, NEW a \in Symbols,
               state_table'[mapping[S]][a] # NO_STATE
        PROVE  /\ Move(nfa, S, a) \in DOMAIN mapping
               /\ state_table'[mapping[S]][a] = mapping[Move(nfa, S, a)]
    <3>1. mapping[S] \in DfaStates
      BY DEF TypeOK
    <3>2. CASE S # cl_state
      <4>1. mapping[S] # state
        BY <1>1, <3>2 DEF TransitionsFollowMoves
      <4>2. state_table'[mapping[S]][a] = state_table[mapping[S]][a]
        BY <1>4, <3>1, <4>1 DEF TypeOK
      <4> QED
        BY <2>2, <4>2 DEF TransitionsFollowMoves
    <3>3. CASE S = cl_state /\ a \in i .. i + len - 1
      <4>1. Move(nfa, S, a) = target
        BY <3>3, RunMovesTogether DEF FollowKnown
      <4>2. state_table'[mapping[S]][a] = mapping[target]
        BY <1>1, <1>4, <3>3 DEF TypeOK, RowOver
      <4> QED
        BY <1>3, <4>1, <4>2
    <3>4. CASE S = cl_state /\ a \notin i .. i + len - 1
      <4>1. state_table'[mapping[S]][a] = state_table[mapping[S]][a]
        BY <1>1, <1>4, <3>4 DEF TypeOK, RowOver
      <4> QED
        BY <2>2, <4>1 DEF TransitionsFollowMoves
    <3> QED
      BY <3>2, <3>3, <3>4
  <2> QED
    BY <2>1, <2>2 DEF TransitionsFollowMoves
<1> QED
  BY <1>6, <1>7, <1>8 DEF FollowKnown

(* A run to a new subset keeps the invariant. *)
LEMMA CreateStateIInv ==
  ASSUME IInv, NEW len \in 1 .. CSIZE - i, CreateState(len)
  PROVE  IInv'
<1> USE DEF IInv
<1> DEFINE target == Move(nfa, cl_state, i)
<1>1. /\ cl_state \in DOMAIN mapping /\ mapping[cl_state] = state
      /\ state \in DfaStates
  BY Processing DEF CreateState
<1>2. /\ i \in Symbols /\ CSIZE \in Nat /\ i \in Nat /\ len \in Nat
      /\ i + len \in 0 .. CSIZE
  BY AlphabetAssumption DEF CreateState, TypeOK, Symbols
<1>3. /\ size \in Nat /\ size' = size + 1 /\ size' \in 1 .. MAX_DFA_SIZE
      /\ DfaStates = 0 .. size - 1 /\ DfaStates' = 0 .. size
      /\ DfaStates' = DfaStates \cup {size} /\ size \notin DfaStates
  BY SMTT(20), NfaAssumption DEF CreateState, AtCap, TypeOK, DfaStates
<1>4. target \in SUBSET NfaStates /\ target \notin DOMAIN mapping
  BY <1>1, <1>2, MoveType DEF CreateState, TypeOK
<1>5. AcceptedBy(nfa, target) \in SUBSET Rules
  <2>1. nfa \in NfaOver(NfaStates)
    BY NfaAssumption
  <2> QED
    BY <1>4, <2>1 DEF AcceptedBy, NfaOver
<1>6. /\ mapping' = [S \in DOMAIN mapping \cup {target} |->
                       IF S = target THEN size ELSE mapping[S]]
      /\ DOMAIN mapping' = DOMAIN mapping \cup {target}
      /\ mapping'[target] = size
      /\ \A S \in DOMAIN mapping : mapping'[S] = mapping[S] /\ mapping[S] \in DfaStates
  BY <1>4 DEF CreateState, TypeOK
<1>7. state_table' = [s \in 0 .. size |->
                        IF s = state THEN RowOver(state_table[s], len, size)
                        ELSE IF s = size THEN EmptyRow ELSE state_table[s]]
  BY DEF CreateState
<1>8. TypeOK'
  <2>1. mapping' \in [DOMAIN mapping' -> DfaStates'] /\ DOMAIN mapping' \subseteq SUBSET NfaStates
    BY <1>3, <1>4, <1>6 DEF TypeOK
  <2>2. state_table' \in [DfaStates' -> [Symbols -> DfaStates' \cup {NO_STATE}]]
    <3>1. RowOver(state_table[state], len, size) \in [Symbols -> DfaStates' \cup {NO_STATE}]
      BY <1>1, <1>3 DEF RowOver, TypeOK
    <3>2. EmptyRow \in [Symbols -> DfaStates' \cup {NO_STATE}]
      BY DEF EmptyRow
    <3>3. \A s \in DfaStates : state_table[s] \in [Symbols -> DfaStates' \cup {NO_STATE}]
      BY <1>3 DEF TypeOK
    <3> QED
      BY <1>3, <1>7, <3>1, <3>2, <3>3
  <2>3. accepted_rules' \in [DfaStates' -> SUBSET Rules]
    BY <1>3, <1>5 DEF CreateState, TypeOK
  <2>4. queue' \in Seq(DfaStates')
    <3>1. queue \in Seq(DfaStates')
      BY <1>3, SeqMonotonic DEF TypeOK
    <3> QED
      BY <1>3, <3>1 DEF CreateState, Enqueued
  <2>5. mapping_queue' \in Seq(SUBSET NfaStates)
    BY <1>4 DEF CreateState, TypeOK
  <2>6. /\ dead_state' \in DfaStates' \cup {NO_STATE}
        /\ state' \in DfaStates' \cup {NO_STATE}
        /\ marking' \subseteq DfaStates'
        /\ cl_state' \subseteq NfaStates
    BY <1>3 DEF CreateState, TypeOK
  <2>7. i' \in 0 .. CSIZE /\ pc' = pc
    BY <1>2 DEF CreateState
  <2> QED
    BY <1>3, <2>1, <2>2, <2>3, <2>4, <2>5, <2>6, <2>7 DEF TypeOK
<1>9. QueuesInStep'
  <2>1. /\ Len(queue) \in Nat /\ Len(mapping_queue) = Len(queue)
        /\ queue' = Append(queue, size) /\ mapping_queue' = Append(mapping_queue, target)
    BY DEF CreateState, Enqueued, QueuesInStep, TypeOK
  <2>2. /\ Len(queue') = Len(queue) + 1 /\ Len(mapping_queue') = Len(queue) + 1
        /\ \A n \in 1 .. Len(queue) :
             queue'[n] = queue[n] /\ mapping_queue'[n] = mapping_queue[n]
        /\ queue'[Len(queue) + 1] = size /\ mapping_queue'[Len(queue) + 1] = target
    BY <2>1 DEF TypeOK
  <2>3. ASSUME NEW n \in 1 .. Len(queue')
        PROVE  mapping_queue'[n] \in DOMAIN mapping'
               /\ mapping'[mapping_queue'[n]] = queue'[n]
    <3>1. CASE n \in 1 .. Len(queue)
      BY <1>6, <2>2, <3>1 DEF QueuesInStep
    <3>2. CASE n = Len(queue) + 1
      BY <1>6, <2>2, <3>2
    <3> QED
      BY <2>1, <2>2, <3>1, <3>2
  <2>4. cl_state' \in DOMAIN mapping' /\ mapping'[cl_state'] = state'
    BY <1>1, <1>6 DEF CreateState
  <2> QED
    BY <2>2, <2>3, <2>4 DEF QueuesInStep
<1>10. TransitionsFollowMoves'
  <2>1. \A S, T \in DOMAIN mapping' : mapping'[S] = mapping'[T] => S = T
    BY <1>3, <1>6 DEF TransitionsFollowMoves
  <2>2. nfa' = nfa
    BY DEF CreateState
  <2>3. ASSUME NEW S \in DOMAIN mapping', NEW a \in Symbols,
               state_table'[mapping'[S]][a] # NO_STATE
        PROVE  /\ Move(nfa, S, a) \in DOMAIN mapping'
               /\ state_table'[mapping'[S]][a] = mapping'[Move(nfa, S, a)]
    <3>1. CASE S = target
      <4>1. state_table'[size][a] = NO_STATE
        BY <1>1, <1>3, <1>7 DEF EmptyRow
      <4> QED
        BY <1>6, <2>3, <3>1, <4>1
    <3>2. CASE S # target /\ S # cl_state
      <4>1. S \in DOMAIN mapping /\ mapping'[S] = mapping[S] /\ mapping[S] \in DfaStates
        BY <1>6, <3>2
      <4>2. mapping[S] # state
        BY <1>1, <3>2, <4>1 DEF TransitionsFollowMoves
      <4>3. state_table'[mapping[S]][a] = state_table[mapping[S]][a]
        BY <1>3, <1>7, <4>1, <4>2
      <4>4. /\ Move(nfa, S, a) \in DOMAIN mapping
            /\ state_table[mapping[S]][a] = mapping[Move(nfa, S, a)]
        BY <2>3, <4>1, <4>3 DEF TransitionsFollowMoves
      <4> QED
        BY <1>6, <4>1, <4>3, <4>4
    <3>3. CASE S = cl_state /\ a \in i .. i + len - 1
      <4>1. Move(nfa, S, a) = target
        BY <3>3, RunMovesTogether DEF CreateState
      <4>2. state_table'[state][a] = size
        BY <1>1, <1>3, <1>7, <3>3 DEF RowOver
      <4> QED
        BY <1>1, <1>6, <3>3, <4>1, <4>2
    <3>4. CASE S = cl_state /\ a \notin i .. i + len - 1
      <4>1. state_table'[state][a] = state_table[state][a]
        BY <1>1, <1>3, <1>7, <3>4 DEF RowOver
      <4>2. /\ Move(nfa, S, a) \in DOMAIN mapping
            /\ state_table[state][a] = mapping[Move(nfa, S, a)]
        BY <1>1, <1>6, <2>3, <3>4, <4>1 DEF TransitionsFollowMoves
      <4> QED
        BY <1>1, <1>6, <3>4, <4>1, <4>2
    <3> QED
      BY <3>1, <3>2, <3>3, <3>4
  <2> QED
    BY <2>1, <2>2, <2>3 DEF TransitionsFollowMoves
<1> QED
  BY <1>8, <1>9, <1>10 DEF CreateState

(* The invariant is inductive. *)
LEMMA NextIInv == IInv /\ [Next]_vars => IInv'
<1> SUFFICES ASSUME IInv, [Next]_vars PROVE IInv'
  OBVIOUS
<1>1. CASE Dequeue
  BY <1>1, DequeueIInv
<1>2. CASE \E len \in 1 .. CSIZE - i : FollowKnown(len) \/ CreateState(len)
  BY <1>2, FollowKnownIInv, CreateStateIInv
<1>3. CASE GiveUp \/ EndOfState \/ Return
  BY <1>3, ControlIInv
<1>4. CASE UNCHANGED vars
  BY <1>4 DEF vars, IInv, TypeOK, QueuesInStep, TransitionsFollowMoves, DfaStates
<1> QED
  BY <1>1, <1>2, <1>3, <1>4 DEF Next

-----------------------------------------------------------------------------
(* The invariant holds in every state of nfa2dfa, for every NFA and cap.   *)
THEOREM Inductive == Spec => []IInv
BY InitIInv, NextIInv, PTL DEF Spec

(* The DFA arrays keep their bounds for every NFA: no run of symbols ever  *)
(* passes the end of its row, no state number passes the cap.              *)
THEOREM TypeCorrect == Spec => []TypeOK
BY Inductive, PTL DEF IInv

(* The two queues of nfa2dfa never get out of step.                        *)
THEOREM QueuesStayInStep == Spec => []QueuesInStep
BY Inductive, PTL DEF IInv

(* Writing the transitions of a whole run of symbols at once never writes  *)
(* one that the NFA does not make.                                         *)
THEOREM TransitionsAreMoves == Spec => []TransitionsFollowMoves
BY Inductive, PTL DEF IInv

-----------------------------------------------------------------------------
(***************************************************************************)
(* Refinement.  Each action maps to a step of Powerset or to a stutter     *)
(* once it is known which transitions are still to be written: none of a   *)
(* state that was processed, all of one that was not, and those from i on  *)
(* of the state being processed.                                           *)
(***************************************************************************)
Processed(s) == s \in marking /\ ~(pc \in {"chars", "null"} /\ s = state)

Progress ==
  /\ \A s \in DfaStates : \E S \in DOMAIN mapping : mapping[S] = s
  /\ \A s \in DfaStates \ marking :
       /\ \E n \in 1 .. Len(queue) : queue[n] = s
       /\ \A a \in Symbols : state_table[s][a] = NO_STATE
  /\ \A s \in DfaStates : Processed(s) =>
       \A a \in Symbols : state_table[s][a] # NO_STATE
  /\ pc = "chars" =>
       /\ state \in marking
       /\ \A a \in Symbols : state_table[state][a] # NO_STATE <=> a < i
  /\ pc = "done" => queue = <<>>

(* At the beginning the only state is queued and nothing is filled in. *)
LEMMA InitProgress == Init => Progress
<1> SUFFICES ASSUME Init PROVE Progress
  OBVIOUS
<1>1. DfaStates = {0} /\ marking = {} /\ pc = "loop" /\ queue[1] = 0 /\ Len(queue) = 1
  BY DEF Init, DfaStates
<1>2. \A a \in Symbols : state_table[0][a] = NO_STATE
  BY DEF Init, EmptyRow
<1>3. \E S \in DOMAIN mapping : mapping[S] = 0
  BY DEF Init
<1>4. \E n \in 1 .. Len(queue) : queue[n] = 0
  BY <1>1
<1> QED
  BY <1>1, <1>2, <1>3, <1>4 DEF Progress, Processed

(* A state that is dequeued has its whole row to come. *)
LEMMA DequeueProgress == ASSUME IInv, Progress, Dequeue PROVE Progress'
<1>1. /\ Len(queue) \in Nat /\ Len(queue) > 0
      /\ Head(queue) = queue[1] /\ Head(queue) \in DfaStates
      /\ Len(queue') = Len(queue) - 1
      /\ \A n \in 1 .. Len(queue) - 1 : queue'[n] = queue[n + 1]
  BY DEF Dequeue, IInv, TypeOK
<1>2. /\ DfaStates' = DfaStates
      /\ UNCHANGED <<mapping, state_table>>
      /\ marking' = marking \cup {queue[1]}
      /\ state' = queue[1]
      /\ i' = 0
      /\ pc = "loop"
      /\ pc' = IF queue[1] \in marking THEN "loop" ELSE "chars"
  BY <1>1 DEF Dequeue, DfaStates
<1>3. ASSUME NEW s \in DfaStates' \ marking'
      PROVE  /\ \E n \in 1 .. Len(queue') : queue'[n] = s
             /\ \A a \in Symbols : state_table'[s][a] = NO_STATE
  <2>1. s \in DfaStates \ marking /\ s # queue[1]
    BY <1>2, <1>3
  <2>2. PICK n \in 1 .. Len(queue) : queue[n] = s
    BY <2>1 DEF Progress
  <2>3. n - 1 \in 1 .. Len(queue') /\ queue'[n - 1] = s
    BY <1>1, <2>1, <2>2
  <2> QED
    BY <1>2, <2>1, <2>3 DEF Progress
<1>4. ASSUME NEW s \in DfaStates', Processed(s)'
      PROVE  \A a \in Symbols : state_table'[s][a] # NO_STATE
  <2>1. Processed(s)
    BY <1>2, <1>4 DEF Processed
  <2> QED
    BY <1>2, <2>1 DEF Progress
<1>5. ASSUME pc' = "chars"
      PROVE  /\ state' \in marking'
             /\ \A a \in Symbols : state_table'[state'][a] # NO_STATE <=> a < i'
  <2>1. queue[1] \notin marking
    BY <1>2, <1>5
  <2>2. \A a \in Symbols : state_table[queue[1]][a] = NO_STATE
    BY <1>1, <2>1 DEF Progress
  <2>3. \A a \in Symbols : ~(a < 0)
    BY AlphabetAssumption DEF Symbols
  <2> QED
    BY <1>2, <2>2, <2>3
<1>6. \A s \in DfaStates' : \E S \in DOMAIN mapping' : mapping'[S] = s
  BY <1>2 DEF Progress
<1> QED
  BY <1>2, <1>3, <1>4, <1>5, <1>6 DEF Progress

(* A run to a known state fills in the symbols it goes over. *)
LEMMA FollowKnownProgress ==
  ASSUME IInv, Progress, NEW len \in 1 .. CSIZE - i, FollowKnown(len)
  PROVE  Progress'
<1> DEFINE target == Move(nfa, cl_state, i)
<1>1. state \in DfaStates /\ state \in marking
  BY Processing DEF FollowKnown, Progress
<1>2. mapping[target] \in DfaStates /\ mapping[target] # NO_STATE
  BY DEF FollowKnown, IInv, TypeOK, DfaStates, NO_STATE
<1>3. /\ DfaStates' = DfaStates
      /\ UNCHANGED <<mapping, marking, queue, state, pc>>
      /\ pc = "chars"
      /\ i' = i + len /\ i \in Nat /\ len \in Nat /\ CSIZE \in Nat
  BY AlphabetAssumption DEF FollowKnown, DfaStates, IInv, TypeOK
<1>4. \A s \in DfaStates \ {state} : state_table'[s] = state_table[s]
  BY DEF FollowKnown, IInv, TypeOK
<1>5. \A a \in Symbols :
        state_table'[state][a] =
          IF a \in i .. i + len - 1 THEN mapping[target] ELSE state_table[state][a]
  BY <1>1 DEF FollowKnown, IInv, TypeOK, RowOver
<1>6. ASSUME NEW a \in Symbols
      PROVE  state_table'[state][a] # NO_STATE <=> a < i'
  <2>1. a \in Nat
    BY DEF Symbols
  <2>2. state_table[state][a] # NO_STATE <=> a < i
    BY <1>3 DEF Progress
  <2> QED
    BY <1>2, <1>3, <1>5, <2>1, <2>2
<1> QED
  BY <1>1, <1>3, <1>4, <1>6 DEF Progress, Processed

(* A run to a new state fills in the symbols it goes over and queues the state. *)
LEMMA CreateStateProgress ==
  ASSUME IInv, Progress, NEW len \in 1 .. CSIZE - i, CreateState(len)
  PROVE  Progress'
<1> DEFINE target == Move(nfa, cl_state, i)
<1>1. state \in DfaStates /\ state \in marking
  BY Processing DEF CreateState, Progress
<1>2. /\ size \in Nat /\ DfaStates' = DfaStates \cup {size} /\ size \notin DfaStates
      /\ size # NO_STATE /\ DfaStates' = 0 .. size
  BY SMTT(20) DEF CreateState, IInv, TypeOK, DfaStates, NO_STATE
<1>3. /\ UNCHANGED <<marking, state, pc>>
      /\ pc = "chars"
      /\ i' = i + len /\ i \in Nat /\ len \in Nat /\ CSIZE \in Nat
      /\ size \notin marking
  BY <1>2, AlphabetAssumption DEF CreateState, IInv, TypeOK
<1>4. \A s \in DfaStates \ {state} : state_table'[s] = state_table[s]
  BY <1>2 DEF CreateState
<1>5. \A a \in Symbols :
        state_table'[state][a] =
          IF a \in i .. i + len - 1 THEN size ELSE state_table[state][a]
  BY <1>1, <1>2 DEF CreateState, RowOver
<1>6. \A a \in Symbols : state_table'[size][a] = NO_STATE
  BY <1>1, <1>2 DEF CreateState, EmptyRow
<1>7. /\ \A n \in 1 .. Len(queue) : n \in 1 .. Len(queue') /\ queue'[n] = queue[n]
      /\ Len(queue) + 1 \in 1 .. Len(queue') /\ queue'[Len(queue) + 1] = size
  BY DEF CreateState, Enqueued, IInv, TypeOK
<1>8. \A s \in DfaStates' : \E S \in DOMAIN mapping' : mapping'[S] = s
  <2>1. \A S \in DOMAIN mapping : S \in DOMAIN mapping' /\ mapping'[S] = mapping[S]
    BY DEF CreateState
  <2>2. target \in DOMAIN mapping' /\ mapping'[target] = size
    BY DEF CreateState
  <2> QED
    BY <1>2, <2>1, <2>2 DEF Progress
<1>9. ASSUME NEW s \in DfaStates' \ marking'
      PROVE  /\ \E n \in 1 .. Len(queue') : queue'[n] = s
             /\ \A a \in Symbols : state_table'[s][a] = NO_STATE
  <2>1. CASE s = size
    BY <1>6, <1>7, <2>1
  <2>2. CASE s # size
    <3>1. s \in DfaStates \ marking /\ s # state
      BY <1>1, <1>2, <1>3, <1>9, <2>2
    <3>2. PICK n \in 1 .. Len(queue) : queue[n] = s
      BY <3>1 DEF Progress
    <3> QED
      BY <1>4, <1>7, <3>1, <3>2 DEF Progress
  <2> QED
    BY <2>1, <2>2
<1>10. ASSUME NEW s \in DfaStates', Processed(s)'
       PROVE  \A a \in Symbols : state_table'[s][a] # NO_STATE
  <2>1. s \in DfaStates /\ s # state /\ Processed(s)
    BY <1>2, <1>3, <1>10 DEF Processed
  <2> QED
    BY <1>4, <2>1 DEF Progress
<1>11. ASSUME NEW a \in Symbols
       PROVE  state_table'[state][a] # NO_STATE <=> a < i'
  <2>1. a \in Nat
    BY DEF Symbols
  <2>2. state_table[state][a] # NO_STATE <=> a < i
    BY <1>3 DEF Progress
  <2> QED
    BY <1>2, <1>3, <1>5, <2>1, <2>2
<1> QED
  BY <1>1, <1>3, <1>8, <1>9, <1>10, <1>11 DEF Progress

(* Giving up, ending a state and returning change no row. *)
LEMMA ControlProgress ==
  ASSUME IInv, Progress, GiveUp \/ EndOfState \/ Return
  PROVE  Progress'
<1>1. UNCHANGED <<DfaStates, mapping, marking, queue, state, state_table, i>>
  BY DEF GiveUp, EndOfState, Return, DfaStates
<1>2. pc' # "chars"
  BY DEF GiveUp, EndOfState, Return
<1>3. ASSUME NEW s \in DfaStates', Processed(s)'
      PROVE  \A a \in Symbols : state_table'[s][a] # NO_STATE
  <2>1. CASE EndOfState /\ s = state
    <3>1. \A a \in Symbols : a < i
      BY AlphabetAssumption, <2>1 DEF EndOfState, Symbols
    <3> QED
      BY <1>1, <2>1, <3>1 DEF EndOfState, Progress
  <2>2. CASE ~(EndOfState /\ s = state)
    <3>1. Processed(s)
      BY <1>1, <1>3, <2>2 DEF Processed, GiveUp, EndOfState, Return
    <3> QED
      BY <1>1, <3>1 DEF Progress
  <2> QED
    BY <2>1, <2>2
<1>4. /\ \A s \in DfaStates' : \E S \in DOMAIN mapping' : mapping'[S] = s
      /\ \A s \in DfaStates' \ marking' :
           /\ \E n \in 1 .. Len(queue') : queue'[n] = s
           /\ \A a \in Symbols : state_table'[s][a] = NO_STATE
  BY <1>1 DEF Progress
<1>5. pc' = "done" => queue' = <<>>
  BY DEF GiveUp, EndOfState, Return
<1> QED
  BY <1>2, <1>3, <1>4, <1>5 DEF Progress

(* Progress is inductive. *)
LEMMA NextProgress == IInv /\ Progress /\ [Next]_vars => Progress'
<1> SUFFICES ASSUME IInv, Progress, [Next]_vars PROVE Progress'
  OBVIOUS
<1>1. CASE Dequeue
  BY <1>1, DequeueProgress
<1>2. CASE \E len \in 1 .. CSIZE - i : FollowKnown(len) \/ CreateState(len)
  BY <1>2, FollowKnownProgress, CreateStateProgress
<1>3. CASE GiveUp \/ EndOfState \/ Return
  BY <1>3, ControlProgress
<1>4. CASE UNCHANGED vars
  BY <1>4 DEF vars, Progress, Processed, DfaStates
<1> QED
  BY <1>1, <1>2, <1>3, <1>4 DEF Next

(* When the queue is empty every state has been processed.                 *)
LEMMA AllProcessed ==
  ASSUME Progress, pc \in {"loop", "done"}, queue = <<>>
  PROVE  \A s \in DfaStates, a \in Symbols : state_table[s][a] # NO_STATE
<1>1. \A s \in DfaStates : s \in marking
  BY DEF Progress
<1>2. \A s \in DfaStates : Processed(s)
  BY <1>1 DEF Processed
<1> QED
  BY <1>2 DEF Progress

(* No transition of a DFA that is returned is left NO_STATE.               *)
THEOREM ReturnedDfaIsComplete ==
  Spec => [](pc = "done" =>
               \A s \in DfaStates, a \in Symbols : state_table[s][a] # NO_STATE)
<1>1. IInv /\ Progress =>
        (pc = "done" => \A s \in DfaStates, a \in Symbols : state_table[s][a] # NO_STATE)
  BY AllProcessed DEF Progress
<1>2. Init => IInv /\ Progress
  BY InitIInv, InitProgress
<1>3. IInv /\ Progress /\ [Next]_vars => (IInv /\ Progress)'
  BY NextIInv, NextProgress
<1> QED
  BY <1>1, <1>2, <1>3, PTL DEF Spec

-----------------------------------------------------------------------------
(* The abstract moves, one at a time.                                      *)
Moves == {m \in (DOMAIN mapping) \X Symbols \X (DOMAIN mapping) :
            state_table[mapping[m[1]]][m[2]] = mapping[m[3]]}

(* A transition is among the moves exactly if the table has it. *)
LEMMA MoveRecorded ==
  ASSUME NEW S \in DOMAIN mapping, NEW a \in Symbols, NEW T \in DOMAIN mapping
  PROVE  <<S, a, T>> \in Moves <=> state_table[mapping[S]][a] = mapping[T]
BY DEF Moves

(* Powerset has its own copies of the operators of Automata.               *)
LEMMA SameOperators ==
  /\ Abstract!Symbols = Symbols
  /\ \A n, t : Abstract!EpsilonClosure(n, t) = EpsilonClosure(n, t)
  /\ \A n, S, a : Abstract!Move(n, S, a) = Move(n, S, a)
  /\ \A S : Abstract!Cardinality(S) = Cardinality(S)
<1>1. Abstract!Symbols = Symbols
  BY DEF Abstract!Symbols, Symbols
<1>2. \A n, t : Abstract!EpsilonClosure(n, t) = EpsilonClosure(n, t)
  BY DEF Abstract!EpsilonClosure, EpsilonClosure, Abstract!EpsilonClosed, EpsilonClosed
<1>3. \A n, S, a : Abstract!Move(n, S, a) = Move(n, S, a)
  BY <1>2 DEF Abstract!Move, Move, Abstract!GetTransitions, GetTransitions
<1>4. \A S : Abstract!Cardinality(S) = Cardinality(S)
  BY DEF Abstract!Cardinality, Cardinality
<1> QED
  BY <1>1, <1>2, <1>3, <1>4

(* The initial states of nfa2dfa are those of Powerset. *)
LEMMA RefineInit == Init => Abstract!Init
<1> SUFFICES ASSUME Init PROVE Abstract!Init
  OBVIOUS
<1>1. Moves = {}
  BY DEF Init, Moves, EmptyRow, NO_STATE
<1> QED
  BY <1>1, SameOperators DEF Init, Moves, Abstract!Init

(* One subset per DFA state, so as many subsets as DFA states.             *)
LEMMA OneSubsetPerState ==
  ASSUME IInv, Progress
  PROVE  Cardinality(DOMAIN mapping) = size
<1> DEFINE subset == [s \in DfaStates |-> CHOOSE S \in DOMAIN mapping : mapping[S] = s]
<1>1. \A s \in DfaStates : subset[s] \in DOMAIN mapping /\ mapping[subset[s]] = s
  BY DEF Progress
<1>2. subset \in Injection(DfaStates, DOMAIN mapping)
  BY <1>1 DEF Injection, IsInjective
<1>3. subset \in Surjection(DfaStates, DOMAIN mapping)
  <2>1. ASSUME NEW S \in DOMAIN mapping PROVE \E s \in DfaStates : subset[s] = S
    <3>1. mapping[S] \in DfaStates
      BY DEF IInv, TypeOK
    <3>2. subset[mapping[S]] = S
      BY <1>1, <3>1 DEF IInv, TransitionsFollowMoves
    <3> QED
      BY <3>1, <3>2
  <2> QED
    BY <1>1, <2>1 DEF Surjection
<1>4. ExistsBijection(DfaStates, DOMAIN mapping)
  BY <1>2, <1>3 DEF ExistsBijection, Bijection
<1>5. /\ size \in Nat \ {0} /\ 0 \in Int /\ size - 1 \in Int
  BY NfaAssumption DEF IInv, TypeOK
<1>6. IsFiniteSet(DfaStates) /\ Cardinality(DfaStates) = size
  <2>1. /\ IsFiniteSet(0 .. size - 1)
        /\ Cardinality(0 .. size - 1) = IF 0 > size - 1 THEN 0 ELSE size - 1 - 0 + 1
    BY <1>5, FS_Interval
  <2> QED
    BY <1>5, <2>1 DEF DfaStates
<1> QED
  BY <1>4, <1>6, FS_Bijection

(* A run to a known subset fixes moves of Powerset. *)
LEMMA RefineFollowKnown ==
  ASSUME IInv, Progress, NEW len \in 1 .. CSIZE - i, FollowKnown(len),
         NEW CONSTANT S, S = cl_state,
         NEW CONSTANT group, group = i .. i + len - 1
  PROVE  Abstract!FixMoves(S, group)
<1> DEFINE target == Move(nfa, cl_state, i)
<1>1. /\ cl_state \in DOMAIN mapping /\ mapping[cl_state] = state
      /\ state \in DfaStates
  BY Processing DEF FollowKnown
<1>2. /\ i \in Nat /\ len \in Nat /\ i \in group
      /\ group \subseteq Symbols
      /\ \A a \in group : ~(a < i)
  BY AlphabetAssumption DEF FollowKnown, IInv, TypeOK, Symbols
<1>3. target \in DOMAIN mapping /\ target \in SUBSET NfaStates
  BY DEF FollowKnown, IInv, TypeOK
<1>4. \A a \in group : Move(nfa, cl_state, a) = target
  BY RunMovesTogether DEF FollowKnown
<1>5. \A a \in group : state_table[state][a] = NO_STATE
  BY <1>2 DEF FollowKnown, Progress
<1>6. \A T \in DOMAIN mapping : mapping[T] # NO_STATE
  BY DEF IInv, TypeOK, DfaStates, NO_STATE
<1>7. \A a \in group : ~Abstract!Fixed(cl_state, a)
  <2>1. ASSUME NEW a \in group, NEW T \in DOMAIN mapping
        PROVE  <<cl_state, a, T>> \notin Moves
    <3>1. a \in Symbols /\ state_table[mapping[cl_state]][a] # mapping[T]
      BY <1>1, <1>2, <1>5, <1>6
    <3> QED
      BY <1>1, <3>1, MoveRecorded
  <2> QED
    BY <2>1 DEF Abstract!Fixed, Moves
<1>8. UNCHANGED <<nfa, mapping, pc>> /\ pc = "chars"
  BY DEF FollowKnown
<1>9. Moves' = Moves \cup {<<cl_state, a, target>> : a \in group}
  <2>1. ASSUME NEW X \in DOMAIN mapping, NEW a \in Symbols, NEW T \in DOMAIN mapping
        PROVE  state_table'[mapping[X]][a] = mapping[T] <=>
                 \/ state_table[mapping[X]][a] = mapping[T]
                 \/ X = cl_state /\ a \in group /\ T = target
    <3>1. mapping[X] \in DfaStates /\ (mapping[X] = state => X = cl_state)
      BY <1>1 DEF IInv, TypeOK, TransitionsFollowMoves
    <3>2. mapping[T] = mapping[target] => T = target
      BY <1>3 DEF IInv, TransitionsFollowMoves
    <3>3. state_table'[mapping[X]][a] =
            IF mapping[X] = state /\ a \in group THEN mapping[target]
                                                 ELSE state_table[mapping[X]][a]
      BY <1>1, <3>1 DEF FollowKnown, IInv, TypeOK, RowOver
    <3> QED
      BY <1>1, <1>5, <1>6, <3>1, <3>2, <3>3
  <2>2. \A m : m \in Moves' <=>
               \/ m \in Moves
               \/ m \in {<<cl_state, a, target>> : a \in group}
    BY <1>1, <1>2, <1>3, <1>8, <2>1 DEF Moves
  <2> QED
    BY <2>2
<1>10. \A a \in group : Abstract!Move(nfa, cl_state, a) = target
  BY <1>4, SameOperators
<1>11. DOMAIN mapping' = DOMAIN mapping \cup {target}
  BY <1>3, <1>8
<1>12. group # {}
  BY <1>2
<1> HIDE DEF target
<1> QED
  BY <1>3, <1>7, <1>8, <1>9, <1>10, <1>11, <1>12 DEF Abstract!FixMoves, Moves

(* A run to a new subset fixes moves of Powerset. *)
LEMMA RefineCreateState ==
  ASSUME IInv, Progress, NEW len \in 1 .. CSIZE - i, CreateState(len),
         NEW CONSTANT S, S = cl_state,
         NEW CONSTANT group, group = i .. i + len - 1
  PROVE  Abstract!FixMoves(S, group)
<1> DEFINE target == Move(nfa, cl_state, i)
<1>1. /\ cl_state \in DOMAIN mapping /\ mapping[cl_state] = state
      /\ state \in DfaStates
  BY Processing DEF CreateState
<1>2. /\ i \in Nat /\ len \in Nat /\ i \in group /\ i \in Symbols
      /\ group \subseteq Symbols
      /\ \A a \in group : ~(a < i)
  BY SMTT(20), AlphabetAssumption DEF CreateState, IInv, TypeOK, Symbols
<1>3. target \notin DOMAIN mapping /\ target \in SUBSET NfaStates
  BY <1>1, <1>2, MoveType DEF CreateState, IInv, TypeOK
<1>4. \A a \in group : Move(nfa, cl_state, a) = target
  BY RunMovesTogether DEF CreateState
<1>5. \A a \in group : state_table[state][a] = NO_STATE
  BY <1>2 DEF CreateState, Progress
<1>6. \A T \in DOMAIN mapping : mapping[T] # NO_STATE /\ mapping[T] # size
  BY DEF IInv, TypeOK, DfaStates, NO_STATE
<1>7. \A a \in group : ~Abstract!Fixed(cl_state, a)
  <2>1. ASSUME NEW a \in group, NEW T \in DOMAIN mapping
        PROVE  <<cl_state, a, T>> \notin Moves
    <3>1. a \in Symbols /\ state_table[mapping[cl_state]][a] # mapping[T]
      BY <1>1, <1>2, <1>5, <1>6
    <3> QED
      BY <1>1, <3>1, MoveRecorded
  <2> QED
    BY <2>1 DEF Abstract!Fixed, Moves
<1>8. UNCHANGED <<nfa, pc>> /\ pc = "chars"
  BY DEF CreateState
<1>9. /\ DOMAIN mapping' = DOMAIN mapping \cup {target}
      /\ mapping'[target] = size
      /\ \A X \in DOMAIN mapping : mapping'[X] = mapping[X] /\ mapping[X] \in DfaStates
  BY <1>3 DEF CreateState, IInv, TypeOK
<1>10. /\ size \in Nat /\ size # NO_STATE /\ DfaStates = 0 .. size - 1
       /\ size \notin DfaStates /\ DfaStates \subseteq 0 .. size /\ size \in 0 .. size
  BY DEF IInv, TypeOK, DfaStates, NO_STATE
<1>11. \A s \in DfaStates, a \in Symbols :
         /\ state_table'[s][a] =
              IF s = state /\ a \in group THEN size ELSE state_table[s][a]
         /\ state_table'[size][a] = NO_STATE
         /\ state_table[s][a] # size
  BY SMTT(20), <1>1, <1>10 DEF CreateState, RowOver, EmptyRow, IInv, TypeOK
<1>12. Moves' = Moves \cup {<<cl_state, a, target>> : a \in group}
  <2>1. ASSUME NEW X \in DOMAIN mapping', NEW a \in Symbols, NEW T \in DOMAIN mapping'
        PROVE  state_table'[mapping'[X]][a] = mapping'[T] <=>
                 \/ /\ X \in DOMAIN mapping /\ T \in DOMAIN mapping
                    /\ state_table[mapping[X]][a] = mapping[T]
                 \/ X = cl_state /\ a \in group /\ T = target
    <3>1. CASE X = target
      <4>1. state_table'[mapping'[X]][a] = NO_STATE
        BY <1>1, <1>9, <1>11, <3>1
      <4>2. mapping'[T] # NO_STATE
        BY <1>6, <1>9, <1>10
      <4> QED
        BY <1>1, <1>3, <3>1, <4>1, <4>2
    <3>2. CASE X # target
      <4>1. /\ X \in DOMAIN mapping /\ mapping'[X] = mapping[X]
            /\ mapping[X] \in DfaStates
            /\ (mapping[X] = state <=> X = cl_state)
        BY <1>1, <1>9, <3>2 DEF IInv, TransitionsFollowMoves
      <4>2. CASE X = cl_state /\ a \in group
        <5>1. state_table'[mapping'[X]][a] = size
          BY <1>11, <4>1, <4>2
        <5>2. mapping'[T] = size <=> T = target
          BY <1>6, <1>9
        <5>3. state_table[mapping[X]][a] = NO_STATE
          BY <1>1, <1>5, <4>2
        <5> QED
          BY <1>6, <4>2, <5>1, <5>2, <5>3
      <4>3. CASE ~(X = cl_state /\ a \in group)
        <5>1. state_table'[mapping'[X]][a] = state_table[mapping[X]][a]
          BY <1>11, <4>1, <4>3
        <5>2. state_table[mapping[X]][a] # size
          BY <1>11, <4>1
        <5> QED
          BY <1>9, <4>1, <4>3, <5>1, <5>2
      <4> QED
        BY <4>2, <4>3
    <3> QED
      BY <3>1, <3>2
  <2>2. \A m : m \in Moves' <=>
               \/ m \in Moves
               \/ m \in {<<cl_state, a, target>> : a \in group}
    <3>1. ASSUME NEW m, m \in Moves'
          PROVE  m \in Moves \/ m \in {<<cl_state, a, target>> : a \in group}
      BY <2>1, <3>1 DEF Moves
    <3>2. ASSUME NEW m, m \in Moves PROVE m \in Moves'
      BY <1>9, <2>1, <3>2 DEF Moves
    <3>3. ASSUME NEW a \in group PROVE <<cl_state, a, target>> \in Moves'
      BY <1>1, <1>2, <1>9, <2>1, <3>3 DEF Moves
    <3> QED
      BY <3>1, <3>2, <3>3
  <2> QED
    BY <2>2
<1>13. \A a \in group : Abstract!Move(nfa, cl_state, a) = target
  BY <1>4, SameOperators
<1>14. group # {}
  BY <1>2
<1> HIDE DEF target
<1> QED
  BY SMTT(20), <1>3, <1>7, <1>8, <1>9, <1>12, <1>13, <1>14 DEF Abstract!FixMoves, Moves

(* NULL is returned only where Powerset may give up. *)
LEMMA RefineGiveUp == ASSUME IInv, Progress, GiveUp PROVE Abstract!GiveUp
<1>1. cl_state \in DOMAIN mapping /\ i \in Symbols
  BY Processing, AlphabetAssumption DEF GiveUp, IInv, TypeOK, Symbols
<1>2. Cardinality(DOMAIN mapping) = MAX_DFA_SIZE
  BY OneSubsetPerState DEF GiveUp, AtCap
<1>3. MAX_DFA_SIZE >= MAX_DFA_SIZE
  BY NfaAssumption
<1> QED
  BY <1>1, <1>2, <1>3, SameOperators DEF GiveUp, Abstract!GiveUp

(* A DFA is returned only where Powerset has finished. *)
LEMMA RefineReturn == ASSUME IInv, Progress, Return PROVE Abstract!Finish
<1>1. \A s \in DfaStates, a \in Symbols : state_table[s][a] # NO_STATE
  BY AllProcessed DEF Return
<1>2. ASSUME NEW S \in DOMAIN mapping, NEW a \in Symbols
      PROVE  \E T \in DOMAIN mapping : <<S, a, T>> \in Moves
  <2>1. mapping[S] \in DfaStates
    BY DEF IInv, TypeOK
  <2>2. /\ Move(nfa, S, a) \in DOMAIN mapping
        /\ state_table[mapping[S]][a] = mapping[Move(nfa, S, a)]
    BY <1>1, <2>1 DEF IInv, TransitionsFollowMoves
  <2> QED
    BY <2>2, MoveRecorded
<1> QED
  BY <1>2, SameOperators DEF Return, Abstract!Finish, Abstract!Fixed, Moves

(* Every step of nfa2dfa is one of Powerset or changes nothing of it. *)
LEMMA RefineNext ==
  ASSUME IInv, Progress, [Next]_vars
  PROVE  [Abstract!Next]_(Abstract!vars)
<1>1. CASE Dequeue \/ EndOfState \/ UNCHANGED vars
  BY <1>1 DEF Dequeue, EndOfState, vars, Abstract!vars
<1>2. CASE \E len \in 1 .. CSIZE - i : FollowKnown(len) \/ CreateState(len)
  <2>1. PICK len \in 1 .. CSIZE - i : FollowKnown(len) \/ CreateState(len)
    BY <1>2
  <2>2. PICK S, group : S = cl_state /\ group = i .. i + len - 1
    OBVIOUS
  <2>3. Abstract!FixMoves(S, group)
    BY <2>1, <2>2, RefineFollowKnown, RefineCreateState
  <2>4. S \in DOMAIN mapping /\ group \in SUBSET Symbols
    BY <2>1, <2>2, Processing, AlphabetAssumption
       DEF FollowKnown, CreateState, IInv, TypeOK, Symbols
  <2> QED
    BY <2>3, <2>4, SameOperators DEF Abstract!Next
<1>3. CASE GiveUp
  BY <1>3, RefineGiveUp DEF Abstract!Next
<1>4. CASE Return
  BY <1>4, RefineReturn DEF Abstract!Next
<1> QED
  BY <1>1, <1>2, <1>3, <1>4 DEF Next

(* Whatever the NFA, nfa2dfa is a powerset construction: it finds subsets  *)
(* and fixes their moves, ends when no move is missing, and gives up only  *)
(* in front of one subset more than the cap allows.                        *)
THEOREM ImplementsPowerset == Spec => BuildsPowerset
<1>1. Init => IInv /\ Progress
  BY InitIInv, InitProgress
<1>2. IInv /\ Progress /\ [Next]_vars => (IInv /\ Progress)'
  BY NextIInv, NextProgress
<1>3. IInv /\ Progress /\ [Next]_vars => [Abstract!Next]_(Abstract!vars)
  BY RefineNext
<1> QED
  BY <1>1, <1>2, <1>3, RefineInit, PTL DEF Spec, BuildsPowerset, Abstract!Spec

-----------------------------------------------------------------------------
(***************************************************************************)
(* What the returned DFA reports.                                          *)
(***************************************************************************)

(* A state has the rules of its subset, the entry state is that of the     *)
(* closure of the root, the dead state that of the empty set; NULL was     *)
(* returned in front of a subset without a state.                          *)
SubsetLabels ==
  /\ EpsilonClosure(nfa, Root) \in DOMAIN mapping
  /\ mapping[EpsilonClosure(nfa, Root)] = 0
  /\ \A S \in DOMAIN mapping : accepted_rules[mapping[S]] = AcceptedBy(nfa, S)
  /\ IF {} \in DOMAIN mapping THEN dead_state = mapping[{}] ELSE dead_state = NO_STATE
  /\ pc = "null" =>
       /\ cl_state \in DOMAIN mapping
       /\ i \in Symbols
       /\ Move(nfa, cl_state, i) \notin DOMAIN mapping
       /\ size = MAX_DFA_SIZE

(* The entry state is labeled with the closure of the root. *)
LEMMA InitLabels == Init => SubsetLabels
<1> SUFFICES ASSUME Init PROVE SubsetLabels
  OBVIOUS
<1> DEFINE start == EpsilonClosure(nfa, Root)
<1>1. Root \in start
  <2>1. nfa \in NfaOver(NfaStates)
    BY NfaAssumption DEF Init
  <2>2. Root \in DOMAIN nfa.epsilon
    BY <2>1, NfaAssumption DEF NfaOver
  <2> QED
    BY <2>2 DEF EpsilonClosure
<1>2. /\ DOMAIN mapping = {start} /\ mapping[start] = 0
      /\ accepted_rules[0] = AcceptedBy(nfa, start)
      /\ dead_state = NO_STATE /\ pc = "loop"
  BY DEF Init
<1> HIDE DEF start
<1>3. {} \notin DOMAIN mapping
  BY <1>1, <1>2
<1> USE DEF start
<1> QED
  BY <1>2, <1>3 DEF SubsetLabels

(* Every step keeps the rules and the dead state those of the subsets that label them. *)
LEMMA NextLabels == IInv /\ SubsetLabels /\ [Next]_vars => SubsetLabels'
<1> SUFFICES ASSUME IInv, SubsetLabels, [Next]_vars PROVE SubsetLabels'
  OBVIOUS
<1>1. CASE Dequeue
  BY <1>1 DEF Dequeue, SubsetLabels
<1>2. ASSUME NEW len \in 1 .. CSIZE - i, FollowKnown(len) PROVE SubsetLabels'
  BY <1>2 DEF FollowKnown, SubsetLabels
<1>3. ASSUME NEW len \in 1 .. CSIZE - i, CreateState(len) PROVE SubsetLabels'
  <2> DEFINE target == Move(nfa, cl_state, i)
  <2>1. /\ target \notin DOMAIN mapping
        /\ mapping' = [S \in DOMAIN mapping \cup {target} |->
                         IF S = target THEN size ELSE mapping[S]]
        /\ accepted_rules' = [s \in 0 .. size |->
                                IF s = size THEN AcceptedBy(nfa, target)
                                            ELSE accepted_rules[s]]
        /\ dead_state' = IF target = {} THEN size ELSE dead_state
        /\ nfa' = nfa /\ pc' = "chars"
    BY <1>3 DEF CreateState
  <2>2. /\ size \in Nat
        /\ \A S \in DOMAIN mapping : mapping[S] \in 0 .. size /\ mapping[S] # size
    BY DEF IInv, TypeOK, DfaStates
  <2> HIDE DEF target
  <2>3. /\ DOMAIN mapping' = DOMAIN mapping \cup {target}
        /\ mapping'[target] = size
        /\ \A S \in DOMAIN mapping : mapping'[S] = mapping[S]
    BY <2>1
  <2>4. /\ accepted_rules'[size] = AcceptedBy(nfa, target)
        /\ \A S \in DOMAIN mapping : accepted_rules'[mapping[S]] = accepted_rules[mapping[S]]
    BY <2>1, <2>2
  <2> QED
    BY <2>1, <2>3, <2>4 DEF SubsetLabels
<1>4. CASE GiveUp
  <2>1. cl_state \in DOMAIN mapping /\ i \in Symbols
    BY <1>4, Processing, AlphabetAssumption DEF GiveUp, IInv, TypeOK, Symbols
  <2> QED
    BY <1>4, <2>1 DEF GiveUp, AtCap, SubsetLabels
<1>5. CASE EndOfState \/ Return
  BY <1>5 DEF EndOfState, Return, SubsetLabels
<1>6. CASE UNCHANGED vars
  BY <1>6 DEF vars, SubsetLabels
<1> QED
  BY <1>1, <1>2, <1>3, <1>4, <1>5, <1>6 DEF Next

(* All that the properties of a returned DFA rest on.                      *)
THEOREM Labeled == Spec => [](IInv /\ Progress /\ SubsetLabels)
<1>1. Init => IInv /\ Progress /\ SubsetLabels
  BY InitIInv, InitProgress, InitLabels
<1>2. IInv /\ Progress /\ SubsetLabels /\ [Next]_vars => (IInv /\ Progress /\ SubsetLabels)'
  BY NextIInv, NextProgress, NextLabels
<1> QED
  BY <1>1, <1>2, PTL DEF Spec

(* A returned DFA is in the state of the set of states the NFA is in.      *)
LEMMA RunFollowsActiveSet ==
  ASSUME IInv, Progress, SubsetLabels, pc = "done", NEW CONSTANT w \in Seq(Symbols)
  PROVE  /\ ActiveSet(nfa, Root, w) \in DOMAIN mapping
         /\ RunFrom(Result, 0, w) = mapping[ActiveSet(nfa, Root, w)]
<1> DEFINE n == Len(w)
<1>1. \A s \in DfaStates, a \in Symbols : state_table[s][a] # NO_STATE
  BY AllProcessed DEF Progress
<1>2. /\ Result.table = state_table /\ StatesOf(Result) = DfaStates
      /\ 0 \in StatesOf(Result)
      /\ Result.table \in [StatesOf(Result) -> [Symbols -> StatesOf(Result)]]
  <2>1. Result.table = state_table /\ StatesOf(Result) = DfaStates
    BY DEF Result, StatesOf, DfaStates
  <2>2. state_table \in [DfaStates -> [Symbols -> DfaStates]]
    BY <1>1 DEF IInv, TypeOK
  <2>3. 0 \in DfaStates
    BY DEF IInv, TypeOK, SubsetLabels
  <2> QED
    BY <2>1, <2>2, <2>3
<1>3. PICK at : IsRun(Result, 0, w, at) /\ RunFrom(Result, 0, w) = at[n]
  BY <1>2, RunFromIsRun
<1>4. at[0] = 0 /\ \A k \in 1 .. n : at[k] = state_table[at[k - 1]][w[k]]
  BY <1>2, <1>3 DEF IsRun
<1>5. nfa \in NfaOver(NfaStates) /\ Root \in NfaStates
  BY NfaAssumption DEF IInv
<1>6. PICK active : /\ IsActiveRun(NfaStates, nfa, Root, w, active)
                    /\ ActiveSet(nfa, Root, w) = active[n]
  BY <1>5, ActiveSetIsRun
<1>7. /\ active[0] = EpsilonClosure(nfa, Root)
      /\ \A k \in 1 .. n : active[k] = Move(nfa, active[k - 1], w[k])
  BY <1>6 DEF IsActiveRun
<1>8. n \in Nat /\ \A k \in 1 .. n : w[k] \in Symbols /\ k - 1 \in 0 .. n
  OBVIOUS
<1> HIDE DEF n
<1> DEFINE Off == {k \in 0 .. n : ~ (active[k] \in DOMAIN mapping /\ at[k] = mapping[active[k]])}
<1>9. Off = {}
  <2>1. SUFFICES ASSUME Off # {} PROVE FALSE
    OBVIOUS
  <2>2. PICK k \in Off : \A l \in Off : k <= l
    <3>1. Off \in SUBSET Nat
      BY <1>8
    <3> HIDE DEF Off
    <3> QED
      BY <2>1, <3>1, LeastNumber
  <2>3. k # 0
    BY <1>4, <1>7, <2>2 DEF SubsetLabels
  <2>4. k \in 1 .. n /\ k - 1 \in 0 .. n /\ ~ (k <= k - 1)
    BY <1>8, <2>2, <2>3
  <2>5. active[k - 1] \in DOMAIN mapping /\ at[k - 1] = mapping[active[k - 1]]
    BY <2>2, <2>4
  <2>6. w[k] \in Symbols /\ mapping[active[k - 1]] \in DfaStates
    BY <1>8, <2>4, <2>5 DEF IInv, TypeOK
  <2>7. /\ Move(nfa, active[k - 1], w[k]) \in DOMAIN mapping
        /\ state_table[mapping[active[k - 1]]][w[k]] = mapping[Move(nfa, active[k - 1], w[k])]
    BY <1>1, <2>5, <2>6 DEF IInv, TransitionsFollowMoves
  <2> QED
    BY <1>4, <1>7, <2>2, <2>4, <2>5, <2>7
<1>10. n \notin Off /\ n \in 0 .. n
  BY <1>8, <1>9
<1> QED
  BY <1>3, <1>6, <1>10

(* The DFA that nfa2dfa returns reports, after every word, the rules that  *)
(* following the NFA by its active set reports.                            *)
THEOREM SameRulesOnEveryWord ==
  Spec => [](pc = "done" => \A w \in Seq(Symbols) : SameRulesAsNfa(w))
<1>1. IInv /\ Progress /\ SubsetLabels =>
        (pc = "done" => \A w \in Seq(Symbols) : SameRulesAsNfa(w))
  BY RunFollowsActiveSet DEF SubsetLabels, SameRulesAsNfa
<1> QED
  BY <1>1, Labeled, PTL

(* What TLC checks of the words up to a bound, for every bound.            *)
THEOREM SameRulesShortWords == Spec => []SameRulesOnShortWords
<1>1. \A w \in Words(LongestWord) : w \in Seq(Symbols)
  <2>1. ASSUME NEW m \in 0 .. LongestWord, NEW w \in [1 .. m -> Symbols]
        PROVE  w \in Seq(Symbols)
    <3>1. m \in Nat
      BY NfaAssumption
    <3> QED
      BY <3>1
  <2> QED
    BY <2>1 DEF Words
<1>2. IInv /\ Progress /\ SubsetLabels => SameRulesOnShortWords
  BY <1>1, RunFollowsActiveSet DEF SubsetLabels, SameRulesAsNfa, SameRulesOnShortWords
<1> QED
  BY <1>2, Labeled, PTL

-----------------------------------------------------------------------------
(***************************************************************************)
(* The reachable subsets: as many rounds as there are sets of NFA states   *)
(* reach them all.                                                         *)
(***************************************************************************)
Rounds == Cardinality(SUBSET NfaStates)

(* R[k] holds the subsets that k rounds find.                              *)
FoundInRounds(R) ==
  /\ R \in [0 .. Rounds -> SUBSET SUBSET NfaStates]
  /\ R[0] = {EpsilonClosure(nfa, Root)}
  /\ \A k \in 1 .. Rounds :
       R[k] = R[k - 1] \cup {Move(nfa, S, a) : S \in R[k - 1], a \in Symbols}

(* The reachable subsets are found in as many rounds as there are subsets. *)
LEMMA ReachableInRounds ==
  ASSUME nfa \in Nfas
  PROVE  \E R : FoundInRounds(R) /\ ReachableSubsets = R[Rounds]
<1> DEFINE Q == SUBSET SUBSET NfaStates
           n == Rounds
           start == {EpsilonClosure(nfa, Root)}
           round(X) == X \cup {Move(nfa, S, a) : S \in X, a \in Symbols}
           step == [k \in 1 .. n |-> [X \in Q |-> round(X)]]
           bound == 2 ^ Cardinality(NfaStates)
           F(R) == [k \in 0 .. bound |-> IF k = 0 THEN start ELSE round(R[k - 1])]
           chosen == CHOOSE R : R = F(R)
<1>0. ReachableSubsets = chosen[bound]
  BY DEF ReachableSubsets
<1>1. n = bound /\ n \in Nat
  <2>1. IsFiniteSet(NfaStates)
    BY NfaAssumption
  <2>2. IsFiniteSet(SUBSET NfaStates) /\ n = bound
    BY <2>1, FS_SUBSET DEF Rounds
  <2>3. Cardinality(SUBSET NfaStates) \in Nat
    BY <2>2, FS_CardinalityType
  <2> QED
    BY <2>2, <2>3 DEF Rounds
<1>2. start \in Q
  BY NfaAssumption DEF EpsilonClosure, NfaOver
<1>3. ASSUME NEW X \in Q PROVE round(X) \in Q
  BY MoveType
<1>4. step \in [1 .. n -> [Q -> Q]]
  BY <1>3
<1> HIDE DEF n, bound, Q, round, start, chosen
<1>5. PICK bt : Follows(bt, Q, step, start, n)
  <2> HIDE DEF step
  <2> QED
    BY <1>1, <1>2, <1>4, StepsLeadSomewhere
<1>6. /\ bt \in [0 .. n -> Q] /\ bt[0] = start
      /\ \A k \in 1 .. n : bt[k] = round(bt[k - 1])
  <2>1. \A k \in 1 .. n : k - 1 \in 0 .. n
    BY <1>1
  <2>2. /\ bt \in [0 .. n -> Q] /\ bt[0] = start
        /\ \A k \in 1 .. n : bt[k] = step[k][bt[k - 1]]
    BY <1>5 DEF Follows
  <2> QED
    BY <2>1, <2>2
<1>7. bt = F(bt)
  <2>1. bt = [k \in 0 .. n |-> bt[k]]
    BY <1>6
  <2>2. \A k \in 0 .. n : bt[k] = IF k = 0 THEN start ELSE round(bt[k - 1])
    BY <1>1, <1>6
  <2> QED
    BY <1>1, <2>1, <2>2
<1>8. chosen = F(chosen)
  BY <1>7 DEF chosen
<1>9. \A k \in 0 .. n : chosen[k] = IF k = 0 THEN start ELSE round(chosen[k - 1])
  <2> DEFINE R == chosen
  <2>1. R = F(R)
    BY <1>8
  <2> HIDE DEF R
  <2>2. \A k \in 0 .. n : R[k] = IF k = 0 THEN start ELSE round(R[k - 1])
    BY <1>1, <2>1
  <2> QED
    BY <2>2 DEF R
<1>10. FollowsWhereDefined(chosen, Q, step, start, n)
  <2>1. chosen[0] = start
    BY <1>1, <1>9
  <2>2. \A k \in 1 .. n : chosen[k - 1] \in Q => chosen[k] = step[k][chosen[k - 1]]
    BY <1>1, <1>9
  <2> QED
    BY <2>1, <2>2 DEF FollowsWhereDefined
<1>11. \A k \in 0 .. n : chosen[k] = bt[k]
  <2> HIDE DEF step, F
  <2> QED
    BY <1>1, <1>2, <1>4, <1>5, <1>10, StepsLeadToOnePlace
<1>12. FoundInRounds(bt)
  BY <1>6 DEF FoundInRounds, Q, n, round, start
<1>13. ReachableSubsets = bt[Rounds]
  BY <1>0, <1>1, <1>11 DEF n
<1> QED
  BY <1>12, <1>13

ClosedUnderMoves(T) == \A S \in T, a \in Symbols : Move(nfa, S, a) \in T

(* A subset found in some round is a subset found in every later one.      *)
LEMMA RoundsGrow ==
  ASSUME NEW R, FoundInRounds(R), NEW k \in 1 .. Rounds, Rounds \in Nat
  PROVE  /\ k - 1 \in 0 .. Rounds /\ k \in 0 .. Rounds
         /\ R[k - 1] \subseteq R[k]
         /\ R[k - 1] = R[k] => ClosedUnderMoves(R[k])
<1>1. k - 1 \in 0 .. Rounds /\ k \in 0 .. Rounds
  OBVIOUS
<1>2. R[k] = R[k - 1] \cup {Move(nfa, S, a) : S \in R[k - 1], a \in Symbols}
  BY DEF FoundInRounds
<1> QED
  BY <1>1, <1>2 DEF ClosedUnderMoves

(* A round that finds nothing new has found all; if each found a new one,  *)
(* there would be more subsets than there are.                             *)
LEMMA LastRoundIsClosed ==
  ASSUME nfa \in Nfas, NEW R, FoundInRounds(R)
  PROVE  ClosedUnderMoves(R[Rounds])
<1>1. /\ IsFiniteSet(SUBSET NfaStates) /\ Rounds \in Nat
  <2>1. IsFiniteSet(SUBSET NfaStates)
    BY NfaAssumption, FS_SUBSET
  <2> QED
    BY <2>1, FS_CardinalityType DEF Rounds
<1>2. ASSUME NEW k \in 0 .. Rounds
      PROVE  /\ IsFiniteSet(R[k]) /\ Cardinality(R[k]) \in Nat
             /\ Cardinality(R[k]) <= Rounds
  <2>1. R[k] \in SUBSET SUBSET NfaStates
    BY DEF FoundInRounds
  <2>2. IsFiniteSet(R[k]) /\ Cardinality(R[k]) <= Cardinality(SUBSET NfaStates)
    BY <1>1, <2>1, FS_Subset
  <2> QED
    BY <2>2, FS_CardinalityType DEF Rounds
<1> DEFINE Small == {k \in 0 .. Rounds :
                       ~ (ClosedUnderMoves(R[k]) \/ Cardinality(R[k]) > k)}
<1>3. SUFFICES ASSUME ~ ClosedUnderMoves(R[Rounds]) PROVE FALSE
  OBVIOUS
<1>4. Small # {}
  <2>1. Rounds \in 0 .. Rounds /\ ~ (Cardinality(R[Rounds]) > Rounds)
    BY <1>1, <1>2
  <2> QED
    BY <1>3, <2>1
<1>5. PICK k \in Small : \A l \in Small : k <= l
  <2>1. Small \in SUBSET Nat
    BY <1>1
  <2> HIDE DEF Small
  <2> QED
    BY <1>4, <2>1, LeastNumber
<1>6. k # 0
  <2>1. Cardinality({EpsilonClosure(nfa, Root)}) = 1
    BY FS_Singleton
  <2>2. R[0] = {EpsilonClosure(nfa, Root)}
    BY DEF FoundInRounds
  <2> QED
    BY <1>5, <2>1, <2>2
<1>7. k \in 1 .. Rounds /\ k - 1 \in 0 .. Rounds /\ ~ (k <= k - 1) /\ k \in 0 .. Rounds
  BY <1>1, <1>5, <1>6
<1>8. ClosedUnderMoves(R[k - 1]) \/ Cardinality(R[k - 1]) > k - 1
  BY <1>5, <1>7
<1>9. /\ R[k - 1] \subseteq R[k]
      /\ R[k - 1] = R[k] => ClosedUnderMoves(R[k])
      /\ R[k] = R[k - 1] \cup {Move(nfa, S, a) : S \in R[k - 1], a \in Symbols}
  BY <1>1, <1>7, RoundsGrow DEF FoundInRounds
<1>10. ~ ClosedUnderMoves(R[k]) /\ ~ (Cardinality(R[k]) > k)
  BY <1>5
<1>11. ~ ClosedUnderMoves(R[k - 1])
  BY <1>9, <1>10 DEF ClosedUnderMoves
<1>12. R[k - 1] # R[k] /\ Cardinality(R[k - 1]) > k - 1
  BY <1>8, <1>9, <1>10, <1>11
<1>13. /\ Cardinality(R[k - 1]) <= Cardinality(R[k])
       /\ Cardinality(R[k]) # Cardinality(R[k - 1])
  BY <1>2, <1>7, <1>9, <1>12, FS_Subset
<1> QED
  BY <1>2, <1>7, <1>10, <1>12, <1>13

(* The reachable subsets are the least set with the closure of the root    *)
(* and the moves of its members.                                           *)
LEMMA ReachableIsLeast ==
  ASSUME nfa \in Nfas
  PROVE  /\ ReachableSubsets \in SUBSET SUBSET NfaStates
         /\ EpsilonClosure(nfa, Root) \in ReachableSubsets
         /\ ClosedUnderMoves(ReachableSubsets)
         /\ \A T : EpsilonClosure(nfa, Root) \in T /\ ClosedUnderMoves(T)
                     => ReachableSubsets \subseteq T
<1>1. PICK R : FoundInRounds(R) /\ ReachableSubsets = R[Rounds]
  BY ReachableInRounds
<1>2. Rounds \in Nat
  <2>1. IsFiniteSet(SUBSET NfaStates)
    BY NfaAssumption, FS_SUBSET
  <2> QED
    BY <2>1, FS_CardinalityType DEF Rounds
<1>3. /\ R \in [0 .. Rounds -> SUBSET SUBSET NfaStates]
      /\ R[0] = {EpsilonClosure(nfa, Root)}
      /\ \A k \in 1 .. Rounds :
           R[k] = R[k - 1] \cup {Move(nfa, S, a) : S \in R[k - 1], a \in Symbols}
  BY <1>1 DEF FoundInRounds
<1>4. \A k \in 0 .. Rounds : EpsilonClosure(nfa, Root) \in R[k]
  <2> DEFINE Off == {k \in 0 .. Rounds : EpsilonClosure(nfa, Root) \notin R[k]}
  <2>1. SUFFICES ASSUME Off # {} PROVE FALSE
    OBVIOUS
  <2>2. PICK k \in Off : \A l \in Off : k <= l
    <3>1. Off \in SUBSET Nat
      BY <1>2
    <3> HIDE DEF Off
    <3> QED
      BY <2>1, <3>1, LeastNumber
  <2>3. k \in 1 .. Rounds /\ k - 1 \in 0 .. Rounds /\ ~ (k <= k - 1)
    BY <1>2, <1>3, <2>2
  <2>4. EpsilonClosure(nfa, Root) \in R[k - 1]
    BY <2>2, <2>3
  <2>5. R[k - 1] \subseteq R[k]
    BY <1>1, <1>2, <2>3, RoundsGrow
  <2> QED
    BY <2>2, <2>4, <2>5
<1>5. ASSUME NEW T, EpsilonClosure(nfa, Root) \in T, ClosedUnderMoves(T)
      PROVE  \A k \in 0 .. Rounds : R[k] \subseteq T
  <2> DEFINE Off == {k \in 0 .. Rounds : ~ (R[k] \subseteq T)}
  <2>1. SUFFICES ASSUME Off # {} PROVE FALSE
    OBVIOUS
  <2>2. PICK k \in Off : \A l \in Off : k <= l
    <3>1. Off \in SUBSET Nat
      BY <1>2
    <3> HIDE DEF Off
    <3> QED
      BY <2>1, <3>1, LeastNumber
  <2>3. k \in 1 .. Rounds /\ k - 1 \in 0 .. Rounds /\ ~ (k <= k - 1)
    BY <1>2, <1>3, <1>5, <2>2
  <2>4. R[k - 1] \subseteq T
    BY <2>2, <2>3
  <2>5. R[k] = R[k - 1] \cup {Move(nfa, S, a) : S \in R[k - 1], a \in Symbols}
    BY <1>3, <2>3
  <2> QED
    BY <1>5, <2>2, <2>4, <2>5 DEF ClosedUnderMoves
<1>6. Rounds \in 0 .. Rounds
  BY <1>2
<1> QED
  BY <1>1, <1>3, <1>4, <1>5, <1>6, LastRoundIsClosed

-----------------------------------------------------------------------------
(* What does not depend on the step keeps its value.                       *)
LEMMA ReachableUnchanged ==
  ASSUME nfa' = nfa PROVE ReachableSubsets' = ReachableSubsets
BY DEF ReachableSubsets

(* nfa2dfa makes states of reachable subsets only.                         *)
OnlyReachable == DOMAIN mapping \subseteq ReachableSubsets

(* The first subset is reachable. *)
LEMMA InitReachable == Init => OnlyReachable
<1> SUFFICES ASSUME Init PROVE OnlyReachable
  OBVIOUS
<1>1. nfa \in Nfas /\ DOMAIN mapping = {EpsilonClosure(nfa, Root)}
  BY DEF Init
<1> QED
  BY <1>1, ReachableIsLeast DEF OnlyReachable

(* Every step gives states to reachable subsets only. *)
LEMMA NextReachable == IInv /\ OnlyReachable /\ [Next]_vars => OnlyReachable'
<1> SUFFICES ASSUME IInv, OnlyReachable, [Next]_vars PROVE OnlyReachable'
  OBVIOUS
<1>1. nfa' = nfa
  BY DEF Next, Dequeue, FollowKnown, CreateState, GiveUp, EndOfState, Return, vars
<1>2. ReachableSubsets' = ReachableSubsets
  BY <1>1, ReachableUnchanged
<1>3. ASSUME NEW len \in 1 .. CSIZE - i, CreateState(len)
      PROVE  DOMAIN mapping' \subseteq ReachableSubsets
  <2>1. cl_state \in DOMAIN mapping /\ i \in Symbols
    BY <1>3, Processing, AlphabetAssumption DEF CreateState, IInv, TypeOK, Symbols
  <2>2. cl_state \in ReachableSubsets
    BY <2>1 DEF OnlyReachable
  <2>3. Move(nfa, cl_state, i) \in ReachableSubsets
    BY <2>1, <2>2, ReachableIsLeast DEF IInv, ClosedUnderMoves
  <2>4. DOMAIN mapping' = DOMAIN mapping \cup {Move(nfa, cl_state, i)}
    BY <1>3 DEF CreateState
  <2> QED
    BY <2>3, <2>4 DEF OnlyReachable
<1>4. ASSUME ~ \E len \in 1 .. CSIZE - i : CreateState(len)
      PROVE  mapping' = mapping
  BY <1>4 DEF Next, Dequeue, FollowKnown, GiveUp, EndOfState, Return, vars
<1> QED
  BY <1>2, <1>3, <1>4 DEF OnlyReachable

(* NULL is returned exactly for the automata with more reachable subsets   *)
(* than the cap; any other DFA has one state for each of them, and its     *)
(* dead state is that of the empty set.                                    *)
THEOREM NullExactlyIfTooLarge == Spec => []NullIffTooLarge
<1>1. ASSUME IInv, Progress, SubsetLabels, OnlyReachable, pc = "null"
      PROVE  Cardinality(ReachableSubsets) > MAX_DFA_SIZE
  <2> DEFINE next == Move(nfa, cl_state, i)
             found == DOMAIN mapping
  <2>1. next \in ReachableSubsets /\ next \notin found /\ found \subseteq ReachableSubsets
    BY <1>1, ReachableIsLeast DEF SubsetLabels, OnlyReachable, ClosedUnderMoves, IInv
  <2>2. IsFiniteSet(SUBSET NfaStates)
    BY NfaAssumption, FS_SUBSET
  <2>3. ReachableSubsets \in SUBSET SUBSET NfaStates
    BY <1>1, ReachableIsLeast DEF IInv
  <2>4. IsFiniteSet(ReachableSubsets)
    BY <2>2, <2>3, FS_Subset
  <2>5. Cardinality(found) = MAX_DFA_SIZE
    BY <1>1, OneSubsetPerState DEF SubsetLabels
  <2> HIDE DEF next, found
  <2>6. /\ IsFiniteSet(found)
        /\ Cardinality(found) <= Cardinality(ReachableSubsets)
        /\ Cardinality(found) # Cardinality(ReachableSubsets)
    BY <2>1, <2>4, FS_Subset
  <2>7. Cardinality(ReachableSubsets) \in Nat
    BY <2>4, FS_CardinalityType
  <2> QED
    BY <2>5, <2>6, <2>7, NfaAssumption
<1>2. ASSUME IInv, Progress, SubsetLabels, OnlyReachable, pc = "done"
      PROVE  /\ DOMAIN mapping = ReachableSubsets
             /\ size = Cardinality(ReachableSubsets)
             /\ IF {} \in DOMAIN mapping THEN dead_state = mapping[{}]
                                         ELSE dead_state = NO_STATE
  <2>1. \A s \in DfaStates, a \in Symbols : state_table[s][a] # NO_STATE
    BY <1>2, AllProcessed DEF Progress
  <2>2. ASSUME NEW S \in DOMAIN mapping, NEW a \in Symbols
        PROVE  Move(nfa, S, a) \in DOMAIN mapping
    <3>1. mapping[S] \in DfaStates
      BY <1>2 DEF IInv, TypeOK
    <3> QED
      BY <1>2, <2>1, <3>1 DEF IInv, TransitionsFollowMoves
  <2>3. ReachableSubsets \subseteq DOMAIN mapping
    BY <1>2, <2>2, ReachableIsLeast DEF SubsetLabels, ClosedUnderMoves, IInv
  <2>4. DOMAIN mapping = ReachableSubsets
    BY <1>2, <2>3 DEF OnlyReachable
  <2>5. size = Cardinality(ReachableSubsets)
    BY <1>2, <2>4, OneSubsetPerState
  <2> QED
    BY <1>2, <2>4, <2>5 DEF SubsetLabels
<1>3. IInv /\ Progress /\ SubsetLabels /\ OnlyReachable => NullIffTooLarge
  BY <1>1, <1>2 DEF NullIffTooLarge
<1>4. Init => OnlyReachable
  BY InitReachable
<1>5. IInv /\ OnlyReachable /\ [Next]_vars => OnlyReachable'
  BY NextReachable
<1> QED
  BY <1>3, <1>4, <1>5, Labeled, PTL DEF Spec
=============================================================================
