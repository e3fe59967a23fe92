-------------------------- MODULE HybridFa_proofs ---------------------------
(***************************************************************************)
(* Theorems about hybrid automata, for every NFA, every depth from which   *)
(* states are special and every limit on their transitions: the head with  *)
(* its border stands for the NFA, also after minimize has refined it, and  *)
(* the traversal of head and tails reports what the NFA reports.           *)
(***************************************************************************)
EXTENDS HybridFa, Automata_proofs

(* What minimize groups the head states by, and the heads it refines.      *)
AllLabels ==
  {RuleLabel(r) : r \in Rules} \cup {TailLabel(n) : n \in UNION {StatesIn(t.nfa) : t \in Tasks}}

LabelledDfas ==
  UNION {[size : {n}, table : [0 .. n - 1 -> [Symbols -> 0 .. n - 1]],
          accepted : [0 .. n - 1 -> SUBSET AllLabels], dead_state : Int] : n \in Nat \ {0}}

(* The theorems about the minimizer, whose rules are labels here; the last *)
(* line stands for the state of Pfac, which has no part in it.             *)
HP == INSTANCE Hopcroft_proofs
        WITH Dfas <- LabelledDfas, Rules <- AllLabels, pc <- mpc,
             Renumbered <- {}, Inputs <- {}, phase <- "minimize",
             state_table <- 0, dead_state <- 0, max_accept_state <- 0, lanes <- 0, turn <- 0,
             nxt_off <- 0, data <- 0, matched_times <- 0

-----------------------------------------------------------------------------
(***************************************************************************)
(* Depths: the root of the NFA is never special.                           *)
(***************************************************************************)
(* The states of the tasks' NFAs. *)
NfaStates == StatesIn(task.nfa)

(* reached[d] holds the states at most d transitions away from the root.   *)
AreReached(nfa, root, m, reached) ==
  reached = [d \in 0 .. m |->
               IF d = 0 THEN {root}
               ELSE reached[d - 1] \cup UNION {SuccessorsOf(nfa, n) : n \in reached[d - 1]}]

(* However many transitions, there are such sets ... *)
LEMMA SomethingIsReached ==
  ASSUME NEW nfa, NEW root, NEW m \in Nat
  PROVE  \E reached : AreReached(nfa, root, m, reached)
<1> DEFINE Has(i) == \E reached : AreReached(nfa, root, i, reached)
           None == {i \in 0 .. m : ~ Has(i)}
           More(S) == S \cup UNION {SuccessorsOf(nfa, n) : n \in S}
<1>1. SUFFICES ASSUME None # {} PROVE FALSE
  OBVIOUS
<1>2. PICK i \in None : \A j \in None : i <= j
  <2> HIDE DEF None
  <2>1. None \in SUBSET Nat
    BY DEF None
  <2> QED
    BY <1>1, <2>1, LeastNumber
<1> HIDE DEF More
<1>3. CASE i = 0
  <2>1. AreReached(nfa, root, 0, [d \in 0 .. 0 |-> {root}])
    BY DEF AreReached, More
  <2> QED
    BY <1>2, <1>3, <2>1
<1>4. CASE i # 0
  <2>1. i - 1 \in 0 .. m /\ i \in 1 .. m /\ Has(i - 1)
    BY <1>2, <1>4
  <2>2. PICK at : at = [d \in 0 .. i - 1 |-> IF d = 0 THEN {root} ELSE More(at[d - 1])]
    BY <2>1 DEF AreReached, More
  <2> DEFINE bt == [d \in 0 .. i |-> IF d = i THEN More(at[i - 1]) ELSE at[d]]
  <2>3. ASSUME NEW d \in 0 .. i
        PROVE  bt[d] = IF d = 0 THEN {root} ELSE More(bt[d - 1])
    <3>1. d # 0 => d - 1 \in 0 .. i /\ d - 1 # i /\ bt[d - 1] = at[d - 1]
      BY <2>1
    <3>2. CASE d = i
      BY <1>4, <3>1, <3>2
    <3>3. CASE d # i
      <4>1. d \in 0 .. i - 1 /\ bt[d] = at[d]
        BY <2>1, <3>3
      <4> QED
        BY <2>2, <3>1, <4>1
    <3> QED
      BY <3>2, <3>3
  <2>4. bt = [d \in 0 .. i |-> bt[d]]
    OBVIOUS
  <2> HIDE DEF bt
  <2>5. bt = [d \in 0 .. i |-> IF d = 0 THEN {root} ELSE More(bt[d - 1])]
    BY <2>3, <2>4
  <2>6. AreReached(nfa, root, i, bt)
    BY <2>5 DEF AreReached, More
  <2> QED
    BY <1>2, <2>6
<1> QED
  BY <1>3, <1>4

(* ... and ReachedFrom is them. *)
LEMMA ReachedUnfolds ==
  ASSUME NEW nfa, NEW root, Cardinality(StatesIn(nfa)) \in Nat
  PROVE  AreReached(nfa, root, Cardinality(StatesIn(nfa)), ReachedFrom(nfa, root))
<1> DEFINE m == Cardinality(StatesIn(nfa))
           F(r) == [d \in 0 .. m |->
                      IF d = 0 THEN {root}
                      ELSE r[d - 1] \cup UNION {SuccessorsOf(nfa, n) : n \in r[d - 1]}]
<1>1. \E r : r = F(r)
  <2>1. PICK r : AreReached(nfa, root, m, r)
    BY SomethingIsReached
  <2>2. r = F(r)
    BY <2>1 DEF AreReached
  <2> QED
    BY <2>2
<1>2. ReachedFrom(nfa, root) = CHOOSE r : r = F(r)
  BY DEF ReachedFrom
<1>3. ReachedFrom(nfa, root) = F(ReachedFrom(nfa, root))
  <2> HIDE DEF F
  <2> QED
    BY <1>1, <1>2
<1> QED
  BY <1>3 DEF AreReached

(* The root of the NFA when there is one. *)
Root == task.roots[1]

(* The constructor of a single NFA is called with one of its states, from  *)
(* which the traversal reaches finitely many.                              *)
LEMMA OneRoot ==
  ASSUME task \in Tasks, task.how = "one"
  PROVE  /\ Roots = {Root}
         /\ Root \in NfaStates
         /\ IsFiniteSet(NfaStates) /\ Cardinality(NfaStates) \in Nat
         /\ task.nfa \in NfaOver(NfaStates)
<1>1. /\ task.roots \in Seq(NfaStates) /\ Len(task.roots) = 1
      /\ task.nfa \in NfaOver(NfaStates) /\ IsFiniteSet(NfaStates)
  BY TaskAssumption DEF NfaStates, StatesIn
<1>2. DOMAIN task.roots = 1 .. 1 /\ Root \in NfaStates
  BY <1>1 DEF Root
<1>3. Roots = {Root}
  BY <1>2 DEF Roots, ToSet, Root
<1> QED
  BY <1>1, <1>2, <1>3, FS_CardinalityType

(* The depth of the root is 0. *)
LEMMA RootIsShallow ==
  ASSUME task \in Tasks, task.how = "one", depth = DepthsOf(task)
  PROVE  depth[Root] = 0
<1> DEFINE m == Cardinality(NfaStates)
<1>0. PICK reached : reached = ReachedFrom(task.nfa, Root)
  OBVIOUS
<1>1. m \in Nat
  BY OneRoot
<1>2. AreReached(task.nfa, Root, m, reached)
  BY <1>0, <1>1, ReachedUnfolds DEF NfaStates
<1>3. /\ DOMAIN reached = 0 .. m
      /\ reached[0] = {Root}
      /\ \A d \in 1 .. m : reached[d - 1] \subseteq reached[d]
  <2>1. reached = [d \in 0 .. m |->
                     IF d = 0 THEN {Root}
                     ELSE reached[d - 1] \cup UNION {SuccessorsOf(task.nfa, n) : n \in reached[d - 1]}]
    BY <1>2 DEF AreReached
  <2>2. ASSUME NEW d \in 1 .. m
        PROVE  reached[d] = reached[d - 1] \cup UNION {SuccessorsOf(task.nfa, n) : n \in reached[d - 1]}
    <3>1. d \in 0 .. m /\ d # 0
      BY <1>1
    <3> QED
      BY <2>1, <3>1
  <2>3. DOMAIN reached = 0 .. m /\ reached[0] = {Root}
    BY <1>1, <2>1
  <2> QED
    BY <2>2, <2>3
<1>4. Root \in reached[m]
  <2> DEFINE Off == {d \in 0 .. m : Root \notin reached[d]}
  <2>1. SUFFICES ASSUME Off # {} PROVE FALSE
    BY <1>1
  <2>2. PICK d \in Off : \A e \in Off : d <= e
    <3>1. Off \in SUBSET Nat
      BY <1>1
    <3> HIDE DEF Off
    <3> QED
      BY <2>1, <3>1, LeastNumber
  <2>3. d # 0 /\ d \in 0 .. m /\ Root \notin reached[d]
    BY <1>3, <2>2
  <2>4. d - 1 \in 0 .. m /\ d \in 1 .. m /\ ~ (d <= d - 1)
    BY <1>1, <2>3
  <2>5. d - 1 \notin Off
    <3> HIDE DEF Off
    <3> QED
      BY <2>2, <2>4
  <2> QED
    BY <1>3, <2>3, <2>4, <2>5
<1>5. DepthFrom(task.nfa, Root, Root) = 0
  <2> DEFINE Is(d) == Root \in reached[d] /\ \A e \in 0 .. d - 1 : Root \notin reached[e]
  <2>1. DepthFrom(task.nfa, Root, Root) = CHOOSE d \in 0 .. m : Is(d)
    BY <1>0, <1>3 DEF DepthFrom
  <2>2. Is(0) /\ 0 \in 0 .. m
    BY <1>1, <1>3
  <2>3. ASSUME NEW d \in 0 .. m, Is(d) PROVE d = 0
    BY <1>1, <1>3, <2>3
  <2> QED
    BY <2>1, <2>2, <2>3
<1>6. TraversalOf(task.nfa, Root) = reached[m]
  BY <1>0 DEF TraversalOf, NfaStates
<1>7. ToSet(task.roots) = {Root}
  BY OneRoot DEF Roots
<1>8. (CHOOSE root \in ToSet(task.roots) : Root \in TraversalOf(task.nfa, root)) = Root
  BY <1>4, <1>6, <1>7
<1>9. Root \in UNION {TraversalOf(task.nfa, root) : root \in ToSet(task.roots)}
  BY <1>4, <1>6, <1>7
<1> QED
  BY <1>5, <1>8, <1>9 DEF DepthsOf

(* So it is not special. *)
LEMMA RootIsNotSpecial ==
  ASSUME task \in Tasks, task.how = "one", depth = DepthsOf(task)
  PROVE  SpecialIn({Root}) = {}
<1>1. depth[Root] = 0
  BY RootIsShallow
<1>2. SPECIAL_DEPTH \in Nat \ {0} /\ SPECIAL_MIN_DEPTH \in Nat \ {0}
  BY TaskAssumption
<1>3. ~ Special(Root)
  BY <1>1, <1>2 DEF Special
<1> QED
  BY <1>3 DEF SpecialIn

-----------------------------------------------------------------------------
(***************************************************************************)
(* The head while it is built.                                             *)
(***************************************************************************)
(* A head, some transitions of which are still missing. *)
IsHead(D) ==
  /\ D.size \in Nat \ {0}
  /\ D \in [size       : {D.size},
            table      : [StatesOf(D) -> [Symbols -> StatesOf(D) \cup {NO_STATE}]],
            accepted   : [StatesOf(D) -> SUBSET Rules],
            border     : [StatesOf(D) -> SUBSET NfaStates],
            dead_state : Int]

(* A head with the subsets its states stand for and the queue.             *)
IsBuild(st) ==
  /\ st \in [head : {st.head}, subsets : {st.subsets}, queue : {st.queue}]
  /\ IsHead(st.head)
  /\ st.subsets \in Seq(SUBSET NfaStates)
  /\ Len(st.subsets) = st.head.size
  /\ st.subsets[1] = {Root}
  /\ st.queue \in Seq(StatesOf(st.head))
  /\ \A s \in StatesOf(st.head) : st.head.accepted[s] = AcceptedBy(task.nfa, st.subsets[s + 1])

(* The transition of a head state on a symbol is that of the states in its *)
(* subset that are not special, which are in its border.                   *)
MoveDone(st, s, c) ==
  /\ st.head.table[s][c] \in StatesOf(st.head)
  /\ st.subsets[st.head.table[s][c] + 1] = Target(st.subsets[s + 1] \ SpecialIn(st.subsets[s + 1]), c)

(* The row of s is filled in, and its border.                              *)
RowDone(st, s) ==
  /\ st.head.border[s] = SpecialIn(st.subsets[s + 1])
  /\ \A c \in Symbols : MoveDone(st, s, c)

(* The states of st are the same in more, which may have further ones; all *)
(* rows but that of `except' are.                                          *)
Grows(st, more, except) ==
  /\ StatesOf(st.head) \subseteq StatesOf(more.head)
  /\ ToSet(st.queue) \subseteq ToSet(more.queue)
  /\ \A s \in StatesOf(more.head) : s \in StatesOf(st.head) \/ s \in ToSet(more.queue)
  /\ \A s \in StatesOf(st.head) :
       /\ more.subsets[s + 1] = st.subsets[s + 1]
       /\ more.head.border[s] = st.head.border[s]
       /\ s # except => more.head.table[s] = st.head.table[s]

(* A sequence and what is appended to it. *)
LEMMA AppendedElements ==
  ASSUME NEW S, NEW seq \in Seq(S), NEW x \in S
  PROVE  /\ Append(seq, x) \in Seq(S)
         /\ ToSet(Append(seq, x)) = ToSet(seq) \cup {x}
         /\ Len(Append(seq, x)) = Len(seq) + 1
         /\ \A i \in 1 .. Len(seq) : Append(seq, x)[i] = seq[i]
         /\ Append(seq, x)[Len(seq) + 1] = x
<1>1. /\ Append(seq, x) \in Seq(S)
      /\ Len(Append(seq, x)) = Len(seq) + 1 /\ Len(seq) \in Nat
      /\ \A i \in 1 .. Len(seq) : Append(seq, x)[i] = seq[i]
      /\ Append(seq, x)[Len(seq) + 1] = x
  OBVIOUS
<1>2. DOMAIN seq = 1 .. Len(seq) /\ DOMAIN Append(seq, x) = 1 .. Len(seq) + 1
  BY <1>1
<1>3. ToSet(Append(seq, x)) = ToSet(seq) \cup {x}
  <2>1. ToSet(seq) = {seq[i] : i \in 1 .. Len(seq)}
    BY <1>2 DEF ToSet
  <2>2. ToSet(Append(seq, x)) = {Append(seq, x)[i] : i \in 1 .. Len(seq) + 1}
    BY <1>2 DEF ToSet
  <2>3. 1 .. Len(seq) + 1 = 1 .. Len(seq) \cup {Len(seq) + 1}
    BY <1>1
  <2> QED
    BY <1>1, <2>1, <2>2, <2>3
<1> QED
  BY <1>1, <1>3

(* The states of a subset's NFA states accept rules of the NFA.            *)
LEMMA SubsetsAccept ==
  ASSUME task.nfa \in NfaOver(NfaStates), NEW S \in SUBSET NfaStates
  PROVE  /\ AcceptedBy(task.nfa, S) \in SUBSET Rules
         /\ \A c \in Symbols : Target(S, c) \in SUBSET NfaStates
BY DEF NfaOver, AcceptedBy, Target

(* A new state stands for the subset and waits in the queue. *)
LEMMA AddedStateBuilds ==
  ASSUME task.nfa \in NfaOver(NfaStates), NEW st, IsBuild(st), NEW T \in SUBSET NfaStates, NEW except
  PROVE  /\ IsBuild(AddedState(st, T))
         /\ Grows(st, AddedState(st, T), except)
         /\ T \in ToSet(AddedState(st, T).subsets)
<1> DEFINE D == st.head
           n == D.size
           E == WithState(D, T)
           U == Append(st.subsets, T)
           q == Append(st.queue, n)
           more == AddedState(st, T)
<1>1. /\ n \in Nat \ {0} /\ StatesOf(D) = 0 .. n - 1
      /\ D.table \in [StatesOf(D) -> [Symbols -> StatesOf(D) \cup {NO_STATE}]]
      /\ D.accepted \in [StatesOf(D) -> SUBSET Rules]
      /\ D.border \in [StatesOf(D) -> SUBSET NfaStates]
      /\ D.dead_state \in Int
  BY DEF IsBuild, IsHead, StatesOf
<1>2. /\ E.size = n + 1
      /\ E.table = [s \in 0 .. n |-> IF s = n THEN NoRow ELSE D.table[s]]
      /\ E.accepted = [s \in 0 .. n |-> IF s = n THEN AcceptedBy(task.nfa, T) ELSE D.accepted[s]]
      /\ E.border = [s \in 0 .. n |-> IF s = n THEN {} ELSE D.border[s]]
      /\ E.dead_state = IF T = {} THEN n ELSE D.dead_state
      /\ E \in [size : {E.size}, table : {E.table}, accepted : {E.accepted}, border : {E.border},
                dead_state : {E.dead_state}]
  BY DEF WithState
<1> HIDE DEF E
<1>3. StatesOf(E) = 0 .. n /\ 0 .. n = StatesOf(D) \cup {n} /\ n \notin StatesOf(D)
  <2>1. 0 .. n = 0 .. n - 1 \cup {n} /\ n \notin 0 .. n - 1 /\ (n + 1) - 1 = n
    BY <1>1
  <2>2. StatesOf(E) = 0 .. E.size - 1
    BY DEF StatesOf
  <2> QED
    BY <1>1, <1>2, <2>1, <2>2
<1>4. IsHead(E)
  <2>1. NoRow \in [Symbols -> StatesOf(E) \cup {NO_STATE}]
    BY DEF NoRow
  <2>2. \A s \in StatesOf(D) : D.table[s] \in [Symbols -> StatesOf(E) \cup {NO_STATE}]
    BY <1>1, <1>3
  <2>3. E.table \in [StatesOf(E) -> [Symbols -> StatesOf(E) \cup {NO_STATE}]]
    <3>1. \A s \in 0 .. n : (IF s = n THEN NoRow ELSE D.table[s]) \in [Symbols -> StatesOf(E) \cup {NO_STATE}]
      BY <1>3, <2>1, <2>2
    <3> QED
      BY <1>2, <1>3, <3>1
  <2>4. AcceptedBy(task.nfa, T) \in SUBSET Rules
    BY SubsetsAccept
  <2>5. E.accepted \in [StatesOf(E) -> SUBSET Rules] /\ E.border \in [StatesOf(E) -> SUBSET NfaStates]
    BY <1>1, <1>2, <1>3, <2>4
  <2>6. E.dead_state \in Int /\ E.size \in Nat \ {0}
    BY <1>1, <1>2
  <2> QED
    BY <1>2, <2>3, <2>5, <2>6 DEF IsHead
<1>5. /\ st.subsets \in Seq(SUBSET NfaStates) /\ Len(st.subsets) = n /\ st.subsets[1] = {Root}
      /\ st.queue \in Seq(StatesOf(D))
  BY DEF IsBuild
<1>6. /\ U \in Seq(SUBSET NfaStates) /\ Len(U) = n + 1 /\ ToSet(U) = ToSet(st.subsets) \cup {T}
      /\ \A i \in 1 .. n : U[i] = st.subsets[i]
      /\ U[n + 1] = T
  BY <1>5, AppendedElements
<1>7. q \in Seq(StatesOf(E)) /\ ToSet(q) = ToSet(st.queue) \cup {n}
  <2>1. st.queue \in Seq(StatesOf(E)) /\ n \in StatesOf(E)
    BY <1>3, <1>5
  <2> QED
    BY <2>1, AppendedElements
<1>8. more = [head |-> E, subsets |-> U, queue |-> q]
  BY DEF AddedState, E
<1> HIDE DEF U, q, more, n, D
<1>9. \A s \in StatesOf(D) : s + 1 \in 1 .. n /\ U[s + 1] = st.subsets[s + 1]
  BY <1>1, <1>6
<1>10. \A s \in StatesOf(E) : E.accepted[s] = AcceptedBy(task.nfa, U[s + 1])
  <2>1. \A s \in StatesOf(D) : D.accepted[s] = AcceptedBy(task.nfa, st.subsets[s + 1])
    BY DEF IsBuild, D
  <2>2. ASSUME NEW s \in StatesOf(D) PROVE E.accepted[s] = AcceptedBy(task.nfa, U[s + 1])
    BY <1>2, <1>3, <1>9, <2>1
  <2>3. E.accepted[n] = AcceptedBy(task.nfa, U[n + 1])
    BY <1>2, <1>3, <1>6
  <2> QED
    BY <1>3, <2>2, <2>3
<1>11. U[1] = {Root}
  BY SMTT(20), <1>1, <1>5, <1>6
<1>12. IsBuild(more)
  BY <1>2, <1>4, <1>6, <1>7, <1>8, <1>10, <1>11 DEF IsBuild
<1>13. Grows(st, more, except)
  <2>1. \A s \in StatesOf(D) : E.border[s] = D.border[s] /\ E.table[s] = D.table[s]
    BY <1>2, <1>3
  <2> QED
    BY <1>3, <1>7, <1>8, <1>9, <2>1 DEF Grows, D
<1> QED
  BY <1>6, <1>8, <1>12, <1>13 DEF more

(* Adding nothing leaves every row as it is.                               *)
LEMMA GrowsItself ==
  ASSUME NEW st, NEW except
  PROVE  Grows(st, st, except)
BY DEF Grows

(* States added twice are states added.                                    *)
LEMMA GrowsOn ==
  ASSUME NEW a, NEW b, NEW e, NEW except, Grows(a, b, except), Grows(b, e, except)
  PROVE  Grows(a, e, except)
<1>1. \A s \in StatesOf(a.head) : s \in StatesOf(b.head)
  BY DEF Grows
<1> QED
  BY <1>1 DEF Grows

(* A move that is done stays so while other rows are filled. *)
LEMMA DoneStaysDone ==
  ASSUME NEW st, NEW more, NEW except, Grows(st, more, except), IsHead(st.head),
         NEW s \in StatesOf(st.head), s # except
  PROVE  /\ \A c \in Symbols : MoveDone(st, s, c) => MoveDone(more, s, c)
         /\ RowDone(st, s) => RowDone(more, s)
<1>1. /\ more.head.table[s] = st.head.table[s] /\ more.head.border[s] = st.head.border[s]
      /\ more.subsets[s + 1] = st.subsets[s + 1]
  BY DEF Grows
<1>2. ASSUME NEW c \in Symbols, MoveDone(st, s, c)
      PROVE  MoveDone(more, s, c)
  <2>1. st.head.table[s][c] \in StatesOf(st.head)
    BY <1>2 DEF MoveDone
  <2>2. /\ st.head.table[s][c] \in StatesOf(more.head)
        /\ more.subsets[st.head.table[s][c] + 1] = st.subsets[st.head.table[s][c] + 1]
    BY <2>1 DEF Grows
  <2> QED
    BY <1>1, <1>2, <2>2 DEF MoveDone
<1> QED
  BY <1>1, <1>2 DEF RowDone

(* The search for a subset leaves one that is in the list. *)
LEMMA LookupFinds ==
  ASSUME task.nfa \in NfaOver(NfaStates), NEW st, IsBuild(st), NEW T \in SUBSET NfaStates, NEW except
  PROVE  /\ IsBuild(Lookup(st, T))
         /\ Grows(st, Lookup(st, T), except)
         /\ T \in ToSet(Lookup(st, T).subsets)
BY AddedStateBuilds, GrowsItself DEF Lookup

(* A transition to the state of a subset that is in the list. *)
LEMMA TransitionIsAdded ==
  ASSUME NEW st, IsBuild(st), NEW T \in ToSet(st.subsets), NEW s \in StatesOf(st.head),
         NEW c \in Symbols
  PROVE  LET more == AddTransition(st, s, T, c)
         IN /\ IsBuild(more)
            /\ Grows(st, more, s)
            /\ more.subsets = st.subsets
            /\ StatesOf(more.head) = StatesOf(st.head)
            /\ \A a \in Symbols \ {c} : more.head.table[s][a] = st.head.table[s][a]
            /\ more.head.table[s][c] \in StatesOf(st.head)
            /\ st.subsets[more.head.table[s][c] + 1] = T
<1> DEFINE D == st.head
           t == StateOf(st, T)
           table == [D.table EXCEPT ![s][c] = t]
           E == [D EXCEPT !.table = table]
           more == AddTransition(st, s, T, c)
<1>1. /\ D.size \in Nat \ {0} /\ StatesOf(D) = 0 .. D.size - 1
      /\ D.table \in [StatesOf(D) -> [Symbols -> StatesOf(D) \cup {NO_STATE}]]
      /\ D \in [size       : {D.size},
                table      : [StatesOf(D) -> [Symbols -> StatesOf(D) \cup {NO_STATE}]],
                accepted   : [StatesOf(D) -> SUBSET Rules],
                border     : [StatesOf(D) -> SUBSET NfaStates],
                dead_state : Int]
      /\ st.subsets \in Seq(SUBSET NfaStates) /\ Len(st.subsets) = D.size
      /\ st \in [head : {D}, subsets : {st.subsets}, queue : {st.queue}]
  BY DEF IsBuild, IsHead, StatesOf
<1>2. t \in StatesOf(D) /\ st.subsets[t + 1] = T
  <2>1. PICK i \in DOMAIN st.subsets : st.subsets[i] = T
    BY DEF ToSet
  <2>2. PICK j : j = (CHOOSE x \in DOMAIN st.subsets : st.subsets[x] = T)
    OBVIOUS
  <2>3. j \in DOMAIN st.subsets /\ st.subsets[j] = T
    BY <2>1, <2>2
  <2>4. DOMAIN st.subsets = 1 .. D.size
    BY <1>1
  <2>5. t = j - 1
    BY <2>2 DEF StateOf
  <2>6. j \in 1 .. D.size
    BY <2>3, <2>4
  <2>7. t \in 0 .. D.size - 1 /\ t + 1 = j
    BY <1>1, <2>5, <2>6
  <2> QED
    BY <1>1, <2>3, <2>7
<1> HIDE DEF t
<1>3. table \in [StatesOf(D) -> [Symbols -> StatesOf(D) \cup {NO_STATE}]]
  BY <1>1, <1>2
<1>4. /\ table[s][c] = t
      /\ \A a \in Symbols \ {c} : table[s][a] = D.table[s][a]
      /\ \A r \in StatesOf(D) : r # s => table[r] = D.table[r]
  BY <1>1
<1>5. more = [st EXCEPT !.head = E]
  BY <1>1 DEF AddTransition, t
<1> HIDE DEF table
<1>6. /\ E.size = D.size /\ E.table = table /\ E.accepted = D.accepted /\ E.border = D.border
      /\ E.dead_state = D.dead_state
      /\ E \in [size : {D.size}, table : {table}, accepted : {D.accepted}, border : {D.border},
                dead_state : {D.dead_state}]
  BY <1>1
<1>7. StatesOf(E) = StatesOf(D)
  BY <1>6 DEF StatesOf
<1>8. IsHead(E)
  BY <1>1, <1>3, <1>6, <1>7 DEF IsHead
<1> HIDE DEF E, more
<1>9. /\ more.head = E /\ more.subsets = st.subsets /\ more.queue = st.queue
      /\ more \in [head : {E}, subsets : {st.subsets}, queue : {st.queue}]
  BY <1>1, <1>5
<1>10. /\ st.subsets[1] = {Root} /\ st.queue \in Seq(StatesOf(D))
       /\ \A r \in StatesOf(D) : D.accepted[r] = AcceptedBy(task.nfa, st.subsets[r + 1])
  BY DEF IsBuild
<1>11. IsBuild(more)
  BY <1>1, <1>6, <1>7, <1>8, <1>9, <1>10 DEF IsBuild
<1>12. Grows(st, more, s)
  BY <1>4, <1>6, <1>7, <1>9 DEF Grows
<1> QED
  BY <1>2, <1>4, <1>6, <1>7, <1>9, <1>11, <1>12 DEF more

(* The states whose moves a head state takes. *)
Followed(st, s) == st.subsets[s + 1] \ SpecialIn(st.subsets[s + 1])

(* So many symbols of a head state are done. *)
InProgress(from, st, s, i) ==
  /\ IsBuild(st)
  /\ Grows(from, st, s)
  /\ \A c \in 0 .. i - 1 : MoveDone(st, s, c)

(* One more symbol. *)
LEMMA FollowTargetStep ==
  ASSUME task.nfa \in NfaOver(NfaStates), NEW from, IsBuild(from), NEW s \in StatesOf(from.head),
         NEW i \in Symbols, NEW st, InProgress(from, st, s, i)
  PROVE  InProgress(from, FollowTarget(st, s, Target(Followed(from, s), i), i), s, i + 1)
<1> DEFINE T == Target(Followed(from, s), i)
           found == Lookup(st, T)
           more == AddTransition(found, s, T, i)
<1>1. from.subsets[s + 1] \in SUBSET NfaStates
  <2>1. /\ from.subsets \in Seq(SUBSET NfaStates) /\ Len(from.subsets) = from.head.size
        /\ from.head.size \in Nat /\ StatesOf(from.head) = 0 .. from.head.size - 1
    BY DEF IsBuild, IsHead, StatesOf
  <2>2. s + 1 \in 1 .. Len(from.subsets)
    BY <2>1
  <2> QED
    BY <2>1, <2>2
<1>2. T \in SUBSET NfaStates
  BY <1>1, SubsetsAccept DEF Followed
<1> HIDE DEF T
<1>3. IsBuild(found) /\ Grows(st, found, s) /\ T \in ToSet(found.subsets)
  BY <1>2, LookupFinds DEF InProgress
<1>4. Grows(from, found, s)
  BY <1>3, GrowsOn DEF InProgress
<1>5. s \in StatesOf(found.head) /\ found.subsets[s + 1] = from.subsets[s + 1]
  BY <1>4 DEF Grows
<1> HIDE DEF found
<1>6. /\ IsBuild(more)
      /\ Grows(found, more, s)
      /\ more.subsets = found.subsets
      /\ StatesOf(more.head) = StatesOf(found.head)
      /\ \A a \in Symbols \ {i} : more.head.table[s][a] = found.head.table[s][a]
      /\ more.head.table[s][i] \in StatesOf(found.head)
      /\ found.subsets[more.head.table[s][i] + 1] = T
  BY <1>3, <1>5, TransitionIsAdded
<1> HIDE DEF more
<1>7. Grows(from, more, s)
  BY <1>4, <1>6, GrowsOn
<1>8. MoveDone(more, s, i)
  BY <1>5, <1>6 DEF MoveDone, T, Followed
<1>9. ASSUME NEW c \in 0 .. i - 1
      PROVE  MoveDone(more, s, c)
  <2>1. MoveDone(st, s, c) /\ s \in StatesOf(st.head) /\ st.subsets[s + 1] = from.subsets[s + 1]
    BY DEF InProgress, Grows
  <2>2. c \in Symbols /\ c # i
    BY AlphabetAssumption DEF Symbols
  <2>3. st.head.table[s][c] \in StatesOf(st.head)
    BY <2>1 DEF MoveDone
  <2>4. MoveDone(st, s, c) => MoveDone(found, s, c)
    <3>1. CASE T \in ToSet(st.subsets)
      BY <3>1 DEF found, Lookup
    <3>2. CASE T \notin ToSet(st.subsets)
      <4>1. Grows(st, AddedState(st, T), NO_STATE)
        BY <1>2, AddedStateBuilds DEF InProgress
      <4>2. found = AddedState(st, T)
        BY <3>2 DEF found, Lookup
      <4>3. IsHead(st.head) /\ s # NO_STATE
        <5>1. IsHead(st.head)
          BY DEF InProgress, IsBuild
        <5>2. st.head.size \in Nat /\ StatesOf(st.head) = 0 .. st.head.size - 1
          BY <5>1 DEF IsHead, StatesOf
        <5> QED
          BY <2>1, <5>1, <5>2 DEF NO_STATE
      <4> QED
        BY <2>1, <2>2, <4>1, <4>2, <4>3, DoneStaysDone
    <3> QED
      BY <3>1, <3>2
  <2> QED
    BY <1>6, <2>1, <2>2, <2>4 DEF MoveDone
<1>10. \A c \in 0 .. i : MoveDone(more, s, c)
  <2>1. \A c \in 0 .. i : c = i \/ c \in 0 .. i - 1
    BY AlphabetAssumption DEF Symbols
  <2> QED
    BY <1>8, <1>9, <2>1
<1>11. (i + 1) - 1 = i
  BY AlphabetAssumption DEF Symbols
<1>12. FollowTarget(st, s, T, i) = more
  BY DEF FollowTarget, more, found
<1> QED
  BY <1>6, <1>7, <1>10, <1>11, <1>12 DEF InProgress, T

(* The symbols one after the other. *)
AreFollowed(st, s, S, m, after) ==
  after = [i \in 0 .. m |->
             IF i = 0 THEN st ELSE FollowTarget(after[i - 1], s, Target(S, i - 1), i - 1)]

(* However many symbols, there is a state after each of them ...           *)
LEMMA SomethingIsFollowed ==
  ASSUME NEW st, NEW s, NEW S, NEW m \in Nat
  PROVE  \E after : AreFollowed(st, s, S, m, after)
<1> DEFINE Has(i) == \E after : AreFollowed(st, s, S, i, after)
           None == {i \in 0 .. m : ~ Has(i)}
           More(before, i) == FollowTarget(before, s, Target(S, i - 1), i - 1)
<1>1. SUFFICES ASSUME None # {} PROVE FALSE
  OBVIOUS
<1>2. PICK i \in None : \A j \in None : i <= j
  <2> HIDE DEF None
  <2>1. None \in SUBSET Nat
    BY DEF None
  <2> QED
    BY <1>1, <2>1, LeastNumber
<1> HIDE DEF More
<1>3. CASE i = 0
  <2>1. AreFollowed(st, s, S, 0, [d \in 0 .. 0 |-> st])
    BY DEF AreFollowed, More
  <2> QED
    BY <1>2, <1>3, <2>1
<1>4. CASE i # 0
  <2>1. i - 1 \in 0 .. m /\ i \in 1 .. m /\ Has(i - 1)
    BY <1>2, <1>4
  <2>2. PICK at : at = [d \in 0 .. i - 1 |-> IF d = 0 THEN st ELSE More(at[d - 1], d)]
    BY <2>1 DEF AreFollowed, More
  <2> DEFINE bt == [d \in 0 .. i |-> IF d = i THEN More(at[i - 1], i) ELSE at[d]]
  <2>3. ASSUME NEW d \in 0 .. i
        PROVE  bt[d] = IF d = 0 THEN st ELSE More(bt[d - 1], d)
    <3>1. d # 0 => d - 1 \in 0 .. i /\ d - 1 # i /\ bt[d - 1] = at[d - 1]
      BY <2>1
    <3>2. CASE d = i
      BY <1>4, <3>1, <3>2
    <3>3. CASE d # i
      <4>1. d \in 0 .. i - 1 /\ bt[d] = at[d]
        BY <2>1, <3>3
      <4> QED
        BY <2>2, <3>1, <4>1
    <3> QED
      BY <3>2, <3>3
  <2>4. bt = [d \in 0 .. i |-> bt[d]]
    OBVIOUS
  <2> HIDE DEF bt
  <2>5. bt = [d \in 0 .. i |-> IF d = 0 THEN st ELSE More(bt[d - 1], d)]
    BY <2>3, <2>4
  <2>6. AreFollowed(st, s, S, i, bt)
    BY <2>5 DEF AreFollowed, More
  <2> QED
    BY <1>2, <2>6
<1> QED
  BY <1>3, <1>4

(* All symbols of a head state. *)
LEMMA FollowSymbolsStep ==
  ASSUME task.nfa \in NfaOver(NfaStates), NEW from, IsBuild(from), NEW s \in StatesOf(from.head)
  PROVE  InProgress(from, FollowSymbols(from, s, Followed(from, s)), s, CSIZE)
<1> DEFINE S == Followed(from, s)
           F(after) == [i \in 0 .. CSIZE |->
                          IF i = 0 THEN from ELSE FollowTarget(after[i - 1], s, Target(S, i - 1), i - 1)]
<1> HIDE DEF S
<1>1. \E after : after = F(after)
  <2>1. PICK after : AreFollowed(from, s, S, CSIZE, after)
    BY AlphabetAssumption, SomethingIsFollowed
  <2>2. after = F(after)
    BY <2>1 DEF AreFollowed
  <2> QED
    BY <2>2
<1>2. PICK after : after = F(after) /\ FollowSymbols(from, s, S) = after[CSIZE]
  <2> DEFINE chosen == CHOOSE after : after = F(after)
  <2>1. FollowSymbols(from, s, S) = chosen[CSIZE]
    BY DEF FollowSymbols
  <2>2. chosen = F(chosen)
    <3> HIDE DEF F
    <3> QED
      BY <1>1
  <2> QED
    BY <2>1, <2>2
<1> DEFINE Off == {i \in 0 .. CSIZE : ~ InProgress(from, after[i], s, i)}
<1>3. SUFFICES ASSUME Off # {} PROVE FALSE
  <2>1. CSIZE \in 0 .. CSIZE
    BY AlphabetAssumption
  <2>2. ASSUME Off = {} PROVE InProgress(from, FollowSymbols(from, s, S), s, CSIZE)
    BY <1>2, <2>1, <2>2
  <2> QED
    BY <2>2 DEF S
<1>4. PICK i \in Off : \A j \in Off : i <= j
  <2>1. Off \in SUBSET Nat
    BY AlphabetAssumption
  <2> HIDE DEF Off
  <2> QED
    BY <1>3, <2>1, LeastNumber
<1>5. CASE i = 0
  <2>1. after[0] = from
    BY <1>2, AlphabetAssumption
  <2>2. InProgress(from, from, s, 0)
    BY GrowsItself DEF InProgress
  <2> QED
    BY <1>4, <1>5, <2>1, <2>2
<1>6. CASE i # 0
  <2>1. i - 1 \in 0 .. CSIZE /\ i \in 0 .. CSIZE /\ i - 1 \in Symbols /\ ~ (i <= i - 1) /\ (i - 1) + 1 = i
    BY <1>4, <1>6, AlphabetAssumption DEF Symbols
  <2>2. i - 1 \notin Off
    <3> HIDE DEF Off
    <3> QED
      BY <1>4, <2>1
  <2>3. InProgress(from, after[i - 1], s, i - 1)
    BY <2>1, <2>2
  <2>4. after[i] = FollowTarget(after[i - 1], s, Target(S, i - 1), i - 1)
    BY <1>2, <1>6, <2>1
  <2>5. InProgress(from, after[i], s, (i - 1) + 1)
    BY <2>1, <2>3, <2>4, FollowTargetStep DEF S
  <2> QED
    BY <1>4, <2>1, <2>5
<1> QED
  BY <1>5, <1>6

-----------------------------------------------------------------------------
(***************************************************************************)
(* The construction.                                                       *)
(***************************************************************************)
Construction == [head |-> head, subsets |-> subsets, queue |-> queue]

(* All states but those in the queue are as they will be. *)
Building ==
  /\ IsBuild(Construction)
  /\ \A s \in StatesOf(head) : s \in ToSet(queue) \/ RowDone(Construction, s)

(* What is said of a construction stays true as long as the NFA does.      *)
LEMMA ConstructionFrame ==
  ASSUME NEW st, UNCHANGED <<task, depth>>
  PROVE  /\ IsBuild(st) => IsBuild(st)'
         /\ \A s : RowDone(st, s) => RowDone(st, s)'
<1>1. Root' = Root /\ NfaStates' = NfaStates
  BY DEF Root, NfaStates, StatesIn
<1>2. IsBuild(st) => IsBuild(st)'
  BY <1>1 DEF IsBuild, IsHead
<1>3. ASSUME NEW s PROVE RowDone(st, s) => RowDone(st, s)'
  <2>1. PICK U, border, row : U = st.subsets[s + 1] /\ border = st.head.border[s] /\ row = st.head.table[s]
    OBVIOUS
  <2>2. \A n : NumTransitions(n)' = NumTransitions(n)
    BY DEF NumTransitions, StatesIn
  <2>3. \A n : Special(n)' <=> Special(n)
    BY <2>2 DEF Special
  <2>4. SpecialIn(U)' = SpecialIn(U)
    BY <2>3 DEF SpecialIn
  <2>5. ASSUME NEW c \in Symbols, MoveDone(st, s, c)
        PROVE  MoveDone(st, s, c)'
    <3>1. Target(U \ SpecialIn(U), c)' = Target(U \ SpecialIn(U), c)
      BY <2>4 DEF Target
    <3> QED
      BY <2>1, <2>5, <3>1 DEF MoveDone
  <2> QED
    BY <2>1, <2>4, <2>5 DEF RowDone
<1> QED
  BY <1>2, <1>3

(* A state that is processed leaves the queue, and nothing is lost.        *)
LEMMA ProcessStateBuilds ==
  ASSUME task.nfa \in NfaOver(NfaStates), Building, ProcessState
  PROVE  Building'
<1> DEFINE q == Head(queue)
           U == subsets[q + 1]
           D == [head EXCEPT !.border[q] = SpecialIn(U)]
           from == [head |-> D, subsets |-> subsets, queue |-> Tail(queue)]
           st == FollowSymbols(from, q, U \ SpecialIn(U))
<1>1. /\ head.size \in Nat \ {0} /\ StatesOf(head) = 0 .. head.size - 1
      /\ head \in [size       : {head.size},
                   table      : [StatesOf(head) -> [Symbols -> StatesOf(head) \cup {NO_STATE}]],
                   accepted   : [StatesOf(head) -> SUBSET Rules],
                   border     : [StatesOf(head) -> SUBSET NfaStates],
                   dead_state : Int]
      /\ subsets \in Seq(SUBSET NfaStates) /\ Len(subsets) = head.size /\ subsets[1] = {Root}
      /\ queue \in Seq(StatesOf(head)) /\ queue # <<>>
      /\ \A s \in StatesOf(head) : head.accepted[s] = AcceptedBy(task.nfa, subsets[s + 1])
  BY DEF Building, IsBuild, IsHead, Construction, ProcessState, StatesOf
<1>2. /\ q \in StatesOf(head) /\ Tail(queue) \in Seq(StatesOf(head))
      /\ \A s \in ToSet(queue) : s = q \/ s \in ToSet(Tail(queue))
  <2>1. /\ Len(queue) \in Nat \ {0} /\ q = queue[1] /\ Tail(queue) \in Seq(StatesOf(head))
        /\ Len(Tail(queue)) = Len(queue) - 1
        /\ \A i \in 1 .. Len(queue) - 1 : Tail(queue)[i] = queue[i + 1]
        /\ DOMAIN queue = 1 .. Len(queue) /\ DOMAIN Tail(queue) = 1 .. Len(queue) - 1
    BY <1>1
  <2>2. ASSUME NEW s \in ToSet(queue) PROVE s = q \/ s \in ToSet(Tail(queue))
    <3>1. PICK i \in 1 .. Len(queue) : s = queue[i]
      BY <2>1 DEF ToSet
    <3>2. CASE i = 1
      BY <2>1, <3>1, <3>2
    <3>3. CASE i # 1
      <4>1. i - 1 \in 1 .. Len(queue) - 1 /\ (i - 1) + 1 = i
        BY <2>1, <3>3
      <4>2. s = Tail(queue)[i - 1] /\ i - 1 \in DOMAIN Tail(queue)
        BY <2>1, <3>1, <4>1
      <4> QED
        BY <4>2 DEF ToSet
    <3> QED
      BY <3>2, <3>3
  <2>3. q \in StatesOf(head)
    BY <1>1, <2>1
  <2> QED
    BY <2>1, <2>2, <2>3
<1>3. U \in SUBSET NfaStates /\ SpecialIn(U) \in SUBSET NfaStates
  <2>1. q + 1 \in 1 .. Len(subsets)
    BY <1>1, <1>2
  <2>2. U \in SUBSET NfaStates
    BY <1>1, <2>1
  <2> QED
    BY <2>2 DEF SpecialIn
<1> HIDE DEF q, U
<1>4. /\ D.size = head.size /\ D.table = head.table /\ D.accepted = head.accepted
      /\ D.border = [head.border EXCEPT ![q] = SpecialIn(U)] /\ D.dead_state = head.dead_state
      /\ D \in [size : {head.size}, table : {head.table}, accepted : {head.accepted},
                border : {D.border}, dead_state : {head.dead_state}]
  BY <1>1
<1> HIDE DEF D
<1>5. /\ StatesOf(D) = StatesOf(head)
      /\ D.border \in [StatesOf(head) -> SUBSET NfaStates]
      /\ D.border[q] = SpecialIn(U)
      /\ \A s \in StatesOf(head) \ {q} : D.border[s] = head.border[s]
  BY <1>1, <1>2, <1>3, <1>4 DEF StatesOf
<1>6. IsHead(D)
  BY <1>1, <1>4, <1>5 DEF IsHead
<1>7. IsBuild(from)
  BY <1>1, <1>2, <1>4, <1>5, <1>6 DEF IsBuild
<1>8. from.head = D /\ from.subsets = subsets /\ from.queue = Tail(queue)
  OBVIOUS
<1> HIDE DEF from
<1>9. Followed(from, q) = U \ SpecialIn(U)
  BY <1>8 DEF Followed, U
<1>10. InProgress(from, st, q, CSIZE)
  BY <1>2, <1>5, <1>7, <1>8, <1>9, FollowSymbolsStep
<1> HIDE DEF st
<1>11. head' = st.head /\ subsets' = st.subsets /\ queue' = st.queue /\ UNCHANGED <<task, depth>>
  BY <1>8 DEF ProcessState, SetHead, Processed, SubsetOf, st, from, D, U, q
<1>12. IsBuild(st) /\ Grows(from, st, q) /\ \A c \in Symbols : MoveDone(st, q, c)
  BY <1>10 DEF InProgress, Symbols
<1>13. Construction' = st
  BY <1>11, <1>12 DEF Construction, IsBuild
<1>14. RowDone(st, q)
  <2>1. st.subsets[q + 1] = U /\ st.head.border[q] = SpecialIn(U)
    BY <1>2, <1>5, <1>8, <1>12 DEF Grows, U
  <2> QED
    BY <1>12, <2>1 DEF RowDone
<1>15. ASSUME NEW s \in StatesOf(head), s # q, s \notin ToSet(queue)
       PROVE  RowDone(st, s)
  <2>1. RowDone(Construction, s)
    BY <1>15 DEF Building
  <2>2. RowDone(from, s)
    BY <1>4, <1>5, <1>8, <1>15, <2>1 DEF RowDone, MoveDone, Construction
  <2> QED
    BY <1>5, <1>6, <1>8, <1>12, <1>15, <2>2, DoneStaysDone
<1>16. \A s \in StatesOf(st.head) : s \in ToSet(st.queue) \/ RowDone(st, s)
  <2> SUFFICES ASSUME NEW s \in StatesOf(st.head), s \notin ToSet(st.queue)
               PROVE  RowDone(st, s)
    OBVIOUS
  <2>1. s \in StatesOf(head) /\ s \notin ToSet(Tail(queue))
    BY <1>5, <1>8, <1>12 DEF Grows
  <2> QED
    BY <1>2, <1>14, <1>15, <2>1
<1>17. PICK x : x = st
  OBVIOUS
<1>18. /\ IsBuild(x)'
       /\ \A s \in StatesOf(x.head) : s \in ToSet(x.queue) \/ RowDone(x, s)'
  BY <1>11, <1>12, <1>16, <1>17, ConstructionFrame
<1>19. Construction' = x /\ head' = x.head /\ queue' = x.queue
  BY <1>11, <1>13, <1>17
<1> HIDE DEF Construction
<1> QED
  BY <1>18, <1>19 DEF Building

-----------------------------------------------------------------------------
(***************************************************************************)
(* The refinement of the head.                                             *)
(***************************************************************************)
(* What the minimizer assumes of the automata it is called on. *)
LEMMA LabelledAreComplete ==
  \A D \in LabelledDfas :
    /\ D.size \in Nat \ {0}
    /\ D \in [size       : {D.size},
              table      : [HP!StatesOf(D) -> [HP!Symbols -> HP!StatesOf(D)]],
              accepted   : [HP!StatesOf(D) -> SUBSET AllLabels],
              dead_state : Int]
BY DEF LabelledDfas, HP!StatesOf, HP!Symbols, Symbols


(* The steps of the refinement are those of the minimizer. *)
RefineStep == \/ Refine!Group
              \/ \E p \in L : Refine!Split(p)
              \/ Refine!EmptyWorkList
              \/ Refine!Rebuild

(* Both instances name the same things.                                    *)
LEMMA SameNames ==
  /\ Refine!States = HP!States /\ Refine!AllStates = HP!AllStates
  /\ Refine!Symbols = HP!Symbols /\ Refine!ErrorBlock = HP!ErrorBlock
  /\ Refine!NO_STATE = HP!NO_STATE
  /\ \A s : Refine!Accepts(s) = HP!Accepts(s)
  /\ \A a, b : Refine!Delta(a, b) = HP!Delta(a, b)
  /\ \A f, B : Refine!Members(f, B) = HP!Members(f, B)
  /\ \A f, n, B : Refine!IsLargest(f, n, B) <=> HP!IsLargest(f, n, B)
  /\ \A S, T : Refine!Bijection(S, T) = HP!Bijection(S, T)
  /\ \A S : Refine!Cardinality(S) = Cardinality(S) /\ HP!Cardinality(S) = Cardinality(S)
<1>0. \A S : Refine!Cardinality(S) = Cardinality(S) /\ HP!Cardinality(S) = Cardinality(S)
  BY DEF Refine!Cardinality, HP!Cardinality, Cardinality
<1>1. /\ Refine!States = HP!States /\ Refine!AllStates = HP!AllStates
      /\ Refine!Symbols = HP!Symbols /\ Refine!ErrorBlock = HP!ErrorBlock
      /\ Refine!NO_STATE = HP!NO_STATE
  BY DEF Refine!States, HP!States, Refine!AllStates, HP!AllStates, Refine!StatesOf, HP!StatesOf,
     Refine!Symbols, HP!Symbols, Refine!NO_STATE, HP!NO_STATE, Refine!ErrorBlock, HP!ErrorBlock
<1>2. \A s : Refine!Accepts(s) = HP!Accepts(s)
  BY DEF Refine!Accepts, HP!Accepts
<1>3. \A a, b : Refine!Delta(a, b) = HP!Delta(a, b)
  BY <1>1 DEF Refine!Delta, HP!Delta
<1>4. \A f, B : Refine!Members(f, B) = HP!Members(f, B)
  BY <1>1 DEF Refine!Members, HP!Members
<1>5. \A f, n, B : Refine!IsLargest(f, n, B) <=> HP!IsLargest(f, n, B)
  BY <1>0, <1>4 DEF Refine!IsLargest, HP!IsLargest
<1>6. \A S, T : Refine!Bijection(S, T) = HP!Bijection(S, T)
  BY DEF Refine!Bijection, HP!Bijection, Refine!Injection, HP!Injection, Refine!Surjection,
     HP!Surjection, Refine!IsInjective, HP!IsInjective
<1> QED
  BY <1>0, <1>1, <1>2, <1>3, <1>4, <1>5, <1>6

(* The first grouping of head states is that of the minimizer of DFAs.     *)
LEMMA GroupsAsMinimizer == Refine!Group => HP!Group
<1> DEFINE keys == {HP!Accepts(s) : s \in HP!States}
           last == Cardinality(keys)
           Blk(number) == [s \in HP!AllStates |->
                             IF s = HP!NO_STATE THEN HP!ErrorBlock ELSE number[HP!Accepts(s)]]
           FirstsInOrder(number) ==
             \A s, t \in HP!States :
               number[HP!Accepts(s)] < number[HP!Accepts(t)] =>
                 \E u \in HP!States : HP!Accepts(u) = HP!Accepts(s) /\ u < t
<1>1. SUFFICES ASSUME Refine!Group PROVE HP!Group
  OBVIOUS
<1>2. {Refine!Accepts(s) : s \in Refine!States} = keys
  BY SameNames
<1>3. PICK number \in Refine!Bijection(keys, 1 .. last) :
         /\ \A s, t \in Refine!States :
              number[Refine!Accepts(s)] < number[Refine!Accepts(t)] =>
                \E u \in Refine!States : Refine!Accepts(u) = Refine!Accepts(s) /\ u < t
         /\ block' = [s \in Refine!AllStates |->
                        IF s = Refine!NO_STATE THEN Refine!ErrorBlock
                        ELSE number[Refine!Accepts(s)]]
         /\ \E max \in 0 .. last :
              /\ Refine!IsLargest([s \in Refine!AllStates |->
                        IF s = Refine!NO_STATE THEN Refine!ErrorBlock
                        ELSE number[Refine!Accepts(s)]], last, max)
              /\ L' = ((0 .. last) \ {max}) \X Refine!Symbols
  <2> DEFINE same == {Refine!Accepts(s) : s \in Refine!States}
             size == Refine!Cardinality(same)
  <2>1. \E number \in Refine!Bijection(same, 1 .. size) :
          /\ \A s, t \in Refine!States :
               number[Refine!Accepts(s)] < number[Refine!Accepts(t)] =>
                 \E u \in Refine!States : Refine!Accepts(u) = Refine!Accepts(s) /\ u < t
          /\ block' = [s \in Refine!AllStates |->
                         IF s = Refine!NO_STATE THEN Refine!ErrorBlock
                         ELSE number[Refine!Accepts(s)]]
          /\ \E max \in 0 .. size :
               /\ Refine!IsLargest([s \in Refine!AllStates |->
                         IF s = Refine!NO_STATE THEN Refine!ErrorBlock
                         ELSE number[Refine!Accepts(s)]], size, max)
               /\ L' = ((0 .. size) \ {max}) \X Refine!Symbols
    BY <1>1 DEF Refine!Group
  <2>2. same = keys /\ size = last
    BY <1>2, SameNames
  <2> HIDE DEF same, size, keys, last
  <2> QED
    BY <2>1, <2>2
<1>4. [s \in Refine!AllStates |-> IF s = Refine!NO_STATE THEN Refine!ErrorBlock
                                  ELSE number[Refine!Accepts(s)]] = Blk(number)
  BY SameNames
<1>5. FirstsInOrder(number)
  BY <1>3, SameNames
<1>6. number \in HP!Bijection(keys, 1 .. last)
  BY <1>3, SameNames
<1>7. PICK max \in 0 .. last : HP!IsLargest(Blk(number), last, max)
                               /\ L' = ((0 .. last) \ {max}) \X HP!Symbols
  BY <1>3, <1>4, SameNames
<1>8. block' = Blk(number)
  BY <1>3, <1>4
<1>9. mpc = "group" /\ mpc' = "split" /\ lastBlock' = last /\ UNCHANGED <<given, dfa>>
  BY <1>1, <1>2, SameNames DEF Refine!Group
<1> QED
  BY <1>5, <1>6, <1>7, <1>8, <1>9, SameNames DEF HP!Group

(* What minimize of the hybrid automaton does to its blocks is a step of   *)
(* the minimizer of DFAs.                                                  *)
LEMMA RefinesAsMinimizer == RefineStep => HP!Next
<1>1. ASSUME NEW p \in L, Refine!Split(p) PROVE HP!Split(p)
  <2>1. \A q : Refine!Sources(q) = HP!Sources(q)
    BY SameNames DEF Refine!Sources, HP!Sources
  <2>2. \A D : Refine!SplitBy(D) = HP!SplitBy(D)
    BY SameNames DEF Refine!SplitBy, HP!SplitBy
  <2>3. \A B : Refine!Twins(B) = HP!Twins(B)
    BY SameNames DEF Refine!Twins, HP!Twins
  <2>4. \A D, B, f : Refine!Moved(D, B, f) = HP!Moved(D, B, f)
    BY SameNames DEF Refine!Moved, HP!Moved
  <2>5. \A f, B, t, c, P : Refine!Requeued(f, B, t, c, P) = HP!Requeued(f, B, t, c, P)
    BY SameNames DEF Refine!Requeued, HP!Requeued
  <2>6. \A q : Refine!OtherPairs(q) = HP!OtherPairs(q)
    BY DEF Refine!OtherPairs, HP!OtherPairs
  <2> QED
    BY <1>1, <2>1, <2>2, <2>3, <2>4, <2>5, <2>6, SameNames DEF Refine!Split, HP!Split
<1>2. Refine!EmptyWorkList => HP!EmptyWorkList
  BY DEF Refine!EmptyWorkList, HP!EmptyWorkList
<1>3. Refine!Rebuild => HP!Rebuild
  <2>1. \A s : Refine!Trans(s) = HP!Trans(s)
    BY SameNames DEF Refine!Trans, HP!Trans
  <2>2. Refine!Kept = HP!Kept
    BY <2>1, SameNames DEF Refine!Kept, HP!Kept
  <2>3. \A s : Refine!NewId(s) = HP!NewId(s)
    BY <2>2, SameNames DEF Refine!NewId, HP!NewId
  <2>4. \A s, a : Refine!NewTarget(s, a) = HP!NewTarget(s, a)
    BY <2>1, <2>3 DEF Refine!NewTarget, HP!NewTarget
  <2> SUFFICES ASSUME Refine!Rebuild PROVE HP!Rebuild
    OBVIOUS
  <2> DEFINE n == Cardinality(HP!Kept)
             old(j) == CHOOSE s \in HP!Kept : HP!NewId(s) = j
             oldest(j) == CHOOSE s \in Refine!Kept : Refine!NewId(s) = j
  <2>5. \A j : oldest(j) = old(j)
    BY <2>2, <2>3
  <2>6. dfa' = [size       |-> Refine!Cardinality(Refine!Kept),
                table      |-> [j \in 0 .. Refine!Cardinality(Refine!Kept) - 1 |->
                                  [c \in Refine!Symbols |-> Refine!NewTarget(oldest(j), c)]],
                accepted   |-> [j \in 0 .. Refine!Cardinality(Refine!Kept) - 1 |->
                                  given.accepted[oldest(j)]],
                dead_state |-> dfa.dead_state]
    BY DEF Refine!Rebuild
  <2>7. Refine!Cardinality(Refine!Kept) = n /\ HP!Cardinality(HP!Kept) = n
    BY <2>2, SameNames
  <2> HIDE DEF old, oldest, n
  <2>8. dfa' = [size       |-> n,
                table      |-> [j \in 0 .. n - 1 |-> [c \in HP!Symbols |-> HP!NewTarget(old(j), c)]],
                accepted   |-> [j \in 0 .. n - 1 |-> given.accepted[old(j)]],
                dead_state |-> dfa.dead_state]
    BY <2>4, <2>5, <2>6, <2>7, SameNames
  <2>9. mpc = "rebuild" /\ mpc' = "done" /\ UNCHANGED <<given, block, lastBlock, L>>
    BY DEF Refine!Rebuild
  <2> QED
    BY <2>7, <2>8, <2>9 DEF HP!Rebuild, old
<1> QED
  BY <1>1, <1>2, <1>3, GroupsAsMinimizer DEF RefineStep, HP!Next

(* A head with all its transitions. *)
IsWholeHead(D) == IsHead(D) /\ D.table \in [StatesOf(D) -> [Symbols -> StatesOf(D)]]

(* h names the head states that stand for the subsets: they accept what    *)
(* the subset does, border on its special states and move as the others do.*)
Numbering(D, h) ==
  /\ h \in [DOMAIN subsets -> StatesOf(D)]
  /\ h[1] = 0
  /\ \A i \in DOMAIN subsets :
       /\ D.accepted[h[i]] = AcceptedBy(task.nfa, subsets[i])
       /\ D.border[h[i]] = SpecialIn(subsets[i])
       /\ \A c \in Symbols :
            \E k \in DOMAIN subsets :
              /\ subsets[k] = Target(subsets[i] \ SpecialIn(subsets[i]), c)
              /\ D.table[h[i]][c] = h[k]

(* The subsets that were met. *)
SubsetsType ==
  /\ subsets \in Seq(SUBSET NfaStates)
  /\ 1 \in DOMAIN subsets
  /\ subsets[1] = {Root}

(* The head stands for the subsets, under some numbering of its states.    *)
Built == SubsetsType /\ IsWholeHead(head) /\ \E h : Numbering(head, h)

(* When the queue is empty the head is built, every state under its number.*)
LEMMA HeadIsBuilt ==
  ASSUME Building, queue = <<>>
  PROVE  Built
<1>1. /\ IsHead(head) /\ head.size \in Nat \ {0} /\ StatesOf(head) = 0 .. head.size - 1
      /\ head.table \in [StatesOf(head) -> [Symbols -> StatesOf(head) \cup {NO_STATE}]]
      /\ subsets \in Seq(SUBSET NfaStates) /\ Len(subsets) = head.size /\ subsets[1] = {Root}
      /\ \A s \in StatesOf(head) : head.accepted[s] = AcceptedBy(task.nfa, subsets[s + 1])
  BY DEF Building, IsBuild, IsHead, Construction, StatesOf
<1>2. ToSet(queue) = {}
  BY DEF ToSet
<1>3. ASSUME NEW s \in StatesOf(head)
      PROVE  /\ head.border[s] = SpecialIn(subsets[s + 1])
             /\ \A c \in Symbols :
                  /\ head.table[s][c] \in StatesOf(head)
                  /\ subsets[head.table[s][c] + 1] =
                       Target(subsets[s + 1] \ SpecialIn(subsets[s + 1]), c)
  BY <1>2 DEF Building, RowDone, MoveDone, Construction
<1>4. head.table \in [StatesOf(head) -> [Symbols -> StatesOf(head)]]
  <2>1. \A s \in StatesOf(head) : head.table[s] \in [Symbols -> StatesOf(head)]
    BY <1>1, <1>3
  <2> QED
    BY <1>1, <2>1
<1>5. DOMAIN subsets = 1 .. head.size /\ 1 \in DOMAIN subsets
  BY <1>1
<1>6. PICK h : h = [i \in DOMAIN subsets |-> i - 1]
  OBVIOUS
<1>7. /\ h \in [DOMAIN subsets -> StatesOf(head)] /\ h[1] = 0
      /\ \A i \in DOMAIN subsets : h[i] \in StatesOf(head) /\ h[i] + 1 = i
      /\ \A s \in StatesOf(head) : s + 1 \in DOMAIN subsets /\ h[s + 1] = s
  BY <1>1, <1>5, <1>6
<1>8. ASSUME NEW i \in DOMAIN subsets, NEW c \in Symbols
      PROVE  \E k \in DOMAIN subsets :
               /\ subsets[k] = Target(subsets[i] \ SpecialIn(subsets[i]), c)
               /\ head.table[h[i]][c] = h[k]
  <2>1. PICK s \in StatesOf(head) : s = h[i] /\ s + 1 = i
    BY <1>7
  <2>2. PICK t \in StatesOf(head) : t = head.table[s][c] /\
          subsets[t + 1] = Target(subsets[s + 1] \ SpecialIn(subsets[s + 1]), c)
    BY <1>3
  <2>3. t + 1 \in DOMAIN subsets /\ h[t + 1] = t
    BY <1>7
  <2> QED
    BY <2>1, <2>2, <2>3
<1>9. \A i \in DOMAIN subsets : /\ head.accepted[h[i]] = AcceptedBy(task.nfa, subsets[i])
                                /\ head.border[h[i]] = SpecialIn(subsets[i])
  BY ZenonT(20), <1>1, <1>3, <1>7
<1>10. Numbering(head, h)
  BY <1>7, <1>8, <1>9 DEF Numbering
<1> QED
  BY <1>1, <1>4, <1>5, <1>10 DEF Built, SubsetsType, IsWholeHead

(* A head is given to the minimizer with its rules and borders as labels.  *)
LEMMA LabelledIsGiven ==
  ASSUME task \in Tasks, NEW D, IsWholeHead(D)
  PROVE  Labelled(D) \in LabelledDfas /\ StatesOf(Labelled(D)) = StatesOf(D)
<1> DEFINE n == D.size
           accepted == [s \in StatesOf(D) |-> Labels(D, s)]
<1>1. /\ n \in Nat \ {0} /\ StatesOf(D) = 0 .. n - 1
      /\ D.table \in [StatesOf(D) -> [Symbols -> StatesOf(D)]]
      /\ D.accepted \in [StatesOf(D) -> SUBSET Rules]
      /\ D.border \in [StatesOf(D) -> SUBSET NfaStates]
      /\ D.dead_state \in Int
  BY DEF IsWholeHead, IsHead, StatesOf
<1>2. ASSUME NEW s \in StatesOf(D) PROVE Labels(D, s) \in SUBSET AllLabels
  <2>1. D.accepted[s] \in SUBSET Rules
    BY <1>1
  <2>2. BorderAt(D, s) \in SUBSET NfaStates
    BY <1>1 DEF BorderAt
  <2>3. NfaStates \subseteq UNION {StatesIn(t.nfa) : t \in Tasks}
    BY DEF NfaStates
  <2>4. {RuleLabel(r) : r \in D.accepted[s]} \subseteq {RuleLabel(r) : r \in Rules}
    BY <2>1
  <2>5. {TailLabel(n1) : n1 \in BorderAt(D, s)} \subseteq
          {TailLabel(n1) : n1 \in UNION {StatesIn(t.nfa) : t \in Tasks}}
    BY <2>2, <2>3
  <2> QED
    BY <2>4, <2>5 DEF Labels, AllLabels
<1>3. accepted \in [0 .. n - 1 -> SUBSET AllLabels]
  BY <1>1, <1>2
<1>4. Labelled(D) = [size |-> n, table |-> D.table, dead_state |-> D.dead_state, accepted |-> accepted]
  BY DEF Labelled
<1> HIDE DEF accepted
<1>5. Labelled(D) \in [size : {n}, table : [0 .. n - 1 -> [Symbols -> 0 .. n - 1]],
                       accepted : [0 .. n - 1 -> SUBSET AllLabels], dead_state : Int]
  BY <1>1, <1>3, <1>4
<1>6. StatesOf(Labelled(D)) = StatesOf(D)
  BY <1>4 DEF StatesOf
<1> QED
  BY <1>1, <1>5, <1>6 DEF LabelledDfas

(* The labels of a state with rules A and border B, and what is read back  *)
(* from them.                                                              *)
LabelsOf(A, B) == {RuleLabel(r) : r \in A} \cup {TailLabel(n) : n \in B}
RulesIn(labels) == {l[2] : l \in {x \in labels : x[1] = "rule"}}
TailsIn(labels) == {l[2] : l \in {x \in labels : x[1] = "tail"}}

(* The labels that stand for rules, and for tails, are the ones put there. *)
LEMMA LabelsAreRead ==
  ASSUME NEW A, NEW B
  PROVE  RulesIn(LabelsOf(A, B)) = A /\ TailsIn(LabelsOf(A, B)) = B
<1> DEFINE labels == LabelsOf(A, B)
<1>1. \A r : RuleLabel(r)[1] = "rule" /\ RuleLabel(r)[2] = r
  BY DEF RuleLabel
<1>2. \A n : TailLabel(n)[1] = "tail" /\ TailLabel(n)[2] = n
  BY DEF TailLabel
<1>3. "rule" # "tail"
  OBVIOUS
<1>4. {x \in labels : x[1] = "rule"} = {RuleLabel(r) : r \in A}
  BY <1>1, <1>2, <1>3 DEF LabelsOf
<1>5. {x \in labels : x[1] = "tail"} = {TailLabel(n) : n \in B}
  BY <1>1, <1>2, <1>3 DEF LabelsOf
<1>6. {l[2] : l \in {RuleLabel(r) : r \in A}} = A
  BY <1>1
<1>7. {l[2] : l \in {TailLabel(n) : n \in B}} = B
  BY <1>2
<1> HIDE DEF labels
<1> QED
  BY <1>4, <1>5, <1>6, <1>7 DEF RulesIn, TailsIn, labels

(* What stands for the subsets does so as long as these and the NFA stay.  *)
LEMMA NumberingFrame ==
  ASSUME NEW D, UNCHANGED <<task, depth, subsets>>
  PROVE  /\ \A h : Numbering(D, h) => Numbering(D, h)'
         /\ IsWholeHead(D) => IsWholeHead(D)'
         /\ SubsetsType => SubsetsType'
<1>1. Root' = Root /\ NfaStates' = NfaStates
  BY DEF Root, NfaStates, StatesIn
<1>2. \A n : NumTransitions(n)' = NumTransitions(n)
  BY DEF NumTransitions, StatesIn
<1>3. \A n : Special(n)' <=> Special(n)
  BY <1>2 DEF Special
<1>4. \A S : SpecialIn(S)' = SpecialIn(S)
  BY <1>3 DEF SpecialIn
<1>5. PICK V : V = subsets
  OBVIOUS
<1>6. ASSUME NEW h, Numbering(D, h) PROVE Numbering(D, h)'
  <2>1. ASSUME NEW i \in DOMAIN V, NEW c \in Symbols
        PROVE  \E k \in DOMAIN V :
                 /\ V[k] = Target(V[i] \ SpecialIn(V[i]), c)'
                 /\ D.table[h[i]][c] = h[k]
    <3>1. PICK k \in DOMAIN V :
            /\ V[k] = Target(V[i] \ SpecialIn(V[i]), c)
            /\ D.table[h[i]][c] = h[k]
      BY <1>5, <1>6 DEF Numbering
    <3>2. Target(V[i] \ SpecialIn(V[i]), c)' = Target(V[i] \ SpecialIn(V[i]), c)
      BY <1>4 DEF Target
    <3> QED
      BY <3>1, <3>2
  <2>2. \A i \in DOMAIN V : D.border[h[i]] = SpecialIn(V[i])'
    BY <1>4, <1>5, <1>6 DEF Numbering
  <2>3. \A i \in DOMAIN V : D.accepted[h[i]] = AcceptedBy(task.nfa, V[i])
    BY <1>5, <1>6 DEF Numbering
  <2>4. h \in [DOMAIN V -> StatesOf(D)] /\ h[1] = 0
    BY <1>5, <1>6 DEF Numbering
  <2>5. subsets' = V
    BY <1>5
  <2> QED
    BY <2>1, <2>2, <2>3, <2>4, <2>5 DEF Numbering, SpecialIn, Target
<1>7. IsWholeHead(D) => IsWholeHead(D)'
  BY <1>1 DEF IsWholeHead, IsHead
<1>8. SubsetsType => SubsetsType'
  BY <1>1 DEF SubsetsType
<1> QED
  BY <1>6, <1>7, <1>8

(* What minimize leaves of a head stands for the same subsets.             *)
LEMMA RefinedHeadIsBuilt ==
  ASSUME task \in Tasks, Built, given = Labelled(head), HP!MinimizeInv, EndMinimize
  PROVE  Built'
<1> DEFINE D == Labelled(head)
           E == HP!Quotient(D)
           new(s) == HP!NewName(D, s)
           G == Unlabelled(E)
<1>0. CSIZE \in Nat \ {0}
  BY AlphabetAssumption
<1>1. D \in LabelledDfas /\ StatesOf(D) = StatesOf(head)
  BY LabelledIsGiven DEF Built
<1>2. /\ D.size = head.size /\ D.table = head.table
      /\ \A s \in StatesOf(head) : D.accepted[s] = Labels(head, s)
  BY DEF Labelled
<1>3. HP!IsCompleteDfa(D)
  BY <1>0, <1>1, LabelledAreComplete, HP!GivenIsDfa
<1>4. \A A : HP!StatesOf(A) = StatesOf(A)
  BY DEF HP!StatesOf, StatesOf
<1>5. HP!Symbols = Symbols
  BY DEF HP!Symbols, Symbols
<1> HIDE DEF D, E
<1>6. /\ HP!IsCompleteDfa(E)
      /\ \A s \in StatesOf(D) :
           /\ new(s) \in StatesOf(E)
           /\ E.accepted[new(s)] = D.accepted[s]
           /\ \A c \in Symbols : E.table[new(s)][c] = new(D.table[s][c])
      /\ \A i \in StatesOf(E) : \E s \in StatesOf(D) : new(s) = i
      /\ new(0) = 0
  <2>1. HP!KeptStates(D) \subseteq StatesOf(D)
    BY DEF HP!KeptStates, HP!Firsts, StatesOf
  <2>2. /\ HP!IsCompleteDfa(E)
        /\ \A s \in HP!StatesOf(D) :
             /\ HP!NewName(D, s) \in HP!StatesOf(E)
             /\ E.accepted[HP!NewName(D, s)] = D.accepted[s]
             /\ \A c \in HP!Symbols : E.table[HP!NewName(D, s)][c] = HP!NewName(D, D.table[s][c])
        /\ \A i \in HP!StatesOf(E) : \E s \in HP!KeptStates(D) : HP!NewName(D, s) = i
        /\ HP!NewName(D, 0) = 0
    BY <1>0, <1>3, LabelledAreComplete, HP!QuotientRenames DEF E
  <2>3. HP!StatesOf(D) = StatesOf(D) /\ HP!StatesOf(E) = StatesOf(E)
    BY <1>4
  <2> QED
    BY <1>5, <2>1, <2>2, <2>3
<1> HIDE DEF new
<1>7. head' = G /\ UNCHANGED <<task, depth, subsets>>
  BY DEF EndMinimize, HP!MinimizeInv, D, E
<1>8. /\ G.size = E.size /\ G.table = E.table /\ G.dead_state = E.dead_state
      /\ G \in [size : {G.size}, table : {G.table}, accepted : {G.accepted}, border : {G.border},
                dead_state : {G.dead_state}]
      /\ DOMAIN G.accepted = StatesOf(E) /\ DOMAIN G.border = StatesOf(E)
      /\ G.accepted = [s \in StatesOf(E) |-> G.accepted[s]]
      /\ G.border = [s \in StatesOf(E) |-> G.border[s]]
      /\ \A s \in StatesOf(E) :
           G.accepted[s] = RulesIn(E.accepted[s]) /\ G.border[s] = TailsIn(E.accepted[s])
  BY DEF Unlabelled, RulesIn, TailsIn
<1>9. StatesOf(G) = StatesOf(E)
  BY <1>8 DEF StatesOf
<1> HIDE DEF G
<1>10. /\ head.accepted \in [StatesOf(head) -> SUBSET Rules]
       /\ head.border \in [StatesOf(head) -> SUBSET NfaStates]
       /\ head.table \in [StatesOf(head) -> [Symbols -> StatesOf(head)]]
  BY DEF Built, IsWholeHead, IsHead
<1>11. ASSUME NEW s \in StatesOf(head)
       PROVE  /\ new(s) \in StatesOf(G)
              /\ G.accepted[new(s)] = head.accepted[s]
              /\ G.border[new(s)] = head.border[s]
              /\ \A c \in Symbols : G.table[new(s)][c] = new(head.table[s][c])
  <2>1. /\ new(s) \in StatesOf(E) /\ E.accepted[new(s)] = Labels(head, s)
        /\ \A c \in Symbols : E.table[new(s)][c] = new(head.table[s][c])
    BY <1>1, <1>2, <1>6
  <2>2. BorderAt(head, s) = head.border[s]
    BY <1>10 DEF BorderAt
  <2>3. PICK A, B : A = head.accepted[s] /\ B = head.border[s]
    OBVIOUS
  <2>4. E.accepted[new(s)] = LabelsOf(A, B)
    BY <2>1, <2>2, <2>3 DEF Labels, LabelsOf
  <2>5. G.accepted[new(s)] = A /\ G.border[new(s)] = B
    BY <1>8, <2>1, <2>4, LabelsAreRead
  <2> QED
    BY <1>8, <1>9, <2>1, <2>3, <2>5
<1>12. IsWholeHead(G)
  <2>1. \A i \in StatesOf(G) : G.accepted[i] \in SUBSET Rules /\ G.border[i] \in SUBSET NfaStates
    BY <1>1, <1>6, <1>9, <1>10, <1>11
  <2>2. /\ G.accepted \in [StatesOf(G) -> SUBSET Rules]
        /\ G.border \in [StatesOf(G) -> SUBSET NfaStates]
    BY <1>8, <1>9, <2>1
  <2>3. /\ G.size \in Nat \ {0} /\ G.dead_state \in Int
        /\ G.table \in [StatesOf(G) -> [Symbols -> StatesOf(G)]]
    BY <1>4, <1>5, <1>6, <1>8, <1>9 DEF HP!IsCompleteDfa
  <2>4. G.table \in [StatesOf(G) -> [Symbols -> StatesOf(G) \cup {NO_STATE}]]
    BY <2>3
  <2> QED
    BY <1>8, <2>2, <2>3, <2>4 DEF IsWholeHead, IsHead
<1>13. PICK h : Numbering(head, h)
  BY DEF Built
<1>14. PICK g : g = [i \in DOMAIN subsets |-> new(h[i])]
  OBVIOUS
<1>15. /\ h \in [DOMAIN subsets -> StatesOf(head)] /\ h[1] = 0 /\ 1 \in DOMAIN subsets
       /\ \A i \in DOMAIN subsets : h[i] \in StatesOf(head) /\ g[i] = new(h[i])
  BY <1>13, <1>14 DEF Numbering, Built, SubsetsType
<1>16. g \in [DOMAIN subsets -> StatesOf(G)] /\ g[1] = 0
  BY <1>6, <1>11, <1>14, <1>15
<1>17. Numbering(G, g)
  <2>1. ASSUME NEW i \in DOMAIN subsets, NEW c \in Symbols
        PROVE  \E k \in DOMAIN subsets :
                 /\ subsets[k] = Target(subsets[i] \ SpecialIn(subsets[i]), c)
                 /\ G.table[g[i]][c] = g[k]
    <3>1. PICK k \in DOMAIN subsets :
            /\ subsets[k] = Target(subsets[i] \ SpecialIn(subsets[i]), c)
            /\ head.table[h[i]][c] = h[k]
      BY <1>13 DEF Numbering
    <3>2. G.table[g[i]][c] = new(head.table[h[i]][c])
      BY <1>11, <1>15
    <3> QED
      BY <1>15, <3>1, <3>2
  <2>2. ASSUME NEW i \in DOMAIN subsets
        PROVE  /\ G.accepted[g[i]] = AcceptedBy(task.nfa, subsets[i])
               /\ G.border[g[i]] = SpecialIn(subsets[i])
    <3>1. /\ head.accepted[h[i]] = AcceptedBy(task.nfa, subsets[i])
          /\ head.border[h[i]] = SpecialIn(subsets[i])
      BY <1>13 DEF Numbering
    <3>2. PICK s \in StatesOf(head) : s = h[i] /\ g[i] = new(s)
      BY <1>15
    <3> QED
      BY <1>11, <3>1, <3>2
  <2> QED
    BY <1>16, <2>1, <2>2 DEF Numbering
<1>18. PICK K : K = G
  OBVIOUS
<1>19. IsWholeHead(K)' /\ Numbering(K, g)' /\ SubsetsType'
  BY <1>7, <1>12, <1>17, <1>18, NumberingFrame DEF Built
<1>20. head' = K
  BY <1>7, <1>18
<1> QED
  BY <1>19, <1>20 DEF Built

-----------------------------------------------------------------------------
(***************************************************************************)
(* The traversal.                                                          *)
(***************************************************************************)
(* The head stands for the active states that are not special; the tails   *)
(* are the others, which its border has joined.                            *)
HeadAndTailsAreActive ==
  \E h : /\ Numbering(head, h)
         /\ \E i \in DOMAIN subsets :
              /\ dfa_state = h[i]
              /\ SpecialIn(subsets[i]) \subseteq nfa_state
              /\ active = nfa_state \cup (subsets[i] \ SpecialIn(subsets[i]))

(* Between two symbols of the traversal.                                   *)
Traversing == Built /\ HeadAndTailsAreActive /\ accepted_rules = expected

(* Targets and rules of a union. *)
LEMMA TargetsJoin ==
  ASSUME NEW S, NEW T
  PROVE  /\ \A c : Target(S \cup T, c) = Target(S, c) \cup Target(T, c)
         /\ AcceptedBy(task.nfa, S \cup T) = AcceptedBy(task.nfa, S) \cup AcceptedBy(task.nfa, T)
BY DEF Target, AcceptedBy

(* The whole head and the numbering stay while they are only read.         *)
LEMMA BuiltStays ==
  ASSUME Built, UNCHANGED <<task, depth, subsets, head>>
  PROVE  Built'
<1>1. PICK D, h : D = head /\ Numbering(D, h)
  BY DEF Built
<1>2. IsWholeHead(D)' /\ Numbering(D, h)' /\ SubsetsType'
  BY <1>1, NumberingFrame DEF Built
<1> QED
  BY <1>1, <1>2 DEF Built

(* At the start the entry state stands for the root. *)
LEMMA TraversalStarts ==
  ASSUME task \in Tasks, task.how = "one", depth = DepthsOf(task), Built, StartTraverse
  PROVE  Traversing'
<1>1. UNCHANGED <<task, depth, subsets, head>>
  BY DEF StartTraverse, buildVars
<1>2. PICK D, V, h : D = head /\ V = subsets /\ Numbering(D, h)
  BY DEF Built
<1>3. Numbering(D, h)' /\ Built'
  BY <1>1, <1>2, NumberingFrame, BuiltStays
<1>4. V[1] = {Root} /\ 1 \in DOMAIN V /\ h[1] = 0
  BY <1>2 DEF Built, SubsetsType, Numbering
<1>5. SpecialIn({Root}) = {}
  BY RootIsNotSpecial
<1>6. PICK r : r = Root
  OBVIOUS
<1>7. SpecialIn(V[1])' = {}
  <2>1. \A n : NumTransitions(n)' = NumTransitions(n)
    BY <1>1 DEF NumTransitions, StatesIn
  <2>2. \A n : Special(n)' <=> Special(n)
    BY <1>1, <2>1 DEF Special
  <2>3. ~ Special(r)
    BY <1>5, <1>6 DEF SpecialIn
  <2> QED
    BY <1>4, <1>6, <2>2, <2>3 DEF SpecialIn
<1>8. Roots = {Root}
  BY OneRoot
<1>9. /\ dfa_state' = 0 /\ nfa_state' = {} /\ accepted_rules' = {} /\ active' = {Root} /\ expected' = {}
  BY <1>8 DEF StartTraverse, StartRun
<1>10. HeadAndTailsAreActive'
  <2>1. dfa_state' = h[1] /\ SpecialIn(V[1])' \subseteq nfa_state'
        /\ active' = nfa_state' \cup (V[1] \ SpecialIn(V[1])')
    BY <1>4, <1>7, <1>9
  <2>2. head' = D /\ subsets' = V
    BY <1>1, <1>2
  <2> QED
    BY <1>3, <1>4, <2>1, <2>2 DEF HeadAndTailsAreActive, SpecialIn
<1> QED
  BY <1>3, <1>9, <1>10 DEF Traversing

(* A symbol moves head and tails as it moves the active states. *)
LEMMA TraversalAdvances ==
  ASSUME Traversing, NEW c \in Symbols, Advance(c), UNCHANGED <<task, depth, subsets, head>>
  PROVE  Traversing'
<1>1. PICK D, V, h : D = head /\ V = subsets /\ Numbering(D, h) /\
        \E i \in DOMAIN V :
          /\ dfa_state = h[i]
          /\ SpecialIn(V[i]) \subseteq nfa_state
          /\ active = nfa_state \cup (V[i] \ SpecialIn(V[i]))
  BY DEF Traversing, HeadAndTailsAreActive
<1>2. PICK i \in DOMAIN V :
        /\ dfa_state = h[i]
        /\ SpecialIn(V[i]) \subseteq nfa_state
        /\ active = nfa_state \cup (V[i] \ SpecialIn(V[i]))
  BY <1>1
<1>3. PICK k \in DOMAIN V :
        /\ V[k] = Target(V[i] \ SpecialIn(V[i]), c)
        /\ D.table[h[i]][c] = h[k]
  BY <1>1 DEF Numbering
<1>4. Built' /\ Numbering(D, h)'
  BY <1>1, BuiltStays, NumberingFrame DEF Traversing
<1>5. HeadMove(c) = h[k]
  BY <1>1, <1>2, <1>3 DEF HeadMove
<1>6. /\ D.accepted[h[k]] = AcceptedBy(task.nfa, V[k])
      /\ BorderAt(head, h[k]) = SpecialIn(V[k])
  <2>1. head.border[h[k]] = SpecialIn(V[k]) /\ D.accepted[h[k]] = AcceptedBy(task.nfa, V[k])
        /\ h[k] \in StatesOf(head)
    BY <1>1 DEF Numbering
  <2>2. DOMAIN head.border = StatesOf(head)
    BY DEF Traversing, Built, IsWholeHead, IsHead
  <2> QED
    BY <2>1, <2>2 DEF BorderAt
<1> DEFINE tails == Target(nfa_state, c) \cup SpecialIn(V[k])
<1>7. NextTails(nfa_state, HeadMove(c), c) = tails
  BY <1>5, <1>6 DEF NextTails, JoinBorder, Target
<1>8. dfa_state' = h[k] /\ nfa_state' = tails
  BY <1>5, <1>7 DEF Advance
<1>9. active' = Target(nfa_state, c) \cup V[k]
  BY <1>2, <1>3, TargetsJoin DEF Advance, Target
<1>10. SpecialIn(V[k]) \subseteq V[k]
  BY DEF SpecialIn
<1>11. active' = tails \cup V[k]
  BY <1>9, <1>10
<1>12. Recorded(c) = AcceptedBy(task.nfa, active')
  <2>1. Recorded(c) = AcceptedBy(task.nfa, V[k]) \cup AcceptedBy(task.nfa, tails)
    BY <1>1, <1>5, <1>6, <1>7 DEF Recorded
  <2> HIDE DEF tails
  <2>2. AcceptedBy(task.nfa, tails \cup V[k]) =
          AcceptedBy(task.nfa, tails) \cup AcceptedBy(task.nfa, V[k])
    BY TargetsJoin
  <2> QED
    BY <1>11, <2>1, <2>2
<1>13. accepted_rules' = expected'
  BY <1>12 DEF Traversing, Advance
<1>14. SpecialIn(V[k])' = SpecialIn(V[k])
  <2>1. \A n : NumTransitions(n)' = NumTransitions(n)
    BY DEF NumTransitions, StatesIn
  <2>2. \A n : Special(n)' <=> Special(n)
    BY <2>1 DEF Special
  <2> QED
    BY <2>2 DEF SpecialIn
<1>15. HeadAndTailsAreActive'
  <2>1. /\ dfa_state' = h[k] /\ SpecialIn(V[k])' \subseteq nfa_state'
        /\ active' = nfa_state' \cup (V[k] \ SpecialIn(V[k])')
    BY <1>8, <1>10, <1>11, <1>14
  <2>2. head' = D /\ subsets' = V
    BY <1>1
  <2> QED
    BY <1>4, <2>1, <2>2 DEF HeadAndTailsAreActive, SpecialIn
<1> QED
  BY <1>4, <1>13, <1>15 DEF Traversing

-----------------------------------------------------------------------------
(***************************************************************************)
(* The inductive invariant.                                                *)
(***************************************************************************)
(* While minimize runs it works on the labelled head.                      *)
Refining == Built /\ given = Labelled(head) /\ HP!MinimizeInv

(* The inductive invariant: what is built, refined or traversed is a head  *)
(* that stands for the subsets met so far.                                 *)
HybridInv ==
  /\ task \in Tasks
  /\ depth = DepthsOf(task)
  /\ task.how # "one" => pc # "traverse"
  /\ task.how = "one" =>
       /\ pc \in {"build", "built", "minimize", "minimized", "traverse"}
       /\ pc = "build" => Building
       /\ pc \in {"built", "minimized"} => Built
       /\ pc = "minimize" => Refining
       /\ pc = "traverse" => Traversing

(* The construction starts with the root alone.                            *)
LEMMA ConstructionStarts ==
  ASSUME Init, task.how = "one"
  PROVE  Building
<1>1. /\ Root \in NfaStates /\ task.nfa \in NfaOver(NfaStates)
      /\ head = StartHead(task, 1) /\ subsets = <<{Root}>> /\ queue = << 0 >>
  BY OneRoot DEF Init, Root
<1>2. /\ head.size = 1
      /\ head.table = [s \in {0} |-> NoRow] /\ head.border = [s \in {0} |-> {}]
      /\ head.accepted = [s \in {0} |-> task.nfa.accepting[Root]] /\ head.dead_state = NO_STATE
      /\ head \in [size : {head.size}, table : {head.table}, accepted : {head.accepted},
                   border : {head.border}, dead_state : {head.dead_state}]
  BY <1>1 DEF StartHead, Root
<1>3. StatesOf(head) = {0}
  <2>1. 0 .. 1 - 1 = {0}
    OBVIOUS
  <2> QED
    BY <1>2, <2>1 DEF StatesOf
<1>4. task.nfa.accepting[Root] \in SUBSET Rules
  BY <1>1 DEF NfaOver
<1>5. NoRow \in [Symbols -> StatesOf(head) \cup {NO_STATE}]
  BY DEF NoRow
<1>6. IsHead(head)
  <2>1. head.table \in [StatesOf(head) -> [Symbols -> StatesOf(head) \cup {NO_STATE}]]
    BY <1>2, <1>3, <1>5
  <2>2. head.accepted \in [StatesOf(head) -> SUBSET Rules]
    BY <1>2, <1>3, <1>4
  <2>3. head.border \in [StatesOf(head) -> SUBSET NfaStates]
    BY <1>2, <1>3
  <2>4. head.dead_state \in Int /\ head.size \in Nat \ {0}
    BY <1>2 DEF NO_STATE
  <2> QED
    BY <1>2, <2>1, <2>2, <2>3, <2>4 DEF IsHead
<1>7. /\ subsets \in Seq(SUBSET NfaStates) /\ Len(subsets) = 1 /\ subsets[1] = {Root}
      /\ queue \in Seq(StatesOf(head))
  BY <1>1, <1>3
<1>8. AcceptedBy(task.nfa, {Root}) = task.nfa.accepting[Root]
  BY DEF AcceptedBy
<1>9. head.accepted[0] = AcceptedBy(task.nfa, subsets[0 + 1])
  <2>1. 0 + 1 = 1
    OBVIOUS
  <2>2. head.accepted[0] = task.nfa.accepting[Root]
    BY <1>2
  <2> QED
    BY <1>7, <1>8, <2>1, <2>2
<1>10. IsBuild(Construction)
  BY <1>2, <1>3, <1>6, <1>7, <1>9 DEF IsBuild, Construction
<1>11. 0 \in ToSet(queue)
  BY <1>1 DEF ToSet
<1> QED
  BY <1>3, <1>10, <1>11 DEF Building

(* minimize begins with the head as it is. *)
LEMMA RefinementStarts ==
  ASSUME task \in Tasks, Built, StartMinimize
  PROVE  Refining'
<1>1. UNCHANGED <<task, depth, subsets, head>>
  BY DEF StartMinimize, buildVars
<1>2. Built'
  BY <1>1, BuiltStays
<1>3. Labelled(head) \in LabelledDfas
  BY LabelledIsGiven DEF Built
<1>4. /\ given' = Labelled(head) /\ dfa' = given' /\ mpc' = "group"
      /\ block' = [s \in StatesOf(head) \cup {NO_STATE} |-> Refine!ErrorBlock]
      /\ lastBlock' = Refine!ErrorBlock /\ L' = {}
  BY DEF StartMinimize
<1>5. given' \in LabelledDfas /\ StatesOf(given') = StatesOf(head)
  BY <1>3, <1>4, LabelledIsGiven DEF Built
<1>6. HP!AllStates' = StatesOf(head) \cup {NO_STATE}
  BY <1>5 DEF HP!AllStates, HP!States, HP!StatesOf, StatesOf, HP!NO_STATE, NO_STATE
<1>7. HP!TypeOK'
  BY <1>4, <1>6 DEF HP!TypeOK, Refine!ErrorBlock
<1>8. HP!IInv'
  BY <1>4, <1>5, <1>7 DEF HP!IInv, HP!NoEmptyBlocks, HP!BlocksAgreeOnRules,
     HP!DisagreementIsPending, HP!Refining
<1>9. HP!MinimizeInv'
  BY <1>4, <1>8 DEF HP!MinimizeInv, HP!EquivalentStayTogether, HP!Refining
<1> QED
  BY <1>1, <1>2, <1>4, <1>9 DEF Refining

(* A step of minimize is one of the minimizer. *)
LEMMA RefinementGoesOn ==
  ASSUME Refining, Minimizing, RefineStep
  PROVE  Refining'
<1>1. UNCHANGED <<task, depth, subsets, head>>
  BY DEF Minimizing, buildVars
<1>2. Built'
  BY <1>1, BuiltStays DEF Refining
<1>3. HP!Next
  BY RefinesAsMinimizer
<1>4. HP!MinimizeInv'
  BY <1>3, AlphabetAssumption, LabelledAreComplete, HP!MinimizeInvStep DEF Refining
<1>5. given' = given
  BY <1>3 DEF HP!Next, HP!Group, HP!Split, HP!EmptyWorkList, HP!Rebuild
<1>6. Labelled(head)' = Labelled(head)
  BY <1>1 DEF Labelled, Labels, BorderAt
<1> QED
  BY <1>2, <1>4, <1>5, <1>6 DEF Refining

(* The invariant holds when the construction begins.                       *)
LEMMA InitHybridInv == Init => HybridInv
<1> SUFFICES ASSUME Init PROVE HybridInv
  OBVIOUS
<1>1. task \in Tasks /\ depth = DepthsOf(task) /\ pc = "build"
  BY DEF Init
<1>2. task.how = "one" => Building
  BY ConstructionStarts
<1> QED
  BY <1>1, <1>2 DEF HybridInv

(* Every step of head, minimize and traversal keeps it. *)
LEMMA NextHybridInv == HybridInv /\ [Next]_vars => HybridInv'
<1> SUFFICES ASSUME HybridInv, [Next]_vars PROVE HybridInv'
  OBVIOUS
<1>1. UNCHANGED <<task, depth>>
  BY DEF Next, vars, ProcessState, HeadDone, NextNfa, MergeHeads, NothingToMerge, StartMinimize,
     GroupHeadStates, SplitHeadBlocks, NothingToSplit, RebuildHead, EndMinimize, Minimizing,
     StartTraverse, TraverseSymbol, Dump, SearchSymbol
<1>2. task' \in Tasks /\ depth' = DepthsOf(task')
  BY <1>1 DEF HybridInv
<1>3. CASE task.how # "one"
  <2>1. pc' # "traverse"
    BY <1>3 DEF HybridInv, Next, vars, ProcessState, HeadDone, NextNfa, MergeHeads, NothingToMerge,
       StartMinimize, GroupHeadStates, SplitHeadBlocks, NothingToSplit, RebuildHead, EndMinimize,
       Minimizing, StartTraverse, TraverseSymbol, Dump, SearchSymbol
  <2> QED
    BY <1>1, <1>2, <1>3, <2>1 DEF HybridInv
<1>4. CASE task.how = "one"
  <2> DEFINE Stays == /\ pc' \in {"build", "built", "minimize", "minimized", "traverse"}
                      /\ pc' = "build" => Building'
                      /\ pc' \in {"built", "minimized"} => Built'
                      /\ pc' = "minimize" => Refining'
                      /\ pc' = "traverse" => Traversing'
  <2>0. /\ task \in Tasks /\ depth = DepthsOf(task) /\ task.nfa \in NfaOver(NfaStates)
        /\ pc \in {"build", "built", "minimize", "minimized", "traverse"}
        /\ pc = "build" => Building
        /\ pc \in {"built", "minimized"} => Built
        /\ pc = "minimize" => Refining
        /\ pc = "traverse" => Traversing
    BY <1>4, OneRoot DEF HybridInv
  <2>1. CASE ProcessState
    <3>1. Building' /\ pc' = "build"
      BY <2>0, <2>1, ProcessStateBuilds DEF ProcessState
    <3> QED
      BY <1>1, <1>2, <1>4, <3>1 DEF HybridInv
  <2>2. CASE HeadDone
    <3>1. Built
      BY <2>0, <2>2, HeadIsBuilt DEF HeadDone
    <3>2. Built' /\ pc' = "built"
      BY <2>2, <3>1, BuiltStays DEF HeadDone, buildVars
    <3> QED
      BY <1>1, <1>2, <1>4, <3>2 DEF HybridInv
  <2>3. CASE NextNfa \/ MergeHeads \/ NothingToMerge \/ Dump \/ SearchSymbol
    BY <1>4, <2>0, <2>3 DEF NextNfa, MergeHeads, NothingToMerge, Dump, SearchSymbol
  <2>4. CASE StartMinimize
    <3>1. Refining' /\ pc' = "minimize"
      BY <2>0, <2>4, RefinementStarts DEF StartMinimize
    <3> QED
      BY <1>1, <1>2, <1>4, <3>1 DEF HybridInv
  <2>5. CASE GroupHeadStates \/ SplitHeadBlocks \/ NothingToSplit \/ RebuildHead
    <3>1. Minimizing /\ RefineStep
      BY <2>5 DEF GroupHeadStates, SplitHeadBlocks, NothingToSplit, RebuildHead, RefineStep
    <3>2. Refining' /\ pc' = "minimize"
      BY <2>0, <3>1, RefinementGoesOn DEF Minimizing
    <3> QED
      BY <1>1, <1>2, <1>4, <3>2 DEF HybridInv
  <2>6. CASE EndMinimize
    <3>1. Built' /\ pc' = "minimized"
      BY <2>0, <2>6, RefinedHeadIsBuilt DEF EndMinimize, Refining
    <3> QED
      BY <1>1, <1>2, <1>4, <3>1 DEF HybridInv
  <2>7. CASE StartTraverse
    <3>1. Traversing' /\ pc' = "traverse"
      BY <1>4, <2>0, <2>7, TraversalStarts DEF StartTraverse
    <3> QED
      BY <1>1, <1>2, <1>4, <3>1 DEF HybridInv
  <2>8. CASE TraverseSymbol
    <3>1. Traversing' /\ pc' = "traverse"
      BY <2>0, <2>8, TraversalAdvances DEF TraverseSymbol, buildVars
    <3> QED
      BY <1>1, <1>2, <1>4, <3>1 DEF HybridInv
  <2>9. CASE UNCHANGED vars
    <3>1. /\ UNCHANGED <<task, depth, pc, head, subsets, queue, given, dfa, mpc, block, lastBlock, L>>
          /\ UNCHANGED <<dfa_state, nfa_state, accepted_rules, active, expected>>
      BY <2>9 DEF vars, buildVars, minVars, runVars
    <3>2. Building => Building'
      <4>1. PICK x : x = Construction
        OBVIOUS
      <4>2. Construction' = x /\ head' = x.head /\ queue' = x.queue /\ head = x.head /\ queue = x.queue
        BY <3>1, <4>1 DEF Construction
      <4> HIDE DEF Construction
      <4>3. Building => /\ IsBuild(x)'
                        /\ \A s \in StatesOf(x.head) : s \in ToSet(x.queue) \/ RowDone(x, s)'
        BY <3>1, <4>1, <4>2, ConstructionFrame DEF Building
      <4> QED
        BY <4>2, <4>3 DEF Building
    <3>3. Built => Built'
      BY <3>1, BuiltStays
    <3>4. Refining => Refining'
      <4>1. Labelled(head)' = Labelled(head)
        BY <3>1 DEF Labelled, Labels, BorderAt
      <4>2. HP!MinimizeInv => HP!MinimizeInv'
        BY <3>1, AlphabetAssumption, LabelledAreComplete, HP!MinimizeInvStep DEF HP!vars
      <4> QED
        BY <3>1, <3>3, <4>1, <4>2 DEF Refining
    <3>5. Traversing => Traversing'
      <4> SUFFICES ASSUME Traversing PROVE Traversing'
        OBVIOUS
      <4>1. PICK D, V, h : D = head /\ V = subsets /\ Numbering(D, h) /\
              \E i \in DOMAIN V :
                /\ dfa_state = h[i]
                /\ SpecialIn(V[i]) \subseteq nfa_state
                /\ active = nfa_state \cup (V[i] \ SpecialIn(V[i]))
        BY DEF Traversing, HeadAndTailsAreActive
      <4>2. PICK i \in DOMAIN V :
              /\ dfa_state = h[i]
              /\ SpecialIn(V[i]) \subseteq nfa_state
              /\ active = nfa_state \cup (V[i] \ SpecialIn(V[i]))
        BY <4>1
      <4>3. Built' /\ Numbering(D, h)'
        BY <3>1, <4>1, BuiltStays, NumberingFrame DEF Traversing
      <4>4. SpecialIn(V[i])' = SpecialIn(V[i])
        <5>1. \A n : NumTransitions(n)' = NumTransitions(n)
          BY <3>1 DEF NumTransitions, StatesIn
        <5>2. \A n : Special(n)' <=> Special(n)
          BY <3>1, <5>1 DEF Special
        <5> QED
          BY <5>2 DEF SpecialIn
      <4>5. /\ dfa_state' = h[i] /\ SpecialIn(V[i])' \subseteq nfa_state'
            /\ active' = nfa_state' \cup (V[i] \ SpecialIn(V[i])')
        BY <3>1, <4>2, <4>4
      <4>6. head' = D /\ subsets' = V
        BY <3>1, <4>1
      <4>7. HeadAndTailsAreActive'
        BY <4>3, <4>5, <4>6 DEF HeadAndTailsAreActive, SpecialIn
      <4> QED
        BY <3>1, <4>3, <4>7 DEF Traversing
    <3> QED
      BY <1>1, <1>2, <1>4, <2>0, <3>1, <3>2, <3>3, <3>4, <3>5 DEF HybridInv
  <2> QED
    BY <2>1, <2>2, <2>3, <2>4, <2>5, <2>6, <2>7, <2>8, <2>9 DEF Next
<1> QED
  BY <1>3, <1>4

(* In every behaviour the head, while it is built and when it is refined,  *)
(* stands for the subsets of the NFA, and while head and tails are         *)
(* traversed they are the active states of the NFA.                        *)
THEOREM HybridInductive == Spec => []HybridInv
  BY InitHybridInv, NextHybridInv, PTL DEF Spec

(* Head and tails of a hybrid automaton report after every input the rules *)
(* that the NFA has met: for every NFA, every alphabet and every choice of *)
(* the depths and the number of transitions that make states special, and  *)
(* however often minimize has refined the head.                            *)
THEOREM HybridReportsTheRules == Spec => []ReportsTheRules
<1>1. HybridInv => ReportsTheRules
  BY DEF HybridInv, Traversing, ReportsTheRules
<1> QED
  BY HybridInductive, <1>1, PTL
=============================================================================
