---------------------------- MODULE D2fa_proofs ----------------------------
(***************************************************************************)
(* Proofs about D2fa, and so about the default transitions of both         *)
(* algorithms: for every alphabet, every automaton numbered in the order   *)
(* in which its states are found, and all parameters.                      *)
(***************************************************************************)
EXTENDS D2fa, Automata_proofs, FiniteSetTheorems

-----------------------------------------------------------------------------
(* The equations of IsDepth have one solution: no solution is greater than *)
(* another one anywhere.                                                   *)
LEMMA DepthIsLeast ==
  ASSUME NEW D, D.size \in Nat \ {0},
         D.table \in [StatesOf(D) -> [Symbols -> StatesOf(D)]],
         NEW d \in [StatesOf(D) -> Nat], IsDepth(D, d),
         NEW e \in [StatesOf(D) -> Nat], IsDepth(D, e)
  PROVE  \A t \in StatesOf(D) : d[t] <= e[t]
<1> DEFINE Off == {n \in Nat : \E t \in StatesOf(D) : e[t] = n /\ ~ (d[t] <= n)}
<1>1. SUFFICES ASSUME Off # {} PROVE FALSE
  OBVIOUS
<1>2. PICK n \in Off : \A l \in Off : n <= l
  <2>1. Off \in SUBSET Nat
    OBVIOUS
  <2> HIDE DEF Off
  <2> QED
    BY <1>1, <2>1, LeastNumber
<1>3. PICK t \in StatesOf(D) : e[t] = n /\ ~ (d[t] <= n)
  BY <1>2
<1>4. t # 0
  BY <1>3 DEF IsDepth
<1>5. PICK r \in StatesOf(D), a \in Symbols : D.table[r][a] = t /\ e[t] = e[r] + 1
  BY <1>4 DEF IsDepth
<1>6. d[t] <= d[r] + 1
  BY <1>5 DEF IsDepth
<1>7. d[t] \in Nat /\ d[r] \in Nat /\ e[r] \in Nat /\ n \in Nat
  BY <1>3
<1>8. ~ (d[r] <= e[r])
  BY <1>3, <1>5, <1>6, <1>7
<1>9. e[r] \in Off
  BY <1>7, <1>8
<1>10. n <= e[r]
  <2> HIDE DEF Off
  <2> QED
    BY <1>2, <1>9
<1> QED
  BY <1>3, <1>5, <1>7, <1>10

(* The depth of a state is a function of the automaton: set_depth has one result. *)
LEMMA DepthUnique ==
  ASSUME NEW D, D.size \in Nat \ {0},
         D.table \in [StatesOf(D) -> [Symbols -> StatesOf(D)]],
         NEW d \in [StatesOf(D) -> Nat], IsDepth(D, d),
         NEW e \in [StatesOf(D) -> Nat], IsDepth(D, e)
  PROVE  d = e
<1>1. \A t \in StatesOf(D) : d[t] <= e[t] /\ e[t] <= d[t]
  BY DepthIsLeast
<1>2. \A t \in StatesOf(D) : d[t] \in Nat /\ e[t] \in Nat
  OBVIOUS
<1>3. ASSUME NEW t \in StatesOf(D) PROVE d[t] = e[t]
  <2>1. /\ d[t] \in Nat /\ e[t] \in Nat
        /\ d[t] <= e[t] /\ e[t] <= d[t]
    BY <1>1, <1>2
  <2>2. \A x, y \in Nat : x <= y /\ y <= x => x = y
    OBVIOUS
  <2> QED
    BY <2>1, <2>2, Zenon
<1> QED
  BY <1>3

-----------------------------------------------------------------------------
(* DefaultPath is the run of the default transitions; behind its end it is *)
(* NO_STATE.                                                               *)
LEMMA DefaultPathUnfolds ==
  ASSUME NEW D, D.size \in Nat \ {0},
         NEW d \in [StatesOf(D) -> StatesOf(D) \cup {NO_STATE}],
         NEW t \in StatesOf(D)
  PROVE  LET path == DefaultPath(d, t)
         IN /\ DOMAIN path \in SUBSET Nat
            /\ path[0] = t
            /\ \A n \in DOMAIN path \ {0} :
                 /\ n - 1 \in DOMAIN path
                 /\ path[n - 1] # NO_STATE => path[n] = d[path[n - 1]]
<1> DEFINE m == Cardinality(DOMAIN d)
           Q == StatesOf(D) \cup {NO_STATE}
           step == [n \in 1 .. m |-> [q \in Q |-> IF q = NO_STATE THEN NO_STATE ELSE d[q]]]
           F(p) == [n \in 0 .. Cardinality(DOMAIN d) |->
                      IF n = 0 THEN t
                      ELSE IF p[n - 1] = NO_STATE THEN NO_STATE ELSE d[p[n - 1]]]
           chosen == CHOOSE p : p = F(p)
<1>0. DefaultPath(d, t) = chosen
  BY DEF DefaultPath
<1>1. m \in Nat
  <2>1. IsFiniteSet(0 .. D.size - 1)
    BY FS_Interval
  <2> QED
    BY <2>1, FS_CardinalityType DEF StatesOf
<1>2. \A n \in 1 .. m : n - 1 \in 0 .. m
  BY <1>1
<1>3. step \in [1 .. m -> [Q -> Q]] /\ t \in Q
  OBVIOUS
<1>4. PICK bt : Follows(bt, Q, step, t, m)
  <2> HIDE DEF Q, m, step
  <2> QED
    BY <1>1, <1>3, StepsLeadSomewhere
<1>5. ASSUME NEW n \in 1 .. m
      PROVE  bt[n] = IF bt[n - 1] = NO_STATE THEN NO_STATE ELSE d[bt[n - 1]]
  <2>1. bt[n] = step[n][bt[n - 1]] /\ bt \in [0 .. m -> Q]
    BY <1>4 DEF Follows
  <2>2. bt[n - 1] \in Q
    BY <1>2, <2>1
  <2> QED
    BY <2>1, <2>2
<1>6. bt = F(bt)
  <2>1. bt = [n \in 0 .. m |-> bt[n]] /\ bt[0] = t
    BY <1>4 DEF Follows
  <2>2. \A n \in 0 .. m : n # 0 => n \in 1 .. m
    BY <1>1
  <2>3. \A n \in 0 .. m : bt[n] = F(bt)[n]
    BY <1>5, <2>1, <2>2
  <2> HIDE DEF F
  <2> QED
    BY <2>1, <2>3 DEF F
<1>7. chosen = F(chosen)
  <2> HIDE DEF F
  <2> QED
    BY <1>6 DEF chosen
<1>8. DOMAIN chosen = 0 .. m
  BY <1>7
<1>9. \A n \in 0 .. m :
        chosen[n] = IF n = 0 THEN t
                    ELSE IF chosen[n - 1] = NO_STATE THEN NO_STATE ELSE d[chosen[n - 1]]
  BY <1>7
<1> HIDE DEF chosen, F, m
<1>10. \A n \in (0 .. m) \ {0} : n - 1 \in 0 .. m
  BY <1>1
<1>11. 0 .. m \in SUBSET Nat /\ 0 \in 0 .. m
  BY <1>1
<1> QED
  BY <1>0, <1>8, <1>9, <1>10, <1>11

(* What a state of an automaton does on a symbol is written on the state,  *)
(* or its default state does it.                                           *)
StateAgrees(D, t, labels, default) ==
  \A a \in Symbols :
    IF a \in DOMAIN labels
      THEN labels[a] = D.table[t][a]
      ELSE default \in StatesOf(D) /\ D.table[default][a] = D.table[t][a]

(* Then a lookup that finds a label finds the transition of the automaton. *)
LEMMA LookupIsTransition ==
  ASSUME NEW D, D.size \in Nat \ {0}, NEW f,
         f.default_tx \in [StatesOf(D) -> StatesOf(D) \cup {NO_STATE}],
         \A q \in StatesOf(D) : StateAgrees(D, q, f.labeled_tx[q], f.default_tx[q]),
         NEW t \in StatesOf(D), NEW a \in Symbols,
         LabelsOnPath(f, t, a) # {}
  PROVE  Lookup(f, t, a) = D.table[t][a]
<1> DEFINE path == DefaultPath(f.default_tx, t)
           found == LabelsOnPath(f, t, a)
           first == CHOOSE n \in found : \A m \in found : n <= m
           Off == {n \in DOMAIN path :
                     n <= first /\ ~ (/\ path[n] \in StatesOf(D)
                                      /\ D.table[path[n]][a] = D.table[t][a])}
<1>1. /\ DOMAIN path \in SUBSET Nat
      /\ path[0] = t
      /\ \A n \in DOMAIN path \ {0} :
           /\ n - 1 \in DOMAIN path
           /\ path[n - 1] # NO_STATE => path[n] = f.default_tx[path[n - 1]]
  BY DefaultPathUnfolds
<1>2. found = {n \in DOMAIN path : path[n] # NO_STATE /\ a \in DOMAIN f.labeled_tx[path[n]]}
  BY DEF LabelsOnPath
<1>3. Lookup(f, t, a) = f.labeled_tx[path[first]][a]
  BY DEF Lookup
<1>4. first \in found /\ \A m \in found : first <= m
  <2> HIDE DEF path
  <2>1. found \in SUBSET Nat
    BY <1>1, <1>2
  <2> HIDE DEF found
  <2>2. \E n \in found : \A m \in found : n <= m
    BY <2>1, LeastNumber DEF found
  <2> QED
    BY <2>2
<1> HIDE DEF path, found, first
<1>5. Off = {}
  <2>1. SUFFICES ASSUME Off # {} PROVE FALSE
    OBVIOUS
  <2>2. PICK n \in Off : \A l \in Off : n <= l
    <3>1. Off \in SUBSET Nat
      BY <1>1
    <3> HIDE DEF Off
    <3> QED
      BY <2>1, <3>1, LeastNumber
  <2>3. n # 0
    BY <1>1, <2>2
  <2>4. n - 1 \in DOMAIN path /\ n \in Nat /\ first \in Nat /\ n <= first
    BY <1>1, <1>2, <1>4, <2>2, <2>3
  <2>5. n - 1 \notin Off /\ n - 1 \notin found /\ n - 1 <= first
    BY <1>1, <1>4, <2>2, <2>4
  <2>6. path[n - 1] \in StatesOf(D) /\ D.table[path[n - 1]][a] = D.table[t][a]
    BY <2>4, <2>5
  <2>7. path[n - 1] # NO_STATE
    BY <2>6 DEF StatesOf, NO_STATE
  <2>8. a \notin DOMAIN f.labeled_tx[path[n - 1]]
    BY <1>2, <2>4, <2>5, <2>7
  <2>9. /\ path[n] = f.default_tx[path[n - 1]]
        /\ path[n] \in StatesOf(D)
        /\ D.table[path[n]][a] = D.table[path[n - 1]][a]
    BY <1>1, <2>2, <2>3, <2>6, <2>7, <2>8 DEF StateAgrees
  <2> QED
    BY <2>2, <2>6, <2>9
<1>6. first \in DOMAIN path /\ first <= first /\ a \in DOMAIN f.labeled_tx[path[first]]
  BY <1>1, <1>2, <1>4
<1>7. path[first] \in StatesOf(D) /\ D.table[path[first]][a] = D.table[t][a]
  BY <1>5, <1>6
<1> QED
  BY <1>3, <1>6, <1>7 DEF StateAgrees

-----------------------------------------------------------------------------
(* Some state of S is one edge away.                                       *)
Adjoins(edges, S) == {v \in States : \E w \in S : <<v, w>> \in edges \/ <<w, v>> \in edges}

(* ball[n] holds the states at most n edges away from u.                   *)
IsBall(edges, u, ball) ==
  /\ ball \in [0 .. dfa.size -> SUBSET States]
  /\ ball[0] = {u}
  /\ \A n \in 1 .. dfa.size : ball[n] = ball[n - 1] \cup Adjoins(edges, ball[n - 1])

(* DistancesFrom reads the distances off balls around u that grow edge by edge. *)
LEMMA BallUnfolds ==
  ASSUME dfa.size \in Nat, NEW edges, NEW u \in States
  PROVE  \E ball :
           /\ IsBall(edges, u, ball)
           /\ DistancesFrom(edges, u) =
                [v \in ball[dfa.size] |->
                   CHOOSE n \in 0 .. dfa.size : v \in ball[n] /\ (n = 0 \/ v \notin ball[n - 1])]
<1> DEFINE Q == SUBSET States
           m == dfa.size
           start == {u}
           step == [n \in 1 .. m |-> [S \in Q |-> S \cup Adjoins(edges, S)]]
           F(b) == [n \in 0 .. dfa.size |->
                      IF n = 0 THEN {u}
                      ELSE b[n - 1] \cup {v \in States : \E w \in b[n - 1] :
                                           <<v, w>> \in edges \/ <<w, v>> \in edges}]
           chosen == CHOOSE b : b = F(b)
<1>1. m \in Nat /\ \A n \in 1 .. m : n - 1 \in 0 .. m
  OBVIOUS
<1>2. step \in [1 .. m -> [Q -> Q]] /\ start \in Q
  BY DEF Adjoins
<1>3. PICK bt : Follows(bt, Q, step, start, m)
  <2> HIDE DEF Q, m, start, step
  <2> QED
    BY <1>1, <1>2, StepsLeadSomewhere
<1>4. ASSUME NEW n \in 1 .. m
      PROVE  bt[n] = bt[n - 1] \cup Adjoins(edges, bt[n - 1])
  <2>1. bt[n] = step[n][bt[n - 1]] /\ bt \in [0 .. m -> Q]
    BY <1>3 DEF Follows
  <2>2. bt[n - 1] \in Q
    BY <1>1, <2>1
  <2> QED
    BY <2>1, <2>2
<1>5. IsBall(edges, u, bt)
  BY <1>3, <1>4 DEF IsBall, Follows
<1>6. bt = F(bt)
  <2>1. bt = [n \in 0 .. m |-> bt[n]] /\ bt[0] = {u}
    BY <1>3 DEF Follows
  <2>2. \A n \in 0 .. m : n # 0 => n \in 1 .. m
    BY <1>1
  <2>3. \A n \in 0 .. m : bt[n] = F(bt)[n]
    BY <1>4, <2>1, <2>2 DEF Adjoins
  <2> HIDE DEF F
  <2> QED
    BY <2>1, <2>3 DEF F
<1>7. chosen = F(chosen)
  <2> HIDE DEF F
  <2> QED
    BY <1>6 DEF chosen
<1>8. DistancesFrom(edges, u) =
        [v \in chosen[dfa.size] |->
           CHOOSE n \in 0 .. dfa.size : v \in chosen[n] /\ (n = 0 \/ v \notin chosen[n - 1])]
  BY DEF DistancesFrom
<1> HIDE DEF chosen
<1>9. chosen = [n \in 0 .. m |-> chosen[n]]
  BY <1>7
<1>10. \A n \in 0 .. m : chosen[n] = IF n = 0 THEN {u}
                                     ELSE chosen[n - 1] \cup Adjoins(edges, chosen[n - 1])
  BY <1>7 DEF Adjoins
<1>11. FollowsWhereDefined(chosen, Q, step, start, m)
  <2> HIDE DEF F
  <2>0. 0 \in 0 .. m /\ \A n \in 1 .. m : n \in 0 .. m /\ n # 0
    BY <1>1
  <2>1. chosen[0] = start
    BY <1>10, <2>0, Zenon
  <2>2. ASSUME NEW n \in 1 .. m, chosen[n - 1] \in Q
        PROVE  chosen[n] = step[n][chosen[n - 1]]
    <3>1. chosen[n] = chosen[n - 1] \cup Adjoins(edges, chosen[n - 1])
      BY <1>10, <2>0, Zenon
    <3>2. step[n] = [S \in Q |-> S \cup Adjoins(edges, S)]
      OBVIOUS
    <3> HIDE DEF step, Q
    <3> QED
      BY <2>2, <3>1, <3>2
  <2> QED
    BY <2>1, <2>2 DEF FollowsWhereDefined
<1>12. \A n \in 0 .. m : chosen[n] = bt[n]
  <2> HIDE DEF Q, m, start, step, F
  <2> QED
    BY <1>1, <1>2, <1>3, <1>11, StepsLeadToOnePlace
<1>13. chosen = bt
  <2>1. bt = [n \in 0 .. m |-> bt[n]]
    BY <1>3 DEF Follows
  <2> QED
    BY <1>9, <1>12, <2>1
<1> QED
  BY <1>5, <1>8, <1>13

(* A state near u is still near within more edges.                         *)
LEMMA BallGrows ==
  ASSUME dfa.size \in Nat, NEW edges, NEW u, NEW ball, IsBall(edges, u, ball),
         NEW m \in 0 .. dfa.size, NEW n \in m .. dfa.size
  PROVE  ball[m] \subseteq ball[n]
<1> DEFINE Off == {l \in m .. dfa.size : ~ (ball[m] \subseteq ball[l])}
<1>1. SUFFICES ASSUME Off # {} PROVE FALSE
  OBVIOUS
<1>2. PICK l \in Off : \A i \in Off : l <= i
  <2>1. Off \in SUBSET Nat
    OBVIOUS
  <2> HIDE DEF Off
  <2> QED
    BY <1>1, <2>1, LeastNumber
<1>3. l \in m .. dfa.size /\ ~ (ball[m] \subseteq ball[l])
  BY <1>2
<1>4. l # m
  BY <1>3
<1>5. l \in 1 .. dfa.size /\ l - 1 \in m .. dfa.size /\ ~ (l <= l - 1)
  BY <1>3, <1>4
<1>6. l - 1 \notin Off
  <2> HIDE DEF Off
  <2> QED
    BY <1>2, <1>5
<1>7. ball[m] \subseteq ball[l - 1] /\ ball[l - 1] \subseteq ball[l]
  BY <1>5, <1>6 DEF IsBall
<1> QED
  BY <1>3, <1>7

(* The tree of the root holds only states, and every state of it but the   *)
(* root has a neighbour nearer to the root.                                *)
LEMMA TreeLeadsToRoot ==
  ASSUME dfa.size \in Nat, NEW root \in States
  PROVE  LET from == DistancesFrom(EdgesOf(T), root)
         IN /\ DOMAIN from \subseteq States
            /\ \A t \in DOMAIN from \ {root} : TowardsRoot(t, from) \in States
<1> DEFINE edges == EdgesOf(T)
           from == DistancesFrom(edges, root)
           m == dfa.size
<1>1. PICK ball : /\ IsBall(edges, root, ball)
                  /\ from = [v \in ball[m] |->
                               CHOOSE n \in 0 .. m : v \in ball[n] /\ (n = 0 \/ v \notin ball[n - 1])]
  BY BallUnfolds
<1> HIDE DEF from, edges
<1>2. DOMAIN from = ball[m] /\ ball[m] \subseteq States
  BY <1>1 DEF IsBall
<1>3. ASSUME NEW v \in ball[m]
      PROVE  from[v] \in 0 .. m /\ v \in ball[from[v]] /\ (from[v] = 0 \/ v \notin ball[from[v] - 1])
  <2> DEFINE In == {n \in 0 .. m : v \in ball[n]}
  <2>1. PICK n \in In : \A i \in In : n <= i
    <3>1. In \in SUBSET Nat /\ m \in In
      OBVIOUS
    <3> HIDE DEF In
    <3> QED
      BY <3>1, LeastNumber
  <2>2. n = 0 \/ v \notin ball[n - 1]
    <3>1. CASE n # 0
      <4>1. n - 1 \in 0 .. m /\ ~ (n <= n - 1)
        BY <2>1, <3>1
      <4>2. n - 1 \notin In
        <5> HIDE DEF In
        <5> QED
          BY <2>1, <4>1
      <4> QED
        BY <4>1, <4>2
    <3> QED
      BY <3>1
  <2>3. from[v] = CHOOSE i \in 0 .. m : v \in ball[i] /\ (i = 0 \/ v \notin ball[i - 1])
    BY <1>1
  <2> QED
    BY <2>1, <2>2, <2>3
<1>4. ASSUME NEW t \in ball[m], t # root
      PROVE  TowardsRoot(t, from) \in States
  <2>1. from[t] \in 1 .. m /\ t \in ball[from[t]] /\ t \notin ball[from[t] - 1]
    BY <1>1, <1>3, <1>4 DEF IsBall
  <2>2. t \in Adjoins(edges, ball[from[t] - 1])
    BY <1>1, <2>1 DEF IsBall
  <2>3. PICK w \in ball[from[t] - 1] : <<t, w>> \in edges \/ <<w, t>> \in edges
    BY <2>2 DEF Adjoins
  <2>4. from[t] - 1 \in 0 .. m /\ m \in from[t] - 1 .. m
    BY <2>1
  <2>5. w \in ball[m]
    BY <1>1, <2>3, <2>4, BallGrows
  <2>6. from[w] \in 0 .. m /\ (from[w] = 0 \/ w \notin ball[from[w] - 1])
    BY <1>3, <2>5
  <2>7. from[w] < from[t]
    <3>1. SUFFICES ASSUME ~ (from[w] < from[t]) PROVE FALSE
      OBVIOUS
    <3>2. from[w] - 1 \in 0 .. m /\ from[w] - 1 \in from[t] - 1 .. m /\ from[w] # 0
      BY <2>1, <2>6, <3>1
    <3>3. ball[from[t] - 1] \subseteq ball[from[w] - 1]
      BY <1>1, <2>4, <3>2, BallGrows
    <3> QED
      BY <2>3, <2>6, <3>2, <3>3
  <2>8. w \in DOMAIN from
    BY <1>2, <2>5
  <2>9. TowardsRoot(t, from) \in DOMAIN from
    BY <2>3, <2>7, <2>8 DEF TowardsRoot, edges
  <2> QED
    BY <1>2, <2>9
<1> QED
  BY <1>2, <1>4 DEF from, edges

-----------------------------------------------------------------------------
(***************************************************************************)
(* The inductive invariant.                                                *)
(***************************************************************************)
(* The states whose default transition is the one the call leaves.         *)
Settled ==
  IF pc \in {"compress", "crashed"} THEN 0 .. s - 1
  ELSE IF pc \in {"ready", "dumped"} THEN States
  ELSE IF pc = "trees" THEN {t \in States : default_tx[t] # NO_STATE}
  ELSE {}

LabelsFit(D, t, labels) ==
  /\ DOMAIN labels \subseteq Symbols
  /\ \A a \in DOMAIN labels : labels[a] = D.table[t][a]

(* A label is a transition of the automaton, also of a state that keeps    *)
(* labels of an earlier compression; a settled state makes every other     *)
(* transition through its default state.                                   *)
LabelsAgree ==
  /\ labeled_tx = [t \in States |-> labeled_tx[t]]
  /\ \A t \in States : LabelsFit(given, t, labeled_tx[t])
  /\ \A t \in Settled : StateAgrees(given, t, labeled_tx[t], default_tx[t])

(* A lookup is on a state that makes the same transition; none runs while  *)
(* the automaton is changed or written.                                    *)
LookupOnTheWay ==
  /\ c # NoSymbol => given.table[state][c] = given.table[ref][c]
  /\ c = NoSymbol => state = ref
  /\ c # NoSymbol => inputs < MAX_INPUTS
  /\ c # NoSymbol \/ inputs # 0 => pc = "ready"
  /\ inputs = 0 /\ c = NoSymbol => state = 0 /\ accesses = 0

(* A file holds the automaton that was written.                            *)
FileHolds ==
  pc = "dumped" =>
    file = [size |-> dfa.size, default_tx |-> default_tx, labeled_tx |-> labeled_tx,
            accepted |-> dfa.accepted, dead_state |-> dfa.dead_state]

(* A default transition that may be taken gives up n levels of depth.      *)
GivesUp(d, t, labels, default, n) ==
  Symbols \subseteq DOMAIN labels \/ d[default] + n <= d[t]

(* A default transition gives up k levels of depth, a symbol gains one:    *)
(* symbols have paid for the traversals and for the depth reached.         *)
DepthPays ==
  algorithm = "fast_compression" =>
    /\ IsDepth(given, depth)
    /\ \A t \in Settled : GivesUp(depth, t, labeled_tx[t], default_tx[t], k)
    /\ k * accesses + depth[state]
         <= (k + 1) * inputs + (IF c = NoSymbol THEN 0 ELSE k)

(* A path of default transitions to one that ends it.                      *)
IsPath(defaults, t, m, path) ==
  /\ path[0] = t
  /\ \A j \in 1 .. m : path[j] = defaults[path[j - 1]] /\ path[j] # path[j - 1]
  /\ defaults[path[m]] \in {NO_STATE, path[m]}

(* A path of length m through states below n.                              *)
PathBelow(defaults, t, m, n) ==
  m \in Nat /\ \E path \in [0 .. m -> 0 .. n - 1] : IsPath(defaults, t, m, path)

(* dt_length is the length of the default path of each compressed state.   *)
PathsMeasured ==
  algorithm = "fast_compression" /\ k = 1 /\ bound # 0 =>
    /\ pc # "crashed"
    /\ pc = "compress" =>
         /\ dt_length[0] = 0
         /\ \A t \in 0 .. s - 1 :
              /\ PathBelow(default_tx, t, dt_length[t], s)
              /\ bound > -1 => dt_length[t] <= bound
    /\ pc \in {"ready", "dumped"} /\ bound > -1 =>
         \A t \in States : \E m \in 0 .. bound : PathBelow(default_tx, t, m, dfa.size)

(* What each step of the calls presupposes.                                *)
Phases ==
  /\ pc \in {"fresh", "compress", "ready", "dumped", "crashed", "graph", "kruskal", "trees"}
  /\ pc = "fresh" => algorithm = "none"
  /\ pc \in {"graph", "kruskal", "trees"} => algorithm = "D2FA"
  /\ pc \in {"compress", "crashed"} => algorithm = "fast_compression"
  /\ k \in Nat \ {0}
  /\ bound \in Nat \cup {-1}
  /\ depth \in [States -> 0 .. dfa.size]

IInv ==
  /\ given \in Dfas
  /\ dfa = given
  /\ TypeOK
  /\ Phases
  /\ LabelsAgree
  /\ LookupOnTheWay
  /\ FileHolds
  /\ DepthPays
  /\ PathsMeasured

-----------------------------------------------------------------------------
(* An empty list of labels labels no symbol. *)
LEMMA NoLabels == DOMAIN << >> = {}
  OBVIOUS

(* The automaton is one nfa2dfa, the merge or minimize has left.           *)
LEMMA GivenIsDfa ==
  ASSUME IInv
  PROVE  /\ dfa = given /\ given \in Dfas
         /\ given.size \in Nat \ {0}
         /\ States = StatesOf(given) /\ States = 0 .. given.size - 1 /\ 0 \in States
         /\ NO_STATE \notin States /\ NoSymbol \notin Symbols
         /\ given.table \in [States -> [Symbols -> States]]
  BY DfasAssumption DEF IInv, States, StatesOf, NO_STATE, NoSymbol, Symbols

(* The invariant holds before anything is compressed. *)
LEMMA InitIInv == InitD2fa => IInv
<1> SUFFICES ASSUME InitD2fa PROVE IInv
  OBVIOUS
<1>1. /\ dfa = given /\ given \in Dfas /\ given.size \in Nat \ {0}
      /\ States = 0 .. given.size - 1 /\ 0 \in States
      /\ dfa.size \in Nat \ {0}
  BY DfasAssumption DEF InitD2fa, Init, States, StatesOf
<1>2. pc = "fresh" /\ algorithm = "none" /\ s = 1
  BY DEF InitD2fa, Init
<1>3. TypeOK
  BY <1>1, NoLabels, ParametersAssumption DEF InitD2fa, Init, TypeOK
<1>4. Phases
  BY <1>1, <1>2, ParametersAssumption DEF InitD2fa, Init, Phases
<1>5. LabelsAgree
  BY <1>1, <1>2, NoLabels DEF InitD2fa, Init, LabelsAgree, LabelsFit, Settled
<1>6. LookupOnTheWay
  BY <1>2 DEF InitD2fa, Init, LookupOnTheWay
<1>7. FileHolds /\ DepthPays /\ PathsMeasured
  BY <1>2 DEF FileHolds, DepthPays, PathsMeasured
<1> QED
  BY <1>1, <1>3, <1>4, <1>5, <1>6, <1>7 DEF IInv

(* The automaton and what is known of the compression are left alone.      *)
SameCompression ==
  UNCHANGED <<given, dfa, k, bound, pc, algorithm, depth, s, dt_length, default_tx,
              labeled_tx, file>>

(* A step of lookup keeps all that is not about lookups.                   *)
LEMMA LookupsKeepRest ==
  ASSUME IInv, SameCompression
  PROVE  /\ given' \in Dfas /\ dfa' = given'
         /\ Phases' /\ LabelsAgree' /\ FileHolds' /\ PathsMeasured'
         /\ States' = States /\ Settled' = Settled
<1>1. States' = States /\ Settled' = Settled
  BY DEF SameCompression, States, Settled
<1>2. given' \in Dfas /\ dfa' = given'
  BY DEF IInv, SameCompression
<1>3. Phases'
  BY <1>1 DEF IInv, SameCompression, Phases
<1>4. LabelsAgree'
  BY <1>1 DEF IInv, SameCompression, LabelsAgree
<1>5. FileHolds'
  BY <1>1 DEF IInv, SameCompression, FileHolds
<1>6. PathsMeasured'
  BY <1>1 DEF IInv, SameCompression, PathsMeasured
<1> QED
  BY <1>1, <1>2, <1>3, <1>4, <1>5, <1>6

(* A step that changes none of the variables of the model.                 *)
LEMMA StutterKeepsIInv ==
  ASSUME IInv, UNCHANGED vars
  PROVE  IInv'
<1> USE DEF vars, compressionVars, traversalVars
<1>1. SameCompression /\ UNCHANGED <<ref, state, c, inputs, accesses>>
  BY DEF SameCompression
<1>2. /\ given' \in Dfas /\ dfa' = given'
      /\ Phases' /\ LabelsAgree' /\ FileHolds' /\ PathsMeasured'
      /\ States' = States /\ Settled' = Settled
  BY <1>1, LookupsKeepRest
<1>3. TypeOK'
  BY <1>1, <1>2 DEF IInv, TypeOK, SameCompression
<1>4. LookupOnTheWay'
  BY <1>1 DEF IInv, LookupOnTheWay, SameCompression
<1>5. DepthPays'
  BY <1>1, <1>2 DEF IInv, DepthPays, SameCompression
<1> QED
  BY <1>2, <1>3, <1>4, <1>5 DEF IInv

(* The counter of traversals is a number and grows by one, or stays at its bound. *)
LEMMA CountedIsOneMore ==
  ASSUME NEW n \in Nat, MAX_INPUTS \in Nat
  PROVE  Counted(n) \in Nat /\ (Counted(n) = n \/ Counted(n) = n + 1)
  BY DEF Counted

(* One more traversal costs x.                                             *)
LEMMA OneMoreCosts ==
  ASSUME NEW x \in Nat, NEW n \in Nat, NEW m \in Nat, m = n \/ m = n + 1
  PROVE  x * n \in Nat /\ x * m \in Nat /\ x * m <= x * n + x
  OBVIOUS

(* Beginning a lookup keeps the invariant. *)
LEMMA ReadSymbolKeepsIInv ==
  ASSUME IInv, NEW a \in Symbols, ReadSymbol(a)
  PROVE  IInv'
<1>1. SameCompression /\ UNCHANGED <<ref, state, inputs>> /\ c = NoSymbol /\ c' = a
      /\ accesses' = Counted(accesses) /\ pc = "ready" /\ inputs < MAX_INPUTS
  BY DEF ReadSymbol, SameCompression, compressionVars
<1>2. /\ given' \in Dfas /\ dfa' = given'
      /\ Phases' /\ LabelsAgree' /\ FileHolds' /\ PathsMeasured'
      /\ States' = States /\ Settled' = Settled
  BY <1>1, LookupsKeepRest
<1>3. accesses \in Nat /\ accesses' \in Nat /\ (accesses' = accesses \/ accesses' = accesses + 1)
  BY <1>1, CountedIsOneMore, ParametersAssumption DEF IInv, TypeOK
<1>4. TypeOK'
  BY <1>1, <1>2, <1>3 DEF IInv, TypeOK, SameCompression
<1>5. LookupOnTheWay'
  BY <1>1, GivenIsDfa DEF IInv, LookupOnTheWay, SameCompression
<1>6. DepthPays'
  <2>1. SUFFICES ASSUME algorithm = "fast_compression"
                 PROVE  /\ IsDepth(given, depth)
                        /\ \A t \in Settled : GivesUp(depth, t, labeled_tx[t], default_tx[t], k)
                        /\ k * accesses' + depth[state] <= (k + 1) * inputs + k
    BY <1>1, <1>2, GivenIsDfa DEF DepthPays, SameCompression
  <2>2. /\ IsDepth(given, depth)
        /\ \A t \in Settled : GivesUp(depth, t, labeled_tx[t], default_tx[t], k)
        /\ k * accesses + depth[state] <= (k + 1) * inputs + 0
    BY <1>1, <2>1 DEF IInv, DepthPays
  <2>3. k \in Nat /\ depth[state] \in Nat /\ inputs \in Nat
    BY ParametersAssumption DEF IInv, TypeOK, Phases
  <2>4. (k + 1) * inputs \in Nat
    BY <2>3
  <2>5. k * accesses \in Nat /\ k * accesses' \in Nat /\ k * accesses' <= k * accesses + k
    BY <1>3, <2>3, OneMoreCosts
  <2> QED
    BY <2>2, <2>3, <2>4, <2>5
<1> QED
  BY <1>2, <1>4, <1>5, <1>6 DEF IInv

(* What the label or the default state of the state of a lookup is.        *)
LEMMA LookupsAgree ==
  ASSUME IInv, c # NoSymbol
  PROVE  /\ pc = "ready" /\ c \in Symbols /\ state \in States /\ ref \in States
         /\ given.table[state][c] = given.table[ref][c]
         /\ IF c \in DOMAIN labeled_tx[state]
              THEN labeled_tx[state][c] = given.table[state][c]
              ELSE /\ default_tx[state] \in States
                   /\ given.table[default_tx[state]][c] = given.table[state][c]
         /\ algorithm = "fast_compression" =>
              GivesUp(depth, state, labeled_tx[state], default_tx[state], k)
<1>1. pc = "ready" /\ c \in Symbols /\ state \in States /\ ref \in States
      /\ given.table[state][c] = given.table[ref][c]
  BY DEF IInv, TypeOK, LookupOnTheWay
<1>2. Settled = States
  BY <1>1 DEF Settled
<1>3. StateAgrees(given, state, labeled_tx[state], default_tx[state])
  BY <1>1, <1>2 DEF IInv, LabelsAgree
<1>4. algorithm = "fast_compression" =>
        GivesUp(depth, state, labeled_tx[state], default_tx[state], k)
  BY <1>1, <1>2 DEF IInv, DepthPays
<1> QED
  BY <1>1, <1>3, <1>4, GivenIsDfa DEF StateAgrees

(* A lookup that finds its label keeps the invariant. *)
LEMMA FollowLabelKeepsIInv ==
  ASSUME IInv, FollowLabel
  PROVE  IInv'
<1>1. /\ SameCompression /\ c # NoSymbol /\ c \in DOMAIN labeled_tx[state]
      /\ state' = labeled_tx[state][c] /\ ref' = given.table[ref][c]
      /\ c' = NoSymbol /\ inputs' = inputs + 1 /\ accesses' = accesses
  BY DEF FollowLabel, SameCompression, compressionVars
<1>2. /\ given' \in Dfas /\ dfa' = given'
      /\ Phases' /\ LabelsAgree' /\ FileHolds' /\ PathsMeasured'
      /\ States' = States /\ Settled' = Settled
  BY <1>1, LookupsKeepRest
<1>3. /\ pc = "ready" /\ c \in Symbols /\ state \in States /\ ref \in States
      /\ state' = given.table[state][c] /\ state' = ref'
      /\ state' \in States
  BY <1>1, LookupsAgree, GivenIsDfa
<1>4. inputs + 1 \in 0 .. MAX_INPUTS /\ inputs \in Nat /\ inputs' # 0
  <2>1. inputs \in Nat /\ inputs < MAX_INPUTS
    BY <1>1, ParametersAssumption DEF IInv, TypeOK, LookupOnTheWay
  <2> QED
    BY <1>1, <2>1, ParametersAssumption
<1>5. TypeOK'
  BY <1>1, <1>2, <1>3, <1>4 DEF IInv, TypeOK, SameCompression
<1>6. LookupOnTheWay'
  BY <1>1, <1>3, <1>4 DEF LookupOnTheWay, SameCompression
<1>7. DepthPays'
  <2>1. SUFFICES ASSUME algorithm = "fast_compression"
                 PROVE  /\ IsDepth(given, depth)
                        /\ \A t \in Settled : GivesUp(depth, t, labeled_tx[t], default_tx[t], k)
                        /\ k * accesses + depth[state'] <= (k + 1) * (inputs + 1)
    <3>1. k \in Nat /\ inputs \in Nat
      BY <1>4 DEF IInv, Phases
    <3>2. (k + 1) * (inputs + 1) + 0 = (k + 1) * (inputs + 1)
      BY <3>1
    <3> QED
      BY <1>1, <1>2, <3>2 DEF DepthPays, SameCompression
  <2>2. /\ IsDepth(given, depth)
        /\ \A t \in Settled : GivesUp(depth, t, labeled_tx[t], default_tx[t], k)
        /\ k * accesses + depth[state] <= (k + 1) * inputs + k
    BY <1>1, <2>1 DEF IInv, DepthPays
  <2>3. depth[state'] <= depth[state] + 1
    BY <1>3, <2>2, GivenIsDfa DEF IsDepth
  <2>4. /\ k \in Nat /\ accesses \in Nat /\ inputs \in Nat
        /\ depth[state] \in Nat /\ depth[state'] \in Nat
    BY <1>3, <1>4 DEF IInv, TypeOK, Phases
  <2>5. k * accesses \in Nat /\ (k + 1) * inputs \in Nat
        /\ (k + 1) * (inputs + 1) = (k + 1) * inputs + k + 1
    BY <2>4
  <2> QED
    BY <2>2, <2>3, <2>4, <2>5
<1> QED
  BY <1>2, <1>5, <1>6, <1>7 DEF IInv

(* A lookup that takes the default transition keeps the invariant. *)
LEMMA FallBackKeepsIInv ==
  ASSUME IInv, FallBack
  PROVE  IInv'
<1>1. /\ SameCompression /\ c # NoSymbol /\ c \notin DOMAIN labeled_tx[state]
      /\ state' = default_tx[state] /\ accesses' = Counted(accesses)
      /\ UNCHANGED <<ref, c, inputs>>
  BY DEF FallBack, SameCompression, compressionVars
<1>2. /\ given' \in Dfas /\ dfa' = given'
      /\ Phases' /\ LabelsAgree' /\ FileHolds' /\ PathsMeasured'
      /\ States' = States /\ Settled' = Settled
  BY <1>1, LookupsKeepRest
<1>3. /\ pc = "ready" /\ c \in Symbols /\ state \in States /\ ref \in States
      /\ given.table[state'][c] = given.table[ref][c]
      /\ state' \in States
      /\ algorithm = "fast_compression" => depth[state'] + k <= depth[state]
  BY <1>1, LookupsAgree, GivenIsDfa DEF GivesUp
<1>4. accesses \in Nat /\ accesses' \in Nat /\ (accesses' = accesses \/ accesses' = accesses + 1)
  BY <1>1, CountedIsOneMore, ParametersAssumption DEF IInv, TypeOK
<1>5. TypeOK'
  BY <1>1, <1>2, <1>3, <1>4 DEF IInv, TypeOK, SameCompression
<1>6. LookupOnTheWay'
  BY <1>1, <1>3 DEF LookupOnTheWay, SameCompression, IInv
<1>7. DepthPays'
  <2>1. SUFFICES ASSUME algorithm = "fast_compression"
                 PROVE  /\ IsDepth(given, depth)
                        /\ \A t \in Settled : GivesUp(depth, t, labeled_tx[t], default_tx[t], k)
                        /\ k * accesses' + depth[state'] <= (k + 1) * inputs + k
    BY <1>1, <1>2 DEF DepthPays, SameCompression
  <2>2. /\ IsDepth(given, depth)
        /\ \A t \in Settled : GivesUp(depth, t, labeled_tx[t], default_tx[t], k)
        /\ k * accesses + depth[state] <= (k + 1) * inputs + k
    BY <1>1, <2>1 DEF IInv, DepthPays
  <2>3. /\ k \in Nat /\ inputs \in Nat /\ depth[state] \in Nat /\ depth[state'] \in Nat
    BY <1>3, ParametersAssumption DEF IInv, TypeOK, Phases
  <2>4. (k + 1) * inputs \in Nat
    BY <2>3
  <2>5. k * accesses \in Nat /\ k * accesses' \in Nat /\ k * accesses' <= k * accesses + k
    BY <1>4, <2>3, OneMoreCosts
  <2> QED
    BY <1>3, <2>1, <2>2, <2>3, <2>4, <2>5
<1> QED
  BY <1>2, <1>5, <1>6, <1>7 DEF IInv

-----------------------------------------------------------------------------
(* A step outside of the traversals keeps the lookups: none is under way.  *)
LEMMA RestKeepsLookups ==
  ASSUME IInv, UNCHANGED traversalVars, UNCHANGED <<given, dfa>>,
         pc = "ready" => pc' = "ready" \/ (c = NoSymbol /\ inputs = 0)
  PROVE  /\ given' \in Dfas /\ dfa' = given' /\ States' = States
         /\ LookupOnTheWay'
         /\ state' \in States' /\ ref' \in States' /\ c' \in Symbols \cup {NoSymbol}
         /\ inputs' \in 0 .. MAX_INPUTS /\ accesses' \in Nat
  BY DEF IInv, TypeOK, LookupOnTheWay, traversalVars, States

(* Nothing is read before the automaton is compressed.                     *)
LEMMA NothingRead ==
  ASSUME IInv, pc # "ready"
  PROVE  c = NoSymbol /\ inputs = 0 /\ state = 0 /\ accesses = 0
  BY DEF IInv, LookupOnTheWay

(* Before the first symbol nothing is owed. *)
LEMMA NothingCosts ==
  ASSUME NEW x \in Nat, NEW y \in Nat
  PROVE  x * 0 + 0 <= (x + 1) * 0 + 0
  OBVIOUS

(* set_depth and the cleared lists keep the invariant. *)
LEMMA StartCompressionKeepsIInv ==
  ASSUME IInv, StartCompression
  PROVE  IInv'
<1>1. /\ pc = "fresh" /\ pc' = "compress" /\ algorithm' = "fast_compression"
      /\ s' = 1 /\ UNCHANGED <<given, dfa, k, bound, file>> /\ UNCHANGED traversalVars
  BY DEF StartCompression
<1>2. /\ given' \in Dfas /\ dfa' = given' /\ States' = States
      /\ LookupOnTheWay'
      /\ state' \in States' /\ ref' \in States' /\ c' \in Symbols \cup {NoSymbol}
      /\ inputs' \in 0 .. MAX_INPUTS /\ accesses' \in Nat
  BY <1>1, RestKeepsLookups
<1>3. /\ given.size \in Nat \ {0} /\ dfa = given
      /\ States = StatesOf(given) /\ States = 0 .. given.size - 1 /\ 0 \in States
      /\ given.table \in [States -> [Symbols -> States]]
  BY GivenIsDfa
<1>4. /\ depth' \in [States -> 0 .. given.size] /\ IsDepth(given, depth')
      /\ depth' \in [States -> Nat]
  BY <1>3 DEF StartCompression
<1>5. dt_length' \in [States -> Int] /\ dt_length'[0] = 0
  <2>1. PICK g \in [States -> Garbage] : dt_length' = [g EXCEPT ![0] = 0]
    BY DEF StartCompression
  <2>2. g \in [States -> Int]
    BY ParametersAssumption
  <2> QED
    BY <1>3, <2>1, <2>2
<1>6. default_tx' \in [States -> States \cup {NO_STATE}] /\ default_tx'[0] = 0
  BY <1>3 DEF StartCompression, IInv, TypeOK
<1>7. labeled_tx' = [t \in States |-> IF t = 0 THEN given.table[0] ELSE << >>]
  BY <1>3 DEF StartCompression, AllLabeled
<1>8. Settled' = {0}
  BY <1>1 DEF Settled
<1>9. \A t \in States : LabelsFit(given, t, labeled_tx'[t])
  BY <1>3, <1>7, NoLabels DEF LabelsFit
<1>10. TypeOK'
  <2>1. \A t \in States : /\ DOMAIN labeled_tx'[t] \subseteq Symbols
                           /\ \A a \in DOMAIN labeled_tx'[t] : labeled_tx'[t][a] \in States
    BY <1>3, <1>9 DEF LabelsFit
  <2>2. s' \in 1 .. dfa'.size
    BY <1>1, <1>3
  <2> QED
    BY <1>2, <1>4, <1>5, <1>6, <2>1, <2>2 DEF TypeOK
<1>11. Phases'
  BY <1>1, <1>2, <1>3, <1>4 DEF IInv, Phases
<1>12. LabelsAgree'
  <2>1. StateAgrees(given, 0, labeled_tx'[0], default_tx'[0])
    BY <1>3, <1>7 DEF StateAgrees
  <2>2. labeled_tx' = [t \in States |-> labeled_tx'[t]]
    BY <1>7
  <2> QED
    BY <1>1, <1>2, <1>8, <1>9, <2>1, <2>2 DEF LabelsAgree
<1>13. FileHolds'
  BY <1>1 DEF FileHolds
<1>14. DepthPays'
  <2>1. GivesUp(depth', 0, labeled_tx'[0], default_tx'[0], k)
    BY <1>3, <1>7 DEF GivesUp
  <2>2. k * 0 + 0 <= (k + 1) * 0 + 0
    BY NothingCosts DEF IInv, Phases
  <2>3. c' = NoSymbol /\ inputs' = 0 /\ state' = 0 /\ accesses' = 0 /\ depth'[0] = 0
    BY <1>1, <1>4, NothingRead DEF traversalVars, IsDepth
  <2>4. k' * accesses' + depth'[state']
          <= (k' + 1) * inputs' + (IF c' = NoSymbol THEN 0 ELSE k')
    BY <1>1, <2>2, <2>3
  <2> QED
    BY <1>1, <1>4, <1>8, <2>1, <2>4 DEF DepthPays
<1>15. PathsMeasured'
  <2>1. PathBelow(default_tx', 0, 0, 1)
    <3> DEFINE path == [j \in 0 .. 0 |-> 0]
    <3>1. path \in [0 .. 0 -> 0 .. 1 - 1] /\ IsPath(default_tx', 0, 0, path)
      BY <1>6 DEF IsPath
    <3> QED
      BY <3>1 DEF PathBelow
  <2>2. bound > -1 => 0 <= bound
    BY DEF IInv, Phases
  <2> QED
    BY <1>1, <1>5, <2>1, <2>2 DEF PathsMeasured
<1> QED
  BY <1>2, <1>10, <1>11, <1>12, <1>13, <1>14, <1>15 DEF IInv

(* What is known while states are compressed.                              *)
LEMMA WhileCompressing ==
  ASSUME IInv, Compressing
  PROVE  /\ pc = "compress" /\ algorithm = "fast_compression"
         /\ s \in 1 .. given.size - 1 /\ s \in States /\ s # 0
         /\ depth \in [States -> Nat] /\ IsDepth(given, depth)
         /\ dt_length \in [States -> Int]
         /\ default_tx \in [States -> States \cup {NO_STATE}]
         /\ labeled_tx = [t \in States |-> labeled_tx[t]]
         /\ Settled = 0 .. s - 1
         /\ k \in Nat \ {0} /\ bound \in Nat \cup {-1}
<1>1. pc = "compress" /\ s < dfa.size
  BY DEF Compressing
<1>2. s \in 1 .. given.size - 1 /\ s \in States /\ s # 0
  <2>1. /\ given.size \in Nat /\ dfa = given /\ States = 0 .. given.size - 1
        /\ s \in 1 .. dfa.size
    BY GivenIsDfa DEF IInv, TypeOK
  <2> QED
    BY <1>1, <2>1
<1> QED
  BY <1>1, <1>2 DEF IInv, TypeOK, Phases, LabelsAgree, DepthPays, Settled

(* A path numbered from 0 to m lies among the first n states. *)
LEMMA PathIsBelow ==
  ASSUME NEW defaults, NEW t, NEW m \in Nat, NEW n, NEW p \in [0 .. m -> 0 .. n - 1],
         IsPath(defaults, t, m, p)
  PROVE  PathBelow(defaults, t, m, n)
  BY DEF PathBelow

(* A path through the states before s does not change with s.              *)
LEMMA PathsStay ==
  ASSUME NEW S, NEW m, NEW n \in Nat, NEW t,
         NEW defaults \in [S -> S \cup {NO_STATE}], NEW x, n \in S,
         PathBelow(defaults, t, m, n)
  PROVE  PathBelow([defaults EXCEPT ![n] = x], t, m, n + 1)
<1> DEFINE after == [defaults EXCEPT ![n] = x]
<1>1. PICK path \in [0 .. m -> 0 .. n - 1] : IsPath(defaults, t, m, path)
  BY DEF PathBelow
<1>2. m \in Nat
  BY DEF PathBelow
<1>3. \A q \in 0 .. n - 1 : after[q] = defaults[q] /\ q \in 0 .. n + 1 - 1
  OBVIOUS
<1>4. \A j \in 1 .. m : j - 1 \in 0 .. m
  BY <1>2
<1>5. m \in 0 .. m /\ 0 \in 0 .. m
  BY <1>2
<1>6. path \in [0 .. m -> 0 .. n + 1 - 1]
  BY <1>3
<1> HIDE DEF after
<1>7. \A j \in 1 .. m : after[path[j - 1]] = defaults[path[j - 1]]
  BY <1>3, <1>4
<1>8. after[path[m]] = defaults[path[m]]
  BY <1>3, <1>5
<1>9. IsPath(after, t, m, path)
  BY <1>1, <1>7, <1>8 DEF IsPath
<1> QED
  BY <1>2, <1>6, <1>9 DEF PathBelow, after

(* The path of a state begins with the state and goes on as the path of    *)
(* its default state.                                                      *)
LEMMA PathsGrow ==
  ASSUME NEW defaults, NEW t, NEW m, NEW n \in Nat, t \in 0 .. n - 1,
         PathBelow(defaults, t, m, n),
         NEW S, defaults \in [S -> S \cup {NO_STATE}], n \in S
  PROVE  PathBelow([defaults EXCEPT ![n] = t], n, m + 1, n + 1)
<1> DEFINE after == [defaults EXCEPT ![n] = t]
<1>1. PICK path \in [0 .. m -> 0 .. n - 1] : IsPath(defaults, t, m, path)
  BY DEF PathBelow
<1>2. m \in Nat
  BY DEF PathBelow
<1> DEFINE longer == [j \in 0 .. m + 1 |-> IF j = 0 THEN n ELSE path[j - 1]]
<1>3. \A q \in 0 .. n - 1 : after[q] = defaults[q] /\ q \in 0 .. n + 1 - 1 /\ q # n
  OBVIOUS
<1>4. after[n] = t
  OBVIOUS
<1>5. \A j \in 1 .. m + 1 : j - 1 \in 0 .. m
  BY <1>2
<1>6. longer \in [0 .. m + 1 -> 0 .. n + 1 - 1]
  <2>1. \A j \in 0 .. m + 1 : j # 0 => j - 1 \in 0 .. m
    BY <1>2
  <2>2. \A j \in 0 .. m : path[j] \in 0 .. n + 1 - 1
    BY <1>3
  <2>3. n \in 0 .. n + 1 - 1
    OBVIOUS
  <2> QED
    BY <2>1, <2>2, <2>3
<1> HIDE DEF after
<1>7. longer[0] = n /\ path[0] = t
  BY <1>1, <1>2 DEF IsPath
<1>8. ASSUME NEW j \in 1 .. m + 1
      PROVE  longer[j] = after[longer[j - 1]] /\ longer[j] # longer[j - 1]
  <2>1. longer[j] = path[j - 1] /\ j - 1 \in 0 .. m
    BY <1>2
  <2>2. CASE j = 1
    BY <1>2, <1>3, <1>4, <1>7, <2>1, <2>2
  <2>3. CASE j # 1
    <3>1. j - 1 \in 1 .. m /\ j - 1 - 1 \in 0 .. m /\ j - 1 \in 0 .. m + 1 /\ j - 1 # 0
      BY <1>2, <2>3
    <3>2. longer[j - 1] = path[j - 1 - 1]
      BY <3>1
    <3>3. path[j - 1] = defaults[path[j - 1 - 1]] /\ path[j - 1] # path[j - 1 - 1]
      BY <1>1, <3>1 DEF IsPath
    <3>4. after[path[j - 1 - 1]] = defaults[path[j - 1 - 1]]
      BY <1>3, <3>1
    <3> QED
      BY <2>1, <3>2, <3>3, <3>4
  <2> QED
    BY <2>2, <2>3
<1>9. longer[m + 1] = path[m] /\ after[path[m]] = defaults[path[m]]
  BY <1>2, <1>3
<1>10. IsPath(after, n, m + 1, longer)
  <2> HIDE DEF longer
  <2> QED
    BY <1>1, <1>7, <1>8, <1>9 DEF IsPath
<1> QED
  <2> HIDE DEF longer
  <2>1. m + 1 \in Nat
    BY <1>2
  <2>3. PathBelow(after, n, m + 1, n + 1)
    BY <1>6, <1>10, <2>1, PathIsBelow
  <2> QED
    BY <2>3 DEF after

(* Labels that are transitions of the automaton lead to states of it.      *)
LEMMA FittingLabels ==
  ASSUME IInv, NEW labels, NEW t \in States, LabelsFit(given, t, labels)
  PROVE  /\ DOMAIN labels \subseteq Symbols
         /\ \A a \in DOMAIN labels : labels[a] \in States
  BY GivenIsDfa DEF LabelsFit

(* A state is compressed: what it is given agrees with the automaton, and  *)
(* its default transition gives up k levels.                               *)
LEMMA CompressedKeepsIInv ==
  ASSUME IInv, Compressing,
         NEW x \in States \cup {NO_STATE}, NEW n \in Int, NEW labels,
         default_tx' = [default_tx EXCEPT ![s] = x],
         dt_length' = [dt_length EXCEPT ![s] = n],
         labeled_tx' = [labeled_tx EXCEPT ![s] = labels],
         s' = s + 1,
         UNCHANGED <<given, dfa, k, bound, algorithm, pc, depth, file, traversalVars>>,
         LabelsFit(given, s, labels),
         StateAgrees(given, s, labels, x),
         GivesUp(depth, s, labels, x, k),
         k = 1 /\ bound # 0 => /\ PathBelow(default_tx', s, n, s + 1)
                               /\ bound > -1 => n <= bound
  PROVE  IInv'
<1>1. /\ pc = "compress" /\ algorithm = "fast_compression"
      /\ s \in 1 .. given.size - 1 /\ s \in States /\ s # 0
      /\ depth \in [States -> Nat] /\ IsDepth(given, depth)
      /\ dt_length \in [States -> Int]
      /\ default_tx \in [States -> States \cup {NO_STATE}]
      /\ labeled_tx = [t \in States |-> labeled_tx[t]]
      /\ Settled = 0 .. s - 1
      /\ k \in Nat \ {0} /\ bound \in Nat \cup {-1}
  BY WhileCompressing
<1>2. /\ given' \in Dfas /\ dfa' = given' /\ States' = States
      /\ LookupOnTheWay'
      /\ state' \in States' /\ ref' \in States' /\ c' \in Symbols \cup {NoSymbol}
      /\ inputs' \in 0 .. MAX_INPUTS /\ accesses' \in Nat
  <2>1. UNCHANGED traversalVars /\ UNCHANGED <<given, dfa>> /\ pc # "ready"
    BY <1>1
  <2> QED
    BY <2>1, RestKeepsLookups
<1>3. /\ given.size \in Nat \ {0} /\ dfa = given
      /\ States = 0 .. given.size - 1 /\ 0 \in States
      /\ given.table \in [States -> [Symbols -> States]]
  BY GivenIsDfa
<1>4. \A t \in States : /\ default_tx'[t] = IF t = s THEN x ELSE default_tx[t]
                        /\ dt_length'[t] = IF t = s THEN n ELSE dt_length[t]
                        /\ labeled_tx'[t] = IF t = s THEN labels ELSE labeled_tx[t]
  BY <1>1
<1>5. /\ Settled' = 0 .. s
      /\ \A t \in 0 .. s : t \in States /\ (t # s => t \in 0 .. s - 1)
  <2>1. s + 1 - 1 = s
    BY <1>1
  <2>2. Settled' = 0 .. s
    BY <1>1, <2>1 DEF Settled
  <2>3. \A t \in 0 .. s : t \in States /\ (t # s => t \in 0 .. s - 1)
    BY <1>1, <1>3
  <2> QED
    BY <2>2, <2>3
<1>6. \A t \in States : LabelsFit(given, t, labeled_tx'[t])
  BY <1>4 DEF IInv, LabelsAgree
<1>7. \A t \in 0 .. s : /\ StateAgrees(given, t, labeled_tx'[t], default_tx'[t])
                        /\ GivesUp(depth, t, labeled_tx'[t], default_tx'[t], k)
  <2>1. \A t \in 0 .. s - 1 : /\ StateAgrees(given, t, labeled_tx[t], default_tx[t])
                              /\ GivesUp(depth, t, labeled_tx[t], default_tx[t], k)
    BY <1>1 DEF IInv, LabelsAgree, DepthPays
  <2> QED
    BY <1>4, <1>5, <2>1
<1>8. TypeOK'
  <2>1. \A t \in States : /\ DOMAIN labeled_tx'[t] \subseteq Symbols
                          /\ \A a \in DOMAIN labeled_tx'[t] : labeled_tx'[t][a] \in States
    BY <1>6, FittingLabels
  <2>2. s' \in 1 .. dfa'.size
    BY <1>1, <1>3
  <2>3. dt_length' \in [States -> Int] /\ default_tx' \in [States -> States \cup {NO_STATE}]
    BY <1>1
  <2> QED
    BY <1>1, <1>2, <2>1, <2>2, <2>3 DEF TypeOK
<1>9. Phases'
  BY <1>1, <1>2 DEF IInv, Phases
<1>10. LabelsAgree'
  <2>1. labeled_tx' = [t \in States |-> labeled_tx'[t]]
    BY <1>1
  <2> QED
    BY <1>2, <1>5, <1>6, <1>7, <2>1 DEF LabelsAgree
<1>11. FileHolds'
  BY <1>1 DEF FileHolds
<1>12. DepthPays'
  <2>1. k * accesses + depth[state]
          <= (k + 1) * inputs + (IF c = NoSymbol THEN 0 ELSE k)
    BY <1>1 DEF IInv, DepthPays
  <2> QED
    BY <1>1, <1>5, <1>7, <2>1 DEF DepthPays, traversalVars
<1>13. PathsMeasured'
  <2>1. /\ pc' = "compress" /\ k' = k /\ bound' = bound /\ s' = s + 1
        /\ s + 1 - 1 = s /\ s \in Nat
    BY <1>1
  <2>2. SUFFICES ASSUME k' = 1, bound' # 0
                 PROVE  /\ dt_length'[0] = 0
                        /\ \A t \in 0 .. s' - 1 :
                             /\ PathBelow(default_tx', t, dt_length'[t], s')
                             /\ bound' > -1 => dt_length'[t] <= bound'
    BY <2>1 DEF PathsMeasured
  <2>3. /\ dt_length[0] = 0
        /\ \A t \in 0 .. s - 1 :
             /\ PathBelow(default_tx, t, dt_length[t], s)
             /\ bound > -1 => dt_length[t] <= bound
    BY <1>1, <2>1, <2>2 DEF IInv, PathsMeasured
  <2>4. ASSUME NEW t \in 0 .. s
        PROVE  /\ PathBelow(default_tx', t, dt_length'[t], s + 1)
               /\ bound > -1 => dt_length'[t] <= bound
    <3>1. CASE t = s
      BY <1>1, <1>4, <2>1, <2>2, <3>1
    <3>2. CASE t # s
      <4>1. t \in 0 .. s - 1 /\ t \in States /\ dt_length'[t] = dt_length[t]
        BY <1>4, <1>5, <3>2
      <4>2. PathBelow(default_tx', t, dt_length[t], s + 1)
        BY <1>1, <2>1, <2>3, <4>1, PathsStay
      <4> QED
        BY <2>3, <4>1, <4>2
    <3> QED
      BY <3>1, <3>2
  <2>5. dt_length'[0] = 0
    BY <1>1, <1>3, <1>4, <2>3
  <2>6. 0 .. s' - 1 = 0 .. s
    BY <2>1
  <2>7. ASSUME NEW t \in 0 .. s' - 1
        PROVE  /\ PathBelow(default_tx', t, dt_length'[t], s')
               /\ bound' > -1 => dt_length'[t] <= bound'
    <3>1. t \in 0 .. s
      BY <2>6
    <3>2. /\ PathBelow(default_tx', t, dt_length'[t], s + 1)
          /\ bound > -1 => dt_length'[t] <= bound
      BY <2>4, <3>1
    <3> QED
      BY <2>1, <3>2, Zenon
  <2> QED
    BY <2>5, <2>7
<1> QED
  BY <1>2, <1>8, <1>9, <1>10, <1>11, <1>12, <1>13 DEF IInv

(* States are numbered by depth, so a candidate is compressed before s.    *)
LEMMA CandidateIsBefore ==
  ASSUME IInv, Compressing, NEW t \in States, Candidate(t)
  PROVE  depth[t] + k <= depth[s] /\ t \in 0 .. s - 1
<1>1. /\ s \in 1 .. given.size - 1 /\ s \in States
      /\ depth \in [States -> Nat] /\ IsDepth(given, depth)
      /\ k \in Nat \ {0}
  BY WhileCompressing
<1>2. /\ given \in Dfas /\ dfa = given /\ given.size \in Nat \ {0}
      /\ States = StatesOf(given) /\ States = 0 .. given.size - 1
  BY GivenIsDfa
<1>3. depth[t] \in Nat /\ depth[s] \in Nat /\ depth[s] - k >= depth[t]
  BY <1>1 DEF Candidate
<1>4. depth \in [StatesOf(given) -> 0 .. given.size]
  BY <1>2 DEF IInv, Phases
<1>5. s < t => depth[s] <= depth[t]
  BY <1>1, <1>2, <1>4, DfasAssumption
<1>6. t # s /\ ~ (s < t)
  BY <1>1, <1>3, <1>5
<1> QED
  BY <1>1, <1>2, <1>3, <1>6

(* Choosing t for the default state of s keeps the invariant. *)
LEMMA FallToKeepsIInv ==
  ASSUME IInv, NEW t \in States, FallTo(t)
  PROVE  IInv'
<1>1. /\ Compressing /\ Candidate(t)
      /\ default_tx' = [default_tx EXCEPT ![s] = t]
      /\ dt_length' = [dt_length EXCEPT ![s] = dt_length[t] + 1]
      /\ labeled_tx' = [labeled_tx EXCEPT ![s] = Differing(given, s, t)]
      /\ s' = s + 1
      /\ UNCHANGED <<given, dfa, k, bound, algorithm, pc, depth, file, traversalVars>>
  BY GivenIsDfa DEF FallTo
<1>2. /\ pc = "compress" /\ algorithm = "fast_compression"
      /\ s \in Nat /\ s \in States
      /\ dt_length \in [States -> Int]
      /\ default_tx \in [States -> States \cup {NO_STATE}]
      /\ bound \in Nat \cup {-1}
  BY <1>1, WhileCompressing
<1>3. depth[t] + k <= depth[s] /\ t \in 0 .. s - 1
  BY <1>1, CandidateIsBefore
<1>4. States = StatesOf(given) /\ dfa = given
  BY GivenIsDfa
<1>5. LabelsFit(given, s, Differing(given, s, t))
  BY DEF LabelsFit, Differing
<1>6. StateAgrees(given, s, Differing(given, s, t), t)
  BY <1>4 DEF StateAgrees, Differing
<1>7. GivesUp(depth, s, Differing(given, s, t), t, k)
  BY <1>3 DEF GivesUp
<1>8. dt_length[t] + 1 \in Int
  BY <1>2
<1>9. ASSUME k = 1, bound # 0
      PROVE  /\ PathBelow(default_tx', s, dt_length[t] + 1, s + 1)
             /\ bound > -1 => dt_length[t] + 1 <= bound
  <2>1. PathBelow(default_tx, t, dt_length[t], s)
    BY <1>2, <1>3, <1>9 DEF IInv, PathsMeasured
  <2>2. PathBelow(default_tx', s, dt_length[t] + 1, s + 1)
    BY <1>1, <1>2, <1>3, <2>1, PathsGrow
  <2>3. bound > -1 => dt_length[t] < bound
    BY <1>1, <1>2 DEF Candidate
  <2> QED
    BY <1>2, <2>2, <2>3
<1> HIDE DEF Compressing
<1> QED
  BY <1>1, <1>5, <1>6, <1>7, <1>8, <1>9, CompressedKeepsIInv

(* A state that falls back to none keeps all its transitions.              *)
LEMMA AllLabelsFit ==
  ASSUME IInv, NEW t \in States, NEW n
  PROVE  /\ LabelsFit(given, t, AllLabeled(given, t))
         /\ StateAgrees(given, t, AllLabeled(given, t), NO_STATE)
         /\ GivesUp(depth, t, AllLabeled(given, t), NO_STATE, n)
<1>1. DOMAIN given.table[t] = Symbols
  BY GivenIsDfa
<1> QED
  BY <1>1 DEF LabelsFit, StateAgrees, GivesUp, AllLabeled

(* Keeping all labels of a state that shares one transition at most keeps the invariant. *)
LEMMA OneInCommonKeepsIInv ==
  ASSUME IInv, OneInCommon
  PROVE  IInv'
<1>1. /\ Compressing
      /\ default_tx' = [default_tx EXCEPT ![s] = NO_STATE]
      /\ dt_length' = [dt_length EXCEPT ![s] = 0]
      /\ labeled_tx' = [labeled_tx EXCEPT ![s] = AllLabeled(given, s)]
      /\ s' = s + 1
      /\ UNCHANGED <<given, dfa, k, bound, algorithm, pc, depth, file, traversalVars>>
  BY GivenIsDfa DEF OneInCommon
<1>2. /\ s \in Nat /\ s \in States /\ bound \in Nat \cup {-1}
      /\ default_tx \in [States -> States \cup {NO_STATE}]
  BY <1>1, WhileCompressing
<1>3. /\ LabelsFit(given, s, AllLabeled(given, s))
      /\ StateAgrees(given, s, AllLabeled(given, s), NO_STATE)
      /\ GivesUp(depth, s, AllLabeled(given, s), NO_STATE, k)
  BY <1>2, AllLabelsFit
<1>4. PathBelow(default_tx', s, 0, s + 1)
  <2> DEFINE path == [j \in 0 .. 0 |-> s]
  <2>1. path \in [0 .. 0 -> 0 .. s + 1 - 1] /\ IsPath(default_tx', s, 0, path)
    BY <1>1, <1>2 DEF IsPath
  <2> QED
    BY <2>1 DEF PathBelow
<1>5. (bound > -1 => 0 <= bound) /\ 0 \in Int /\ NO_STATE \in States \cup {NO_STATE}
  BY <1>2
<1> HIDE DEF Compressing
<1> QED
  BY <1>1, <1>3, <1>4, <1>5, CompressedKeepsIInv

(* With k = 1 there is a candidate: state 0, whose path has no length.     *)
LEMMA ZeroIsCandidate ==
  ASSUME IInv, Compressing, k = 1, bound # 0
  PROVE  0 \in Candidates
<1>1. /\ pc = "compress" /\ algorithm = "fast_compression"
      /\ s \in States /\ s # 0
      /\ depth \in [States -> Nat] /\ IsDepth(given, depth)
      /\ bound \in Nat \cup {-1}
  BY WhileCompressing
<1>2. States = StatesOf(given) /\ 0 \in States
  BY GivenIsDfa
<1>3. dt_length[0] = 0
  BY <1>1 DEF IInv, PathsMeasured
<1>4. PICK r \in States : depth[s] = depth[r] + 1
  BY <1>1, <1>2 DEF IsDepth
<1>5. depth[0] = 0 /\ depth[s] - k >= depth[0]
  <2>1. depth[0] = 0 /\ depth[r] \in Nat
    BY <1>1 DEF IsDepth
  <2> QED
    BY <1>4, <2>1
<1>6. bound = -1 \/ dt_length[0] < bound
  BY <1>1, <1>3
<1> QED
  BY <1>2, <1>5, <1>6 DEF Candidates, Candidate

(* A state without candidate keeps the invariant. *)
LEMMA NoCandidateKeepsIInv ==
  ASSUME IInv, NoCandidate
  PROVE  IInv'
<1>1. Compressing /\ Candidates = {}
  BY DEF NoCandidate
<1>2. /\ pc = "compress" /\ algorithm = "fast_compression"
      /\ s \in Nat /\ s \in States /\ Settled = 0 .. s - 1
  BY <1>1, WhileCompressing
<1>3. ~ (k = 1 /\ bound # 0)
  BY <1>1, ZeroIsCandidate
<1>4. UNCHANGED <<given, dfa, k, bound, file, traversalVars>>
  BY DEF NoCandidate
<1>5. CASE pc' = "crashed" /\ UNCHANGED compressionVars
  <2> USE DEF compressionVars, traversalVars
  <2>1. /\ given' \in Dfas /\ dfa' = given' /\ States' = States
        /\ LookupOnTheWay'
        /\ state' \in States' /\ ref' \in States' /\ c' \in Symbols \cup {NoSymbol}
        /\ inputs' \in 0 .. MAX_INPUTS /\ accesses' \in Nat
    <3>1. UNCHANGED traversalVars /\ UNCHANGED <<given, dfa>> /\ pc # "ready"
      BY <1>2, <1>4
    <3> QED
      BY <3>1, RestKeepsLookups
  <2>2. Settled' = Settled
    BY <1>2, <1>5 DEF Settled
  <2>3. TypeOK'
    BY <1>4, <1>5, <2>1 DEF IInv, TypeOK
  <2>4. Phases'
    BY <1>2, <1>4, <1>5, <2>1 DEF IInv, Phases
  <2>5. LabelsAgree'
    BY <1>4, <1>5, <2>1, <2>2 DEF IInv, LabelsAgree
  <2>6. DepthPays'
    BY <1>4, <1>5, <2>1, <2>2 DEF IInv, DepthPays
  <2>7. FileHolds' /\ PathsMeasured'
    BY <1>3, <1>4, <1>5 DEF FileHolds, PathsMeasured
  <2> QED
    BY <2>1, <2>3, <2>4, <2>5, <2>6, <2>7 DEF IInv
<1>6. CASE /\ \E g \in Garbage : dt_length' = [dt_length EXCEPT ![s] = g + 1]
           /\ default_tx' = [default_tx EXCEPT ![s] = NO_STATE]
           /\ labeled_tx' = [labeled_tx EXCEPT ![s] = AllLabeled(dfa, s)]
           /\ s' = s + 1
           /\ UNCHANGED <<pc, algorithm, depth>>
  <2>1. PICK g \in Garbage : dt_length' = [dt_length EXCEPT ![s] = g + 1]
    BY <1>6
  <2>2. g + 1 \in Int
    BY ParametersAssumption
  <2>3. /\ LabelsFit(given, s, AllLabeled(given, s))
        /\ StateAgrees(given, s, AllLabeled(given, s), NO_STATE)
        /\ GivesUp(depth, s, AllLabeled(given, s), NO_STATE, k)
    BY <1>2, AllLabelsFit
  <2>4. labeled_tx' = [labeled_tx EXCEPT ![s] = AllLabeled(given, s)]
    BY <1>6, GivenIsDfa
  <2>5. UNCHANGED <<given, dfa, k, bound, algorithm, pc, depth, file, traversalVars>>
    BY <1>4, <1>6
  <2> HIDE DEF Compressing
  <2> QED
    BY <1>1, <1>3, <1>6, <2>1, <2>2, <2>3, <2>4, <2>5, CompressedKeepsIInv
<1> QED
  BY <1>5, <1>6 DEF NoCandidate

(* Giving dt_length back keeps the invariant. *)
LEMMA EndCompressionKeepsIInv ==
  ASSUME IInv, EndCompression
  PROVE  IInv'
<1>1. /\ pc = "compress" /\ s = dfa.size /\ pc' = "ready" /\ s' = 1
      /\ dt_length' = [t \in States |-> 0]
      /\ UNCHANGED <<given, dfa, k, bound, algorithm, depth, default_tx, labeled_tx, file>>
      /\ UNCHANGED traversalVars
  BY DEF EndCompression
<1>2. /\ given' \in Dfas /\ dfa' = given' /\ States' = States
      /\ LookupOnTheWay'
      /\ state' \in States' /\ ref' \in States' /\ c' \in Symbols \cup {NoSymbol}
      /\ inputs' \in 0 .. MAX_INPUTS /\ accesses' \in Nat
  BY <1>1, RestKeepsLookups
<1>3. /\ given.size \in Nat \ {0} /\ dfa = given /\ States = 0 .. given.size - 1
  BY GivenIsDfa
<1>4. Settled = States /\ Settled' = States
  BY <1>1, <1>2, <1>3 DEF Settled
<1>5. TypeOK'
  <2>1. s' \in 1 .. dfa'.size /\ dt_length' \in [States -> Int]
    BY <1>1, <1>3
  <2> QED
    BY <1>1, <1>2, <2>1 DEF IInv, TypeOK
<1>6. Phases'
  BY <1>1, <1>2 DEF IInv, Phases
<1>7. LabelsAgree'
  BY <1>1, <1>2, <1>4 DEF IInv, LabelsAgree
<1>8. FileHolds'
  BY <1>1 DEF FileHolds
<1>9. DepthPays'
  BY <1>1, <1>4 DEF IInv, DepthPays, traversalVars
<1>10. PathsMeasured'
  <2>1. SUFFICES ASSUME algorithm = "fast_compression", k = 1, bound # 0, bound > -1
                 PROVE  \A t \in States : \E m \in 0 .. bound : PathBelow(default_tx, t, m, dfa.size)
    BY <1>1, <1>2 DEF PathsMeasured
  <2>2. \A t \in States : PathBelow(default_tx, t, dt_length[t], dfa.size) /\ dt_length[t] <= bound
    BY <1>1, <1>3, <2>1 DEF IInv, PathsMeasured
  <2>3. \A t \in States : dt_length[t] \in Nat
    BY <2>2 DEF PathBelow
  <2>4. \A t \in States : dt_length[t] \in 0 .. bound
    BY <2>1, <2>2, <2>3 DEF IInv, Phases
  <2> QED
    BY <2>2, <2>4
<1> QED
  BY <1>2, <1>5, <1>6, <1>7, <1>8, <1>9, <1>10 DEF IInv

(* An export keeps the invariant. *)
LEMMA PutKeepsIInv ==
  ASSUME IInv, Put
  PROVE  IInv'
<1>1. /\ pc = "ready" /\ pc' = "dumped" /\ inputs = 0 /\ c = NoSymbol
      /\ file' = [size |-> dfa.size, default_tx |-> default_tx,
                  labeled_tx |-> labeled_tx, accepted |-> dfa.accepted,
                  dead_state |-> dfa.dead_state]
      /\ UNCHANGED <<given, dfa, k, bound>>
      /\ UNCHANGED <<algorithm, depth, s, dt_length, default_tx, labeled_tx>>
      /\ UNCHANGED traversalVars
  BY DEF Put, compressionVars
<1>2. /\ given' \in Dfas /\ dfa' = given' /\ States' = States
      /\ LookupOnTheWay'
      /\ state' \in States' /\ ref' \in States' /\ c' \in Symbols \cup {NoSymbol}
      /\ inputs' \in 0 .. MAX_INPUTS /\ accesses' \in Nat
  BY <1>1, RestKeepsLookups
<1>3. Settled' = Settled
  BY <1>1, <1>2 DEF Settled
<1>4. TypeOK'
  BY <1>1, <1>2 DEF IInv, TypeOK
<1>5. Phases'
  BY <1>1, <1>2 DEF IInv, Phases
<1>6. LabelsAgree'
  BY <1>1, <1>2, <1>3 DEF IInv, LabelsAgree
<1>7. FileHolds'
  BY <1>1 DEF FileHolds
<1>8. DepthPays'
  BY <1>1, <1>3 DEF IInv, DepthPays, traversalVars
<1>9. PathsMeasured'
  BY <1>1, <1>2 DEF IInv, PathsMeasured
<1> QED
  BY <1>2, <1>4, <1>5, <1>6, <1>7, <1>8, <1>9 DEF IInv

(* The table that get rebuilds is the one that put left out.               *)
LEMMA GetRestores ==
  ASSUME IInv, Get
  PROVE  dfa' = given /\ default_tx' = default_tx /\ labeled_tx' = labeled_tx
<1>1. /\ given.size \in Nat \ {0} /\ dfa = given /\ given \in Dfas
      /\ States = StatesOf(given) /\ States = 0 .. given.size - 1
      /\ given.table \in [States -> [Symbols -> States]]
  BY GivenIsDfa
<1>2. pc = "dumped"
  BY DEF Get
<1>3. file = [size |-> given.size, default_tx |-> default_tx, labeled_tx |-> labeled_tx,
              accepted |-> given.accepted, dead_state |-> given.dead_state]
  BY <1>1, <1>2 DEF IInv, FileHolds
<1>4. /\ file.size = given.size /\ file.default_tx = default_tx /\ file.labeled_tx = labeled_tx
      /\ file.accepted = given.accepted /\ file.dead_state = given.dead_state
  BY <1>3
<1>5. \A t \in States, a \in Symbols : Lookup(file, t, a) = given.table[t][a]
  <2>1. \A q \in StatesOf(given) :
          StateAgrees(given, q, file.labeled_tx[q], file.default_tx[q])
    BY <1>1, <1>2, <1>4 DEF IInv, LabelsAgree, Settled
  <2>2. file.default_tx \in [StatesOf(given) -> StatesOf(given) \cup {NO_STATE}]
    BY <1>1, <1>4 DEF IInv, TypeOK
  <2>3. \A t \in States, a \in Symbols : LabelsOnPath(file, t, a) # {}
    BY DEF Get
  <2>4. ASSUME NEW t \in StatesOf(given), NEW a \in Symbols
        PROVE  Lookup(file, t, a) = given.table[t][a]
    <3>1. LabelsOnPath(file, t, a) # {} /\ given.size \in Nat \ {0}
      BY <1>1, <2>3
    <3> QED
      BY <2>1, <2>2, <3>1, LookupIsTransition
  <2> QED
    BY <1>1, <2>4
<1>6. [t \in 0 .. file.size - 1 |-> [a \in Symbols |-> Lookup(file, t, a)]] = given.table
  BY <1>1, <1>4, <1>5
<1>7. given = [size |-> given.size, table |-> given.table, accepted |-> given.accepted,
               dead_state |-> given.dead_state]
  BY <1>1, DfasAssumption
<1>8. dfa' = [size |-> given.size, table |-> given.table, accepted |-> given.accepted,
              dead_state |-> given.dead_state]
  BY <1>4, <1>6 DEF Get
<1>9. dfa' = given
  BY <1>7, <1>8
<1> QED
  BY <1>4, <1>9 DEF Get

(* An import rebuilds the table that was exported. *)
LEMMA GetKeepsIInv ==
  ASSUME IInv, Get
  PROVE  IInv'
<1>1. /\ pc = "dumped" /\ pc' = "ready"
      /\ UNCHANGED <<given, k, bound, algorithm, s, dt_length, file, traversalVars>>
      /\ UNCHANGED traversalVars
      /\ UNCHANGED <<given, dfa>> /\ UNCHANGED <<default_tx, labeled_tx>>
  BY GetRestores, GivenIsDfa DEF Get
<1>2. /\ given' \in Dfas /\ dfa' = given' /\ States' = States
      /\ LookupOnTheWay'
      /\ state' \in States' /\ ref' \in States' /\ c' \in Symbols \cup {NoSymbol}
      /\ inputs' \in 0 .. MAX_INPUTS /\ accesses' \in Nat
  BY <1>1, RestKeepsLookups
<1>3. /\ given.size \in Nat \ {0} /\ dfa = given
      /\ States = StatesOf(given)
      /\ given.table \in [States -> [Symbols -> States]]
  BY GivenIsDfa
<1>4. depth' \in [States -> 0 .. given.size] /\ IsDepth(given, depth')
      /\ depth' \in [States -> Nat]
  <2>1. PICK d \in [States -> 0 .. dfa.size] : IsDepth(dfa', d) /\ depth' = d
    BY DEF Get
  <2>2. dfa' = given
    BY <1>1, <1>3
  <2> QED
    BY <1>3, <2>1, <2>2
<1>5. algorithm = "fast_compression" => depth' = depth
  <2>1. depth \in [States -> Nat] /\ (algorithm = "fast_compression" => IsDepth(given, depth))
    BY DEF IInv, TypeOK, DepthPays
  <2> QED
    BY <1>3, <1>4, <2>1, DepthUnique
<1>6. Settled' = Settled
  BY <1>1, <1>2 DEF Settled
<1>7. TypeOK'
  BY <1>1, <1>2, <1>4 DEF IInv, TypeOK
<1>8. Phases'
  BY <1>1, <1>2, <1>3, <1>4 DEF IInv, Phases
<1>9. LabelsAgree'
  BY <1>1, <1>2, <1>6 DEF IInv, LabelsAgree
<1>10. FileHolds'
  BY <1>1 DEF FileHolds
<1>11. DepthPays'
  BY <1>1, <1>5, <1>6 DEF IInv, DepthPays, traversalVars
<1>12. PathsMeasured'
  BY <1>1, <1>2 DEF IInv, PathsMeasured
<1> QED
  BY <1>2, <1>7, <1>8, <1>9, <1>10, <1>11, <1>12 DEF IInv

-----------------------------------------------------------------------------
(* A step of D2FA settles states, but measures neither depth nor paths.    *)
LEMMA ForestStepKeepsIInv ==
  ASSUME IInv, UNCHANGED traversalVars, UNCHANGED <<given, dfa, depth, s, dt_length>>,
         c = NoSymbol /\ inputs = 0,
         algorithm' = "D2FA",
         pc' \in {"ready", "graph", "kruskal", "trees"},
         k' \in Nat \ {0}, bound' \in Nat \cup {-1},
         default_tx' \in [States -> States \cup {NO_STATE}],
         labeled_tx' = [t \in States |-> labeled_tx'[t]],
         \A t \in States : LabelsFit(given, t, labeled_tx'[t]),
         \A t \in Settled' : StateAgrees(given, t, labeled_tx'[t], default_tx'[t])
  PROVE  IInv'
<1>1. /\ given' \in Dfas /\ dfa' = given' /\ States' = States
      /\ LookupOnTheWay'
      /\ state' \in States' /\ ref' \in States' /\ c' \in Symbols \cup {NoSymbol}
      /\ inputs' \in 0 .. MAX_INPUTS /\ accesses' \in Nat
  BY RestKeepsLookups
<1>2. \A t \in States : /\ DOMAIN labeled_tx'[t] \subseteq Symbols
                        /\ \A a \in DOMAIN labeled_tx'[t] : labeled_tx'[t][a] \in States
  BY FittingLabels
<1>3. TypeOK'
  BY <1>1, <1>2 DEF IInv, TypeOK
<1>4. Phases'
  BY <1>1 DEF IInv, Phases
<1>5. LabelsAgree'
  BY <1>1 DEF LabelsAgree
<1>6. FileHolds' /\ DepthPays' /\ PathsMeasured'
  BY DEF FileHolds, DepthPays, PathsMeasured
<1> QED
  BY <1>1, <1>3, <1>4, <1>5, <1>6 DEF IInv

(* A step of D2FA that leaves the transitions alone.                       *)
LEMMA PassKeepsIInv ==
  ASSUME IInv, UNCHANGED traversalVars,
         UNCHANGED <<given, dfa, depth, s, dt_length, default_tx, labeled_tx>>,
         c = NoSymbol /\ inputs = 0,
         algorithm' = "D2FA",
         \/ pc' \in {"graph", "kruskal"}
         \/ pc' = "ready" /\ Settled = States,
         k' \in Nat \ {0}, bound' \in Nat \cup {-1}
  PROVE  IInv'
<1>1. /\ default_tx \in [States -> States \cup {NO_STATE}]
      /\ labeled_tx = [t \in States |-> labeled_tx[t]]
      /\ \A t \in States : LabelsFit(given, t, labeled_tx[t])
      /\ \A t \in Settled : StateAgrees(given, t, labeled_tx[t], default_tx[t])
  BY DEF IInv, TypeOK, LabelsAgree
<1>2. \A t \in Settled' : t \in Settled
  BY DEF Settled, States
<1>3. \A t \in Settled' : StateAgrees(given, t, labeled_tx'[t], default_tx'[t])
  BY <1>1, <1>2
<1>4. pc' \in {"ready", "graph", "kruskal", "trees"}
  OBVIOUS
<1> QED
  BY <1>1, <1>3, <1>4, ForestStepKeepsIInv

(* Calling D2FA keeps the invariant. *)
LEMMA StartD2FAKeepsIInv ==
  ASSUME IInv, StartD2FA
  PROVE  IInv'
<1>1. /\ c = NoSymbol /\ inputs = 0 /\ pc' = "graph" /\ algorithm' = "D2FA"
      /\ k' = 1 /\ bound' = -1 /\ UNCHANGED traversalVars
      /\ UNCHANGED <<given, dfa, depth, s, dt_length, default_tx, labeled_tx>>
  BY DEF StartD2FA
<1>2. pc' \in {"graph", "kruskal"} /\ k' \in Nat \ {0} /\ bound' \in Nat \cup {-1}
  BY <1>1
<1> QED
  BY <1>1, <1>2, PassKeepsIInv

(* A pass over the space reduction graph keeps the invariant. *)
LEMMA BuildGraphKeepsIInv ==
  ASSUME IInv, BuildGraph
  PROVE  IInv'
<1>1. /\ pc = "graph" /\ pc' = "kruskal" /\ UNCHANGED traversalVars
      /\ UNCHANGED <<given, dfa, k, bound, algorithm, depth, s, dt_length, default_tx, labeled_tx>>
  BY DEF BuildGraph, compressionVars
<1>2. /\ c = NoSymbol /\ inputs = 0 /\ algorithm = "D2FA"
      /\ k \in Nat \ {0} /\ bound \in Nat \cup {-1}
  BY <1>1, NothingRead DEF IInv, Phases
<1>3. /\ algorithm' = "D2FA" /\ pc' \in {"graph", "kruskal"} /\ k' \in Nat \ {0} /\ bound' \in Nat \cup {-1}
      /\ UNCHANGED <<given, dfa, depth, s, dt_length, default_tx, labeled_tx>>
  BY <1>1, <1>2
<1> QED
  BY <1>1, <1>2, <1>3, PassKeepsIInv

(* Going on to the next weight keeps the invariant. *)
LEMMA EndPassKeepsIInv ==
  ASSUME IInv, EndPass
  PROVE  IInv'
<1>1. /\ pc = "kruskal" /\ pc' = "graph" /\ UNCHANGED traversalVars
      /\ UNCHANGED <<given, dfa, k, bound, algorithm, depth, s, dt_length, default_tx, labeled_tx>>
  BY DEF EndPass, compressionVars
<1>2. /\ c = NoSymbol /\ inputs = 0 /\ algorithm = "D2FA"
      /\ k \in Nat \ {0} /\ bound \in Nat \cup {-1}
  BY <1>1, NothingRead DEF IInv, Phases
<1>3. /\ algorithm' = "D2FA" /\ pc' \in {"graph", "kruskal"} /\ k' \in Nat \ {0} /\ bound' \in Nat \cup {-1}
      /\ UNCHANGED <<given, dfa, depth, s, dt_length, default_tx, labeled_tx>>
  BY <1>1, <1>2
<1> QED
  BY <1>1, <1>2, <1>3, PassKeepsIInv

(* Returning from D2FA keeps the invariant. *)
LEMMA EndD2FAKeepsIInv ==
  ASSUME IInv, EndD2FA
  PROVE  IInv'
<1>1. /\ pc = "trees" /\ pc' = "ready" /\ UNCHANGED traversalVars
      /\ UNCHANGED <<given, dfa, k, bound, algorithm, depth, s, dt_length, default_tx, labeled_tx>>
      /\ \A t \in States : default_tx[t] # NO_STATE
  BY DEF EndD2FA, compressionVars
<1>2. /\ c = NoSymbol /\ inputs = 0 /\ algorithm = "D2FA"
      /\ k \in Nat \ {0} /\ bound \in Nat \cup {-1}
  BY <1>1, NothingRead DEF IInv, Phases
<1>3. Settled = States
  BY <1>1 DEF Settled
<1>4. /\ algorithm' = "D2FA" /\ k' \in Nat \ {0} /\ bound' \in Nat \cup {-1}
      /\ UNCHANGED <<given, dfa, depth, s, dt_length, default_tx, labeled_tx>>
  BY <1>1, <1>2
<1> QED
  BY <1>1, <1>2, <1>3, <1>4, PassKeepsIInv

(* Clearing the default transitions before the forest is read keeps the invariant. *)
LEMMA StartTreesKeepsIInv ==
  ASSUME IInv, StartTrees
  PROVE  IInv'
<1>1. /\ pc = "graph" /\ pc' = "trees" /\ UNCHANGED traversalVars
      /\ UNCHANGED <<given, dfa, k, bound, algorithm, depth, s, dt_length, labeled_tx>>
      /\ default_tx' = [t \in States |-> NO_STATE]
  BY DEF StartTrees
<1>2. /\ c = NoSymbol /\ inputs = 0 /\ algorithm = "D2FA"
      /\ k \in Nat \ {0} /\ bound \in Nat \cup {-1}
  BY <1>1, NothingRead DEF IInv, Phases
<1>3. Settled' = {}
  BY <1>1 DEF Settled, States
<1>4. /\ labeled_tx' = [t \in States |-> labeled_tx'[t]]
      /\ \A t \in States : LabelsFit(given, t, labeled_tx'[t])
      /\ default_tx' \in [States -> States \cup {NO_STATE}]
  BY <1>1 DEF IInv, LabelsAgree
<1> QED
  BY <1>1, <1>2, <1>3, <1>4, ForestStepKeepsIInv

(* Labels pushed behind others that fit, fit.                              *)
LEMMA PushedFits ==
  ASSUME NEW D, NEW t, NEW old, LabelsFit(D, t, old), NEW new, LabelsFit(D, t, new)
  PROVE  LabelsFit(D, t, Pushed(old, new))
  BY DEF LabelsFit, Pushed

(* Turning one tree of the forest into default transitions and labels keeps the invariant. *)
LEMMA RootTreeKeepsIInv ==
  ASSUME IInv, NEW root \in States, RootTree(root)
  PROVE  IInv'
<1> DEFINE from == DistancesFrom(EdgesOf(T), root)
           new(t) == IF t = root THEN AllLabeled(dfa, t)
                     ELSE Differing(dfa, t, TowardsRoot(t, from))
<1>1. /\ pc = "trees" /\ pc' = "trees" /\ UNCHANGED traversalVars
      /\ UNCHANGED <<given, dfa, k, bound, algorithm, depth, s, dt_length>>
      /\ default_tx' = [t \in States |->
           IF t \notin DOMAIN from THEN default_tx[t]
           ELSE IF t = root THEN root ELSE TowardsRoot(t, from)]
      /\ labeled_tx' = [t \in States |->
           IF t \notin DOMAIN from THEN labeled_tx[t]
           ELSE IF t = root THEN Pushed(labeled_tx[t], AllLabeled(dfa, t))
           ELSE Pushed(labeled_tx[t], Differing(dfa, t, TowardsRoot(t, from)))]
  BY DEF RootTree
<1>2. /\ c = NoSymbol /\ inputs = 0 /\ algorithm = "D2FA"
      /\ k \in Nat \ {0} /\ bound \in Nat \cup {-1}
  BY <1>1, NothingRead DEF IInv, Phases
<1>3. /\ dfa = given /\ States = StatesOf(given) /\ given.size \in Nat
      /\ given.table \in [States -> [Symbols -> States]]
  BY GivenIsDfa
<1>4. \A t \in DOMAIN from \ {root} : TowardsRoot(t, from) \in States
  BY <1>3, TreeLeadsToRoot
<1> HIDE DEF from
<1>5. /\ default_tx \in [States -> States \cup {NO_STATE}]
      /\ \A t \in States : LabelsFit(given, t, labeled_tx[t])
      /\ Settled = {t \in States : default_tx[t] # NO_STATE}
      /\ \A t \in Settled : StateAgrees(given, t, labeled_tx[t], default_tx[t])
  BY <1>1 DEF IInv, TypeOK, LabelsAgree, Settled
<1>6. default_tx' \in [States -> States \cup {NO_STATE}]
  BY <1>1, <1>4, <1>5
<1>7. ASSUME NEW t \in DOMAIN from, t \in States
      PROVE  labeled_tx'[t] = Pushed(labeled_tx[t], new(t)) /\ LabelsFit(given, t, new(t))
  <2>1. labeled_tx'[t] = Pushed(labeled_tx[t], new(t))
    BY <1>1, <1>7
  <2>2. LabelsFit(given, t, AllLabeled(given, t))
    BY <1>7, AllLabelsFit
  <2>3. LabelsFit(given, t, Differing(given, t, TowardsRoot(t, from)))
    BY DEF LabelsFit, Differing
  <2> QED
    BY <1>3, <2>1, <2>2, <2>3
<1>8. \A t \in States : LabelsFit(given, t, labeled_tx'[t])
  <2>1. SUFFICES ASSUME NEW t \in States PROVE LabelsFit(given, t, labeled_tx'[t])
    OBVIOUS
  <2>2. CASE t \in DOMAIN from
    BY <1>5, <1>7, <2>2, PushedFits
  <2>3. CASE t \notin DOMAIN from
    BY <1>1, <1>5, <2>3
  <2> QED
    BY <2>2, <2>3
<1>9. \A t \in Settled' : StateAgrees(given, t, labeled_tx'[t], default_tx'[t])
  <2>1. SUFFICES ASSUME NEW t \in States, default_tx'[t] # NO_STATE
                 PROVE  StateAgrees(given, t, labeled_tx'[t], default_tx'[t])
    BY <1>1 DEF Settled, States
  <2>2. CASE t \notin DOMAIN from
    BY <1>1, <1>5, <2>1, <2>2
  <2>3. CASE t \in DOMAIN from /\ t = root
    <3>1. labeled_tx'[t] = Pushed(labeled_tx[t], AllLabeled(given, t))
      BY <1>3, <1>7, <2>3
    <3>2. LabelsFit(given, t, labeled_tx'[t])
      BY <1>8
    <3>3. Symbols \subseteq DOMAIN labeled_tx'[t]
      BY <1>3, <3>1 DEF Pushed, AllLabeled
    <3> QED
      BY <3>2, <3>3 DEF LabelsFit, StateAgrees
  <2>4. CASE t \in DOMAIN from /\ t # root
    <3> DEFINE v == TowardsRoot(t, from)
    <3>1. labeled_tx'[t] = Pushed(labeled_tx[t], Differing(given, t, v)) /\ default_tx'[t] = v
      BY <1>1, <1>3, <1>7, <2>4
    <3>2. v \in StatesOf(given)
      BY <1>3, <1>4, <2>4
    <3> HIDE DEF v
    <3>3. LabelsFit(given, t, labeled_tx'[t])
      BY <1>8
    <3>4. \A a \in Symbols : a \notin DOMAIN labeled_tx'[t] => given.table[t][a] = given.table[v][a]
      BY <3>1 DEF Pushed, Differing
    <3> QED
      BY <3>1, <3>2, <3>3, <3>4 DEF LabelsFit, StateAgrees
  <2> QED
    BY <2>2, <2>3, <2>4
<1>10. labeled_tx' = [t \in States |-> labeled_tx'[t]]
  BY <1>1
<1> QED
  BY <1>1, <1>2, <1>6, <1>8, <1>9, <1>10, ForestStepKeepsIInv

(***************************************************************************)
(* Every step of a call, of a traversal, of an export and of an import     *)
(* keeps the invariant.                                                    *)
(***************************************************************************)
THEOREM Inductive == IInv /\ [NextD2fa]_allVars => IInv'
<1> SUFFICES ASSUME IInv, [NextD2fa]_allVars PROVE IInv'
  OBVIOUS
<1>1. CASE UNCHANGED allVars
  BY <1>1, StutterKeepsIInv DEF allVars
<1>2. CASE D2FA
  <2>1. CASE StartD2FA
    BY <2>1, StartD2FAKeepsIInv
  <2>2. CASE BuildGraph
    BY <2>2, BuildGraphKeepsIInv
  <2>3. CASE \E e \in heap : JoinTrees(e) \/ DropEdge(e)
    <3>1. UNCHANGED vars
      BY <2>3 DEF JoinTrees, DropEdge
    <3> QED
      BY <3>1, StutterKeepsIInv
  <2>4. CASE EndPass
    BY <2>4, EndPassKeepsIInv
  <2>5. CASE StartTrees
    BY <2>5, StartTreesKeepsIInv
  <2>6. CASE \E root \in States : RootTree(root)
    BY <2>6, RootTreeKeepsIInv
  <2>7. CASE EndD2FA
    BY <2>7, EndD2FAKeepsIInv
  <2> QED
    BY <1>2, <2>1, <2>2, <2>3, <2>4, <2>5, <2>6, <2>7 DEF D2FA
<1>3. CASE Next
  <2>1. CASE StartCompression
    BY <2>1, StartCompressionKeepsIInv
  <2>2. CASE \E t \in States : FallTo(t)
    BY <2>2, FallToKeepsIInv
  <2>3. CASE OneInCommon
    BY <2>3, OneInCommonKeepsIInv
  <2>4. CASE NoCandidate
    BY <2>4, NoCandidateKeepsIInv
  <2>5. CASE EndCompression
    BY <2>5, EndCompressionKeepsIInv
  <2>6. CASE Put
    BY <2>6, PutKeepsIInv
  <2>7. CASE Get
    BY <2>7, GetKeepsIInv
  <2>8. CASE \E a \in Symbols : ReadSymbol(a)
    BY <2>8, ReadSymbolKeepsIInv
  <2>9. CASE FollowLabel
    BY <2>9, FollowLabelKeepsIInv
  <2>10. CASE FallBack
    BY <2>10, FallBackKeepsIInv
  <2> QED
    BY <1>3, <2>1, <2>2, <2>3, <2>4, <2>5, <2>6, <2>7, <2>8, <2>9, <2>10
       DEF Next, Compression, Use
<1> QED
  BY <1>1, <1>2, <1>3 DEF NextD2fa

(* The inductive invariant of both compressions holds in every behaviour. *)
THEOREM AlwaysIInv == SpecD2fa => []IInv
<1>1. InitD2fa => IInv
  BY InitIInv
<1>2. IInv /\ [NextD2fa]_allVars => IInv'
  BY Inductive
<1> QED
  BY <1>1, <1>2, PTL DEF SpecD2fa

(***************************************************************************)
(* Whichever of the two algorithms has chosen the default transitions, and *)
(* also when one ran after the other or the automaton was written and read *)
(* back: every traversal of the compressed automaton is where the          *)
(* traversal of the whole one would be, a default path never leaves the    *)
(* states, and a label leads to a state (lookup, traverse_compressed).     *)
(***************************************************************************)
THEOREM CompressionIsTransparent == SpecD2fa => []FollowsWholeDfa
<1>1. IInv => FollowsWholeDfa
  BY DEF IInv, FollowsWholeDfa, LookupOnTheWay
<1> QED
  BY <1>1, AlwaysIInv, PTL

(***************************************************************************)
(* fast_compression_algorithm keeps its promise on time: N symbols cost at *)
(* most N (k+1)/k traversals of states, whatever the automaton and k.      *)
(***************************************************************************)
THEOREM TraversalsArePaidFor == SpecD2fa => []AmortizedTraversals
<1>1. IInv => AmortizedTraversals
  <2>1. SUFFICES ASSUME IInv, algorithm = "fast_compression", c = NoSymbol
                 PROVE  k * accesses <= (k + 1) * inputs
    BY DEF AmortizedTraversals
  <2>2. k * accesses + depth[state] <= (k + 1) * inputs + 0
    BY <2>1 DEF IInv, DepthPays
  <2>3. /\ k \in Nat /\ accesses \in Nat /\ inputs \in Nat /\ depth[state] \in Nat
    BY <2>1, ParametersAssumption DEF IInv, TypeOK, Phases
  <2>4. k * accesses \in Nat /\ (k + 1) * inputs \in Nat
    BY <2>3
  <2> QED
    BY <2>2, <2>3, <2>4
<1> QED
  BY <1>1, AlwaysIInv, PTL

(***************************************************************************)
(* With k = 1 and a bound other than 0 no length is read from outside of   *)
(* dt_length, nothing crashes, and no default path is longer than the      *)
(* bound.                                                                  *)
(***************************************************************************)
THEOREM PathsAreBounded == SpecD2fa => []BoundOnPaths
<1>1. IInv => BoundOnPaths
  <2>1. SUFFICES ASSUME IInv, k = 1, bound # 0
                 PROVE  pc # "crashed" /\ BoundOnDefaultPaths
    BY DEF BoundOnPaths
  <2>2. pc # "crashed"
    BY <2>1 DEF IInv, Phases, PathsMeasured
  <2>3. ASSUME algorithm = "fast_compression", pc = "ready", bound > -1, NEW t \in States
        PROVE  PathWithin(t, bound)
    <3>1. PICK m \in 0 .. bound : PathBelow(default_tx, t, m, dfa.size)
      BY <2>1, <2>3 DEF IInv, PathsMeasured
    <3>2. PICK path \in [0 .. m -> 0 .. dfa.size - 1] : IsPath(default_tx, t, m, path)
      BY <3>1 DEF PathBelow
    <3>3. path \in [0 .. m -> States]
      BY DEF States, StatesOf
    <3> QED
      BY <3>2, <3>3 DEF PathWithin, IsPath
  <2> QED
    BY <2>2, <2>3 DEF BoundOnDefaultPaths
<1> QED
  BY <1>1, AlwaysIInv, PTL

(***************************************************************************)
(* What get rebuilds from a file is the automaton put has written: table,  *)
(* rules and dead state, for every automaton.                              *)
(***************************************************************************)
THEOREM ImportInvertsExport == SpecD2fa => []ImportRestoresExport
<1>1. IInv => ImportRestoresExport
  BY DEF IInv, ImportRestoresExport
<1> QED
  BY <1>1, AlwaysIInv, PTL
-----------------------------------------------------------------------------
(***************************************************************************)
(* Forests.  V is a set of states, E a set of edges between them.          *)
(***************************************************************************)
Adjacent(E, v, w) == v = w \/ <<v, w>> \in E \/ <<w, v>> \in E

(* From u to v in n steps, some of which may stay where they are.          *)
IsWalk(V, E, u, v, n) ==
  \E p \in [0 .. n -> V] :
    /\ p[0] = u /\ p[n] = v
    /\ \A i \in 1 .. n : Adjacent(E, p[i - 1], p[i])

Connected(V, E, u, v) == \E n \in Nat : IsWalk(V, E, u, v, n)

(* Staying is a walk, and so is a single edge.                             *)
LEMMA ShortWalks ==
  ASSUME NEW V, NEW E, NEW u \in V
  PROVE  /\ IsWalk(V, E, u, u, 0)
         /\ \A v \in V : Adjacent(E, u, v) => IsWalk(V, E, u, v, 1)
         /\ \A v : IsWalk(V, E, u, v, 0) => v = u
<1>1. IsWalk(V, E, u, u, 0)
  <2> DEFINE p == [i \in 0 .. 0 |-> u]
  <2>1. /\ p \in [0 .. 0 -> V] /\ p[0] = u
        /\ \A i \in 1 .. 0 : Adjacent(E, p[i - 1], p[i])
    OBVIOUS
  <2> QED
    BY <2>1 DEF IsWalk
<1>2. ASSUME NEW v \in V, Adjacent(E, u, v)
      PROVE  IsWalk(V, E, u, v, 1)
  <2> DEFINE p == [i \in 0 .. 1 |-> IF i = 0 THEN u ELSE v]
  <2>1. p \in [0 .. 1 -> V] /\ p[0] = u /\ p[1] = v
    OBVIOUS
  <2>2. \A i \in 1 .. 1 : Adjacent(E, p[i - 1], p[i])
    BY <1>2
  <2> QED
    BY <2>1, <2>2 DEF IsWalk
<1>3. \A v : IsWalk(V, E, u, v, 0) => v = u
  BY DEF IsWalk
<1> QED
  BY <1>1, <1>2, <1>3

(* Walks that meet are a walk.                                             *)
LEMMA WalksJoin ==
  ASSUME NEW V, NEW E, NEW u, NEW v, NEW w, NEW m \in Nat, NEW n \in Nat,
         IsWalk(V, E, u, v, m), IsWalk(V, E, v, w, n)
  PROVE  IsWalk(V, E, u, w, m + n)
<1>1. PICK p \in [0 .. m -> V] :
         p[0] = u /\ p[m] = v /\ \A i \in 1 .. m : Adjacent(E, p[i - 1], p[i])
  BY DEF IsWalk
<1>2. PICK q \in [0 .. n -> V] :
         q[0] = v /\ q[n] = w /\ \A i \in 1 .. n : Adjacent(E, q[i - 1], q[i])
  BY DEF IsWalk
<1> DEFINE r == [i \in 0 .. m + n |-> IF i <= m THEN p[i] ELSE q[i - m]]
<1>3. \A i \in 0 .. m + n : /\ i <= m => i \in 0 .. m
                            /\ ~ (i <= m) => i - m \in 0 .. n
  OBVIOUS
<1>4. r \in [0 .. m + n -> V] /\ r[0] = u
  BY <1>1, <1>2, <1>3
<1>5. r[m + n] = w
  <2>1. CASE n = 0
    BY <1>1, <1>2, <2>1
  <2>2. CASE n # 0
    <3>1. ~ (m + n <= m) /\ (m + n) - m = n /\ m + n \in 0 .. m + n
      BY <2>2
    <3> QED
      BY <1>2, <3>1
  <2> QED
    BY <2>1, <2>2
<1>6. ASSUME NEW i \in 1 .. m + n
      PROVE  Adjacent(E, r[i - 1], r[i])
  <2>0. i \in 0 .. m + n /\ i - 1 \in 0 .. m + n
    OBVIOUS
  <2>1. CASE i <= m
    <3>1. i \in 1 .. m /\ i - 1 <= m
      BY <2>1
    <3>2. r[i] = p[i] /\ r[i - 1] = p[i - 1]
      BY <2>0, <2>1, <3>1
    <3> QED
      BY <1>1, <3>1, <3>2
  <2>2. CASE ~ (i <= m)
    <3>1. i - m \in 1 .. n /\ r[i] = q[i - m]
      BY <2>0, <2>2
    <3>2. r[i - 1] = q[(i - m) - 1]
      <4>1. CASE i - 1 <= m
        <5>1. i - 1 = m /\ (i - m) - 1 = 0
          BY <2>2, <4>1
        <5> QED
          BY <1>1, <1>2, <2>0, <4>1, <5>1
      <4>2. CASE ~ (i - 1 <= m)
        <5>1. (i - 1) - m = (i - m) - 1
          OBVIOUS
        <5> QED
          BY <2>0, <4>2, <5>1
      <4> QED
        BY <4>1, <4>2
    <3> HIDE DEF r
    <3> QED
      BY <1>2, <3>1, <3>2
  <2> QED
    BY <2>1, <2>2
<1> HIDE DEF r
<1> QED
  BY <1>4, <1>5, <1>6 DEF IsWalk

(* A walk of more steps may wait.                                          *)
LEMMA WalksMayWait ==
  ASSUME NEW V, NEW E, NEW u, NEW v \in V, NEW m \in Nat, NEW n \in Nat, m <= n,
         IsWalk(V, E, u, v, m)
  PROVE  IsWalk(V, E, u, v, n)
<1>1. IsWalk(V, E, v, v, n - m)
  <2> DEFINE p == [i \in 0 .. n - m |-> v]
  <2>1. n - m \in Nat /\ 0 \in 0 .. n - m /\ n - m \in 0 .. n - m
        /\ \A i \in 1 .. n - m : i \in 0 .. n - m /\ i - 1 \in 0 .. n - m
    OBVIOUS
  <2>2. /\ p \in [0 .. n - m -> V] /\ p[0] = v /\ p[n - m] = v
    BY <2>1
  <2>3. \A i \in 1 .. n - m : Adjacent(E, p[i - 1], p[i])
    BY <2>1 DEF Adjacent
  <2> HIDE DEF p
  <2> QED
    BY <2>2, <2>3 DEF IsWalk
<1>2. n - m \in Nat /\ m + (n - m) = n
  OBVIOUS
<1> QED
  BY <1>1, <1>2, WalksJoin

(* A walk back.                                                            *)
LEMMA WalksTurn ==
  ASSUME NEW V, NEW E, NEW u, NEW v, NEW n \in Nat, IsWalk(V, E, u, v, n)
  PROVE  IsWalk(V, E, v, u, n)
<1>1. PICK p \in [0 .. n -> V] :
         p[0] = u /\ p[n] = v /\ \A i \in 1 .. n : Adjacent(E, p[i - 1], p[i])
  BY DEF IsWalk
<1> DEFINE q == [i \in 0 .. n |-> p[n - i]]
<1>2. /\ \A i \in 0 .. n : n - i \in 0 .. n
      /\ 0 \in 0 .. n /\ n \in 0 .. n /\ n - 0 = n /\ n - n = 0
  OBVIOUS
<1>3. q \in [0 .. n -> V] /\ q[0] = v /\ q[n] = u
  BY <1>1, <1>2
<1>4. ASSUME NEW i \in 1 .. n
      PROVE  Adjacent(E, q[i - 1], q[i])
  <2>1. /\ (n - i) + 1 \in 1 .. n /\ ((n - i) + 1) - 1 = n - i /\ n - (i - 1) = (n - i) + 1
        /\ i \in 0 .. n /\ i - 1 \in 0 .. n
    OBVIOUS
  <2>2. q[i - 1] = p[(n - i) + 1] /\ q[i] = p[n - i]
    BY <2>1
  <2>3. Adjacent(E, p[n - i], p[(n - i) + 1])
    BY <1>1, <2>1
  <2> HIDE DEF q
  <2> QED
    BY <2>2, <2>3 DEF Adjacent
<1> HIDE DEF q
<1> QED
  BY <1>3, <1>4 DEF IsWalk

(* The last step of a walk.                                                *)
LEMMA WalkEnds ==
  ASSUME NEW V, NEW E, NEW u, NEW v, NEW n \in Nat, IsWalk(V, E, u, v, n + 1)
  PROVE  v \in V /\ \E w \in V : IsWalk(V, E, u, w, n) /\ Adjacent(E, w, v)
<1>1. PICK p \in [0 .. n + 1 -> V] :
         p[0] = u /\ p[n + 1] = v /\ \A i \in 1 .. n + 1 : Adjacent(E, p[i - 1], p[i])
  BY DEF IsWalk
<1> DEFINE q == [i \in 0 .. n |-> p[i]]
<1>2. /\ \A i \in 0 .. n : i \in 0 .. n + 1
      /\ n + 1 \in 0 .. n + 1 /\ n + 1 \in 1 .. n + 1 /\ (n + 1) - 1 = n /\ n \in 0 .. n /\ 0 \in 0 .. n
      /\ \A i \in 1 .. n : i \in 0 .. n /\ i - 1 \in 0 .. n /\ i \in 1 .. n + 1
  OBVIOUS
<1>3. q \in [0 .. n -> V] /\ q[0] = u /\ q[n] = p[n]
  BY <1>1, <1>2
<1>4. \A i \in 1 .. n : Adjacent(E, q[i - 1], q[i])
  BY <1>1, <1>2
<1>5. IsWalk(V, E, u, p[n], n)
  <2> HIDE DEF q
  <2> QED
    BY <1>3, <1>4 DEF IsWalk
<1>6. p[n] \in V /\ v \in V /\ Adjacent(E, p[n], v)
  BY <1>1, <1>2
<1> QED
  BY <1>5, <1>6

(* A step more.                                                            *)
LEMMA WalkGoesOn ==
  ASSUME NEW V, NEW E, NEW u, NEW v \in V, NEW w \in V, NEW n \in Nat,
         IsWalk(V, E, u, v, n), Adjacent(E, v, w)
  PROVE  IsWalk(V, E, u, w, n + 1)
BY ShortWalks, WalksJoin

(* Connected states are states; being connected is an equivalence.         *)
LEMMA ConnectedIsEquivalence ==
  ASSUME NEW V, NEW E
  PROVE  /\ \A u \in V : Connected(V, E, u, u)
         /\ \A u, v : Connected(V, E, u, v) => u \in V /\ v \in V /\ Connected(V, E, v, u)
         /\ \A u, v, w : Connected(V, E, u, v) /\ Connected(V, E, v, w) => Connected(V, E, u, w)
         /\ \A u, v \in V : Adjacent(E, u, v) => Connected(V, E, u, v)
<1>1. \A u \in V : Connected(V, E, u, u)
  BY ShortWalks DEF Connected
<1>2. ASSUME NEW u, NEW v, Connected(V, E, u, v)
      PROVE  u \in V /\ v \in V /\ Connected(V, E, v, u)
  <2>1. PICK n \in Nat : IsWalk(V, E, u, v, n)
    BY <1>2 DEF Connected
  <2>2. IsWalk(V, E, v, u, n)
    BY <2>1, WalksTurn
  <2>3. 0 \in 0 .. n /\ n \in 0 .. n
    OBVIOUS
  <2>4. u \in V /\ v \in V
    BY <2>1, <2>3 DEF IsWalk
  <2> QED
    BY <2>2, <2>4 DEF Connected
<1>3. ASSUME NEW u, NEW v, NEW w, Connected(V, E, u, v), Connected(V, E, v, w)
      PROVE  Connected(V, E, u, w)
  <2>1. PICK m \in Nat, n \in Nat : IsWalk(V, E, u, v, m) /\ IsWalk(V, E, v, w, n)
    BY <1>3 DEF Connected
  <2>2. IsWalk(V, E, u, w, m + n) /\ m + n \in Nat
    BY <2>1, WalksJoin
  <2> QED
    BY <2>2 DEF Connected
<1>4. \A u, v \in V : Adjacent(E, u, v) => Connected(V, E, u, v)
  BY ShortWalks DEF Connected
<1> QED
  BY <1>1, <1>2, <1>3, <1>4

(* Fewer edges, fewer walks.                                               *)
LEMMA FewerEdges ==
  ASSUME NEW V, NEW E, NEW F,
         \A v, w \in V : Adjacent(F, v, w) => Adjacent(E, v, w)
  PROVE  /\ \A u, v, n : n \in Nat /\ IsWalk(V, F, u, v, n) => IsWalk(V, E, u, v, n)
         /\ \A u, v : Connected(V, F, u, v) => Connected(V, E, u, v)
<1>1. ASSUME NEW u, NEW v, NEW n \in Nat, IsWalk(V, F, u, v, n)
      PROVE  IsWalk(V, E, u, v, n)
  <2>1. PICK p \in [0 .. n -> V] :
           p[0] = u /\ p[n] = v /\ \A i \in 1 .. n : Adjacent(F, p[i - 1], p[i])
    BY <1>1 DEF IsWalk
  <2>2. \A i \in 1 .. n : i \in 0 .. n /\ i - 1 \in 0 .. n
    OBVIOUS
  <2> QED
    BY <2>1, <2>2 DEF IsWalk
<1> QED
  BY <1>1 DEF Connected

(* F is E and an edge between a and b.                                     *)
IsJoined(V, E, F, a, b) ==
  /\ a \in V /\ b \in V
  /\ \A v, w \in V : Adjacent(F, v, w) <=> \/ Adjacent(E, v, w)
                                           \/ v = a /\ w = b
                                           \/ v = b /\ w = a

(* A walk over an edge that joins two trees is no shorter within the tree  *)
(* where it began, and has the edge behind it in the other one.            *)
CrossesOnce(V, E, x, a, b, y, n) ==
  /\ Connected(V, E, x, y) => IsWalk(V, E, x, y, n)
  /\ ~ Connected(V, E, x, y) =>
       \E m, l \in Nat : /\ m + l + 1 = n
                         /\ IsWalk(V, E, x, a, m)
                         /\ IsWalk(V, E, b, y, l)

(* Every walk that begins in the tree of a does, by the length of the walk *)
(* (the last step stays, goes over the edge, or comes back).               *)
LEMMA WalksCross ==
  ASSUME NEW V, NEW E, NEW F, NEW a, NEW b, IsJoined(V, E, F, a, b),
         ~ Connected(V, E, a, b), NEW x, Connected(V, E, x, a)
  PROVE  \A n \in Nat : \A y : IsWalk(V, F, x, y, n) => CrossesOnce(V, E, x, a, b, y, n)
<1> DEFINE Off == {n \in Nat : \E y : IsWalk(V, F, x, y, n) /\ ~ CrossesOnce(V, E, x, a, b, y, n)}
<1>1. SUFFICES ASSUME Off # {} PROVE FALSE
  OBVIOUS
<1>2. PICK n \in Off : \A l \in Off : n <= l
  <2>1. Off \in SUBSET Nat
    OBVIOUS
  <2> HIDE DEF Off
  <2> QED
    BY <1>1, <2>1, LeastNumber
<1>3. PICK y : IsWalk(V, F, x, y, n) /\ ~ CrossesOnce(V, E, x, a, b, y, n)
  BY <1>2
<1>4. x \in V /\ a \in V /\ b \in V /\ n \in Nat /\ Connected(V, E, x, x) /\ ~ Connected(V, E, x, b)
  BY <1>2, ConnectedIsEquivalence DEF IsJoined
<1>5. n # 0
  <2>1. SUFFICES ASSUME n = 0 PROVE FALSE
    OBVIOUS
  <2>2. y = x
    BY <1>3, <1>4, <2>1, ShortWalks
  <2> QED
    BY <1>3, <1>4, <2>1, <2>2, ShortWalks DEF CrossesOnce
<1>6. n - 1 \in Nat /\ (n - 1) + 1 = n /\ ~ (n <= n - 1)
  BY <1>4, <1>5
<1>7. PICK w \in V : IsWalk(V, F, x, w, n - 1) /\ Adjacent(F, w, y) /\ y \in V
  BY <1>3, <1>6, WalkEnds
<1>8. CrossesOnce(V, E, x, a, b, w, n - 1)
  <2>1. n - 1 \notin Off
    <3> HIDE DEF Off
    <3> QED
      BY <1>2, <1>6
  <2> QED
    BY <1>6, <1>7, <2>1
<1>9. CASE Connected(V, E, x, w)
  <2>1. IsWalk(V, E, x, w, n - 1)
    BY <1>8, <1>9 DEF CrossesOnce
  <2>2. CASE Adjacent(E, w, y)
    <3>1. IsWalk(V, E, x, y, n)
      BY <1>6, <1>7, <2>1, <2>2, WalkGoesOn
    <3>2. Connected(V, E, x, y)
      BY <1>4, <3>1 DEF Connected
    <3> QED
      BY <1>3, <3>1, <3>2 DEF CrossesOnce
  <2>3. CASE ~ Adjacent(E, w, y)
    <3>1. w = a /\ y = b
      BY <1>4, <1>7, <1>9, <2>3 DEF IsJoined
    <3>2. IsWalk(V, E, b, y, 0) /\ (n - 1) + 0 + 1 = n
      BY <1>4, <3>1, ShortWalks
    <3>3. 0 \in Nat
      OBVIOUS
    <3> QED
      BY <1>3, <1>4, <1>6, <2>1, <3>1, <3>2, <3>3 DEF CrossesOnce
  <2> QED
    BY <2>2, <2>3
<1>10. CASE ~ Connected(V, E, x, w)
  <2>1. PICK m \in Nat, l \in Nat : m + l + 1 = n - 1 /\ IsWalk(V, E, x, a, m) /\ IsWalk(V, E, b, w, l)
    BY <1>8, <1>10 DEF CrossesOnce
  <2>2. CASE Adjacent(E, w, y)
    <3>1. IsWalk(V, E, b, y, l + 1)
      BY <1>7, <2>1, <2>2, WalkGoesOn
    <3>2. m + (l + 1) + 1 = n /\ l + 1 \in Nat
      BY <1>4, <2>1
    <3>3. ~ Connected(V, E, x, y)
      <4>1. Connected(V, E, w, y)
        BY <1>7, <2>2, ConnectedIsEquivalence
      <4> QED
        BY <1>10, <4>1, ConnectedIsEquivalence
    <3> QED
      BY <1>3, <2>1, <3>1, <3>2, <3>3 DEF CrossesOnce
  <2>3. CASE ~ Adjacent(E, w, y)
    <3>1. w # a
      BY <1>10
    <3>2. y = a
      BY <1>7, <2>3, <3>1 DEF IsJoined
    <3>3. IsWalk(V, E, x, y, n)
      <4>1. m <= n
        BY <1>4, <2>1
      <4> QED
        BY <1>4, <2>1, <3>2, <4>1, WalksMayWait
    <3> QED
      BY <1>3, <3>2, <3>3 DEF CrossesOnce
  <2> QED
    BY <2>2, <2>3
<1> QED
  BY <1>9, <1>10

(* Elsewhere nothing changes.                                              *)
LEMMA WalksElsewhere ==
  ASSUME NEW V, NEW E, NEW F, NEW a, NEW b, IsJoined(V, E, F, a, b),
         NEW x, ~ Connected(V, E, x, a), ~ Connected(V, E, x, b),
         NEW y, NEW n \in Nat, IsWalk(V, F, x, y, n)
  PROVE  IsWalk(V, E, x, y, n)
<1>1. PICK p \in [0 .. n -> V] :
         p[0] = x /\ p[n] = y /\ \A i \in 1 .. n : Adjacent(F, p[i - 1], p[i])
  BY DEF IsWalk
<1>0. x \in V
  <2>1. 0 \in 0 .. n
    OBVIOUS
  <2> QED
    BY <1>1, <2>1
<1> DEFINE Off == {i \in 0 .. n : ~ Connected(V, E, x, p[i])}
<1>2. Off = {}
  <2>1. SUFFICES ASSUME Off # {} PROVE FALSE
    OBVIOUS
  <2>2. PICK i \in Off : \A l \in Off : i <= l
    <3>1. Off \in SUBSET Nat
      OBVIOUS
    <3> HIDE DEF Off
    <3> QED
      BY <2>1, <3>1, LeastNumber
  <2>3. i \in 0 .. n /\ ~ Connected(V, E, x, p[i])
    BY <2>2
  <2>4. i # 0
    BY <1>0, <1>1, <2>3, ConnectedIsEquivalence
  <2>5. i \in 1 .. n /\ i - 1 \in 0 .. n /\ ~ (i <= i - 1)
    BY <2>3, <2>4
  <2>6. i - 1 \notin Off
    <3> HIDE DEF Off
    <3> QED
      BY <2>2, <2>5
  <2>7. Connected(V, E, x, p[i - 1])
    BY <2>5, <2>6
  <2>8. Adjacent(F, p[i - 1], p[i]) /\ p[i - 1] \in V /\ p[i] \in V
    BY <1>1, <2>3, <2>5
  <2>9. Adjacent(E, p[i - 1], p[i])
    BY <2>7, <2>8 DEF IsJoined
  <2>10. Connected(V, E, p[i - 1], p[i])
    BY <2>8, <2>9, ConnectedIsEquivalence
  <2> QED
    BY <2>3, <2>7, <2>10, ConnectedIsEquivalence
<1>3. ASSUME NEW i \in 1 .. n
      PROVE  Adjacent(E, p[i - 1], p[i])
  <2>1. i - 1 \in 0 .. n /\ i \in 0 .. n
    OBVIOUS
  <2>2. Connected(V, E, x, p[i - 1]) /\ p[i - 1] \in V /\ p[i] \in V
    BY <1>1, <1>2, <2>1
  <2>3. Adjacent(F, p[i - 1], p[i])
    BY <1>1
  <2> QED
    BY <2>2, <2>3 DEF IsJoined
<1> QED
  BY <1>1, <1>3 DEF IsWalk

(* Two trees that are joined are one, the others stay.                     *)
LEMMA JoinedTrees ==
  ASSUME NEW V, NEW E, NEW F, NEW a, NEW b, IsJoined(V, E, F, a, b),
         ~ Connected(V, E, a, b), NEW x
  PROVE  /\ Connected(V, E, x, a) =>
              \A y : Connected(V, F, x, y) <=> Connected(V, E, x, y) \/ Connected(V, E, b, y)
         /\ ~ Connected(V, E, x, a) /\ ~ Connected(V, E, x, b) =>
              \A y : Connected(V, F, x, y) <=> Connected(V, E, x, y)
<1>1. \A u, v : Connected(V, E, u, v) => Connected(V, F, u, v)
  <2>1. \A v, w \in V : Adjacent(E, v, w) => Adjacent(F, v, w)
    BY DEF IsJoined
  <2> QED
    BY <2>1, FewerEdges
<1>2. Connected(V, F, a, b)
  <2>1. Adjacent(F, a, b) /\ a \in V /\ b \in V
    BY DEF IsJoined
  <2> QED
    BY <2>1, ConnectedIsEquivalence
<1>3. ASSUME Connected(V, E, x, a), NEW y
      PROVE  Connected(V, F, x, y) <=> Connected(V, E, x, y) \/ Connected(V, E, b, y)
  <2>1. ASSUME Connected(V, F, x, y)
        PROVE  Connected(V, E, x, y) \/ Connected(V, E, b, y)
    <3>1. PICK n \in Nat : IsWalk(V, F, x, y, n)
      BY <2>1 DEF Connected
    <3>2. CrossesOnce(V, E, x, a, b, y, n)
      BY <1>3, <3>1, WalksCross
    <3> QED
      BY <3>2 DEF CrossesOnce, Connected
  <2>2. ASSUME Connected(V, E, b, y)
        PROVE  Connected(V, F, x, y)
    <3>1. Connected(V, F, x, a) /\ Connected(V, F, b, y)
      BY <1>1, <1>3, <2>2
    <3> QED
      BY <1>2, <3>1, ConnectedIsEquivalence
  <2> QED
    BY <1>1, <2>1, <2>2
<1>4. ASSUME ~ Connected(V, E, x, a), ~ Connected(V, E, x, b), NEW y, Connected(V, F, x, y)
      PROVE  Connected(V, E, x, y)
  <2>1. PICK n \in Nat : IsWalk(V, F, x, y, n)
    BY <1>4 DEF Connected
  <2> QED
    BY <1>4, <2>1, WalksElsewhere DEF Connected
<1> QED
  BY <1>1, <1>3, <1>4

(* Without any of its edges, the ends of the edge are not connected: there *)
(* is no cycle.                                                            *)
IsForest(V, E) ==
  /\ E \subseteq V \X V
  /\ \A e \in E : ~ Connected(V, E \ {e}, e[1], e[2])

(* What is left when an edge is taken out, and the edge, make up the whole. *)
LEMMA EdgeTakenOut ==
  ASSUME NEW V, NEW E \in SUBSET (V \X V), NEW e \in E
  PROVE  /\ e = <<e[1], e[2]>> /\ e[1] \in V /\ e[2] \in V
         /\ IsJoined(V, E \ {e}, E, e[1], e[2])
         /\ IsJoined(V, E \ {e}, E, e[2], e[1])
<1>1. e \in V \X V
  OBVIOUS
<1>2. PICK p \in V, q \in V : e = <<p, q>>
  BY <1>1
<1>3. e = <<e[1], e[2]>> /\ e[1] \in V /\ e[2] \in V
  BY <1>2
<1>4. ASSUME NEW v \in V, NEW w \in V
      PROVE  Adjacent(E, v, w) <=> \/ Adjacent(E \ {e}, v, w)
                                   \/ v = e[1] /\ w = e[2]
                                   \/ v = e[2] /\ w = e[1]
  <2>1. <<v, w>> = e <=> v = e[1] /\ w = e[2]
    BY <1>2
  <2>2. <<w, v>> = e <=> v = e[2] /\ w = e[1]
    BY <1>2
  <2>3. /\ <<v, w>> \in E <=> <<v, w>> \in E \ {e} \/ <<v, w>> = e
        /\ <<w, v>> \in E <=> <<w, v>> \in E \ {e} \/ <<w, v>> = e
    OBVIOUS
  <2> QED
    BY <2>1, <2>2, <2>3 DEF Adjacent
<1> QED
  BY <1>3, <1>4 DEF IsJoined

(* The walks from an end of an edge to its own side do not need the edge.  *)
LEMMA EdgeIsNotNeeded ==
  ASSUME NEW V, NEW E, IsForest(V, E), NEW e \in E, NEW u \in {e[1], e[2]}, NEW x,
         Connected(V, E \ {e}, u, x), NEW n \in Nat, IsWalk(V, E, u, x, n)
  PROVE  IsWalk(V, E \ {e}, u, x, n)
<1> DEFINE w == IF u = e[1] THEN e[2] ELSE e[1]
<1>1. E \in SUBSET (V \X V)
  BY DEF IsForest
<1>2. IsJoined(V, E \ {e}, E, u, w)
  <2>1. /\ IsJoined(V, E \ {e}, E, e[1], e[2])
        /\ IsJoined(V, E \ {e}, E, e[2], e[1])
    BY <1>1, EdgeTakenOut
  <2>2. CASE u = e[1]
    BY <2>1, <2>2
  <2>3. CASE u # e[1]
    <3>1. u = e[2] /\ w = e[1]
      BY <2>3
    <3> QED
      BY <2>1, <3>1
  <2> QED
    BY <2>2, <2>3
<1>3. u \in V /\ w \in V
  BY <1>1, EdgeTakenOut
<1>4. ~ Connected(V, E \ {e}, u, w) /\ Connected(V, E \ {e}, u, u)
  BY <1>3, ConnectedIsEquivalence DEF IsForest
<1> HIDE DEF w
<1>5. CrossesOnce(V, E \ {e}, u, u, w, x, n)
  BY <1>2, <1>4, WalksCross
<1> QED
  BY <1>5 DEF CrossesOnce

(* An edge between two trees of a forest leaves a forest.                  *)
LEMMA ForestStays ==
  ASSUME NEW V, NEW E, IsForest(V, E), NEW a \in V, NEW b \in V, ~ Connected(V, E, a, b)
  PROVE  /\ IsJoined(V, E, E \cup {<<a, b>>}, a, b)
         /\ IsJoined(V, E, E \cup {<<a, b>>}, b, a)
         /\ IsForest(V, E \cup {<<a, b>>})
         /\ <<a, b>> \notin E
<1> DEFINE new == <<a, b>>
           F == E \cup {new}
<1>0. E \in SUBSET (V \X V) /\ F \in SUBSET (V \X V) /\ new \in F
  BY DEF IsForest
<1>1. new \notin E
  <2>1. ASSUME new \in E PROVE FALSE
    <3>1. Adjacent(E, a, b)
      BY <2>1 DEF Adjacent
    <3> QED
      BY <3>1, ConnectedIsEquivalence
  <2> QED
    BY <2>1
<1>2. F \ {new} = E
  BY <1>1
<1>3. IsJoined(V, E, F, a, b) /\ IsJoined(V, E, F, b, a)
  <2>1. new[1] = a /\ new[2] = b
    OBVIOUS
  <2> HIDE DEF F, new
  <2> QED
    BY <1>0, <1>2, <2>1, EdgeTakenOut
<1>4. ASSUME NEW e \in F, Connected(V, F \ {e}, e[1], e[2])
      PROVE  FALSE
  <2>1. CASE e = new
    <3>1. F \ {e} = E /\ e[1] = a /\ e[2] = b
      BY <1>2, <2>1
    <3> HIDE DEF F
    <3> QED
      BY <1>4, <3>1
  <2>2. CASE e # new
    <3> DEFINE D == E \ {e}
               p == e[1]
               q == e[2]
    <3>1. e \in E /\ F \ {e} = D \cup {new}
      BY <1>1, <2>2
    <3>2. p \in V /\ q \in V /\ e = <<p, q>> /\ ~ Connected(V, D, p, q)
      <4>1. p \in V /\ q \in V /\ e = <<p, q>>
        BY <1>0, <3>1, EdgeTakenOut
      <4> QED
        BY <3>1, <4>1 DEF IsForest
    <3>3. \A u, v : Connected(V, D, u, v) => Connected(V, E, u, v)
      <4>1. \A v, w \in V : Adjacent(D, v, w) => Adjacent(E, v, w)
        BY DEF Adjacent
      <4> HIDE DEF D
      <4> QED
        BY <4>1, FewerEdges
    <3>4. ~ Connected(V, D, a, b) /\ ~ Connected(V, D, b, a)
      <4> HIDE DEF D
      <4> QED
        BY <3>3, ConnectedIsEquivalence
    <3>5. IsJoined(V, D, D \cup {new}, a, b) /\ IsJoined(V, D, D \cup {new}, b, a)
      <4> DEFINE K == D \cup {new}
      <4>1. new \notin D /\ K \ {new} = D /\ K \in SUBSET (V \X V) /\ new \in K
        BY <1>0, <1>1
      <4>2. new[1] = a /\ new[2] = b
        OBVIOUS
      <4> HIDE DEF D, new, K
      <4>3. IsJoined(V, D, K, a, b) /\ IsJoined(V, D, K, b, a)
        BY <4>1, <4>2, EdgeTakenOut
      <4> QED
        BY <4>3 DEF K
    <3>6. Connected(V, D \cup {new}, p, q)
      BY <1>4, <3>1
    <3>7. Connected(V, E, p, q) /\ Connected(V, E, q, p)
      <4>1. Adjacent(E, p, q)
        BY <3>1, <3>2 DEF Adjacent
      <4> HIDE DEF p, q
      <4> QED
        BY <3>2, <4>1, ConnectedIsEquivalence
    <3> HIDE DEF D, p, q, new, F
    <3>8. CASE Connected(V, D, p, a)
      <4>1. Connected(V, D, b, q)
        BY <3>2, <3>4, <3>5, <3>6, <3>8, JoinedTrees
      <4>2. Connected(V, E, p, a) /\ Connected(V, E, b, q)
        BY <3>3, <3>8, <4>1
      <4>3. Connected(V, E, a, p) /\ Connected(V, E, q, b)
        BY <4>2, ConnectedIsEquivalence
      <4>4. Connected(V, E, a, q)
        BY <3>7, <4>3, ConnectedIsEquivalence
      <4> QED
        BY <4>3, <4>4, ConnectedIsEquivalence
    <3>9. CASE Connected(V, D, p, b)
      <4>1. Connected(V, D, a, q)
        BY <3>2, <3>4, <3>5, <3>6, <3>9, JoinedTrees
      <4>2. Connected(V, E, p, b) /\ Connected(V, E, a, q)
        BY <3>3, <3>9, <4>1
      <4>3. Connected(V, E, a, p)
        BY <3>7, <4>2, ConnectedIsEquivalence
      <4> QED
        BY <4>2, <4>3, ConnectedIsEquivalence
    <3>10. CASE ~ Connected(V, D, p, a) /\ ~ Connected(V, D, p, b)
      BY <3>2, <3>4, <3>5, <3>6, <3>10, JoinedTrees
    <3> QED
      BY <3>8, <3>9, <3>10
  <2> QED
    BY <2>1, <2>2
<1>5. IsForest(V, F)
  BY <1>0, <1>4 DEF IsForest
<1> QED
  BY <1>1, <1>3, <1>5

(* Connected states are as many steps apart as there are states, at most.  *)
LEMMA WalksAreShort ==
  ASSUME NEW V, IsFiniteSet(V), NEW E, NEW u, NEW v, Connected(V, E, u, v)
  PROVE  IsWalk(V, E, u, v, Cardinality(V))
<1> DEFINE In(n) == {w \in V : IsWalk(V, E, u, w, n)}
           N == Cardinality(V)
<1>0. N \in Nat /\ u \in V /\ v \in V
  BY FS_CardinalityType, ConnectedIsEquivalence
<1>1. \A n \in Nat : /\ IsFiniteSet(In(n)) /\ Cardinality(In(n)) \in Nat
                     /\ Cardinality(In(n)) <= N
                     /\ In(n) \subseteq In(n + 1)
                     /\ In(n) \subseteq V
  <2> TAKE n \in Nat
  <2>1. In(n) \in SUBSET V
    OBVIOUS
  <2>2. IsFiniteSet(In(n)) /\ Cardinality(In(n)) \in Nat /\ Cardinality(In(n)) <= N
    <3> HIDE DEF In
    <3> QED
      BY <2>1, FS_Subset, FS_CardinalityType
  <2>3. In(n) \subseteq In(n + 1)
    BY WalksMayWait
  <2> QED
    BY <2>1, <2>2, <2>3
<1>2. PICK h \in 0 .. N : In(h + 1) = In(h)
  <2>1. SUFFICES ASSUME \A h \in 0 .. N : In(h + 1) # In(h) PROVE FALSE
    OBVIOUS
  <2> HIDE DEF In
  <2> DEFINE Off == {n \in 0 .. N + 1 : Cardinality(In(n)) < n}
  <2>2. N + 1 \in Off
    BY <1>0, <1>1
  <2>3. PICK n \in Off : \A l \in Off : n <= l
    <3>1. Off \in SUBSET Nat /\ Off # {}
      BY <1>0, <2>2
    <3> HIDE DEF Off
    <3> QED
      BY <3>1, LeastNumber
  <2>4. n # 0 /\ n \in 0 .. N + 1 /\ Cardinality(In(n)) < n
    BY <1>0, <1>1, <2>3
  <2>5. n - 1 \in 0 .. N /\ n - 1 \in Nat /\ n \in Nat /\ (n - 1) + 1 = n /\ ~ (n <= n - 1)
    BY <1>0, <2>4
  <2>6. n - 1 \notin Off
    <3> HIDE DEF Off
    <3> QED
      BY <2>3, <2>5
  <2>7. n - 1 <= Cardinality(In(n - 1))
    <3>1. n - 1 \in 0 .. N + 1 /\ Cardinality(In(n - 1)) \in Nat
      BY <1>0, <1>1, <2>5
    <3>2. ~ (Cardinality(In(n - 1)) < n - 1)
      BY <2>6, <3>1
    <3> QED
      BY <2>5, <3>1, <3>2
  <2>8. In(n - 1) \subseteq In(n) /\ In(n) # In(n - 1)
    BY <1>1, <2>1, <2>5
  <2>9. Cardinality(In(n - 1)) < Cardinality(In(n))
    <3>1. /\ Cardinality(In(n - 1)) <= Cardinality(In(n))
          /\ Cardinality(In(n - 1)) # Cardinality(In(n))
      BY <1>1, <2>5, <2>8, FS_Subset
    <3> QED
      BY <1>1, <2>5, <3>1
  <2> QED
    BY <1>1, <2>4, <2>5, <2>7, <2>9
<1>3. ASSUME NEW n \in Nat
      PROVE  In(n) \subseteq In(h)
  <2> DEFINE Off == {l \in Nat : ~ (In(l) \subseteq In(h))}
  <2>1. SUFFICES ASSUME Off # {} PROVE FALSE
    OBVIOUS
  <2>2. PICK l \in Off : \A i \in Off : l <= i
    <3>1. Off \in SUBSET Nat
      OBVIOUS
    <3> HIDE DEF Off
    <3> QED
      BY <2>1, <3>1, LeastNumber
  <2>3. l \in Nat /\ ~ (In(l) \subseteq In(h))
    BY <2>2
  <2>4. l > h
    <3>1. SUFFICES ASSUME l <= h PROVE In(l) \subseteq In(h)
      BY <2>3
    <3> QED
      BY <2>3, <3>1, WalksMayWait
  <2>5. l - 1 \in Nat /\ (l - 1) + 1 = l /\ ~ (l <= l - 1)
    BY <2>3, <2>4
  <2>6. In(l - 1) \subseteq In(h)
    <3>1. l - 1 \notin Off
      <4> HIDE DEF Off
      <4> QED
        BY <2>2, <2>5
    <3> QED
      BY <2>5, <3>1
  <2>7. ASSUME NEW x \in In(l)
        PROVE  x \in In(h)
    <3>1. PICK w \in V : IsWalk(V, E, u, w, l - 1) /\ Adjacent(E, w, x)
      BY <2>5, <2>7, WalkEnds
    <3>2. IsWalk(V, E, u, w, h)
      BY <2>6, <3>1
    <3>3. IsWalk(V, E, u, x, h + 1)
      BY <3>1, <3>2, WalkGoesOn
    <3> QED
      BY <1>2, <3>3
  <2> QED
    BY <2>3, <2>7
<1>4. PICK n \in Nat : IsWalk(V, E, u, v, n)
  BY DEF Connected
<1>5. IsWalk(V, E, u, v, h) /\ h \in Nat /\ h <= N
  BY <1>0, <1>3, <1>4
<1> QED
  BY <1>0, <1>5, WalksMayWait

-----------------------------------------------------------------------------
(* From t there is a state that no walk of less than n steps leads to.     *)
FarFrom(V, E, t, n) ==
  \E y \in V : /\ Connected(V, E, t, y)
               /\ \A m \in Nat : IsWalk(V, E, t, y, m) => n <= m

(* What is far stays far when two trees are joined.                        *)
LEMMA FarStaysFar ==
  ASSUME NEW V, NEW E, NEW F, NEW a, NEW b, IsJoined(V, E, F, a, b), IsJoined(V, E, F, b, a),
         ~ Connected(V, E, a, b), NEW x \in V, NEW n \in Nat, FarFrom(V, E, x, n)
  PROVE  FarFrom(V, F, x, n)
<1>1. PICK y \in V : /\ Connected(V, E, x, y)
                     /\ \A m \in Nat : IsWalk(V, E, x, y, m) => n <= m
  BY DEF FarFrom
<1>2. Connected(V, F, x, y)
  <2>1. \A v, w \in V : Adjacent(E, v, w) => Adjacent(F, v, w)
    BY DEF IsJoined
  <2> QED
    BY <1>1, <2>1, FewerEdges
<1>3. ~ Connected(V, E, b, a)
  BY ConnectedIsEquivalence
<1>4. ASSUME NEW m \in Nat, IsWalk(V, F, x, y, m)
      PROVE  IsWalk(V, E, x, y, m)
  <2>1. CASE Connected(V, E, x, a)
    <3>1. CrossesOnce(V, E, x, a, b, y, m)
      BY <1>4, <2>1, WalksCross
    <3> QED
      BY <1>1, <3>1 DEF CrossesOnce
  <2>2. CASE Connected(V, E, x, b)
    <3>1. CrossesOnce(V, E, x, b, a, y, m)
      BY <1>3, <1>4, <2>2, WalksCross
    <3> QED
      BY <1>1, <3>1 DEF CrossesOnce
  <2>3. CASE ~ Connected(V, E, x, a) /\ ~ Connected(V, E, x, b)
    BY <1>4, <2>3, WalksElsewhere
  <2> QED
    BY <2>1, <2>2, <2>3
<1> QED
  BY <1>1, <1>2, <1>4 DEF FarFrom

(* From x the far end of b's tree is farther by the new edge and the way   *)
(* to it.                                                                  *)
LEMMA FarOverTheEdge ==
  ASSUME NEW V, NEW E, NEW F, NEW a, NEW b, IsJoined(V, E, F, a, b),
         ~ Connected(V, E, a, b), NEW x, Connected(V, E, a, x),
         NEW away \in Nat, \A m \in Nat : IsWalk(V, E, a, x, m) => away <= m,
         NEW n \in Nat, FarFrom(V, E, b, n)
  PROVE  FarFrom(V, F, x, n + 1 + away)
<1>1. PICK y \in V : /\ Connected(V, E, b, y)
                     /\ \A m \in Nat : IsWalk(V, E, b, y, m) => n <= m
  BY DEF FarFrom
<1>2. Connected(V, E, x, a) /\ x \in V
  BY ConnectedIsEquivalence
<1>3. ~ Connected(V, E, x, y)
  <2>1. ASSUME Connected(V, E, x, y) PROVE FALSE
    <3>1. Connected(V, E, a, y) /\ Connected(V, E, y, b)
      BY <1>1, <2>1, ConnectedIsEquivalence
    <3> QED
      BY <3>1, ConnectedIsEquivalence
  <2> QED
    BY <2>1
<1>4. Connected(V, F, x, y)
  BY <1>1, <1>2, JoinedTrees
<1>5. ASSUME NEW m \in Nat, IsWalk(V, F, x, y, m)
      PROVE  n + 1 + away <= m
  <2>1. CrossesOnce(V, E, x, a, b, y, m)
    BY <1>2, <1>5, WalksCross
  <2>2. PICK i \in Nat, j \in Nat : i + j + 1 = m /\ IsWalk(V, E, x, a, i) /\ IsWalk(V, E, b, y, j)
    BY <1>3, <2>1 DEF CrossesOnce
  <2>3. IsWalk(V, E, a, x, i)
    BY <2>2, WalksTurn
  <2>4. away <= i /\ n <= j
    BY <1>1, <2>2, <2>3
  <2> QED
    BY <2>2, <2>4
<1> QED
  BY <1>1, <1>4, <1>5 DEF FarFrom

(* near[x] is at most the number of edges between a and x.                 *)
IsNear(V, E, a, near) ==
  \A x \in DOMAIN near : /\ Connected(V, E, a, x)
                         /\ near[x] \in Nat
                         /\ \A m \in Nat : IsWalk(V, E, a, x, m) => near[x] <= m

(* update_distance on either side of a new edge leaves no distance longer  *)
(* than the longest path.                                                  *)
LEMMA DistancesStayShort ==
  ASSUME NEW V, NEW E, NEW F, NEW a, NEW b, IsJoined(V, E, F, a, b), IsJoined(V, E, F, b, a),
         ~ Connected(V, E, a, b), NEW d \in [V -> Nat], \A x \in V : FarFrom(V, E, x, d[x]),
         NEW near, IsNear(V, E, a, near), NEW nearb, IsNear(V, E, b, nearb),
         NEW d1, d1 = [x \in V |-> IF x \in DOMAIN near
                                     THEN DistanceOver(d[x], d[b], near[x]) ELSE d[x]],
         NEW d2, d2 = [x \in V |-> IF x \in DOMAIN nearb
                                     THEN DistanceOver(d1[x], d[a], nearb[x]) ELSE d1[x]]
  PROVE  d2 \in [V -> Nat] /\ \A x \in V : FarFrom(V, F, x, d2[x])
<1>0. a \in V /\ b \in V /\ d[a] \in Nat /\ d[b] \in Nat
  BY DEF IsJoined
<1>1. ~ Connected(V, E, b, a)
  BY ConnectedIsEquivalence
<1>2. ASSUME NEW x \in V
      PROVE  d1[x] \in Nat /\ FarFrom(V, F, x, d1[x])
  <2>1. d[x] \in Nat /\ FarFrom(V, F, x, d[x])
    BY FarStaysFar
  <2>2. CASE x \in DOMAIN near
    <3>1. near[x] \in Nat /\ FarFrom(V, F, x, d[b] + 1 + near[x])
      BY <1>0, <2>2, FarOverTheEdge DEF IsNear
    <3>2. d1[x] = d[b] + 1 + near[x] \/ d1[x] = d[x]
      BY <2>2 DEF DistanceOver
    <3>3. d[b] + 1 + near[x] \in Nat
      BY <1>0, <3>1
    <3> QED
      BY <2>1, <3>1, <3>2, <3>3
  <2>3. CASE x \notin DOMAIN near
    BY <2>1, <2>3
  <2> QED
    BY <2>2, <2>3
<1>3. ASSUME NEW x \in V
      PROVE  d2[x] \in Nat /\ FarFrom(V, F, x, d2[x])
  <2>1. d1[x] \in Nat /\ FarFrom(V, F, x, d1[x])
    BY <1>2
  <2>2. CASE x \in DOMAIN nearb
    <3>1. nearb[x] \in Nat /\ FarFrom(V, F, x, d[a] + 1 + nearb[x])
      BY <1>0, <1>1, <2>2, FarOverTheEdge DEF IsNear
    <3>2. d2[x] = d[a] + 1 + nearb[x] \/ d2[x] = d1[x]
      BY <2>2 DEF DistanceOver
    <3>3. d[a] + 1 + nearb[x] \in Nat
      BY <1>0, <3>1
    <3> QED
      BY <2>1, <3>1, <3>2, <3>3
  <2>3. CASE x \notin DOMAIN nearb
    BY <2>1, <2>3
  <2> QED
    BY <2>2, <2>3
<1> QED
  BY <1>3

(* The sets of a partition are the trees of a forest.                      *)
AreTrees(V, E, p) ==
  /\ p \in [V -> SUBSET V]
  /\ \A t \in V : p[t] = {v \in V : Connected(V, E, t, v)}

SetsOf(V, p) == {p[t] : t \in V}

(* The partition after two of its sets are joined.                         *)
LEMMA PartitionStays ==
  ASSUME NEW V, IsFiniteSet(V), NEW E, NEW F, NEW a, NEW b,
         IsJoined(V, E, F, a, b), IsJoined(V, E, F, b, a), ~ Connected(V, E, a, b),
         NEW p, AreTrees(V, E, p),
         NEW q, q = [t \in V |-> IF t \in p[a] \cup p[b] THEN p[a] \cup p[b] ELSE p[t]]
  PROVE  /\ AreTrees(V, F, q)
         /\ Cardinality(SetsOf(V, p)) \in Nat
         /\ Cardinality(SetsOf(V, q)) = Cardinality(SetsOf(V, p)) - 1
<1> USE DEF AreTrees, SetsOf
<1>0. a \in V /\ b \in V /\ ~ Connected(V, E, b, a)
  BY ConnectedIsEquivalence DEF IsJoined
<1>1. q \in [V -> SUBSET V]
  BY <1>0
<1>2. ASSUME NEW t \in V
      PROVE  q[t] = {v \in V : Connected(V, F, t, v)}
  <2>1. \A v \in V : Connected(V, E, v, t) <=> Connected(V, E, t, v)
    BY ConnectedIsEquivalence
  <2>2. CASE Connected(V, E, t, a)
    <3>1. q[t] = p[a] \cup p[b]
      BY <1>0, <2>1, <2>2
    <3>2. \A v \in V : Connected(V, E, t, v) <=> Connected(V, E, a, v)
      BY <2>1, <2>2, <1>0, ConnectedIsEquivalence
    <3>3. \A v \in V : Connected(V, F, t, v) <=> Connected(V, E, t, v) \/ Connected(V, E, b, v)
      BY <2>2, JoinedTrees
    <3> QED
      BY <1>0, <3>1, <3>2, <3>3
  <2>3. CASE Connected(V, E, t, b)
    <3>1. q[t] = p[a] \cup p[b]
      BY <1>0, <2>1, <2>3
    <3>2. \A v \in V : Connected(V, E, t, v) <=> Connected(V, E, b, v)
      BY <2>1, <2>3, <1>0, ConnectedIsEquivalence
    <3>3. \A v \in V : Connected(V, F, t, v) <=> Connected(V, E, t, v) \/ Connected(V, E, a, v)
      BY <1>0, <2>3, JoinedTrees
    <3> QED
      BY <1>0, <3>1, <3>2, <3>3
  <2>4. CASE ~ Connected(V, E, t, a) /\ ~ Connected(V, E, t, b)
    <3>1. q[t] = p[t]
      BY <1>0, <2>1, <2>4
    <3>2. \A v \in V : Connected(V, F, t, v) <=> Connected(V, E, t, v)
      BY <2>4, JoinedTrees
    <3> QED
      BY <3>1, <3>2
  <2> QED
    BY <2>2, <2>3, <2>4
<1>3. /\ a \in p[a] /\ b \in p[b] /\ b \notin p[a] /\ a \notin p[b]
      /\ \A t \in V : a \in p[t] => t \in p[a] /\ p[t] = p[a]
      /\ \A t \in V : b \in p[t] => t \in p[b] /\ p[t] = p[b]
  <2>1. a \in p[a] /\ b \in p[b] /\ b \notin p[a] /\ a \notin p[b]
    BY <1>0, ConnectedIsEquivalence
  <2>2. ASSUME NEW t \in V, NEW z \in V, z \in p[t]
        PROVE  t \in p[z] /\ p[t] = p[z]
    <3>1. Connected(V, E, t, z) /\ Connected(V, E, z, t)
      BY <2>2, ConnectedIsEquivalence
    <3>2. \A v \in V : Connected(V, E, t, v) <=> Connected(V, E, z, v)
      BY <3>1, ConnectedIsEquivalence
    <3> QED
      BY <3>1, <3>2
  <2> QED
    BY <1>0, <2>1, <2>2
<1> DEFINE K == {p[t] : t \in V}
           L1 == K \ {p[a]}
           L2 == L1 \ {p[b]}
           both == p[a] \cup p[b]
           K1 == {q[t] : t \in V}
<1>4. IsFiniteSet(K) /\ Cardinality(K) \in Nat
  <2>1. K \in SUBSET (SUBSET V)
    OBVIOUS
  <2> HIDE DEF K
  <2> QED
    BY <2>1, FS_SUBSET, FS_Subset, FS_CardinalityType
<1>5. p[a] \in K /\ p[b] \in L1 /\ both \notin L2
  <2>1. p[a] \in K /\ p[b] \in K /\ p[b] # p[a]
    BY <1>0, <1>3
  <2>2. both \notin K
    <3>1. ASSUME NEW t \in V, p[t] = both PROVE FALSE
      BY <1>3, <3>1
    <3> QED
      BY <3>1
  <2> QED
    BY <2>1, <2>2
<1>6. K1 = L2 \cup {both}
  <2>1. ASSUME NEW t \in V
        PROVE  q[t] \in L2 \cup {both}
    <3>1. CASE t \in both
      BY <3>1
    <3>2. CASE t \notin both
      <4>1. q[t] = p[t] /\ t \in p[t]
        BY <1>2, <3>2, ConnectedIsEquivalence
      <4> QED
        BY <3>2, <4>1
    <3> QED
      BY <3>1, <3>2
  <2>2. ASSUME NEW t \in V, p[t] # p[a], p[t] # p[b]
        PROVE  p[t] \in K1
    <3>1. t \notin both
      <4>1. ASSUME NEW z \in {a, b}, t \in p[z] PROVE p[t] = p[z]
        <5>1. z \in V /\ Connected(V, E, z, t)
          BY <1>0, <4>1
        <5>2. Connected(V, E, t, z)
          BY <5>1, ConnectedIsEquivalence
        <5>3. z \in p[t]
          BY <5>1, <5>2
        <5> QED
          BY <1>3, <5>3
      <4> QED
        BY <2>2, <4>1
    <3> QED
      BY <3>1
  <2>3. both \in K1
    <3>1. q[a] = both
      BY <1>0, <1>3
    <3> QED
      BY <1>0, <3>1
  <2>4. K1 \subseteq L2 \cup {both}
    <3> HIDE DEF L2, both
    <3> QED
      BY <2>1
  <2>5. L2 \subseteq K1
    <3> HIDE DEF K1
    <3> QED
      BY <2>2
  <2> HIDE DEF L2, both, K1
  <2> QED
    BY <2>3, <2>4, <2>5
<1> HIDE DEF K, L1, L2, both, K1
<1>7. IsFiniteSet(L1) /\ Cardinality(L1) = Cardinality(K) - 1
  BY <1>4, <1>5, FS_RemoveElement DEF L1
<1>8. IsFiniteSet(L2) /\ Cardinality(L2) = Cardinality(L1) - 1
  BY <1>5, <1>7, FS_RemoveElement DEF L2
<1>9. Cardinality(K1) = Cardinality(L2) + 1
  BY <1>5, <1>6, <1>8, FS_AddElement
<1>10. Cardinality(K1) = Cardinality(K) - 1
  BY <1>4, <1>7, <1>8, <1>9
<1> QED
  BY <1>1, <1>2, <1>4, <1>10 DEF K, K1

-----------------------------------------------------------------------------
(* The balls of DistancesFrom hold what walks of that length lead to.      *)
LEMMA BallsAreWalks ==
  ASSUME dfa.size \in Nat, NEW edges, NEW u \in States, NEW ball, IsBall(edges, u, ball)
  PROVE  \A n \in 0 .. dfa.size : ball[n] = {v \in States : IsWalk(States, edges, u, v, n)}
<1> DEFINE In(n) == {v \in States : IsWalk(States, edges, u, v, n)}
           Off == {n \in 0 .. dfa.size : ball[n] # In(n)}
<1>1. SUFFICES ASSUME Off # {} PROVE FALSE
  OBVIOUS
<1>2. PICK n \in Off : \A l \in Off : n <= l
  <2>1. Off \in SUBSET Nat
    OBVIOUS
  <2> HIDE DEF Off
  <2> QED
    BY <1>1, <2>1, LeastNumber
<1>3. n \in 0 .. dfa.size /\ ball[n] # In(n)
  BY <1>2
<1>4. n # 0
  <2>1. ball[0] = In(0)
    BY ShortWalks DEF IsBall
  <2> HIDE DEF In
  <2> QED
    BY <1>3, <2>1
<1>5. n \in 1 .. dfa.size /\ n - 1 \in 0 .. dfa.size /\ n - 1 \in Nat /\ (n - 1) + 1 = n /\ ~ (n <= n - 1)
  BY <1>3, <1>4
<1>6. ball[n - 1] = In(n - 1)
  <2>1. n - 1 \notin Off
    <3> HIDE DEF Off
    <3> QED
      BY <1>2, <1>5
  <2> QED
    BY <1>5, <2>1
<1>7. ball[n] = In(n - 1) \cup Adjoins(edges, In(n - 1))
  <2> HIDE DEF In
  <2> QED
    BY <1>5, <1>6 DEF IsBall
<1>8. ASSUME NEW v \in In(n - 1) \cup Adjoins(edges, In(n - 1))
      PROVE  v \in In(n)
  <2>1. PICK w \in In(n - 1) : v \in States /\ Adjacent(edges, w, v)
    BY <1>8 DEF Adjoins, Adjacent
  <2>2. IsWalk(States, edges, u, v, n)
    BY <1>5, <2>1, WalkGoesOn
  <2> QED
    BY <2>1, <2>2
<1>9. ASSUME NEW v \in In(n)
      PROVE  v \in In(n - 1) \cup Adjoins(edges, In(n - 1))
  <2>1. PICK w \in States : IsWalk(States, edges, u, w, n - 1) /\ Adjacent(edges, w, v)
    BY <1>5, <1>9, WalkEnds
  <2>2. w \in In(n - 1) /\ v \in States
    BY <1>9, <2>1
  <2> HIDE DEF In
  <2> QED
    BY <2>1, <2>2 DEF Adjacent, Adjoins
<1> HIDE DEF In
<1> QED
  BY <1>3, <1>7, <1>8, <1>9

(* DistancesFrom gives every state of the tree of u the number of steps    *)
(* of the shortest walk to it.                                             *)
LEMMA DistancesAreWalks ==
  ASSUME dfa.size \in Nat, NEW edges, NEW u \in States
  PROVE  LET from == DistancesFrom(edges, u)
         IN /\ DOMAIN from = {v \in States : Connected(States, edges, u, v)}
            /\ \A v \in DOMAIN from :
                 /\ from[v] \in Nat
                 /\ IsWalk(States, edges, u, v, from[v])
                 /\ \A m \in Nat : IsWalk(States, edges, u, v, m) => from[v] <= m
<1> DEFINE from == DistancesFrom(edges, u)
           N == dfa.size
<1>1. PICK ball : /\ IsBall(edges, u, ball)
                  /\ from = [v \in ball[N] |->
                               CHOOSE n \in 0 .. N : v \in ball[n] /\ (n = 0 \/ v \notin ball[n - 1])]
  BY BallUnfolds
<1> HIDE DEF from
<1>2. \A n \in 0 .. N : ball[n] = {v \in States : IsWalk(States, edges, u, v, n)}
  BY <1>1, BallsAreWalks
<1>3. IsFiniteSet(States) /\ Cardinality(States) = N /\ N \in 0 .. N
  <2>1. /\ States = 0 .. dfa.size - 1 /\ (0 > dfa.size - 1 <=> dfa.size = 0)
        /\ dfa.size - 1 - 0 + 1 = dfa.size
    BY DEF States, StatesOf
  <2>2. IsFiniteSet(States) /\ Cardinality(States) = dfa.size
    BY SMTT(20), <2>1, FS_Interval
  <2> QED
    BY <2>2
<1>4. \A v : Connected(States, edges, u, v) <=> v \in ball[N]
  <2>1. ASSUME NEW v, Connected(States, edges, u, v)
        PROVE  v \in ball[N]
    <3>1. IsWalk(States, edges, u, v, N) /\ v \in States
      BY <1>3, <2>1, WalksAreShort, ConnectedIsEquivalence
    <3> QED
      BY <1>2, <1>3, <3>1
  <2>2. ASSUME NEW v, v \in ball[N]
        PROVE  Connected(States, edges, u, v)
    BY <1>2, <1>3, <2>2 DEF Connected
  <2> QED
    BY <2>1, <2>2
<1>5. DOMAIN from = {v \in States : Connected(States, edges, u, v)}
  <2>1. ball[N] \subseteq States
    BY <1>2, <1>3
  <2> QED
    BY <1>1, <1>4, <2>1
<1>6. ASSUME NEW v \in DOMAIN from
      PROVE  /\ from[v] \in Nat
             /\ IsWalk(States, edges, u, v, from[v])
             /\ \A m \in Nat : IsWalk(States, edges, u, v, m) => from[v] <= m
  <2> DEFINE In == {n \in 0 .. N : v \in ball[n]}
  <2>0. v \in ball[N] /\ v \in States
    BY <1>1, <1>5
  <2>1. PICK n \in In : \A i \in In : n <= i
    <3>1. In \in SUBSET Nat /\ N \in In
      BY <1>3, <2>0
    <3> HIDE DEF In
    <3> QED
      BY <3>1, LeastNumber
  <2>2. n \in 0 .. N /\ v \in ball[n] /\ (n = 0 \/ v \notin ball[n - 1])
    <3>1. CASE n # 0
      <4>1. n - 1 \in 0 .. N /\ ~ (n <= n - 1)
        BY <2>1, <3>1
      <4>2. n - 1 \notin In
        <5> HIDE DEF In
        <5> QED
          BY <2>1, <4>1
      <4> QED
        BY <2>1, <4>1, <4>2
    <3> QED
      BY <2>1, <3>1
  <2>3. from[v] = CHOOSE i \in 0 .. N : v \in ball[i] /\ (i = 0 \/ v \notin ball[i - 1])
    BY <1>1, <2>0
  <2>4. /\ from[v] \in 0 .. N /\ v \in ball[from[v]]
        /\ from[v] = 0 \/ v \notin ball[from[v] - 1]
    BY <2>2, <2>3
  <2>5. ASSUME NEW m \in Nat, IsWalk(States, edges, u, v, m), ~ (from[v] <= m)
        PROVE  FALSE
    <3>1. from[v] - 1 \in 0 .. N /\ from[v] - 1 \in Nat /\ m <= from[v] - 1 /\ from[v] # 0
      BY <2>4, <2>5
    <3>2. IsWalk(States, edges, u, v, from[v] - 1)
      BY <2>0, <2>5, <3>1, WalksMayWait
    <3> QED
      BY <1>2, <2>0, <2>4, <3>1, <3>2
  <2>6. IsWalk(States, edges, u, v, from[v]) /\ from[v] \in Nat
    BY <1>2, <2>4
  <2> QED
    BY <2>5, <2>6
<1> QED
  BY <1>5, <1>6 DEF from

-----------------------------------------------------------------------------
(* The invariant of kruskal: the forest has no cycle, its trees are the    *)
(* sets of the partition, and from every state there is another one that   *)
(* is as far away as its distance says, or farther.                        *)
KruskalInv ==
  /\ \A e \in heap : G[e][1] \in States /\ G[e][2] \in States
  /\ T \in Seq(States \X States)
  /\ IsForest(States, EdgesOf(T))
  /\ AreTrees(States, EdgesOf(T), P)
  /\ Len(T) = dfa.size - Cardinality(SetsOf(States, P))
  /\ distance \in [States -> Nat]
  /\ \A t \in States : FarFrom(States, EdgesOf(T), t, distance[t])

(* What the invariant says of walks, ForestAgreesWithPartition says of the *)
(* distances D2fa computes by growing a ball.                              *)
LEMMA KruskalAgrees ==
  ASSUME dfa.size \in Nat, KruskalInv
  PROVE  ForestAgreesWithPartition
<1>1. \A t \in States : Tree(EdgesOf(T), t) = P[t]
  BY DistancesAreWalks DEF Tree, KruskalInv, AreTrees
<1>2. ASSUME NEW t \in States
      PROVE  HasPathOf(t, distance[t])
  <2> DEFINE from == DistancesFrom(EdgesOf(T), t)
  <2>1. PICK y \in States : /\ Connected(States, EdgesOf(T), t, y)
                            /\ \A m \in Nat : IsWalk(States, EdgesOf(T), t, y, m) => distance[t] <= m
    BY DEF KruskalInv, FarFrom
  <2>2. y \in DOMAIN from /\ from[y] \in Nat /\ IsWalk(States, EdgesOf(T), t, y, from[y])
    BY <2>1, DistancesAreWalks
  <2>3. from[y] >= distance[t]
    <3>1. distance[t] \in Nat
      BY DEF KruskalInv
    <3> HIDE DEF from
    <3> QED
      BY <2>1, <2>2, <3>1
  <2> QED
    BY <2>2, <2>3 DEF HasPathOf
<1> QED
  BY <1>1, <1>2 DEF ForestAgreesWithPartition, KruskalInv, SetsOf

(* At the beginning of a call nothing is connected.                        *)
LEMMA SingleTrees ==
  ASSUME dfa.size \in Nat, NEW p, p = [t \in States |-> {t}]
  PROVE  /\ EdgesOf(NoEdges) = {} /\ NoEdges \in Seq(States \X States) /\ Len(NoEdges) = 0
         /\ IsForest(States, {})
         /\ AreTrees(States, {}, p)
         /\ Cardinality(SetsOf(States, p)) = dfa.size
         /\ \A t \in States : FarFrom(States, {}, t, 0)
<1> USE DEF AreTrees, SetsOf
<1>1. EdgesOf(NoEdges) = {} /\ NoEdges \in Seq(States \X States) /\ Len(NoEdges) = 0
  BY DEF EdgesOf, NoEdges
<1>2. IsForest(States, {})
  BY DEF IsForest
<1>3. ASSUME NEW t \in States
      PROVE  p[t] = {v \in States : Connected(States, {}, t, v)}
  <2>1. Connected(States, {}, t, t)
    BY ConnectedIsEquivalence
  <2>2. ASSUME NEW v \in States, Connected(States, {}, t, v)
        PROVE  v = t
    <3>1. PICK n \in Nat : IsWalk(States, {}, t, v, n)
      BY <2>2 DEF Connected
    <3>2. PICK q \in [0 .. n -> States] :
            q[0] = t /\ q[n] = v /\ \A i \in 1 .. n : Adjacent({}, q[i - 1], q[i])
      BY <3>1 DEF IsWalk
    <3> DEFINE Off == {i \in 0 .. n : q[i] # t}
    <3>3. Off = {}
      <4>1. SUFFICES ASSUME Off # {} PROVE FALSE
        OBVIOUS
      <4>2. PICK i \in Off : \A l \in Off : i <= l
        <5>1. Off \in SUBSET Nat
          OBVIOUS
        <5> HIDE DEF Off
        <5> QED
          BY <4>1, <5>1, LeastNumber
      <4>3. i \in 1 .. n /\ i - 1 \in 0 .. n /\ ~ (i <= i - 1) /\ q[i] # t
        BY <3>2, <4>2
      <4>4. i - 1 \notin Off
        <5> HIDE DEF Off
        <5> QED
          BY <4>2, <4>3
      <4>5. q[i - 1] = t
        BY <4>3, <4>4
      <4> QED
        BY <3>2, <4>3, <4>5 DEF Adjacent
    <3>4. n \in 0 .. n
      OBVIOUS
    <3> QED
      BY <3>2, <3>3, <3>4
  <2> QED
    BY <2>1, <2>2
<1>4. Cardinality({p[t] : t \in States}) = dfa.size
  <2> DEFINE K == {p[t] : t \in States}
             f == [t \in States |-> {t}]
  <2>1. f \in Bijection(States, K)
    <3>1. f \in [States -> K] /\ \A z \in K : \E t \in States : f[t] = z
      OBVIOUS
    <3>2. \A s1, t \in States : f[s1] = f[t] => s1 = t
      OBVIOUS
    <3> QED
      BY <3>1, <3>2 DEF Bijection, Injection, Surjection, IsInjective
  <2>2. IsFiniteSet(States) /\ Cardinality(States) = dfa.size
    <3>1. States = 0 .. dfa.size - 1 /\ (0 > dfa.size - 1 <=> dfa.size = 0) /\ dfa.size - 1 - 0 + 1 = dfa.size
      BY DEF States, StatesOf
    <3> QED
      BY <3>1, FS_Interval
  <2>3. ExistsBijection(States, K)
    BY <2>1 DEF ExistsBijection
  <2> HIDE DEF K
  <2> QED
    BY <2>2, <2>3, FS_Bijection DEF K
<1>5. ASSUME NEW t \in States
      PROVE  FarFrom(States, {}, t, 0)
  <2>1. Connected(States, {}, t, t) /\ \A m \in Nat : 0 <= m
    BY ConnectedIsEquivalence
  <2> QED
    BY <2>1 DEF FarFrom
<1> QED
  BY <1>1, <1>2, <1>3, <1>4, <1>5

-----------------------------------------------------------------------------
(* The edges of a pass are joined between states, each under its number.   *)
LEMMA EdgesAreNumbered ==
  ASSUME dfa.size \in Nat
  PROVE  \A n \in 1 .. Cardinality(PassEdges) : Numbered(PassEdges)[n] \in PassEdges
<1> DEFINE K == PassEdges
           N == Cardinality(K)
           pred(p) == {q \in K : Before(q, p)}
           g == [p \in K |-> <<p[1], p[2]>>]
           f == [p \in K |-> Cardinality(pred(p))]
<1>1. \A p \in K : /\ p = <<p[1], p[2], Common(dfa, p[1], p[2])>>
                   /\ p[1] \in States /\ p[2] \in States
  BY DEF PassEdges
<1>2. \A s1 \in States : s1 \in Int
  BY DEF States, StatesOf
<1>3. IsFiniteSet(States \X States)
  <2>1. States = 0 .. dfa.size - 1 /\ dfa.size - 1 \in Int
    BY DEF States, StatesOf
  <2>2. IsFiniteSet(States)
    BY <2>1, FS_Interval
  <2> QED
    BY <2>2, FS_Product
<1> HIDE DEF K
<1>4. \A p, q \in K : p[1] = q[1] /\ p[2] = q[2] => p = q
  BY <1>1
<1>5. g \in Injection(K, States \X States)
  <2>1. g \in [K -> States \X States]
    BY <1>1
  <2>2. \A p, q \in K : g[p] = g[q] => p = q
    BY <1>4
  <2> QED
    BY <2>1, <2>2 DEF Injection, IsInjective
<1>6. IsFiniteSet(K) /\ N \in Nat
  BY <1>3, <1>5, FS_Injection, FS_CardinalityType
<1>7. \A p \in K : IsFiniteSet(pred(p)) /\ Cardinality(pred(p)) \in 0 .. N - 1
  <2> TAKE p \in K
  <2>1. pred(p) \in SUBSET K /\ p \notin pred(p)
    BY <1>1, <1>2 DEF Before
  <2> HIDE DEF pred
  <2>2. /\ IsFiniteSet(pred(p)) /\ Cardinality(pred(p)) \in Nat
        /\ Cardinality(pred(p)) <= N /\ Cardinality(pred(p)) # N
    BY <1>6, <2>1, FS_Subset, FS_CardinalityType
  <2> QED
    BY <1>6, <2>2
<1>8. ASSUME NEW p \in K, NEW q \in K, Before(q, p)
      PROVE  Cardinality(pred(q)) # Cardinality(pred(p))
  <2>1. /\ p[1] \in Int /\ p[2] \in Int /\ q[1] \in Int /\ q[2] \in Int
        /\ \A r \in K : r[1] \in Int /\ r[2] \in Int
    BY <1>1, <1>2
  <2>2. pred(q) \in SUBSET pred(p)
    BY <1>8, <2>1 DEF Before
  <2>3. q \in pred(p) /\ q \notin pred(q)
    BY <1>8, <2>1 DEF Before
  <2> HIDE DEF pred
  <2> QED
    BY <1>7, <2>2, <2>3, FS_Subset
<1>9. f \in Injection(K, 0 .. N - 1)
  <2>1. f \in [K -> 0 .. N - 1]
    BY <1>7
  <2>2. ASSUME NEW p \in K, NEW q \in K, f[p] = f[q]
        PROVE  p = q
    <3>1. /\ p[1] \in Int /\ p[2] \in Int /\ q[1] \in Int /\ q[2] \in Int
      BY <1>1, <1>2
    <3>2. ~ Before(p, q) /\ ~ Before(q, p)
      <4> HIDE DEF pred
      <4> QED
        BY <1>8, <2>2
    <3>3. p[1] = q[1] /\ p[2] = q[2]
      BY <3>1, <3>2 DEF Before
    <3> QED
      BY <1>4, <3>3
  <2> HIDE DEF f
  <2> QED
    BY <2>1, <2>2 DEF Injection, IsInjective
<1>10. f \in Surjection(K, 0 .. N - 1)
  <2>1. IsFiniteSet(0 .. N - 1) /\ Cardinality(0 .. N - 1) = N
    <3>1. 0 \in Int /\ N - 1 \in Int /\ (0 > N - 1 <=> N = 0) /\ N - 1 - 0 + 1 = N
      BY <1>6
    <3> HIDE DEF N
    <3>2. IsFiniteSet(0 .. N - 1) /\ Cardinality(0 .. N - 1) = IF 0 > N - 1 THEN 0 ELSE (N - 1) - 0 + 1
      BY <3>1, FS_Interval
    <3> QED
      BY <3>1, <3>2
  <2> HIDE DEF f
  <2> QED
    BY <1>9, <2>1, FS_Injection
<1>11. ASSUME NEW n \in 1 .. N
       PROVE  Numbered(K)[n] \in K
  <2>1. n - 1 \in 0 .. N - 1
    BY <1>6
  <2>2. PICK p \in K : f[p] = n - 1
    <3> HIDE DEF f
    <3> QED
      BY <1>10, <2>1 DEF Surjection
  <2>3. Cardinality({q \in K : Before(q, p)}) = n - 1
    BY <2>2
  <2>4. Numbered(K)[n] = CHOOSE r \in K : Cardinality({q \in K : Before(q, r)}) = n - 1
    BY DEF Numbered
  <2> QED
    BY <2>3, <2>4
<1> QED
  BY <1>11 DEF K

(* The walk of update_distance knows no state outside of the tree, and     *)
(* none nearer than it is: the edge it leaves out is not one it needs.     *)
LEMMA WalkedIsNear ==
  ASSUME dfa.size \in Nat, KruskalInv, NEW u \in States, NEW in
  PROVE  IsNear(States, EdgesOf(T), u, DistancesFrom(Walked(u, in), u))
<1> DEFINE E == EdgesOf(T)
           F == Walked(u, in)
           near == DistancesFrom(F, u)
<1>1. \A g \in DOMAIN T : T[g] \in States \X States /\ T[g] = <<T[g][1], T[g][2]>>
  BY DEF KruskalInv
<1>2. E = {T[g] : g \in DOMAIN T}
  BY <1>1 DEF EdgesOf
<1>3. F = E \/ \E e \in E : u \in {e[1], e[2]} /\ F = E \ {e}
  <2>1. CASE \E g \in DOMAIN T : g = in /\ u \in {T[g][1], T[g][2]}
    <3>1. in \in DOMAIN T /\ u \in {T[in][1], T[in][2]} /\ T[in] \in E
      BY <1>2, <2>1
    <3>2. F = {T[g] : g \in DOMAIN T \ {in}}
      BY <3>1 DEF Walked
    <3>3. CASE \E g \in DOMAIN T \ {in} : T[g] = T[in]
      <4>1. F = E
        BY <1>2, <3>1, <3>2, <3>3
      <4> QED
        BY <4>1
    <3>4. CASE ~ \E g \in DOMAIN T \ {in} : T[g] = T[in]
      <4>1. F = E \ {T[in]}
        BY <1>2, <3>1, <3>2, <3>4
      <4> QED
        BY <3>1, <4>1
    <3> QED
      BY <3>3, <3>4
  <2>2. CASE ~ \E g \in DOMAIN T : g = in /\ u \in {T[g][1], T[g][2]}
    <3>1. F = E
      BY <1>2, <2>2 DEF Walked
    <3> QED
      BY <3>1
  <2> QED
    BY <2>1, <2>2
<1>4. /\ DOMAIN near = {v \in States : Connected(States, F, u, v)}
      /\ \A v \in DOMAIN near :
           /\ near[v] \in Nat
           /\ IsWalk(States, F, u, v, near[v])
           /\ \A m \in Nat : IsWalk(States, F, u, v, m) => near[v] <= m
  <2> HIDE DEF F
  <2> QED
    BY DistancesAreWalks
<1>5. IsForest(States, E)
  BY DEF KruskalInv
<1> HIDE DEF E, F, near
<1>6. ASSUME NEW x \in DOMAIN near
      PROVE  /\ Connected(States, E, u, x)
             /\ \A m \in Nat : IsWalk(States, E, u, x, m) => near[x] <= m
  <2>1. Connected(States, F, u, x)
    BY <1>4
  <2>2. CASE F = E
    BY <1>4, <2>1, <2>2
  <2>3. CASE \E e \in E : u \in {e[1], e[2]} /\ F = E \ {e}
    <3>1. PICK e \in E : u \in {e[1], e[2]} /\ F = E \ {e}
      BY <2>3
    <3>2. ASSUME NEW m \in Nat, IsWalk(States, E, u, x, m)
          PROVE  IsWalk(States, F, u, x, m)
      <4>1. Connected(States, E \ {e}, u, x)
        BY <2>1, <3>1
      <4>2. IsWalk(States, E \ {e}, u, x, m)
        BY SMTT(20), <1>5, <3>1, <3>2, <4>1, EdgeIsNotNeeded
      <4> QED
        BY <3>1, <4>2
    <3>3. Connected(States, E, u, x)
      <4>1. \A v, w \in States : Adjacent(F, v, w) => Adjacent(E, v, w)
        BY <3>1 DEF Adjacent
      <4> QED
        BY <2>1, <4>1, FewerEdges
    <3> QED
      BY <1>4, <3>2, <3>3
  <2> QED
    BY <1>3, <2>2, <2>3
<1> QED
  BY <1>4, <1>6 DEF IsNear, E, F, near

-----------------------------------------------------------------------------
(* The edges of a longer forest.                                           *)
LEMMA OneEdgeMore ==
  ASSUME T \in Seq(States \X States), NEW u \in States, NEW v \in States
  PROVE  /\ Append(T, <<u, v>>) \in Seq(States \X States)
         /\ Len(Append(T, <<u, v>>)) = Len(T) + 1
         /\ EdgesOf(Append(T, <<u, v>>)) = EdgesOf(T) \cup {<<u, v>>}
<1> DEFINE S == Append(T, <<u, v>>)
<1>1. /\ S \in Seq(States \X States) /\ Len(S) = Len(T) + 1 /\ Len(T) \in Nat
      /\ DOMAIN T = 1 .. Len(T) /\ DOMAIN S = 1 .. Len(T) + 1
      /\ S[Len(T) + 1] = <<u, v>>
      /\ \A i \in 1 .. Len(T) : S[i] = T[i]
  OBVIOUS
<1> HIDE DEF S
<1>2. DOMAIN S = DOMAIN T \cup {Len(T) + 1}
  BY <1>1
<1>3. EdgesOf(S) = {<<T[i][1], T[i][2]>> : i \in DOMAIN T} \cup {<<u, v>>}
  <2>1. \A i \in DOMAIN T : <<S[i][1], S[i][2]>> = <<T[i][1], T[i][2]>>
    BY <1>1
  <2>2. <<S[Len(T) + 1][1], S[Len(T) + 1][2]>> = <<u, v>>
    BY <1>1
  <2>3. \A x : x \in EdgesOf(S) <=> \E i \in DOMAIN S : x = <<S[i][1], S[i][2]>>
    BY DEF EdgesOf
  <2>4. \A x : x \in EdgesOf(S) <=> x = <<u, v>> \/ \E i \in DOMAIN T : x = <<T[i][1], T[i][2]>>
    BY <1>2, <2>1, <2>2, <2>3
  <2> QED
    BY <2>4
<1> QED
  BY <1>1, <1>3 DEF EdgesOf, S

(* An automaton has finitely many states.                                  *)
LEMMA FinitelyMany ==
  ASSUME dfa.size \in Nat
  PROVE  IsFiniteSet(States)
  BY FS_Interval DEF States, StatesOf

(* An edge that Fits has its ends in two trees: the forest, the partition  *)
(* and the distances change together.                                      *)
LEMMA JoinTreesKeepsKruskalInv ==
  ASSUME IInv, KruskalInv, NEW e \in heap, JoinTrees(e)
  PROVE  KruskalInv'
<1> DEFINE u == G[e][1]
           v == G[e][2]
           E == EdgesOf(T)
           F == E \cup {<<u, v>>}
           near == DistancesFrom(Walked(u, e), u)
           nearb == DistancesFrom(Walked(v, e), v)
           d1 == UpdateDistance(distance, u, e, distance[v])
<1>1. /\ Fits(u, v)
      /\ distance' = UpdateDistance(d1, v, e, distance[u])
      /\ P' = [t \in States |-> IF t \in P[u] \cup P[v] THEN P[u] \cup P[v] ELSE P[t]]
      /\ T' = Append(T, <<u, v>>)
      /\ heap' \subseteq heap
      /\ UNCHANGED <<vars, G>>
  BY DEF JoinTrees
<1>2. u \in States /\ v \in States /\ dfa.size \in Nat /\ dfa' = dfa /\ States' = States
  <2>1. dfa.size \in Nat
    BY GivenIsDfa
  <2>2. dfa' = dfa
    BY <1>1 DEF vars
  <2> QED
    BY <2>1, <2>2 DEF KruskalInv, States
<1>3. /\ T' \in Seq(States \X States)
      /\ Len(T') = Len(T) + 1
      /\ EdgesOf(T') = F
  <2>1. T \in Seq(States \X States)
    BY DEF KruskalInv
  <2> HIDE DEF u, v
  <2> QED
    BY <1>1, <1>2, <2>1, OneEdgeMore
<1>4. ~ Connected(States, E, u, v)
  <2>1. P[u] # P[v]
    BY <1>1 DEF Fits
  <2>2. /\ P[u] = {x \in States : Connected(States, E, u, x)}
        /\ P[v] = {x \in States : Connected(States, E, v, x)}
    BY <1>2 DEF KruskalInv, AreTrees
  <2> HIDE DEF u, v, E
  <2>3. ASSUME Connected(States, E, u, v) PROVE FALSE
    <3>1. \A x \in States : Connected(States, E, u, x) <=> Connected(States, E, v, x)
      BY <1>2, <2>3, ConnectedIsEquivalence
    <3> QED
      BY <2>1, <2>2, <3>1
  <2> QED
    BY <2>3
<1>5. /\ IsForest(States, F)
      /\ IsJoined(States, E, F, u, v)
      /\ IsJoined(States, E, F, v, u)
  <2>1. IsForest(States, E)
    BY DEF KruskalInv
  <2> HIDE DEF u, v, E
  <2> QED
    BY <1>2, <1>4, <2>1, ForestStays
<1>6. /\ AreTrees(States, F, P')
      /\ Cardinality(SetsOf(States, P)) \in Nat
      /\ Cardinality(SetsOf(States, P')) = Cardinality(SetsOf(States, P)) - 1
  <2>1. AreTrees(States, E, P)
    BY DEF KruskalInv
  <2>2. IsFiniteSet(States)
    BY <1>2, FinitelyMany
  <2>3. PICK q : q = [t \in States |-> IF t \in P[u] \cup P[v] THEN P[u] \cup P[v] ELSE P[t]]
    OBVIOUS
  <2>4. P' = q
    BY <1>1, <2>3
  <2> HIDE DEF u, v, E, F
  <2>5. /\ AreTrees(States, F, q)
        /\ Cardinality(SetsOf(States, P)) \in Nat
        /\ Cardinality(SetsOf(States, q)) = Cardinality(SetsOf(States, P)) - 1
    BY <1>4, <1>5, <2>1, <2>2, <2>3, PartitionStays
  <2> QED
    BY <2>4, <2>5
<1>7. /\ distance' \in [States -> Nat]
      /\ \A t \in States : FarFrom(States, F, t, distance'[t])
  <2>1. distance \in [States -> Nat] /\ \A t \in States : FarFrom(States, E, t, distance[t])
    BY DEF KruskalInv
  <2>2. IsNear(States, E, u, near) /\ IsNear(States, E, v, nearb)
    BY <1>2, WalkedIsNear
  <2>3. d1 = [x \in States |-> IF x \in DOMAIN near
                                 THEN DistanceOver(distance[x], distance[v], near[x])
                                 ELSE distance[x]]
    BY DEF UpdateDistance
  <2>4. distance' = [x \in States |-> IF x \in DOMAIN nearb
                                        THEN DistanceOver(d1[x], distance[u], nearb[x])
                                        ELSE d1[x]]
    BY <1>1 DEF UpdateDistance
  <2> HIDE DEF u, v, E, F, near, nearb, d1
  <2> QED
    BY <1>4, <1>5, <2>1, <2>2, <2>3, <2>4, DistancesStayShort
<1>8. Len(T') = dfa.size - Cardinality(SetsOf(States, P'))
  <2>1. Len(T) = dfa.size - Cardinality(SetsOf(States, P))
    BY DEF KruskalInv
  <2> QED
    BY <1>2, <1>3, <1>6, <2>1
<1>9. \A f \in heap' : G'[f][1] \in States /\ G'[f][2] \in States
  BY <1>1 DEF KruskalInv
<1> HIDE DEF F
<1> QED
  BY <1>2, <1>3, <1>5, <1>6, <1>7, <1>8, <1>9 DEF KruskalInv

(* Steps that leave the forest alone.                                      *)
LEMMA ForestLeftAlone ==
  ASSUME IInv, IInv', KruskalInv, given' = given, UNCHANGED <<T, P, distance>>,
         \A e \in heap' : G'[e][1] \in States /\ G'[e][2] \in States
  PROVE  KruskalInv'
<1>1. dfa' = dfa
  BY DEF IInv
<1>2. States' = States
  BY <1>1 DEF States
<1>3. EdgesOf(T') = EdgesOf(T) /\ SetsOf(States, P') = SetsOf(States, P)
  OBVIOUS
<1> QED
  BY <1>1, <1>2, <1>3 DEF KruskalInv

(* D2FA begins with an empty forest, whatever an earlier call has left.    *)
LEMMA StartKeepsKruskalInv ==
  ASSUME IInv, KruskalInv, StartD2FA
  PROVE  KruskalInv'
<1>1. /\ T' = NoEdges /\ UNCHANGED <<dfa, G, heap>>
      /\ P' = [t \in States |-> {t}] /\ distance' = [t \in States |-> 0]
  BY DEF StartD2FA
<1>2. dfa.size \in Nat /\ States' = States
  BY <1>1, GivenIsDfa DEF States
<1>3. /\ EdgesOf(T') = {} /\ T' \in Seq(States \X States) /\ Len(T') = 0
      /\ IsForest(States, {})
      /\ AreTrees(States, {}, P')
      /\ Cardinality(SetsOf(States, P')) = dfa.size
      /\ \A t \in States : FarFrom(States, {}, t, 0)
  <2>1. PICK p : p = [t \in States |-> {t}]
    OBVIOUS
  <2>2. P' = p
    BY <1>1, <2>1
  <2>3. /\ EdgesOf(NoEdges) = {} /\ NoEdges \in Seq(States \X States) /\ Len(NoEdges) = 0
        /\ IsForest(States, {})
        /\ AreTrees(States, {}, p)
        /\ Cardinality(SetsOf(States, p)) = dfa.size
        /\ \A t \in States : FarFrom(States, {}, t, 0)
    BY <1>2, <2>1, SingleTrees
  <2> QED
    BY <1>1, <2>2, <2>3
<1>4. distance' \in [States -> Nat] /\ \A t \in States : FarFrom(States, {}, t, distance'[t])
  BY <1>1, <1>3
<1>5. Len(T') = dfa'.size - Cardinality(SetsOf(States, P'))
  BY <1>1, <1>2, <1>3
<1> QED
  BY <1>1, <1>2, <1>3, <1>4, <1>5 DEF KruskalInv

(* A pass fills the heap with edges between states.                        *)
LEMMA BuildGraphKeepsKruskalInv ==
  ASSUME IInv, IInv', KruskalInv, BuildGraph
  PROVE  KruskalInv'
<1>1. /\ G' = Numbered(PassEdges) /\ heap' = 1 .. Cardinality(PassEdges)
      /\ given' = given /\ UNCHANGED <<T, P, distance>>
  BY DEF BuildGraph
<1>2. dfa.size \in Nat
  BY GivenIsDfa
<1>3. ASSUME NEW e \in heap'
      PROVE  G'[e][1] \in States /\ G'[e][2] \in States
  <2>1. G'[e] \in PassEdges
    BY <1>1, <1>2, EdgesAreNumbered
  <2>2. \A p \in PassEdges : p[1] \in States /\ p[2] \in States
    BY DEF PassEdges
  <2> QED
    BY <2>1, <2>2
<1> QED
  BY <1>1, <1>3, ForestLeftAlone

(* Before the first call every state is alone.                             *)
LEMMA InitKruskalInv == InitD2fa => KruskalInv
<1> SUFFICES ASSUME InitD2fa PROVE KruskalInv
  OBVIOUS
<1>1. /\ T = NoEdges /\ heap = {}
      /\ P = [t \in States |-> {t}] /\ distance = [t \in States |-> 0]
  BY DEF InitD2fa
<1>2. dfa.size \in Nat
  BY InitIInv, GivenIsDfa
<1>3. /\ EdgesOf(T) = {} /\ T \in Seq(States \X States) /\ Len(T) = 0
      /\ IsForest(States, {})
      /\ AreTrees(States, {}, P)
      /\ Cardinality(SetsOf(States, P)) = dfa.size
      /\ \A t \in States : FarFrom(States, {}, t, 0)
  <2>1. PICK p : p = [t \in States |-> {t}]
    OBVIOUS
  <2>2. P = p
    BY <1>1, <2>1
  <2>3. /\ EdgesOf(NoEdges) = {} /\ NoEdges \in Seq(States \X States) /\ Len(NoEdges) = 0
        /\ IsForest(States, {})
        /\ AreTrees(States, {}, p)
        /\ Cardinality(SetsOf(States, p)) = dfa.size
        /\ \A t \in States : FarFrom(States, {}, t, 0)
    BY <1>2, <2>1, SingleTrees
  <2> QED
    BY <1>1, <2>2, <2>3
<1>4. distance \in [States -> Nat] /\ \A t \in States : FarFrom(States, {}, t, distance[t])
  BY <1>1, <1>3
<1>5. Len(T) = dfa.size - Cardinality(SetsOf(States, P))
  BY <1>2, <1>3
<1> QED
  BY <1>1, <1>3, <1>4, <1>5 DEF KruskalInv

(* The invariant of kruskal is inductive, given that of the automaton.     *)
THEOREM KruskalInductive ==
  IInv /\ IInv' /\ KruskalInv /\ [NextD2fa]_allVars => KruskalInv'
<1> SUFFICES ASSUME IInv, IInv', KruskalInv, [NextD2fa]_allVars PROVE KruskalInv'
  OBVIOUS
<1> DEFINE Alone == UNCHANGED <<given, G, heap, T, P, distance>>
<1>1. CASE StartD2FA
  BY <1>1, StartKeepsKruskalInv
<1>2. CASE BuildGraph
  BY <1>2, BuildGraphKeepsKruskalInv
<1>3. CASE \E e \in heap : JoinTrees(e)
  BY <1>3, JoinTreesKeepsKruskalInv
<1>4. CASE \E e \in heap : DropEdge(e)
  <2>1. heap' \subseteq heap /\ given' = given /\ UNCHANGED <<G, T, P, distance>>
    BY <1>4 DEF DropEdge, vars
  <2> QED
    BY <2>1, ForestLeftAlone DEF KruskalInv
<1>5. CASE Alone
  BY <1>5, ForestLeftAlone DEF KruskalInv
<1>6. CASE EndPass \/ StartTrees \/ (\E root \in States : RootTree(root)) \/ EndD2FA
  <2>1. Alone
    BY <1>6 DEF EndPass, StartTrees, RootTree, EndD2FA, d2faVars
  <2> QED
    BY <1>5, <2>1
<1>7. CASE Next /\ UNCHANGED d2faVars
  <2>1. given' = given
    BY <1>7 DEF Next, Compression, Use, StartCompression, FallTo, OneInCommon, NoCandidate,
                EndCompression, Put, Get, ReadSymbol, FollowLabel, FallBack
  <2>2. Alone
    BY <1>7, <2>1 DEF d2faVars
  <2> QED
    BY <1>5, <2>2
<1>8. CASE UNCHANGED allVars
  <2>1. Alone
    BY <1>8 DEF allVars, vars, d2faVars
  <2> QED
    BY <1>5, <2>1
<1> QED
  BY <1>1, <1>2, <1>3, <1>4, <1>6, <1>7, <1>8 DEF NextD2fa, D2FA

(***************************************************************************)
(* Kruskal's partition and the forest, two structures kept by hand, agree  *)
(* in every pass, the forest has no cycle, and no distance exceeds the     *)
(* longest path of its tree: an edge is never refused for a path that does *)
(* not exist (kruskal, update_distance).                                   *)
(***************************************************************************)
THEOREM ForestAgrees == SpecD2fa => []ForestAgreesWithPartition
<1>1. InitD2fa => IInv /\ KruskalInv
  BY InitIInv, InitKruskalInv
<1>2. IInv /\ KruskalInv /\ [NextD2fa]_allVars => IInv' /\ KruskalInv'
  BY Inductive, KruskalInductive
<1>3. IInv /\ KruskalInv => ForestAgreesWithPartition
  <2>1. IInv => dfa.size \in Nat
    BY GivenIsDfa
  <2> QED
    BY <2>1, KruskalAgrees
<1> QED
  BY <1>1, <1>2, <1>3, PTL DEF SpecD2fa
=============================================================================
