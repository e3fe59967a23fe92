-------------------------- MODULE Automata_proofs --------------------------
(***************************************************************************)
(* What RunFrom and ActiveSet compute, for every automaton and every word. *)
(* Both are recursive functions over the symbols of a word.  That such a   *)
(* function exists, and that it is the only one, is shown with the least   *)
(* number for which it is not so.                                          *)
(***************************************************************************)
EXTENDS Automata, FiniteSetTheorems, WellFoundedInduction, TLAPS

(* A set of numbers has a least one: induction in a form that speaks of    *)
(* sets.                                                                   *)
LEMMA LeastNumber ==
  ASSUME NEW T \in SUBSET Nat, T # {}
  PROVE  \E n \in T : \A m \in T : n <= m
<1>1. IsWellFoundedOn(OpToRel(<, Nat), Nat)
  BY NatLessThanWellFounded
<1>2. PICK n \in T : \A m \in T : ~ (<<m, n>> \in OpToRel(<, Nat))
  BY <1>1, WFMin
<1>3. \A m \in T : ~ (m < n)
  BY <1>2 DEF OpToRel
<1> QED
  BY <1>3

(* at[k] is where k steps lead from s, the k-th by step[k].                *)
Follows(at, S, step, s, n) ==
  /\ at \in [0 .. n -> S]
  /\ at[0] = s
  /\ \A k \in 1 .. n : at[k] = step[k][at[k - 1]]

(* The same of a function that is not known to stay in S.                  *)
FollowsWhereDefined(at, S, step, s, n) ==
  /\ at[0] = s
  /\ \A k \in 1 .. n : at[k - 1] \in S => at[k] = step[k][at[k - 1]]

(* However many steps, there is such a function.                           *)
LEMMA StepsLeadSomewhere ==
  ASSUME NEW S, NEW s \in S, NEW n \in Nat, NEW step \in [1 .. n -> [S -> S]]
  PROVE  \E at : Follows(at, S, step, s, n)
<1> DEFINE Has(m) == \E at : Follows(at, S, step, s, m)
           None == {m \in 0 .. n : ~ Has(m)}
<1>1. SUFFICES ASSUME None # {} PROVE FALSE
  OBVIOUS
<1>2. PICK m \in None : \A l \in None : m <= l
  <2> HIDE DEF None
  <2>1. None \in SUBSET Nat
    BY DEF None
  <2> QED
    BY <1>1, <2>1, LeastNumber
<1>3. CASE m = 0
  <2> DEFINE at == [k \in 0 .. 0 |-> s]
  <2>1. Follows(at, S, step, s, 0)
    BY DEF Follows
  <2> QED
    BY <1>2, <1>3, <2>1
<1>4. CASE m # 0
  <2>1. m - 1 \in 0 .. n /\ m \in 1 .. n /\ Has(m - 1)
    BY <1>2, <1>4
  <2>2. PICK at : Follows(at, S, step, s, m - 1)
    BY <2>1
  <2> DEFINE bt == [k \in 0 .. m |-> IF k = m THEN step[m][at[m - 1]] ELSE at[k]]
  <2>3. at \in [0 .. m - 1 -> S] /\ m - 1 \in 0 .. m - 1
    BY <2>1, <2>2 DEF Follows
  <2>4. bt \in [0 .. m -> S]
    BY <2>1, <2>3
  <2>5. bt[0] = s
    BY <2>1, <2>2 DEF Follows
  <2>6. ASSUME NEW k \in 1 .. m
        PROVE  bt[k] = step[k][bt[k - 1]]
    <3>1. k \in 0 .. m /\ k - 1 \in 0 .. m /\ k - 1 # m
      BY <2>1
    <3>2. bt[k - 1] = at[k - 1]
      BY <3>1
    <3>3. CASE k = m
      BY <3>1, <3>2, <3>3
    <3>4. CASE k # m
      <4>1. k \in 1 .. m - 1 /\ bt[k] = at[k]
        BY <2>1, <3>1, <3>4
      <4> QED
        BY <2>2, <3>2, <4>1 DEF Follows
    <3> QED
      BY <3>3, <3>4
  <2>7. Follows(bt, S, step, s, m)
    BY <2>4, <2>5, <2>6 DEF Follows
  <2> QED
    BY <1>2, <1>4, <2>7
<1> QED
  BY <1>3, <1>4

(* And there is no other.                                                  *)
LEMMA StepsLeadToOnePlace ==
  ASSUME NEW S, NEW s \in S, NEW n \in Nat, NEW step \in [1 .. n -> [S -> S]],
         NEW bt, Follows(bt, S, step, s, n),
         NEW at, FollowsWhereDefined(at, S, step, s, n)
  PROVE  \A k \in 0 .. n : at[k] = bt[k]
<1> DEFINE Off == {k \in 0 .. n : at[k] # bt[k]}
<1>1. SUFFICES ASSUME Off # {} PROVE FALSE
  OBVIOUS
<1>2. PICK k \in Off : \A l \in Off : k <= l
  <2> HIDE DEF Off
  <2>1. Off \in SUBSET Nat
    BY DEF Off
  <2> QED
    BY <1>1, <2>1, LeastNumber
<1>3. k \in 1 .. n /\ k - 1 \in 0 .. n
  BY <1>2 DEF Follows, FollowsWhereDefined
<1>4. k - 1 \notin Off
  BY <1>2, <1>3
<1>5. at[k - 1] = bt[k - 1] /\ bt[k - 1] \in S
  BY <1>3, <1>4 DEF Follows
<1>6. at[k] = step[k][at[k - 1]] /\ bt[k] = step[k][bt[k - 1]]
  BY <1>3, <1>5 DEF Follows, FollowsWhereDefined
<1> QED
  BY <1>2, <1>5, <1>6

-----------------------------------------------------------------------------
(* at is the run of the automaton D from s over w.                         *)
IsRun(D, s, w, at) ==
  /\ at \in [0 .. Len(w) -> StatesOf(D)]
  /\ at[0] = s
  /\ \A k \in 1 .. Len(w) : at[k] = D.table[at[k - 1]][w[k]]

(* RunFrom is the end of the run.                                          *)
LEMMA RunFromIsRun ==
  ASSUME NEW D, NEW s \in StatesOf(D), NEW w \in Seq(Symbols),
         D.table \in [StatesOf(D) -> [Symbols -> StatesOf(D)]]
  PROVE  \E at : IsRun(D, s, w, at) /\ RunFrom(D, s, w) = at[Len(w)]
<1> DEFINE Q == StatesOf(D)
           n == Len(w)
           start == s
           step == [k \in 1 .. n |-> [t \in Q |-> D.table[t][w[k]]]]
           F(at) == [k \in 0 .. Len(w) |-> IF k = 0 THEN s ELSE D.table[at[k - 1]][w[k]]]
<1>1. n \in Nat /\ \A k \in 1 .. n : w[k] \in Symbols /\ k - 1 \in 0 .. n
  OBVIOUS
<1>2. step \in [1 .. n -> [Q -> Q]]
  BY <1>1
<1>3. PICK bt : Follows(bt, Q, step, start, n)
  BY <1>1, <1>2, StepsLeadSomewhere
<1>4. IsRun(D, s, w, bt)
  <2>1. ASSUME NEW k \in 1 .. n
        PROVE  bt[k] = D.table[bt[k - 1]][w[k]]
    <3>1. bt[k] = step[k][bt[k - 1]] /\ bt \in [0 .. n -> Q]
      BY <1>3 DEF Follows
    <3>2. bt[k - 1] \in Q
      BY <1>1, <3>1
    <3> QED
      BY <3>1, <3>2
  <2> QED
    BY <1>3, <2>1 DEF Follows, IsRun
<1>5. bt = F(bt)
  <2>1. bt \in [0 .. Len(w) -> StatesOf(D)]
    BY <1>4 DEF IsRun
  <2>2. \A k \in 0 .. Len(w) : bt[k] = IF k = 0 THEN s ELSE D.table[bt[k - 1]][w[k]]
    BY <1>1, <1>4 DEF IsRun
  <2> QED
    BY <2>1, <2>2
<1>6. PICK at : at = F(at) /\ RunFrom(D, s, w) = at[Len(w)]
  <2> DEFINE chosen == CHOOSE at : at = F(at)
  <2>1. chosen = F(chosen)
    BY <1>5
  <2>2. RunFrom(D, s, w) = chosen[Len(w)]
    BY DEF RunFrom
  <2> QED
    BY <2>1, <2>2
<1>7. \A k \in 0 .. n : at[k] = IF k = 0 THEN s ELSE D.table[at[k - 1]][w[k]]
  BY <1>6
<1>8. FollowsWhereDefined(at, Q, step, start, n)
  BY <1>1, <1>7 DEF FollowsWhereDefined
<1>9. start \in Q /\ n \in Nat
  OBVIOUS
<1> HIDE DEF Q, n, start, step, F
<1>10. \A k \in 0 .. n : at[k] = bt[k]
  BY <1>2, <1>3, <1>8, <1>9, StepsLeadToOnePlace, SMTT(30)
<1> QED
  BY <1>1, <1>4, <1>6, <1>10 DEF n

(* Runs over a word and over one it begins are the same as far as both go. *)
LEMMA RunsAgree ==
  ASSUME NEW D, NEW s \in StatesOf(D), NEW w \in Seq(Symbols), NEW v \in Seq(Symbols),
         NEW at, IsRun(D, s, w, at), NEW bt, IsRun(D, s, v, bt),
         Len(w) <= Len(v), \A k \in 1 .. Len(w) : v[k] = w[k]
  PROVE  at[Len(w)] = bt[Len(w)]
<1> DEFINE Off == {k \in 0 .. Len(w) : at[k] # bt[k]}
<1>1. Len(w) \in Nat /\ Len(v) \in Nat
  OBVIOUS
<1>2. SUFFICES ASSUME Off # {} PROVE FALSE
  BY <1>1
<1>3. PICK k \in Off : \A l \in Off : k <= l
  <2> HIDE DEF Off
  <2>1. Off \in SUBSET Nat
    BY DEF Off
  <2> QED
    BY <1>2, <2>1, LeastNumber
<1>4. k \in 1 .. Len(w) /\ k \in 1 .. Len(v) /\ k - 1 \in 0 .. Len(w)
  BY <1>1, <1>3 DEF IsRun
<1>5. at[k - 1] = bt[k - 1]
  BY <1>1, <1>3, <1>4
<1>6. at[k] = D.table[at[k - 1]][w[k]] /\ bt[k] = D.table[bt[k - 1]][v[k]]
  BY <1>4 DEF IsRun
<1> QED
  BY <1>3, <1>4, <1>5, <1>6

(* The state after one symbol more.                                        *)
LEMMA RunFromGrows ==
  ASSUME NEW D, NEW s \in StatesOf(D), NEW w \in Seq(Symbols), NEW v \in Seq(Symbols),
         D.table \in [StatesOf(D) -> [Symbols -> StatesOf(D)]],
         Len(v) = Len(w) + 1, \A k \in 1 .. Len(w) : v[k] = w[k]
  PROVE  RunFrom(D, s, v) = D.table[RunFrom(D, s, w)][v[Len(v)]]
<1>1. PICK at : IsRun(D, s, w, at) /\ RunFrom(D, s, w) = at[Len(w)]
  BY RunFromIsRun
<1>2. PICK bt : IsRun(D, s, v, bt) /\ RunFrom(D, s, v) = bt[Len(v)]
  BY RunFromIsRun
<1>3. at[Len(w)] = bt[Len(w)]
  <2>1. Len(w) <= Len(v)
    OBVIOUS
  <2>2. IsRun(D, s, w, at) /\ IsRun(D, s, v, bt)
    BY <1>1, <1>2
  <2> QED
    BY <2>1, <2>2, RunsAgree
<1>4. bt[Len(v)] = D.table[bt[Len(v) - 1]][v[Len(v)]]
  <2>1. Len(v) \in 1 .. Len(v)
    OBVIOUS
  <2> QED
    BY <1>2, <2>1 DEF IsRun
<1> QED
  BY <1>1, <1>2, <1>3, <1>4

(* The state after no symbol, and that it is a state after any.            *)
LEMMA RunFromStays ==
  ASSUME NEW D, NEW s \in StatesOf(D), NEW w \in Seq(Symbols),
         D.table \in [StatesOf(D) -> [Symbols -> StatesOf(D)]]
  PROVE  /\ RunFrom(D, s, w) \in StatesOf(D)
         /\ Len(w) = 0 => RunFrom(D, s, w) = s
<1>1. PICK at : IsRun(D, s, w, at) /\ RunFrom(D, s, w) = at[Len(w)]
  BY RunFromIsRun
<1> QED
  BY <1>1 DEF IsRun

-----------------------------------------------------------------------------
(* The closure of a state and the moves of a set of states are sets of     *)
(* states.                                                                 *)
LEMMA MovesStayInNfa ==
  ASSUME NEW N, NEW nfa \in NfaOver(N), NEW S \in SUBSET N, NEW c \in Symbols
  PROVE  Move(nfa, S, c) \in SUBSET N
<1>1. \A t \in N : EpsilonClosure(nfa, t) \subseteq N
  BY DEF EpsilonClosure, NfaOver
<1>2. \A t \in N : nfa.transitions[t][c] \subseteq N
  BY DEF NfaOver
<1> QED
  BY <1>1, <1>2 DEF Move, GetTransitions

(* active[k] is the set of states the NFA is in after k symbols of w.      *)
IsActiveRun(N, nfa, root, w, active) ==
  /\ active \in [0 .. Len(w) -> SUBSET N]
  /\ active[0] = EpsilonClosure(nfa, root)
  /\ \A k \in 1 .. Len(w) : active[k] = Move(nfa, active[k - 1], w[k])

(* ActiveSet is the last of them.                                          *)
LEMMA ActiveSetIsRun ==
  ASSUME NEW N, NEW nfa \in NfaOver(N), NEW root \in N, NEW w \in Seq(Symbols)
  PROVE  \E active : /\ IsActiveRun(N, nfa, root, w, active)
                     /\ ActiveSet(nfa, root, w) = active[Len(w)]
<1> DEFINE Q == SUBSET N
           n == Len(w)
           start == EpsilonClosure(nfa, root)
           step == [k \in 1 .. n |-> [S \in Q |-> Move(nfa, S, w[k])]]
           F(at) == [k \in 0 .. Len(w) |->
                       IF k = 0 THEN EpsilonClosure(nfa, root) ELSE Move(nfa, at[k - 1], w[k])]
<1>1. n \in Nat /\ \A k \in 1 .. n : w[k] \in Symbols /\ k - 1 \in 0 .. n
  OBVIOUS
<1>2. step \in [1 .. n -> [Q -> Q]]
  BY <1>1, MovesStayInNfa
<1>3. start \in Q
  BY DEF EpsilonClosure, NfaOver
<1>4. PICK bt : Follows(bt, Q, step, start, n)
  <2> HIDE DEF Q, n, step, start
  <2> QED
    BY <1>1, <1>2, <1>3, StepsLeadSomewhere
<1>5. IsActiveRun(N, nfa, root, w, bt)
  <2>1. ASSUME NEW k \in 1 .. n
        PROVE  bt[k] = Move(nfa, bt[k - 1], w[k])
    <3>1. bt[k] = step[k][bt[k - 1]] /\ bt \in [0 .. n -> Q]
      BY <1>4 DEF Follows
    <3>2. bt[k - 1] \in Q
      BY <1>1, <3>1
    <3> QED
      BY <3>1, <3>2
  <2> QED
    BY <1>4, <2>1 DEF Follows, IsActiveRun
<1>6. bt = F(bt)
  BY <1>1, <1>5 DEF IsActiveRun
<1>7. PICK at : at = F(at) /\ ActiveSet(nfa, root, w) = at[Len(w)]
  <2> DEFINE chosen == CHOOSE at : at = F(at)
  <2>1. chosen = F(chosen)
    BY <1>6
  <2>2. ActiveSet(nfa, root, w) = chosen[Len(w)]
    BY DEF ActiveSet
  <2> QED
    BY <2>1, <2>2
<1>8. \A k \in 0 .. n : at[k] = IF k = 0 THEN start ELSE Move(nfa, at[k - 1], w[k])
  BY <1>7
<1>9. FollowsWhereDefined(at, Q, step, start, n)
  BY <1>1, <1>8 DEF FollowsWhereDefined
<1> HIDE DEF Q, n, step, start, F
<1>10. \A k \in 0 .. n : at[k] = bt[k]
  BY <1>1, <1>2, <1>3, <1>4, <1>9, StepsLeadToOnePlace
<1> QED
  BY <1>1, <1>5, <1>7, <1>10 DEF n
-----------------------------------------------------------------------------
(* The numbers of T below m. *)
Below(T, m) == {a \in T : a < m}

(* One number more.                                                        *)
LEMMA BelowGrows ==
  ASSUME NEW n \in Nat, NEW T \in SUBSET (0 .. n - 1), NEW m \in 0 .. n - 1
  PROVE  /\ IsFiniteSet(Below(T, m)) /\ Cardinality(Below(T, m)) \in Nat
         /\ IsFiniteSet(Below(T, m + 1)) /\ Cardinality(Below(T, m + 1)) \in Nat
         /\ Cardinality(Below(T, m + 1)) = Cardinality(Below(T, m)) + (IF m \in T THEN 1 ELSE 0)
<1>1. IsFiniteSet(0 .. n - 1)
  BY FS_Interval
<1>2. \A k \in Int : Below(T, k) \in SUBSET (0 .. n - 1)
  BY DEF Below
<1>3. \A k \in Int : IsFiniteSet(Below(T, k)) /\ Cardinality(Below(T, k)) \in Nat
  BY <1>1, <1>2, FS_Subset, FS_CardinalityType
<1>0. \A a \in T : a \in Int /\ (a < m + 1 <=> (a < m \/ a = m))
  OBVIOUS
<1>4. CASE m \in T
  <2>1. Below(T, m + 1) = Below(T, m) \cup {m}
    BY <1>0, <1>4 DEF Below
  <2>2. m \notin Below(T, m)
    BY DEF Below
  <2> QED
    BY <1>3, <1>4, <2>1, <2>2, FS_AddElement
<1>5. CASE m \notin T
  <2>1. Below(T, m + 1) = Below(T, m)
    BY <1>0, <1>5 DEF Below
  <2> QED
    BY <1>3, <1>5, <2>1
<1> QED
  BY <1>4, <1>5

(* The members of a set of numbers are numbered in their order by how many *)
(* members are below: the way rows move up when others are deleted.        *)
LEMMA MembersAreNumbered ==
  ASSUME NEW n \in Nat, NEW T \in SUBSET (0 .. n - 1)
  PROVE  /\ IsFiniteSet(T) /\ Cardinality(T) \in 0 .. n
         /\ \A s \in T : Cardinality(Below(T, s)) \in 0 .. Cardinality(T) - 1
         /\ \A s, t \in T : s < t => Cardinality(Below(T, s)) < Cardinality(Below(T, t))
         /\ \A j \in 0 .. Cardinality(T) - 1 : \E s \in T : Cardinality(Below(T, s)) = j
<1> DEFINE N == Cardinality(T)
           rank == [s \in T |-> Cardinality(Below(T, s))]
<1>1. IsFiniteSet(0 .. n - 1) /\ Cardinality(0 .. n - 1) = n
  BY FS_Interval
<1>2. IsFiniteSet(T) /\ N \in Nat /\ N <= n
  BY <1>1, FS_Subset, FS_CardinalityType
<1>3. ASSUME NEW s \in T
      PROVE  IsFiniteSet(Below(T, s)) /\ rank[s] \in Nat /\ rank[s] < N
  <2>1. Below(T, s) \in SUBSET T /\ s \notin Below(T, s)
    BY DEF Below
  <2>2. IsFiniteSet(Below(T, s)) /\ rank[s] \in Nat /\ rank[s] <= N
    BY <1>2, <2>1, FS_Subset, FS_CardinalityType
  <2>3. rank[s] # N
    BY <1>2, <2>1, FS_Subset
  <2> QED
    BY <1>2, <2>2, <2>3
<1>4. ASSUME NEW s \in T, NEW t \in T, s < t
      PROVE  rank[s] < rank[t]
  <2>1. Below(T, s) \in SUBSET Below(T, t) /\ s \in Below(T, t) /\ s \notin Below(T, s)
    <3>1. \A a \in T : a \in Int
      OBVIOUS
    <3>2. \A a \in T : a < s => a < t
      BY <1>4, <3>1
    <3>3. ~ (s < s)
      BY <3>1
    <3> QED
      BY <1>4, <3>2, <3>3 DEF Below
  <2>2. rank[s] <= rank[t] /\ rank[s] # rank[t]
    BY <1>3, <2>1, FS_Subset
  <2> QED
    BY <1>3, <2>2
<1>5. \A s \in T : rank[s] \in 0 .. N - 1
  BY <1>2, <1>3
<1>6. \A j \in 0 .. N - 1 : \E s \in T : rank[s] = j
  <2> DEFINE Numbers == 0 .. N - 1
  <2>1. rank \in [T -> Numbers]
    BY <1>5
  <2>2. \A s, t \in T : rank[s] = rank[t] => s = t
    <3>1. \A s, t \in T : s < t \/ t < s \/ s = t
      OBVIOUS
    <3>2. \A s \in T : rank[s] \in Nat
      BY <1>3
    <3> HIDE DEF rank
    <3> QED
      BY <1>4, <3>1, <3>2
  <2>3. IsFiniteSet(Numbers) /\ Cardinality(Numbers) = N
    <3>1. 0 \in Int /\ N - 1 \in Int /\ (N - 1) - 0 + 1 = N /\ (0 > N - 1 => N = 0)
      BY <1>2
    <3> HIDE DEF N
    <3> QED
      BY <3>1, FS_Interval
  <2> HIDE DEF Numbers, rank
  <2>4. rank \in Injection(T, Numbers)
    BY <2>1, <2>2 DEF Injection, IsInjective
  <2>5. rank \in Surjection(T, Numbers)
    BY <2>3, <2>4, FS_Injection
  <2> QED
    BY <2>5 DEF Surjection, Numbers
<1> QED
  BY <1>2, <1>4, <1>5, <1>6

-----------------------------------------------------------------------------
(***************************************************************************)
(* Equivalent states.                                                      *)
(***************************************************************************)
IsCompleteDfa(D) ==
  /\ D.size \in Nat \ {0}
  /\ D \in [size       : {D.size},
            table      : [StatesOf(D) -> [Symbols -> StatesOf(D)]],
            accepted   : [StatesOf(D) -> SUBSET Rules],
            dead_state : Int]

Pairs(D) == StatesOf(D) \X StatesOf(D)

Successors(D, p, c) == <<D.table[p[1]][c], D.table[p[2]][c]>>

(* A relation whose pairs agree on the rules, now and after every symbol.  *)
IsBisimulationOf(D, R) ==
  /\ R \in SUBSET Pairs(D)
  /\ \A p \in R : /\ D.accepted[p[1]] = D.accepted[p[2]]
                  /\ \A c \in Symbols : Successors(D, p, c) \in R

(* What a pass of EquivalentPairs leaves of R.                             *)
KeptIn(D, R) == {p \in R : \A c \in Symbols : Successors(D, p, c) \in R}

ArePasses(D, R) ==
  /\ R \in [0 .. D.size -> SUBSET Pairs(D)]
  /\ R[0] = {p \in Pairs(D) : D.accepted[p[1]] = D.accepted[p[2]]}
  /\ \A k \in 1 .. D.size : R[k] = KeptIn(D, R[k - 1])

(* EquivalentPairs is what the last pass leaves.                           *)
LEMMA EquivalentPairsArePasses ==
  ASSUME NEW D, D.size \in Nat
  PROVE  \E R : ArePasses(D, R) /\ EquivalentPairs(D) = R[D.size]
<1> DEFINE Q == SUBSET Pairs(D)
           n == D.size
           start == {p \in StatesOf(D) \X StatesOf(D) : D.accepted[p[1]] = D.accepted[p[2]]}
           step == [k \in 1 .. n |-> [R \in Q |-> KeptIn(D, R)]]
           F(R) == [k \in 0 .. D.size |->
                      IF k = 0 THEN start
                      ELSE {p \in R[k - 1] : \A c \in Symbols :
                              <<D.table[p[1]][c], D.table[p[2]][c]>> \in R[k - 1]}]
<1>1. n \in Nat /\ \A k \in 1 .. n : k - 1 \in 0 .. n
  OBVIOUS
<1>2. step \in [1 .. n -> [Q -> Q]]
  <2>1. \A R \in Q : KeptIn(D, R) \in Q
    BY DEF KeptIn
  <2> QED
    BY <2>1
<1>3. start \in Q
  BY DEF Pairs
<1>4. PICK R : Follows(R, Q, step, start, n)
  <2> HIDE DEF Q, n, step, start
  <2> QED
    BY <1>1, <1>2, <1>3, StepsLeadSomewhere
<1>5. ArePasses(D, R)
  <2>1. ASSUME NEW k \in 1 .. n
        PROVE  R[k] = KeptIn(D, R[k - 1])
    <3>1. R[k] = step[k][R[k - 1]] /\ R \in [0 .. n -> Q]
      BY <1>4 DEF Follows
    <3>2. R[k - 1] \in Q
      BY <1>1, <3>1
    <3> QED
      BY <3>1, <3>2
  <2> QED
    BY <1>4, <2>1 DEF Follows, ArePasses, Pairs
<1>6. R = F(R)
  <2>1. /\ R \in [0 .. n -> Q] /\ R[0] = start
        /\ \A k \in 1 .. n : R[k] = KeptIn(D, R[k - 1])
    BY <1>4, <1>5 DEF Follows, ArePasses
  <2>2. \A k \in 0 .. n : k # 0 => k \in 1 .. n
    BY <1>1
  <2> HIDE DEF Q, start
  <2> QED
    BY <2>1, <2>2 DEF KeptIn, Successors
<1>7. PICK at : at = F(at) /\ EquivalentPairs(D) = at[D.size]
  <2> DEFINE chosen == CHOOSE at : at = F(at)
  <2>1. chosen = F(chosen)
    <3> HIDE DEF F
    <3> QED
      BY <1>6
  <2>2. EquivalentPairs(D) = chosen[D.size]
    BY DEF EquivalentPairs
  <2> QED
    BY <2>1, <2>2
<1>8. \A k \in 0 .. n : at[k] = IF k = 0 THEN start ELSE KeptIn(D, at[k - 1])
  BY <1>7 DEF KeptIn, Successors
<1>9. FollowsWhereDefined(at, Q, step, start, n)
  <2> HIDE DEF Q, start
  <2>1. at[0] = start
    BY <1>1, <1>8
  <2>2. ASSUME NEW k \in 1 .. n, at[k - 1] \in Q
        PROVE  at[k] = step[k][at[k - 1]]
    <3>1. k \in 0 .. n /\ k # 0
      BY <1>1
    <3>2. at[k] = KeptIn(D, at[k - 1])
      BY <1>8, <3>1
    <3> QED
      BY <2>2, <3>2
  <2> QED
    BY <2>1, <2>2 DEF FollowsWhereDefined
<1> HIDE DEF Q, n, step, start, F
<1>10. \A k \in 0 .. n : at[k] = R[k]
  BY <1>1, <1>2, <1>3, <1>4, <1>9, StepsLeadToOnePlace
<1> QED
  BY <1>1, <1>5, <1>7, <1>10 DEF n

(* Every bisimulation is part of it.                                       *)
LEMMA BisimulationsAreEquivalent ==
  ASSUME NEW D, D.size \in Nat, NEW R, IsBisimulationOf(D, R)
  PROVE  R \subseteq EquivalentPairs(D)
<1>1. PICK at : ArePasses(D, at) /\ EquivalentPairs(D) = at[D.size]
  BY EquivalentPairsArePasses
<1> DEFINE Off == {k \in 0 .. D.size : ~ (R \subseteq at[k])}
<1>2. SUFFICES ASSUME Off # {} PROVE FALSE
  BY <1>1
<1>3. PICK k \in Off : \A l \in Off : k <= l
  <2>1. Off \in SUBSET Nat
    OBVIOUS
  <2> HIDE DEF Off
  <2> QED
    BY <1>2, <2>1, LeastNumber
<1>4. CASE k = 0
  BY <1>1, <1>3, <1>4 DEF ArePasses, IsBisimulationOf
<1>5. CASE k # 0
  <2>1. k \in 1 .. D.size /\ k - 1 \in 0 .. D.size /\ k - 1 \notin Off
    BY <1>3, <1>5
  <2>2. at[k] = KeptIn(D, at[k - 1]) /\ R \subseteq at[k - 1]
    BY <1>1, <2>1 DEF ArePasses
  <2>3. R \subseteq at[k]
    BY <2>2 DEF KeptIn, IsBisimulationOf
  <2> QED
    BY <1>3, <2>3
<1> QED
  BY <1>4, <1>5

IsEquivalenceOn(S, R) ==
  /\ R \in SUBSET (S \X S)
  /\ \A s \in S : <<s, s>> \in R
  /\ \A s, t \in S : <<s, t>> \in R => <<t, s>> \in R
  /\ \A s, t, u \in S : <<s, t>> \in R /\ <<t, u>> \in R => <<s, u>> \in R

(* The smallest states of the classes.                                     *)
Firsts(n, R) == {s \in 0 .. n - 1 : \A t \in 0 .. n - 1 : <<s, t>> \in R => s <= t}

(* Every class has one.                                                    *)
LEMMA ClassesHaveFirsts ==
  ASSUME NEW n \in Nat, NEW R, IsEquivalenceOn(0 .. n - 1, R), NEW s \in 0 .. n - 1
  PROVE  \E t \in Firsts(n, R) : <<s, t>> \in R
<1> DEFINE class == {t \in 0 .. n - 1 : <<s, t>> \in R}
<1>1. PICK t \in class : \A u \in class : t <= u
  <2>1. class \in SUBSET Nat /\ class # {}
    BY DEF IsEquivalenceOn
  <2> HIDE DEF class
  <2> QED
    BY <2>1, LeastNumber
<1> QED
  BY <1>1 DEF Firsts, IsEquivalenceOn

(* A finer equivalence has more classes.                                   *)
LEMMA FinerHasMoreClasses ==
  ASSUME NEW n \in Nat, NEW R, IsEquivalenceOn(0 .. n - 1, R),
         NEW Q, IsEquivalenceOn(0 .. n - 1, Q), Q \subseteq R, Q # R
  PROVE  /\ Cardinality(Firsts(n, R)) \in Nat /\ Cardinality(Firsts(n, Q)) \in Nat
         /\ Cardinality(Firsts(n, R)) < Cardinality(Firsts(n, Q))
<1>1. IsFiniteSet(Firsts(n, Q)) /\ IsFiniteSet(Firsts(n, R))
  <2>1. IsFiniteSet(0 .. n - 1)
    BY FS_Interval
  <2>2. Firsts(n, Q) \in SUBSET (0 .. n - 1) /\ Firsts(n, R) \in SUBSET (0 .. n - 1)
    BY DEF Firsts
  <2> QED
    BY <2>1, <2>2, FS_Subset
<1>2. Firsts(n, R) \subseteq Firsts(n, Q)
  BY DEF Firsts
<1>3. Firsts(n, R) # Firsts(n, Q)
  <2>1. PICK p \in R : p \notin Q
    OBVIOUS
  <2>2. p \in (0 .. n - 1) \X (0 .. n - 1)
    BY DEF IsEquivalenceOn
  <2>3. PICK s \in 0 .. n - 1, t \in 0 .. n - 1 : p = <<s, t>>
    BY <2>2
  <2>4. PICK u \in Firsts(n, Q) : <<s, u>> \in Q
    BY ClassesHaveFirsts
  <2>5. PICK v \in Firsts(n, Q) : <<t, v>> \in Q
    BY ClassesHaveFirsts
  <2>6. u \in 0 .. n - 1 /\ v \in 0 .. n - 1
    BY DEF Firsts
  <2>7. <<u, v>> \in R /\ <<v, u>> \in R
    <3>1. <<s, t>> \in R /\ <<s, u>> \in R /\ <<t, v>> \in R
      BY <2>1, <2>3, <2>4, <2>5
    <3>2. <<u, s>> \in R /\ <<u, t>> \in R
      BY <2>6, <3>1 DEF IsEquivalenceOn
    <3> QED
      BY <2>6, <3>1, <3>2 DEF IsEquivalenceOn
  <2>8. u # v
    <3>1. SUFFICES ASSUME u = v PROVE <<s, t>> \in Q
      BY <2>1, <2>3
    <3>2. <<u, t>> \in Q
      BY <2>5, <2>6, <3>1 DEF IsEquivalenceOn
    <3> QED
      BY <2>4, <2>6, <3>2 DEF IsEquivalenceOn
  <2>9. u \in Firsts(n, R) /\ v \in Firsts(n, R) => u <= v /\ v <= u
    BY <2>6, <2>7 DEF Firsts
  <2> QED
    BY <2>6, <2>8, <2>9
<1>4. /\ Cardinality(Firsts(n, R)) \in Nat /\ Cardinality(Firsts(n, Q)) \in Nat
      /\ Cardinality(Firsts(n, R)) <= Cardinality(Firsts(n, Q))
      /\ Cardinality(Firsts(n, R)) # Cardinality(Firsts(n, Q))
  BY <1>1, <1>2, <1>3, FS_Subset, FS_CardinalityType
<1> QED
  BY <1>4

(* Of n states n times in a row no equivalence can get finer.              *)
LEMMA NarrowingStops ==
  ASSUME NEW n \in Nat \ {0}, NEW at,
         \A k \in 0 .. n : IsEquivalenceOn(0 .. n - 1, at[k]),
         \A k \in 1 .. n : at[k] \subseteq at[k - 1]
  PROVE  \E k \in 1 .. n : at[k] = at[k - 1]
<1> SUFFICES ASSUME \A k \in 1 .. n : at[k] # at[k - 1] PROVE FALSE
  OBVIOUS
<1> DEFINE classes(k) == Cardinality(Firsts(n, at[k]))
           Off == {k \in 0 .. n : ~ (classes(k) >= k + 1)}
<1>1. \A k \in 1 .. n : classes(k - 1) \in Nat /\ classes(k) \in Nat /\ classes(k - 1) < classes(k)
  <2> SUFFICES ASSUME NEW k \in 1 .. n
               PROVE  classes(k - 1) \in Nat /\ classes(k) \in Nat /\ classes(k - 1) < classes(k)
    OBVIOUS
  <2>1. k - 1 \in 0 .. n /\ k \in 0 .. n
    OBVIOUS
  <2>2. at[k] # at[k - 1] /\ at[k] \subseteq at[k - 1]
    OBVIOUS
  <2>3. IsEquivalenceOn(0 .. n - 1, at[k]) /\ IsEquivalenceOn(0 .. n - 1, at[k - 1])
    BY <2>1
  <2> QED
    BY <2>2, <2>3, FinerHasMoreClasses
<1>2. classes(0) \in Nat /\ classes(0) >= 1
  <2>1. 0 \in 0 .. n /\ 0 \in 0 .. n - 1
    OBVIOUS
  <2>2. Firsts(n, at[0]) # {}
    BY <2>1, ClassesHaveFirsts
  <2>3. Firsts(n, at[0]) \in SUBSET (0 .. n - 1) /\ IsFiniteSet(0 .. n - 1)
    BY FS_Interval DEF Firsts
  <2>4. IsFiniteSet(Firsts(n, at[0]))
    BY <2>3, FS_Subset
  <2>5. classes(0) \in Nat /\ classes(0) # 0
    BY <2>2, <2>4, FS_CardinalityType, FS_EmptySet
  <2> QED
    BY <2>5
<1>3. Off = {}
  <2>1. SUFFICES ASSUME Off # {} PROVE FALSE
    OBVIOUS
  <2>2. PICK k \in Off : \A l \in Off : k <= l
    <3>1. Off \in SUBSET Nat
      OBVIOUS
    <3> HIDE DEF Off
    <3> QED
      BY <2>1, <3>1, LeastNumber
  <2>3. k # 0
    BY <1>2, <2>2
  <2>4. k \in 1 .. n /\ k - 1 \in 0 .. n /\ k - 1 \notin Off
    BY <2>2, <2>3
  <2>5. classes(k - 1) >= (k - 1) + 1 /\ ~ (classes(k) >= k + 1)
    BY <2>2, <2>4
  <2>6. classes(k - 1) \in Nat /\ classes(k) \in Nat /\ classes(k - 1) < classes(k)
    BY <1>1, <2>4
  <2> HIDE DEF classes
  <2> QED
    BY <2>4, <2>5, <2>6
<1>4. classes(n) >= n + 1
  BY <1>3
<1>5. classes(n) <= n
  <2>1. Firsts(n, at[n]) \in SUBSET (0 .. n - 1)
    BY DEF Firsts
  <2>2. IsFiniteSet(0 .. n - 1) /\ Cardinality(0 .. n - 1) = n
    <3>1. 0 \in Int /\ n - 1 \in Int /\ ~ (0 > n - 1) /\ (n - 1) - 0 + 1 = n
      OBVIOUS
    <3> QED
      BY <3>1, FS_Interval
  <2> QED
    BY <2>1, <2>2, FS_Subset
<1>6. classes(n) \in Nat
  BY <1>1
<1> HIDE DEF classes
<1> QED
  BY <1>4, <1>5, <1>6

(* A pass leaves an equivalence.                                           *)
LEMMA PassesAreEquivalences ==
  ASSUME NEW D, IsCompleteDfa(D), NEW at, ArePasses(D, at)
  PROVE  \A k \in 0 .. D.size : IsEquivalenceOn(StatesOf(D), at[k])
<1> DEFINE Off == {k \in 0 .. D.size : ~ IsEquivalenceOn(StatesOf(D), at[k])}
<1>1. SUFFICES ASSUME Off # {} PROVE FALSE
  OBVIOUS
<1>2. PICK k \in Off : \A l \in Off : k <= l
  <2>1. Off \in SUBSET Nat
    OBVIOUS
  <2> HIDE DEF Off
  <2> QED
    BY <1>1, <2>1, LeastNumber
<1>3. CASE k = 0
  <2>1. at[0] = {p \in Pairs(D) : D.accepted[p[1]] = D.accepted[p[2]]}
    BY DEF ArePasses
  <2>2. \A s, t \in StatesOf(D) : <<s, t>> \in at[0] <=> D.accepted[s] = D.accepted[t]
    BY <2>1 DEF Pairs
  <2>3. at[0] \in SUBSET (StatesOf(D) \X StatesOf(D))
    BY <2>1 DEF Pairs
  <2>4. IsEquivalenceOn(StatesOf(D), at[0])
    BY <2>2, <2>3 DEF IsEquivalenceOn
  <2> QED
    BY <1>2, <1>3, <2>4
<1>4. CASE k # 0
  <2> DEFINE R == at[k - 1]
             S == StatesOf(D)
  <2>1. D.size \in Nat /\ k \in 1 .. D.size /\ k - 1 \in 0 .. D.size /\ k - 1 \notin Off
    BY <1>2, <1>4 DEF IsCompleteDfa
  <2>2. IsEquivalenceOn(S, R) /\ at[k] = KeptIn(D, R)
    BY <2>1 DEF ArePasses
  <2>3. \A s \in S, c \in Symbols : D.table[s][c] \in S
    BY DEF IsCompleteDfa
  <2> HIDE DEF R, S
  <2>4. \A s, t \in S : <<s, t>> \in at[k] <=>
           <<s, t>> \in R /\ \A c \in Symbols : <<D.table[s][c], D.table[t][c]>> \in R
    BY <2>2 DEF KeptIn, Successors
  <2>5. at[k] \in SUBSET (S \X S)
    BY <2>2 DEF KeptIn, IsEquivalenceOn
  <2>6. IsEquivalenceOn(S, at[k])
    <3>1. \A s \in S : <<s, s>> \in at[k]
      BY <2>2, <2>3, <2>4 DEF IsEquivalenceOn
    <3>2. ASSUME NEW s \in S, NEW t \in S, <<s, t>> \in at[k]
          PROVE  <<t, s>> \in at[k]
      <4>1. ASSUME NEW c \in Symbols
            PROVE  <<D.table[t][c], D.table[s][c]>> \in R
        <5>1. <<D.table[s][c], D.table[t][c]>> \in R
          BY <2>4, <3>2
        <5> QED
          BY <2>2, <2>3, <5>1 DEF IsEquivalenceOn
      <4>2. <<t, s>> \in R
        BY <2>2, <2>4, <3>2 DEF IsEquivalenceOn
      <4> QED
        BY <2>4, <4>1, <4>2
    <3>3. ASSUME NEW s \in S, NEW t \in S, NEW u \in S, <<s, t>> \in at[k], <<t, u>> \in at[k]
          PROVE  <<s, u>> \in at[k]
      <4>1. ASSUME NEW c \in Symbols
            PROVE  <<D.table[s][c], D.table[u][c]>> \in R
        <5>1. <<D.table[s][c], D.table[t][c]>> \in R /\ <<D.table[t][c], D.table[u][c]>> \in R
          BY <2>4, <3>3
        <5> QED
          BY <2>2, <2>3, <5>1 DEF IsEquivalenceOn
      <4>2. <<s, u>> \in R
        <5>1. <<s, t>> \in R /\ <<t, u>> \in R
          BY <2>4, <3>3
        <5> QED
          BY <2>2, <5>1 DEF IsEquivalenceOn
      <4> QED
        BY <2>4, <4>1, <4>2
    <3> QED
      BY <2>5, <3>1, <3>2, <3>3 DEF IsEquivalenceOn
  <2> QED
    BY <1>2, <2>6 DEF S
<1> QED
  BY <1>3, <1>4

(* As many passes as there are states are enough: each that drops a pair   *)
(* makes a class more.                                                     *)
LEMMA EquivalenceIsABisimulation ==
  ASSUME NEW D, IsCompleteDfa(D)
  PROVE  /\ IsBisimulationOf(D, EquivalentPairs(D))
         /\ IsEquivalenceOn(StatesOf(D), EquivalentPairs(D))
<1> DEFINE n == D.size
<1>0. n \in Nat \ {0} /\ StatesOf(D) = 0 .. n - 1
  BY DEF IsCompleteDfa, StatesOf
<1>1. PICK at : ArePasses(D, at) /\ EquivalentPairs(D) = at[n]
  BY <1>0, EquivalentPairsArePasses
<1>2. \A k \in 0 .. n : IsEquivalenceOn(0 .. n - 1, at[k])
  BY <1>0, <1>1, PassesAreEquivalences
<1>3. /\ \A k \in 1 .. n : k - 1 \in 0 .. n /\ at[k] = KeptIn(D, at[k - 1])
      /\ \A k \in 0 .. n : at[k] \in SUBSET Pairs(D)
  <2>1. \A k \in 1 .. n : k - 1 \in 0 .. n
    BY <1>0
  <2>2. \A k \in 1 .. n : at[k] = KeptIn(D, at[k - 1])
    BY <1>1 DEF ArePasses
  <2>3. at \in [0 .. n -> SUBSET Pairs(D)]
    BY <1>1 DEF ArePasses
  <2> HIDE DEF n
  <2> QED
    BY <2>1, <2>2, <2>3
<1>4. \A k \in 1 .. n : at[k] \subseteq at[k - 1]
  BY <1>3 DEF KeptIn
<1> HIDE DEF n
<1>5. \E k \in 0 .. n : KeptIn(D, at[k]) = at[k]
  <2>1. PICK k \in 1 .. n : at[k] = at[k - 1]
    BY <1>0, <1>2, <1>4, NarrowingStops
  <2> QED
    BY <1>3, <2>1
<1>6. PICK j \in 0 .. n : KeptIn(D, at[j]) = at[j]
  BY <1>5
<1>7. at[n] = at[j] /\ at[n] \subseteq at[0]
  <2> DEFINE Off == {k \in 0 .. n : ~ (at[k] \subseteq at[0] /\ (j <= k => at[k] = at[j]))}
  <2>1. SUFFICES ASSUME Off # {} PROVE FALSE
    BY <1>0
  <2>2. PICK k \in Off : \A l \in Off : k <= l
    <3>1. Off \in SUBSET Nat
      BY <1>0
    <3> HIDE DEF Off
    <3> QED
      BY <2>1, <3>1, LeastNumber
  <2>3. k # 0
    BY <2>2
  <2>4. k \in 1 .. n /\ k - 1 \in 0 .. n /\ k - 1 \notin Off
    BY <1>0, <2>2, <2>3
  <2>5. at[k - 1] \subseteq at[0] /\ (j <= k - 1 => at[k - 1] = at[j])
    BY <2>4
  <2>6. at[k] \subseteq at[0]
    BY <1>4, <2>4, <2>5
  <2>7. j <= k => at[k] = at[j]
    <3>1. j <= k => j = k \/ j <= k - 1
      BY <2>4
    <3>2. j <= k - 1 => at[k] = at[j]
      BY <1>3, <1>6, <2>4, <2>5
    <3> QED
      BY <3>1, <3>2
  <2> QED
    BY <2>2, <2>6, <2>7
<1>8. KeptIn(D, at[n]) = at[n]
  BY <1>6, <1>7
<1>9. \A p \in at[n] : D.accepted[p[1]] = D.accepted[p[2]]
  BY <1>1, <1>7 DEF ArePasses
<1>10. IsBisimulationOf(D, at[n])
  <2>1. at[n] \in SUBSET Pairs(D)
    BY <1>0, <1>3
  <2> QED
    BY <1>8, <1>9, <2>1 DEF IsBisimulationOf, KeptIn
<1>11. IsEquivalenceOn(StatesOf(D), at[n])
  BY <1>0, <1>2
<1> QED
  BY <1>1, <1>10, <1>11 DEF n

-----------------------------------------------------------------------------
(***************************************************************************)
(* The quotient.                                                           *)
(***************************************************************************)
(* The states it keeps, and the state of it that stands for s.             *)
KeptStates(D) == Firsts(D.size, EquivalentPairs(D))

NewName(D, s) == Cardinality(Below(KeptStates(D), SmallestEquivalent(D)[s]))

(* The smallest equivalent state is the first of the class.                *)
LEMMA SmallestEquivalentIsFirst ==
  ASSUME NEW D, IsCompleteDfa(D)
  PROVE  /\ SmallestEquivalent(D) \in [StatesOf(D) -> KeptStates(D)]
         /\ KeptStates(D) = {s \in StatesOf(D) : SmallestEquivalent(D)[s] = s}
         /\ \A s, t \in StatesOf(D) :
              SmallestEquivalent(D)[s] = SmallestEquivalent(D)[t] <=> <<s, t>> \in EquivalentPairs(D)
         /\ \A s \in StatesOf(D) : <<s, SmallestEquivalent(D)[s]>> \in EquivalentPairs(D)
<1> DEFINE n == D.size
           S == StatesOf(D)
           same == EquivalentPairs(D)
           trans == SmallestEquivalent(D)
           Is(s, t) == <<s, t>> \in same /\ \A u \in S : <<s, u>> \in same => t <= u
<1>0. n \in Nat /\ S = 0 .. n - 1
  BY DEF IsCompleteDfa, StatesOf
<1>1. IsEquivalenceOn(S, same)
  BY EquivalenceIsABisimulation
<1>2. trans = [s \in S |-> CHOOSE t \in S : Is(s, t)]
  BY DEF SmallestEquivalent
<1>3. KeptStates(D) = {s \in S : \A t \in S : <<s, t>> \in same => s <= t}
  BY <1>0 DEF KeptStates, Firsts
<1> HIDE DEF same, n, trans
<1>4. \A s \in S : \E t \in S : Is(s, t)
  <2> SUFFICES ASSUME NEW s \in S PROVE \E t \in S : Is(s, t)
    OBVIOUS
  <2>1. PICK t \in Firsts(n, same) : <<s, t>> \in same
    BY <1>0, <1>1, ClassesHaveFirsts
  <2>2. t \in S /\ \A u \in S : <<t, u>> \in same => t <= u
    BY <1>0, <2>1 DEF Firsts
  <2>3. \A u \in S : <<s, u>> \in same => <<t, u>> \in same
    BY <1>1, <2>1, <2>2 DEF IsEquivalenceOn
  <2> QED
    BY <2>1, <2>2, <2>3
<1>5. \A s \in S : trans[s] \in S /\ Is(s, trans[s])
  BY <1>2, <1>4
<1>6. \A s \in S : trans[s] \in KeptStates(D)
  <2> SUFFICES ASSUME NEW s \in S, NEW u \in S, <<trans[s], u>> \in same
               PROVE  trans[s] <= u
    BY <1>3, <1>5
  <2>1. <<s, u>> \in same
    BY <1>1, <1>5 DEF IsEquivalenceOn
  <2> QED
    BY <1>5, <2>1
<1>7. \A s, t \in S : trans[s] = trans[t] <=> <<s, t>> \in same
  <2>1. ASSUME NEW s \in S, NEW t \in S, trans[s] = trans[t]
        PROVE  <<s, t>> \in same
    <3>1. <<s, trans[s]>> \in same /\ <<trans[s], t>> \in same
      BY <1>1, <1>5, <2>1 DEF IsEquivalenceOn
    <3> QED
      BY <1>1, <1>5, <3>1 DEF IsEquivalenceOn
  <2>2. ASSUME NEW s \in S, NEW t \in S, <<s, t>> \in same
        PROVE  trans[s] = trans[t]
    <3>1. <<t, s>> \in same /\ <<s, trans[s]>> \in same /\ <<t, trans[t]>> \in same
      BY <1>1, <1>5, <2>2 DEF IsEquivalenceOn
    <3>2. <<t, trans[s]>> \in same /\ <<s, trans[t]>> \in same
      BY <1>1, <1>5, <2>2, <3>1 DEF IsEquivalenceOn
    <3>3. trans[t] <= trans[s] /\ trans[s] <= trans[t]
      BY <1>5, <3>2
    <3>4. trans[s] \in Int /\ trans[t] \in Int
      <4>1. trans[s] \in S /\ trans[t] \in S
        BY <1>5
      <4> QED
        BY <1>0, <4>1
    <3> QED
      BY <3>3, <3>4
  <2> QED
    BY <2>1, <2>2
<1>8. \A s \in KeptStates(D) : s \in S /\ trans[s] = s
  <2> SUFFICES ASSUME NEW s \in KeptStates(D) PROVE s \in S /\ trans[s] = s
    OBVIOUS
  <2>1. s \in S /\ \A t \in S : <<s, t>> \in same => s <= t
    BY <1>3
  <2>2. <<s, s>> \in same
    BY <1>1, <2>1 DEF IsEquivalenceOn
  <2>3. trans[s] \in S /\ Is(s, trans[s])
    BY <1>5, <2>1
  <2>4. trans[s] <= s /\ s <= trans[s]
    BY <2>1, <2>2, <2>3
  <2>5. trans[s] \in Int /\ s \in Int
    BY <1>0, <2>1, <2>3
  <2> QED
    BY <2>1, <2>4, <2>5
<1>9. KeptStates(D) = {s \in S : trans[s] = s}
  BY <1>6, <1>8
<1>10. trans \in [S -> KeptStates(D)]
  BY <1>2, <1>6
<1> QED
  BY <1>5, <1>7, <1>9, <1>10 DEF same, trans

(* The quotient is the automaton with its classes of equivalent states     *)
(* renamed to numbers.                                                     *)
LEMMA QuotientRenames ==
  ASSUME NEW D, IsCompleteDfa(D)
  PROVE  /\ IsCompleteDfa(Quotient(D))
         /\ Quotient(D).size = Cardinality(KeptStates(D))
         /\ Quotient(D).dead_state = D.dead_state
         /\ \A s \in StatesOf(D) :
              /\ NewName(D, s) \in StatesOf(Quotient(D))
              /\ Quotient(D).accepted[NewName(D, s)] = D.accepted[s]
              /\ \A c \in Symbols : Quotient(D).table[NewName(D, s)][c] = NewName(D, D.table[s][c])
         /\ \A s, t \in StatesOf(D) :
              NewName(D, s) = NewName(D, t) <=> <<s, t>> \in EquivalentPairs(D)
         /\ \A j \in StatesOf(Quotient(D)) : \E s \in KeptStates(D) : NewName(D, s) = j
         /\ NewName(D, 0) = 0
<1> DEFINE S == StatesOf(D)
           E == Quotient(D)
           trans == SmallestEquivalent(D)
           kept == {s \in S : trans[s] = s}
           newId == [s \in kept |-> Cardinality({t \in kept : t < s})]
           size == Cardinality(kept)
           old == [j \in 0 .. size - 1 |-> CHOOSE s \in kept : newId[s] = j]
           table == [j \in DOMAIN old |-> [c \in Symbols |-> newId[trans[D.table[old[j]][c]]]]]
           accepted == [j \in DOMAIN old |-> D.accepted[old[j]]]
<1>0. /\ D.size \in Nat \ {0} /\ S = 0 .. D.size - 1 /\ 0 \in S
      /\ D \in [size : {D.size}, table : [S -> [Symbols -> S]],
                accepted : [S -> SUBSET Rules], dead_state : Int]
  BY DEF IsCompleteDfa, StatesOf
<1>1. E = [D EXCEPT !.size = size, !.table = table, !.accepted = accepted]
  BY DEF Quotient
<1>2. E = [size |-> size, table |-> table, accepted |-> accepted, dead_state |-> D.dead_state]
  <2> HIDE DEF E, size, table, accepted
  <2> QED
    BY <1>0, <1>1
<1>3. /\ kept = KeptStates(D) /\ kept \in SUBSET S
      /\ \A s \in S : trans[s] \in kept
      /\ \A s \in kept : trans[s] = s
      /\ \A s, t \in S : trans[s] = trans[t] <=> <<s, t>> \in EquivalentPairs(D)
      /\ \A s \in S : <<s, trans[s]>> \in EquivalentPairs(D)
  BY SmallestEquivalentIsFirst
<1>4. newId = [s \in kept |-> Cardinality(Below(kept, s))]
  BY DEF Below
<1>5. \A s \in S : NewName(D, s) = newId[trans[s]]
  BY <1>3, <1>4 DEF NewName
<1> HIDE DEF kept, newId, trans
<1>6. /\ size \in 0 .. D.size
      /\ \A s \in kept : newId[s] \in 0 .. size - 1
      /\ \A s, t \in kept : s < t => newId[s] < newId[t]
      /\ \A j \in 0 .. size - 1 : \E s \in kept : newId[s] = j
  BY <1>0, <1>3, <1>4, MembersAreNumbered
<1>7. \A s, t \in kept : newId[s] = newId[t] => s = t
  <2>1. \A s, t \in kept : s < t \/ t < s \/ s = t
    BY <1>0, <1>3
  <2>2. \A s \in kept : newId[s] \in Int
    BY <1>6
  <2> QED
    BY <1>6, <2>1, <2>2
<1>8. size \in Nat \ {0}
  <2>1. trans[0] \in kept
    BY <1>0, <1>3
  <2>2. newId[trans[0]] \in 0 .. size - 1
    BY <1>6, <2>1
  <2> QED
    BY <1>6, <2>2
<1>9. \A j \in 0 .. size - 1 : old[j] \in kept /\ newId[old[j]] = j
  BY <1>6
<1>10. \A s \in kept : newId[s] \in 0 .. size - 1 /\ old[newId[s]] = s
  BY <1>6, <1>7, <1>9
<1>11. DOMAIN old = 0 .. size - 1 /\ StatesOf(E) = 0 .. size - 1
  BY <1>2 DEF StatesOf
<1> HIDE DEF old, size, E
<1>12. /\ table = [j \in 0 .. size - 1 |-> [c \in Symbols |-> newId[trans[D.table[old[j]][c]]]]]
       /\ accepted = [j \in 0 .. size - 1 |-> D.accepted[old[j]]]
  BY <1>11
<1> HIDE DEF table, accepted
<1>13. table \in [0 .. size - 1 -> [Symbols -> 0 .. size - 1]]
  <2>1. \A j \in 0 .. size - 1, c \in Symbols : newId[trans[D.table[old[j]][c]]] \in 0 .. size - 1
    <3> SUFFICES ASSUME NEW j \in 0 .. size - 1, NEW c \in Symbols
                 PROVE  newId[trans[D.table[old[j]][c]]] \in 0 .. size - 1
      OBVIOUS
    <3>1. old[j] \in S
      BY <1>3, <1>9
    <3>2. D.table[old[j]][c] \in S
      BY <1>0, <3>1
    <3> QED
      BY <1>3, <1>10, <3>2
  <2> QED
    BY <1>12, <2>1
<1>14. accepted \in [0 .. size - 1 -> SUBSET Rules]
  <2>1. \A j \in 0 .. size - 1 : D.accepted[old[j]] \in SUBSET Rules
    BY <1>0, <1>3, <1>9
  <2> QED
    BY <1>12, <2>1
<1>15. E.size = size /\ E.dead_state = D.dead_state /\ E.table = table /\ E.accepted = accepted
  BY <1>2
<1>16. IsCompleteDfa(E)
  <2>1. D.dead_state \in Int
    BY <1>0
  <2>2. E \in [size : {size}, table : [StatesOf(E) -> [Symbols -> StatesOf(E)]],
               accepted : [StatesOf(E) -> SUBSET Rules], dead_state : Int]
    BY <1>2, <1>11, <1>13, <1>14, <2>1
  <2> QED
    BY <1>8, <1>15, <2>2 DEF IsCompleteDfa
<1>17. ASSUME NEW s \in S
       PROVE  /\ NewName(D, s) \in StatesOf(E)
              /\ E.accepted[NewName(D, s)] = D.accepted[s]
              /\ \A c \in Symbols : E.table[NewName(D, s)][c] = NewName(D, D.table[s][c])
  <2> DEFINE j == NewName(D, s)
  <2>1. j \in 0 .. size - 1 /\ old[j] = trans[s]
    BY <1>3, <1>5, <1>10
  <2>2. /\ D.accepted[s] = D.accepted[trans[s]]
        /\ \A c \in Symbols : <<D.table[s][c], D.table[trans[s]][c]>> \in EquivalentPairs(D)
    <3>1. IsBisimulationOf(D, EquivalentPairs(D))
      BY EquivalenceIsABisimulation
    <3>2. <<s, trans[s]>> \in EquivalentPairs(D)
      BY <1>3
    <3> QED
      BY <3>1, <3>2 DEF IsBisimulationOf, Successors
  <2>3. trans[s] \in S /\ \A c \in Symbols : D.table[s][c] \in S /\ D.table[trans[s]][c] \in S
    BY SMTT(20), <1>0, <1>3
  <2>4. ASSUME NEW c \in Symbols
        PROVE  trans[D.table[s][c]] = trans[D.table[trans[s]][c]]
    <3>1. /\ D.table[s][c] \in S /\ D.table[trans[s]][c] \in S
          /\ <<D.table[s][c], D.table[trans[s]][c]>> \in EquivalentPairs(D)
      BY <2>2, <2>3
    <3> QED
      BY <1>3, <3>1
  <2>5. E.accepted[j] = D.accepted[s]
    <3> HIDE DEF j
    <3>1. accepted[j] = D.accepted[old[j]]
      BY <1>12, <2>1
    <3> QED
      BY <1>15, <2>1, <2>2, <3>1
  <2>6. ASSUME NEW c \in Symbols
        PROVE  E.table[j][c] = NewName(D, D.table[s][c])
    <3>1. E.table[j][c] = newId[trans[D.table[trans[s]][c]]]
      <4> HIDE DEF j
      <4>1. table[j] = [a \in Symbols |-> newId[trans[D.table[old[j]][a]]]]
        BY <1>12, <2>1
      <4>2. table[j][c] = newId[trans[D.table[old[j]][c]]]
        BY <4>1
      <4> QED
        BY <1>15, <2>1, <4>2
    <3>2. NewName(D, D.table[s][c]) = newId[trans[D.table[s][c]]]
      BY <1>5, <2>3
    <3> QED
      BY <2>4, <3>1, <3>2
  <2> QED
    BY <1>11, <2>1, <2>5, <2>6
<1>18. \A s, t \in S : NewName(D, s) = NewName(D, t) <=> <<s, t>> \in EquivalentPairs(D)
  <2> SUFFICES ASSUME NEW s \in S, NEW t \in S
               PROVE  NewName(D, s) = NewName(D, t) <=> <<s, t>> \in EquivalentPairs(D)
    OBVIOUS
  <2>1. NewName(D, s) = newId[trans[s]] /\ NewName(D, t) = newId[trans[t]]
    BY <1>5
  <2>2. trans[s] \in kept /\ trans[t] \in kept
    BY <1>3
  <2>3. trans[s] = trans[t] <=> <<s, t>> \in EquivalentPairs(D)
    BY <1>3
  <2> QED
    BY <1>7, <2>1, <2>2, <2>3
<1>19. \A j \in StatesOf(E) : \E s \in KeptStates(D) : NewName(D, s) = j
  BY <1>3, <1>5, <1>9, <1>11
<1>20. NewName(D, 0) = 0
  <2>1. trans[0] = 0
    <3>1. <<0, 0>> \in EquivalentPairs(D)
      BY <1>0, EquivalenceIsABisimulation DEF IsEquivalenceOn
    <3>2. trans[0] \in KeptStates(D) /\ <<0, trans[0]>> \in EquivalentPairs(D)
      BY <1>0, <1>3
    <3>3. trans[0] \in S
      BY <1>3, <3>2
    <3>4. <<trans[0], 0>> \in EquivalentPairs(D)
      BY <1>0, <3>2, <3>3, EquivalenceIsABisimulation DEF IsEquivalenceOn
    <3>5. trans[0] <= 0
      BY <1>0, <3>2, <3>4 DEF KeptStates, Firsts
    <3> QED
      BY <1>0, <3>3, <3>5
  <2>2. Below(kept, 0) = {}
    BY <1>0, <1>3 DEF Below
  <2>3. NewName(D, 0) = Cardinality(Below(kept, trans[0]))
    BY <1>3 DEF NewName, trans
  <2> QED
    BY <2>1, <2>2, <2>3, FS_EmptySet
<1> QED
  BY <1>0, <1>3, <1>15, <1>16, <1>17, <1>18, <1>19, <1>20 DEF E, size

(* No two states of it are equivalent.                                     *)
LEMMA QuotientIsReduced ==
  ASSUME NEW D, IsCompleteDfa(D)
  PROVE  \A p \in EquivalentPairs(Quotient(D)) : p[1] = p[2]
<1> DEFINE E == Quotient(D)
           R == {p \in Pairs(D) : <<NewName(D, p[1]), NewName(D, p[2])>> \in EquivalentPairs(E)}
<1>1. IsBisimulationOf(E, EquivalentPairs(E))
  BY QuotientRenames, EquivalenceIsABisimulation
<1>2. \A s \in StatesOf(D), c \in Symbols : D.table[s][c] \in StatesOf(D)
  BY DEF IsCompleteDfa
<1>3. IsBisimulationOf(D, R)
  <2> SUFFICES ASSUME NEW s \in StatesOf(D), NEW t \in StatesOf(D),
                      <<NewName(D, s), NewName(D, t)>> \in EquivalentPairs(E)
               PROVE  /\ D.accepted[s] = D.accepted[t]
                      /\ \A c \in Symbols :
                           <<NewName(D, D.table[s][c]), NewName(D, D.table[t][c])>> \in EquivalentPairs(E)
    BY <1>2 DEF IsBisimulationOf, Successors, Pairs
  <2>1. /\ E.accepted[NewName(D, s)] = E.accepted[NewName(D, t)]
        /\ \A c \in Symbols :
             <<E.table[NewName(D, s)][c], E.table[NewName(D, t)][c]>> \in EquivalentPairs(E)
    BY <1>1 DEF IsBisimulationOf, Successors
  <2> QED
    BY <2>1, QuotientRenames
<1>4. R \subseteq EquivalentPairs(D)
  BY <1>3, BisimulationsAreEquivalent DEF IsCompleteDfa
<1>5. SUFFICES ASSUME NEW p \in EquivalentPairs(E) PROVE p[1] = p[2]
  OBVIOUS
<1>6. PICK j \in StatesOf(E), k \in StatesOf(E) : p = <<j, k>>
  BY <1>1, <1>5 DEF IsBisimulationOf, Pairs
<1>7. PICK s \in KeptStates(D) : NewName(D, s) = j
  BY QuotientRenames
<1>8. PICK t \in KeptStates(D) : NewName(D, t) = k
  BY QuotientRenames
<1>9. s \in StatesOf(D) /\ t \in StatesOf(D)
  BY DEF KeptStates, Firsts, StatesOf
<1>10. <<s, t>> \in R
  BY <1>5, <1>6, <1>7, <1>8, <1>9 DEF Pairs
<1>11. NewName(D, s) = NewName(D, t)
  BY <1>4, <1>9, <1>10, QuotientRenames
<1> QED
  BY <1>6, <1>7, <1>8, <1>11

(* The pairs JointlyReached collects are in every set that holds the entry *)
(* states and is kept by the symbols.                                      *)
LEMMA JointlyReachedIsLeast ==
  ASSUME NEW D, NEW E, D.size \in Nat, E.size \in Nat, NEW T, << 0, 0 >> \in T,
         \A p \in T, c \in Symbols : <<D.table[p[1]][c], E.table[p[2]][c]>> \in T
  PROVE  JointlyReached(D, E) \subseteq T
<1> DEFINE Q == SUBSET T
           n == D.size * E.size
           start == {<<0, 0>>}
           More(R) == R \cup {<<D.table[p[1]][c], E.table[p[2]][c]>> : p \in R, c \in Symbols}
           step == [k \in 1 .. n |-> [R \in Q |-> More(R)]]
           F(R) == [k \in 0 .. D.size * E.size |-> IF k = 0 THEN start ELSE More(R[k - 1])]
<1>1. n \in Nat /\ \A k \in 1 .. n : k - 1 \in 0 .. n
  OBVIOUS
<1>2. step \in [1 .. n -> [Q -> Q]]
  <2>1. \A R \in Q : More(R) \in Q
    OBVIOUS
  <2> HIDE DEF Q, More
  <2> QED
    BY <2>1
<1>3. start \in Q
  OBVIOUS
<1>4. PICK bt : Follows(bt, Q, step, start, n)
  <2> HIDE DEF Q, n, step, start
  <2> QED
    BY <1>1, <1>2, <1>3, StepsLeadSomewhere
<1>5. bt = F(bt)
  <2>1. ASSUME NEW k \in 1 .. n
        PROVE  bt[k] = More(bt[k - 1])
    <3>1. bt[k] = step[k][bt[k - 1]] /\ bt \in [0 .. n -> Q]
      <4> HIDE DEF Q, n, step, start
      <4> QED
        BY <1>4 DEF Follows
    <3>2. bt[k - 1] \in Q
      BY <1>1, <3>1
    <3> HIDE DEF More, Q
    <3> QED
      BY <3>1, <3>2
  <2>2. bt \in [0 .. n -> Q] /\ bt[0] = start
    BY <1>4 DEF Follows
  <2>3. \A k \in 0 .. n : k # 0 => k \in 1 .. n
    BY <1>1
  <2> HIDE DEF Q, start, More
  <2> QED
    BY <2>1, <2>2, <2>3
<1>6. PICK at : at = F(at) /\ JointlyReached(D, E) = at[n]
  <2> DEFINE chosen == CHOOSE at : at = F(at)
  <2>1. chosen = F(chosen)
    <3> HIDE DEF F
    <3> QED
      BY <1>5
  <2>2. JointlyReached(D, E) = chosen[D.size * E.size]
    BY DEF JointlyReached
  <2> HIDE DEF F
  <2> QED
    BY <2>1, <2>2
<1>7. \A k \in 0 .. n : at[k] = IF k = 0 THEN start ELSE More(at[k - 1])
  <2> HIDE DEF start, More
  <2> QED
    BY <1>6
<1>8. FollowsWhereDefined(at, Q, step, start, n)
  <2> HIDE DEF Q, start, More
  <2>1. at[0] = start
    BY <1>1, <1>7
  <2>2. ASSUME NEW k \in 1 .. n, at[k - 1] \in Q
        PROVE  at[k] = step[k][at[k - 1]]
    <3>1. k \in 0 .. n /\ k # 0
      BY <1>1
    <3>2. at[k] = More(at[k - 1])
      BY <1>7, <3>1
    <3> QED
      BY <2>2, <3>2
  <2> QED
    BY <2>1, <2>2 DEF FollowsWhereDefined
<1>9. bt[n] \in Q
  BY <1>1, <1>4 DEF Follows
<1> HIDE DEF Q, n, step, start, F
<1>10. \A k \in 0 .. n : at[k] = bt[k]
  BY <1>1, <1>2, <1>3, <1>4, <1>8, StepsLeadToOnePlace
<1> QED
  BY <1>1, <1>6, <1>9, <1>10 DEF Q

(* The quotient reports the same rules, in the sense of SameRules ...      *)
LEMMA QuotientHasSameRules ==
  ASSUME NEW D, IsCompleteDfa(D)
  PROVE  SameRules(D, Quotient(D))
<1> DEFINE T == {<<s, NewName(D, s)>> : s \in StatesOf(D)}
<1>1. 0 \in StatesOf(D) /\ \A s \in StatesOf(D), c \in Symbols : D.table[s][c] \in StatesOf(D)
  BY DEF IsCompleteDfa, StatesOf
<1>2. <<0, 0>> \in T
  BY <1>1, QuotientRenames
<1>3. ASSUME NEW p \in T, NEW c \in Symbols
      PROVE  <<D.table[p[1]][c], Quotient(D).table[p[2]][c]>> \in T
  <2>1. PICK s \in StatesOf(D) : p = <<s, NewName(D, s)>>
    OBVIOUS
  <2>2. Quotient(D).table[p[2]][c] = NewName(D, D.table[s][c])
    BY <2>1, QuotientRenames
  <2> QED
    BY <1>1, <2>1, <2>2
<1>4. JointlyReached(D, Quotient(D)) \subseteq T
  <2>1. D.size \in Nat /\ Quotient(D).size \in Nat
    BY QuotientRenames DEF IsCompleteDfa
  <2> HIDE DEF T
  <2> QED
    BY <1>2, <1>3, <2>1, JointlyReachedIsLeast
<1>5. \A s \in StatesOf(D) : Quotient(D).accepted[NewName(D, s)] = D.accepted[s]
  BY QuotientRenames
<1> QED
  BY <1>4, <1>5 DEF SameRules

(* ... and after every word it is in the state that stands for the one the *)
(* automaton is in.                                                        *)
LEMMA QuotientFollows ==
  ASSUME NEW D, IsCompleteDfa(D), NEW s \in StatesOf(D), NEW w \in Seq(Symbols)
  PROVE  RunFrom(Quotient(D), NewName(D, s), w) = NewName(D, RunFrom(D, s, w))
<1> DEFINE E == Quotient(D)
<1>0. /\ D.table \in [StatesOf(D) -> [Symbols -> StatesOf(D)]]
      /\ E.table \in [StatesOf(E) -> [Symbols -> StatesOf(E)]]
      /\ NewName(D, s) \in StatesOf(E)
  BY QuotientRenames DEF IsCompleteDfa
<1> HIDE DEF E
<1>1. PICK at : IsRun(D, s, w, at) /\ RunFrom(D, s, w) = at[Len(w)]
  BY <1>0, RunFromIsRun
<1>2. PICK bt : IsRun(E, NewName(D, s), w, bt) /\ RunFrom(E, NewName(D, s), w) = bt[Len(w)]
  BY <1>0, RunFromIsRun
<1> DEFINE Off == {k \in 0 .. Len(w) : bt[k] # NewName(D, at[k])}
<1>3. Len(w) \in Nat
  OBVIOUS
<1>4. SUFFICES ASSUME Off # {} PROVE FALSE
  BY <1>1, <1>2, <1>3 DEF E
<1>5. PICK k \in Off : \A l \in Off : k <= l
  <2>1. Off \in SUBSET Nat
    OBVIOUS
  <2> HIDE DEF Off
  <2> QED
    BY <1>4, <2>1, LeastNumber
<1>6. k # 0
  BY <1>1, <1>2, <1>5 DEF IsRun
<1>7. k \in 1 .. Len(w) /\ k - 1 \in 0 .. Len(w) /\ k - 1 \notin Off
  BY <1>3, <1>5, <1>6
<1>8. bt[k - 1] = NewName(D, at[k - 1]) /\ at[k - 1] \in StatesOf(D) /\ w[k] \in Symbols
  BY <1>1, <1>7 DEF IsRun
<1>9. at[k] = D.table[at[k - 1]][w[k]] /\ bt[k] = E.table[bt[k - 1]][w[k]]
  BY <1>1, <1>2, <1>7 DEF IsRun
<1>10. bt[k] = NewName(D, at[k])
  BY <1>8, <1>9, QuotientRenames DEF E
<1> QED
  BY <1>5, <1>10
=============================================================================
