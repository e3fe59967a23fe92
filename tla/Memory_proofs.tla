--------------------------- MODULE Memory_proofs ---------------------------
(***************************************************************************)
(* Proofs about Memory, for every list of compressed DFAs and every NFA,   *)
(* each layout and threshold, and every cache; and about FbDfa, for every  *)
(* list of DFAs, every width of a symbol and every size of the blocks.     *)
(***************************************************************************)
EXTENDS Memory, FbDfa, Automata_proofs, FiniteSetTheorems

-----------------------------------------------------------------------------
(***************************************************************************)
(* Sums.                                                                   *)
(***************************************************************************)
LEMMA SumsAre ==
  ASSUME NEW n \in Nat, NEW f \in [0 .. n - 1 -> Nat]
  PROVE  /\ Sums(f, n) \in [0 .. n -> Nat]
         /\ Sums(f, n)[0] = 0
         /\ \A k \in 0 .. n - 1 : Sums(f, n)[k + 1] = Sums(f, n)[k] + f[k]
<1> DEFINE step == [k \in 1 .. n |-> [x \in Nat |-> x + f[k - 1]]]
           S == Nat
           start == 0
           F(g) == [k \in 0 .. n |-> IF k = 0 THEN 0 ELSE g[k - 1] + f[k - 1]]
           sum == CHOOSE g : g = F(g)
<1>1. \A k \in 1 .. n : k - 1 \in 0 .. n - 1 /\ k - 1 \in 0 .. n
  OBVIOUS
<1>2. step \in [1 .. n -> [Nat -> Nat]]
  BY <1>1
<1>3. PICK g : Follows(g, Nat, step, 0, n)
  BY <1>2, StepsLeadSomewhere
<1>4. g = F(g)
  <2>1. g \in [0 .. n -> Nat] /\ g[0] = 0 /\ \A k \in 1 .. n : g[k] = step[k][g[k - 1]]
    BY <1>3 DEF Follows
  <2>2. \A k \in 1 .. n : g[k] = g[k - 1] + f[k - 1]
    BY <1>1, <2>1
  <2> QED
    BY <1>1, <2>1, <2>2
<1>5. sum = F(sum)
  BY <1>4
<1>6. Sums(f, n) = sum
  BY DEF Sums
<1>7. FollowsWhereDefined(sum, Nat, step, 0, n)
  <2>1. \A k \in 0 .. n : sum[k] = IF k = 0 THEN 0 ELSE sum[k - 1] + f[k - 1]
    <3> HIDE DEF sum
    <3> QED
      BY <1>5
  <2> HIDE DEF sum
  <2>2. sum[0] = 0
    BY <2>1
  <2>3. ASSUME NEW k \in 1 .. n, sum[k - 1] \in Nat
        PROVE  sum[k] = step[k][sum[k - 1]]
    <3>1. k \in 0 .. n /\ k # 0
      OBVIOUS
    <3>2. sum[k] = sum[k - 1] + f[k - 1]
      BY <2>1, <3>1
    <3> QED
      BY <2>3, <3>2
  <2> QED
    BY <2>2, <2>3 DEF FollowsWhereDefined
<1>8. \A k \in 0 .. n : sum[k] = g[k]
  <2> HIDE DEF sum, step
  <2>1. /\ start \in S /\ step \in [1 .. n -> [S -> S]]
        /\ Follows(g, S, step, start, n) /\ FollowsWhereDefined(sum, S, step, start, n)
    BY <1>2, <1>3, <1>7
  <2> HIDE DEF S, start
  <2> QED
    BY <2>1, StepsLeadToOnePlace
<1>9. g \in [0 .. n -> Nat] /\ g[0] = 0 /\ \A k \in 1 .. n : g[k] = g[k - 1] + f[k - 1]
  BY <1>1, <1>3 DEF Follows
<1>10. sum = [k \in 0 .. n |-> sum[k]]
  <2> HIDE DEF sum
  <2> QED
    BY <1>5
<1> HIDE DEF sum, step
<1>11. sum \in [0 .. n -> Nat] /\ sum[0] = 0
  BY <1>8, <1>9, <1>10
<1>12. \A k \in 0 .. n - 1 : sum[k + 1] = sum[k] + f[k]
  <2> SUFFICES ASSUME NEW k \in 0 .. n - 1
               PROVE  sum[k + 1] = sum[k] + f[k]
    OBVIOUS
  <2>1. k + 1 \in 1 .. n /\ (k + 1) - 1 = k /\ k \in 0 .. n /\ k + 1 \in 0 .. n
    OBVIOUS
  <2> QED
    BY <1>8, <1>9, <2>1
<1> QED
  BY <1>6, <1>11, <1>12

(* A sum over more is not smaller.                                         *)
LEMMA SumsGrow ==
  ASSUME NEW n \in Nat, NEW f \in [0 .. n - 1 -> Nat],
         NEW j \in 0 .. n, NEW k \in 0 .. n, j <= k
  PROVE  Sums(f, n)[j] <= Sums(f, n)[k]
<1> DEFINE sum == Sums(f, n)
           Off == {m \in Nat : j <= m /\ m <= n /\ ~ (sum[j] <= sum[m])}
<1>1. /\ sum \in [0 .. n -> Nat]
      /\ \A m \in 0 .. n - 1 : sum[m + 1] = sum[m] + f[m]
  BY SumsAre
<1> HIDE DEF sum
<1>2. SUFFICES ASSUME Off # {} PROVE FALSE
  <2>1. ASSUME Off = {} PROVE sum[j] <= sum[k]
    <3>1. k \in Nat /\ j <= k /\ k <= n
      OBVIOUS
    <3> QED
      BY <2>1, <3>1
  <2> QED
    BY <2>1 DEF sum
<1>3. PICK m \in Off : \A l \in Off : m <= l
  <2>1. Off \in SUBSET Nat
    OBVIOUS
  <2> HIDE DEF Off
  <2> QED
    BY <1>2, <2>1, LeastNumber
<1>4. m # j /\ m - 1 \in 0 .. n - 1 /\ j <= m - 1 /\ (m - 1) + 1 = m
  BY <1>1, <1>3
<1>5. m - 1 \notin Off
  BY <1>3, <1>4
<1>6. sum[j] <= sum[m - 1]
  BY <1>4, <1>5
<1>7. sum[m] = sum[m - 1] + f[m - 1]
  BY <1>1, <1>4
<1> QED
  BY <1>1, <1>3, <1>4, <1>6, <1>7

(* Numbers of a set that are each counted at least once.                   *)
LEMMA SumsCount ==
  ASSUME NEW n \in Nat, NEW f \in [0 .. n - 1 -> Nat],
         NEW T \in SUBSET (0 .. n - 1), \A a \in T : f[a] # 0, NEW m \in 0 .. n
  PROVE  Cardinality(Below(T, m)) <= Sums(f, n)[m]
<1> DEFINE sum == Sums(f, n)
           Off == {k \in 0 .. n : ~ (Cardinality(Below(T, k)) <= sum[k])}
<1>1. /\ sum \in [0 .. n -> Nat]
      /\ sum[0] = 0
      /\ \A k \in 0 .. n - 1 : sum[k + 1] = sum[k] + f[k]
  BY SumsAre
<1> HIDE DEF sum
<1>2. \A j \in 0 .. n - 1 :
        /\ Cardinality(Below(T, j)) \in Nat /\ Cardinality(Below(T, j + 1)) \in Nat
        /\ Cardinality(Below(T, j + 1)) = Cardinality(Below(T, j)) + (IF j \in T THEN 1 ELSE 0)
  BY BelowGrows
<1>3. SUFFICES ASSUME Off # {} PROVE FALSE
  BY DEF sum
<1>4. PICK k \in Off : \A l \in Off : k <= l
  <2>1. Off \in SUBSET Nat
    OBVIOUS
  <2> HIDE DEF Off
  <2> QED
    BY <1>3, <2>1, LeastNumber
<1>5. CASE k = 0
  <2>0. \A a \in T : ~ (a < 0)
    OBVIOUS
  <2>1. Below(T, 0) = {}
    BY <2>0 DEF Below
  <2> QED
    BY <1>1, <1>4, <1>5, <2>1, FS_EmptySet
<1>6. CASE k # 0
  <2>1. k - 1 \in 0 .. n - 1 /\ k - 1 \in 0 .. n /\ (k - 1) + 1 = k
    BY <1>4, <1>6
  <2>2. k - 1 \notin Off
    BY <1>4, <2>1
  <2>3. Cardinality(Below(T, k - 1)) <= sum[k - 1]
    BY <2>1, <2>2
  <2>4. sum[k] = sum[k - 1] + f[k - 1] /\ sum[k - 1] \in Nat /\ f[k - 1] \in Nat
    BY <1>1, <2>1
  <2>5. /\ Cardinality(Below(T, k - 1)) \in Nat /\ Cardinality(Below(T, k)) \in Nat
        /\ Cardinality(Below(T, k)) =
             Cardinality(Below(T, k - 1)) + (IF k - 1 \in T THEN 1 ELSE 0)
    BY <1>2, <2>1
  <2>6. ~ (Cardinality(Below(T, k)) <= sum[k])
    BY <1>4
  <2>7. k - 1 \in T => f[k - 1] # 0
    OBVIOUS
  <2> QED
    BY <2>3, <2>4, <2>5, <2>6, <2>7
<1> QED
  BY <1>5, <1>6

-----------------------------------------------------------------------------
(***************************************************************************)
(* Tasks and places.                                                       *)
(***************************************************************************)
LEMMA TaskShape ==
  ASSUME NEW t \in Tasks
  PROVE  /\ t.how \in {"dfa", "dfas", "nfa"}
         /\ t.layout \in {"LINEAR", "BITMAP", "INDIRECT_ADDR"}
         /\ Len(t.fa) \in Nat \ {0} /\ DOMAIN t.fa = 1 .. Len(t.fa)
         /\ t.how # "dfas" => Len(t.fa) = 1
         /\ t.how = "nfa" => IsNumberedNfa(t.fa[1])
         /\ t.how # "nfa" => \A i \in DOMAIN t.fa : IsCompressed(t.fa[i])
         /\ t.threshold \in Nat
         /\ t.layout = "INDIRECT_ADDR" => (t.threshold + 1) % WORD = 0
         /\ IsReader(t.reader)
<1>1. /\ t.fa \in Seq({t.fa[i] : i \in DOMAIN t.fa}) /\ t.fa # <<>>
      /\ t.how # "dfas" => Len(t.fa) = 1
      /\ \A i \in DOMAIN t.fa :
           IF t.how = "nfa" THEN IsNumberedNfa(t.fa[i]) ELSE IsCompressed(t.fa[i])
  BY MemoryAssumption
<1>2. Len(t.fa) \in Nat \ {0} /\ DOMAIN t.fa = 1 .. Len(t.fa)
  BY <1>1
<1>3. t.how = "nfa" => IsNumberedNfa(t.fa[1])
  BY <1>1, <1>2
<1> QED
  BY <1>1, <1>2, <1>3, MemoryAssumption

(* The ids of an NFA.                                                      *)
Ids(t) == DOMAIN t.fa[1].epsilon

(* An NFA has as many states as ids.                                       *)
LEMMA NfaShape ==
  ASSUME NEW t \in Tasks, t.how = "nfa"
  PROVE  /\ t.fa[1] \in NfaOver(Ids(t))
         /\ IsFiniteSet(Ids(t)) /\ 0 \in Ids(t)
         /\ Cardinality(Ids(t)) \in Nat \ {0}
         /\ Ids(t) = 0 .. Cardinality(Ids(t)) - 1
<1>1. IsNumberedNfa(t.fa[1])
  BY TaskShape
<1>2. /\ t.fa[1] \in NfaOver(Ids(t))
      /\ IsFiniteSet(Ids(t)) /\ 0 \in Ids(t) /\ Ids(t) = 0 .. Cardinality(Ids(t)) - 1
  BY <1>1 DEF IsNumberedNfa, Ids
<1>3. Cardinality(Ids(t)) \in Nat
  BY <1>2, FS_CardinalityType
<1>4. Cardinality(Ids(t)) # 0
  BY <1>2, <1>3, FS_EmptySet
<1> QED
  BY <1>2, <1>3, <1>4

(* A place is an automaton and one of its states.                          *)
LEMMA PlaceShape ==
  ASSUME NEW t \in Tasks, NEW x \in Places(t)
  PROVE  /\ x = <<x[1], x[2]>>
         /\ x[1] \in DOMAIN t.fa
         /\ NumStates(t, x[1]) \in Nat
         /\ x[2] \in 0 .. NumStates(t, x[1]) - 1
         /\ t.how = "nfa" => x[1] = 1 /\ x[2] \in Ids(t)
         /\ t.how # "nfa" => x[2] \in StatesOf(t.fa[x[1]]) /\ IsCompressed(t.fa[x[1]])
<1>1. PICK i \in DOMAIN t.fa : \E s \in 0 .. NumStates(t, i) - 1 : x = <<i, s>>
  BY DEF Places
<1>2. PICK s \in 0 .. NumStates(t, i) - 1 : x = <<i, s>>
  BY <1>1
<1>3. x[1] = i /\ x[2] = s
  BY <1>2
<1>4. CASE t.how = "nfa"
  <2>1. i = 1
    BY <1>4, TaskShape
  <2>2. NumStates(t, i) = Cardinality(Ids(t))
    BY <1>4, <2>1 DEF NumStates, Ids
  <2> QED
    BY <1>2, <1>3, <1>4, <2>1, <2>2, NfaShape
<1>5. CASE t.how # "nfa"
  <2>1. IsCompressed(t.fa[i])
    BY <1>5, TaskShape
  <2>2. NumStates(t, i) = t.fa[i].size /\ t.fa[i].size \in Nat
    BY <1>5, <2>1 DEF NumStates, IsCompressed
  <2> QED
    BY <1>2, <1>3, <1>5, <2>1, <2>2 DEF StatesOf
<1> QED
  BY <1>4, <1>5

(* Every pair of an automaton and one of its states is a place.            *)
LEMMA IsPlace ==
  ASSUME NEW t \in Tasks, NEW i \in DOMAIN t.fa, NEW s,
         IF t.how = "nfa" THEN s \in Ids(t) ELSE s \in StatesOf(t.fa[i])
  PROVE  <<i, s>> \in Places(t)
<1>1. s \in 0 .. NumStates(t, i) - 1
  <2>1. CASE t.how = "nfa"
    <3>1. i = 1
      BY <2>1, TaskShape
    <3> QED
      BY <2>1, <3>1, NfaShape DEF NumStates, Ids
  <2>2. CASE t.how # "nfa"
    BY <2>2 DEF NumStates, StatesOf
  <2> QED
    BY <2>1, <2>2
<1> QED
  BY <1>1 DEF Places

(* The labeled symbols of a state; there are no more of them than labeled  *)
(* transitions.                                                            *)
LEMMA LabelsShape ==
  ASSUME NEW t \in Tasks, NEW x \in Places(t)
  PROVE  /\ Labels(t, x) \in SUBSET Symbols
         /\ NumLabeled(t, x) \in Nat
         /\ Cardinality(Labels(t, x)) \in Nat
         /\ Cardinality(Labels(t, x)) <= NumLabeled(t, x)
         /\ t.how # "nfa" => NumLabeled(t, x) = Cardinality(Labels(t, x))
<1>1. CSIZE \in Nat /\ Symbols = 0 .. CSIZE - 1
  BY AlphabetAssumption DEF Symbols
<1>2. IsFiniteSet(Symbols)
  BY <1>1, FS_Interval
<1>3. Labels(t, x) \in SUBSET Symbols
  <2>1. CASE t.how = "nfa"
    BY <2>1 DEF Labels
  <2>2. CASE t.how # "nfa"
    <3>1. x[2] \in StatesOf(t.fa[x[1]]) /\ IsCompressed(t.fa[x[1]])
      BY <2>2, PlaceShape
    <3> QED
      BY <2>2, <3>1 DEF Labels, IsCompressed
  <2> QED
    BY <2>1, <2>2
<1>4. Cardinality(Labels(t, x)) \in Nat
  BY <1>2, <1>3, FS_Subset, FS_CardinalityType
<1>5. CASE t.how # "nfa"
  BY <1>3, <1>4, <1>5 DEF NumLabeled
<1>6. CASE t.how = "nfa"
  <2> DEFINE on == t.fa[1].transitions[x[2]]
             f == [a \in Symbols |-> Cardinality(on[a])]
  <2>1. on \in [Symbols -> SUBSET Ids(t)] /\ IsFiniteSet(Ids(t))
    BY <1>6, PlaceShape, NfaShape DEF NfaOver
  <2>2. \A a \in Symbols : IsFiniteSet(on[a])
    BY <2>1, FS_Subset
  <2>3. f \in [Symbols -> Nat]
    BY <2>2, FS_CardinalityType
  <2>4. \A a \in Symbols : on[a] # {} => f[a] # 0
    BY <2>2, FS_EmptySet
  <2>5. Labels(t, x) = {a \in Symbols : on[a] # {}}
    BY <1>6 DEF Labels
  <2>6. NumLabeled(t, x) = Sums(f, CSIZE)[CSIZE]
    BY <1>6 DEF NumLabeled
  <2> HIDE DEF f, on
  <2>7. f \in [0 .. CSIZE - 1 -> Nat]
    BY <1>1, <2>3
  <2>8. Sums(f, CSIZE) \in [0 .. CSIZE -> Nat]
    BY <1>1, <2>7, SumsAre
  <2>9. Below(Labels(t, x), CSIZE) = Labels(t, x)
    BY <1>1, <1>3 DEF Below
  <2>10. Cardinality(Below(Labels(t, x), CSIZE)) <= Sums(f, CSIZE)[CSIZE]
    <3>1. Labels(t, x) \in SUBSET (0 .. CSIZE - 1) /\ CSIZE \in 0 .. CSIZE
      BY <1>1, <1>3
    <3>2. \A a \in Labels(t, x) : f[a] # 0
      BY <2>4, <2>5
    <3> QED
      BY <1>1, <2>7, <3>1, <3>2, SumsCount
  <2> QED
    BY <1>1, <1>3, <1>4, <1>6, <2>6, <2>8, <2>9, <2>10
<1> QED
  BY <1>5, <1>6

-----------------------------------------------------------------------------
(***************************************************************************)
(* Division.                                                               *)
(***************************************************************************)
LEMMA Division ==
  ASSUME NEW a \in Nat, NEW b \in Nat \ {0}
  PROVE  /\ a \div b \in Nat /\ a % b \in 0 .. b - 1
         /\ a = b * (a \div b) + (a % b)
         /\ a \div b <= a
<1>1. a \div b \in Int /\ a % b \in 0 .. b - 1 /\ a = b * (a \div b) + (a % b)
  OBVIOUS
<1> DEFINE q == a \div b
           r == a % b
<1>2. q \in Int /\ r \in 0 .. b - 1 /\ a = b * q + r
  BY <1>1
<1> HIDE DEF q, r
<1>3. q >= 0
  <2>1. SUFFICES ASSUME q <= -1 PROVE FALSE
    BY <1>2
  <2>2. b * q <= b * (-1)
    BY <1>2, <2>1
  <2> QED
    BY <1>2, <2>2
<1>4. q <= a
  <2>1. 1 * q <= b * q
    BY <1>2, <1>3
  <2> QED
    BY <1>2, <2>1
<1> QED
  BY <1>1, <1>3, <1>4 DEF q

(* There is only one quotient and only one remainder.                      *)
LEMMA DivisionIsUnique ==
  ASSUME NEW b \in Nat \ {0}, NEW q \in Int, NEW r \in 0 .. b - 1,
         NEW p \in Int, NEW s \in 0 .. b - 1, b * q + r = b * p + s
  PROVE  q = p /\ r = s
<1>1. ~ (q < p)
  <2>1. SUFFICES ASSUME q <= p - 1 PROVE FALSE
    OBVIOUS
  <2>2. b * q <= b * (p - 1)
    BY <2>1
  <2>3. b * (p - 1) = b * p - b
    OBVIOUS
  <2> QED
    BY <2>2, <2>3
<1>2. ~ (p < q)
  <2>1. SUFFICES ASSUME p <= q - 1 PROVE FALSE
    OBVIOUS
  <2>2. b * p <= b * (q - 1)
    BY <2>1
  <2>3. b * (q - 1) = b * q - b
    OBVIOUS
  <2> QED
    BY <2>2, <2>3
<1> QED
  BY <1>1, <1>2

(* Of the larger number the quotient is not smaller.                       *)
LEMMA DivisionGrows ==
  ASSUME NEW b \in Nat \ {0}, NEW m \in Nat, NEW n \in Nat, m <= n
  PROVE  m \div b <= n \div b
<1> DEFINE q == m \div b
           p == n \div b
<1>1. /\ q \in Nat /\ m % b \in 0 .. b - 1 /\ m = b * q + (m % b)
      /\ p \in Nat /\ n % b \in 0 .. b - 1 /\ n = b * p + (n % b)
  BY Division
<1> HIDE DEF q, p
<1>2. SUFFICES ASSUME p + 1 <= q PROVE FALSE
  BY <1>1 DEF p, q
<1>3. b * (p + 1) <= b * q /\ b * (p + 1) = b * p + b
  BY <1>1, <1>2
<1> QED
  BY <1>1, <1>3

-----------------------------------------------------------------------------
(***************************************************************************)
(* The cache.                                                              *)
(***************************************************************************)
(* No set has been asked for more lines than it has ways. *)
SetsSuffice ==
  \A l \in lines : Cardinality({k \in lines : (k - l) % LinesPerSet = 0}) <= Cache.assoc

(* What the cache holds are lines that were read, each in its set and none *)
(* twice; none is missing as long as the sets suffice.                     *)
CacheInv ==
  Cache.kind = "cache" =>
    /\ lines \in SUBSET Nat /\ IsFiniteSet(lines)
    /\ misses \in Nat
    /\ content \in [0 .. NumLines - 1 -> Nat \cup {NoLine}]
    /\ \A w \in 0 .. NumLines - 1 : content[w] # NoLine =>
         /\ content[w] \in lines
         /\ w \in WaysOf(content[w])
         /\ \A v \in 0 .. NumLines - 1 : content[v] = content[w] => v = w
    /\ misses >= Cardinality(lines)
    /\ SetsSuffice => /\ misses = Cardinality(lines)
                      /\ \A l \in lines : \E w \in 0 .. NumLines - 1 : content[w] = l

(* The sets have the ways the cache has lines for.                         *)
LEMMA CacheShape ==
  ASSUME task \in Tasks, Cache.kind = "cache"
  PROVE  /\ Cache.assoc \in Nat \ {0} /\ Cache.line_size \in Nat \ {0}
         /\ NumLines \in Nat /\ LinesPerSet \in Nat \ {0}
         /\ Cache.assoc * LinesPerSet <= NumLines
<1> DEFINE a == Cache.assoc
           l == Cache.line_size
           z == Cache.size
           q == z \div (a * l)
           n == z \div l
<1>1. z \in Nat /\ a \in Nat \ {0} /\ l \in Nat \ {0} /\ a * l <= z
  <2>1. IsReader(task.reader)
    BY TaskShape
  <2> QED
    BY <2>1 DEF IsReader, Cache
<1>2. LinesPerSet = q /\ NumLines = n
  BY DEF LinesPerSet, NumLines
<1> HIDE DEF a, l, z
<1>3. a * l \in Nat \ {0}
  BY <1>1
<1>4. /\ q \in Nat /\ z % (a * l) \in 0 .. a * l - 1
      /\ z = (a * l) * q + (z % (a * l))
  BY <1>1, <1>3, Division
<1>5. n \in Nat /\ z % l \in 0 .. l - 1 /\ z = l * n + (z % l)
  BY <1>1, Division
<1> HIDE DEF q, n
<1>6. q # 0
  BY <1>1, <1>3, <1>4
<1>7. a * q <= n
  <2>1. SUFFICES ASSUME n + 1 <= a * q PROVE FALSE
    BY <1>1, <1>4, <1>5
  <2>2. l * (n + 1) <= l * (a * q)
    BY <1>1, <1>4, <1>5, <2>1
  <2>3. l * (a * q) = (a * l) * q /\ l * (n + 1) = l * n + l
    BY <1>1, <1>4, <1>5
  <2> QED
    BY <1>1, <1>3, <1>4, <1>5, <2>2, <2>3
<1> QED
  BY <1>1, <1>2, <1>4, <1>5, <1>6, <1>7 DEF a, l

(* The ways of a line are lines of the cache, in its set.                  *)
LEMMA WaysShape ==
  ASSUME task \in Tasks, Cache.kind = "cache", NEW line \in Nat
  PROVE  /\ line % LinesPerSet \in 0 .. LinesPerSet - 1
         /\ \A i \in 0 .. Cache.assoc - 1 :
              /\ (line % LinesPerSet) + i * LinesPerSet \in WaysOf(line)
              /\ (line % LinesPerSet) + i * LinesPerSet \in 0 .. NumLines - 1
         /\ \A w \in WaysOf(line) : /\ w \in 0 .. NumLines - 1
                                    /\ w % LinesPerSet = line % LinesPerSet
<1> DEFINE s == LinesPerSet
           a == Cache.assoc
           r == line % s
<1>1. /\ s \in Nat \ {0} /\ a \in Nat \ {0} /\ NumLines \in Nat
      /\ a * s <= NumLines /\ r \in 0 .. s - 1
  BY CacheShape, Division
<1> HIDE DEF s, a, r
<1>2. ASSUME NEW i \in 0 .. a - 1
      PROVE  r + i * s \in 0 .. NumLines - 1 /\ (r + i * s) % s = r
  <2>1. i \in Nat /\ i + 1 <= a
    BY <1>1
  <2>2. i * s \in Nat /\ (i + 1) * s <= a * s /\ (i + 1) * s = i * s + s
    BY <1>1, <2>1
  <2> DEFINE w == r + i * s
  <2>3. w \in Nat /\ w < a * s
    BY <1>1, <2>2
  <2>4. w \div s \in Nat /\ w % s \in 0 .. s - 1 /\ w = s * (w \div s) + (w % s)
    BY <1>1, <2>3, Division
  <2>5. w % s = r
    <3>1. s * (w \div s) + (w % s) = s * i + r
      BY <1>1, <2>1, <2>2, <2>4
    <3> DEFINE q == w \div s
               m == w % s
    <3>2. q \in Int /\ m \in 0 .. s - 1 /\ s * q + m = s * i + r /\ i \in Int
      BY <2>1, <2>4, <3>1
    <3> HIDE DEF w, q, m
    <3>3. m = r
      BY <1>1, <3>2, DivisionIsUnique
    <3> QED
      BY <3>3 DEF m
  <2> QED
    BY <1>1, <2>3, <2>5
<1>3. WaysOf(line) = {r + i * s : i \in 0 .. a - 1}
  BY DEF WaysOf, r, s, a
<1> QED
  BY <1>1, <1>2, <1>3 DEF r, s, a

(* Lines that share a way are of the same set.                             *)
LEMMA SameSet ==
  ASSUME task \in Tasks, Cache.kind = "cache", NEW k \in Nat, NEW l \in Nat,
         k % LinesPerSet = l % LinesPerSet
  PROVE  (k - l) % LinesPerSet = 0
<1> DEFINE s == LinesPerSet
           p == k \div s
           q == l \div s
           d == k - l
<1>1. s \in Nat \ {0}
  BY CacheShape
<1> HIDE DEF s
<1>2. /\ p \in Nat /\ k = s * p + (k % s) /\ k % s \in 0 .. s - 1
      /\ q \in Nat /\ l = s * q + (l % s)
      /\ k % s = l % s
  BY <1>1, Division DEF s
<1> HIDE DEF p, q
<1>3. d \in Int /\ d = s * (p - q) + 0
  BY <1>1, <1>2
<1> HIDE DEF d
<1> DEFINE e == d \div s
           m == d % s
<1>4. e \in Int /\ m \in 0 .. s - 1 /\ d = s * e + m
  <2>1. d \in Int
    BY <1>3
  <2> QED
    BY <1>1, <2>1
<1> HIDE DEF e, m
<1>5. m = 0
  <2>1. p - q \in Int /\ 0 \in 0 .. s - 1 /\ s * e + m = s * (p - q) + 0
    BY <1>1, <1>2, <1>3, <1>4
  <2> DEFINE f == p - q
             o == 0
  <2>2. f \in Int /\ o \in 0 .. s - 1 /\ s * e + m = s * f + o
    BY <2>1
  <2> HIDE DEF f, o
  <2>3. m = o
    BY <1>1, <1>4, <2>2, DivisionIsUnique
  <2> QED
    BY <2>3 DEF o
<1> QED
  BY <1>5 DEF m, d, s

(* A read keeps the invariant. If the sets suffice, a line that misses was *)
(* never read, and finds a free way: else the ways of its set would hold as*)
(* many other lines of the set (the pigeonhole principle).                 *)
LEMMA CacheReadKeeps ==
  ASSUME task \in Tasks, task' = task, Cache.kind = "cache", CacheInv,
         NEW line \in Nat, CacheRead(line), lines' = lines \cup {line}
  PROVE  CacheInv'
<1> DEFINE ways == WaysOf(line)
           Ways == 0 .. NumLines - 1
           Held(l) == \E w \in Ways : content[w] = l
           free == {w \in ways : content[w] = NoLine}
<1>1. /\ lines \in SUBSET Nat /\ IsFiniteSet(lines)
      /\ misses \in Nat
      /\ content \in [Ways -> Nat \cup {NoLine}]
      /\ \A w \in Ways : content[w] # NoLine =>
           /\ content[w] \in lines
           /\ w \in WaysOf(content[w])
           /\ \A v \in Ways : content[v] = content[w] => v = w
      /\ misses >= Cardinality(lines)
      /\ SetsSuffice => misses = Cardinality(lines) /\ \A l \in lines : Held(l)
  BY DEF CacheInv
<1>2. /\ \A w \in ways : w \in Ways
      /\ line # NoLine
      /\ NumLines' = NumLines
      /\ Cache' = Cache
      /\ LinesPerSet' = LinesPerSet
      /\ \A l : WaysOf(l)' = WaysOf(l)
  BY WaysShape DEF NoLine, NumLines, Cache, LinesPerSet, WaysOf
<1>3. /\ lines' \in SUBSET Nat /\ IsFiniteSet(lines')
      /\ Cardinality(lines) \in Nat
      /\ Cardinality(lines') = IF line \in lines THEN Cardinality(lines) ELSE Cardinality(lines) + 1
  BY <1>1, FS_AddElement, FS_CardinalityType
(* A set that is asked for no more than before sufficed before. *)
<1>4. SetsSuffice' => SetsSuffice
  <2> DEFINE Of(l) == {k \in lines : (k - l) % LinesPerSet = 0}
             OfNow(l) == {k \in lines' : (k - l) % LinesPerSet = 0}
  <2>1. ASSUME SetsSuffice', NEW l \in lines PROVE Cardinality(Of(l)) <= Cache.assoc
    <3>1. Of(l) \in SUBSET OfNow(l)
      OBVIOUS
    <3>2. IsFiniteSet(OfNow(l))
      BY <1>3, FS_Subset
    <3>3. Cardinality(Of(l)) <= Cardinality(OfNow(l)) /\ IsFiniteSet(Of(l))
      BY <3>1, <3>2, FS_Subset
    <3>4. Cardinality(OfNow(l)) <= Cache.assoc
      BY <1>2, <2>1 DEF SetsSuffice
    <3>5. Cardinality(Of(l)) \in Nat /\ Cardinality(OfNow(l)) \in Nat /\ Cache.assoc \in Nat
      BY <3>2, <3>3, FS_CardinalityType, CacheShape
    <3> QED
      BY <3>3, <3>4, <3>5
  <2> QED
    BY <2>1 DEF SetsSuffice
<1>5. CASE /\ \E w \in ways : content[w] = line
           /\ UNCHANGED <<content, misses>>
  <2>1. lines' = lines
    BY <1>1, <1>2, <1>5
  <2>2. SetsSuffice' = SetsSuffice
    BY <1>2, <2>1 DEF SetsSuffice
  <2> QED
    BY <1>1, <1>2, <1>5, <2>1, <2>2 DEF CacheInv
<1>6. CASE /\ \A w \in ways : content[w] # line
           /\ IF free # {} THEN \E w \in free : (\A v \in free : w <= v) /\ Insert(w, line)
                           ELSE \E w \in ways : Insert(w, line)
           /\ misses' = misses + 1
  <2>1. \A w \in Ways : content[w] # line
    BY <1>1, <1>2, <1>6
  <2>2. PICK way \in ways : /\ free # {} => way \in free
                           /\ content' = [content EXCEPT ![way] = line]
    BY <1>6 DEF Insert
  <2>3. /\ content' \in [Ways -> Nat \cup {NoLine}]
        /\ content'[way] = line
        /\ \A w \in Ways : w # way => content'[w] = content[w]
    BY <1>1, <1>2, <2>2
  <2>4. ASSUME NEW w \in Ways, content'[w] # NoLine
        PROVE  /\ content'[w] \in lines'
               /\ w \in WaysOf(content'[w])
               /\ \A v \in Ways : content'[v] = content'[w] => v = w
    <3>1. CASE w = way
      BY <1>1, <2>1, <2>2, <2>3, <3>1
    <3>2. CASE w # way
      BY <1>1, <2>1, <2>2, <2>3, <2>4, <3>2
    <3> QED
      BY <3>1, <3>2
  <2>5. misses' \in Nat /\ misses' >= Cardinality(lines')
    BY <1>1, <1>3, <1>6
  <2>6. ASSUME SetsSuffice'
        PROVE  misses' = Cardinality(lines') /\ \A l \in lines' : \E w \in Ways : content'[w] = l
    <3>1. misses = Cardinality(lines) /\ \A l \in lines : Held(l)
      BY <1>1, <1>4, <2>6
    <3>2. line \notin lines
      BY <2>1, <3>1
    <3>3. free # {}
      <4> DEFINE Of == {k \in lines : (k - line) % LinesPerSet = 0}
                 f == [i \in 0 .. Cache.assoc - 1 |->
                         content[(line % LinesPerSet) + i * LinesPerSet]]
      <4>1. SUFFICES ASSUME free = {} PROVE FALSE
        OBVIOUS
      <4>2. IsFiniteSet(Of) /\ Cardinality(Of) \in Nat
        BY <1>1, FS_Subset, FS_CardinalityType
      <4>3. Cardinality(Of) + 1 <= Cache.assoc
        <5>1. {k \in lines' : (k - line) % LinesPerSet = 0} = Of \cup {line}
          <6>1. (line - line) % LinesPerSet = 0
            BY SameSet
          <6> QED
            BY <6>1
        <5>2. line \notin Of
          BY <3>2
        <5>3. Cardinality(Of \cup {line}) = Cardinality(Of) + 1
          BY <4>2, <5>2, FS_AddElement
        <5>4. /\ LinesPerSet' = LinesPerSet /\ Cache' = Cache
              /\ \A l \in lines' : Cardinality({k \in lines' : (k - l) % LinesPerSet' = 0}) <= Cache'.assoc
          BY <1>2, <2>6 DEF SetsSuffice
        <5>5. Cardinality({k \in lines' : (k - line) % LinesPerSet = 0}) <= Cache.assoc
          BY <5>4
        <5> QED
          BY <5>1, <5>3, <5>5
      <4>4. \A i \in 0 .. Cache.assoc - 1 : f[i] \in Of
        <5> SUFFICES ASSUME NEW i \in 0 .. Cache.assoc - 1
                     PROVE  f[i] \in Of
          OBVIOUS
        <5> DEFINE w == (line % LinesPerSet) + i * LinesPerSet
        <5>1. w \in ways /\ w \in Ways
          BY WaysShape
        <5>2. f[i] = content[w]
          OBVIOUS
        <5> HIDE DEF w, f
        <5>3. content[w] # NoLine
          BY <4>1, <5>1
        <5>4. content[w] \in lines /\ content[w] \in Nat /\ w \in WaysOf(content[w])
          BY <1>1, <5>1, <5>3
        <5>5. content[w] % LinesPerSet = line % LinesPerSet
          BY <5>1, <5>4, WaysShape
        <5>6. (content[w] - line) % LinesPerSet = 0
          BY <5>4, <5>5, SameSet
        <5> QED
          BY <5>2, <5>4, <5>6
      <4>5. \A i, j \in 0 .. Cache.assoc - 1 : f[i] = f[j] => i = j
        <5> SUFFICES ASSUME NEW i \in 0 .. Cache.assoc - 1, NEW j \in 0 .. Cache.assoc - 1,
                            f[i] = f[j]
                     PROVE  i = j
          OBVIOUS
        <5> DEFINE r == line % LinesPerSet
                   v == r + i * LinesPerSet
                   w == r + j * LinesPerSet
        <5>1. v \in ways /\ v \in Ways /\ w \in ways /\ w \in Ways
          BY WaysShape
        <5>2. content[v] = content[w]
          OBVIOUS
        <5>3. v = w
          <6> HIDE DEF v, w
          <6> QED
            BY <1>1, <4>1, <5>1, <5>2
        <5>4. i * LinesPerSet = j * LinesPerSet /\ LinesPerSet \in Nat \ {0}
          <6>1. r \in Int /\ i \in Int /\ j \in Int /\ LinesPerSet \in Nat \ {0}
            BY CacheShape, WaysShape
          <6> HIDE DEF r
          <6> QED
            BY <5>3, <6>1
        <5> DEFINE s == LinesPerSet
        <5>5. i \in Int /\ j \in Int /\ s \in Nat \ {0} /\ i * s = j * s
          BY <5>4
        <5> HIDE DEF s
        <5> QED
          BY <5>5
      <4>6. Cardinality(Of) < Cardinality(0 .. Cache.assoc - 1) /\ IsFiniteSet(0 .. Cache.assoc - 1)
        <5>1. Cache.assoc \in Nat \ {0} /\ Cache.assoc - 1 \in Int /\ ~ (0 > Cache.assoc - 1)
          BY CacheShape
        <5> DEFINE b == Cache.assoc - 1
        <5>2. IsFiniteSet(0 .. b) /\ Cardinality(0 .. b) = b - 0 + 1
          <6>1. 0 \in Int /\ b \in Int /\ ~ (0 > b)
            BY <5>1
          <6> HIDE DEF b
          <6> QED
            BY <6>1, FS_Interval
        <5> QED
          BY <4>2, <4>3, <5>1, <5>2
      <4>7. f \in [0 .. Cache.assoc - 1 -> Of]
        BY <4>4
      <4> DEFINE I == 0 .. Cache.assoc - 1
      <4>8. /\ f \in [I -> Of] /\ Cardinality(Of) < Cardinality(I) /\ IsFiniteSet(I)
            /\ \A i, j \in I : f[i] = f[j] => i = j
        BY <4>5, <4>6, <4>7
      <4> HIDE DEF f, Of, I
      <4> QED
        BY <4>2, <4>8, FS_PigeonHole
    <3>4. content[way] = NoLine
      BY <2>2, <3>3
    <3>5. ASSUME NEW l \in lines' PROVE \E w \in Ways : content'[w] = l
      <4>1. CASE l = line
        BY <1>2, <2>3, <4>1
      <4>2. CASE l # line
        <5>1. PICK w \in Ways : content[w] = l
          BY <3>1, <4>2
        <5>2. l # NoLine
          BY <1>1, <4>2 DEF NoLine
        <5> QED
          BY <2>3, <3>4, <5>1, <5>2
      <4> QED
        BY <4>1, <4>2
    <3> QED
      BY <1>1, <1>3, <1>6, <3>1, <3>2, <3>5
  <2> QED
    BY <1>2, <1>3, <2>3, <2>4, <2>5, <2>6 DEF CacheInv
<1> QED
  BY <1>5, <1>6 DEF CacheRead

-----------------------------------------------------------------------------
(***************************************************************************)
(* Blocks.                                                                 *)
(***************************************************************************)
LEMMA EntryShape ==
  ASSUME NEW t \in Tasks
  PROVE  /\ Entry(t) \in Nat \ {0}
         /\ Entry(t) \div WORD \in Nat
         /\ Entry(t) = WORD * (Entry(t) \div WORD)
         /\ t.layout # "INDIRECT_ADDR" => Entry(t) = WORD
<1>1. CASE t.layout = "INDIRECT_ADDR"
  <2> DEFINE e == t.threshold + 1
  <2>1. e \in Nat \ {0} /\ e % WORD = 0 /\ Entry(t) = e
    BY <1>1, TaskShape DEF Entry
  <2> HIDE DEF e
  <2> QED
    BY <1>1, <2>1 DEF WORD
<1>2. CASE t.layout # "INDIRECT_ADDR"
  BY <1>2 DEF Entry, WORD
<1> QED
  BY <1>1, <1>2

(* More bitmaps need no fewer words.                                       *)
LEMMA WordsForShape ==
  ASSUME NEW n \in Nat
  PROVE  /\ WordsFor(n) \in Nat
         /\ \A m \in Nat : n <= m => WordsFor(n) <= WordsFor(m)
<1>1. PER_WORD \in Nat \ {0}
  BY MemoryAssumption
<1>2. \A m \in Nat : m + PER_WORD - 1 \in Nat
  BY <1>1
<1>3. \A m \in Nat : n <= m => n + PER_WORD - 1 <= m + PER_WORD - 1
  BY <1>1
<1> QED
  BY <1>1, <1>2, <1>3, Division, DivisionGrows DEF WordsFor

(* The bits of a bitmap.                                                   *)
LEMMA GroupShape ==
  /\ CSIZE \div BYTE \in Nat
  /\ \A a \in Symbols : a \div BYTE \in 0 .. CSIZE \div BYTE - 1
<1>1. BYTE \in Nat \ {0} /\ CSIZE \in Nat /\ CSIZE % BYTE = 0 /\ Symbols = 0 .. CSIZE - 1
  BY MemoryAssumption, AlphabetAssumption DEF Symbols
<1> DEFINE g == CSIZE \div BYTE
<1>2. g \in Nat /\ CSIZE = BYTE * g
  BY <1>1, Division
<1> HIDE DEF g
<1>3. \A a \in Symbols : a \div BYTE \in 0 .. g - 1
  <2> SUFFICES ASSUME NEW a \in Symbols
               PROVE  a \div BYTE \in 0 .. g - 1
    OBVIOUS
  <2> DEFINE q == a \div BYTE
             r == a % BYTE
  <2>1. a \in Nat /\ a < CSIZE
    BY <1>1
  <2>2. q \in Nat /\ r \in 0 .. BYTE - 1 /\ a = BYTE * q + r
    BY <1>1, <2>1, Division
  <2> HIDE DEF q, r
  <2>3. q < g
    <3>1. SUFFICES ASSUME g <= q PROVE FALSE
      BY <1>2, <2>2
    <3>2. BYTE * g <= BYTE * q
      BY <1>1, <1>2, <2>2, <3>1
    <3> QED
      BY <1>1, <1>2, <2>1, <2>2, <3>2
  <2> QED
    BY <1>2, <2>2, <2>3 DEF q
<1> QED
  BY <1>2, <1>3 DEF g

(* A bitmap is a finite set.                                               *)
LEMMA BitmapShape ==
  ASSUME NEW t \in Tasks, NEW x \in Places(t)
  PROVE  IsFiniteSet(Bitmap(t, x)) /\ Cardinality(Bitmap(t, x)) \in Nat
<1> DEFINE g == CSIZE \div BYTE
<1>1. Bitmap(t, x) \in SUBSET (0 .. g - 1) /\ g \in Nat
  BY GroupShape, LabelsShape DEF Bitmap
<1>2. IsFiniteSet(0 .. g - 1)
  BY <1>1, FS_Interval
<1> QED
  BY <1>1, <1>2, FS_Subset, FS_CardinalityType

(* A block is empty only where a state has no entry to be told by.         *)
LEMMA BlockShape ==
  ASSUME NEW t \in Tasks, NEW x \in Places(t)
  PROVE  /\ Extra(t, x) \in {0, 1}
         /\ BitmapWords(t, x) \in Nat
         /\ SparseWords(t, x) \in Nat
         /\ BlockSize(t, x) \in Nat
         /\ Full(t, x) \/ Extra(t, x) = 1 => BlockSize(t, x) # 0
<1>1. /\ NumLabeled(t, x) \in Nat /\ Entry(t) \in Nat \ {0} /\ CSIZE \in Nat \ {0}
      /\ Cardinality(Bitmap(t, x)) \in Nat
  BY LabelsShape, EntryShape, AlphabetAssumption, BitmapShape
<1>2. WordsFor(Cardinality(Bitmap(t, x))) \in Nat
  BY <1>1, WordsForShape
<1>3. Extra(t, x) \in {0, 1} /\ BitmapWords(t, x) \in Nat
  BY <1>2 DEF Extra, BitmapWords
<1>4. SparseWords(t, x) \in Nat /\ SparseWords(t, x) >= Extra(t, x)
  BY <1>1, <1>3 DEF SparseWords
<1> DEFINE e == IF Full(t, x) THEN CSIZE + Extra(t, x) ELSE SparseWords(t, x)
<1>5. e \in Nat /\ (Full(t, x) \/ Extra(t, x) = 1 => e # 0)
  BY <1>1, <1>3, <1>4
<1>6. BlockSize(t, x) = Entry(t) * e
  BY DEF BlockSize
<1> HIDE DEF e
<1> QED
  BY <1>1, <1>3, <1>4, <1>5, <1>6

-----------------------------------------------------------------------------
(***************************************************************************)
(* Regions and addresses.                                                  *)
(***************************************************************************)
LEMMA RegionsShape ==
  ASSUME NEW t \in Tasks
  PROVE  /\ Regions(t) \in Nat
         /\ \A r \in 1 .. Regions(t) : /\ AutomatonOf(t, r) \in DOMAIN t.fa
                                       /\ NumStates(t, AutomatonOf(t, r)) \in Nat
<1>1. Len(t.fa) \in Nat \ {0} /\ DOMAIN t.fa = 1 .. Len(t.fa)
  BY TaskShape
<1>2. CASE t.how = "nfa"
  BY <1>1, <1>2, NfaShape DEF Regions, AutomatonOf, NumStates, Ids
<1>3. CASE t.how # "nfa"
  <2> DEFINE n == Len(t.fa)
  <2>1. \A i \in DOMAIN t.fa : NumStates(t, i) \in Nat
    BY <1>3, TaskShape DEF IsCompressed, NumStates
  <2>2. Regions(t) = 2 * n /\ \A r : AutomatonOf(t, r) = (r + 1) \div 2
    BY <1>3 DEF Regions, AutomatonOf
  <2>3. n \in Nat
    BY <1>1
  <2>4. DOMAIN t.fa = 1 .. n
    BY <1>1
  <2> HIDE DEF n
  <2>5. 2 * n \in Nat /\ \A r \in 1 .. 2 * n : (r + 1) \div 2 \in 1 .. n
    BY <2>3
  <2>6. \A r \in 1 .. Regions(t) : AutomatonOf(t, r) \in DOMAIN t.fa
    BY <2>2, <2>4, <2>5
  <2> QED
    BY <2>1, <2>2, <2>5, <2>6
<1> QED
  BY <1>2, <1>3

(* The region of a state.                                                  *)
LEMMA RegionShape ==
  ASSUME NEW t \in Tasks, NEW x \in Places(t)
  PROVE  /\ Region(t, x) \in 1 .. Regions(t)
         /\ AutomatonOf(t, Region(t, x)) = x[1]
         /\ t.how = "nfa" => /\ Full(t, x) <=> Region(t, x) <= 2
                             /\ HasEpsilon(t, x) <=> Region(t, x) \in {1, 3}
         /\ t.how # "nfa" => Region(t, x) = 2 * x[1] - (IF Full(t, x) THEN 1 ELSE 0)
<1>1. CASE t.how = "nfa"
  <2> DEFINE P(r) == /\ Full(t, x) <=> r <= 2
                     /\ HasEpsilon(t, x) <=> r \in {1, 3}
  <2>1. \E r \in 1 .. 4 : P(r)
    <3>1. CASE Full(t, x) /\ HasEpsilon(t, x)
      <4>1. 1 \in 1 .. 4 /\ P(1)
        BY <3>1
      <4> QED
        BY <4>1
    <3>2. CASE Full(t, x) /\ ~ HasEpsilon(t, x)
      <4>1. 2 \in 1 .. 4 /\ P(2)
        BY <3>2
      <4> QED
        BY <4>1
    <3>3. CASE ~ Full(t, x) /\ HasEpsilon(t, x)
      <4>1. 3 \in 1 .. 4 /\ P(3)
        BY <3>3
      <4> QED
        BY <4>1
    <3>4. CASE ~ Full(t, x) /\ ~ HasEpsilon(t, x)
      <4>1. 4 \in 1 .. 4 /\ P(4)
        BY <3>4
      <4> QED
        BY <4>1
    <3> QED
      BY <3>1, <3>2, <3>3, <3>4
  <2>2. Region(t, x) = CHOOSE r \in 1 .. 4 : P(r)
    BY <1>1 DEF Region
  <2>3. Region(t, x) \in 1 .. 4 /\ P(Region(t, x))
    <3> HIDE DEF P
    <3> QED
      BY <2>1, <2>2
  <2>4. Regions(t) = 4 /\ AutomatonOf(t, Region(t, x)) = 1 /\ x[1] = 1
    BY <1>1, PlaceShape DEF Regions, AutomatonOf
  <2> QED
    BY <1>1, <2>3, <2>4
<1>2. CASE t.how # "nfa"
  <2> DEFINE i == x[1]
             l == Len(t.fa)
             r == 2 * i - (IF Full(t, x) THEN 1 ELSE 0)
  <2>1. Region(t, x) = r /\ Regions(t) = 2 * l /\ AutomatonOf(t, r) = (r + 1) \div 2
    BY <1>2 DEF Region, Regions, AutomatonOf
  <2>2. l \in Nat /\ i \in 1 .. l
    BY PlaceShape, TaskShape
  <2> HIDE DEF i, l
  <2>3. r \in 1 .. 2 * l /\ (r + 1) \div 2 = i
    BY <2>2
  <2> QED
    BY <1>2, <2>1, <2>3 DEF i
<1> QED
  BY <1>1, <1>2

(* The running sum over the states of a region.                            *)
LEMMA FilledShape ==
  ASSUME NEW t \in Tasks, NEW r \in 1 .. Regions(t)
  PROVE  LET n == NumStates(t, AutomatonOf(t, r))
         IN /\ n \in Nat
            /\ Filling(t, r) \in [0 .. n - 1 -> Nat]
            /\ Filled(t, r) \in [0 .. n -> Nat]
            /\ Filled(t, r)[0] = 0
            /\ \A k \in 0 .. n - 1 :
                 Filled(t, r)[k + 1] = Filled(t, r)[k] + Filling(t, r)[k]
            /\ \A j, k \in 0 .. n : j <= k => Filled(t, r)[j] <= Filled(t, r)[k]
<1> DEFINE i == AutomatonOf(t, r)
           n == NumStates(t, i)
           f == Filling(t, r)
<1>1. n \in Nat /\ i \in DOMAIN t.fa
  BY RegionsShape
<1>2. \A s \in 0 .. n - 1 : <<i, s>> \in Places(t)
  BY <1>1 DEF Places
<1>3. f \in [0 .. n - 1 -> Nat]
  BY <1>2, BlockShape DEF Filling
<1>4. Filled(t, r) = Sums(f, n)
  BY DEF Filled
<1> HIDE DEF f, n
<1>5. /\ Sums(f, n) \in [0 .. n -> Nat]
      /\ Sums(f, n)[0] = 0
      /\ \A k \in 0 .. n - 1 : Sums(f, n)[k + 1] = Sums(f, n)[k] + f[k]
      /\ \A j, k \in 0 .. n : j <= k => Sums(f, n)[j] <= Sums(f, n)[k]
  BY <1>1, <1>3, SumsAre, SumsGrow
<1> QED
  BY <1>1, <1>3, <1>4, <1>5 DEF f, n

(* The running sum over the regions.                                       *)
LEMMA LimitsShape ==
  ASSUME NEW t \in Tasks
  PROVE  /\ Limits(t) \in [0 .. Regions(t) -> Nat]
         /\ Limits(t)[0] = 0
         /\ \A r \in 1 .. Regions(t) :
              Limits(t)[r] = Limits(t)[r - 1] + Filled(t, r)[NumStates(t, AutomatonOf(t, r))]
         /\ \A j, k \in 0 .. Regions(t) : j <= k => Limits(t)[j] <= Limits(t)[k]
<1> DEFINE n == Regions(t)
           End(r) == Filled(t, r)[NumStates(t, AutomatonOf(t, r))]
           f == [r \in 0 .. n - 1 |-> End(r + 1)]
<1>1. n \in Nat
  BY RegionsShape
<1>2. \A r \in 1 .. n : End(r) \in Nat
  BY FilledShape
<1>3. Limits(t) = Sums(f, n)
  BY DEF Limits
<1> HIDE DEF End, n
<1>4. f \in [0 .. n - 1 -> Nat]
  BY <1>1, <1>2
<1>5. \A r \in 1 .. n : r - 1 \in 0 .. n - 1 /\ (r - 1) + 1 = r
  BY <1>1
<1>6. \A r \in 1 .. n : f[r - 1] = End(r)
  BY <1>5
<1> HIDE DEF f
<1>7. /\ Sums(f, n) \in [0 .. n -> Nat]
      /\ Sums(f, n)[0] = 0
      /\ \A k \in 0 .. n - 1 : Sums(f, n)[k + 1] = Sums(f, n)[k] + f[k]
      /\ \A j, k \in 0 .. n : j <= k => Sums(f, n)[j] <= Sums(f, n)[k]
  BY <1>1, <1>4, SumsAre, SumsGrow
<1>8. \A r \in 1 .. n : Sums(f, n)[r] = Sums(f, n)[r - 1] + End(r)
  BY <1>5, <1>6, <1>7
<1> QED
  BY <1>3, <1>7, <1>8 DEF n, End

(* A block begins and ends in its region.                                  *)
LEMMA AddressShape ==
  ASSUME NEW t \in Tasks, NEW x \in Places(t)
  PROVE  /\ DOMAIN Addresses(t) = Places(t)
         /\ Addresses(t)[x] \in Nat
         /\ Addresses(t)[x] = Limits(t)[Region(t, x) - 1] + Filled(t, Region(t, x))[x[2]]
         /\ Addresses(t)[x] + BlockSize(t, x)
              = Limits(t)[Region(t, x) - 1] + Filled(t, Region(t, x))[x[2] + 1]
         /\ Limits(t)[Region(t, x) - 1] <= Addresses(t)[x]
         /\ Addresses(t)[x] + BlockSize(t, x) <= Limits(t)[Region(t, x)]
<1> DEFINE r == Region(t, x)
           n == NumStates(t, x[1])
           f == Filled(t, r)
           before == Limits(t)[r - 1]
<1>1. r \in 1 .. Regions(t) /\ AutomatonOf(t, r) = x[1] /\ r - 1 \in 0 .. Regions(t)
  BY RegionShape, RegionsShape
<1>2. Addresses(t) = [y \in Places(t) |-> Limits(t)[Region(t, y) - 1] + Filled(t, Region(t, y))[y[2]]]
  BY DEF Addresses
<1>3. n \in Nat /\ x[2] \in 0 .. n - 1 /\ x[2] \in 0 .. n /\ x[2] + 1 \in 0 .. n /\ n \in 0 .. n
  BY PlaceShape
<1>4. before \in Nat /\ Limits(t)[r] = before + f[n]
  BY <1>1, LimitsShape
<1>5. /\ f \in [0 .. n -> Nat]
      /\ f[x[2] + 1] = f[x[2]] + Filling(t, r)[x[2]]
      /\ f[x[2] + 1] <= f[n]
  <2>1. NumStates(t, AutomatonOf(t, r)) = n
    BY <1>1
  <2> HIDE DEF r
  <2>2. /\ f \in [0 .. n -> Nat]
        /\ \A k \in 0 .. n - 1 : f[k + 1] = f[k] + Filling(t, r)[k]
        /\ \A j, k \in 0 .. n : j <= k => f[j] <= f[k]
    BY <1>1, <2>1, FilledShape
  <2> HIDE DEF f, n
  <2>3. x[2] + 1 <= n
    BY <1>3
  <2> QED
    BY <1>3, <2>2, <2>3
<1>6. Filling(t, r)[x[2]] = BlockSize(t, x)
  <2>1. x = <<x[1], x[2]>>
    BY PlaceShape
  <2>2. Filling(t, r) = [s \in 0 .. n - 1 |-> IF Region(t, <<x[1], s>>) = r
                                                THEN BlockSize(t, <<x[1], s>>) ELSE 0]
    BY <1>1 DEF Filling
  <2> QED
    BY <1>3, <2>1, <2>2
<1>7. BlockSize(t, x) \in Nat
  BY BlockShape
<1>8. Addresses(t)[x] = before + f[x[2]] /\ DOMAIN Addresses(t) = Places(t)
  BY <1>2
<1> HIDE DEF n, f, before
<1>9. f[x[2]] \in Nat /\ f[x[2] + 1] \in Nat /\ f[n] \in Nat
  BY <1>3, <1>5
<1>10. /\ Addresses(t)[x] \in Nat
       /\ Addresses(t)[x] + BlockSize(t, x) = before + f[x[2] + 1]
       /\ before <= Addresses(t)[x]
       /\ Addresses(t)[x] + BlockSize(t, x) <= Limits(t)[r]
  <2> DEFINE here == Addresses(t)[x]
             size == BlockSize(t, x)
             u == f[x[2]]
             v == f[x[2] + 1]
             w == f[n]
             end == Limits(t)[r]
  <2>1. before \in Nat /\ size \in Nat /\ u \in Nat /\ v \in Nat /\ w \in Nat
    BY <1>4, <1>7, <1>9
  <2>2. here = before + u /\ v = u + size /\ v <= w /\ end = before + w
    BY <1>4, <1>5, <1>6, <1>8
  <2> HIDE DEF here, size, u, v, w, end
  <2>3. /\ here \in Nat /\ here + size = before + v
        /\ before <= here /\ here + size <= end
    BY <2>1, <2>2
  <2> QED
    BY <2>3 DEF here, size, v, end
<1> QED
  BY <1>8, <1>10 DEF f, before

(* Blocks do not overlap.                                                  *)
LEMMA BlocksAreApart ==
  ASSUME NEW t \in Tasks, NEW x \in Places(t), NEW y \in Places(t), x # y
  PROVE  \/ Addresses(t)[x] + BlockSize(t, x) <= Addresses(t)[y]
         \/ Addresses(t)[y] + BlockSize(t, y) <= Addresses(t)[x]
<1>1. ASSUME NEW v \in Places(t), NEW w \in Places(t), Region(t, v) < Region(t, w)
      PROVE  Addresses(t)[v] + BlockSize(t, v) <= Addresses(t)[w]
  <2>1. /\ Region(t, v) \in 0 .. Regions(t) /\ Region(t, w) - 1 \in 0 .. Regions(t)
        /\ Region(t, v) <= Region(t, w) - 1
    BY <1>1, RegionShape, RegionsShape
  <2>2. /\ Limits(t)[Region(t, v)] <= Limits(t)[Region(t, w) - 1]
        /\ Limits(t)[Region(t, v)] \in Nat /\ Limits(t)[Region(t, w) - 1] \in Nat
    BY <2>1, LimitsShape
  <2>3. /\ Addresses(t)[v] + BlockSize(t, v) <= Limits(t)[Region(t, v)]
        /\ Limits(t)[Region(t, w) - 1] <= Addresses(t)[w]
        /\ Addresses(t)[v] \in Nat /\ BlockSize(t, v) \in Nat /\ Addresses(t)[w] \in Nat
    BY AddressShape, BlockShape
  <2> QED
    BY <2>2, <2>3
<1>2. ASSUME NEW v \in Places(t), NEW w \in Places(t),
             Region(t, v) = Region(t, w), v[2] < w[2]
      PROVE  Addresses(t)[v] + BlockSize(t, v) <= Addresses(t)[w]
  <2> DEFINE r == Region(t, v)
             n == NumStates(t, AutomatonOf(t, r))
             f == Filled(t, r)
             before == Limits(t)[r - 1]
  <2>1. r \in 1 .. Regions(t) /\ AutomatonOf(t, r) = v[1] /\ AutomatonOf(t, r) = w[1]
    BY <1>2, RegionShape
  <2>2. /\ n \in Nat /\ v[2] \in 0 .. n - 1 /\ w[2] \in 0 .. n - 1
    BY <2>1, PlaceShape
  <2>3. /\ f \in [0 .. n -> Nat]
        /\ \A j, k \in 0 .. n : j <= k => f[j] <= f[k]
    <3> HIDE DEF r
    <3> QED
      BY <2>1, FilledShape
  <2>4. /\ Addresses(t)[v] + BlockSize(t, v) = before + f[v[2] + 1]
        /\ Addresses(t)[w] = before + f[w[2]]
    BY <1>2, AddressShape
  <2>5. before \in Nat
    <3>1. r - 1 \in 0 .. Regions(t)
      BY <2>1, RegionsShape
    <3> QED
      BY <3>1, LimitsShape
  <2> HIDE DEF n, f, before, r
  <2>6. v[2] + 1 \in 0 .. n /\ w[2] \in 0 .. n /\ v[2] + 1 <= w[2]
    BY <1>2, <2>2
  <2>7. f[v[2] + 1] <= f[w[2]] /\ f[v[2] + 1] \in Nat /\ f[w[2]] \in Nat
    BY <2>3, <2>6
  <2> QED
    BY <2>4, <2>5, <2>7
<1>3. /\ Region(t, x) \in Int /\ Region(t, y) \in Int
      /\ x[2] \in Int /\ y[2] \in Int
  BY RegionShape, RegionsShape, PlaceShape
<1>4. CASE Region(t, x) # Region(t, y)
  BY <1>1, <1>3, <1>4
<1>5. CASE Region(t, x) = Region(t, y)
  <2>1. x[1] = y[1]
    BY <1>5, RegionShape
  <2>2. x[2] # y[2]
    BY <2>1, PlaceShape
  <2> QED
    BY <1>2, <1>3, <1>5, <2>2
<1> QED
  BY <1>4, <1>5

(* The region that is told from the address is the one the state is in.    *)
LEMMA RegionIsToldFromTheAddress ==
  ASSUME task \in Tasks, address = Addresses(task), limit = Limits(task),
         NEW x \in Places(task)
  PROVE  RegionAt(x) = Region(task, x)
<1> DEFINE r == Region(task, x)
<1>1. /\ r \in 1 .. Regions(task) /\ Regions(task) \in Nat
      /\ limit \in [0 .. Regions(task) -> Nat]
      /\ \A j, k \in 0 .. Regions(task) : j <= k => limit[j] <= limit[k]
  BY RegionShape, RegionsShape, LimitsShape
<1>2. /\ address[x] \in Nat /\ BlockSize(task, x) \in Nat
      /\ limit[r - 1] <= address[x] /\ address[x] + BlockSize(task, x) <= limit[r]
      /\ Full(task, x) \/ Extra(task, x) = 1 => BlockSize(task, x) # 0
  BY AddressShape, BlockShape
<1>3. Full(task, x) \/ Extra(task, x) = 1 => address[x] < limit[r]
  <2>1. limit[r] \in Nat
    BY <1>1
  <2> QED
    BY <1>2, <2>1
<1>4. CASE IsNfa
  <2> DEFINE P(q) == /\ q # 4 => address[x] < limit[q]
                     /\ \A p \in 1 .. q - 1 : address[x] >= limit[p]
  <2>1. Regions(task) = 4 /\ (Full(task, x) <=> r <= 2) /\ (HasEpsilon(task, x) <=> r \in {1, 3})
    BY <1>4, RegionShape DEF IsNfa, Regions
  <2>2. r # 4 => Full(task, x) \/ Extra(task, x) = 1
    BY <1>1, <2>1 DEF Extra
  <2> HIDE DEF r
  <2>3. P(r)
    <3>1. r # 4 => address[x] < limit[r]
      BY <1>3, <2>2
    <3>2. ASSUME NEW p \in 1 .. r - 1 PROVE address[x] >= limit[p]
      <4>1. p \in 0 .. 4 /\ r - 1 \in 0 .. 4 /\ p <= r - 1
        BY <1>1, <2>1
      <4>2. limit[p] <= limit[r - 1] /\ limit[p] \in Nat /\ limit[r - 1] \in Nat
        BY <1>1, <2>1, <4>1
      <4> QED
        BY <1>2, <4>2
    <3> QED
      BY <3>1, <3>2
  <2>4. ASSUME NEW q \in 1 .. 4, P(q) PROVE q = r
    <3>1. \A k \in 1 .. 4 : limit[k] \in Nat
      BY <1>1, <2>1
    <3>2. ~ (q < r)
      <4>1. SUFFICES ASSUME q < r PROVE FALSE
        OBVIOUS
      <4>2. q # 4 /\ q \in 1 .. r - 1
        BY <1>1, <2>1, <4>1
      <4> QED
        BY <1>2, <2>3, <2>4, <3>1, <4>2
    <3>3. ~ (r < q)
      <4>1. SUFFICES ASSUME r < q PROVE FALSE
        OBVIOUS
      <4>2. r # 4 /\ r \in 1 .. q - 1 /\ r \in 1 .. 4
        BY <1>1, <2>1, <4>1
      <4> QED
        BY <1>2, <2>3, <2>4, <3>1, <4>2
    <3> QED
      BY <1>1, <3>2, <3>3
  <2>5. RegionAt(x) = CHOOSE q \in 1 .. 4 : P(q)
    BY <1>4 DEF RegionAt
  <2>6. r \in 1 .. 4
    BY <1>1, <2>1
  <2> HIDE DEF P
  <2>7. RegionAt(x) = r
    BY <2>3, <2>4, <2>5, <2>6
  <2> QED
    BY <2>7 DEF r
<1>5. CASE ~ IsNfa
  <2>1. r = 2 * x[1] - (IF Full(task, x) THEN 1 ELSE 0)
    BY <1>5, RegionShape DEF IsNfa
  <2>2. RegionAt(x) = 2 * x[1] - (IF address[x] < limit[2 * x[1] - 1] THEN 1 ELSE 0)
    BY <1>5 DEF RegionAt
  <2>3. CASE Full(task, x)
    BY <1>3, <2>1, <2>2, <2>3
  <2>4. CASE ~ Full(task, x)
    <3>0. x[1] \in Int
      BY PlaceShape, TaskShape
    <3>1. r - 1 = 2 * x[1] - 1
      BY <2>1, <2>4, <3>0
    <3>2. limit[r - 1] \in Nat
      BY <1>1
    <3> QED
      BY <1>2, <2>1, <2>2, <2>4, <3>1, <3>2
  <2> QED
    BY <2>3, <2>4
<1> QED
  BY <1>4, <1>5

-----------------------------------------------------------------------------
(***************************************************************************)
(* Accesses.                                                               *)
(***************************************************************************)
LaidOut == task \in Tasks /\ address = Addresses(task) /\ limit = Limits(task)

(* What is told from the address is what was laid out.                     *)
LEMMA LayoutIsTold ==
  ASSUME LaidOut, NEW x \in Places(task)
  PROVE  /\ IsFull(x) <=> Full(task, x)
         /\ WithEpsilon(x) <=> HasEpsilon(task, x)
         /\ ExtraAt(x) = Extra(task, x)
<1> DEFINE r == Region(task, x)
<1>1. RegionAt(x) = r
  BY RegionIsToldFromTheAddress DEF LaidOut
<1>2. CASE IsNfa
  <2>1. (Full(task, x) <=> r <= 2) /\ (HasEpsilon(task, x) <=> r \in {1, 3})
    BY <1>2, RegionShape DEF LaidOut, IsNfa
  <2>2. (IsFull(x) <=> r <= 2) /\ (WithEpsilon(x) <=> r \in {1, 3})
    BY <1>1, <1>2 DEF IsFull, WithEpsilon
  <2>3. ExtraAt(x) = (IF WithEpsilon(x) THEN 1 ELSE 0) /\ Extra(task, x) = (IF HasEpsilon(task, x) THEN 1 ELSE 0)
    BY <1>2 DEF ExtraAt, Extra, IsNfa
  <2> QED
    BY <2>1, <2>2, <2>3
<1>3. CASE ~ IsNfa
  <2>1. r = 2 * x[1] - (IF Full(task, x) THEN 1 ELSE 0) /\ x[1] \in Int
    BY <1>3, RegionShape, PlaceShape, TaskShape DEF LaidOut, IsNfa
  <2>2. r % 2 = 1 <=> Full(task, x)
    <3> HIDE DEF r
    <3> QED
      BY <2>1
  <2>3. IsFull(x) <=> r % 2 = 1
    BY <1>1, <1>3 DEF IsFull
  <2>4. ~ WithEpsilon(x) /\ ~ HasEpsilon(task, x)
    BY <1>3 DEF WithEpsilon, HasEpsilon, IsNfa
  <2>5. ExtraAt(x) = (IF IsFull(x) THEN 0 ELSE 1) /\ Extra(task, x) = (IF Full(task, x) THEN 0 ELSE 1)
    BY <1>3, <2>4 DEF ExtraAt, Extra, IsNfa
  <2> QED
    BY <2>2, <2>3, <2>4, <2>5
<1> QED
  BY <1>2, <1>3

(* Reads of words between two addresses.                                   *)
Within(s, from, to) ==
  s \in Seq(Nat) /\ \A k \in 1 .. Len(s) : from <= s[k] /\ s[k] + WORD <= to

(* What is read one after the other.                                       *)
LEMMA WithinBoth ==
  ASSUME NEW s, NEW u, NEW from \in Nat, NEW to \in Nat, Within(s, from, to), Within(u, from, to)
  PROVE  Within(s \o u, from, to)
<1> DEFINE v == s \o u
<1>1. v \in Seq(Nat) /\ Len(v) = Len(s) + Len(u)
  BY DEF Within
<1>2. ASSUME NEW k \in 1 .. Len(v)
      PROVE  from <= v[k] /\ v[k] + WORD <= to
  <2>1. CASE k <= Len(s)
    <3>1. k \in 1 .. Len(s) /\ v[k] = s[k]
      BY <1>1, <2>1 DEF Within
    <3> QED
      BY <3>1 DEF Within
  <2>2. CASE ~ (k <= Len(s))
    <3>1. k - Len(s) \in 1 .. Len(u) /\ v[k] = u[k - Len(s)]
      BY <1>1, <2>2 DEF Within
    <3> QED
      BY <3>1 DEF Within
  <2> QED
    BY <2>1, <2>2
<1> QED
  BY <1>1, <1>2 DEF Within

(* Between addresses that are farther apart.                               *)
LEMMA WithinMore ==
  ASSUME NEW s, NEW from \in Nat, NEW to \in Nat, NEW more \in Nat, Within(s, from, to), to <= more
  PROVE  Within(s, from, more)
<1>1. \A k \in 1 .. Len(s) : s[k] \in Nat
  BY DEF Within
<1> QED
  BY <1>1 DEF Within, WORD

(* Nothing is read.                                                        *)
LEMMA WithinNothing ==
  ASSUME NEW from \in Nat, NEW to \in Nat
  PROVE  Within(<<>>, from, to)
BY DEF Within

(* The words of an entry.                                                  *)
LEMMA EntryIsWithin ==
  ASSUME LaidOut, NEW x \in Places(task), NEW i \in Nat, NEW n \in Nat, i < n
  PROVE  Within(EntryWords(x, i), address[x], address[x] + Entry(task) * n)
<1> DEFINE e == Entry(task)
           m == e \div WORD
           b == address[x]
           s == EntryWords(x, i)
<1>1. e \in Nat \ {0} /\ m \in Nat /\ e = WORD * m /\ b \in Nat
  BY EntryShape, AddressShape DEF LaidOut
<1>2. s = [k \in 1 .. m |-> b + i * e + (k - 1) * WORD]
  BY DEF EntryWords
<1> HIDE DEF e, m, b, s
<1>3. i * e \in Nat /\ e * n \in Nat /\ i * e + e <= e * n
  <2>1. e * (i + 1) <= e * n
    BY <1>1
  <2>2. e * (i + 1) = i * e + e
    BY <1>1
  <2> QED
    BY <1>1, <2>1, <2>2
<1> DEFINE o == i * e
           z == e * n
<1>4. o \in Nat /\ z \in Nat /\ o + e <= z /\ s = [k \in 1 .. m |-> b + o + (k - 1) * WORD]
  BY <1>2, <1>3
<1> HIDE DEF o, z
<1>5. \A k \in 1 .. m : /\ b + o + (k - 1) * WORD \in Nat
                        /\ b <= b + o + (k - 1) * WORD
                        /\ b + o + (k - 1) * WORD + WORD <= b + z
  BY <1>1, <1>4 DEF WORD
<1>6. s \in Seq(Nat) /\ Len(s) = m
  BY <1>1, <1>4, <1>5
<1>7. Within(s, b, b + z)
  BY <1>4, <1>5, <1>6 DEF Within
<1> QED
  BY <1>7 DEF s, b, z, e

(* The first words of a block.                                             *)
LEMMA WordsAreWithin ==
  ASSUME LaidOut, NEW x \in Places(task), NEW n \in Nat, NEW m \in Nat, n <= m
  PROVE  Within(Words(x, n), address[x], address[x] + WORD * m)
<1> DEFINE b == address[x]
           s == Words(x, n)
<1>1. b \in Nat
  BY AddressShape DEF LaidOut
<1>2. s = [k \in 1 .. n |-> b + (k - 1) * WORD]
  BY DEF Words
<1> HIDE DEF b, s
<1>3. \A k \in 1 .. n : /\ b + (k - 1) * WORD \in Nat
                        /\ b <= b + (k - 1) * WORD
                        /\ b + (k - 1) * WORD + WORD <= b + WORD * m
  BY <1>1 DEF WORD
<1>4. s \in Seq(Nat) /\ Len(s) = n
  BY <1>2, <1>3
<1>5. Within(s, b, b + WORD * m)
  BY <1>2, <1>3, <1>4 DEF Within
<1> QED
  BY <1>5 DEF s, b

(* The labels before a symbol.                                             *)
LEMMA LabelsBeforeShape ==
  ASSUME task \in Tasks, NEW x \in Places(task), NEW a \in Symbols
  PROVE  /\ LabelsBefore(x, a) \in Nat /\ NumLabeled(task, x) \in Nat
         /\ LabelsBefore(x, a) <= NumLabeled(task, x)
         /\ a \in Labels(task, x) => LabelsBefore(x, a) < NumLabeled(task, x)
<1> DEFINE all == Labels(task, x)
           before == {l \in all : l < a}
<1>1. /\ all \in SUBSET Symbols /\ NumLabeled(task, x) \in Nat
      /\ Cardinality(all) \in Nat /\ Cardinality(all) <= NumLabeled(task, x)
  BY LabelsShape
<1>2. IsFiniteSet(all)
  <2>1. IsFiniteSet(Symbols)
    BY AlphabetAssumption, FS_Interval DEF Symbols
  <2> QED
    BY <1>1, <2>1, FS_Subset
<1>3. LabelsBefore(x, a) = Cardinality(before)
  BY DEF LabelsBefore
<1> HIDE DEF all
<1>4. before \in SUBSET all
  OBVIOUS
<1>5. /\ IsFiniteSet(before) /\ Cardinality(before) \in Nat
      /\ Cardinality(before) <= Cardinality(all)
      /\ Cardinality(before) = Cardinality(all) => before = all
  BY <1>2, <1>4, FS_Subset, FS_CardinalityType
<1>6. a \in all => before # all
  <2>1. a \notin before
    BY AlphabetAssumption DEF Symbols
  <2> QED
    BY <2>1
<1> HIDE DEF before
<1> QED
  BY <1>1, <1>3, <1>5, <1>6 DEF all

(* The words of the bitmaps that a traversal counts.                       *)
LEMMA MaskedShape ==
  ASSUME task \in Tasks, NEW x \in Places(task), NEW a \in Symbols
  PROVE  /\ AllMasked(x) \in Nat
         /\ MaskedUpTo(x, a \div BYTE) \in Nat
         /\ MaskedUpTo(x, a \div BYTE) <= AllMasked(x)
<1> DEFINE g == CSIZE \div BYTE
           q == a \div BYTE
           all == {i \in 0 .. g - 1 : Masked(x, i)}
           some == {i \in 0 .. q : Masked(x, i)}
<1>1. g \in Nat /\ q \in 0 .. g - 1
  BY GroupShape
<1>2. MaskedUpTo(x, q) = WordsFor(Cardinality(some)) /\ AllMasked(x) = WordsFor(Cardinality(all))
  BY DEF MaskedUpTo, AllMasked
<1> HIDE DEF g, q
<1>3. some \in SUBSET all /\ all \in SUBSET (0 .. g - 1)
  BY <1>1
<1>4. IsFiniteSet(0 .. g - 1)
  BY <1>1, FS_Interval
<1> HIDE DEF all, some
<1>5. IsFiniteSet(all) /\ IsFiniteSet(some) /\ Cardinality(some) <= Cardinality(all)
  BY <1>3, <1>4, FS_Subset
<1>6. Cardinality(all) \in Nat /\ Cardinality(some) \in Nat
  BY <1>5, FS_CardinalityType
<1> QED
  BY <1>2, <1>5, <1>6, WordsForShape DEF q

(* Fully specified states.                                                 *)
LEMMA FullIsWithin ==
  ASSUME LaidOut, NEW x \in Places(task), NEW a \in Symbols, IsFull(x)
  PROVE  Within(FullAccesses(x, a), address[x], BlockEnd(x))
<1> DEFINE e == Entry(task)
           b == address[x]
           n == CSIZE + Extra(task, x)
<1>1. /\ e \in Nat \ {0} /\ b \in Nat /\ CSIZE \in Nat \ {0} /\ a \in 0 .. CSIZE - 1
      /\ Extra(task, x) \in {0, 1}
  BY EntryShape, AddressShape, BlockShape, AlphabetAssumption DEF LaidOut, Symbols
<1>2. BlockEnd(x) = b + e * n
  BY LayoutIsTold DEF BlockEnd, BlockSize
<1>3. WithEpsilon(x) => Extra(task, x) = 1
  BY LayoutIsTold DEF Extra
<1>4. n \in Nat /\ b + e * n \in Nat
  BY <1>1
<1>5. CASE WithEpsilon(x)
  <2>1. 0 \in Nat /\ 0 < n /\ a + 1 \in Nat /\ a + 1 < n
    BY <1>1, <1>3, <1>5
  <2>2. /\ Within(EntryWords(x, 0), b, b + e * n)
        /\ Within(EntryWords(x, a + 1), b, b + e * n)
    <3> HIDE DEF n
    <3> QED
      BY <1>4, <2>1, EntryIsWithin
  <2>3. FullAccesses(x, a) = EntryWords(x, 0) \o EntryWords(x, a + 1)
    BY <1>5 DEF FullAccesses
  <2> HIDE DEF b, n, e
  <2> QED
    BY <1>1, <1>2, <1>4, <2>2, <2>3, WithinBoth DEF b
<1>6. CASE ~ WithEpsilon(x)
  <2>1. a \in Nat /\ a < n
    BY <1>1
  <2>2. Within(EntryWords(x, a), b, b + e * n)
    <3> HIDE DEF n
    <3> QED
      BY <1>4, <2>1, EntryIsWithin
  <2> QED
    BY <1>2, <1>6, <2>2 DEF FullAccesses
<1> QED
  BY <1>5, <1>6

(* The layout LINEAR.                                                      *)
LEMMA LinearIsWithin ==
  ASSUME LaidOut, NEW x \in Places(task), NEW a \in Symbols,
         ~ IsFull(x), task.layout = "LINEAR"
  PROVE  Within(LinearAccesses(x, a), address[x], BlockEnd(x) + Overrun(x, a))
<1> DEFINE b == address[x]
           ex == Extra(task, x)
           nl == NumLabeled(task, x)
           lb == LabelsBefore(x, a)
           over == IF a \notin Labels(task, x) /\ lb = nl THEN 1 ELSE 0
           n == ex + lb + 1
           m == ex + nl + over
<1>1. /\ b \in Nat /\ ex \in {0, 1} /\ nl \in Nat /\ lb \in Nat /\ lb <= nl
      /\ a \in Labels(task, x) => lb < nl
  BY AddressShape, BlockShape, LabelsBeforeShape DEF LaidOut
<1>2. BlockEnd(x) = b + WORD * (0 + ex + nl)
  BY LayoutIsTold DEF BlockEnd, BlockSize, Entry, SparseWords, BitmapWords
<1>3. Overrun(x, a) = IF a \notin Labels(task, x) /\ lb = nl THEN WORD ELSE 0
  BY DEF Overrun
<1>4. BlockEnd(x) + Overrun(x, a) = b + WORD * m
  <2> HIDE DEF b, ex, nl, lb
  <2> QED
    BY <1>1, <1>2, <1>3 DEF WORD
<1>5. LinearAccesses(x, a) = Words(x, n)
  BY LayoutIsTold DEF LinearAccesses
<1>6. n \in Nat /\ m \in Nat /\ n <= m
  <2> HIDE DEF ex, nl, lb
  <2> QED
    BY <1>1
<1> HIDE DEF n, m
<1> QED
  BY <1>4, <1>5, <1>6, WordsAreWithin

(* The layout INDIRECT_ADDR.                                               *)
LEMMA IndirectIsWithin ==
  ASSUME LaidOut, NEW x \in Places(task), NEW a \in Symbols,
         ~ IsFull(x), task.layout = "INDIRECT_ADDR"
  PROVE  Within(IndirectAccesses(x, a), address[x], BlockEnd(x))
<1> DEFINE b == address[x]
           e == Entry(task)
           ex == Extra(task, x)
           nl == NumLabeled(task, x)
           lb == LabelsBefore(x, a)
           m == 0 + ex + nl
           to == b + e * m
           labeled == IF a \in Labels(task, x) THEN EntryWords(x, ex + lb) ELSE <<>>
<1>1. /\ b \in Nat /\ ex \in {0, 1} /\ nl \in Nat /\ lb \in Nat /\ lb <= nl
      /\ a \in Labels(task, x) => lb < nl
      /\ e \in Nat \ {0}
  BY AddressShape, BlockShape, LabelsBeforeShape, EntryShape DEF LaidOut
<1>2. BlockEnd(x) = to
  BY LayoutIsTold DEF BlockEnd, BlockSize, SparseWords, BitmapWords
<1>3. m \in Nat /\ to \in Nat
  BY <1>1
<1>4. Within(labeled, b, to)
  <2>1. CASE a \in Labels(task, x)
    <3>1. ex + lb \in Nat /\ ex + lb < m
      BY <1>1, <2>1
    <3> DEFINE i == ex + lb
    <3>2. Within(EntryWords(x, i), b, to)
      <4>1. i \in Nat /\ i < m
        BY <3>1
      <4> HIDE DEF i, m
      <4> QED
        BY <1>3, <4>1, EntryIsWithin
    <3> QED
      BY <2>1, <3>2
  <2>2. CASE a \notin Labels(task, x)
    <3> HIDE DEF to, b
    <3> QED
      BY <1>1, <1>3, <2>2, WithinNothing
  <2> QED
    BY <2>1, <2>2
<1>5. IndirectAccesses(x, a) = IF WithEpsilon(x) \/ (~ IsNfa /\ labeled = <<>>)
                                 THEN EntryWords(x, 0) \o labeled ELSE labeled
  BY LayoutIsTold DEF IndirectAccesses
<1>6. WithEpsilon(x) \/ ~ IsNfa => ex = 1
  BY LayoutIsTold DEF Extra, IsNfa
<1>7. CASE ex = 1
  <2>1. 0 \in Nat /\ 0 < m
    BY <1>1, <1>7
  <2>2. Within(EntryWords(x, 0), b, to)
    <3> HIDE DEF m
    <3> QED
      BY <1>3, <2>1, EntryIsWithin
  <2> DEFINE first == EntryWords(x, 0)
  <2> HIDE DEF to, b, labeled, first
  <2>3. Within(first \o labeled, b, to)
    BY <1>1, <1>3, <1>4, <2>2, WithinBoth DEF first
  <2> QED
    BY <1>2, <1>4, <1>5, <2>3 DEF first, b
<1>8. CASE ex # 1
  BY <1>2, <1>4, <1>5, <1>6, <1>8
<1> QED
  BY <1>7, <1>8

(* The layout BITMAP: the entry is looked for behind the words of all the  *)
(* bits in the mask.                                                       *)
LEMMA BitmapIsWithin ==
  ASSUME LaidOut, NEW x \in Places(task), NEW a \in Symbols,
         ~ IsFull(x), task.layout = "BITMAP"
  PROVE  Within(BitmapAccesses(x, a), address[x], BlockEnd(x) + Overrun(x, a))
<1> DEFINE b == address[x]
           ex == Extra(task, x)
           nl == NumLabeled(task, x)
           lb == LabelsBefore(x, a)
           am == AllMasked(x)
           mu == MaskedUpTo(x, a \div BYTE)
           wf == WordsFor(Cardinality(Bitmap(task, x)))
           m == 1 + am + ex + nl
           to == b + WORD * m
           n == 1 + (IF WithEpsilon(x) THEN 1 ELSE 0) + (IF Masked(x, a \div BYTE) THEN mu ELSE 0)
           entry == BitmapEntry(x, a)
           last == [k \in DOMAIN entry |-> b + entry[k] * WORD]
<1>1. /\ b \in Nat /\ ex \in {0, 1} /\ nl \in Nat /\ lb \in Nat /\ lb <= nl
      /\ a \in Labels(task, x) => lb < nl
      /\ am \in Nat /\ mu \in Nat /\ mu <= am
      /\ wf \in Nat
  BY AddressShape, BlockShape, LabelsBeforeShape, MaskedShape, BitmapShape, WordsForShape DEF LaidOut
<1>2. BlockEnd(x) = b + WORD * ((1 + wf) + ex + nl) /\ Overrun(x, a) = WORD * (am - wf)
  BY LayoutIsTold DEF BlockEnd, BlockSize, Entry, SparseWords, BitmapWords, Overrun
<1>3. BlockEnd(x) + Overrun(x, a) = to /\ m \in Nat /\ to \in Nat
  <2> HIDE DEF b, ex, nl, lb, wf, am
  <2> QED
    BY <1>1, <1>2 DEF WORD
<1>4. BitmapAccesses(x, a) = Words(x, n) \o last
  BY DEF BitmapAccesses
<1>5. WithEpsilon(x) \/ ~ IsNfa => ex = 1
  BY LayoutIsTold DEF Extra, IsNfa
<1>6. Within(Words(x, n), b, to)
  <2>1. n \in Nat /\ n <= m
    <3> HIDE DEF ex, nl, lb, am, mu
    <3> QED
      BY <1>1, <1>5
  <2> HIDE DEF n, m
  <2> QED
    BY <1>3, <2>1, WordsAreWithin
<1>7. entry = <<>> \/ \E j \in Nat : j < m /\ entry = <<j>>
  <2> DEFINE j == (IF IsNfa /\ ~ WithEpsilon(x) THEN 0 ELSE 2) + am + lb
  <2>1. entry = IF a \in Labels(task, x) THEN <<j>> ELSE IF IsNfa THEN <<>> ELSE <<1 + am>>
    BY DEF BitmapEntry
  <2> HIDE DEF entry, ex, nl, lb, am
  <2>2. a \in Labels(task, x) => j \in Nat /\ j < m
    BY <1>1, <1>5
  <2>3. ~ IsNfa => 1 + am \in Nat /\ 1 + am < m
    BY <1>1, <1>5
  <2> HIDE DEF m, j
  <2> QED
    BY <2>1, <2>2, <2>3
<1>8. Within(last, b, to)
  <2>1. CASE entry = <<>>
    <3>1. last = <<>>
      BY <2>1
    <3> HIDE DEF last, b, to
    <3> QED
      BY <1>1, <1>3, <3>1, WithinNothing
  <2>2. CASE \E j \in Nat : j < m /\ entry = <<j>>
    <3>1. PICK j \in Nat : j < m /\ entry = <<j>>
      BY <2>2
    <3> HIDE DEF entry, b, m
    <3>2. last = <<b + j * WORD>>
      BY <3>1
    <3>3. b + j * WORD \in Nat /\ b <= b + j * WORD /\ b + j * WORD + WORD <= to
      BY <1>1, <1>3, <3>1 DEF WORD
    <3> HIDE DEF last, to
    <3> QED
      BY <3>2, <3>3 DEF Within
  <2> QED
    BY <1>7, <2>1, <2>2
<1> DEFINE first == Words(x, n)
<1> HIDE DEF first, last, b, to
<1>9. Within(first \o last, b, to)
  BY <1>1, <1>3, <1>6, <1>8, WithinBoth DEF first
<1> QED
  BY <1>3, <1>4, <1>9 DEF first, b

(* Whatever the layout, a state is read in its block, but for the words    *)
(* that Overrun names.                                                     *)
LEMMA AccessesAreWithin ==
  ASSUME LaidOut, NEW x \in Places(task), NEW a \in Symbols
  PROVE  Within(Accesses(x, a), address[x], BlockEnd(x) + Overrun(x, a))
<1>1. task.layout \in {"LINEAR", "BITMAP", "INDIRECT_ADDR"}
  BY TaskShape DEF LaidOut
<1>2. BlockEnd(x) \in Nat
  BY AddressShape, BlockShape DEF BlockEnd, LaidOut
<1>3. CASE IsFull(x)
  <2>1. Accesses(x, a) = FullAccesses(x, a) /\ Overrun(x, a) = 0
    BY <1>3 DEF Accesses, Overrun
  <2>2. BlockEnd(x) + Overrun(x, a) = BlockEnd(x)
    BY <1>2, <2>1
  <2> QED
    BY <1>3, <2>1, <2>2, FullIsWithin
<1>4. CASE ~ IsFull(x) /\ task.layout = "LINEAR"
  <2>1. Accesses(x, a) = LinearAccesses(x, a)
    BY <1>4 DEF Accesses
  <2> QED
    BY <1>4, <2>1, LinearIsWithin
<1>5. CASE ~ IsFull(x) /\ task.layout = "BITMAP"
  <2>1. Accesses(x, a) = BitmapAccesses(x, a)
    BY <1>5 DEF Accesses
  <2> QED
    BY <1>5, <2>1, BitmapIsWithin
<1>6. CASE ~ IsFull(x) /\ task.layout = "INDIRECT_ADDR"
  <2>1. Accesses(x, a) = IndirectAccesses(x, a) /\ Overrun(x, a) = 0
    BY <1>6 DEF Accesses, Overrun
  <2>2. BlockEnd(x) + Overrun(x, a) = BlockEnd(x)
    BY <1>2, <2>1
  <2> QED
    BY <1>6, <2>1, <2>2, IndirectIsWithin
<1> QED
  BY <1>1, <1>3, <1>4, <1>5, <1>6

-----------------------------------------------------------------------------
(***************************************************************************)
(* The inductive invariant.                                                *)
(***************************************************************************)
(* The places are laid out, and what is still to be read for a state is    *)
(* read in its block.                                                      *)
ReadsInv ==
  /\ LaidOut
  /\ c \in Symbols
  /\ at \in Places(task)
  /\ Within(reads, address[at], BlockEnd(at) + Overrun(at, c))
  /\ pc = "next" => reads = <<>>

(* The states of the DFAs are states.                                      *)
AreStates(q) ==
  /\ DOMAIN q = DOMAIN task.fa
  /\ \A i \in DOMAIN task.fa : q[i] \in StatesOf(task.fa[i])
  /\ q = [i \in DOMAIN task.fa |-> q[i]]

(* The rules the DFAs from the i-th on meet with the symbol.               *)
RulesFrom(i) ==
  UNION {task.fa[j].accepted[ref.state[j]] : j \in {k \in DOMAIN task.fa : i <= k}}

(* The DFAs before the one at `at' have followed the symbol, from the      *)
(* others the symbol leads where it should.                                *)
DfaWalkInv ==
  /\ AreStates(state) /\ AreStates(ref.state)
  /\ active = ref.active
  /\ pc = "next" => /\ state = ref.state
                    /\ ref.accepted \subseteq accepted
                    /\ task.how = "dfas" => accepted = ref.accepted
  /\ pc # "next" => /\ at = <<at[1], state[at[1]]>>
                    /\ \A j \in DOMAIN task.fa :
                         IF j < at[1] THEN state[j] = ref.state[j]
                                      ELSE task.fa[j].table[state[j]][c] = ref.state[j]
                    /\ ref.accepted \subseteq accepted \cup RulesFrom(at[1])
                    /\ task.how = "dfas" => accepted \cup RulesFrom(at[1]) = ref.accepted

(* The rules of the active states that are still to be read are not yet    *)
(* recorded, nor those of the states the symbol leads to.                  *)
NfaWalkInv ==
  LET nfa == task.fa[1]
  IN /\ active \in SUBSET Ids(task) /\ todo \in SUBSET active
     /\ state = ref.state
     /\ pc = "next" => /\ active = ref.active
                       /\ accepted \cup AcceptedBy(nfa, active) = ref.accepted
     /\ pc # "next" => /\ ref.active = Move(nfa, active, c)
                       /\ accepted \cup AcceptedBy(nfa, todo) \cup AcceptedBy(nfa, ref.active)
                            = ref.accepted

WalkInv ==
  /\ ref = [state |-> ref.state, active |-> ref.active, accepted |-> ref.accepted]
  /\ IF IsNfa THEN NfaWalkInv ELSE DfaWalkInv

IInv == ReadsInv /\ WalkInv /\ CacheInv

-----------------------------------------------------------------------------
(* As long as the layout stays, so does what is told from it.              *)
LEMMA LayoutStays ==
  ASSUME LaidOut, UNCHANGED layoutVars
  PROVE  /\ IsNfa' = IsNfa
         /\ \A x : IsFull(x)' = IsFull(x) /\ BlockEnd(x)' = BlockEnd(x)
         /\ \A x, a : Overrun(x, a)' = Overrun(x, a)
<1>1. task' = task /\ address' = address /\ limit' = limit
  BY DEF layoutVars
<1>2. IsNfa' = IsNfa
  BY <1>1 DEF IsNfa
<1>3. \A x : RegionAt(x)' = RegionAt(x)
  BY <1>1, <1>2 DEF RegionAt
<1>4. \A x : IsFull(x)' = IsFull(x)
  BY <1>2, <1>3 DEF IsFull
<1>5. \A x : BlockEnd(x)' = BlockEnd(x)
  BY <1>1 DEF BlockEnd
<1>6. \A x, i : Masked(x, i)' = Masked(x, i)
  BY <1>1 DEF Masked
<1>7. \A x : AllMasked(x)' = AllMasked(x)
  <2>1. \A x, n : {i \in 0 .. n : Masked(x, i)'} = {i \in 0 .. n : Masked(x, i)}
    BY <1>6
  <2> QED
    BY <2>1 DEF AllMasked, MaskedUpTo
<1>8. \A x, a : LabelsBefore(x, a)' = LabelsBefore(x, a)
  BY <1>1 DEF LabelsBefore
<1>9. ASSUME NEW x, NEW a PROVE Overrun(x, a)' = Overrun(x, a)
  <2> DEFINE linear == IF a \notin Labels(task, x) /\ LabelsBefore(x, a) = NumLabeled(task, x)
                         THEN WORD ELSE 0
             bitmap == WORD * (AllMasked(x) - WordsFor(Cardinality(Bitmap(task, x))))
  <2>1. linear' = linear
    BY <1>1, <1>8
  <2>2. bitmap' = bitmap
    BY <1>1, <1>7
  <2>3. Overrun(x, a) = IF IsFull(x) THEN 0
                        ELSE CASE task.layout = "LINEAR" -> linear
                               [] task.layout = "BITMAP" -> bitmap
                               [] task.layout = "INDIRECT_ADDR" -> 0
    BY DEF Overrun
  <2>4. Overrun(x, a)' = IF IsFull(x)' THEN 0
                        ELSE CASE task'.layout = "LINEAR" -> linear'
                               [] task'.layout = "BITMAP" -> bitmap'
                               [] task'.layout = "INDIRECT_ADDR" -> 0
    BY DEF Overrun
  <2>5. task.layout \in {"LINEAR", "BITMAP", "INDIRECT_ADDR"}
    BY TaskShape DEF LaidOut
  <2> HIDE DEF linear, bitmap
  <2> QED
    BY <1>1, <1>4, <2>5, <2>1, <2>2, <2>3, <2>4
<1> QED
  BY <1>2, <1>4, <1>5, <1>9

(* The layout is made once.                                                *)
LEMMA LaidOutStays ==
  ASSUME LaidOut, UNCHANGED layoutVars
  PROVE  LaidOut'
BY DEF LaidOut, layoutVars

(* A state that is visited is read in its block.                           *)
LEMMA VisitIsWithin ==
  ASSUME LaidOut, UNCHANGED layoutVars, pc' # "next",
         NEW x \in Places(task), NEW a \in Symbols, c' = a, Visit(x, a)
  PROVE  ReadsInv'
<1>1. at' = x /\ reads' = Accesses(x, a) /\ task' = task /\ address' = address
  BY DEF Visit, layoutVars
<1>2. Within(Accesses(x, a), address[x], BlockEnd(x) + Overrun(x, a))
  BY AccessesAreWithin
<1>3. BlockEnd(x)' = BlockEnd(x) /\ Overrun(x, a)' = Overrun(x, a)
  BY LayoutStays
<1>4. Within(reads, address[at], BlockEnd(at) + Overrun(at, c))'
  BY <1>1, <1>2, <1>3
<1>5. at' \in Places(task') /\ c' \in Symbols
  BY <1>1
<1> QED
  BY <1>4, <1>5, LaidOutStays DEF ReadsInv

(* What is left of the reads is.                                           *)
LEMMA ReadsStay ==
  ASSUME ReadsInv, UNCHANGED layoutVars, UNCHANGED <<at, c>>,
         \/ reads' = reads
         \/ reads # <<>> /\ reads' = Tail(reads),
         pc' = "next" => pc = "next" \/ reads' = <<>>
  PROVE  ReadsInv'
<1>1. LaidOut /\ LaidOut' /\ task' = task /\ address' = address /\ at' = at /\ c' = c
  BY LaidOutStays DEF ReadsInv, layoutVars
<1> DEFINE from == address[at]
           to == BlockEnd(at) + Overrun(at, c)
<1>2. (address[at])' = from /\ (BlockEnd(at) + Overrun(at, c))' = to
  BY <1>1, LayoutStays
<1>3. Within(reads, from, to)
  BY DEF ReadsInv
<1> HIDE DEF from, to
<1>4. Within(reads', from, to)
  <2>1. CASE reads' = reads
    BY <1>3, <2>1
  <2>2. CASE reads # <<>> /\ reads' = Tail(reads)
    <3>1. /\ reads' \in Seq(Nat) /\ Len(reads') = Len(reads) - 1
          /\ \A k \in 1 .. Len(reads') : k + 1 \in 1 .. Len(reads) /\ reads'[k] = reads[k + 1]
      BY <1>3, <2>2 DEF Within
    <3> QED
      BY <1>3, <3>1 DEF Within
  <2> QED
    BY <2>1, <2>2
<1>5. pc' = "next" => reads' = <<>>
  <2>1. pc = "next" => reads = <<>>
    BY DEF ReadsInv
  <2> QED
    BY <2>1
<1> QED
  BY <1>1, <1>2, <1>4, <1>5 DEF ReadsInv

-----------------------------------------------------------------------------
(* The first state is a place.                                             *)
LEMMA InitReads ==
  Init => ReadsInv
<1> SUFFICES ASSUME Init PROVE ReadsInv
  OBVIOUS
<1>1. LaidOut
  BY DEF Init, LaidOut
<1>2. <<1, 0>> \in Places(task)
  <2>1. 1 \in DOMAIN task.fa
    BY <1>1, TaskShape DEF LaidOut
  <2>2. CASE IsNfa
    BY <1>1, <2>1, <2>2, NfaShape, IsPlace DEF LaidOut, IsNfa
  <2>3. CASE ~ IsNfa
    <3>1. IsCompressed(task.fa[1])
      BY <1>1, <2>1, <2>3, TaskShape DEF LaidOut, IsNfa
    <3>2. 0 \in StatesOf(task.fa[1])
      BY <3>1 DEF IsCompressed, StatesOf
    <3> QED
      BY <1>1, <2>1, <2>3, <3>2, IsPlace DEF LaidOut, IsNfa
  <2> QED
    BY <2>2, <2>3
<1>3. at = <<1, 0>> /\ reads = <<>> /\ c = 0 /\ 0 \in Symbols
  BY AlphabetAssumption DEF Init, Symbols
<1>4. Within(reads, address[at], BlockEnd(at) + Overrun(at, c))
  BY <1>3 DEF Within
<1> QED
  BY <1>1, <1>2, <1>3, <1>4 DEF ReadsInv

(* Every step that visits a state visits one of the automaton.             *)
LEMMA StepReads ==
  ASSUME ReadsInv, WalkInv, [Next]_vars
  PROVE  ReadsInv'
<1>1. LaidOut /\ task \in Tasks /\ at \in Places(task) /\ c \in Symbols
  BY DEF ReadsInv, LaidOut
<1>2. at[1] \in DOMAIN task.fa /\ DOMAIN task.fa = 1 .. Len(task.fa) /\ Len(task.fa) \in Nat \ {0}
  BY <1>1, PlaceShape, TaskShape
(* Where the states of the DFAs are places. *)
<1>3. ASSUME ~ IsNfa, NEW i \in DOMAIN task.fa
      PROVE  <<i, state[i]>> \in Places(task)
  <2>1. state[i] \in StatesOf(task.fa[i])
    BY <1>3 DEF WalkInv, DfaWalkInv, AreStates
  <2> QED
    BY <1>1, <1>3, <2>1, IsPlace DEF IsNfa
<1>4. CASE BeginSymbol
  <2>1. PICK a \in Symbols : /\ c' = a
                            /\ IF IsNfa THEN UNCHANGED <<at, reads>> ELSE Visit(<<1, state[1]>>, a)
    BY <1>4 DEF BeginSymbol
  <2>2. UNCHANGED layoutVars /\ pc = "next" /\ pc' = "access"
    BY <1>4 DEF BeginSymbol
  <2>3. CASE IsNfa
    <3>1. reads' = <<>>
      BY <2>1, <2>2, <2>3 DEF ReadsInv
    <3>2. Within(reads, address[at], BlockEnd(at) + Overrun(at, c))'
      BY <3>1 DEF Within
    <3>3. at' \in Places(task') /\ c' \in Symbols
      BY <1>1, <2>1, <2>2, <2>3 DEF layoutVars
    <3> QED
      BY <1>1, <2>2, <3>1, <3>2, <3>3, LaidOutStays DEF ReadsInv
  <2>4. CASE ~ IsNfa
    <3>1. 1 \in DOMAIN task.fa
      BY <1>2
    <3>2. <<1, state[1]>> \in Places(task)
      BY <1>3, <2>4, <3>1
    <3> QED
      BY <1>1, <2>1, <2>2, <2>4, <3>2, VisitIsWithin
  <2> QED
    BY <2>3, <2>4
<1>5. CASE ReadAddress
  BY <1>5, ReadsStay DEF ReadAddress, walkVars
<1>6. CASE ReadDirectly
  BY <1>6, ReadsStay DEF ReadDirectly, walkVars
<1>7. CASE FollowDefault
  <2> DEFINE D == task.fa[at[1]]
             q == D.default[at[2]]
  <2>1. /\ pc = "access" /\ ~ IsNfa /\ c \notin D.labeled[at[2]]
        /\ Visit(<<at[1], q>>, c) /\ UNCHANGED layoutVars /\ pc' = pc /\ c' = c
    BY <1>7 DEF FollowDefault, FollowsDefault, AllRead, Dfa
  <2>2. at[2] \in StatesOf(D) /\ IsCompressed(D)
    BY <1>1, <2>1, PlaceShape DEF IsNfa
  <2>3. q \in StatesOf(D)
    BY <1>1, <2>1, <2>2 DEF IsCompressed
  <2>4. <<at[1], q>> \in Places(task)
    BY <1>1, <1>2, <2>1, <2>3, IsPlace DEF IsNfa
  <2> HIDE DEF D, q
  <2> QED
    BY <1>1, <2>1, <2>4, VisitIsWithin
<1>8. CASE FollowTable
  <2>1. /\ pc = "access" /\ reads = <<>> /\ ~ IsNfa /\ UNCHANGED layoutVars /\ c' = c
        /\ IF at[1] < Len(task.fa)
             THEN Visit(<<at[1] + 1, state[at[1] + 1]>>, c) /\ pc' = pc
             ELSE pc' = "next" /\ UNCHANGED <<at, reads>>
    BY <1>8 DEF FollowTable, AllRead
  <2>2. CASE at[1] < Len(task.fa)
    <3>1. at[1] + 1 \in DOMAIN task.fa
      BY <1>2, <2>2
    <3>2. <<at[1] + 1, state[at[1] + 1]>> \in Places(task)
      BY <1>3, <2>1, <3>1
    <3> QED
      BY <1>1, <2>1, <2>2, <3>2, VisitIsWithin
  <2>3. CASE ~ (at[1] < Len(task.fa))
    BY <2>1, <2>3, ReadsStay
  <2> QED
    BY <2>2, <2>3
<1>9. CASE VisitNfaState
  <2>1. PICK n \in todo : Visit(<<1, n>>, c)
    BY <1>9 DEF VisitNfaState
  <2>2. pc = "access" /\ pc' = pc /\ IsNfa /\ UNCHANGED layoutVars /\ c' = c
    BY <1>9 DEF VisitNfaState, AllRead
  <2>3. n \in Ids(task)
    BY <2>2 DEF WalkInv, NfaWalkInv
  <2>4. <<1, n>> \in Places(task)
    <3>1. 1 \in DOMAIN task.fa
      BY <1>2
    <3> QED
      BY <1>1, <2>2, <2>3, <3>1, IsPlace DEF IsNfa
  <2> QED
    BY <1>1, <2>1, <2>2, <2>4, VisitIsWithin
<1>10. CASE MoveNfa
  BY <1>10, ReadsStay DEF MoveNfa, AllRead
<1>11. CASE UNCHANGED vars
  BY <1>11, ReadsStay DEF vars, walkVars
<1> QED
  BY <1>4, <1>5, <1>6, <1>7, <1>8, <1>9, <1>10, <1>11 DEF Next

-----------------------------------------------------------------------------
(* At the beginning both are in the entry states.                          *)
LEMMA InitWalk ==
  Init => WalkInv
<1> SUFFICES ASSUME Init PROVE WalkInv
  OBVIOUS
<1>1. task \in Tasks
  BY DEF Init
<1>2. /\ ref = [state |-> ref.state, active |-> ref.active, accepted |-> ref.accepted]
      /\ ref.state = state /\ ref.active = active
      /\ ref.accepted = IF IsNfa THEN AcceptedBy(task.fa[1], active) ELSE {}
      /\ pc = "next" /\ todo = {} /\ accepted = {}
      /\ state = [i \in DOMAIN task.fa |-> 0]
      /\ active = IF IsNfa THEN EpsilonClosure(task.fa[1], 0) ELSE {}
  BY DEF Init
<1>3. CASE IsNfa
  <2>1. active \in SUBSET Ids(task)
    BY <1>2, <1>3 DEF EpsilonClosure, Ids
  <2>2. NfaWalkInv
    BY <1>2, <1>3, <2>1 DEF NfaWalkInv
  <2> QED
    BY <1>2, <1>3, <2>2 DEF WalkInv
<1>4. CASE ~ IsNfa
  <2>1. \A i \in DOMAIN task.fa : 0 \in StatesOf(task.fa[i])
    <3>1. \A i \in DOMAIN task.fa : IsCompressed(task.fa[i])
      BY <1>1, <1>4, TaskShape DEF IsNfa
    <3> QED
      BY <3>1 DEF IsCompressed, StatesOf
  <2>2. AreStates(state)
    BY <1>2, <2>1 DEF AreStates
  <2>3. DfaWalkInv
    BY <1>2, <1>4, <2>2 DEF DfaWalkInv
  <2> QED
    BY <1>2, <1>4, <2>3 DEF WalkInv
<1> QED
  BY <1>3, <1>4

(* A step that changes neither the walk nor whether it is at a symbol's    *)
(* end.                                                                    *)
LEMMA WalkStays ==
  ASSUME WalkInv, UNCHANGED layoutVars, UNCHANGED walkVars, pc' = "next" <=> pc = "next"
  PROVE  WalkInv'
<1>1. /\ task' = task /\ IsNfa' = IsNfa
      /\ c' = c /\ at' = at /\ state' = state /\ active' = active /\ todo' = todo
      /\ accepted' = accepted /\ ref' = ref
  BY DEF layoutVars, walkVars, IsNfa
<1>2. /\ AreStates(state)' = AreStates(state) /\ AreStates(ref.state)' = AreStates(ref.state)
      /\ RulesFrom(at[1])' = RulesFrom(at[1])
      /\ Ids(task)' = Ids(task)
  BY <1>1 DEF AreStates, RulesFrom, Ids
<1>3. CASE IsNfa
  BY <1>1, <1>2, <1>3 DEF WalkInv, NfaWalkInv
<1>4. CASE ~ IsNfa
  BY <1>1, <1>2, <1>4 DEF WalkInv, DfaWalkInv
<1> QED
  BY <1>3, <1>4

(* The reference moves at once, the DFAs have not moved yet.               *)
LEMMA DfaBeginsSymbol ==
  ASSUME LaidOut, WalkInv, ~ IsNfa, BeginSymbol
  PROVE  WalkInv'
<1>1. PICK a \in Symbols : /\ c' = a /\ ref' = RefAfter(a) /\ at' = <<1, state[1]>>
  BY DEF BeginSymbol, Visit
<1>2. /\ pc = "next" /\ pc' = "access"
      /\ task' = task /\ IsNfa' = IsNfa
      /\ state' = state /\ active' = active /\ accepted' = accepted
  BY DEF BeginSymbol, layoutVars, IsNfa
<1>3. /\ AreStates(state) /\ state = ref.state
      /\ active = ref.active
      /\ ref.accepted \subseteq accepted
      /\ task.how = "dfas" => accepted = ref.accepted
      /\ ref = [state |-> ref.state, active |-> ref.active, accepted |-> ref.accepted]
  BY <1>2 DEF WalkInv, DfaWalkInv
<1> DEFINE next == [i \in DOMAIN task.fa |-> task.fa[i].table[ref.state[i]][a]]
           rules == UNION {task.fa[i].accepted[next[i]] : i \in DOMAIN next}
<1>4. ref' = [ref EXCEPT !.state = next, !.accepted = @ \cup rules]
  BY <1>1 DEF RefAfter
<1>5. /\ ref' = [state |-> next, active |-> ref.active, accepted |-> ref.accepted \cup rules]
      /\ ref'.state = next /\ ref'.active = ref.active /\ ref'.accepted = ref.accepted \cup rules
  <2> HIDE DEF next, rules
  <2> QED
    BY <1>3, <1>4
<1>6. \A i \in DOMAIN task.fa : next[i] \in StatesOf(task.fa[i])
  <2> SUFFICES ASSUME NEW i \in DOMAIN task.fa PROVE next[i] \in StatesOf(task.fa[i])
    OBVIOUS
  <2>1. IsCompressed(task.fa[i])
    BY TaskShape DEF LaidOut, IsNfa
  <2>2. ref.state[i] \in StatesOf(task.fa[i])
    BY <1>3 DEF AreStates
  <2>3. task.fa[i].table[ref.state[i]][a] \in StatesOf(task.fa[i])
    <3> HIDE DEF next
    <3> QED
      BY <2>1, <2>2 DEF IsCompressed
  <2> QED
    BY <2>3
<1>7. AreStates(state)' /\ AreStates(ref.state)'
  BY <1>2, <1>3, <1>5, <1>6 DEF AreStates
<1>8. RulesFrom(at[1])' = rules
  <2>1. at'[1] = 1
    BY <1>1
  <2>2. \A i \in DOMAIN task.fa : 1 <= i
    BY TaskShape DEF LaidOut
  <2>3. RulesFrom(at[1])' = UNION {task.fa[j].accepted[next[j]] : j \in {k \in DOMAIN task.fa : 1 <= k}}
    <3>1. RulesFrom(at[1])' =
            UNION {task'.fa[j].accepted[ref'.state[j]] : j \in {k \in DOMAIN task'.fa : at'[1] <= k}}
      BY DEF RulesFrom
    <3> HIDE DEF next
    <3> QED
      BY <1>2, <1>5, <2>1, <3>1
  <2>4. {k \in DOMAIN task.fa : 1 <= k} = DOMAIN next
    BY <2>2
  <2> QED
    BY <2>3, <2>4
<1>9. /\ at' = <<at'[1], state'[at'[1]]>>
      /\ \A j \in DOMAIN task'.fa : IF j < at'[1] THEN state'[j] = ref'.state[j]
                                     ELSE task'.fa[j].table[state'[j]][c'] = ref'.state[j]
  <2>1. \A i \in DOMAIN task.fa : ~ (i < 1)
    BY TaskShape DEF LaidOut
  <2> QED
    BY <1>1, <1>2, <1>3, <1>5, <2>1
<1> HIDE DEF rules, next
<1>10. DfaWalkInv'
  BY <1>2, <1>3, <1>5, <1>7, <1>8, <1>9 DEF DfaWalkInv
<1> QED
  BY <1>2, <1>5, <1>10 DEF WalkInv

(* The same of an NFA, none of whose active states has been read.          *)
LEMMA NfaBeginsSymbol ==
  ASSUME LaidOut, WalkInv, IsNfa, BeginSymbol
  PROVE  WalkInv'
<1> DEFINE nfa == task.fa[1]
<1>1. PICK a \in Symbols : c' = a /\ ref' = RefAfter(a)
  BY DEF BeginSymbol
<1>2. /\ pc = "next" /\ pc' = "access" /\ todo' = active
      /\ task' = task /\ IsNfa' = IsNfa
      /\ state' = state /\ active' = active /\ accepted' = accepted
  BY DEF BeginSymbol, layoutVars, IsNfa
<1>3. /\ active \in SUBSET Ids(task) /\ state = ref.state /\ active = ref.active
      /\ accepted \cup AcceptedBy(nfa, active) = ref.accepted
      /\ ref = [state |-> ref.state, active |-> ref.active, accepted |-> ref.accepted]
  BY <1>2 DEF WalkInv, NfaWalkInv
<1> DEFINE S == Move(nfa, ref.active, a)
           rules == AcceptedBy(nfa, S)
<1>4. ref' = [ref EXCEPT !.active = S, !.accepted = @ \cup rules]
  BY <1>1 DEF RefAfter
<1> HIDE DEF rules
<1>5. /\ ref' = [state |-> ref.state, active |-> S, accepted |-> ref.accepted \cup rules]
      /\ ref'.state = ref.state /\ ref'.active = S /\ ref'.accepted = ref.accepted \cup rules
  <2> HIDE DEF S
  <2> QED
    BY <1>3, <1>4
<1>6. NfaWalkInv'
  <2>1. Ids(task)' = Ids(task) /\ (task.fa[1])' = nfa
    BY <1>2 DEF Ids
  <2>2. ref'.active = Move(nfa, active, a)
    BY <1>3, <1>5
  <2>3. AcceptedBy(nfa, ref'.active) = rules
    BY <1>5 DEF rules
  <2>4. accepted' \cup AcceptedBy(nfa, todo') \cup AcceptedBy(nfa, ref'.active) = ref'.accepted
    BY <1>2, <1>3, <1>5, <2>3
  <2> HIDE DEF S, nfa
  <2> QED
    BY <1>1, <1>2, <1>3, <1>5, <2>1, <2>2, <2>4 DEF NfaWalkInv
<1> QED
  BY <1>2, <1>5, <1>6 DEF WalkInv

(* A default transition leads to a state from which the symbol leads the   *)
(* same way; a transition brings one DFA to where its table leads.         *)
LEMMA DfaFollows ==
  ASSUME LaidOut, at \in Places(task), c \in Symbols, WalkInv, FollowDefault \/ FollowTable
  PROVE  WalkInv'
<1> DEFINE i == at[1]
           s == at[2]
           D == task.fa[i]
<1>1. /\ pc = "access" /\ ~ IsNfa /\ task' = task /\ IsNfa' = IsNfa
      /\ c' = c /\ active' = active /\ ref' = ref
  BY DEF FollowDefault, FollowTable, AllRead, layoutVars, IsNfa
<1>2. /\ AreStates(state) /\ AreStates(ref.state) /\ active = ref.active
      /\ at = <<i, state[i]>>
      /\ \A j \in DOMAIN task.fa : IF j < i THEN state[j] = ref.state[j]
                                    ELSE task.fa[j].table[state[j]][c] = ref.state[j]
      /\ ref.accepted \subseteq accepted \cup RulesFrom(i)
      /\ task.how = "dfas" => accepted \cup RulesFrom(i) = ref.accepted
      /\ ref = [state |-> ref.state, active |-> ref.active, accepted |-> ref.accepted]
  BY <1>1 DEF WalkInv, DfaWalkInv
<1>3. /\ i \in DOMAIN task.fa /\ s \in StatesOf(D) /\ IsCompressed(D) /\ s = state[i]
      /\ DOMAIN task.fa = 1 .. Len(task.fa) /\ Len(task.fa) \in Nat
      /\ D.table[s][c] = ref.state[i]
  <2>1. i \in DOMAIN task.fa /\ s \in StatesOf(D) /\ IsCompressed(D)
    BY <1>1, PlaceShape DEF LaidOut, IsNfa
  <2>2. DOMAIN task.fa = 1 .. Len(task.fa) /\ Len(task.fa) \in Nat
    BY TaskShape DEF LaidOut
  <2>3. s = state[i]
    BY <1>2
  <2> QED
    BY <1>2, <2>1, <2>2, <2>3
(* A step of the i-th automaton. *)
<1>4. ASSUME NEW q \in StatesOf(D), state' = [state EXCEPT ![i] = q]
      PROVE  /\ AreStates(state)' /\ AreStates(ref.state)'
             /\ state'[i] = q /\ \A j \in DOMAIN task.fa : j # i => state'[j] = state[j]
             /\ state' = [j \in DOMAIN task.fa |-> state'[j]]
  <2>1. state = [j \in DOMAIN task.fa |-> state[j]]
    BY <1>2 DEF AreStates
  <2>2. /\ state' = [j \in DOMAIN task.fa |-> IF j = i THEN q ELSE state[j]]
    BY <1>4, <2>1
  <2>3. /\ DOMAIN state' = DOMAIN task.fa
        /\ state'[i] = q /\ \A j \in DOMAIN task.fa : j # i => state'[j] = state[j]
        /\ state' = [j \in DOMAIN task.fa |-> state'[j]]
    BY <1>3, <2>2
  <2>4. AreStates(ref.state)'
    BY <1>1, <1>2 DEF AreStates
  <2>5. \A j \in DOMAIN task.fa : state'[j] \in StatesOf(task.fa[j])
    BY <1>2, <1>4, <2>3 DEF AreStates
  <2> QED
    BY <1>1, <2>3, <2>4, <2>5 DEF AreStates
<1>5. CASE FollowDefault
  <2> DEFINE q == D.default[s]
  <2>1. /\ pc' = pc /\ c \notin D.labeled[s] /\ c \in Symbols
        /\ state' = [state EXCEPT ![i] = q] /\ at' = <<i, q>>
        /\ accepted' = IF task.how = "dfa" THEN accepted \cup D.accepted[q] ELSE accepted
    BY <1>5 DEF FollowDefault, FollowsDefault, Dfa, Visit
  <2>2. q \in StatesOf(D) /\ D.table[q][c] = D.table[s][c]
    BY <1>3, <2>1 DEF IsCompressed
  <2>3. /\ AreStates(state)' /\ AreStates(ref.state)'
        /\ state'[i] = q /\ \A j \in DOMAIN task.fa : j # i => state'[j] = state[j]
    BY <1>4, <2>1, <2>2
  <2>4. RulesFrom(at[1])' = RulesFrom(i)
    BY <1>1, <2>1 DEF RulesFrom
  <2>5. \A j \in DOMAIN task.fa : IF j < i THEN state'[j] = ref.state[j]
                                   ELSE task.fa[j].table[state'[j]][c] = ref.state[j]
    <3> SUFFICES ASSUME NEW j \in DOMAIN task.fa
                 PROVE  IF j < i THEN state'[j] = ref.state[j]
                                 ELSE task.fa[j].table[state'[j]][c] = ref.state[j]
      OBVIOUS
    <3>1. task.fa[i].table[state'[i]][c] = ref.state[i] /\ ~ (i < i)
      <4>1. D.table[q][c] = ref.state[i]
        BY <1>3, <2>2
      <4>2. state'[i] = q
        BY <2>3
      <4>3. i \in Nat
        BY <1>3
      <4> HIDE DEF i, q
      <4>4. ~ (i < i)
        BY <4>3
      <4> QED
        BY <4>1, <4>2, <4>4
    <3>2. IF j < i THEN state[j] = ref.state[j]
                   ELSE task.fa[j].table[state[j]][c] = ref.state[j]
      BY <1>2
    <3> HIDE DEF i, q, D
    <3>3. CASE j = i
      BY <3>1, <3>3
    <3>4. CASE j # i
      BY <2>3, <3>2, <3>4
    <3> QED
      BY <3>3, <3>4
  <2>6. at' = <<at'[1], state'[at'[1]]>> /\ at'[1] = i
    BY <2>1, <2>3
  <2>7. /\ ref.accepted \subseteq accepted' \cup RulesFrom(i)
        /\ task.how = "dfas" => accepted' \cup RulesFrom(i) = ref.accepted
    <3> HIDE DEF i, q, D
    <3> QED
      BY <1>2, <2>1
  <2> HIDE DEF i, q, D, s
  <2>8. DfaWalkInv'
    BY <1>1, <1>2, <2>1, <2>3, <2>4, <2>5, <2>6, <2>7 DEF DfaWalkInv
  <2> QED
    BY <1>1, <1>2, <2>8 DEF WalkInv
<1>6. CASE FollowTable
  <2> DEFINE q == D.table[s][c]
             rules == D.accepted[q]
  <2>1. /\ state' = [state EXCEPT ![i] = q] /\ accepted' = accepted \cup rules
        /\ IF i < Len(task.fa) THEN at' = <<i + 1, state[i + 1]>> /\ pc' = pc
                               ELSE pc' = "next" /\ at' = at
    BY <1>6 DEF FollowTable, Dfa, Visit
  <2>2. q \in StatesOf(D) /\ q = ref.state[i]
    <3>1. ref.state[i] \in StatesOf(D)
      BY <1>2, <1>3 DEF AreStates
    <3> QED
      BY <1>3, <3>1
  <2>3. /\ AreStates(state)' /\ AreStates(ref.state)'
        /\ state'[i] = q /\ \A j \in DOMAIN task.fa : j # i => state'[j] = state[j]
        /\ state' = [j \in DOMAIN task.fa |-> state'[j]]
    BY <1>4, <2>1, <2>2
  <2>4. CASE i < Len(task.fa)
    <3>1. at' = <<i + 1, state[i + 1]>> /\ pc' = pc /\ i + 1 \in DOMAIN task.fa /\ i + 1 # i
      <4>1. at' = <<i + 1, state[i + 1]>> /\ pc' = pc
        BY <2>1, <2>4
      <4>2. i \in 1 .. Len(task.fa) /\ Len(task.fa) \in Nat
        BY <1>3
      <4> HIDE DEF i
      <4>3. i + 1 \in 1 .. Len(task.fa) /\ i + 1 # i
        BY <2>4, <4>2
      <4> QED
        BY <1>3, <4>1, <4>3
    <3>2. at' = <<at'[1], state'[at'[1]]>> /\ at'[1] = i + 1
      BY <2>3, <3>1
    <3>3. RulesFrom(i) = rules \cup RulesFrom(i + 1)
      <4>1. {k \in DOMAIN task.fa : i <= k} = {i} \cup {k \in DOMAIN task.fa : i + 1 <= k}
        BY <1>3
      <4> HIDE DEF i
      <4> QED
        BY <2>2, <4>1 DEF RulesFrom
    <3>4. RulesFrom(at[1])' = RulesFrom(i + 1)
      BY <1>1, <3>2 DEF RulesFrom
    <3>5. \A j \in DOMAIN task.fa : IF j < i + 1 THEN state'[j] = ref.state[j]
                                     ELSE task.fa[j].table[state'[j]][c] = ref.state[j]
      <4> SUFFICES ASSUME NEW j \in DOMAIN task.fa
                   PROVE  IF j < i + 1 THEN state'[j] = ref.state[j]
                                       ELSE task.fa[j].table[state'[j]][c] = ref.state[j]
        OBVIOUS
      <4>1. j < i + 1 <=> (j < i \/ j = i)
        BY <1>3
      <4> HIDE DEF i, q
      <4> QED
        BY <1>2, <2>2, <2>3, <4>1
    <3> HIDE DEF i, q, D, s, rules
    <3>6. /\ ref.accepted \subseteq accepted' \cup RulesFrom(i + 1)
          /\ task.how = "dfas" => accepted' \cup RulesFrom(i + 1) = ref.accepted
      BY <1>2, <2>1, <3>3
    <3>7. DfaWalkInv'
      BY <1>1, <1>2, <2>3, <3>1, <3>2, <3>4, <3>5, <3>6 DEF DfaWalkInv
    <3> QED
      BY <1>1, <1>2, <3>7 DEF WalkInv
  <2>5. CASE ~ (i < Len(task.fa))
    <3>1. pc' = "next" /\ i = Len(task.fa)
      <4>1. pc' = "next"
        BY <2>1, <2>5
      <4>2. i \in 1 .. Len(task.fa) /\ Len(task.fa) \in Nat
        BY <1>3
      <4> HIDE DEF i
      <4>3. i = Len(task.fa)
        BY <2>5, <4>2
      <4> QED
        BY <4>1, <4>3
    <3>2. \A j \in DOMAIN task.fa : j # i => j < i
      BY <1>3, <3>1
    <3>3. RulesFrom(i) = rules
      <4>1. {k \in DOMAIN task.fa : i <= k} = {i}
        BY <1>3, <3>1
      <4> HIDE DEF i
      <4> QED
        BY <2>2, <4>1 DEF RulesFrom
    <3>4. state' = ref.state
      <4>1. \A j \in DOMAIN task.fa : state'[j] = ref.state[j]
        <5> HIDE DEF i, q
        <5> QED
          BY <1>2, <2>2, <2>3, <3>2
      <4>2. ref.state = [j \in DOMAIN task.fa |-> ref.state[j]]
        BY <1>2 DEF AreStates
      <4> QED
        BY <2>3, <4>1, <4>2
    <3> HIDE DEF i, q, D, s, rules
    <3>5. /\ ref.accepted \subseteq accepted'
          /\ task.how = "dfas" => accepted' = ref.accepted
      BY <1>2, <2>1, <3>3
    <3>6. DfaWalkInv'
      BY <1>1, <1>2, <2>3, <3>1, <3>4, <3>5 DEF DfaWalkInv
    <3> QED
      BY <1>1, <1>2, <3>6 DEF WalkInv
  <2> QED
    BY <2>4, <2>5
<1> QED
  BY <1>5, <1>6

(* A state that is read hands over its rules; the move is the reference's. *)
LEMMA NfaFollows ==
  ASSUME LaidOut, c \in Symbols, WalkInv, VisitNfaState \/ MoveNfa
  PROVE  WalkInv'
<1> DEFINE nfa == task.fa[1]
<1>1. /\ pc = "access" /\ IsNfa /\ task' = task /\ IsNfa' = IsNfa
      /\ c' = c /\ ref' = ref /\ state' = state
      /\ Ids(task)' = Ids(task) /\ (task.fa[1])' = nfa
  BY DEF VisitNfaState, MoveNfa, AllRead, layoutVars, IsNfa, Ids
<1>2. /\ active \in SUBSET Ids(task) /\ todo \in SUBSET active /\ state = ref.state
      /\ ref.active = Move(nfa, active, c)
      /\ accepted \cup AcceptedBy(nfa, todo) \cup AcceptedBy(nfa, ref.active) = ref.accepted
      /\ ref = [state |-> ref.state, active |-> ref.active, accepted |-> ref.accepted]
  BY <1>1 DEF WalkInv, NfaWalkInv
<1>3. CASE VisitNfaState
  <2>1. PICK n \in todo : accepted' = accepted \cup nfa.accepting[n] /\ todo' = todo \ {n}
    BY <1>3 DEF VisitNfaState
  <2>2. pc' = pc /\ active' = active
    BY <1>3 DEF VisitNfaState
  <2>3. AcceptedBy(nfa, todo) = nfa.accepting[n] \cup AcceptedBy(nfa, todo')
    <3>1. todo = {n} \cup todo'
      BY <2>1
    <3> HIDE DEF nfa
    <3> QED
      BY <3>1 DEF AcceptedBy
  <2>4. todo' \in SUBSET active'
    BY <1>2, <2>1, <2>2
  <2> HIDE DEF nfa
  <2>5. accepted' \cup AcceptedBy(nfa, todo') \cup AcceptedBy(nfa, ref.active) = ref.accepted
    BY <1>2, <2>1, <2>3
  <2>6. NfaWalkInv'
    BY <1>1, <1>2, <2>2, <2>4, <2>5 DEF NfaWalkInv
  <2> QED
    BY <1>1, <1>2, <2>6 DEF WalkInv
<1>4. CASE MoveNfa
  <2>1. todo = {} /\ active' = Move(nfa, active, c) /\ pc' = "next" /\ UNCHANGED <<todo, accepted>>
    BY <1>4 DEF MoveNfa
  <2>2. active' = ref.active
    BY <1>2, <2>1
  <2>3. AcceptedBy(nfa, todo) = {}
    BY <2>1 DEF AcceptedBy
  <2>4. active' \in SUBSET Ids(task)
    <3>1. nfa \in NfaOver(Ids(task)) /\ c \in Symbols
      BY <1>1, NfaShape DEF LaidOut, IsNfa
    <3> QED
      BY <1>2, <2>1, <3>1, MovesStayInNfa
  <2> HIDE DEF nfa
  <2>5. accepted' \cup AcceptedBy(nfa, active') = ref.accepted
    BY <1>2, <2>1, <2>2, <2>3
  <2>6. NfaWalkInv'
    BY <1>1, <1>2, <2>1, <2>2, <2>4, <2>5 DEF NfaWalkInv
  <2> QED
    BY <1>1, <1>2, <2>6 DEF WalkInv
<1> QED
  BY <1>3, <1>4

(* Every step keeps the traversal with its reference.                      *)
LEMMA StepWalk ==
  ASSUME ReadsInv, WalkInv, [Next]_vars
  PROVE  WalkInv'
<1>1. LaidOut /\ at \in Places(task) /\ c \in Symbols
  BY DEF ReadsInv
<1>2. CASE BeginSymbol
  BY <1>1, <1>2, DfaBeginsSymbol, NfaBeginsSymbol
<1>3. CASE ReadAddress
  BY <1>3, WalkStays DEF ReadAddress
<1>4. CASE ReadDirectly
  BY <1>4, WalkStays DEF ReadDirectly
<1>5. CASE FollowDefault \/ FollowTable
  BY <1>1, <1>5, DfaFollows
<1>6. CASE VisitNfaState \/ MoveNfa
  BY <1>1, <1>6, NfaFollows
<1>7. CASE UNCHANGED vars
  BY <1>7, WalkStays DEF vars
<1> QED
  BY <1>2, <1>3, <1>4, <1>5, <1>6, <1>7 DEF Next

-----------------------------------------------------------------------------
(* An empty cache.                                                         *)
LEMMA InitCache ==
  Init => CacheInv
<1> SUFFICES ASSUME Init, Cache.kind = "cache" PROVE CacheInv
  BY DEF CacheInv
<1>1. /\ content = [w \in 0 .. NumLines - 1 |-> NoLine] /\ misses = 0 /\ lines = {}
  BY DEF Init
<1>2. IsFiniteSet({}) /\ Cardinality({}) = 0
  BY FS_EmptySet
<1> QED
  BY <1>1, <1>2 DEF CacheInv

(* Every step keeps the cache.                                             *)
LEMMA StepCache ==
  ASSUME ReadsInv, CacheInv, [Next]_vars
  PROVE  CacheInv'
<1>1. task \in Tasks /\ reads \in Seq(Nat)
  BY DEF ReadsInv, LaidOut, Within
<1>2. ASSUME UNCHANGED layoutVars, UNCHANGED cacheVars
      PROVE  CacheInv'
  <2>1. /\ task' = task /\ content' = content /\ misses' = misses /\ lines' = lines
        /\ Cache' = Cache /\ NumLines' = NumLines /\ LinesPerSet' = LinesPerSet
        /\ \A l : WaysOf(l)' = WaysOf(l)
    BY <1>2 DEF layoutVars, cacheVars, Cache, NumLines, LinesPerSet, WaysOf
  <2>2. SetsSuffice' = SetsSuffice
    BY <2>1 DEF SetsSuffice
  <2> QED
    BY <2>1, <2>2 DEF CacheInv
<1>3. CASE ReadAddress
  <2>1. task' = task /\ Cache' = Cache
    BY <1>3 DEF ReadAddress, layoutVars, Cache
  <2>2. CASE Cache.kind = "cache"
    <3> DEFINE line == LineOf(Head(reads))
    <3>1. Head(reads) \in Nat
      BY <1>1, <1>3 DEF ReadAddress
    <3>2. line \in Nat
      BY <1>1, <2>2, <3>1, CacheShape, Division DEF LineOf
    <3>3. CacheRead(line) /\ lines' = lines \cup {line}
      BY <1>3, <2>2 DEF ReadAddress
    <3> HIDE DEF line
    <3> QED
      BY <1>1, <2>1, <2>2, <3>2, <3>3, CacheReadKeeps
  <2>3. CASE Cache.kind # "cache"
    BY <2>1, <2>3 DEF CacheInv
  <2> QED
    BY <2>2, <2>3
<1>4. CASE BeginSymbol
  BY <1>2, <1>4 DEF BeginSymbol
<1>5. CASE ReadDirectly
  BY <1>2, <1>5 DEF ReadDirectly
<1>6. CASE FollowDefault
  BY <1>2, <1>6 DEF FollowDefault
<1>7. CASE FollowTable
  BY <1>2, <1>7 DEF FollowTable
<1>8. CASE VisitNfaState
  BY <1>2, <1>8 DEF VisitNfaState
<1>9. CASE MoveNfa
  BY <1>2, <1>9 DEF MoveNfa
<1>10. CASE UNCHANGED vars
  BY <1>2, <1>10 DEF vars
<1> QED
  BY <1>3, <1>4, <1>5, <1>6, <1>7, <1>8, <1>9, <1>10 DEF Next

-----------------------------------------------------------------------------
(***************************************************************************)
(* The theorems.                                                           *)
(***************************************************************************)
(* The invariant holds in every state: of the memory that is laid out and  *)
(* what is still read of it (fa_memory::init_dfa, init_nfa,                *)
(* dfas_memory::init), of the traversal (trace::traverse) and of the cache *)
(* (cache::read).                                                          *)
THEOREM InductiveInvariant == Spec => []IInv
<1>1. Init => IInv
  BY InitReads, InitWalk, InitCache DEF IInv
<1>2. IInv /\ [Next]_vars => IInv'
  BY StepReads, StepWalk, StepCache DEF IInv
<1> QED
  BY <1>1, <1>2, PTL DEF Spec

(* Blocks do not overlap, the region of a state is told from its address,  *)
(* and each read of a state lies in its block but for the words of Overrun *)
(* (get_dfa_accesses, get_nfa_accesses), whatever the automata, the layout *)
(* and the threshold.                                                      *)
THEOREM EveryAccessStaysInTheBlock == Spec => []AccessesStayInTheBlock
<1>1. IInv => AccessesStayInTheBlock
  <2> SUFFICES ASSUME IInv PROVE AccessesStayInTheBlock
    OBVIOUS
  <2>1. LaidOut /\ task \in Tasks /\ address = Addresses(task) /\ limit = Limits(task)
        /\ at \in Places(task)
    BY DEF IInv, ReadsInv, LaidOut
  <2>2. DOMAIN address = Places(task)
    BY <2>1, AddressShape
  <2>3. \A x, y \in DOMAIN address :
          x # y => BlockEnd(x) <= address[y] \/ BlockEnd(y) <= address[x]
    BY <2>1, <2>2, BlocksAreApart DEF BlockEnd
  <2>4. \A x \in DOMAIN address : RegionAt(x) = Region(task, x)
    BY <2>1, <2>2, RegionIsToldFromTheAddress
  <2>5. Within(reads, address[at], BlockEnd(at) + Overrun(at, c))
    BY DEF IInv, ReadsInv
  <2>6. \A k \in DOMAIN reads : /\ address[at] <= reads[k]
                               /\ reads[k] + WORD <= BlockEnd(at) + Overrun(at, c)
    BY <2>5 DEF Within
  <2> QED
    BY <2>3, <2>4, <2>6 DEF AccessesStayInTheBlock
<1> QED
  BY <1>1, InductiveInvariant, PTL

(* The cache holds lines that were read, none twice and each in its set; a *)
(* line that was read has missed, and only that once as long as no set has *)
(* been asked for more lines than it has ways (cache::read), whatever the  *)
(* size, the ways and the length of a line.                                *)
THEOREM EveryMissIsAFirstReadOrEviction == Spec => []MissesAreFirstReadsOrEvictions
<1>1. IInv => MissesAreFirstReadsOrEvictions
  <2> SUFFICES ASSUME IInv, Cache.kind = "cache" PROVE MissesAreFirstReadsOrEvictions
    BY DEF MissesAreFirstReadsOrEvictions
  <2>1. task \in Tasks
    BY DEF IInv, ReadsInv, LaidOut
  <2>2. /\ lines \in SUBSET Nat
        /\ DOMAIN content = 0 .. NumLines - 1
        /\ \A w \in 0 .. NumLines - 1 : content[w] # NoLine =>
             /\ content[w] \in lines
             /\ w \in WaysOf(content[w])
             /\ \A v \in 0 .. NumLines - 1 : content[v] = content[w] => v = w
        /\ misses >= Cardinality(lines)
        /\ SetsSuffice => misses = Cardinality(lines)
    BY DEF IInv, CacheInv
  <2>3. ASSUME NEW w \in 0 .. NumLines - 1, content[w] # NoLine
        PROVE  w % LinesPerSet = content[w] % LinesPerSet
    <3>1. content[w] \in Nat /\ w \in WaysOf(content[w])
      BY <2>2, <2>3
    <3> QED
      BY <2>1, <3>1, WaysShape
  <2> QED
    BY <2>2, <2>3 DEF MissesAreFirstReadsOrEvictions, SetsSuffice
<1> QED
  BY <1>1, InductiveInvariant, PTL

(* Between two symbols the traversal over the memory is where the tables   *)
(* of the DFAs or the NFA would be, and has recorded their rules but those *)
(* of the NFA's states active now (trace::traverse, traverse_dfa and       *)
(* traverse_nfa), whatever the automata and however long the input.        *)
THEOREM MemoryTraversalIsRight == Spec => []MemoryTraversalReportsTheRules
<1>1. IInv => MemoryTraversalReportsTheRules
  BY DEF IInv, WalkInv, NfaWalkInv, DfaWalkInv, MemoryTraversalReportsTheRules, IsNfa
<1> QED
  BY <1>1, InductiveInvariant, PTL

-----------------------------------------------------------------------------
(***************************************************************************)
(* The way from DFAs to the memory of the FPGA.                            *)
(*                                                                         *)
(* A relation between the states of an automaton and the states of the     *)
(* DFAs of its expressions is kept from minimise2 to the words of a block: *)
(* the automaton of one expression watches that one, a product watches     *)
(* those of both, and an image is read as the automaton it is written of.  *)
(***************************************************************************)

(* The members of a finite set in some order: as many come before one as   *)
(* its number says, and every number below that of all members is one.     *)
LEMMA OrderNumbers ==
  ASSUME NEW T, IsFiniteSet(T), NEW lower \in [T -> SUBSET T],
         \A s \in T : s \notin lower[s],
         \A s, t \in T : s = t \/ s \in lower[t] \/ t \in lower[s],
         \A s, t \in T : s \in lower[t] => lower[s] \subseteq lower[t]
  PROVE  /\ Cardinality(T) \in Nat
         /\ \A s \in T : Cardinality(lower[s]) \in 0 .. Cardinality(T) - 1
         /\ \A s, t \in T : s \in lower[t] => Cardinality(lower[s]) < Cardinality(lower[t])
         /\ \A s, t \in T : Cardinality(lower[s]) = Cardinality(lower[t]) => s = t
         /\ \A k \in 0 .. Cardinality(T) - 1 : \E s \in T : Cardinality(lower[s]) = k
<1> DEFINE N == Cardinality(T)
           rank == [s \in T |-> Cardinality(lower[s])]
<1>1. N \in Nat
  BY FS_CardinalityType
<1>2. ASSUME NEW s \in T
      PROVE  IsFiniteSet(lower[s]) /\ rank[s] \in Nat /\ rank[s] < N
  <2>1. lower[s] \in SUBSET T /\ s \notin lower[s]
    OBVIOUS
  <2>2. IsFiniteSet(lower[s]) /\ rank[s] \in Nat /\ rank[s] <= N
    BY <1>1, <2>1, FS_Subset, FS_CardinalityType
  <2>3. rank[s] # N
    BY <1>1, <2>1, FS_Subset
  <2> QED
    BY <1>1, <2>2, <2>3
<1>3. ASSUME NEW s \in T, NEW t \in T, s \in lower[t]
      PROVE  rank[s] < rank[t]
  <2>1. lower[s] \in SUBSET lower[t] /\ lower[s] # lower[t]
    BY <1>3
  <2>2. rank[s] <= rank[t] /\ rank[s] # rank[t]
    BY <1>2, <2>1, FS_Subset
  <2> QED
    BY <1>2, <2>2
<1>4. \A s, t \in T : rank[s] = rank[t] => s = t
  <2> SUFFICES ASSUME NEW s \in T, NEW t \in T, rank[s] = rank[t], s # t PROVE FALSE
    OBVIOUS
  <2>1. s \in lower[t] \/ t \in lower[s]
    OBVIOUS
  <2>2. rank[s] < rank[t] \/ rank[t] < rank[s]
    BY <1>3, <2>1
  <2>3. rank[s] \in Nat
    BY <1>2
  <2> HIDE DEF rank
  <2> QED
    BY <2>2, <2>3
<1>5. \A k \in 0 .. N - 1 : \E s \in T : rank[s] = k
  <2>1. IsFiniteSet(0 .. N - 1) /\ Cardinality(0 .. N - 1) = N
    BY SMTT(20), <1>1, FS_Interval
  <2>2. rank \in [T -> 0 .. N - 1]
    BY <1>1, <1>2
  <2>3. rank \in Injection(T, 0 .. N - 1)
    <3> HIDE DEF rank
    <3> QED
      BY <1>4, <2>2 DEF Injection, IsInjective
  <2>4. rank \in Surjection(T, 0 .. N - 1)
    BY <1>1, <2>1, <2>3, FS_Surjection, FS_Injection
  <2> QED
    BY <2>4 DEF Surjection
<1> QED
  BY <1>1, <1>2, <1>3, <1>4, <1>5
-----------------------------------------------------------------------------
(***************************************************************************)
(* minimise2.                                                              *)
(***************************************************************************)
(* An automaton over halves of bytes that has all its transitions.         *)
IsWhole(A) ==
  /\ A.size \in Nat \ {0}
  /\ A.table \in [StatesOf(A) -> [Nibbles -> StatesOf(A)]]
  /\ A.is_accept \in SUBSET StatesOf(A)

(* Min is the least element.                                               *)
LEMMA MinIsLeast ==
  ASSUME NEW S \in SUBSET Nat, S # {}
  PROVE  Min(S) \in S /\ \A x \in S : Min(S) <= x
BY LeastNumber DEF Min

(* States are alike that are in one block and lead to the same blocks.     *)
LEMMA AlikeMeans ==
  ASSUME NEW A, NEW belong, IsWhole(A), NEW s \in StatesOf(A), NEW t \in StatesOf(A)
  PROVE  Alike(A, belong, s, t) <=>
           /\ belong[s] = belong[t]
           /\ \A n \in Nibbles : belong[A.table[s][n]] = belong[A.table[t][n]]
<1>1. \A q \in StatesOf(A) :
        BlocksReached(A, belong, q) = [n \in Nibbles |-> belong[A.table[q][n]]]
  BY DEF BlocksReached, IsWhole
<1> QED
  BY <1>1 DEF Alike

(* Of the states that are alike the former is the first.                   *)
LEMMA FormerIsFirst ==
  ASSUME NEW A, NEW belong, IsWhole(A)
  PROVE  /\ \A s \in StatesOf(A) :
              /\ Former(A, belong, s) \in StatesOf(A)
              /\ Alike(A, belong, s, Former(A, belong, s))
              /\ \A t \in StatesOf(A) : Alike(A, belong, s, t) => Former(A, belong, s) <= t
         /\ \A s, t \in StatesOf(A) :
              Alike(A, belong, s, t) <=> Former(A, belong, s) = Former(A, belong, t)
<1> DEFINE Like(s) == {t \in StatesOf(A) : Alike(A, belong, s, t)}
<1>1. ASSUME NEW s \in StatesOf(A)
      PROVE  /\ Former(A, belong, s) \in Like(s)
             /\ \A t \in Like(s) : Former(A, belong, s) <= t
  <2>1. Like(s) \in SUBSET Nat /\ s \in Like(s)
    BY DEF IsWhole, StatesOf, Alike
  <2> HIDE DEF Like
  <2>2. Min(Like(s)) \in Like(s) /\ \A t \in Like(s) : Min(Like(s)) <= t
    BY <2>1, MinIsLeast
  <2> QED
    BY <2>2 DEF Former, Like
<1>2. ASSUME NEW s \in StatesOf(A), NEW t \in StatesOf(A), Alike(A, belong, s, t)
      PROVE  Former(A, belong, s) = Former(A, belong, t)
  <2>1. \A u : Alike(A, belong, s, u) <=> Alike(A, belong, t, u)
    BY <1>2 DEF Alike
  <2>2. Like(s) = Like(t)
    BY <2>1
  <2> QED
    BY <2>2 DEF Former
<1>3. ASSUME NEW s \in StatesOf(A), NEW t \in StatesOf(A),
             Former(A, belong, s) = Former(A, belong, t)
      PROVE  Alike(A, belong, s, t)
  <2>1. Alike(A, belong, s, Former(A, belong, s)) /\ Alike(A, belong, t, Former(A, belong, s))
    BY <1>1, <1>3
  <2> QED
    BY <2>1 DEF Alike
<1> QED
  BY <1>1, <1>2, <1>3

(* A round puts into one block what was in one block and led to the same.  *)
LEMMA RoundDistinguishes ==
  ASSUME NEW A, NEW belong, IsWhole(A), belong \in [StatesOf(A) -> Nat]
  PROVE  /\ Distinguished(A, belong) \in [StatesOf(A) -> Nat]
         /\ \A s, t \in StatesOf(A) :
              Distinguished(A, belong)[s] = Distinguished(A, belong)[t]
                <=> Alike(A, belong, s, t)
<1> DEFINE T == {Former(A, belong, s) : s \in StatesOf(A)}
           Before(t, s) == belong[t] < belong[s] \/ (belong[t] = belong[s] /\ t < s)
           lower == [f \in T |-> {t \in T : Before(t, f)}]
<1>1. T \in SUBSET StatesOf(A)
  BY FormerIsFirst
<1>2. StatesOf(A) \in SUBSET Nat /\ IsFiniteSet(StatesOf(A))
  BY FS_Interval DEF IsWhole, StatesOf
<1>3. IsFiniteSet(T)
  BY <1>1, <1>2, FS_Subset
<1>5. Distinguished(A, belong) = [s \in StatesOf(A) |-> Cardinality({t \in T : Before(t, Former(A, belong, s))})]
  BY DEF Distinguished
<1>6. \A f \in T : belong[f] \in Nat /\ f \in Nat
  BY <1>1, <1>2
<1>7. /\ lower \in [T -> SUBSET T]
      /\ \A s \in T : s \notin lower[s]
      /\ \A s, t \in T : s = t \/ s \in lower[t] \/ t \in lower[s]
      /\ \A s, t \in T : s \in lower[t] => lower[s] \subseteq lower[t]
  <2> HIDE DEF T
  <2>1. \A s \in T : s \notin lower[s]
    BY <1>6
  <2>2. \A s, t \in T : s = t \/ s \in lower[t] \/ t \in lower[s]
    BY <1>6
  <2>3. \A s, t, u \in T : Before(u, s) /\ Before(s, t) => Before(u, t)
    BY <1>6
  <2> QED
    BY <2>1, <2>2, <2>3
<1>8. /\ \A f \in T : Cardinality(lower[f]) \in Nat
      /\ \A s, t \in T : Cardinality(lower[s]) = Cardinality(lower[t]) => s = t
  <2> HIDE DEF T, lower
  <2>1. /\ Cardinality(T) \in Nat
        /\ \A s \in T : Cardinality(lower[s]) \in 0 .. Cardinality(T) - 1
        /\ \A s, t \in T : Cardinality(lower[s]) = Cardinality(lower[t]) => s = t
    BY <1>3, <1>7, OrderNumbers
  <2> QED
    BY <2>1
<1>9. \A s \in StatesOf(A) :
        /\ Former(A, belong, s) \in T
        /\ Distinguished(A, belong)[s] = Cardinality(lower[Former(A, belong, s)])
  BY <1>5
<1>10. \A s, t \in StatesOf(A) :
         Alike(A, belong, s, t) <=> Former(A, belong, s) = Former(A, belong, t)
  BY FormerIsFirst
<1>11. \A s \in StatesOf(A) : Distinguished(A, belong)[s] \in Nat
  <2> HIDE DEF T, lower
  <2> QED
    BY <1>8, <1>9
<1>12. Distinguished(A, belong) \in [StatesOf(A) -> Nat]
  <2>1. PICK D : D = Distinguished(A, belong)
    OBVIOUS
  <2>2. DOMAIN D = StatesOf(A) /\ D = [s \in StatesOf(A) |-> D[s]]
    BY <1>5, <2>1
  <2> QED
    BY <1>11, <2>1, <2>2
<1> HIDE DEF T, lower
<1> QED
  BY <1>8, <1>9, <1>10, <1>12

(* The rounds, one after the other.                                        *)
AreRounds(A, round) ==
  /\ round \in [0 .. A.size -> [StatesOf(A) -> Nat]]
  /\ round[0] = FirstPartition(A)
  /\ \A k \in 1 .. A.size : round[k] = Distinguished(A, round[k - 1])

(* Rounds go on until one changes nothing.                                 *)
LEMMA FinalPartitionEndsRounds ==
  ASSUME NEW A, IsWhole(A)
  PROVE  \E round : AreRounds(A, round) /\ FinalPartition(A) = round[A.size]
<1> DEFINE Q == [StatesOf(A) -> Nat]
           n == A.size
           start == FirstPartition(A)
           step == [k \in 1 .. n |-> [belong \in Q |-> Distinguished(A, belong)]]
           F(round) == [k \in 0 .. A.size |->
                          IF k = 0 THEN FirstPartition(A)
                          ELSE LET belong == round[k - 1]
                                   next == Distinguished(A, belong)
                               IN IF has_distinguish(belong, next) THEN next ELSE belong]
<1>0. \A belong : (IF has_distinguish(belong, Distinguished(A, belong))
                     THEN Distinguished(A, belong) ELSE belong) = Distinguished(A, belong)
  BY DEF has_distinguish
<1>1. n \in Nat /\ \A k \in 1 .. n : k - 1 \in 0 .. n /\ k \in 0 .. n
  BY DEF IsWhole
<1>2. step \in [1 .. n -> [Q -> Q]]
  <2>1. \A belong \in Q : Distinguished(A, belong) \in Q
    BY RoundDistinguishes
  <2> QED
    BY <2>1
<1>3. start \in Q
  BY DEF FirstPartition
<1>4. PICK bt : Follows(bt, Q, step, start, n)
  <2> HIDE DEF Q, n, step, start
  <2> QED
    BY <1>1, <1>2, <1>3, StepsLeadSomewhere
<1>5. /\ bt \in [0 .. n -> Q] /\ bt[0] = start
      /\ \A k \in 1 .. n : bt[k] = Distinguished(A, bt[k - 1])
  <2>1. ASSUME NEW k \in 1 .. n
        PROVE  bt[k] = Distinguished(A, bt[k - 1])
    <3>1. bt[k] = step[k][bt[k - 1]] /\ bt \in [0 .. n -> Q]
      BY <1>4 DEF Follows
    <3>2. bt[k - 1] \in Q
      BY <1>1, <3>1
    <3> QED
      BY <3>1, <3>2
  <2> QED
    BY <1>4, <2>1 DEF Follows
<1>6. bt = F(bt)
  <2>1. \A k \in 0 .. n : k # 0 => k \in 1 .. n
    BY <1>1
  <2>2. \A k \in 0 .. A.size : bt[k] = F(bt)[k]
    BY <1>0, <1>5, <2>1
  <2>3. bt = [k \in 0 .. A.size |-> bt[k]] /\ F(bt) = [k \in 0 .. A.size |-> F(bt)[k]]
    BY <1>5
  <2> HIDE DEF Q, F
  <2> QED
    BY <2>2, <2>3
<1>7. PICK walk : walk = F(walk) /\ FinalPartition(A) = walk[n]
  <2> DEFINE chosen == CHOOSE walk : walk = F(walk)
  <2>1. chosen = F(chosen)
    <3> HIDE DEF F
    <3> QED
      BY <1>6
  <2>2. FinalPartition(A) = chosen[n]
    BY DEF FinalPartition
  <2> QED
    BY <2>1, <2>2
<1>8. \A k \in 0 .. n : walk[k] = IF k = 0 THEN start ELSE Distinguished(A, walk[k - 1])
  BY <1>0, <1>7
<1>9. FollowsWhereDefined(walk, Q, step, start, n)
  <2> HIDE DEF Q, start
  <2>1. walk[0] = start
    BY <1>1, <1>8
  <2>2. ASSUME NEW k \in 1 .. n, walk[k - 1] \in Q
        PROVE  walk[k] = step[k][walk[k - 1]]
    <3>1. k \in 0 .. n /\ k # 0
      BY <1>1
    <3>2. walk[k] = Distinguished(A, walk[k - 1])
      BY <1>8, <3>1
    <3> QED
      BY <2>2, <3>2
  <2> QED
    BY <2>1, <2>2 DEF FollowsWhereDefined
<1> HIDE DEF Q, n, step, start, F
<1>10. \A k \in 0 .. n : walk[k] = bt[k]
  BY <1>1, <1>2, <1>3, <1>4, <1>9, StepsLeadToOnePlace
<1> QED
  BY <1>1, <1>5, <1>7, <1>10 DEF n, Q, start, AreRounds

-----------------------------------------------------------------------------
(* States of a block accept alike and lead to the same blocks.             *)
IsStable(A, belong) ==
  \A s, t \in StatesOf(A) :
    belong[s] = belong[t] =>
      /\ s \in A.is_accept <=> t \in A.is_accept
      /\ \A n \in Nibbles : belong[A.table[s][n]] = belong[A.table[t][n]]

(* The pairs of states in one block.                                       *)
Together(A, belong) == {p \in StatesOf(A) \X StatesOf(A) : belong[p[1]] = belong[p[2]]}

(* As many rounds as there are states are enough.                          *)
LEMMA FinalPartitionIsStable ==
  ASSUME NEW A, IsWhole(A)
  PROVE  /\ FinalPartition(A) \in [StatesOf(A) -> Nat]
         /\ IsStable(A, FinalPartition(A))
<1> DEFINE n == A.size
<1>1. PICK round : AreRounds(A, round) /\ FinalPartition(A) = round[n]
  BY FinalPartitionEndsRounds
<1>2. n \in Nat \ {0} /\ StatesOf(A) = 0 .. n - 1
  BY DEF IsWhole, StatesOf
<1>3. /\ \A k \in 0 .. n : round[k] \in [StatesOf(A) -> Nat]
      /\ round[0] = FirstPartition(A)
      /\ \A k \in 1 .. n : k \in 0 .. n /\ k - 1 \in 0 .. n /\ round[k] = Distinguished(A, round[k - 1])
  BY <1>1, <1>2 DEF AreRounds
<1> HIDE DEF n
<1> DEFINE walk == [k \in 0 .. n |-> Together(A, round[k])]
<1>4. \A k \in 0 .. n : \A s, t \in StatesOf(A) : <<s, t>> \in walk[k] <=> round[k][s] = round[k][t]
  BY DEF Together
<1>5. \A k \in 0 .. n : IsEquivalenceOn(0 .. n - 1, walk[k])
  <2> SUFFICES ASSUME NEW k \in 0 .. n PROVE IsEquivalenceOn(StatesOf(A), walk[k])
    BY <1>2
  <2>1. walk[k] \in SUBSET (StatesOf(A) \X StatesOf(A))
    BY DEF Together
  <2> HIDE DEF walk
  <2> QED
    BY <1>4, <2>1 DEF IsEquivalenceOn
<1>6. ASSUME NEW k \in 1 .. n, NEW s \in StatesOf(A), NEW t \in StatesOf(A)
      PROVE  <<s, t>> \in walk[k] <=>
               /\ <<s, t>> \in walk[k - 1]
               /\ \A m \in Nibbles : round[k - 1][A.table[s][m]] = round[k - 1][A.table[t][m]]
  <2>1. k \in 0 .. n /\ k - 1 \in 0 .. n /\ round[k] = Distinguished(A, round[k - 1])
    BY <1>3
  <2>2. PICK belong \in [StatesOf(A) -> Nat] : belong = round[k - 1]
    BY <1>3, <2>1
  <2>3. round[k][s] = round[k][t] <=> Alike(A, belong, s, t)
    BY <2>1, <2>2, RoundDistinguishes
  <2>4. Alike(A, belong, s, t) <=>
          /\ belong[s] = belong[t]
          /\ \A m \in Nibbles : belong[A.table[s][m]] = belong[A.table[t][m]]
    BY AlikeMeans
  <2> HIDE DEF walk
  <2>5. /\ <<s, t>> \in walk[k] <=> round[k][s] = round[k][t]
        /\ <<s, t>> \in walk[k - 1] <=> belong[s] = belong[t]
    BY <1>4, <2>1, <2>2
  <2> QED
    BY <2>2, <2>3, <2>4, <2>5
<1>7. \A k \in 1 .. n : walk[k] \subseteq walk[k - 1]
  <2> SUFFICES ASSUME NEW k \in 1 .. n, NEW p \in walk[k] PROVE p \in walk[k - 1]
    OBVIOUS
  <2>1. p \in StatesOf(A) \X StatesOf(A)
    BY <1>3 DEF Together
  <2>2. PICK s \in StatesOf(A), t \in StatesOf(A) : p = <<s, t>>
    BY <2>1
  <2> HIDE DEF walk
  <2> QED
    BY <1>6, <2>2
<1>8. PICK j \in 1 .. n : walk[j] = walk[j - 1]
  <2> HIDE DEF walk
  <2> QED
    BY <1>2, <1>5, <1>7, NarrowingStops
<1>9. \A k \in 0 .. n : \A s, t \in StatesOf(A) :
        round[k][s] = round[k][t] => (s \in A.is_accept <=> t \in A.is_accept)
  <2> DEFINE Off == {k \in 0 .. n : \E s, t \in StatesOf(A) :
                       /\ round[k][s] = round[k][t]
                       /\ ~ (s \in A.is_accept <=> t \in A.is_accept)}
  <2>1. SUFFICES ASSUME Off # {} PROVE FALSE
    OBVIOUS
  <2>2. PICK k \in Off : \A l \in Off : k <= l
    <3>1. Off \in SUBSET Nat
      BY <1>2
    <3> HIDE DEF Off
    <3> QED
      BY <2>1, <3>1, LeastNumber
  <2>3. PICK s \in StatesOf(A), t \in StatesOf(A) :
          /\ round[k][s] = round[k][t]
          /\ ~ (s \in A.is_accept <=> t \in A.is_accept)
    BY <2>2
  <2>4. k # 0
    BY <1>3, <2>3 DEF FirstPartition
  <2>5. k \in 1 .. n /\ k - 1 \in 0 .. n /\ k - 1 \notin Off
    BY <1>2, <2>2, <2>4
  <2>6. <<s, t>> \in walk[k - 1]
    <3>1. <<s, t>> \in walk[k]
      BY <1>4, <2>2, <2>3
    <3> HIDE DEF walk
    <3> QED
      BY <1>6, <2>5, <3>1
  <2>7. round[k - 1][s] = round[k - 1][t]
    BY <1>4, <2>5, <2>6
  <2> QED
    BY <2>3, <2>5, <2>7
<1>10. \A k \in j .. n : walk[k] = walk[j]
  <2> DEFINE Off == {k \in j .. n : walk[k] # walk[j]}
  <2>1. SUFFICES ASSUME Off # {} PROVE FALSE
    OBVIOUS
  <2>2. PICK k \in Off : \A l \in Off : k <= l
    <3>1. Off \in SUBSET Nat
      BY <1>2
    <3> HIDE DEF Off, walk
    <3> QED
      BY <2>1, <3>1, LeastNumber
  <2>3. k # j
    BY <2>2
  <2>4. k \in 1 .. n /\ k - 1 \in 1 .. n /\ k - 1 \in j .. n /\ k - 1 \notin Off
    BY <1>2, <2>2, <2>3
  <2>5. walk[k - 1] = walk[j]
    BY <2>4
  <2>6. \A s, t \in StatesOf(A) : <<s, t>> \in walk[k - 1] =>
          \A m \in Nibbles : round[k - 1][A.table[s][m]] = round[k - 1][A.table[t][m]]
    <3> SUFFICES ASSUME NEW s \in StatesOf(A), NEW t \in StatesOf(A), <<s, t>> \in walk[k - 1],
                        NEW m \in Nibbles
                 PROVE  round[k - 1][A.table[s][m]] = round[k - 1][A.table[t][m]]
      OBVIOUS
    <3>1. A.table[s][m] \in StatesOf(A) /\ A.table[t][m] \in StatesOf(A)
      BY DEF IsWhole
    <3> HIDE DEF walk, Off
    <3>2. <<s, t>> \in walk[j]
      BY <2>5
    <3>3. round[j - 1][A.table[s][m]] = round[j - 1][A.table[t][m]]
      BY <1>6, <3>2
    <3>4. <<A.table[s][m], A.table[t][m]>> \in walk[k - 1]
      BY <1>3, <1>4, <1>8, <2>5, <3>1, <3>3
    <3> QED
      BY <1>4, <2>4, <3>1, <3>4
  <2>7. walk[k - 1] \subseteq walk[k]
    <3> SUFFICES ASSUME NEW p \in walk[k - 1] PROVE p \in walk[k]
      OBVIOUS
    <3>1. p \in StatesOf(A) \X StatesOf(A)
      BY <2>4 DEF Together
    <3>2. PICK s \in StatesOf(A), t \in StatesOf(A) : p = <<s, t>>
      BY <3>1
    <3> HIDE DEF walk, Off
    <3> QED
      BY <1>6, <2>4, <2>6, <3>2
  <2> HIDE DEF walk
  <2> QED
    BY <1>7, <2>2, <2>4, <2>5, <2>7
<1>11. ASSUME NEW s \in StatesOf(A), NEW t \in StatesOf(A), round[n][s] = round[n][t],
              NEW m \in Nibbles
       PROVE  round[n][A.table[s][m]] = round[n][A.table[t][m]]
  <2>1. A.table[s][m] \in StatesOf(A) /\ A.table[t][m] \in StatesOf(A)
    BY DEF IsWhole
  <2>2. n \in 0 .. n /\ n \in j .. n /\ j \in 0 .. n /\ j - 1 \in 0 .. n
    BY <1>2
  <2>3. <<s, t>> \in walk[n]
    BY <1>4, <1>11, <2>2
  <2> HIDE DEF walk
  <2>4. <<s, t>> \in walk[j]
    BY <1>10, <2>2, <2>3
  <2>5. round[j - 1][A.table[s][m]] = round[j - 1][A.table[t][m]]
    BY <1>6, <2>4
  <2>6. <<A.table[s][m], A.table[t][m]>> \in walk[n]
    BY <1>4, <1>8, <1>10, <2>1, <2>2, <2>5
  <2> QED
    BY <1>4, <2>1, <2>2, <2>6
<1>12. n \in 0 .. n
  BY <1>2
<1> QED
  BY <1>1, <1>3, <1>9, <1>11, <1>12 DEF IsStable

-----------------------------------------------------------------------------
(***************************************************************************)
(* Fb_DFA.                                                                 *)
(***************************************************************************)
(* Division by the number of states made of one.                           *)
LEMMA DivideSum ==
  ASSUME NEW w \in Nat \ {0}, NEW s \in Nat, NEW r \in 0 .. w - 1
  PROVE  (w * s + r) \div w = s /\ (w * s + r) % w = r
OBVIOUS

(* Every number is a multiple of w and what remains.                       *)
LEMMA DivideAny ==
  ASSUME NEW w \in Nat \ {0}, NEW x \in Nat
  PROVE  x \div w \in Nat /\ x % w \in 0 .. w - 1 /\ x = w * (x \div w) + (x % w)
OBVIOUS

(* What is below a multiple of w, with less than w added, stays below.     *)
LEMMA SumsKeepOrder ==
  ASSUME NEW w \in Nat \ {0}, NEW s \in Nat, NEW r \in 0 .. w - 1, NEW d \in Nat
  PROVE  s < d <=> w * s + r < w * d
OBVIOUS

(* A DFA over bytes as minimize leaves it.                                 *)
IsGiven(D) ==
  /\ D.size \in Nat \ {0}
  /\ D.table \in [StatesOf(D) -> [Bytes -> StatesOf(D)]]

(* Two halves make a byte.                                                 *)
LEMMA HalvesMakeBytes ==
  /\ NIBBLE \in Nat \ {0} /\ WIDTH \in Nat \ {0}
  /\ \A high, low \in Nibbles : Byte(high, low) \in Bytes
<1>1. NIBBLE \in Nat \ {0} /\ WIDTH \in Nat \ {0}
  BY FbAssumption DEF WIDTH
<1>2. ASSUME NEW high \in Nibbles, NEW low \in Nibbles
      PROVE  Byte(high, low) \in Bytes
  <2>1. high \in Nat /\ low \in 0 .. NIBBLE - 1 /\ high < NIBBLE
    BY <1>1 DEF Nibbles
  <2>2. NIBBLE * high + low < NIBBLE * NIBBLE
    BY <1>1, <2>1, SumsKeepOrder
  <2>3. NIBBLE * high \in Nat
    BY <1>1, <2>1
  <2> QED
    BY <1>1, <2>1, <2>2, <2>3 DEF Byte, Bytes
<1> QED
  BY <1>1, <1>2

(* State s of the DFA is WIDTH * s, and where it is after the first half   *)
(* of a byte is a state of its own.                                        *)
LEMMA FromDfaHalves ==
  ASSUME NEW D, IsGiven(D)
  PROVE  /\ IsWhole(FromDfa(D))
         /\ \A s \in StatesOf(D) :
              /\ WIDTH * s \in StatesOf(FromDfa(D))
              /\ WIDTH * s \in FromDfa(D).is_accept <=> D.accepted[s] # {}
              /\ \A high \in Nibbles :
                   LET half == WIDTH * s + high + 1
                   IN /\ half \in StatesOf(FromDfa(D))
                      /\ half \notin FromDfa(D).is_accept
                      /\ FromDfa(D).table[WIDTH * s][high] = half
                      /\ \A low \in Nibbles :
                           FromDfa(D).table[half][low] = WIDTH * D.table[s][Byte(high, low)]
<1> DEFINE A == FromDfa(D)
           d == D.size
           w == WIDTH
<1>1. d \in Nat \ {0} /\ w \in Nat \ {0} /\ w = NIBBLE + 1 /\ NIBBLE \in Nat \ {0}
  BY HalvesMakeBytes DEF IsGiven, WIDTH
<1>2. /\ A.size = w * d
      /\ StatesOf(A) = 0 .. w * d - 1
      /\ A.is_accept = {w * s : s \in {q \in StatesOf(D) : D.accepted[q] # {}}}
      /\ A.table = [x \in StatesOf(A) |-> [n \in Nibbles |->
                      IF x % w = 0 THEN x + n + 1
                      ELSE w * D.table[x \div w][Byte((x % w) - 1, n)]]]
  BY DEF FromDfa, StatesOf
<1>3. StatesOf(D) = 0 .. d - 1
  BY DEF StatesOf
<1> HIDE DEF A, d, w
<1>4. w * d \in Nat \ {0}
  BY <1>1
<1>5. ASSUME NEW s \in StatesOf(D), NEW r \in 0 .. w - 1
      PROVE  w * s + r \in StatesOf(A) /\ (w * s + r) \div w = s /\ (w * s + r) % w = r
  <2>1. s \in Nat /\ s < d
    BY <1>1, <1>3
  <2>2. w * s + r < w * d /\ (w * s + r) \div w = s /\ (w * s + r) % w = r
    BY <1>1, <2>1, DivideSum, SumsKeepOrder
  <2>3. w * s \in Nat /\ r \in Nat
    BY <1>1, <2>1
  <2> QED
    BY <1>2, <1>4, <2>2, <2>3
<1>6. ASSUME NEW s \in StatesOf(D)
      PROVE  /\ w * s \in StatesOf(A) /\ (w * s) \div w = s /\ (w * s) % w = 0
  <2>1. w * s + 0 = w * s /\ 0 \in 0 .. w - 1
    BY <1>1, <1>3
  <2> QED
    BY <1>5, <2>1
<1>7. ASSUME NEW s \in StatesOf(D), NEW high \in Nibbles
      PROVE  /\ w * s + high + 1 \in StatesOf(A)
             /\ (w * s + high + 1) \div w = s /\ (w * s + high + 1) % w = high + 1
             /\ high + 1 # 0 /\ (high + 1) - 1 = high /\ high \in Nat
  <2>1. high + 1 \in 0 .. w - 1 /\ high \in Nat
    BY <1>1 DEF Nibbles
  <2>2. w * s + (high + 1) = w * s + high + 1
    BY <1>1, <1>3, <2>1
  <2> QED
    BY <1>5, <2>1, <2>2
<1>8. ASSUME NEW x \in StatesOf(A)
      PROVE  x \div w \in StatesOf(D) /\ x % w \in 0 .. w - 1 /\ x = w * (x \div w) + (x % w)
  <2>1. x \in Nat /\ x < w * d
    BY <1>2, <1>4
  <2>2. PICK q, r : q = x \div w /\ r = x % w
    OBVIOUS
  <2>3. q \in Nat /\ r \in 0 .. w - 1 /\ x = w * q + r
    BY <1>1, <2>1, <2>2, DivideAny
  <2>4. q < d
    BY <1>1, <2>1, <2>3, SumsKeepOrder
  <2> QED
    BY <1>1, <1>3, <2>2, <2>3, <2>4
<1>9. \A s \in StatesOf(D) : \A b \in Bytes : D.table[s][b] \in StatesOf(D)
  BY DEF IsGiven
<1>10. A.table \in [StatesOf(A) -> [Nibbles -> StatesOf(A)]]
  <2> SUFFICES ASSUME NEW x \in StatesOf(A), NEW n \in Nibbles
               PROVE  (IF x % w = 0 THEN x + n + 1
                       ELSE w * D.table[x \div w][Byte((x % w) - 1, n)]) \in StatesOf(A)
    BY <1>2
  <2>1. PICK q \in StatesOf(D), r \in 0 .. w - 1 : q = x \div w /\ r = x % w /\ x = w * q + r
    BY <1>8
  <2>2. CASE r = 0
    <3>1. w * q + n + 1 \in StatesOf(A)
      BY <1>7
    <3>2. x + n + 1 = w * q + n + 1
      BY <1>1, <1>3, <2>1, <2>2
    <3> QED
      BY <2>1, <2>2, <3>1, <3>2
  <2>3. CASE r # 0
    <3>1. r - 1 \in Nibbles
      BY <1>1, <2>3 DEF Nibbles
    <3>2. D.table[q][Byte(r - 1, n)] \in StatesOf(D)
      BY <1>9, <3>1, HalvesMakeBytes
    <3> QED
      BY <1>6, <2>1, <2>3, <3>2
  <2> QED
    BY <2>2, <2>3
<1>11. A.is_accept \in SUBSET StatesOf(A)
  BY <1>2, <1>6
<1>12. IsWhole(A)
  BY <1>2, <1>4, <1>10, <1>11 DEF IsWhole
<1>13. ASSUME NEW s \in StatesOf(D)
       PROVE  w * s \in A.is_accept <=> D.accepted[s] # {}
  <2>1. ASSUME NEW q \in StatesOf(D), w * q = w * s PROVE q = s
    BY <1>6, <2>1
  <2> QED
    BY <1>2, <2>1
<1>14. ASSUME NEW s \in StatesOf(D), NEW high \in Nibbles
       PROVE  /\ w * s + high + 1 \notin A.is_accept
              /\ A.table[w * s][high] = w * s + high + 1
              /\ \A low \in Nibbles :
                   A.table[w * s + high + 1][low] = w * D.table[s][Byte(high, low)]
  <2>1. ASSUME w * s + high + 1 \in A.is_accept PROVE FALSE
    <3>1. PICK q \in StatesOf(D) : w * s + high + 1 = w * q
      BY <1>2, <2>1
    <3>2. (w * s + high + 1) % w = 0
      BY <1>6, <3>1
    <3> QED
      BY <1>7, <3>2
  <2>2. A.table[w * s][high] = w * s + high + 1
    BY <1>2, <1>6
  <2>3. \A low \in Nibbles :
          A.table[w * s + high + 1][low] = w * D.table[s][Byte(high, low)]
    BY <1>2, <1>7
  <2> QED
    BY <2>1, <2>2, <2>3
<1> QED
  BY <1>6, <1>7, <1>12, <1>13, <1>14 DEF A, w

-----------------------------------------------------------------------------
(***************************************************************************)
(* The reduced automaton.                                                  *)
(***************************************************************************)
(* A block has one number, and the block of state 0 comes first.           *)
LEMMA BlocksAreNumbered ==
  ASSUME NEW A, IsWhole(A), NEW belong \in [StatesOf(A) -> Nat]
  PROVE  /\ IsFiniteSet(Blocks(A, belong))
         /\ \A b \in Blocks(A, belong) :
              /\ b.number \in Nat /\ b.turn \in Nat
              /\ b.front \in StatesOf(A) /\ belong[b.front] = b.number
              /\ b.number = belong[0] <=> b.turn = 0
         /\ \A b, other \in Blocks(A, belong) : b.number = other.number => b = other
         /\ \A s \in StatesOf(A) : \E b \in Blocks(A, belong) : b.number = belong[s]
<1> DEFINE heads == {q \in StatesOf(A) : \A t \in 0 .. q - 1 : belong[t] # belong[q]}
           Block(s) == [front |-> s, number |-> belong[s], turn |-> Turn(A, belong, s)]
<1>1. Blocks(A, belong) = {Block(s) : s \in heads}
  BY DEF Blocks
<1>2. StatesOf(A) \in SUBSET Nat /\ IsFiniteSet(StatesOf(A)) /\ heads \in SUBSET StatesOf(A)
  <2>1. StatesOf(A) \in SUBSET Nat /\ IsFiniteSet(StatesOf(A))
    BY FS_Interval DEF IsWhole, StatesOf
  <2> QED
    BY <2>1
<1>3. IsFiniteSet(Blocks(A, belong))
  <2>1. IsFiniteSet(heads)
    BY <1>2, FS_Subset
  <2> DEFINE f == [s \in heads |-> Block(s)]
  <2>2. f \in Surjection(heads, Blocks(A, belong))
    <3> HIDE DEF heads, Block
    <3> QED
      BY <1>1 DEF Surjection
  <2> HIDE DEF f, heads
  <2> QED
    BY <2>1, <2>2, FS_Surjection
<1>4. \A s \in StatesOf(A) : Turn(A, belong, s) \in Nat /\ (Turn(A, belong, s) = 0 <=> belong[s] = belong[0])
  BY DEF Turn
<1>5. \A s, t \in heads : belong[s] = belong[t] => s = t
  <2> SUFFICES ASSUME NEW s \in heads, NEW t \in heads, belong[s] = belong[t] PROVE s = t
    OBVIOUS
  <2>1. s \in Nat /\ t \in Nat
    BY <1>2
  <2>2. ~ (s \in 0 .. t - 1) /\ ~ (t \in 0 .. s - 1)
    OBVIOUS
  <2> QED
    BY <2>1, <2>2
<1>6. \A s \in StatesOf(A) : \E t \in heads : belong[t] = belong[s]
  <2> SUFFICES ASSUME NEW s \in StatesOf(A) PROVE \E t \in heads : belong[t] = belong[s]
    OBVIOUS
  <2> DEFINE block == {t \in StatesOf(A) : belong[t] = belong[s]}
  <2>1. PICK t \in block : \A u \in block : t <= u
    <3>1. block \in SUBSET Nat /\ block # {}
      BY <1>2
    <3> HIDE DEF block
    <3> QED
      BY <3>1, LeastNumber
  <2>2. \A u \in 0 .. t - 1 : u \in StatesOf(A) /\ ~ (t <= u)
    BY <2>1 DEF IsWhole, StatesOf
  <2> QED
    BY <2>1, <2>2
<1> HIDE DEF heads
<1>7. \A b \in Blocks(A, belong) :
        /\ b.number \in Nat /\ b.turn \in Nat
        /\ b.front \in StatesOf(A) /\ belong[b.front] = b.number
        /\ b.number = belong[0] <=> b.turn = 0
  BY <1>1, <1>2, <1>4
<1>8. \A b, other \in Blocks(A, belong) : b.number = other.number => b = other
  BY <1>1, <1>5
<1>9. \A s \in StatesOf(A) : \E b \in Blocks(A, belong) : b.number = belong[s]
  <2> SUFFICES ASSUME NEW s \in StatesOf(A)
               PROVE  \E b \in Blocks(A, belong) : b.number = belong[s]
    OBVIOUS
  <2>1. PICK t \in heads : belong[t] = belong[s]
    BY <1>6
  <2>2. Block(t) \in Blocks(A, belong) /\ Block(t).number = belong[t]
    BY <1>1
  <2> QED
    BY <2>1, <2>2
<1> QED
  BY <1>3, <1>7, <1>8, <1>9

(* partition_state_map numbers the blocks.                                 *)
LEMMA BlocksBecomeStates ==
  ASSUME NEW A, IsWhole(A), NEW belong \in [StatesOf(A) -> Nat],
         NEW blocks, blocks = Blocks(A, belong)
  PROVE  /\ Cardinality(blocks) \in Nat \ {0}
         /\ \A b \in blocks :
              partition_state_map(blocks, b.number) \in 0 .. Cardinality(blocks) - 1
         /\ \A b, other \in blocks :
              partition_state_map(blocks, b.number) = partition_state_map(blocks, other.number) => b = other
         /\ \A k \in 0 .. Cardinality(blocks) - 1 :
              \E b \in blocks : partition_state_map(blocks, b.number) = k
         /\ partition_state_map(blocks, belong[0]) = 0
<1> DEFINE Earlier(b, other) == b.turn < other.turn \/ (b.turn = other.turn /\ b.number < other.number)
           lower == [other \in blocks |-> {b \in blocks : Earlier(b, other)}]
<1>1. /\ IsFiniteSet(blocks)
      /\ \A b \in blocks : b.number \in Nat /\ b.turn \in Nat /\ (b.number = belong[0] <=> b.turn = 0)
      /\ \A b, other \in blocks : b.number = other.number => b = other
      /\ \A s \in StatesOf(A) : \E b \in blocks : b.number = belong[s]
  BY BlocksAreNumbered
<1>2. ASSUME NEW other \in blocks
      PROVE  partition_state_map(blocks, other.number) = Cardinality(lower[other])
  <2>1. (CHOOSE b \in blocks : b.number = other.number) = other
    BY <1>1
  <2>2. partition_state_map(blocks, other.number) = Cardinality({b \in blocks : Earlier(b, other)})
    BY <2>1 DEF partition_state_map
  <2> QED
    BY <2>2
<1>3. /\ lower \in [blocks -> SUBSET blocks]
      /\ \A s \in blocks : s \notin lower[s]
      /\ \A s, t \in blocks : s = t \/ s \in lower[t] \/ t \in lower[s]
      /\ \A s, t \in blocks : s \in lower[t] => lower[s] \subseteq lower[t]
  <2>1. \A s \in blocks : s \notin lower[s]
    BY <1>1
  <2>2. \A s, t \in blocks : s = t \/ s \in lower[t] \/ t \in lower[s]
    <3> SUFFICES ASSUME NEW s \in blocks, NEW t \in blocks PROVE s = t \/ Earlier(s, t) \/ Earlier(t, s)
      OBVIOUS
    <3>1. s.number \in Nat /\ t.number \in Nat /\ s.turn \in Nat /\ t.turn \in Nat
      BY <1>1
    <3>2. s.number = t.number => s = t
      BY <1>1
    <3> QED
      BY <3>1, <3>2
  <2>3. \A s, t, u \in blocks : Earlier(u, s) /\ Earlier(s, t) => Earlier(u, t)
    BY <1>1
  <2> QED
    BY <2>1, <2>2, <2>3
<1>4. /\ Cardinality(blocks) \in Nat
      /\ \A s \in blocks : Cardinality(lower[s]) \in 0 .. Cardinality(blocks) - 1
      /\ \A s, t \in blocks : Cardinality(lower[s]) = Cardinality(lower[t]) => s = t
      /\ \A k \in 0 .. Cardinality(blocks) - 1 : \E s \in blocks : Cardinality(lower[s]) = k
  <2> HIDE DEF lower
  <2> QED
    BY <1>1, <1>3, OrderNumbers
<1>5. 0 \in StatesOf(A)
  BY DEF IsWhole, StatesOf
<1>6. PICK first \in blocks : first.number = belong[0]
  BY <1>1, <1>5
<1>7. lower[first] = {}
  BY <1>1, <1>6
<1>8. Cardinality(lower[first]) = 0
  BY <1>7, FS_EmptySet
<1>9. Cardinality(blocks) # 0
  BY <1>4, <1>6, <1>8
<1> HIDE DEF lower
<1> QED
  BY <1>2, <1>4, <1>6, <1>8, <1>9

(* An automaton over halves of bytes, before it has lists.                 *)
IsNibbleDfa(A) ==
  /\ A.size \in Nat \ {0}
  /\ A.table \in [StatesOf(A) -> [Nibbles -> StatesOf(A) \cup {NO_STATE}]]
  /\ A.is_accept \in SUBSET StatesOf(A)

(* Every state is stood for by one that accepts alike, leads to where its  *)
(* targets are stood for, and is 0 for state 0.                            *)
LEMMA ReducedStandsFor ==
  ASSUME NEW A, IsWhole(A)
  PROVE  /\ IsNibbleDfa(Reduced(A))
         /\ Reduced(A).accept_list = [k \in StatesOf(Reduced(A)) |-> <<>>]
         /\ \E new \in [StatesOf(A) -> StatesOf(Reduced(A))] :
              /\ new[0] = 0
              /\ \A s \in StatesOf(A) :
                   /\ new[s] \in Reduced(A).is_accept <=> s \in A.is_accept
                   /\ \A n \in Nibbles : Reduced(A).table[new[s]][n] = new[A.table[s][n]]
<1>1. PICK belong : belong = FinalPartition(A) /\ belong \in [StatesOf(A) -> Nat] /\ IsStable(A, belong)
  BY FinalPartitionIsStable
<1>2. PICK blocks : blocks = Blocks(A, belong)
  OBVIOUS
<1> DEFINE count == Cardinality(blocks)
           size == IF A.is_accept = {} THEN count + 1 ELSE count
           new == [s \in StatesOf(A) |-> partition_state_map(blocks, belong[s])]
           Front(k) == (CHOOSE b \in blocks : partition_state_map(blocks, b.number) = k).front
           table == [k \in 0 .. size - 1 |-> [n \in Nibbles |->
                       IF k < count THEN new[A.table[Front(k)][n]] ELSE NO_STATE]]
           R == Reduced(A)
<1>3. 0 \in StatesOf(A) /\ DOMAIN A.table[0] = Nibbles
  BY DEF IsWhole, StatesOf
<1>4. /\ R.size = size
      /\ StatesOf(R) = 0 .. size - 1
      /\ R.is_accept = {partition_state_map(blocks, belong[s]) : s \in A.is_accept}
      /\ R.accept_list = [k \in 0 .. size - 1 |-> <<>>]
  BY <1>1, <1>2 DEF Reduced, StatesOf
<1>5. R.table = [k \in 0 .. size - 1 |-> [n \in Nibbles |->
                   IF k < count THEN partition_state_map(blocks, belong[A.table[Front(k)][n]])
                   ELSE NO_STATE]]
  BY <1>1, <1>2, <1>3 DEF Reduced
<1>6. /\ count \in Nat \ {0}
      /\ \A b \in blocks : partition_state_map(blocks, b.number) \in 0 .. count - 1
      /\ \A b, other \in blocks :
           partition_state_map(blocks, b.number) = partition_state_map(blocks, other.number) => b = other
      /\ \A k \in 0 .. count - 1 : \E b \in blocks : partition_state_map(blocks, b.number) = k
      /\ partition_state_map(blocks, belong[0]) = 0
  BY <1>1, <1>2, BlocksBecomeStates
<1>7. /\ \A b \in blocks : b.front \in StatesOf(A) /\ belong[b.front] = b.number
      /\ \A s \in StatesOf(A) : \E b \in blocks : b.number = belong[s]
  BY <1>1, <1>2, BlocksAreNumbered
<1>8. size \in Nat \ {0} /\ count <= size
  BY <1>6
<1> HIDE DEF count, size, R
<1>9. new \in [StatesOf(A) -> 0 .. count - 1]
  BY <1>6, <1>7
<1>10. ASSUME NEW s \in StatesOf(A)
       PROVE  Front(new[s]) \in StatesOf(A) /\ belong[Front(new[s])] = belong[s]
  <2>1. PICK b \in blocks : b.number = belong[s]
    BY <1>7
  <2>2. (CHOOSE other \in blocks : partition_state_map(blocks, other.number) = new[s]) = b
    BY <1>6, <2>1
  <2> QED
    BY <1>7, <2>1, <2>2
<1>11. \A k \in 0 .. count - 1 : Front(k) \in StatesOf(A)
  <2> SUFFICES ASSUME NEW k \in 0 .. count - 1 PROVE Front(k) \in StatesOf(A)
    OBVIOUS
  <2>1. \E b \in blocks : partition_state_map(blocks, b.number) = k
    BY <1>6
  <2> QED
    BY <1>7, <2>1
<1>12. \A s \in StatesOf(A) : \A n \in Nibbles : A.table[s][n] \in StatesOf(A)
  BY DEF IsWhole
<1>13. \A s, t \in StatesOf(A) : new[s] = new[t] => belong[s] = belong[t]
  BY <1>6, <1>7
<1> HIDE DEF Front
<1>14. R.table = table
  BY <1>5, <1>6, <1>8, <1>11, <1>12
<1>15. R.is_accept \in SUBSET (0 .. count - 1) /\ R.is_accept = {new[s] : s \in A.is_accept}
  <2>1. \A s \in A.is_accept : s \in StatesOf(A) /\ new[s] = partition_state_map(blocks, belong[s])
    BY DEF IsWhole
  <2>2. R.is_accept = {new[s] : s \in A.is_accept}
    BY <1>4, <2>1
  <2> HIDE DEF new
  <2> QED
    BY <1>9, <2>1, <2>2
<1> HIDE DEF new
<1>16. table \in [0 .. size - 1 -> [Nibbles -> (0 .. size - 1) \cup {NO_STATE}]]
  <2>1. \A k \in 0 .. size - 1 : k < count => k \in 0 .. count - 1
    BY <1>6, <1>8
  <2>2. \A k \in 0 .. size - 1 : \A n \in Nibbles : k < count => new[A.table[Front(k)][n]] \in 0 .. size - 1
    BY <1>6, <1>8, <1>9, <1>11, <1>12, <2>1
  <2> QED
    BY <2>2
<1>17. IsNibbleDfa(R)
  BY <1>4, <1>6, <1>8, <1>14, <1>15, <1>16 DEF IsNibbleDfa
<1>18. ASSUME NEW s \in StatesOf(A)
       PROVE  new[s] \in R.is_accept <=> s \in A.is_accept
  <2>1. ASSUME NEW t \in A.is_accept, new[s] = new[t] PROVE s \in A.is_accept
    BY <1>1, <1>13, <2>1 DEF IsStable, IsWhole
  <2> QED
    BY <1>15, <2>1
<1>19. ASSUME NEW s \in StatesOf(A), NEW n \in Nibbles
       PROVE  R.table[new[s]][n] = new[A.table[s][n]]
  <2>1. new[s] \in 0 .. size - 1 /\ new[s] < count
    BY <1>6, <1>8, <1>9
  <2>2. R.table[new[s]][n] = new[A.table[Front(new[s])][n]]
    BY <1>14, <2>1
  <2>3. belong[A.table[Front(new[s])][n]] = belong[A.table[s][n]]
    BY <1>1, <1>10 DEF IsStable
  <2>4. new[A.table[Front(new[s])][n]] = new[A.table[s][n]]
    BY <1>10, <1>12, <2>3 DEF new
  <2> QED
    BY <2>2, <2>4
<1>20. new \in [StatesOf(A) -> StatesOf(R)]
  BY <1>4, <1>6, <1>8, <1>9
<1>21. new[0] = 0
  BY <1>3, <1>6 DEF new
<1> QED
  BY <1>4, <1>17, <1>18, <1>19, <1>20, <1>21 DEF R

-----------------------------------------------------------------------------
(***************************************************************************)
(* What it is that an automaton over halves of bytes watches for some of   *)
(* the expressions.                                                        *)
(***************************************************************************)
IsGivenList(ds) == \A e \in DOMAIN ds : IsGiven(ds[e])

(* Where the DFAs of all the expressions may be.                           *)
Positions(ds) == {st \in [DOMAIN ds -> Nat] : \A e \in DOMAIN ds : st[e] \in StatesOf(ds[e])}

Beginning(ds) == [e \in DOMAIN ds |-> 0]

After(ds, st, high, low) == [e \in DOMAIN ds |-> ds[e].table[st[e]][Byte(high, low)]]

(* The numbers of those of the expressions that end here.                  *)
Ending(ds, exprs, st) == {e - 1 : e \in {d \in exprs : ds[d].accepted[st[d]] # {}}}

(* A list of the members of a set, each once.                              *)
Enumerates(list, S) ==
  /\ list \in Seq(S)
  /\ \A k, l \in DOMAIN list : list[k] = list[l] => k = l
  /\ \A x \in S : \E k \in DOMAIN list : list[k] = x

(* In whole are the states that go with the DFAs between two bytes, in     *)
(* half those between the halves of one: it accepts between bytes only,    *)
(* and lists each of its expressions that end.                             *)
Watches(A, ds, exprs, whole, half) ==
  /\ whole \in SUBSET (StatesOf(A) \X Positions(ds))
  /\ half \in SUBSET (StatesOf(A) \X Positions(ds) \X Nibbles)
  /\ <<0, Beginning(ds)>> \in whole
  /\ \A s \in StatesOf(A), st \in Positions(ds) :
       <<s, st>> \in whole =>
         /\ s \in A.is_accept <=> Ending(ds, exprs, st) # {}
         /\ Enumerates(A.accept_list[s], Ending(ds, exprs, st))
         /\ \A high \in Nibbles : <<A.table[s][high], st, high>> \in half
  /\ \A h \in StatesOf(A), st \in Positions(ds), high \in Nibbles :
       <<h, st, high>> \in half =>
         /\ h \notin A.is_accept
         /\ \A low \in Nibbles : <<A.table[h][low], After(ds, st, high, low)>> \in whole

WatchesSome(A, ds, exprs) ==
  /\ IsNibbleDfa(A)
  /\ \E whole, half : Watches(A, ds, exprs, whole, half)

(* A list of nothing and one of a single member.                           *)
LEMMA ShortListsEnumerate ==
  /\ Enumerates(<<>>, {})
  /\ \A x : Enumerates(<< x >>, {x})
<1>1. Enumerates(<<>>, {})
  BY DEF Enumerates
<1>2. ASSUME NEW x
      PROVE  Enumerates(<< x >>, {x})
  <2>1. PICK list : list = << x >>
    OBVIOUS
  <2>2. list \in Seq({x}) /\ DOMAIN list = {1} /\ list[1] = x
    BY <2>1
  <2>3. Enumerates(list, {x})
    BY <2>2 DEF Enumerates
  <2> QED
    BY <2>1, <2>3
<1> QED
  BY <1>1, <1>2

(* Reading keeps the DFAs in their states.                                 *)
LEMMA PositionsAreKept ==
  ASSUME NEW ds, IsGivenList(ds)
  PROVE  /\ Beginning(ds) \in Positions(ds)
         /\ \A st \in Positions(ds), high, low \in Nibbles :
              After(ds, st, high, low) \in Positions(ds)
<1>1. \A e \in DOMAIN ds : 0 \in StatesOf(ds[e]) /\ StatesOf(ds[e]) \in SUBSET Nat
  BY DEF IsGivenList, IsGiven, StatesOf
<1>2. Beginning(ds) \in Positions(ds)
  BY <1>1 DEF Beginning, Positions
<1>3. ASSUME NEW st \in Positions(ds), NEW high \in Nibbles, NEW low \in Nibbles
      PROVE  After(ds, st, high, low) \in Positions(ds)
  <2>1. \A e \in DOMAIN ds : ds[e].table[st[e]][Byte(high, low)] \in StatesOf(ds[e])
    BY HalvesMakeBytes DEF Positions, IsGivenList, IsGiven
  <2> QED
    BY <1>1, <2>1 DEF After, Positions
<1> QED
  BY <1>2, <1>3

(* The automaton of one expression watches it.                             *)
LEMMA CompiledWatches ==
  ASSUME NEW ds, IsGivenList(ds), NEW e \in DOMAIN ds, e \in Int
  PROVE  WatchesSome(init_accept_rules(Reduced(FromDfa(ds[e])), e - 1), ds, {e})
<1> DEFINE D == ds[e]
           F == FromDfa(D)
           R == Reduced(F)
           A == init_accept_rules(R, e - 1)
           w == WIDTH
<1>1. IsGiven(D)
  BY DEF IsGivenList
<1>2. /\ IsWhole(F)
      /\ \A s \in StatesOf(D) :
           /\ w * s \in StatesOf(F)
           /\ w * s \in F.is_accept <=> D.accepted[s] # {}
           /\ \A high \in Nibbles :
                /\ w * s + high + 1 \in StatesOf(F)
                /\ w * s + high + 1 \notin F.is_accept
                /\ F.table[w * s][high] = w * s + high + 1
                /\ \A low \in Nibbles :
                     F.table[w * s + high + 1][low] = w * D.table[s][Byte(high, low)]
  BY <1>1, FromDfaHalves
<1> HIDE DEF F
<1>3. PICK new \in [StatesOf(F) -> StatesOf(R)] :
        /\ new[0] = 0
        /\ \A s \in StatesOf(F) :
             /\ new[s] \in R.is_accept <=> s \in F.is_accept
             /\ \A n \in Nibbles : R.table[new[s]][n] = new[F.table[s][n]]
  BY <1>2, ReducedStandsFor
<1>4. IsNibbleDfa(R) /\ R.accept_list = [k \in StatesOf(R) |-> <<>>]
  BY <1>2, ReducedStandsFor
<1>5. DOMAIN R = {"size", "table", "is_accept", "accept_list", "dead_state"}
  BY DEF Reduced
<1> HIDE DEF R, D, w
<1>6. /\ A.size = R.size /\ A.table = R.table /\ A.is_accept = R.is_accept
      /\ A.accept_list = [s \in StatesOf(R) |->
           IF s \in R.is_accept THEN Append(R.accept_list[s], e - 1) ELSE <<>>]
  BY <1>5 DEF init_accept_rules
<1>7. StatesOf(A) = StatesOf(R) /\ IsNibbleDfa(A)
  BY <1>4, <1>6 DEF IsNibbleDfa, StatesOf
<1>8. \A s \in StatesOf(A) :
        A.accept_list[s] = IF s \in A.is_accept THEN << e - 1 >> ELSE <<>>
  BY <1>4, <1>6, <1>7
<1> HIDE DEF A
<1> DEFINE whole == {<<new[w * st[e]], st>> : st \in Positions(ds)}
           half == {<<new[w * p[1][e] + p[2] + 1], p[1], p[2]>> : p \in Positions(ds) \X Nibbles}
<1>9. \A st \in Positions(ds) :
        /\ st[e] \in StatesOf(D)
        /\ \A high, low \in Nibbles :
             After(ds, st, high, low)[e] = D.table[st[e]][Byte(high, low)]
  BY DEF Positions, After, D
<1>10. whole \in SUBSET (StatesOf(A) \X Positions(ds))
  BY <1>2, <1>3, <1>7, <1>9
<1>11. half \in SUBSET (StatesOf(A) \X Positions(ds) \X Nibbles)
  <2> SUFFICES ASSUME NEW p \in Positions(ds) \X Nibbles
               PROVE  new[w * p[1][e] + p[2] + 1] \in StatesOf(A)
    OBVIOUS
  <2> QED
    BY <1>2, <1>3, <1>7, <1>9
<1>12. <<0, Beginning(ds)>> \in whole
  <2>1. Beginning(ds)[e] = 0 /\ w * 0 = 0
    BY HalvesMakeBytes DEF Beginning, w
  <2>2. Beginning(ds) \in Positions(ds)
    BY PositionsAreKept
  <2> QED
    BY <1>3, <2>1, <2>2
<1>13. ASSUME NEW st \in Positions(ds)
       PROVE  Ending(ds, {e}, st) = IF D.accepted[st[e]] # {} THEN {e - 1} ELSE {}
  BY DEF Ending, D
<1>14. ASSUME NEW s \in StatesOf(A), NEW st \in Positions(ds), <<s, st>> \in whole
       PROVE  /\ s \in A.is_accept <=> Ending(ds, {e}, st) # {}
              /\ Enumerates(A.accept_list[s], Ending(ds, {e}, st))
              /\ \A high \in Nibbles : <<A.table[s][high], st, high>> \in half
  <2>1. s = new[w * st[e]] /\ st[e] \in StatesOf(D) /\ w * st[e] \in StatesOf(F)
    BY <1>2, <1>9, <1>14
  <2>2. s \in A.is_accept <=> D.accepted[st[e]] # {}
    BY <1>2, <1>3, <1>6, <2>1
  <2>3. Enumerates(A.accept_list[s], Ending(ds, {e}, st))
    <3>1. CASE s \in A.is_accept
      <4>1. A.accept_list[s] = << e - 1 >> /\ Ending(ds, {e}, st) = {e - 1}
        BY <1>8, <1>13, <2>2, <3>1
      <4> QED
        BY <4>1, ShortListsEnumerate
    <3>2. CASE s \notin A.is_accept
      <4>1. A.accept_list[s] = <<>> /\ Ending(ds, {e}, st) = {}
        BY <1>8, <1>13, <2>2, <3>2
      <4> QED
        BY <4>1, ShortListsEnumerate
    <3> QED
      BY <3>1, <3>2
  <2>4. ASSUME NEW high \in Nibbles
        PROVE  <<A.table[s][high], st, high>> \in half
    <3>1. A.table[s][high] = new[w * st[e] + high + 1]
      BY <1>2, <1>3, <1>6, <2>1
    <3>2. <<new[w * <<st, high>>[1][e] + <<st, high>>[2] + 1], <<st, high>>[1], <<st, high>>[2]>> \in half
      OBVIOUS
    <3> QED
      BY <3>1, <3>2
  <2> QED
    BY <1>13, <2>2, <2>3, <2>4
<1>15. ASSUME NEW h \in StatesOf(A), NEW st \in Positions(ds), NEW high \in Nibbles,
              <<h, st, high>> \in half
       PROVE  /\ h \notin A.is_accept
              /\ \A low \in Nibbles : <<A.table[h][low], After(ds, st, high, low)>> \in whole
  <2>1. h = new[w * st[e] + high + 1] /\ st[e] \in StatesOf(D)
    BY <1>9, <1>15
  <2>2. w * st[e] + high + 1 \in StatesOf(F) /\ w * st[e] + high + 1 \notin F.is_accept
    BY <1>2, <2>1
  <2>3. h \notin A.is_accept
    BY <1>3, <1>6, <2>1, <2>2
  <2>4. ASSUME NEW low \in Nibbles
        PROVE  <<A.table[h][low], After(ds, st, high, low)>> \in whole
    <3>1. A.table[h][low] = new[w * D.table[st[e]][Byte(high, low)]]
      BY SMTT(20), <1>2, <1>3, <1>6, <2>1, <2>2
    <3>2. After(ds, st, high, low) \in Positions(ds)
      BY PositionsAreKept
    <3> QED
      BY <1>9, <3>1, <3>2
  <2> QED
    BY <2>3, <2>4
<1> HIDE DEF whole, half
<1>16. Watches(A, ds, {e}, whole, half)
  BY <1>10, <1>11, <1>12, <1>14, <1>15 DEF Watches
<1> QED
  BY <1>7, <1>16 DEF WatchesSome, A, R, F, D

-----------------------------------------------------------------------------
(***************************************************************************)
(* converge.                                                               *)
(***************************************************************************)
(* Lists of different members of J that begin with the pair of the starts. *)
PairLists(J) ==
  {pairs \in Seq(J) :
     /\ Len(pairs) > 0 /\ pairs[1] = <<0, 0>>
     /\ \A k, l \in DOMAIN pairs : pairs[k] = pairs[l] => k = l}

(* The one list goes on where the other ends.                              *)
GoesOn(pairs, more) ==
  Len(pairs) <= Len(more) /\ \A k \in DOMAIN pairs : more[k] = pairs[k]

Holds(pairs, p) == \E k \in DOMAIN pairs : pairs[k] = p

(* A pair that is met is held, and none that was held is lost.             *)
LEMMA MetIsHeld ==
  ASSUME NEW J, NEW pairs \in PairLists(J), NEW p \in J
  PROVE  Met(pairs, p) \in PairLists(J) /\ GoesOn(pairs, Met(pairs, p)) /\ Holds(Met(pairs, p), p)
<1>1. CASE Holds(pairs, p)
  <2>1. Met(pairs, p) = pairs
    BY <1>1 DEF Met, Holds
  <2>2. GoesOn(pairs, pairs)
    BY DEF GoesOn, PairLists
  <2> QED
    BY <1>1, <2>1, <2>2
<1>2. CASE ~ Holds(pairs, p)
  <2>1. PICK more : more = Append(pairs, p)
    OBVIOUS
  <2>2. Met(pairs, p) = more
    BY <1>2, <2>1 DEF Met, Holds
  <2>3. pairs \in Seq(J) /\ DOMAIN pairs = 1 .. Len(pairs) /\ Len(pairs) \in Nat
    BY DEF PairLists
  <2>4. /\ more \in Seq(J) /\ Len(more) = Len(pairs) + 1 /\ DOMAIN more = 1 .. Len(pairs) + 1
        /\ more[Len(pairs) + 1] = p
        /\ \A k \in 1 .. Len(pairs) : more[k] = pairs[k]
    BY <2>1, <2>3
  <2>5. more[1] = <<0, 0>> /\ Len(more) > 0
    BY <2>3, <2>4 DEF PairLists
  <2>6. ASSUME NEW k \in DOMAIN more, NEW l \in DOMAIN more, more[k] = more[l]
        PROVE  k = l
    <3>1. \A i \in 1 .. Len(pairs) : pairs[i] # p
      BY <1>2, <2>3 DEF Holds
    <3>2. \A i \in 1 .. Len(pairs), j \in 1 .. Len(pairs) : pairs[i] = pairs[j] => i = j
      BY <2>3 DEF PairLists
    <3> QED
      BY <2>3, <2>4, <2>6, <3>1, <3>2
  <2>7. more \in PairLists(J)
    BY <2>4, <2>5, <2>6 DEF PairLists
  <2>8. GoesOn(pairs, more) /\ Holds(more, p)
    <3>1. Len(pairs) + 1 \in DOMAIN more
      BY <2>3, <2>4
    <3> QED
      BY <2>3, <2>4, <3>1 DEF GoesOn, Holds
  <2> QED
    BY <2>2, <2>7, <2>8
<1> QED
  BY <1>1, <1>2

(* A list that goes on from one that goes on goes on from the first.       *)
LEMMA GoesOnAndOn ==
  ASSUME NEW J, NEW a \in PairLists(J), NEW b \in PairLists(J), GoesOn(a, b)
  PROVE  /\ \A p : Holds(a, p) => Holds(b, p)
         /\ \A third \in PairLists(J) : GoesOn(b, third) => GoesOn(a, third)
<1>1. \A s \in PairLists(J) : DOMAIN s = 1 .. Len(s) /\ Len(s) \in Nat
  BY DEF PairLists
<1>2. DOMAIN a \in SUBSET DOMAIN b
  BY <1>1 DEF GoesOn
<1>3. ASSUME NEW p, Holds(a, p) PROVE Holds(b, p)
  BY <1>2, <1>3 DEF Holds, GoesOn
<1>4. ASSUME NEW third \in PairLists(J), GoesOn(b, third) PROVE GoesOn(a, third)
  BY <1>1, <1>2, <1>4 DEF GoesOn
<1> QED
  BY <1>3, <1>4

(* The destinations of a pair are all met.                                 *)
LEMMA MetFromHolds ==
  ASSUME NEW A, NEW B, NEW J, NEW pairs \in PairLists(J), NEW p,
         \A n \in Nibbles : Destination(A, B, p, n) \in J
  PROVE  /\ MetFrom(A, B, pairs, p) \in PairLists(J)
         /\ GoesOn(pairs, MetFrom(A, B, pairs, p))
         /\ \A n \in Nibbles : Holds(MetFrom(A, B, pairs, p), Destination(A, B, p, n))
<1> DEFINE Q == PairLists(J)
           to == [n \in Nibbles |-> Destination(A, B, p, n)]
           step == [k \in 1 .. NIBBLE |-> [list \in Q |-> Met(list, to[k - 1])]]
           F(after) == [n \in 0 .. NIBBLE |->
                          IF n = 0 THEN pairs ELSE Met(after[n - 1], Destination(A, B, p, n - 1))]
<1>1. /\ NIBBLE \in Nat \ {0} /\ \A k \in 1 .. NIBBLE : k - 1 \in Nibbles /\ k \in 0 .. NIBBLE
                                                      /\ k - 1 \in 0 .. NIBBLE
      /\ \A n \in Nibbles : n + 1 \in 1 .. NIBBLE /\ (n + 1) - 1 = n
      /\ \A n \in 0 .. NIBBLE : n # 0 => n \in 1 .. NIBBLE
  BY HalvesMakeBytes DEF Nibbles
<1>2. \A n \in Nibbles : to[n] \in J
  OBVIOUS
<1>3. \A list \in Q, k \in 1 .. NIBBLE :
        /\ step[k][list] = Met(list, to[k - 1])
        /\ step[k][list] \in Q /\ GoesOn(list, step[k][list]) /\ Holds(step[k][list], to[k - 1])
  <2> HIDE DEF to
  <2> QED
    BY <1>1, <1>2, MetIsHeld
<1>4. step \in [1 .. NIBBLE -> [Q -> Q]]
  <2>1. \A k \in 1 .. NIBBLE : step[k] \in [Q -> Q]
    <3> SUFFICES ASSUME NEW k \in 1 .. NIBBLE PROVE step[k] \in [Q -> Q]
      OBVIOUS
    <3>1. step[k] = [list \in Q |-> step[k][list]]
      OBVIOUS
    <3> HIDE DEF step, Q
    <3> QED
      BY <1>3, <3>1
  <2>2. step = [k \in 1 .. NIBBLE |-> step[k]]
    OBVIOUS
  <2> HIDE DEF step, Q
  <2> QED
    BY <2>1, <2>2
<1>5. PICK bt : Follows(bt, Q, step, pairs, NIBBLE)
  <2> HIDE DEF Q, step
  <2>1. pairs \in Q
    BY DEF Q
  <2> QED
    BY <1>1, <1>4, <2>1, StepsLeadSomewhere
<1>6. /\ bt \in [0 .. NIBBLE -> Q] /\ bt[0] = pairs
      /\ \A k \in 1 .. NIBBLE :
           bt[k - 1] \in Q /\ bt[k] = step[k][bt[k - 1]] /\ bt[k] = Met(bt[k - 1], to[k - 1])
  <2> HIDE DEF Q, step, to
  <2> QED
    BY <1>1, <1>3, <1>5 DEF Follows
<1>7. bt = F(bt)
  <2>1. \A n \in 0 .. NIBBLE : bt[n] = F(bt)[n]
    BY <1>1, <1>6
  <2>2. bt = [n \in 0 .. NIBBLE |-> bt[n]] /\ F(bt) = [n \in 0 .. NIBBLE |-> F(bt)[n]]
    BY <1>6
  <2> HIDE DEF F
  <2> QED
    BY <2>1, <2>2
<1>8. PICK walk : walk = F(walk) /\ MetFrom(A, B, pairs, p) = walk[NIBBLE]
  <2> DEFINE chosen == CHOOSE after : after = F(after)
  <2>1. chosen = F(chosen)
    <3> HIDE DEF F
    <3> QED
      BY <1>7
  <2>2. MetFrom(A, B, pairs, p) = chosen[NIBBLE]
    BY DEF MetFrom
  <2> QED
    BY <2>1, <2>2
<1>9. FollowsWhereDefined(walk, Q, step, pairs, NIBBLE)
  <2>1. \A n \in 0 .. NIBBLE : walk[n] = IF n = 0 THEN pairs ELSE Met(walk[n - 1], Destination(A, B, p, n - 1))
    BY <1>8
  <2>2. walk[0] = pairs
    BY <1>1, <2>1
  <2>3. ASSUME NEW k \in 1 .. NIBBLE, walk[k - 1] \in Q
        PROVE  walk[k] = step[k][walk[k - 1]]
    <3>1. walk[k] = Met(walk[k - 1], to[k - 1])
      BY <1>1, <2>1
    <3> QED
      BY <1>3, <2>3, <3>1
  <2> QED
    BY <2>2, <2>3 DEF FollowsWhereDefined
<1> HIDE DEF Q, step, F
<1>10. \A k \in 0 .. NIBBLE : walk[k] = bt[k]
  <2>1. pairs \in Q /\ NIBBLE \in Nat
    BY <1>1 DEF Q
  <2> HIDE DEF to
  <2> QED
    BY <1>4, <1>5, <1>9, <2>1, StepsLeadToOnePlace, SMTT(60)
<1>11. MetFrom(A, B, pairs, p) = bt[NIBBLE]
  BY <1>1, <1>8, <1>10
<1>12. \A k \in 0 .. NIBBLE :
         GoesOn(pairs, bt[k]) /\ \A n \in Nibbles : n < k => Holds(bt[k], to[n])
  <2> DEFINE Off == {k \in 0 .. NIBBLE :
                ~ (GoesOn(pairs, bt[k]) /\ \A n \in Nibbles : n < k => Holds(bt[k], to[n]))}
  <2>1. SUFFICES ASSUME Off # {} PROVE FALSE
    OBVIOUS
  <2>2. PICK k \in Off : \A l \in Off : k <= l
    <3>1. Off \in SUBSET Nat
      BY <1>1
    <3> HIDE DEF Off
    <3> QED
      BY <2>1, <3>1, LeastNumber
  <2> HIDE DEF to
  <2>3. k # 0
    <3>1. GoesOn(pairs, pairs)
      BY DEF GoesOn, PairLists
    <3>2. \A n \in Nibbles : ~ (n < 0)
      BY DEF Nibbles
    <3> QED
      BY <1>6, <2>2, <3>1, <3>2
  <2>4. k \in 1 .. NIBBLE /\ k - 1 \in 0 .. NIBBLE /\ k - 1 \notin Off /\ k - 1 \in Nibbles
    BY <1>1, <2>2, <2>3
  <2>5. /\ bt[k - 1] \in Q /\ bt[k] \in Q
        /\ GoesOn(bt[k - 1], bt[k]) /\ Holds(bt[k], to[k - 1])
    BY <1>3, <1>6, <2>4
  <2>6. GoesOn(pairs, bt[k - 1]) /\ \A n \in Nibbles : n < k - 1 => Holds(bt[k - 1], to[n])
    BY <2>4
  <2>7. GoesOn(pairs, bt[k]) /\ \A q : Holds(bt[k - 1], q) => Holds(bt[k], q)
    BY <2>5, <2>6, GoesOnAndOn DEF Q
  <2>8. \A n \in Nibbles : n < k => n < k - 1 \/ n = k - 1
    BY <1>1, <2>4 DEF Nibbles
  <2> QED
    BY <2>2, <2>5, <2>6, <2>7, <2>8
<1>13. NIBBLE \in 0 .. NIBBLE /\ \A n \in Nibbles : n < NIBBLE
  BY <1>1 DEF Nibbles
<1> QED
  BY <1>6, <1>11, <1>12, <1>13 DEF Q, to

-----------------------------------------------------------------------------
(* Unless there are too many, the pairs met are closed under reading.      *)
LEMMA PairsMetAreClosed ==
  ASSUME NEW A, NEW B, NEW J, <<0, 0>> \in J,
         \A p \in J, n \in Nibbles : Destination(A, B, p, n) \in J
  PROVE  /\ PairsMet(A, B) \in PairLists(J)
         /\ Len(PairsMet(A, B)) <= MAX_STATES_NUMBER =>
              \A k \in DOMAIN PairsMet(A, B), n \in Nibbles :
                Holds(PairsMet(A, B), Destination(A, B, PairsMet(A, B)[k], n))
<1> DEFINE Q == PairLists(J)
           m == MAX_STATES_NUMBER + 1
           start == <<<<0, 0>>>>
           step == [k \in 1 .. m |-> [list \in Q |->
                      IF k > Len(list) THEN list ELSE MetFrom(A, B, list, list[k])]]
           F(met) == [k \in 0 .. MAX_STATES_NUMBER + 1 |->
                        IF k = 0 THEN <<<<0, 0>>>>
                        ELSE LET pairs == met[k - 1]
                             IN IF k > Len(pairs) THEN pairs ELSE MetFrom(A, B, pairs, pairs[k])]
           Done(list, k) == \A j \in DOMAIN list : j <= k =>
                              \A n \in Nibbles : Holds(list, Destination(A, B, list[j], n))
<1>1. /\ m \in Nat \ {0} /\ MAX_STATES_NUMBER \in Nat
      /\ \A k \in 1 .. m : k \in 0 .. m /\ k - 1 \in 0 .. m
      /\ \A k \in 0 .. m : k # 0 => k \in 1 .. m
  BY FbAssumption
<1>2. start \in Q
  <2>1. PICK s : s = start
    OBVIOUS
  <2>2. s \in Seq(J) /\ Len(s) = 1 /\ DOMAIN s = {1} /\ s[1] = <<0, 0>>
    BY <2>1
  <2>3. \A k, l \in DOMAIN s : s[k] = s[l] => k = l
    BY <2>2
  <2>4. s \in Seq(J) /\ Len(s) > 0 /\ s[1] = <<0, 0>>
    BY <2>2
  <2>5. s \in PairLists(J)
    BY <2>3, <2>4 DEF PairLists
  <2> QED
    BY <2>1, <2>5
<1>3. \A list \in Q : /\ Len(list) \in Nat /\ DOMAIN list = 1 .. Len(list)
                      /\ \A k \in DOMAIN list : list[k] \in J
  BY DEF PairLists
<1>4. ASSUME NEW k \in 1 .. m, NEW list \in Q
      PROVE  /\ step[k][list] = IF k > Len(list) THEN list ELSE MetFrom(A, B, list, list[k])
             /\ step[k][list] \in Q
             /\ Done(list, k - 1) => Done(step[k][list], k)
  <2>1. step[k][list] = IF k > Len(list) THEN list ELSE MetFrom(A, B, list, list[k])
    OBVIOUS
  <2>2. k \in Nat /\ k >= 1
    BY <1>1
  <2> HIDE DEF step, Q
  <2>3. CASE k > Len(list)
    <3>1. step[k][list] = list
      BY <2>1, <2>3
    <3>2. Done(list, k - 1) => Done(list, k)
      <4>1. \A j \in DOMAIN list : j <= k - 1
        BY <1>3, <2>2, <2>3
      <4> QED
        BY <4>1
    <3> HIDE DEF Done
    <3> QED
      BY <2>1, <3>1, <3>2
  <2>4. CASE ~ (k > Len(list))
    <3>1. k \in DOMAIN list /\ list[k] \in J
      BY <1>3, <2>2, <2>4
    <3>2. PICK more : more = MetFrom(A, B, list, list[k])
      OBVIOUS
    <3>3. /\ more \in Q /\ GoesOn(list, more)
          /\ \A n \in Nibbles : Holds(more, Destination(A, B, list[k], n))
      <4>1. \A n \in Nibbles : Destination(A, B, list[k], n) \in J
        BY <3>1
      <4> QED
        BY <3>2, <4>1, MetFromHolds DEF Q
    <3>4. \A p : Holds(list, p) => Holds(more, p)
      BY <3>3, GoesOnAndOn DEF Q
    <3>5. \A j \in DOMAIN list : more[j] = list[j]
      BY <3>3 DEF GoesOn
    <3>6. ASSUME Done(list, k - 1), NEW j \in DOMAIN more, j <= k, NEW n \in Nibbles
          PROVE  Holds(more, Destination(A, B, more[j], n))
      <4>1. j \in DOMAIN list
        BY <1>3, <2>2, <2>4, <3>3, <3>6
      <4>2. CASE j = k
        BY <3>3, <3>5, <4>1, <4>2
      <4>3. CASE j # k
        <5>1. j <= k - 1
          BY <1>3, <2>2, <3>3, <3>6, <4>3
        <5>2. Holds(list, Destination(A, B, list[j], n))
          BY <3>6, <4>1, <5>1
        <5> QED
          BY <3>4, <3>5, <4>1, <5>2
      <4> QED
        BY <4>2, <4>3
    <3>7. step[k][list] = more
      BY <2>1, <2>4, <3>2
    <3> QED
      BY <2>1, <3>3, <3>6, <3>7
  <2> QED
    BY <2>3, <2>4
<1>5. step \in [1 .. m -> [Q -> Q]]
  <2>1. \A k \in 1 .. m : step[k] \in [Q -> Q]
    <3> SUFFICES ASSUME NEW k \in 1 .. m PROVE step[k] \in [Q -> Q]
      OBVIOUS
    <3>1. step[k] = [list \in Q |-> step[k][list]]
      OBVIOUS
    <3> HIDE DEF step, Q
    <3> QED
      BY <1>4, <3>1
  <2>2. step = [k \in 1 .. m |-> step[k]]
    OBVIOUS
  <2> HIDE DEF step, Q
  <2> QED
    BY <2>1, <2>2
<1>6. m \in Nat
  BY <1>1
<1>7. PICK bt : Follows(bt, Q, step, start, m)
  <2> HIDE DEF Q, step, m, start
  <2> QED
    BY <1>2, <1>5, <1>6, StepsLeadSomewhere
<1>8. /\ bt \in [0 .. m -> Q] /\ bt[0] = start
      /\ \A k \in 1 .. m : bt[k - 1] \in Q /\ bt[k] = step[k][bt[k - 1]]
  <2> HIDE DEF Q, step, start, m
  <2> QED
    BY <1>1, <1>7 DEF Follows
<1>9. \A k \in 1 .. m : bt[k] = IF k > Len(bt[k - 1]) THEN bt[k - 1]
                                ELSE MetFrom(A, B, bt[k - 1], bt[k - 1][k])
  <2> HIDE DEF Q, step, m
  <2> QED
    BY <1>4, <1>8
<1>10. bt = F(bt)
  <2>1. \A k \in 0 .. MAX_STATES_NUMBER + 1 : bt[k] = F(bt)[k]
    BY <1>1, <1>8, <1>9
  <2>2. bt = [k \in 0 .. MAX_STATES_NUMBER + 1 |-> bt[k]]
          /\ F(bt) = [k \in 0 .. MAX_STATES_NUMBER + 1 |-> F(bt)[k]]
    BY <1>8
  <2> HIDE DEF F
  <2> QED
    BY <2>1, <2>2
<1>11. PICK walk : walk = F(walk) /\ PairsMet(A, B) = walk[m]
  <2> DEFINE chosen == CHOOSE met : met = F(met)
  <2>1. chosen = F(chosen)
    <3> HIDE DEF F
    <3> QED
      BY <1>10
  <2>2. PairsMet(A, B) = chosen[m]
    BY DEF PairsMet
  <2> QED
    BY <2>1, <2>2
<1>12. \A k \in 0 .. m : walk[k] = IF k = 0 THEN start
                                 ELSE IF k > Len(walk[k - 1]) THEN walk[k - 1]
                                      ELSE MetFrom(A, B, walk[k - 1], walk[k - 1][k])
  BY <1>11
<1>13. FollowsWhereDefined(walk, Q, step, start, m)
  <2> HIDE DEF Q, step, m, start
  <2>1. walk[0] = start
    BY <1>6, <1>12
  <2>2. ASSUME NEW k \in 1 .. m, walk[k - 1] \in Q
        PROVE  walk[k] = step[k][walk[k - 1]]
    BY <1>1, <1>4, <1>12, <2>2
  <2> QED
    BY <2>1, <2>2 DEF FollowsWhereDefined
<1>14. walk[m] = bt[m]
  <2> HIDE DEF Q, step, m, start, F, Done
  <2>1. \A k \in 0 .. m : walk[k] = bt[k]
    BY <1>2, <1>5, <1>6, <1>7, <1>13, StepsLeadToOnePlace, SMTT(60)
  <2> QED
    BY <1>6, <2>1
<1>15. \A k \in 0 .. m : Done(bt[k], k)
  <2> DEFINE Off == {k \in 0 .. m : ~ Done(bt[k], k)}
  <2>1. SUFFICES ASSUME Off # {} PROVE FALSE
    OBVIOUS
  <2>2. PICK k \in Off : \A l \in Off : k <= l
    <3>1. Off \in SUBSET Nat
      BY <1>1
    <3> HIDE DEF Off
    <3> QED
      BY <2>1, <3>1, LeastNumber
  <2>3. k # 0
    <3>1. 0 \in 0 .. m /\ bt[0] \in Q
      BY <1>2, <1>6, <1>8
    <3>2. Done(bt[0], 0)
      BY <1>3, <3>1
    <3> QED
      BY <2>2, <3>2
  <2>4. k \in 1 .. m /\ k - 1 \in 0 .. m /\ ~ (k <= k - 1)
    BY <1>1, <2>2, <2>3
  <2>5. Done(bt[k - 1], k - 1)
    BY <2>2, <2>4
  <2> HIDE DEF Done, Q, step, m
  <2>6. Done(bt[k], k)
    BY <1>4, <1>8, <2>4, <2>5
  <2> QED
    BY <2>2, <2>6
<1>16. PICK last \in Q : last = bt[m] /\ PairsMet(A, B) = last
  <2> HIDE DEF Q, step, m, start, F, Done
  <2>1. m \in 0 .. m
    BY <1>6
  <2> QED
    BY <1>8, <1>11, <1>14, <2>1
<1>17. Done(last, m)
  BY <1>6, <1>15, <1>16
<1>18. Len(last) <= MAX_STATES_NUMBER => \A j \in DOMAIN last : j <= m
  BY <1>1, <1>3
<1> QED
  BY <1>16, <1>17, <1>18

-----------------------------------------------------------------------------
(* One list after the other.                                               *)
LEMMA JoinedListsEnumerate ==
  ASSUME NEW S, NEW T, S \cap T = {}, NEW a, NEW b, Enumerates(a, S), Enumerates(b, T)
  PROVE  Enumerates(a \o b, S \cup T)
<1>1. PICK both : both = a \o b
  OBVIOUS
<1>2. /\ a \in Seq(S) /\ Len(a) \in Nat /\ DOMAIN a = 1 .. Len(a) /\ \A k \in 1 .. Len(a) : a[k] \in S
      /\ b \in Seq(T) /\ Len(b) \in Nat /\ DOMAIN b = 1 .. Len(b) /\ \A k \in 1 .. Len(b) : b[k] \in T
  BY DEF Enumerates
<1>3. a \in Seq(S \cup T) /\ b \in Seq(S \cup T)
  BY <1>2
<1>4. /\ both \in Seq(S \cup T) /\ Len(both) = Len(a) + Len(b) /\ DOMAIN both = 1 .. Len(a) + Len(b)
      /\ \A k \in 1 .. Len(a) + Len(b) : both[k] = IF k <= Len(a) THEN a[k] ELSE b[k - Len(a)]
  BY <1>1, <1>2, <1>3
<1>5. ASSUME NEW k \in DOMAIN both
      PROVE  \/ k \in 1 .. Len(a) /\ both[k] = a[k] /\ both[k] \in S
             \/ k - Len(a) \in 1 .. Len(b) /\ both[k] = b[k - Len(a)] /\ both[k] \in T
  BY <1>2, <1>4
<1>6. ASSUME NEW k \in DOMAIN both, NEW l \in DOMAIN both, both[k] = both[l]
      PROVE  k = l
  <2>1. k \in Int /\ l \in Int
    BY <1>4
  <2>2. both[k] \notin S \/ both[k] \notin T
    OBVIOUS
  <2>3. CASE k \in 1 .. Len(a) /\ l \in 1 .. Len(a)
    <3>1. a[k] = a[l]
      BY <1>4, <1>6, <2>3
    <3> QED
      BY <1>2, <2>3, <3>1 DEF Enumerates
  <2>4. CASE k \notin 1 .. Len(a) /\ l \notin 1 .. Len(a)
    <3>1. /\ k - Len(a) \in DOMAIN b /\ l - Len(a) \in DOMAIN b
          /\ b[k - Len(a)] = b[l - Len(a)]
      BY <1>2, <1>5, <1>6, <2>4
    <3>2. k - Len(a) = l - Len(a)
      BY <3>1 DEF Enumerates
    <3> QED
      BY <1>2, <2>1, <3>2
  <2>5. CASE ~ (k \in 1 .. Len(a) <=> l \in 1 .. Len(a))
    <3>1. both[k] \in S /\ both[k] \in T
      BY <1>2, <1>5, <1>6, <2>5
    <3> QED
      BY <2>2, <3>1
  <2> QED
    BY <2>3, <2>4, <2>5
<1>7. ASSUME NEW x \in S \cup T
      PROVE  \E k \in DOMAIN both : both[k] = x
  <2>1. CASE x \in S
    <3>1. PICK k \in 1 .. Len(a) : a[k] = x
      BY <1>2, <2>1 DEF Enumerates
    <3>2. k \in DOMAIN both /\ both[k] = x
      BY <1>2, <1>4, <3>1
    <3> QED
      BY <3>2
  <2>2. CASE x \in T
    <3>1. PICK k \in 1 .. Len(b) : b[k] = x
      BY <1>2, <2>2 DEF Enumerates
    <3>2. k + Len(a) \in DOMAIN both /\ (k + Len(a)) - Len(a) = k /\ ~ (k + Len(a) <= Len(a))
      BY <1>2, <1>4
    <3>3. both[k + Len(a)] = x
      BY <1>4, <3>1, <3>2
    <3> QED
      BY <3>2, <3>3
  <2> QED
    BY <2>1, <2>2
<1>8. Enumerates(both, S \cup T)
  BY <1>4, <1>6, <1>7 DEF Enumerates
<1> QED
  BY <1>1, <1>8

(* What ends of two sets of expressions.                                   *)
LEMMA EndingOfBoth ==
  ASSUME NEW ds, DOMAIN ds \in SUBSET Int, NEW a \in SUBSET DOMAIN ds, NEW b \in SUBSET DOMAIN ds,
         a \cap b = {}, NEW st
  PROVE  /\ Ending(ds, a \cup b, st) = Ending(ds, a, st) \cup Ending(ds, b, st)
         /\ Ending(ds, a, st) \cap Ending(ds, b, st) = {}
<1>1. Ending(ds, a \cup b, st) = Ending(ds, a, st) \cup Ending(ds, b, st)
  BY DEF Ending
<1>2. ASSUME NEW x \in Ending(ds, a, st), x \in Ending(ds, b, st)
      PROVE  FALSE
  <2>1. PICK d \in a : x = d - 1
    BY DEF Ending
  <2>2. PICK e \in b : x = e - 1
    BY <1>2 DEF Ending
  <2>3. d \in Int /\ e \in Int
    OBVIOUS
  <2>4. d = e
    BY <2>1, <2>2, <2>3
  <2> QED
    BY <2>4
<1> QED
  BY <1>1, <1>2

(* The product watches the expressions of both.                            *)
LEMMA ProductWatches ==
  ASSUME NEW ds, IsGivenList(ds), DOMAIN ds \in SUBSET Int,
         NEW a \in SUBSET DOMAIN ds, NEW b \in SUBSET DOMAIN ds, a \cap b = {},
         NEW A, WatchesSome(A, ds, a), NEW B, WatchesSome(B, ds, b),
         Product(A, B) # None
  PROVE  WatchesSome(Product(A, B), ds, a \cup b)
<1>1. PICK WA, HA : Watches(A, ds, a, WA, HA)
  BY DEF WatchesSome
<1>2. PICK WB, HB : Watches(B, ds, b, WB, HB)
  BY DEF WatchesSome
<1> DEFINE Pos == Positions(ds)
           Between(p, st) == <<p[1], st>> \in WA /\ <<p[2], st>> \in WB
           Halfway(p, st, high) == <<p[1], st, high>> \in HA /\ <<p[2], st, high>> \in HB
           J == {p \in StatesOf(A) \X StatesOf(B) :
                   \/ \E st \in Pos : Between(p, st)
                   \/ \E st \in Pos, high \in Nibbles : Halfway(p, st, high)}
           pairs == PairsMet(A, B)
           P == Product(A, B)
<1>3. ASSUME NEW p \in StatesOf(A) \X StatesOf(B), NEW st \in Pos, Between(p, st)
      PROVE  /\ p[1] \in A.is_accept <=> Ending(ds, a, st) # {}
             /\ p[2] \in B.is_accept <=> Ending(ds, b, st) # {}
             /\ Enumerates(A.accept_list[p[1]], Ending(ds, a, st))
             /\ Enumerates(B.accept_list[p[2]], Ending(ds, b, st))
             /\ \A high \in Nibbles :
                  Halfway(Destination(A, B, p, high), st, high) /\ Destination(A, B, p, high) \in J
  <2>1. p[1] \in StatesOf(A) /\ p[2] \in StatesOf(B)
    OBVIOUS
  <2>2. /\ p[1] \in A.is_accept <=> Ending(ds, a, st) # {}
        /\ Enumerates(A.accept_list[p[1]], Ending(ds, a, st))
        /\ \A high \in Nibbles : <<A.table[p[1]][high], st, high>> \in HA
    BY <1>1, <1>3, <2>1 DEF Watches
  <2>3. /\ p[2] \in B.is_accept <=> Ending(ds, b, st) # {}
        /\ Enumerates(B.accept_list[p[2]], Ending(ds, b, st))
        /\ \A high \in Nibbles : <<B.table[p[2]][high], st, high>> \in HB
    BY <1>2, <1>3, <2>1 DEF Watches
  <2>4. ASSUME NEW high \in Nibbles
        PROVE  Halfway(Destination(A, B, p, high), st, high) /\ Destination(A, B, p, high) \in J
    <3>1. Destination(A, B, p, high) = <<A.table[p[1]][high], B.table[p[2]][high]>>
      BY DEF Destination
    <3>2. <<A.table[p[1]][high], st, high>> \in HA /\ <<B.table[p[2]][high], st, high>> \in HB
      BY <2>2, <2>3
    <3>3. A.table[p[1]][high] \in StatesOf(A) /\ B.table[p[2]][high] \in StatesOf(B)
      BY <1>1, <1>2, <3>2 DEF Watches
    <3> QED
      BY <3>1, <3>2, <3>3
  <2> QED
    BY <2>2, <2>3, <2>4
<1>4. ASSUME NEW p \in StatesOf(A) \X StatesOf(B), NEW st \in Pos, NEW high \in Nibbles,
             Halfway(p, st, high)
      PROVE  /\ p[1] \notin A.is_accept /\ p[2] \notin B.is_accept
             /\ \A low \in Nibbles :
                  /\ Between(Destination(A, B, p, low), After(ds, st, high, low))
                  /\ Destination(A, B, p, low) \in J
  <2>1. p[1] \in StatesOf(A) /\ p[2] \in StatesOf(B)
    OBVIOUS
  <2>2. /\ p[1] \notin A.is_accept
        /\ \A low \in Nibbles : <<A.table[p[1]][low], After(ds, st, high, low)>> \in WA
    BY <1>1, <1>4, <2>1 DEF Watches
  <2>3. /\ p[2] \notin B.is_accept
        /\ \A low \in Nibbles : <<B.table[p[2]][low], After(ds, st, high, low)>> \in WB
    BY <1>2, <1>4, <2>1 DEF Watches
  <2>4. ASSUME NEW low \in Nibbles
        PROVE  /\ Between(Destination(A, B, p, low), After(ds, st, high, low))
               /\ Destination(A, B, p, low) \in J
    <3>1. Destination(A, B, p, low) = <<A.table[p[1]][low], B.table[p[2]][low]>>
      BY DEF Destination
    <3>2. /\ <<A.table[p[1]][low], After(ds, st, high, low)>> \in WA
          /\ <<B.table[p[2]][low], After(ds, st, high, low)>> \in WB
      BY <2>2, <2>3
    <3>3. A.table[p[1]][low] \in StatesOf(A) /\ B.table[p[2]][low] \in StatesOf(B)
      BY <1>1, <1>2, <3>2 DEF Watches
    <3>4. After(ds, st, high, low) \in Pos
      BY PositionsAreKept
    <3> QED
      BY <3>1, <3>2, <3>3, <3>4
  <2> QED
    BY <2>2, <2>3, <2>4
<1>5. <<0, 0>> \in J /\ Between(<<0, 0>>, Beginning(ds)) /\ Beginning(ds) \in Pos
  <2>1. <<0, Beginning(ds)>> \in WA /\ <<0, Beginning(ds)>> \in WB
    BY <1>1, <1>2 DEF Watches
  <2>2. 0 \in StatesOf(A) /\ 0 \in StatesOf(B) /\ Beginning(ds) \in Pos
    BY <1>1, <1>2, <2>1, PositionsAreKept DEF Watches
  <2> QED
    BY <2>1, <2>2
<1>6. \A p \in J, n \in Nibbles : Destination(A, B, p, n) \in J
  <2> SUFFICES ASSUME NEW p \in J, NEW n \in Nibbles PROVE Destination(A, B, p, n) \in J
    OBVIOUS
  <2> HIDE DEF Between, Halfway
  <2>1. p \in StatesOf(A) \X StatesOf(B)
    OBVIOUS
  <2>2. CASE \E st \in Pos : Between(p, st)
    <3>1. PICK st \in Pos : Between(p, st)
      BY <2>2
    <3> HIDE DEF J
    <3> QED
      BY <1>3, <2>1, <3>1
  <2>3. CASE \E st \in Pos, high \in Nibbles : Halfway(p, st, high)
    <3>1. PICK st \in Pos, high \in Nibbles : Halfway(p, st, high)
      BY <2>3
    <3> HIDE DEF J
    <3> QED
      BY <1>4, <2>1, <3>1
  <2> QED
    BY <2>2, <2>3
<1>7. J \in SUBSET (StatesOf(A) \X StatesOf(B))
  OBVIOUS
<1> HIDE DEF J, Between, Halfway
<1>8. pairs \in PairLists(J) /\ Len(pairs) \in Nat
  <2>1. pairs \in PairLists(J)
    BY <1>5, <1>6, PairsMetAreClosed
  <2> HIDE DEF pairs
  <2> QED
    BY <2>1 DEF PairLists
<1> DEFINE size == Len(pairs)
           Number(p) == CHOOSE k \in 0 .. size - 1 : pairs[k + 1] = p
           Of(s) == pairs[s + 1]
<1>9. size <= MAX_STATES_NUMBER
  <2>1. ~ (size > MAX_STATES_NUMBER)
    BY DEF Product
  <2> QED
    BY <1>8, <2>1, FbAssumption
<1>10. \A k \in DOMAIN pairs, n \in Nibbles : Holds(pairs, Destination(A, B, pairs[k], n))
  BY <1>5, <1>6, <1>9, PairsMetAreClosed
<1>11. /\ P.size = size /\ StatesOf(P) = 0 .. size - 1
       /\ P.table = [s \in 0 .. size - 1 |-> [n \in Nibbles |-> Number(Destination(A, B, Of(s), n))]]
       /\ P.is_accept = {s \in 0 .. size - 1 : Of(s)[1] \in A.is_accept \/ Of(s)[2] \in B.is_accept}
       /\ P.accept_list = [s \in 0 .. size - 1 |-> A.accept_list[Of(s)[1]] \o B.accept_list[Of(s)[2]]]
  <2>1. ~ (size > MAX_STATES_NUMBER)
    BY <1>8, <1>9, FbAssumption
  <2> QED
    BY <2>1 DEF Product, StatesOf, try_insert_new_accept
<1> HIDE DEF P
<1>12. /\ DOMAIN pairs = 1 .. size /\ size \in Nat \ {0} /\ pairs[1] = <<0, 0>>
       /\ \A k \in 1 .. size : pairs[k] \in J
       /\ \A k, l \in 1 .. size : pairs[k] = pairs[l] => k = l
  BY <1>8 DEF PairLists
<1> HIDE DEF size
<1>13. \A s \in 0 .. size - 1 : s + 1 \in 1 .. size /\ Of(s) \in J
                               /\ Of(s) \in StatesOf(A) \X StatesOf(B)
  BY <1>7, <1>12
<1>14. ASSUME NEW s \in 0 .. size - 1, NEW n \in Nibbles
       PROVE  /\ P.table[s][n] \in 0 .. size - 1
              /\ Of(P.table[s][n]) = Destination(A, B, Of(s), n)
  <2>1. PICK k \in 1 .. size : pairs[k] = Destination(A, B, Of(s), n)
    BY <1>10, <1>12, <1>13 DEF Holds
  <2>2. k - 1 \in 0 .. size - 1 /\ pairs[(k - 1) + 1] = Destination(A, B, Of(s), n)
    BY <1>12, <2>1
  <2>3. /\ Number(Destination(A, B, Of(s), n)) \in 0 .. size - 1
        /\ pairs[Number(Destination(A, B, Of(s), n)) + 1] = Destination(A, B, Of(s), n)
    BY <2>2
  <2> HIDE DEF Number
  <2>4. P.table[s][n] = Number(Destination(A, B, Of(s), n))
    <3>1. P.table = [q \in 0 .. size - 1 |->
                       [d \in Nibbles |-> Number(Destination(A, B, Of(q), d))]]
      BY <1>11
    <3>2. P.table[s] = [d \in Nibbles |-> Number(Destination(A, B, Of(s), d))]
      BY <3>1
    <3> QED
      BY <3>2
  <2> QED
    BY <2>3, <2>4
<1>15. IsNibbleDfa(P)
  <2>1. P.table \in [0 .. size - 1 -> [Nibbles -> 0 .. size - 1]]
    BY SMTT(20), <1>11, <1>14
  <2>2. P.table \in [StatesOf(P) -> [Nibbles -> StatesOf(P) \cup {NO_STATE}]]
    <3>1. \A s \in 0 .. size - 1 : P.table[s] \in [Nibbles -> StatesOf(P) \cup {NO_STATE}]
      BY SMTT(20), <1>11, <2>1
    <3> QED
      BY <1>11, <2>1, <3>1
  <2> QED
    BY <1>11, <1>12, <2>2 DEF IsNibbleDfa
<1> DEFINE whole == {x \in (0 .. size - 1) \X Pos : Between(Of(x[1]), x[2])}
           half == {x \in (0 .. size - 1) \X Pos \X Nibbles : Halfway(Of(x[1]), x[2], x[3])}
<1>16. /\ \A s \in 0 .. size - 1, st \in Pos : <<s, st>> \in whole <=> Between(Of(s), st)
       /\ \A s \in 0 .. size - 1, st \in Pos, high \in Nibbles :
            <<s, st, high>> \in half <=> Halfway(Of(s), st, high)
  OBVIOUS
<1>17. whole \in SUBSET (StatesOf(P) \X Pos) /\ half \in SUBSET (StatesOf(P) \X Pos \X Nibbles)
  BY <1>11
<1> HIDE DEF whole, half
<1>18. <<0, Beginning(ds)>> \in whole
  <2>1. 0 \in 0 .. size - 1 /\ Of(0) = <<0, 0>>
    BY <1>12
  <2> QED
    BY <1>5, <1>16, <2>1
<1> HIDE DEF Of
<1>19. ASSUME NEW s \in StatesOf(P), NEW st \in Pos, <<s, st>> \in whole
       PROVE  /\ s \in P.is_accept <=> Ending(ds, a \cup b, st) # {}
              /\ Enumerates(P.accept_list[s], Ending(ds, a \cup b, st))
              /\ \A high \in Nibbles : <<P.table[s][high], st, high>> \in half
  <2>1. s \in 0 .. size - 1 /\ Of(s) \in StatesOf(A) \X StatesOf(B) /\ Between(Of(s), st)
    BY <1>11, <1>13, <1>16, <1>19
  <2>2. /\ Of(s)[1] \in A.is_accept <=> Ending(ds, a, st) # {}
        /\ Of(s)[2] \in B.is_accept <=> Ending(ds, b, st) # {}
        /\ Enumerates(A.accept_list[Of(s)[1]], Ending(ds, a, st))
        /\ Enumerates(B.accept_list[Of(s)[2]], Ending(ds, b, st))
        /\ \A high \in Nibbles : Halfway(Destination(A, B, Of(s), high), st, high)
    BY <1>3, <2>1
  <2>3. /\ Ending(ds, a \cup b, st) = Ending(ds, a, st) \cup Ending(ds, b, st)
        /\ Ending(ds, a, st) \cap Ending(ds, b, st) = {}
    BY EndingOfBoth
  <2>4. s \in P.is_accept <=> Ending(ds, a \cup b, st) # {}
    BY <1>11, <2>1, <2>2, <2>3
  <2>5. P.accept_list[s] = A.accept_list[Of(s)[1]] \o B.accept_list[Of(s)[2]]
    BY <1>11, <2>1
  <2>6. Enumerates(P.accept_list[s], Ending(ds, a \cup b, st))
    <3>1. PICK S, T : S = Ending(ds, a, st) /\ T = Ending(ds, b, st)
      OBVIOUS
    <3>2. Enumerates(A.accept_list[Of(s)[1]] \o B.accept_list[Of(s)[2]], S \cup T)
      BY <2>2, <2>3, <3>1, JoinedListsEnumerate
    <3> QED
      BY <2>3, <2>5, <3>1, <3>2
  <2>7. \A high \in Nibbles : <<P.table[s][high], st, high>> \in half
    BY <1>14, <1>16, <2>1, <2>2
  <2> QED
    BY <2>4, <2>6, <2>7
<1>20. ASSUME NEW h \in StatesOf(P), NEW st \in Pos, NEW high \in Nibbles, <<h, st, high>> \in half
       PROVE  /\ h \notin P.is_accept
              /\ \A low \in Nibbles : <<P.table[h][low], After(ds, st, high, low)>> \in whole
  <2>1. h \in 0 .. size - 1 /\ Of(h) \in StatesOf(A) \X StatesOf(B) /\ Halfway(Of(h), st, high)
    BY <1>11, <1>13, <1>16, <1>20
  <2>2. /\ Of(h)[1] \notin A.is_accept /\ Of(h)[2] \notin B.is_accept
        /\ \A low \in Nibbles : Between(Destination(A, B, Of(h), low), After(ds, st, high, low))
    BY <1>4, <2>1
  <2>3. \A low \in Nibbles : After(ds, st, high, low) \in Pos
    BY PositionsAreKept
  <2>4. h \notin P.is_accept
    BY <1>11, <2>1, <2>2
  <2>5. \A low \in Nibbles : <<P.table[h][low], After(ds, st, high, low)>> \in whole
    BY <1>14, <1>16, <2>1, <2>2, <2>3
  <2> QED
    BY <2>4, <2>5
<1>21. Watches(P, ds, a \cup b, whole, half)
  BY <1>17, <1>18, <1>19, <1>20 DEF Watches
<1> QED
  BY <1>15, <1>21 DEF WatchesSome, P

-----------------------------------------------------------------------------
(***************************************************************************)
(* to_BRAM.                                                                *)
(***************************************************************************)
LEMMA MaxIsMember ==
  ASSUME NEW n \in Nat, NEW S \in SUBSET (0 .. n), S # {}
  PROVE  Max(S) \in S
<1> DEFINE T == {n - x : x \in S}
<1>1. T \in SUBSET Nat /\ T # {}
  <2>1. \A x \in S : n - x \in Nat
    OBVIOUS
  <2> QED
    BY <2>1
<1>2. PICK y \in T : \A z \in T : y <= z
  <2> HIDE DEF T
  <2> QED
    BY <1>1, LeastNumber
<1>3. PICK x \in S : y = n - x
  BY <1>2
<1>4. \A z \in S : x >= z
  <2> SUFFICES ASSUME NEW z \in S PROVE x >= z
    OBVIOUS
  <2>1. n - x <= n - z
    BY <1>2, <1>3
  <2> QED
    BY <2>1
<1> QED
  BY <1>4 DEF Max

(* Of three members of a set of two at the most two are one.               *)
LEMMA NoThreeOfTwo ==
  ASSUME NEW S, IsFiniteSet(S), ~ (Cardinality(S) > 2), NEW x \in S, NEW y \in S, NEW z \in S
  PROVE  x = y \/ x = z \/ y = z
<1> SUFFICES ASSUME x # y, x # z, y # z PROVE FALSE
  OBVIOUS
<1>1. IsFiniteSet({x}) /\ Cardinality({x}) = 1
  BY FS_Singleton
<1>2. IsFiniteSet({x} \cup {y}) /\ Cardinality({x} \cup {y}) = 2
  <2>1. y \notin {x}
    OBVIOUS
  <2>2. Cardinality({x} \cup {y}) = 1 + 1
    BY <1>1, <2>1, FS_AddElement
  <2> QED
    BY <1>1, <2>2, FS_AddElement
<1>3. IsFiniteSet({x} \cup {y} \cup {z}) /\ Cardinality({x} \cup {y} \cup {z}) = 3
  BY <1>2, FS_AddElement
<1>4. {x} \cup {y} \cup {z} \in SUBSET S
  OBVIOUS
<1>5. 3 <= Cardinality(S) /\ Cardinality(S) \in Nat
  BY <1>3, <1>4, FS_Subset, FS_CardinalityType
<1> QED
  BY <1>5

(* Old and new numbers of states go together one by one, and states with   *)
(* many targets come first.                                                *)
LEMMA NumbersAreNew ==
  ASSUME NEW A, A.size \in Nat \ {0}
  PROVE  /\ \A s \in StatesOf(A) : NewNumberOf(A, s) \in StatesOf(A)
         /\ \A s, t \in StatesOf(A) : NewNumberOf(A, s) = NewNumberOf(A, t) => s = t
         /\ \A k \in StatesOf(A) : \E s \in StatesOf(A) : NewNumberOf(A, s) = k
         /\ \A s \in StatesOf(A) : is_bigstate(A, s) => NewNumberOf(A, s) < get_large_states_num(A)
<1> DEFINE T == StatesOf(A)
           big == {t \in T : is_bigstate(A, t)}
           bigBefore(s) == {t \in T : t < s /\ is_bigstate(A, t)}
           smallBefore(s) == {t \in T : t < s /\ ~ is_bigstate(A, t)}
           lower == [s \in T |-> IF is_bigstate(A, s) THEN bigBefore(s)
                                                      ELSE big \cup smallBefore(s)]
<1>1. /\ T \in SUBSET Nat /\ IsFiniteSet(T) /\ Cardinality(T) = A.size
      /\ T = 0 .. Cardinality(T) - 1
  <2>1. T = 0 .. A.size - 1 /\ 0 \in Int /\ A.size - 1 \in Int /\ ~ (0 > A.size - 1)
    BY DEF StatesOf
  <2>2. IsFiniteSet(T) /\ Cardinality(T) = A.size
    BY <2>1, FS_Interval
  <2> QED
    BY <2>1, <2>2
<1> HIDE DEF T
<1>2. lower \in [T -> SUBSET T]
  OBVIOUS
<1>3. \A s, t \in T : s \in lower[t] <=>
        \/ is_bigstate(A, s) /\ ~ is_bigstate(A, t)
        \/ s < t /\ (is_bigstate(A, s) <=> is_bigstate(A, t))
  OBVIOUS
<1>4. ASSUME NEW s \in T
      PROVE  NewNumberOf(A, s) = Cardinality(lower[s])
  <2>1. CASE is_bigstate(A, s)
    BY <2>1 DEF NewNumberOf, T
  <2>2. CASE ~ is_bigstate(A, s)
    <3>1. NewNumberOf(A, s) = Cardinality(big) + Cardinality(smallBefore(s))
      BY <2>2 DEF NewNumberOf, get_large_states_num, T
    <3>2. big \in SUBSET T /\ smallBefore(s) \in SUBSET T /\ big \cap smallBefore(s) = {}
      OBVIOUS
    <3>3. lower[s] = big \cup smallBefore(s)
      BY <2>2
    <3> HIDE DEF big, smallBefore, lower
    <3>4. IsFiniteSet(big) /\ IsFiniteSet(smallBefore(s))
      BY <1>1, <3>2, FS_Subset
    <3>5. /\ Cardinality(big \cup smallBefore(s))
               = Cardinality(big) + Cardinality(smallBefore(s)) - Cardinality({})
          /\ Cardinality({}) = 0
      BY <3>2, <3>4, FS_Union, FS_EmptySet
    <3>6. Cardinality(big) \in Nat /\ Cardinality(smallBefore(s)) \in Nat
      BY <3>4, FS_CardinalityType
    <3> QED
      BY <3>1, <3>3, <3>5, <3>6
  <2> QED
    BY <2>1, <2>2
<1> HIDE DEF lower
<1>5. /\ \A s \in T : s \notin lower[s]
      /\ \A s, t \in T : s = t \/ s \in lower[t] \/ t \in lower[s]
      /\ \A s, t \in T : s \in lower[t] => lower[s] \subseteq lower[t]
  <2>1. \A s, t \in T : s = t \/ s \in lower[t] \/ t \in lower[s]
    BY <1>1, <1>3
  <2>2. \A s \in T : s \notin lower[s]
    BY <1>1, <1>3
  <2>3. \A s, t, u \in T : u \in lower[s] /\ s \in lower[t] => u \in lower[t]
    BY <1>1, <1>3
  <2> QED
    BY <1>2, <2>1, <2>2, <2>3
<1>6. /\ \A s \in T : Cardinality(lower[s]) \in 0 .. Cardinality(T) - 1
      /\ \A s, t \in T : Cardinality(lower[s]) = Cardinality(lower[t]) => s = t
      /\ \A k \in 0 .. Cardinality(T) - 1 : \E s \in T : Cardinality(lower[s]) = k
  <2>1. IsFiniteSet(T)
    BY <1>1
  <2>2. \A s \in T : s \notin lower[s]
    BY <1>5
  <2>3. \A s, t \in T : s = t \/ s \in lower[t] \/ t \in lower[s]
    BY <1>5
  <2>4. \A s, t \in T : s \in lower[t] => lower[s] \subseteq lower[t]
    BY <1>5
  <2>5. \A s \in T : Cardinality(lower[s]) \in 0 .. Cardinality(T) - 1
    BY <1>2, <2>1, <2>2, <2>3, <2>4, OrderNumbers, Zenon
  <2>6. \A s, t \in T : Cardinality(lower[s]) = Cardinality(lower[t]) => s = t
    BY <1>2, <2>1, <2>2, <2>3, <2>4, OrderNumbers, Zenon
  <2>7. ASSUME NEW k \in 0 .. Cardinality(T) - 1
        PROVE  \E s \in T : Cardinality(lower[s]) = k
    BY <1>2, <2>1, <2>2, <2>3, <2>4, OrderNumbers
  <2> QED
    BY <2>5, <2>6, <2>7
<1>7. ASSUME NEW s \in T, is_bigstate(A, s)
      PROVE  NewNumberOf(A, s) < get_large_states_num(A)
  <2>1. NewNumberOf(A, s) = Cardinality(bigBefore(s)) /\ get_large_states_num(A) = Cardinality(big)
    BY <1>7 DEF NewNumberOf, get_large_states_num, T
  <2>2. big \in SUBSET T /\ bigBefore(s) \in SUBSET big /\ bigBefore(s) # big
    BY <1>1, <1>7
  <2> HIDE DEF big, bigBefore
  <2>3. IsFiniteSet(big)
    BY <1>1, <2>2, FS_Subset
  <2>4. /\ Cardinality(bigBefore(s)) <= Cardinality(big)
        /\ Cardinality(bigBefore(s)) # Cardinality(big)
        /\ IsFiniteSet(bigBefore(s))
    BY <2>2, <2>3, FS_Subset
  <2>5. Cardinality(bigBefore(s)) \in Nat /\ Cardinality(big) \in Nat
    BY <2>3, <2>4, FS_CardinalityType
  <2> QED
    BY <2>1, <2>4, <2>5
<1>8. \A s \in T : NewNumberOf(A, s) \in T
  BY <1>1, <1>4, <1>6
<1>9. \A s, t \in T : NewNumberOf(A, s) = NewNumberOf(A, t) => s = t
  BY <1>4, <1>6
<1>10. \A k \in T : \E s \in T : NewNumberOf(A, s) = k
  BY <1>1, <1>4, <1>6
<1> QED
  BY <1>7, <1>8, <1>9, <1>10 DEF T

(* What the image of an automaton says of a state and a symbol.            *)
WordOf(A, t) == <<NewNumberOf(A, t), t \in A.is_accept>>

(* What is read of a state, as words or as a bitmap, is its target.        *)
LEMMA ImageIsRead ==
  ASSUME NEW A, IsNibbleDfa(A), ~ CannotBeWritten(A),
         NEW s \in StatesOf(A), NEW n \in Nibbles
  PROVE  /\ A.table[s][n] \in StatesOf(A)
         /\ WordRead(ImageOf(A), NewNumberOf(A, s), n) = WordOf(A, A.table[s][n])
<1>1. /\ \A q \in StatesOf(A) : NewNumberOf(A, q) \in StatesOf(A)
      /\ \A q, t \in StatesOf(A) : NewNumberOf(A, q) = NewNumberOf(A, t) => q = t
      /\ \A q \in StatesOf(A) : is_bigstate(A, q) => NewNumberOf(A, q) < get_large_states_num(A)
  BY NumbersAreNew DEF IsNibbleDfa
<1>2. OldState(A, NewNumberOf(A, s)) = s
  BY <1>1 DEF OldState
<1>3. \A m \in Nibbles : A.table[s][m] \in StatesOf(A) /\ A.table[s][m] \in Targets(A, s)
  BY DEF CannotBeWritten, IsNibbleDfa, Targets
<1>4. ASSUME NEW t \in StatesOf(A)
      PROVE  TargetWord(A, t) = WordOf(A, t)
  <2>1. NewNumberOf(A, t) \in 0 .. A.size - 1 /\ A.size \in Nat /\ A.size <= MAX_STATES_NUMBER
        /\ MAX_STATES_NUMBER \in Nat /\ MAX_STATES_NUMBER <= 256
    BY <1>1, FbAssumption DEF IsNibbleDfa, StatesOf, CannotBeWritten, small_enough
  <2>2. NewNumberOf(A, t) % 256 = NewNumberOf(A, t)
    BY <2>1
  <2> QED
    BY <2>2 DEF TargetWord, WordOf
<1> DEFINE k == NewNumberOf(A, s)
           row == A.table[s]
           others == {m \in Nibbles : row[m] # row[0]}
<1>5. k \in StatesOf(A)
  BY <1>1
<1>6. 0 \in Nibbles /\ Nibbles = 0 .. NIBBLE - 1 /\ NIBBLE - 1 \in Nat
  BY HalvesMakeBytes DEF Nibbles
<1>7. CASE k < MAX_BIG_SATES_NUMBER
  <2>1. ImageOf(A)[k].words[n] = TargetWord(A, row[n])
    BY <1>2, <1>5, <1>7 DEF ImageOf
  <2> QED
    BY <1>3, <1>4, <1>7, <2>1 DEF WordRead
<1>8. CASE ~ (k < MAX_BIG_SATES_NUMBER)
  <2>1. ImageOf(A)[k] = BitmapOf(A, row)
    BY <1>2, <1>5, <1>8 DEF ImageOf
  <2>2. /\ BitmapOf(A, row).bits = others
        /\ BitmapOf(A, row).first = TargetWord(A, row[0])
        /\ others # {} => BitmapOf(A, row).second = TargetWord(A, row[Max(others)])
    BY DEF BitmapOf
  <2>3. ~ is_bigstate(A, s)
    <3>1. get_large_states_num(A) <= MAX_BIG_SATES_NUMBER /\ get_large_states_num(A) \in Nat
      <4>1. IsFiniteSet(StatesOf(A))
        BY FS_Interval DEF IsNibbleDfa, StatesOf
      <4>2. IsFiniteSet({q \in StatesOf(A) : is_bigstate(A, q)})
        BY <4>1, FS_Subset
      <4> QED
        BY <4>2, FS_CardinalityType DEF CannotBeWritten, small_enough, get_large_states_num
    <3>2. k \in Nat /\ MAX_BIG_SATES_NUMBER \in Nat
      BY <1>5, FbAssumption DEF StatesOf, IsNibbleDfa
    <3> QED
      BY <1>1, <1>8, <3>1, <3>2
  <2>4. \A m \in others, l \in others : row[m] = row[l]
    <3> SUFFICES ASSUME NEW m \in others, NEW l \in others PROVE row[m] = row[l]
      OBVIOUS
    <3>1. IsFiniteSet(Targets(A, s))
      <4>1. Targets(A, s) \in SUBSET StatesOf(A)
        BY DEF CannotBeWritten, IsNibbleDfa, Targets
      <4>2. IsFiniteSet(StatesOf(A))
        BY FS_Interval DEF IsNibbleDfa, StatesOf
      <4> QED
        BY <4>1, <4>2, FS_Subset
    <3>2. row[0] \in Targets(A, s) /\ row[m] \in Targets(A, s) /\ row[l] \in Targets(A, s)
      BY <1>3, <1>6
    <3> QED
      BY <2>3, <3>1, <3>2, NoThreeOfTwo DEF is_bigstate
  <2>5. others # {} => Max(others) \in others
    <3>1. others \in SUBSET (0 .. NIBBLE - 1)
      BY <1>6
    <3> QED
      BY <1>6, <3>1, MaxIsMember
  <2>6. CASE n \in others
    <3>1. TargetWord(A, row[Max(others)]) = TargetWord(A, row[n])
      BY <2>4, <2>5, <2>6
    <3> QED
      BY <1>3, <1>4, <1>8, <2>1, <2>2, <2>6, <3>1 DEF WordRead
  <2>7. CASE n \notin others
    <3>1. row[n] = row[0]
      BY <2>7
    <3> QED
      BY <1>3, <1>4, <1>8, <2>1, <2>2, <2>7, <3>1 DEF WordRead
  <2> QED
    BY <2>6, <2>7
<1> QED
  BY <1>3, <1>7, <1>8

-----------------------------------------------------------------------------
(***************************************************************************)
(* Sorting and grouping lose and double nothing.                           *)
(***************************************************************************)
IsSequence(s) == \E S : s \in Seq(S)

(* One more element at the end of a sequence.                              *)
LEMMA AppendToSequence ==
  ASSUME NEW s, IsSequence(s), NEW x
  PROVE  /\ IsSequence(Append(s, x)) /\ Len(s) \in Nat /\ DOMAIN s = 1 .. Len(s)
         /\ Len(Append(s, x)) = Len(s) + 1 /\ DOMAIN Append(s, x) = 1 .. Len(s) + 1
         /\ \A k \in 1 .. Len(s) : Append(s, x)[k] = s[k]
         /\ Append(s, x)[Len(s) + 1] = x
<1>1. PICK S : s \in Seq(S)
  BY DEF IsSequence
<1>2. PICK T : T = S \cup {x}
  OBVIOUS
<1>3. s \in Seq(T) /\ x \in T
  BY <1>1, <1>2
<1>4. Append(s, x) \in Seq(T)
  BY <1>3
<1> QED
  BY <1>3, <1>4 DEF IsSequence

(* A function on 1 .. n is a sequence of length n.                         *)
LEMMA TabulatedIsSequence ==
  ASSUME NEW n \in Nat, NEW s, DOMAIN s = 1 .. n, s = [k \in 1 .. n |-> s[k]]
  PROVE  IsSequence(s) /\ Len(s) = n
<1>1. PICK S : S = {s[k] : k \in 1 .. n}
  OBVIOUS
<1>2. s \in [1 .. n -> S]
  BY <1>1
<1>3. s \in Seq(S)
  BY <1>2
<1>4. Len(s) = n
  BY <1>3
<1> QED
  BY <1>3, <1>4 DEF IsSequence

(* The expressions that are at home in a group; 0 is none.                 *)
Members(home, i) == {e \in DOMAIN home : home[e] = i}

(* The DFAs of the expressions.                                            *)
GivenDfas ==
  /\ Len(dfas) \in Nat /\ DOMAIN dfas = 1 .. Len(dfas)
  /\ IsGivenList(dfas)

(* Every automaton of the sorted list watches an expression of its own.    *)
SinglesWatch(single) ==
  /\ IsSequence(tem_lis) /\ Len(tem_lis) = Len(dfas)
  /\ single \in [DOMAIN dfas -> DOMAIN dfas]
  /\ \A k, l \in DOMAIN dfas : single[k] = single[l] => k = l
  /\ \A e \in DOMAIN dfas : \E k \in DOMAIN dfas : single[k] = e
  /\ \A k \in DOMAIN dfas : WatchesSome(tem_lis[k], dfas, {single[k]}) /\ small_enough(tem_lis[k])

(* The groups watch what is at home in them.                               *)
GroupsWatch(home) ==
  /\ IsSequence(target_dfas)
  /\ \A i \in 1 .. Len(target_dfas) : WatchesSome(target_dfas[i], dfas, Members(home, i))

(* Not at home anywhere is what has neither been taken in nor begun with.  *)
HomelessFrom(single, home, from) ==
  \A k \in DOMAIN dfas : home[single[k]] = 0 <=> k \notin converged /\ from <= k

Grouping(single, home) ==
  /\ SinglesWatch(single) /\ GroupsWatch(home)
  /\ home \in [DOMAIN dfas -> 0 .. Len(target_dfas)]
  /\ big_i \in Nat \ {0} /\ HomelessFrom(single, home, big_i)

Converging(single, home) ==
  /\ SinglesWatch(single) /\ GroupsWatch(home)
  /\ home \in [DOMAIN dfas -> 0 .. Len(target_dfas) + 1]
  /\ WatchesSome(dfa, dfas, Members(home, Len(target_dfas) + 1))
  /\ big_i \in Nat \ {0} /\ HomelessFrom(single, home, big_i + 1)
  /\ small_j \in Nat /\ big_i < small_j

(* What two automata have been converged to watches what both did.         *)
LEMMA ConvergedWatches ==
  ASSUME NEW ds, IsGivenList(ds), DOMAIN ds \in SUBSET Int,
         NEW a \in SUBSET DOMAIN ds, NEW b \in SUBSET DOMAIN ds, a \cap b = {},
         NEW A, WatchesSome(A, ds, a), NEW B, WatchesSome(B, ds, b),
         converge(A, B) # None
  PROVE  WatchesSome(converge(A, B), ds, a \cup b)
<1>1. Product(A, B) # None /\ converge(A, B) = Product(A, B)
  BY DEF converge
<1> QED
  BY <1>1, ProductWatches

(* An expression finds a home in group g.                                  *)
FindsHome(D, g, home, e, next) ==
  /\ home \in [D -> 0 .. g] /\ next \in [D -> 0 .. g]
  /\ e \in D /\ home[e] = 0
  /\ \A x \in D : next[x] = IF x = e THEN g ELSE home[x]

(* It is then in that group, and nothing else has moved.                   *)
LEMMA HomeIsFound ==
  ASSUME NEW D, NEW g \in Nat \ {0}, NEW home, NEW e, NEW next, FindsHome(D, g, home, e, next)
  PROVE  /\ \A i \in 1 .. g : i # g => Members(next, i) = Members(home, i)
         /\ Members(next, g) = Members(home, g) \cup {e}
         /\ e \notin Members(home, g)
         /\ \A x \in D : next[x] = 0 <=> home[x] = 0 /\ x # e
<1>1. /\ DOMAIN next = D /\ DOMAIN home = D /\ home \in [D -> 0 .. g]
      /\ e \in D /\ home[e] = 0
      /\ \A x \in D : next[x] = IF x = e THEN g ELSE home[x]
  BY DEF FindsHome
<1>2. ASSUME NEW i \in 1 .. g, i # g
      PROVE  Members(next, i) = Members(home, i)
  <2>1. \A x \in D : next[x] = i <=> home[x] = i
    BY <1>1, <1>2
  <2> QED
    BY <1>1, <2>1 DEF Members
<1>3. Members(next, g) = Members(home, g) \cup {e}
  <2>1. \A x \in D : next[x] = g <=> home[x] = g \/ x = e
    BY <1>1
  <2> QED
    BY <1>1, <2>1 DEF Members
<1>4. e \notin Members(home, g)
  BY <1>1 DEF Members
<1>5. \A x \in D : next[x] = 0 <=> home[x] = 0 /\ x # e
  BY <1>1
<1> QED
  BY <1>2, <1>3, <1>4, <1>5

(* An automaton that is left begins a group with its expression.           *)
LEMMA GroupBegins ==
  ASSUME NEW single, NEW home, GivenDfas, Grouping(single, home), BeginGroup
  PROVE  \/ fpga' = "group" /\ Grouping(single, home)'
         \/ fpga' = "converge" /\ \E next : Converging(single, next)'
<1>1. PICK ds, L, n, i : ds = dfas /\ L = Len(target_dfas) /\ n = Len(dfas) /\ i = big_i
  OBVIOUS
<1>2. /\ DOMAIN ds = 1 .. n /\ n \in Nat /\ L \in Nat /\ i \in Nat \ {0} /\ Len(tem_lis) = n
      /\ home \in [DOMAIN ds -> 0 .. L] /\ single \in [DOMAIN ds -> DOMAIN ds]
  BY <1>1, AppendToSequence DEF GivenDfas, Grouping, GroupsWatch, SinglesWatch
<1>3. UNCHANGED <<dfas, tem_lis, target_dfas, converged>>
  BY DEF BeginGroup, groupVars
<1>4. SinglesWatch(single)'
  BY <1>3 DEF Grouping, SinglesWatch
<1>5. \A k \in DOMAIN ds : home[single[k]] = 0 <=> k \notin converged /\ i <= k
  BY <1>1 DEF Grouping, HomelessFrom
<1>6. \A k \in DOMAIN ds : i <= k <=> (k = i \/ i + 1 <= k)
  <2>1. i \in Nat /\ n \in Nat /\ DOMAIN ds = 1 .. n
    BY <1>2
  <2>2. \A k \in 1 .. n : i <= k <=> (k = i \/ i + 1 <= k)
    BY <2>1
  <2> QED
    BY <2>1, <2>2
<1>7. /\ \A k, l \in DOMAIN ds : single[k] = single[l] => k = l
      /\ \A k \in DOMAIN ds : WatchesSome(tem_lis[k], ds, {single[k]}) /\ small_enough(tem_lis[k])
      /\ \A m \in 1 .. L : WatchesSome(target_dfas[m], ds, Members(home, m))
      /\ IsSequence(target_dfas)
  BY <1>1 DEF Grouping, SinglesWatch, GroupsWatch
<1>8. CASE i \in converged \/ ~ small_enough(tem_lis[i])
  <2>1. big_i' = i + 1 /\ fpga' = "group"
    BY <1>1, <1>8 DEF BeginGroup
  <2>2. i \in DOMAIN ds => i \in converged
    BY <1>7, <1>8
  <2>3. \A k \in DOMAIN ds : home[single[k]] = 0 <=> k \notin converged /\ i + 1 <= k
    BY <1>5, <1>6, <2>2
  <2>4. HomelessFrom(single, home, big_i)' /\ (big_i \in Nat \ {0})'
    BY <1>1, <1>2, <1>3, <2>1, <2>3 DEF HomelessFrom
  <2>5. GroupsWatch(home)' /\ (home \in [DOMAIN dfas -> 0 .. Len(target_dfas)])'
    BY <1>1, <1>2, <1>3, <1>7 DEF GroupsWatch
  <2> QED
    BY <1>4, <2>1, <2>4, <2>5 DEF Grouping
<1>9. CASE ~ (i \in converged \/ ~ small_enough(tem_lis[i]))
  <2>1. /\ dfa' = tem_lis[i] /\ small_j' = i + 1 /\ fpga' = "converge"
        /\ big_i' = i /\ i <= n
    BY <1>1, <1>2, <1>9 DEF BeginGroup
  <2>2. i \in DOMAIN ds
    BY <1>2, <2>1
  <2>3. PICK e \in DOMAIN ds : e = single[i] /\ home[e] = 0
    <3>1. i \notin converged /\ i <= i /\ single[i] \in DOMAIN ds
      BY <1>2, <1>9, <2>2
    <3>2. home[single[i]] = 0
      BY <1>5, <2>2, <3>1
    <3> QED
      BY <3>1, <3>2
  <2>4. PICK next : next = [home EXCEPT ![e] = L + 1]
    OBVIOUS
  <2>5. home \in [DOMAIN ds -> 0 .. L + 1] /\ Members(home, L + 1) = {}
    <3>1. L \in Nat /\ home \in [DOMAIN ds -> 0 .. L] /\ DOMAIN home = DOMAIN ds
      BY <1>2
    <3>2. \A y \in 0 .. L : y \in 0 .. L + 1 /\ y # L + 1
      BY <3>1
    <3>3. home \in [DOMAIN ds -> 0 .. L + 1]
      BY <3>1, <3>2
    <3>4. \A x \in DOMAIN home : home[x] # L + 1
      BY <3>1, <3>2
    <3> QED
      BY <3>3, <3>4 DEF Members
  <2>6. /\ next \in [DOMAIN ds -> 0 .. L + 1]
        /\ \A m \in 1 .. L : Members(next, m) = Members(home, m)
        /\ Members(next, L + 1) = Members(home, L + 1) \cup {e}
        /\ \A x \in DOMAIN ds : next[x] = 0 <=> home[x] = 0 /\ x # e
    <3>1. PICK D : D = DOMAIN ds
      OBVIOUS
    <3>2. home \in [D -> 0 .. L + 1] /\ e \in D /\ home[e] = 0 /\ L \in Nat
      BY <1>2, <2>3, <2>5, <3>1
    <3>3. PICK g \in Nat \ {0} : g = L + 1
      BY <3>2
    <3>4. FindsHome(D, g, home, e, next)
      BY <2>4, <3>2, <3>3 DEF FindsHome
    <3>5. /\ \A m \in 1 .. g : m # g => Members(next, m) = Members(home, m)
          /\ Members(next, g) = Members(home, g) \cup {e}
          /\ e \notin Members(home, g)
          /\ \A x \in D : next[x] = 0 <=> home[x] = 0 /\ x # e
      BY <3>4, HomeIsFound
    <3>6. \A m \in 1 .. L : m \in 1 .. g /\ m # g
      BY <3>2, <3>3
    <3> QED
      BY <3>1, <3>3, <3>4, <3>5, <3>6 DEF FindsHome
  <2>7. WatchesSome(dfa, dfas, Members(next, Len(target_dfas) + 1))'
    <3>1. Members(next, L + 1) = {single[i]}
      BY <2>3, <2>5, <2>6
    <3>2. WatchesSome(tem_lis[i], ds, Members(next, L + 1))
      BY <1>7, <2>2, <3>1
    <3> QED
      BY <1>1, <1>3, <2>1, <3>2
  <2>8. \A k \in DOMAIN ds : next[single[k]] = 0 <=> k \notin converged /\ i + 1 <= k
    <3> SUFFICES ASSUME NEW k \in DOMAIN ds
                 PROVE  next[single[k]] = 0 <=> k \notin converged /\ i + 1 <= k
      OBVIOUS
    <3>1. single[k] \in DOMAIN ds /\ (single[k] = e <=> k = i)
      BY <1>2, <1>7, <2>2, <2>3
    <3>2. k = i => ~ (i + 1 <= k)
      BY <1>2
    <3> QED
      BY <1>5, <1>6, <2>6, <3>1, <3>2
  <2>9. HomelessFrom(single, next, big_i + 1)'
    BY <1>1, <1>3, <2>1, <2>8 DEF HomelessFrom
  <2>10. GroupsWatch(next)' /\ (next \in [DOMAIN dfas -> 0 .. Len(target_dfas) + 1])'
    BY <1>1, <1>3, <1>7, <2>6 DEF GroupsWatch
  <2>11. (big_i \in Nat \ {0} /\ small_j \in Nat /\ big_i < small_j)'
    BY <1>2, <2>1
  <2>12. Converging(single, next)'
    BY <1>4, <2>7, <2>9, <2>10, <2>11 DEF Converging
  <2> QED
    BY <2>1, <2>12
<1> QED
  BY <1>8, <1>9

(* A group takes in an expression with its automaton, or neither.          *)
LEMMA GroupTakesIn ==
  ASSUME NEW single, NEW home, GivenDfas, Converging(single, home), Converge
  PROVE  fpga' = fpga /\ \E next : Converging(single, next)'
<1>1. PICK ds, L, n, i, j : /\ ds = dfas /\ L = Len(target_dfas) /\ n = Len(dfas)
                            /\ i = big_i /\ j = small_j
  OBVIOUS
<1>2. /\ DOMAIN ds = 1 .. n /\ n \in Nat /\ L \in Nat /\ i \in Nat \ {0} /\ Len(tem_lis) = n
      /\ j \in Nat /\ i < j /\ j <= n /\ j \in DOMAIN ds
      /\ home \in [DOMAIN ds -> 0 .. L + 1] /\ single \in [DOMAIN ds -> DOMAIN ds]
  <2>1. /\ DOMAIN ds = 1 .. n /\ n \in Nat /\ Len(tem_lis) = n
        /\ i \in Nat \ {0} /\ j \in Nat /\ i < j
        /\ single \in [DOMAIN ds -> DOMAIN ds] /\ home \in [DOMAIN ds -> 0 .. L + 1]
    BY <1>1 DEF GivenDfas, Converging, SinglesWatch
  <2>2. L \in Nat
    BY <1>1, AppendToSequence DEF Converging, GroupsWatch
  <2>3. j <= Len(tem_lis)
    BY <1>1 DEF Converge
  <2>4. j <= n /\ j \in 1 .. n
    BY <2>1, <2>3
  <2> QED
    BY <2>1, <2>2, <2>4
<1>3. /\ UNCHANGED <<dfas, tem_lis, target_dfas, big_i, fpga>>
      /\ small_j' = j + 1
  BY <1>1 DEF Converge, groupVars
<1>4. SinglesWatch(single)'
  BY <1>3 DEF Converging, SinglesWatch
<1>5. \A k \in DOMAIN ds : home[single[k]] = 0 <=> k \notin converged /\ i + 1 <= k
  BY <1>1 DEF Converging, HomelessFrom
<1>6. /\ \A k, l \in DOMAIN ds : single[k] = single[l] => k = l
      /\ \A k \in DOMAIN ds : WatchesSome(tem_lis[k], ds, {single[k]})
      /\ \A m \in 1 .. L : WatchesSome(target_dfas[m], ds, Members(home, m))
      /\ IsSequence(target_dfas) /\ WatchesSome(dfa, ds, Members(home, L + 1))
  BY <1>1 DEF Converging, SinglesWatch, GroupsWatch
<1>7. (big_i \in Nat \ {0} /\ small_j \in Nat /\ big_i < small_j)'
  BY <1>1, <1>2, <1>3
<1>8. PICK new_dfa : new_dfa = IF j \in converged THEN None ELSE converge(dfa, tem_lis[j])
  OBVIOUS
<1>9. CASE new_dfa = None
  <2>1. UNCHANGED <<dfa, converged>>
    BY <1>1, <1>8, <1>9 DEF Converge
  <2>2. HomelessFrom(single, home, big_i + 1)'
    BY <1>1, <1>3, <1>5, <2>1 DEF HomelessFrom
  <2>3. GroupsWatch(home)' /\ (home \in [DOMAIN dfas -> 0 .. Len(target_dfas) + 1])'
        /\ WatchesSome(dfa, dfas, Members(home, Len(target_dfas) + 1))'
    BY <1>1, <1>2, <1>3, <1>6, <2>1 DEF GroupsWatch
  <2> QED
    BY <1>3, <1>4, <1>7, <2>2, <2>3 DEF Converging
<1>10. CASE new_dfa # None
  <2>1. dfa' = new_dfa /\ converged' = converged \cup {j}
    BY <1>1, <1>8, <1>10 DEF Converge
  <2>2. j \notin converged /\ new_dfa = converge(dfa, tem_lis[j]) /\ converge(dfa, tem_lis[j]) # None
    BY <1>8, <1>10
  <2>3. PICK e \in DOMAIN ds : e = single[j] /\ home[e] = 0
    <3>1. single[j] \in DOMAIN ds /\ i + 1 <= j
      BY SMTT(20), <1>2
    <3>2. home[single[j]] = 0
      BY <1>2, <1>5, <2>2, <3>1
    <3> QED
      BY <3>1, <3>2
  <2>4. PICK next : next = [home EXCEPT ![e] = L + 1]
    OBVIOUS
  <2>5. /\ next \in [DOMAIN ds -> 0 .. L + 1]
        /\ \A m \in 1 .. L : Members(next, m) = Members(home, m)
        /\ Members(next, L + 1) = Members(home, L + 1) \cup {e}
        /\ e \notin Members(home, L + 1)
        /\ \A x \in DOMAIN ds : next[x] = 0 <=> home[x] = 0 /\ x # e
    <3>1. PICK D : D = DOMAIN ds
      OBVIOUS
    <3>2. home \in [D -> 0 .. L + 1] /\ e \in D /\ home[e] = 0 /\ L \in Nat
      BY <1>2, <2>3, <3>1
    <3>3. PICK g \in Nat \ {0} : g = L + 1
      BY <3>2
    <3>4. FindsHome(D, g, home, e, next)
      BY <2>4, <3>2, <3>3 DEF FindsHome
    <3>5. /\ \A m \in 1 .. g : m # g => Members(next, m) = Members(home, m)
          /\ Members(next, g) = Members(home, g) \cup {e}
          /\ e \notin Members(home, g)
          /\ \A x \in D : next[x] = 0 <=> home[x] = 0 /\ x # e
      BY <3>4, HomeIsFound
    <3>6. \A m \in 1 .. L : m \in 1 .. g /\ m # g
      BY <3>2, <3>3
    <3> QED
      BY <3>1, <3>3, <3>4, <3>5, <3>6 DEF FindsHome
  <2>6. WatchesSome(new_dfa, ds, Members(next, L + 1))
    <3>1. PICK a, b : a = Members(home, L + 1) /\ b = {e}
      OBVIOUS
    <3>2. a \in SUBSET DOMAIN ds /\ b \in SUBSET DOMAIN ds /\ a \cap b = {}
      BY <1>2, <2>3, <2>5, <3>1 DEF Members
    <3>3. WatchesSome(dfa, ds, a) /\ WatchesSome(tem_lis[j], ds, b)
      BY <1>2, <1>6, <2>3, <3>1
    <3>4. IsGivenList(ds) /\ DOMAIN ds \in SUBSET Int
      BY <1>1, <1>2 DEF GivenDfas
    <3>5. WatchesSome(converge(dfa, tem_lis[j]), ds, a \cup b)
      BY <2>2, <3>2, <3>3, <3>4, ConvergedWatches
    <3> QED
      BY <2>2, <2>5, <3>1, <3>5
  <2>7. WatchesSome(dfa, dfas, Members(next, Len(target_dfas) + 1))'
    BY <1>1, <1>3, <2>1, <2>6
  <2>8. \A k \in DOMAIN ds : next[single[k]] = 0 <=> k \notin converged \cup {j} /\ i + 1 <= k
    <3> SUFFICES ASSUME NEW k \in DOMAIN ds
                 PROVE  next[single[k]] = 0 <=> k \notin converged \cup {j} /\ i + 1 <= k
      OBVIOUS
    <3>1. single[k] \in DOMAIN ds /\ (single[k] = e <=> k = j)
      BY <1>2, <1>6, <2>3
    <3> QED
      BY <1>5, <2>5, <3>1
  <2>9. HomelessFrom(single, next, big_i + 1)'
    BY <1>1, <1>3, <2>1, <2>8 DEF HomelessFrom
  <2>10. GroupsWatch(next)' /\ (next \in [DOMAIN dfas -> 0 .. Len(target_dfas) + 1])'
    BY <1>1, <1>3, <1>6, <2>5 DEF GroupsWatch
  <2>11. Converging(single, next)'
    BY <1>4, <1>7, <2>7, <2>9, <2>10 DEF Converging
  <2> QED
    BY <1>3, <2>11
<1> QED
  BY <1>9, <1>10

(* A group that ends is one of the target_dfas.                            *)
LEMMA GroupEnds ==
  ASSUME NEW single, NEW home, GivenDfas, Converging(single, home), EndGroup
  PROVE  fpga' = "group" /\ Grouping(single, home)'
<1>1. PICK ds, L, i, A : ds = dfas /\ L = Len(target_dfas) /\ i = big_i /\ A = dfa
  OBVIOUS
<1>2. /\ UNCHANGED <<dfas, tem_lis, converged>>
      /\ target_dfas' = Append(target_dfas, A) /\ big_i' = i + 1 /\ fpga' = "group"
  BY <1>1 DEF EndGroup, groupVars
<1>3. /\ IsSequence(target_dfas)' /\ L \in Nat /\ Len(target_dfas)' = L + 1
      /\ \A m \in 1 .. L : target_dfas'[m] = target_dfas[m]
      /\ target_dfas'[L + 1] = A
  BY <1>1, <1>2, AppendToSequence DEF Converging, GroupsWatch
<1>4. /\ \A m \in 1 .. L : WatchesSome(target_dfas[m], ds, Members(home, m))
      /\ WatchesSome(A, ds, Members(home, L + 1))
  BY <1>1 DEF Converging, GroupsWatch
<1>5. \A m \in 1 .. L + 1 : WatchesSome(target_dfas'[m], ds, Members(home, m))
  <2>1. \A m \in 1 .. L + 1 : m \in 1 .. L \/ m = L + 1
    BY <1>3
  <2> QED
    BY <1>3, <1>4, <2>1
<1>6. GroupsWatch(home)'
  BY <1>1, <1>2, <1>3, <1>5 DEF GroupsWatch
<1>7. SinglesWatch(single)'
  BY <1>2 DEF Converging, SinglesWatch
<1>8. HomelessFrom(single, home, big_i)' /\ (big_i \in Nat \ {0})'
  BY <1>1, <1>2 DEF Converging, HomelessFrom
<1>9. (home \in [DOMAIN dfas -> 0 .. Len(target_dfas)])'
  BY <1>1, <1>2, <1>3 DEF Converging
<1> QED
  BY <1>2, <1>6, <1>7, <1>8, <1>9 DEF Grouping

-----------------------------------------------------------------------------
(***************************************************************************)
(* Compiling: every expression that fits gets an automaton of its own.     *)
(***************************************************************************)

(* The DFAs that fit are some of those that are given, one after another.  *)
LEMMA ThoseThatFitAreGiven ==
  ASSUME dfas \in Lists
  PROVE  \E n \in Nat :
           /\ DOMAIN ThoseThatFit = 1 .. n /\ Len(ThoseThatFit) = n
           /\ \A e \in 1 .. n : IsGiven(ThoseThatFit[e]) /\ bram_compatible(ThoseThatFit[e])
<1> DEFINE fit == {e \in DOMAIN dfas : bram_compatible(dfas[e])}
           lower == [e \in fit |-> {d \in fit : d < e}]
           N == Cardinality(fit)
<1>1. /\ dfas \in Seq({dfas[e] : e \in DOMAIN dfas})
      /\ \A e \in DOMAIN dfas : IsGiven(dfas[e])
  BY ListsAssumption DEF IsGiven
<1>2. /\ Len(dfas) \in Nat /\ DOMAIN dfas = 1 .. Len(dfas)
  <2>1. PICK S : S = {dfas[e] : e \in DOMAIN dfas}
    OBVIOUS
  <2>2. dfas \in Seq(S)
    BY <1>1, <2>1
  <2> QED
    BY <2>2
<1>3. IsFiniteSet(DOMAIN dfas)
  BY <1>2, FS_Interval
<1>4. IsFiniteSet(fit) /\ fit \in SUBSET Nat
  <2>1. fit \in SUBSET DOMAIN dfas
    OBVIOUS
  <2>2. DOMAIN dfas \in SUBSET Nat
    BY <1>2
  <2> HIDE DEF fit
  <2> QED
    BY <1>3, <2>1, <2>2, FS_Subset
<1> HIDE DEF fit
<1>5. /\ lower \in [fit -> SUBSET fit]
      /\ \A s \in fit : s \notin lower[s]
      /\ \A s, t \in fit : s = t \/ s \in lower[t] \/ t \in lower[s]
      /\ \A s, t \in fit : s \in lower[t] => lower[s] \subseteq lower[t]
  <2>1. lower \in [fit -> SUBSET fit]
    OBVIOUS
  <2>2. \A s, t \in fit : s \in lower[t] <=> s < t
    OBVIOUS
  <2>3. \A s, t \in fit : (s = t \/ s < t \/ t < s) /\ ~ (s < s)
    BY <1>4
  <2>4. \A s, t, u \in fit : u < s /\ s < t => u < t
    BY <1>4
  <2> HIDE DEF lower
  <2>5. ASSUME NEW s \in fit, NEW t \in fit, s \in lower[t]
        PROVE  lower[s] \subseteq lower[t]
    BY <2>1, <2>2, <2>4, <2>5
  <2> QED
    BY <2>1, <2>2, <2>3, <2>5
<1>6. N \in Nat /\ \A k \in 0 .. N - 1 : \E s \in fit : Cardinality(lower[s]) = k
  <2> HIDE DEF lower
  <2>1. PICK f : f = lower
    OBVIOUS
  <2>3. PICK T : T = fit
    OBVIOUS
  <2>5. f \in [T -> SUBSET T] /\ IsFiniteSet(T)
    BY <1>4, <1>5, <2>1, <2>3
  <2>2. /\ \A s \in T : s \notin f[s]
        /\ \A s, t \in T : s = t \/ s \in f[t] \/ t \in f[s]
        /\ \A s, t \in T : s \in f[t] => f[s] \subseteq f[t]
    BY <1>5, <2>1, <2>3
  <2>4. /\ Cardinality(T) \in Nat
        /\ \A s \in T : Cardinality(f[s]) \in 0 .. Cardinality(T) - 1
        /\ \A s, t \in T : Cardinality(f[s]) = Cardinality(f[t]) => s = t
        /\ \A k \in 0 .. Cardinality(T) - 1 : \E s \in T : Cardinality(f[s]) = k
    BY <2>2, <2>5, OrderNumbers
  <2> QED
    BY <2>1, <2>3, <2>4
<1> DEFINE Nth(n) == CHOOSE e \in fit : Cardinality({d \in fit : d < e}) = n - 1
<1>7. \A n \in 1 .. N : Nth(n) \in fit
  <2> SUFFICES ASSUME NEW n \in 1 .. N PROVE Nth(n) \in fit
    OBVIOUS
  <2>1. n - 1 \in 0 .. N - 1
    BY <1>6
  <2>2. PICK s \in fit : Cardinality(lower[s]) = n - 1
    BY <1>6, <2>1
  <2>3. Cardinality({d \in fit : d < s}) = n - 1
    BY <2>2
  <2> QED
    BY <2>3
<1> HIDE DEF lower, N
<1>8. ThoseThatFit = [n \in 1 .. N |-> dfas[Nth(n)]]
  BY DEF ThoseThatFit, fit, N
<1> HIDE DEF Nth
<1>9. DOMAIN ThoseThatFit = 1 .. N /\ \A n \in 1 .. N : ThoseThatFit[n] = dfas[Nth(n)]
  BY <1>8
<1>10. Len(ThoseThatFit) = N
  <2>1. ThoseThatFit = [n \in 1 .. N |-> ThoseThatFit[n]]
    BY <1>8
  <2> QED
    BY <1>6, <1>9, <2>1, TabulatedIsSequence
<1>11. \A n \in 1 .. N : IsGiven(dfas[Nth(n)]) /\ bram_compatible(dfas[Nth(n)])
  BY <1>1, <1>7 DEF fit
<1> QED
  BY <1>6, <1>9, <1>10, <1>11

(* The rules do not change how large an automaton is.                      *)
LEMMA RulesTakeNoRoom ==
  ASSUME NEW D, NEW e
  PROVE  small_enough(init_accept_rules(Reduced(FromDfa(D)), e))
           <=> small_enough(Reduced(FromDfa(D)))
<1> DEFINE F == FromDfa(D)
           R == Reduced(F)
           A == init_accept_rules(R, e)
<1>1. DOMAIN R = {"size", "table", "is_accept", "accept_list", "dead_state"}
  BY DEF Reduced
<1> HIDE DEF R
<1>2. A.size = R.size /\ A.table = R.table
  BY <1>1 DEF init_accept_rules
<1> HIDE DEF A
<1>3. StatesOf(A) = StatesOf(R) /\ \A s : is_bigstate(A, s) <=> is_bigstate(R, s)
  BY <1>2 DEF StatesOf, is_bigstate, Targets
<1>4. get_large_states_num(A) = get_large_states_num(R)
  BY <1>3 DEF get_large_states_num
<1>5. small_enough(A) <=> small_enough(R)
  BY <1>2, <1>4 DEF small_enough
<1> QED
  BY <1>5 DEF A, R

(* Sorted, every automaton still watches an expression of its own.         *)
LEMMA CompileStarts ==
  ASSUME dfas \in Lists, NothingDone, Compile
  PROVE  fpga' = "group" /\ GivenDfas' /\ \E single, home : Grouping(single, home)'
<1>1. PICK ds : ds = ThoseThatFit
  OBVIOUS
<1>2. PICK n \in Nat : /\ DOMAIN ds = 1 .. n /\ Len(ds) = n
                       /\ \A e \in 1 .. n : IsGiven(ds[e]) /\ bram_compatible(ds[e])
  BY <1>1, ThoseThatFitAreGiven
<1>3. IsGivenList(ds)
  BY <1>2 DEF IsGivenList
<1>4. /\ dfas' = ds /\ fpga' = "group"
      /\ UNCHANGED <<converged, big_i, target_dfas>>
  BY <1>1 DEF Compile
<1>5. GivenDfas'
  BY <1>2, <1>3, <1>4 DEF GivenDfas
<1> DEFINE Fb(e) == init_accept_rules(Reduced(FromDfa(ds[e])), e - 1)
           fbs == [e \in DOMAIN ds |-> Fb(e)]
<1>6. \A e \in DOMAIN ds : WatchesSome(Fb(e), ds, {e}) /\ small_enough(Fb(e))
  <2> SUFFICES ASSUME NEW e \in DOMAIN ds
               PROVE  WatchesSome(Fb(e), ds, {e}) /\ small_enough(Fb(e))
    OBVIOUS
  <2>1. e \in Int
    BY <1>2
  <2>2. WatchesSome(Fb(e), ds, {e})
    BY <1>3, <2>1, CompiledWatches
  <2>3. small_enough(Fb(e))
    BY <1>2, RulesTakeNoRoom DEF bram_compatible
  <2> QED
    BY <2>2, <2>3
<1> HIDE DEF Fb
<1>7. tem_lis' \in LargestFirst(fbs)
  BY <1>1 DEF Compile, Fb
<1>8. PICK perm \in Bijection(DOMAIN fbs, DOMAIN fbs) :
        tem_lis' = [k \in DOMAIN fbs |-> fbs[perm[k]]]
  BY <1>7 DEF LargestFirst
<1>9. /\ perm \in [DOMAIN ds -> DOMAIN ds]
      /\ \A k, l \in DOMAIN ds : perm[k] = perm[l] => k = l
      /\ \A e \in DOMAIN ds : \E k \in DOMAIN ds : perm[k] = e
  <2>1. PICK D : D = DOMAIN ds
    OBVIOUS
  <2>2. perm \in Bijection(D, D)
    BY <1>8, <2>1
  <2>3. /\ perm \in [D -> D]
        /\ \A k, l \in D : perm[k] = perm[l] => k = l
        /\ \A e \in D : \E k \in D : perm[k] = e
    BY <2>2 DEF Bijection, Injection, Surjection, IsInjective
  <2> QED
    BY <2>1, <2>3
<1>10. DOMAIN tem_lis' = DOMAIN ds /\ \A k \in DOMAIN ds : tem_lis'[k] = Fb(perm[k])
  BY <1>8, <1>9
<1>11. IsSequence(tem_lis)' /\ Len(tem_lis') = n
  <2>1. PICK t : t = tem_lis'
    OBVIOUS
  <2>2. DOMAIN t = 1 .. n /\ t = [k \in 1 .. n |-> t[k]]
    BY <1>2, <1>8, <2>1
  <2>3. IsSequence(t) /\ Len(t) = n
    BY <2>2, TabulatedIsSequence
  <2> QED
    BY <2>1, <2>3
<1>12. SinglesWatch(perm)'
  <2>1. \A k \in DOMAIN ds : /\ WatchesSome(tem_lis'[k], ds, {perm[k]})
                            /\ small_enough(tem_lis'[k])
    BY <1>6, <1>9, <1>10
  <2>2. Len(tem_lis') = Len(dfas')
    BY <1>2, <1>4, <1>11
  <2> QED
    BY <1>4, <1>9, <1>11, <2>1, <2>2 DEF SinglesWatch
<1>13. PICK home : home = [e \in DOMAIN ds |-> 0]
  OBVIOUS
<1>14. /\ target_dfas' = <<>> /\ converged' = {} /\ big_i' = 1
  BY <1>4 DEF NothingDone
<1>15. GroupsWatch(home)' /\ (home \in [DOMAIN dfas -> 0 .. Len(target_dfas)])'
  <2>1. IsSequence(<<>>) /\ Len(<<>>) = 0
    <3>1. PICK s : s = <<>>
      OBVIOUS
    <3>2. s \in Seq({}) /\ Len(s) = 0
      BY <3>1
    <3> QED
      BY <3>1, <3>2 DEF IsSequence
  <2>2. 1 .. 0 = {} /\ 0 \in 0 .. 0
    OBVIOUS
  <2>3. home \in [DOMAIN ds -> 0 .. 0]
    BY <1>13, <2>2
  <2> QED
    BY <1>4, <1>14, <2>1, <2>2, <2>3 DEF GroupsWatch
<1>16. HomelessFrom(perm, home, big_i)' /\ (big_i \in Nat \ {0})'
  <2>1. \A k \in DOMAIN ds : home[perm[k]] = 0 /\ k \notin {} /\ 1 <= k
    BY <1>2, <1>9, <1>13
  <2> QED
    BY <1>4, <1>14, <2>1 DEF HomelessFrom
<1>17. Grouping(perm, home)'
  BY <1>12, <1>15, <1>16 DEF Grouping
<1> QED
  BY <1>4, <1>5, <1>17

-----------------------------------------------------------------------------
(***************************************************************************)
(* The files and the blocks of memory.                                     *)
(***************************************************************************)

(* A number below w added to a multiple of w tells of both.                *)
LEMMA SumsDiffer ==
  ASSUME NEW w \in Nat \ {0}, NEW i \in Nat, NEW j \in Nat,
         NEW a \in 0 .. w - 1, NEW b \in 0 .. w - 1, a + i * w = b + j * w
  PROVE  i = j /\ a = b
<1>1. (w * i + a) \div w = i /\ (w * i + a) % w = a
  BY DivideSum
<1>2. (w * j + b) \div w = j /\ (w * j + b) % w = b
  BY DivideSum
<1>3. w * i + a = a + i * w /\ w * j + b = b + j * w
  OBVIOUS
<1> QED
  BY <1>1, <1>2, <1>3

(* The images and the lists that have been written are those of the groups.*)
KeyOf(A, i, s) == i * MAX_STATES_NUMBER + NewNumberOf(A, s)

Written ==
  /\ IsSequence(stt) /\ Len(stt) <= Len(target_dfas)
  /\ \A i \in 1 .. Len(stt) :
       /\ ~ CannotBeWritten(target_dfas[i]) /\ stt[i] = ImageOf(target_dfas[i])
       /\ \A s \in target_dfas[i].is_accept :
            LET key == KeyOf(target_dfas[i], i - 1, s)
            IN key \in DOMAIN mapping_table /\ mapping_table[key] = target_dfas[i].accept_list[s]

(* More groups change nothing of what is written.                          *)
LEMMA WrittenStays ==
  ASSUME Written, IsSequence(target_dfas), UNCHANGED <<stt, mapping_table>>,
         UNCHANGED target_dfas \/ \E A : target_dfas' = Append(target_dfas, A)
  PROVE  Written'
<1>1. CASE UNCHANGED target_dfas
  BY <1>1 DEF Written
<1>2. ASSUME NEW A, target_dfas' = Append(target_dfas, A)
      PROVE  Written'
  <2>1. PICK old, L, m : old = target_dfas /\ L = Len(target_dfas) /\ m = Len(stt)
    OBVIOUS
  <2>2. /\ L \in Nat /\ Len(target_dfas') = L + 1
        /\ \A i \in 1 .. L : target_dfas'[i] = target_dfas[i]
    BY <1>2, <2>1, AppendToSequence
  <2>3. m \in Nat /\ m <= L /\ IsSequence(stt)
    BY <2>1, AppendToSequence DEF Written
  <2>4. Len(stt') = m /\ m <= L + 1 /\ \A i \in 1 .. m : target_dfas'[i] = target_dfas[i]
    BY <2>1, <2>2, <2>3
  <2> QED
    BY <2>1, <2>2, <2>3, <2>4 DEF Written
<1> QED
  BY <1>1, <1>2

(* Every accepting state has a key of its own.                             *)
LEMMA KeysDiffer ==
  ASSUME NEW A, IsNibbleDfa(A), ~ CannotBeWritten(A), NEW s \in StatesOf(A), NEW i \in Nat,
         NEW B, IsNibbleDfa(B), ~ CannotBeWritten(B), NEW t \in StatesOf(B), NEW j \in Nat,
         KeyOf(A, i, s) = KeyOf(B, j, t)
  PROVE  i = j /\ NewNumberOf(A, s) = NewNumberOf(B, t)
<1>1. PICK w : w = MAX_STATES_NUMBER
  OBVIOUS
<1>2. w \in Nat \ {0}
  BY <1>1, FbAssumption
<1>3. A.size \in Nat \ {0} /\ B.size \in Nat \ {0} /\ A.size <= w /\ B.size <= w
  BY <1>1 DEF IsNibbleDfa, CannotBeWritten, small_enough
<1>4. NewNumberOf(A, s) \in StatesOf(A) /\ NewNumberOf(B, t) \in StatesOf(B)
  BY <1>3, NumbersAreNew
<1>5. PICK a, b : a = NewNumberOf(A, s) /\ b = NewNumberOf(B, t)
  OBVIOUS
<1>6. a \in 0 .. w - 1 /\ b \in 0 .. w - 1
  BY <1>2, <1>3, <1>4, <1>5 DEF StatesOf
<1>7. i * w + a = j * w + b
  BY <1>1, <1>5 DEF KeyOf
<1>8. a + i * w = b + j * w
  BY <1>2, <1>6, <1>7
<1>9. i = j /\ a = b
  BY <1>2, <1>6, <1>8, SumsDiffer
<1> QED
  BY <1>5, <1>9

(* The lists of a block are added to those of the blocks before.           *)
LEMMA ToBramWrites ==
  ASSUME NEW home, GroupsWatch(home), Written, ToBram
  PROVE  fpga' = "crashed" \/ (Written' /\ fpga' = "group")
<1>1. PICK T, L, m : T = target_dfas /\ L = Len(target_dfas) /\ m = Len(stt)
  OBVIOUS
<1>2. /\ L \in Nat /\ m \in Nat /\ m < L /\ IsSequence(stt)
      /\ UNCHANGED target_dfas
  BY <1>1, AppendToSequence DEF GroupsWatch, Written, ToBram
<1>3. PICK A : A = T[m + 1]
  OBVIOUS
<1>4. SUFFICES ASSUME fpga' # "crashed" PROVE Written' /\ fpga' = "group"
  OBVIOUS
<1>5. /\ ~ CannotBeWritten(A)
      /\ stt' = Append(stt, ImageOf(A))
      /\ mapping_table' = [key \in KeysOf(A, m) \cup DOMAIN mapping_table |->
                             IF key \in KeysOf(A, m) THEN ListOfKey(A, m, key)
                                                     ELSE mapping_table[key]]
      /\ fpga' = "group"
  BY <1>1, <1>3, <1>4 DEF ToBram
<1>6. \A i \in 1 .. L : IsNibbleDfa(T[i])
  BY <1>1 DEF GroupsWatch, WatchesSome
<1>7. /\ m + 1 \in 1 .. L /\ IsNibbleDfa(A)
      /\ \A i \in 1 .. m : i \in 1 .. L /\ i - 1 \in Nat /\ i - 1 # m
      /\ \A i \in 1 .. m + 1 : i \in 1 .. m \/ i = m + 1
      /\ m + 1 - 1 = m
  BY <1>2, <1>3, <1>6
<1>8. \A i \in 1 .. m :
        /\ ~ CannotBeWritten(T[i]) /\ stt[i] = ImageOf(T[i])
        /\ \A s \in T[i].is_accept :
             /\ KeyOf(T[i], i - 1, s) \in DOMAIN mapping_table
             /\ mapping_table[KeyOf(T[i], i - 1, s)] = T[i].accept_list[s]
  BY <1>1 DEF Written
<1>9. ASSUME NEW i \in 1 .. m, NEW s \in T[i].is_accept
      PROVE  /\ KeyOf(T[i], i - 1, s) \in DOMAIN mapping_table'
             /\ mapping_table'[KeyOf(T[i], i - 1, s)] = T[i].accept_list[s]
  <2>1. PICK key : key = KeyOf(T[i], i - 1, s)
    OBVIOUS
  <2>2. /\ IsNibbleDfa(T[i]) /\ ~ CannotBeWritten(T[i]) /\ s \in StatesOf(T[i])
        /\ i - 1 \in Nat /\ i - 1 # m
    BY <1>6, <1>7, <1>8 DEF IsNibbleDfa
  <2>3. ASSUME NEW t \in A.is_accept
        PROVE  key # KeyOf(A, m, t)
    <3>1. t \in StatesOf(A)
      BY <1>7 DEF IsNibbleDfa
    <3> QED
      BY <1>2, <1>5, <1>7, <2>1, <2>2, <3>1, KeysDiffer
  <2>4. key \notin KeysOf(A, m)
    BY <2>3 DEF KeysOf, KeyOf
  <2>5. key \in DOMAIN mapping_table /\ mapping_table[key] = T[i].accept_list[s]
    BY <1>8, <2>1
  <2>6. key \in DOMAIN mapping_table' /\ mapping_table'[key] = mapping_table[key]
    BY <1>5, <2>4, <2>5
  <2> QED
    BY <2>1, <2>5, <2>6
<1>10. ASSUME NEW s \in A.is_accept
       PROVE  /\ KeyOf(A, m, s) \in DOMAIN mapping_table'
              /\ mapping_table'[KeyOf(A, m, s)] = A.accept_list[s]
  <2>1. PICK key, a : key = KeyOf(A, m, s) /\ a = NewNumberOf(A, s)
    OBVIOUS
  <2>2. key \in KeysOf(A, m)
    BY <2>1 DEF KeysOf, KeyOf
  <2>3. key \in DOMAIN mapping_table' /\ mapping_table'[key] = ListOfKey(A, m, key)
    BY <1>5, <2>2
  <2>4. s \in StatesOf(A) /\ A.size \in Nat \ {0}
    BY <1>7 DEF IsNibbleDfa
  <2>5. /\ a \in StatesOf(A)
        /\ \A q, t \in StatesOf(A) : NewNumberOf(A, q) = NewNumberOf(A, t) => q = t
    BY <2>1, <2>4, NumbersAreNew
  <2>6. OldState(A, a) = s
    BY <2>1, <2>4, <2>5 DEF OldState
  <2>7. key - m * MAX_STATES_NUMBER = a
    <3>1. a \in Int /\ m \in Int /\ MAX_STATES_NUMBER \in Int
      BY <1>2, <2>4, <2>5, FbAssumption DEF StatesOf
    <3>2. key = m * MAX_STATES_NUMBER + a /\ m * MAX_STATES_NUMBER \in Int
      BY <2>1, <3>1 DEF KeyOf
    <3> QED
      BY <3>1, <3>2
  <2> QED
    BY <2>1, <2>3, <2>6, <2>7 DEF ListOfKey
<1>11. /\ IsSequence(stt') /\ Len(stt') = m + 1
       /\ \A i \in 1 .. m : stt'[i] = stt[i]
       /\ stt'[m + 1] = ImageOf(A)
  BY <1>1, <1>2, <1>5, AppendToSequence
<1>12. ASSUME NEW i \in 1 .. m + 1
       PROVE  /\ ~ CannotBeWritten(T[i]) /\ stt'[i] = ImageOf(T[i])
              /\ \A s \in T[i].is_accept :
                   /\ KeyOf(T[i], i - 1, s) \in DOMAIN mapping_table'
                   /\ mapping_table'[KeyOf(T[i], i - 1, s)] = T[i].accept_list[s]
  <2>1. CASE i \in 1 .. m
    BY <1>8, <1>9, <1>11, <2>1
  <2>2. CASE i = m + 1
    <3>1. i - 1 = m
      BY <1>2, <2>2
    <3>2. T[i] = A
      BY <1>3, <2>2
    <3> DEFINE P(X, k, image) ==
          /\ ~ CannotBeWritten(X) /\ image = ImageOf(X)
          /\ \A s \in X.is_accept :
               /\ KeyOf(X, k, s) \in DOMAIN mapping_table'
               /\ mapping_table'[KeyOf(X, k, s)] = X.accept_list[s]
    <3>3. P(A, m, stt'[m + 1])
      BY <1>5, <1>10, <1>11, Zenon
    <3> HIDE DEF P
    <3>4. P(T[i], i - 1, stt'[i])
      BY <2>2, <3>1, <3>2, <3>3
    <3> QED
      BY <3>4, Zenon DEF P
  <2> QED
    BY <1>7, <2>1, <2>2
<1>13. Len(stt') <= Len(target_dfas')
  BY <1>1, <1>2, <1>11
<1>14. Written'
  BY <1>1, <1>2, <1>11, <1>12, <1>13 DEF Written
<1> QED
  BY <1>5, <1>14

-----------------------------------------------------------------------------
(***************************************************************************)
(* The copies of the blocks, and what is read from one.                    *)
(***************************************************************************)

(* Every group has been written, and every expression is in one.           *)
AllWritten(home) ==
  /\ GroupsWatch(home) /\ Written /\ Len(stt) = Len(target_dfas)
  /\ home \in [DOMAIN dfas -> 1 .. Len(target_dfas)]
  /\ DOMAIN loaded = DOMAIN mapping_table

(* Block i of the copy that is watched holds image i.                      *)
CopyIsWhole == \A i \in 1 .. Len(stt) : brams[BlockAt(i - 1, copy)] = i - 1

(* State s of an automaton is where the DFAs have led it.                  *)
StandsAt(A, ds, exprs, st, s) ==
  /\ s \in StatesOf(A) /\ st \in Positions(ds)
  /\ \E whole, half : Watches(A, ds, exprs, whole, half) /\ <<s, st>> \in whole

(* Every block stands where its expressions are.                           *)
Reading(home) ==
  /\ DOMAIN words = 0 .. Len(stt) - 1 /\ states \in Positions(dfas) /\ ~ early
  /\ \A i \in 1 .. Len(stt) : \E s :
       /\ StandsAt(target_dfas[i], dfas, Members(home, i), states, s)
       /\ words[i - 1][1] = NewNumberOf(target_dfas[i], s)
       /\ fpga = "running" => words[i - 1] = WordOf(target_dfas[i], s)

(* C copies of L blocks, each in units of its own, fit and are apart.      *)
AreApart(L, B, U, need, C) ==
  \A i \in 0 .. L - 1, k \in 0 .. C - 1 :
    /\ i + k * need * B \in 0 .. B * U - 1
    /\ \A j \in 0 .. L - 1, d \in 0 .. C - 1 :
         j + d * need * B = i + k * need * B => j = i

(* Rounded up, the blocks fit into units; copies of them are apart.        *)
LEMMA CopiesAreApart ==
  ASSUME NEW L \in Nat \ {0}, NEW B \in Nat \ {0}, NEW U \in Nat \ {0}, L <= B * U,
         NEW need, need = (IF L % B = 0 THEN L \div B ELSE L \div B + 1),
         NEW C, C = U \div need
  PROVE  need \in Nat \ {0} /\ C \in Nat \ {0} /\ AreApart(L, B, U, need, C)
<1>1. PICK q, r : q = L \div B /\ r = L % B
  OBVIOUS
<1>2. q \in Nat /\ r \in 0 .. B - 1 /\ L = B * q + r
  BY <1>1, DivideAny
<1>3. need \in Nat \ {0} /\ need <= q + 1 /\ L <= need * B /\ (need = q \/ r # 0)
  <2>1. CASE r = 0
    <3>1. need = q /\ L = B * q
      BY <1>1, <1>2, <2>1
    <3>2. q # 0
      BY <1>2, <3>1
    <3> QED
      BY <1>2, <3>1, <3>2
  <2>2. CASE r # 0
    <3>1. need = q + 1
      BY <1>1, <2>2
    <3>2. need * B = B * q + B
      BY <1>2, <3>1
    <3> QED
      BY <1>2, <2>2, <3>1, <3>2
  <2> QED
    BY <2>1, <2>2
<1>4. need <= U
  <2>1. SUFFICES ASSUME U < need PROVE FALSE
    BY <1>3
  <2>2. U <= q
    BY <1>2, <1>3, <2>1
  <2>3. B * U <= B * q
    BY <1>2, <2>2
  <2>4. B * q <= L
    BY <1>2
  <2>5. L = B * q /\ r = 0
    BY <1>2, <2>3, <2>4
  <2>6. need = q
    BY <1>3, <2>5
  <2> QED
    BY <1>2, <2>1, <2>2, <2>3, <2>5, <2>6
<1>6. C \in Nat /\ need * C <= U /\ C # 0
  <2>1. PICK m : m = U % need
    OBVIOUS
  <2>2. C \in Nat /\ m \in 0 .. need - 1 /\ U = need * C + m
    BY <1>3, <2>1, DivideAny
  <2>3. C # 0
    <3>1. SUFFICES ASSUME C = 0 PROVE FALSE
      OBVIOUS
    <3>2. need * C = 0
      BY <1>3, <3>1
    <3> QED
      BY <1>3, <1>4, <2>2, <3>2
  <2> QED
    BY <1>3, <2>2, <2>3
<1>7. PICK W : W = need * B
  OBVIOUS
<1>8. W \in Nat \ {0} /\ L <= W
  BY <1>3, <1>7
<1>9. W * C <= B * U
  <2>1. W * C = B * (need * C)
    BY <1>3, <1>6, <1>7
  <2>2. need * C \in Nat
    BY <1>3, <1>6
  <2> QED
    BY <1>6, <2>1, <2>2
<1>10. ASSUME NEW i \in 0 .. L - 1, NEW k \in 0 .. C - 1
       PROVE  /\ i + k * need * B = i + k * W
              /\ i + k * W \in 0 .. B * U - 1
  <2>1. k * need * B = k * W
    BY <1>3, <1>6, <1>7
  <2>2. k \in Nat /\ k + 1 <= C /\ i \in 0 .. W - 1 /\ i \in Nat
    BY <1>6, <1>8
  <2>3. W * (k + 1) <= W * C
    BY <1>6, <1>8, <2>2
  <2>4. i + k * W < W * (k + 1) /\ i + k * W \in Nat
    BY <1>8, <2>2
  <2>5. W * (k + 1) \in Nat /\ W * C \in Nat /\ B * U \in Nat
    BY <1>6, <1>8, <2>2
  <2> QED
    BY <1>9, <2>1, <2>3, <2>4, <2>5
<1>11. ASSUME NEW i \in 0 .. L - 1, NEW k \in 0 .. C - 1,
              NEW j \in 0 .. L - 1, NEW d \in 0 .. C - 1, j + d * W = i + k * W
       PROVE  j = i
  <2>1. /\ i \in 0 .. W - 1 /\ j \in 0 .. W - 1 /\ k \in Nat /\ d \in Nat
    BY <1>6, <1>8
  <2> QED
    BY <1>8, <1>11, <2>1, SumsDiffer
<1>12. ASSUME NEW i \in 0 .. L - 1, NEW k \in 0 .. C - 1
       PROVE  /\ i + k * need * B \in 0 .. B * U - 1
              /\ \A j \in 0 .. L - 1, d \in 0 .. C - 1 :
                   j + d * need * B = i + k * need * B => j = i
  <2>1. i + k * need * B = i + k * W /\ i + k * W \in 0 .. B * U - 1
    BY <1>10
  <2>2. ASSUME NEW j \in 0 .. L - 1, NEW d \in 0 .. C - 1,
               j + d * need * B = i + k * need * B
        PROVE  j = i
    <3>1. j + d * need * B = j + d * W
      BY <1>10
    <3> QED
      BY <1>11, <2>1, <2>2, <3>1
  <2> QED
    BY <2>1, <2>2
<1> QED
  BY <1>3, <1>6, <1>12 DEF AreApart

(* An image that is alone at a place is found there.                       *)
LEMMA MaxOfOne ==
  ASSUME NEW i \in Nat
  PROVE  Max({i}) = i
<1>1. {i} \in SUBSET (0 .. i) /\ {i} # {}
  OBVIOUS
<1> QED
  BY <1>1, MaxIsMember

(* Every copy of the blocks is whole.                                      *)
LEMMA LoadSttWrites ==
  ASSUME NEW home, AllWritten(home), LoadStt
  PROVE  fpga' = "crashed" \/ (fpga' = "loaded" /\ CopyIsWhole')
<1>1. SUFFICES ASSUME fpga' # "crashed" PROVE fpga' = "loaded" /\ CopyIsWhole'
  OBVIOUS
<1>2. PICK L, B, U, need, C, mine : /\ L = Len(stt) /\ B = BRAM_NUM_SINGLE_UNIT /\ U = UNIT_NUMBER
                              /\ need = need_unit_num /\ C = copy_num /\ mine = copy'
  OBVIOUS
<1>3. /\ L # 0 /\ ~ (L > B * U) /\ mine \in 0 .. C - 1 /\ fpga' = "loaded"
      /\ brams' = [p \in 0 .. B * U - 1 |->
                     IF WrittenTo(p) = {} THEN NO_STATE ELSE Max(WrittenTo(p))]
      /\ UNCHANGED stt
  BY <1>1, <1>2 DEF LoadStt
<1>4. L \in Nat \ {0} /\ B \in Nat \ {0} /\ U \in Nat \ {0}
  <2>1. L \in Nat
    BY <1>2, AppendToSequence DEF AllWritten, Written
  <2> QED
    BY <1>2, <1>3, <2>1, FbAssumption
<1>5. L <= B * U
  <2>1. B * U \in Nat
    BY <1>4
  <2> QED
    BY <1>3, <1>4, <2>1
<1>6. need = (IF L % B = 0 THEN L \div B ELSE L \div B + 1) /\ C = U \div need
  BY <1>2 DEF need_unit_num, copy_num
<1>7. \A i \in 0 .. L - 1, k \in 0 .. C - 1 :
        /\ i + k * need * B \in 0 .. B * U - 1
        /\ \A j \in 0 .. L - 1, d \in 0 .. C - 1 :
             j + d * need * B = i + k * need * B => j = i
  <2>1. AreApart(L, B, U, need, C)
    BY <1>4, <1>5, <1>6, CopiesAreApart
  <2> QED
    BY <2>1 DEF AreApart
<1>8. \A i, k : BlockAt(i, k) = i + k * need * B
  BY <1>2 DEF BlockAt
<1>9. ASSUME NEW i \in 0 .. L - 1
      PROVE  brams'[BlockAt(i, mine)] = i
  <2>1. PICK p : p = BlockAt(i, mine)
    OBVIOUS
  <2>2. p \in 0 .. B * U - 1
    BY <1>3, <1>6, <1>7, <1>8, <2>1
  <2>3. \A j \in 0 .. L - 1, d \in 0 .. C - 1 : BlockAt(j, d) = p => j = i
    BY <1>3, <1>6, <1>7, <1>8, <2>1
  <2>4. WrittenTo(p) = {i}
    BY <1>2, <1>3, <2>1, <2>3 DEF WrittenTo
  <2>5. Max({i}) = i
    BY <1>4, MaxOfOne
  <2> QED
    BY <1>3, <2>1, <2>2, <2>4, <2>5
<1>10. BlockAt(0, 0)' = BlockAt(0, 0) /\ need_unit_num' = need
  BY <1>2, <1>3 DEF BlockAt, need_unit_num
<1>11. \A i : BlockAt(i, copy)' = BlockAt(i, mine)
  BY <1>2, <1>10 DEF BlockAt
<1>12. ASSUME NEW i \in 1 .. L
       PROVE  brams'[BlockAt(i - 1, copy)'] = i - 1
  <2>1. i - 1 \in 0 .. L - 1
    BY <1>4
  <2> QED
    BY <1>9, <1>11, <2>1
<1>13. CopyIsWhole'
  BY <1>2, <1>3, <1>12 DEF CopyIsWhole
<1> QED
  BY <1>3, <1>13

(* A byte, half by half.                                                   *)
LEMMA HalvesAreRead ==
  ASSUME NEW A, IsNibbleDfa(A), ~ CannotBeWritten(A), NEW ds, NEW exprs, NEW st, NEW s,
         StandsAt(A, ds, exprs, st, s), IsGivenList(ds), NEW high \in Nibbles, NEW low \in Nibbles,
         NEW word, word = WordRead(ImageOf(A), NewNumberOf(A, s), high)
  PROVE  /\ ~ word[2]
         /\ \E t : /\ StandsAt(A, ds, exprs, After(ds, st, high, low), t)
                   /\ WordRead(ImageOf(A), word[1], low) = WordOf(A, t)
<1>1. PICK whole, half : Watches(A, ds, exprs, whole, half) /\ <<s, st>> \in whole
  BY DEF StandsAt
<1>2. s \in StatesOf(A) /\ st \in Positions(ds)
  BY DEF StandsAt
<1>3. PICK h : h = A.table[s][high]
  OBVIOUS
<1>4. h \in StatesOf(A) /\ word = WordOf(A, h)
  BY <1>2, <1>3, ImageIsRead
<1>5. <<h, st, high>> \in half
  BY <1>1, <1>2, <1>3 DEF Watches
<1>6. PICK t : t = A.table[h][low]
  OBVIOUS
<1>7. h \notin A.is_accept /\ <<t, After(ds, st, high, low)>> \in whole
  BY <1>1, <1>2, <1>4, <1>5, <1>6 DEF Watches
<1>8. word[1] = NewNumberOf(A, h) /\ word[2] = (h \in A.is_accept)
  BY <1>4 DEF WordOf
<1>9. t \in StatesOf(A) /\ WordRead(ImageOf(A), word[1], low) = WordOf(A, t)
  BY <1>4, <1>6, <1>8, ImageIsRead
<1>10. After(ds, st, high, low) \in Positions(ds)
  BY <1>2, PositionsAreKept
<1>11. StandsAt(A, ds, exprs, After(ds, st, high, low), t)
  BY <1>1, <1>7, <1>9, <1>10 DEF StandsAt
<1> QED
  BY <1>7, <1>8, <1>9, <1>11

-----------------------------------------------------------------------------
(* The blocks begin where the DFAs do.                                     *)
LEMMA LoadSttBegins ==
  ASSUME NEW home, GivenDfas, AllWritten(home), LoadStt, fpga' = "loaded"
  PROVE  GivenDfas' /\ AllWritten(home)' /\ Reading(home)'
<1>1. PICK ds, T, L : ds = dfas /\ T = target_dfas /\ L = Len(stt)
  OBVIOUS
<1>2. /\ states' = [e \in DOMAIN ds |-> 0] /\ ~ early'
      /\ words' = [i \in 0 .. L - 1 |-> <<StartOf(i), FALSE>>]
      /\ UNCHANGED <<dfas, target_dfas, stt, mapping_table, loaded>>
  BY <1>1 DEF LoadStt
<1>3. GivenDfas'
  BY <1>2 DEF GivenDfas
<1>4. AllWritten(home)'
  BY <1>2 DEF AllWritten, GroupsWatch, Written
<1>5. /\ L \in Nat /\ IsGivenList(ds)
      /\ \A i \in 1 .. L : WatchesSome(T[i], ds, Members(home, i))
  BY <1>1, AppendToSequence DEF AllWritten, Written, GroupsWatch, GivenDfas
<1>6. states' = Beginning(ds) /\ Beginning(ds) \in Positions(ds)
  BY <1>2, <1>5, PositionsAreKept DEF Beginning
<1>7. ASSUME NEW i \in 1 .. L
      PROVE  /\ StandsAt(T[i], ds, Members(home, i), states', 0)
             /\ words'[i - 1][1] = NewNumberOf(T[i], 0)
  <2>1. PICK whole, half : Watches(T[i], ds, Members(home, i), whole, half)
    BY <1>5 DEF WatchesSome
  <2>2. <<0, Beginning(ds)>> \in whole
    BY <2>1 DEF Watches
  <2>3. 0 \in StatesOf(T[i])
    BY <1>5 DEF WatchesSome, IsNibbleDfa, StatesOf
  <2>4. StandsAt(T[i], ds, Members(home, i), states', 0)
    BY <1>6, <2>1, <2>2, <2>3 DEF StandsAt
  <2>5. i - 1 \in 0 .. L - 1 /\ i - 1 + 1 = i
    BY <1>5
  <2>6. words'[i - 1] = <<StartOf(i - 1), FALSE>>
    BY <1>2, <2>5
  <2>7. StartOf(i - 1) = NewNumberOf(T[i], 0)
    BY <1>1, <2>5 DEF StartOf
  <2> QED
    BY <2>4, <2>6, <2>7
<1>8. \A i \in 1 .. L : \E s :
        /\ StandsAt(T[i], ds, Members(home, i), states', s)
        /\ words'[i - 1][1] = NewNumberOf(T[i], s)
        /\ fpga' = "running" => words'[i - 1] = WordOf(T[i], s)
  BY <1>7
<1>9. DOMAIN words' = 0 .. L - 1
  BY <1>2
<1>10. Reading(home)'
  BY <1>1, <1>2, <1>6, <1>8, <1>9 DEF Reading
<1> QED
  BY <1>3, <1>4, <1>10

(* The blocks go where the DFAs go.                                        *)
LEMMA ReadByteFollows ==
  ASSUME NEW home, GivenDfas, AllWritten(home), CopyIsWhole, Reading(home),
         NEW high \in Nibbles, NEW low \in Nibbles, ReadByte(high, low)
  PROVE  /\ fpga' = "running"
         /\ GivenDfas' /\ AllWritten(home)' /\ CopyIsWhole' /\ Reading(home)'
<1>1. PICK ds, T, L, st : ds = dfas /\ T = target_dfas /\ L = Len(stt) /\ st = states
  OBVIOUS
<1>2. /\ states' = [e \in DOMAIN ds |-> ds[e].table[st[e]][Byte(high, low)]]
      /\ words' = [i \in DOMAIN words |-> WordRead(ImageAt(i), HalfRead(i, high)[1], low)]
      /\ early' = \E i \in DOMAIN words : HalfRead(i, high)[2]
      /\ fpga' = "running"
      /\ UNCHANGED <<dfas, target_dfas, stt, mapping_table, brams, loaded, copy>>
  BY <1>1 DEF ReadByte
<1>3. GivenDfas'
  BY <1>2 DEF GivenDfas
<1>4. AllWritten(home)'
  BY <1>2 DEF AllWritten, GroupsWatch, Written
<1>5. CopyIsWhole'
  BY <1>2 DEF CopyIsWhole, BlockAt, need_unit_num
<1>6. /\ L \in Nat /\ IsGivenList(ds) /\ Len(T) = L
      /\ \A i \in 1 .. L : IsNibbleDfa(T[i])
  BY <1>1, AppendToSequence DEF AllWritten, Written, GroupsWatch, GivenDfas, WatchesSome
<1>7. \A i \in 1 .. L : ~ CannotBeWritten(T[i]) /\ stt[i] = ImageOf(T[i])
  BY <1>1 DEF AllWritten, Written
<1>8. \A i \in 1 .. L : ImageAt(i - 1) = ImageOf(T[i])
  <2> SUFFICES ASSUME NEW i \in 1 .. L PROVE ImageAt(i - 1) = ImageOf(T[i])
    OBVIOUS
  <2>1. brams[BlockAt(i - 1, copy)] = i - 1 /\ i - 1 + 1 = i
    BY <1>1, <1>6 DEF CopyIsWhole
  <2> QED
    BY <1>7, <2>1 DEF ImageAt
<1>9. /\ DOMAIN words = 0 .. L - 1 /\ st \in Positions(ds)
      /\ \A i \in 1 .. L : \E s :
           /\ StandsAt(T[i], ds, Members(home, i), st, s)
           /\ words[i - 1][1] = NewNumberOf(T[i], s)
  BY <1>1 DEF Reading
<1>10. states' = After(ds, st, high, low) /\ After(ds, st, high, low) \in Positions(ds)
  BY <1>2, <1>6, <1>9, PositionsAreKept DEF After
<1>11. ASSUME NEW i \in 1 .. L
       PROVE  /\ ~ HalfRead(i - 1, high)[2]
              /\ \E t : /\ StandsAt(T[i], ds, Members(home, i), states', t)
                        /\ words'[i - 1] = WordOf(T[i], t)
  <2>1. PICK s : /\ StandsAt(T[i], ds, Members(home, i), st, s)
                 /\ words[i - 1][1] = NewNumberOf(T[i], s)
    BY <1>9
  <2>2. PICK word : word = HalfRead(i - 1, high)
    OBVIOUS
  <2>3. word = WordRead(ImageOf(T[i]), NewNumberOf(T[i], s), high)
    BY <1>8, <2>1, <2>2 DEF HalfRead
  <2>4. i - 1 \in DOMAIN words
    BY <1>6, <1>9
  <2>5. words'[i - 1] = WordRead(ImageOf(T[i]), word[1], low)
    BY <1>2, <1>8, <2>2, <2>4
  <2>6. /\ ~ word[2]
        /\ \E t : /\ StandsAt(T[i], ds, Members(home, i), After(ds, st, high, low), t)
                  /\ WordRead(ImageOf(T[i]), word[1], low) = WordOf(T[i], t)
    BY <1>6, <1>7, <2>1, <2>3, HalvesAreRead
  <2> QED
    BY <1>10, <2>2, <2>5, <2>6
<1>12. ~ early'
  <2>1. ASSUME NEW i \in DOMAIN words
        PROVE  ~ HalfRead(i, high)[2]
    <3>1. PICK j : j = i + 1
      OBVIOUS
    <3>2. i \in 0 .. L - 1 /\ L \in Nat
      BY <1>6, <1>9
    <3>3. j \in 1 .. L /\ j - 1 = i
      BY <3>1, <3>2
    <3> QED
      BY <1>11, <3>3
  <2> QED
    BY <1>2, <2>1
<1>13. DOMAIN words' = 0 .. L - 1
  BY <1>2, <1>9
<1>14. \A i \in 1 .. L : \E s :
         /\ StandsAt(T[i], ds, Members(home, i), states', s)
         /\ words'[i - 1][1] = NewNumberOf(T[i], s)
         /\ words'[i - 1] = WordOf(T[i], s)
  <2> SUFFICES ASSUME NEW i \in 1 .. L
               PROVE  \E s : /\ StandsAt(T[i], ds, Members(home, i), states', s)
                             /\ words'[i - 1][1] = NewNumberOf(T[i], s)
                             /\ words'[i - 1] = WordOf(T[i], s)
    OBVIOUS
  <2>1. PICK t : /\ StandsAt(T[i], ds, Members(home, i), states', t)
                 /\ words'[i - 1] = WordOf(T[i], t)
    BY <1>11
  <2>2. words'[i - 1][1] = NewNumberOf(T[i], t)
    BY <2>1 DEF WordOf
  <2> QED
    BY <2>1, <2>2
<1>15. Reading(home)'
  BY <1>1, <1>2, <1>10, <1>12, <1>13, <1>14 DEF Reading
<1> QED
  BY <1>2, <1>3, <1>4, <1>5, <1>15

(* What is reported of an expression that is at home in one group.         *)
LEMMA ReadingReports ==
  ASSUME NEW home, GivenDfas, AllWritten(home), Reading(home), fpga = "running"
  PROVE  FpgaReportsTheRules
<1>1. PICK ds, T, L, st : ds = dfas /\ T = target_dfas /\ L = Len(stt) /\ st = states
  OBVIOUS
<1>2. /\ L \in Nat /\ DOMAIN ds \in SUBSET Int
      /\ home \in [DOMAIN ds -> 1 .. L] /\ st \in Positions(ds)
      /\ DOMAIN words = 0 .. L - 1 /\ ~ early
      /\ DOMAIN loaded = DOMAIN mapping_table
  BY <1>1, AppendToSequence DEF AllWritten, Written, GivenDfas, Reading
<1> DEFINE Ends(i) == Ending(ds, Members(home, i), st)
           Key(i, s) == KeyOf(T[i], i - 1, s)
<1>3. ASSUME NEW i \in 1 .. L
      PROVE  \E s : /\ words[i - 1] = WordOf(T[i], s)
                    /\ s \in T[i].is_accept <=> Ends(i) # {}
                    /\ s \in T[i].is_accept =>
                         /\ Key(i, s) \in DOMAIN mapping_table
                         /\ Enumerates(mapping_table[Key(i, s)], Ends(i))
  <2>1. PICK s : /\ StandsAt(T[i], ds, Members(home, i), st, s)
                 /\ words[i - 1] = WordOf(T[i], s)
    BY <1>1 DEF Reading
  <2>2. PICK whole, half : /\ Watches(T[i], ds, Members(home, i), whole, half)
                           /\ <<s, st>> \in whole /\ s \in StatesOf(T[i])
    BY <2>1 DEF StandsAt
  <2>3. /\ s \in T[i].is_accept <=> Ends(i) # {}
        /\ Enumerates(T[i].accept_list[s], Ends(i))
    BY <1>2, <2>2 DEF Watches
  <2>4. s \in T[i].is_accept => /\ Key(i, s) \in DOMAIN mapping_table
                                /\ mapping_table[Key(i, s)] = T[i].accept_list[s]
    BY <1>1 DEF AllWritten, Written
  <2> QED
    BY <2>1, <2>3, <2>4
<1>4. PICK standing : \A i \in 1 .. L :
        /\ words[i - 1] = WordOf(T[i], standing[i])
        /\ standing[i] \in T[i].is_accept <=> Ends(i) # {}
        /\ standing[i] \in T[i].is_accept =>
             /\ Key(i, standing[i]) \in DOMAIN mapping_table
             /\ Enumerates(mapping_table[Key(i, standing[i])], Ends(i))
  <2> DEFINE P(i, s) == /\ words[i - 1] = WordOf(T[i], s)
                        /\ s \in T[i].is_accept <=> Ends(i) # {}
                        /\ s \in T[i].is_accept =>
                             /\ Key(i, s) \in DOMAIN mapping_table
                             /\ Enumerates(mapping_table[Key(i, s)], Ends(i))
             chosen == [i \in 1 .. L |-> CHOOSE s : P(i, s)]
  <2>1. \A i \in 1 .. L : \E s : P(i, s)
    BY <1>3
  <2> HIDE DEF P
  <2>2. \A i \in 1 .. L : P(i, chosen[i])
    BY <2>1
  <2> HIDE DEF chosen
  <2> QED
    BY <2>2 DEF P
<1> DEFINE key(i) == Key(i, standing[i])
           Accepts(i) == standing[i] \in T[i].is_accept
<1>5. \A i \in 1 .. L : /\ words[i - 1][2] = Accepts(i)
                        /\ (i - 1) * MAX_STATES_NUMBER + words[i - 1][1] = key(i)
  BY <1>4 DEF WordOf, KeyOf
<1>6. /\ \A i \in 1 .. L : i - 1 \in 0 .. L - 1
      /\ \A i \in 0 .. L - 1 : i + 1 \in 1 .. L /\ i + 1 - 1 = i
  BY <1>2
<1> HIDE DEF key, Accepts, Key, Ends
<1>7. KeysReported = {key(i) : i \in {b \in 1 .. L : Accepts(b)}}
  <2>1. ASSUME NEW x \in KeysReported
        PROVE  \E i \in 1 .. L : Accepts(i) /\ x = key(i)
    <3>1. PICK i \in 0 .. L - 1 : words[i][2] /\ x = i * MAX_STATES_NUMBER + words[i][1]
      BY <1>2 DEF KeysReported
    <3>2. PICK j \in 1 .. L : j = i + 1 /\ j - 1 = i
      BY <1>6
    <3> QED
      BY <1>5, <3>1, <3>2
  <2>2. ASSUME NEW i \in 1 .. L, Accepts(i)
        PROVE  key(i) \in KeysReported
    <3>1. PICK b \in DOMAIN words : b = i - 1
      BY <1>2, <1>6
    <3>2. words[b][2] /\ b * MAX_STATES_NUMBER + words[b][1] = key(i)
      BY <1>5, <2>2, <3>1
    <3> QED
      BY <3>2 DEF KeysReported
  <2> QED
    BY <2>1, <2>2
<1>8. \A i \in 1 .. L : /\ Accepts(i) <=> Ends(i) # {}
                        /\ Accepts(i) => /\ key(i) \in DOMAIN mapping_table
                                         /\ Enumerates(mapping_table[key(i)], Ends(i))
  BY <1>4 DEF key, Accepts
<1>9. KeysReported \subseteq DOMAIN loaded
  BY <1>2, <1>7, <1>8
<1>10. \A i \in 1 .. L, e \in DOMAIN ds :
         e - 1 \in Ends(i) <=> home[e] = i /\ ds[e].accepted[st[e]] # {}
  <2> SUFFICES ASSUME NEW i \in 1 .. L, NEW e \in DOMAIN ds
               PROVE  e - 1 \in Ends(i) <=> home[e] = i /\ ds[e].accepted[st[e]] # {}
    OBVIOUS
  <2>1. \A d \in DOMAIN ds : d - 1 = e - 1 => d = e
    BY <1>2
  <2>2. \A d : d \in Members(home, i) <=> d \in DOMAIN ds /\ home[d] = i
    BY <1>2 DEF Members
  <2> QED
    BY <2>1, <2>2 DEF Ends, Ending
<1>11. ASSUME NEW e \in DOMAIN ds
       PROVE  Cardinality(Reports(e - 1)) = IF ds[e].accepted[st[e]] # {} THEN 1 ELSE 0
  <2>1. ASSUME NEW r \in Reports(e - 1)
        PROVE  \E i \in 1 .. L : \E k \in DOMAIN mapping_table[key(i)] :
                 /\ Accepts(i) /\ r = <<key(i), k>> /\ mapping_table[key(i)][k] = e - 1
    <3>1. PICK x \in KeysReported : r \in {x} \X DOMAIN mapping_table[x]
      BY DEF Reports
    <3>2. PICK i \in 1 .. L : Accepts(i) /\ x = key(i)
      BY <1>7
    <3>3. r[1] = x /\ r[2] \in DOMAIN mapping_table[x] /\ r = <<x, r[2]>>
      BY <3>1
    <3>4. mapping_table[r[1]][r[2]] = e - 1
      BY DEF Reports
    <3> QED
      BY <3>2, <3>3, <3>4
  <2>2. \A i \in 1 .. L : \A k \in DOMAIN mapping_table[key(i)] :
          Accepts(i) /\ mapping_table[key(i)][k] = e - 1
            => home[e] = i /\ ds[e].accepted[st[e]] # {}
    <3> SUFFICES ASSUME NEW i \in 1 .. L, NEW k \in DOMAIN mapping_table[key(i)],
                        Accepts(i), mapping_table[key(i)][k] = e - 1
                 PROVE  home[e] = i /\ ds[e].accepted[st[e]] # {}
      OBVIOUS
    <3>1. PICK list : list = mapping_table[key(i)]
      OBVIOUS
    <3>2. list \in Seq(Ends(i))
      BY <1>8, <3>1 DEF Enumerates
    <3>3. list[k] \in Ends(i)
      BY <3>1, <3>2
    <3> QED
      BY <1>10, <3>1, <3>3
  <2>3. CASE ds[e].accepted[st[e]] # {}
    <3>1. PICK h \in 1 .. L : h = home[e]
      BY <1>2
    <3>2. e - 1 \in Ends(h) /\ Accepts(h)
      BY <1>8, <1>10, <2>3, <3>1
    <3>3. PICK list : list = mapping_table[key(h)]
      OBVIOUS
    <3>4. Enumerates(list, Ends(h))
      BY <1>8, <3>2, <3>3
    <3>5. PICK k \in DOMAIN list : list[k] = e - 1
      BY <3>2, <3>4 DEF Enumerates
    <3>6. \A l \in DOMAIN list : list[l] = e - 1 => l = k
      BY <3>4, <3>5 DEF Enumerates
    <3>7. <<key(h), k>> \in Reports(e - 1)
      <4>1. key(h) \in KeysReported
        BY <1>7, <3>2
      <4>2. <<key(h), k>> \in UNION {{x} \X DOMAIN mapping_table[x] : x \in KeysReported}
        BY <3>3, <3>5, <4>1
      <4> QED
        BY <3>3, <3>5, <4>2 DEF Reports
    <3>8. \A r \in Reports(e - 1) : r = <<key(h), k>>
      BY <2>1, <2>2, <3>1, <3>3, <3>6
    <3>9. Reports(e - 1) = {<<key(h), k>>}
      BY <3>7, <3>8
    <3> QED
      BY <2>3, <3>9, FS_Singleton
  <2>4. CASE ds[e].accepted[st[e]] = {}
    <3>1. Reports(e - 1) = {}
      BY <2>1, <2>2, <2>4
    <3> QED
      BY <2>4, <3>1, FS_EmptySet
  <2> QED
    BY <2>3, <2>4
<1> QED
  BY <1>1, <1>2, <1>9, <1>11 DEF FpgaReportsTheRules

-----------------------------------------------------------------------------
(***************************************************************************)
(* All of it, from the rules to what the blocks report.                    *)
(***************************************************************************)
FpgaInv ==
  /\ fpga \in {"compile", "group", "converge", "load", "loaded", "running", "crashed"}
  /\ fpga = "compile" => dfas \in Lists /\ NothingDone
  /\ fpga = "group" => GivenDfas /\ Written /\ \E single, home : Grouping(single, home)
  /\ fpga = "converge" => GivenDfas /\ Written /\ \E single, home : Converging(single, home)
  /\ fpga = "load" => GivenDfas /\ \E home : AllWritten(home)
  /\ fpga \in {"loaded", "running"} =>
       /\ GivenDfas /\ CopyIsWhole
       /\ \E home : AllWritten(home) /\ Reading(home)

(* It holds before anything is compiled.                                   *)
LEMMA FpgaBegins == InitFpga => FpgaInv
BY DEF InitFpga, FpgaInv

(* When the last automaton has been looked at every expression has a home. *)
LEMMA LoadMappingCompletes ==
  ASSUME NEW single, NEW home, GivenDfas, Written, Grouping(single, home), LoadMapping
  PROVE  fpga' = "load" /\ GivenDfas' /\ AllWritten(home)'
<1>1. PICK ds, L, n, i : ds = dfas /\ L = Len(target_dfas) /\ n = Len(dfas) /\ i = big_i
  OBVIOUS
<1>2. /\ n \in Nat /\ DOMAIN ds = 1 .. n /\ L \in Nat /\ i \in Nat \ {0} /\ i > n
      /\ home \in [DOMAIN ds -> 0 .. L]
      /\ \A e \in DOMAIN ds : \E k \in DOMAIN ds : single[k] = e
      /\ \A k \in DOMAIN ds : home[single[k]] = 0 <=> k \notin converged /\ i <= k
  <2>1. n \in Nat /\ DOMAIN ds = 1 .. n
    BY <1>1 DEF GivenDfas
  <2>2. L \in Nat
    BY <1>1, AppendToSequence DEF Grouping, GroupsWatch
  <2>3. i \in Nat \ {0} /\ home \in [DOMAIN ds -> 0 .. L]
    BY <1>1 DEF Grouping
  <2>4. i > n /\ \A e \in DOMAIN ds : \E k \in DOMAIN ds : single[k] = e
    BY <1>1 DEF Grouping, SinglesWatch, LoadMapping
  <2>5. \A k \in DOMAIN ds : home[single[k]] = 0 <=> k \notin converged /\ i <= k
    BY <1>1 DEF Grouping, HomelessFrom
  <2> QED
    BY <2>1, <2>2, <2>3, <2>4, <2>5
<1>3. /\ fpga' = "load" /\ Len(stt) = Len(target_dfas)
      /\ loaded' = [key \in DOMAIN mapping_table |-> <<>>]
      /\ UNCHANGED <<dfas, target_dfas, stt, mapping_table>>
  BY DEF LoadMapping
<1>4. \A e \in DOMAIN ds : home[e] # 0
  <2>1. \A k \in DOMAIN ds : ~ (i <= k)
    BY <1>2
  <2>2. \A k \in DOMAIN ds : home[single[k]] # 0
    BY <1>2, <2>1
  <2> QED
    BY <1>2, <2>2
<1>5. home \in [DOMAIN ds -> 1 .. L]
  BY <1>2, <1>4
<1>6. GivenDfas'
  BY <1>3 DEF GivenDfas
<1>7. Written' /\ GroupsWatch(home)'
  BY <1>3 DEF Grouping, GroupsWatch, Written
<1>8. DOMAIN loaded' = DOMAIN mapping_table'
  BY <1>3
<1> QED
  BY <1>1, <1>3, <1>5, <1>6, <1>7, <1>8 DEF AllWritten

(* Every step keeps it.                                                    *)
LEMMA FpgaGoesOn ==
  ASSUME FpgaInv, [NextFpga]_fbVars
  PROVE  FpgaInv'
<1>1. CASE Compile
  <2>1. dfas \in Lists /\ NothingDone
    BY <1>1 DEF FpgaInv, Compile
  <2>2. fpga' = "group" /\ GivenDfas' /\ \E single, home : Grouping(single, home)'
    BY <1>1, <2>1, CompileStarts
  <2>3. Written'
    <3>1. stt' = <<>> /\ target_dfas' = <<>>
      BY <1>1, <2>1 DEF Compile, NothingDone
    <3>2. PICK s : s = <<>>
      OBVIOUS
    <3>3. s \in Seq({}) /\ Len(s) = 0 /\ Len(s) <= Len(s) /\ 1 .. 0 = {}
      BY <3>2
    <3> QED
      BY <3>1, <3>2, <3>3 DEF Written, IsSequence
  <2> QED
    BY <2>2, <2>3 DEF FpgaInv
<1>2. ASSUME fpga \in {"group", "converge"}, UNCHANGED <<dfas, stt, mapping_table>>,
             UNCHANGED target_dfas \/ \E A : target_dfas' = Append(target_dfas, A)
      PROVE  GivenDfas' /\ Written'
  <2>1. GivenDfas /\ Written /\ IsSequence(target_dfas)
    BY <1>2 DEF FpgaInv, Grouping, Converging, GroupsWatch
  <2>2. GivenDfas'
    BY <1>2, <2>1 DEF GivenDfas
  <2> QED
    BY <1>2, <2>1, <2>2, WrittenStays
<1>3. CASE BeginGroup
  <2>1. PICK single, home : GivenDfas /\ Grouping(single, home)
    BY <1>3 DEF FpgaInv, BeginGroup
  <2>2. GivenDfas' /\ Written'
    BY <1>2, <1>3 DEF BeginGroup, groupVars
  <2>3. \/ fpga' = "group" /\ Grouping(single, home)'
        \/ fpga' = "converge" /\ \E next : Converging(single, next)'
    BY <1>3, <2>1, GroupBegins
  <2> QED
    BY <2>2, <2>3 DEF FpgaInv
<1>4. CASE Converge
  <2>1. PICK single, home : GivenDfas /\ Converging(single, home)
    BY <1>4 DEF FpgaInv, Converge
  <2>2. GivenDfas' /\ Written'
    BY <1>2, <1>4 DEF Converge, groupVars
  <2>3. fpga' = fpga /\ fpga = "converge" /\ \E next : Converging(single, next)'
    BY <1>4, <2>1, GroupTakesIn DEF Converge
  <2> QED
    BY <2>2, <2>3 DEF FpgaInv
<1>5. CASE EndGroup
  <2>1. PICK single, home : GivenDfas /\ Converging(single, home)
    BY <1>5 DEF FpgaInv, EndGroup
  <2>2. GivenDfas' /\ Written'
    BY <1>2, <1>5 DEF EndGroup, groupVars
  <2>3. fpga' = "group" /\ Grouping(single, home)'
    BY <1>5, <2>1, GroupEnds
  <2> QED
    BY <2>2, <2>3 DEF FpgaInv
<1>6. CASE ToBram
  <2>1. PICK single, home : GivenDfas /\ Written /\ Grouping(single, home)
    BY <1>6 DEF FpgaInv, ToBram
  <2>2. UNCHANGED <<dfas, tem_lis, converged, big_i, target_dfas>>
    BY <1>6 DEF ToBram
  <2>3. fpga' = "crashed" \/ (Written' /\ fpga' = "group")
    BY <1>6, <2>1, ToBramWrites DEF Grouping
  <2>4. GivenDfas' /\ Grouping(single, home)'
    BY <2>1, <2>2 DEF GivenDfas, Grouping, SinglesWatch, GroupsWatch, HomelessFrom
  <2> QED
    BY <2>3, <2>4 DEF FpgaInv
<1>7. CASE LoadMapping
  <2>1. PICK single, home : GivenDfas /\ Written /\ Grouping(single, home)
    BY <1>7 DEF FpgaInv, LoadMapping
  <2>2. fpga' = "load" /\ GivenDfas' /\ AllWritten(home)'
    BY <1>7, <2>1, LoadMappingCompletes
  <2> QED
    BY <2>2 DEF FpgaInv
<1>8. CASE LoadStt
  <2>1. PICK home : GivenDfas /\ AllWritten(home)
    BY <1>8 DEF FpgaInv, LoadStt
  <2>2. fpga' = "crashed" \/ (fpga' = "loaded" /\ CopyIsWhole')
    BY <1>8, <2>1, LoadSttWrites
  <2>3. CASE fpga' = "crashed"
    BY <2>3 DEF FpgaInv
  <2>4. CASE fpga' = "loaded" /\ CopyIsWhole'
    <3>1. GivenDfas' /\ AllWritten(home)' /\ Reading(home)'
      BY <1>8, <2>1, <2>4, LoadSttBegins
    <3> QED
      BY <2>4, <3>1 DEF FpgaInv
  <2> QED
    BY <2>2, <2>3, <2>4
<1>9. ASSUME NEW high \in Nibbles, NEW low \in Nibbles, ReadByte(high, low)
      PROVE  FpgaInv'
  <2>1. PICK home : GivenDfas /\ CopyIsWhole /\ AllWritten(home) /\ Reading(home)
    BY <1>9 DEF FpgaInv, ReadByte
  <2>2. /\ fpga' = "running"
        /\ GivenDfas' /\ AllWritten(home)' /\ CopyIsWhole' /\ Reading(home)'
    BY <1>9, <2>1, ReadByteFollows
  <2> QED
    BY <2>2 DEF FpgaInv
<1>10. CASE UNCHANGED fbVars
  <2>1. /\ UNCHANGED <<dfas, tem_lis, converged, big_i, small_j, dfa, target_dfas, stt>>
        /\ UNCHANGED <<mapping_table, brams, loaded, copy, states, words, early, fpga>>
    BY <1>10 DEF fbVars, runVars
  <2>2. (NothingDone => NothingDone') /\ (GivenDfas => GivenDfas') /\ (Written => Written')
    BY <2>1 DEF NothingDone, GivenDfas, Written
  <2>3. ASSUME NEW single, NEW home
        PROVE  /\ Grouping(single, home) => Grouping(single, home)'
               /\ Converging(single, home) => Converging(single, home)'
    BY <2>1 DEF Grouping, Converging, SinglesWatch, GroupsWatch, HomelessFrom
  <2>4. ASSUME NEW home
        PROVE  /\ AllWritten(home) => AllWritten(home)'
               /\ Reading(home) => Reading(home)'
    BY <2>1, <2>2 DEF AllWritten, GroupsWatch, Reading
  <2>5. CopyIsWhole => CopyIsWhole'
    BY <2>1 DEF CopyIsWhole, BlockAt, need_unit_num
  <2> QED
    BY <2>1, <2>2, <2>3, <2>4, <2>5 DEF FpgaInv
<1> QED
  BY <1>1, <1>3, <1>4, <1>5, <1>6, <1>7, <1>8, <1>9, <1>10 DEF NextFpga

(* An expression is reported once, where it ends, whatever group it is in. *)
LEMMA FpgaInvReports == FpgaInv => FpgaReportsTheRules
<1>1. SUFFICES ASSUME FpgaInv, fpga = "running" PROVE FpgaReportsTheRules
  BY DEF FpgaReportsTheRules
<1>2. PICK home : GivenDfas /\ AllWritten(home) /\ Reading(home)
  BY <1>1 DEF FpgaInv
<1> QED
  BY <1>1, <1>2, ReadingReports

(***************************************************************************)
(* FpgaReportsTheRules for every list of DFAs, every width of a symbol,    *)
(* every size of the blocks and of the FPGA: whatever has been grouped,    *)
(* renumbered, written and copied, the copy that is read reports each      *)
(* expression where it ends once, and no other.                            *)
(***************************************************************************)
THEOREM FpgaReportsEveryRule == SpecFpga => []FpgaReportsTheRules
<1>1. InitFpga => FpgaInv
  BY FpgaBegins
<1>2. FpgaInv /\ [NextFpga]_fbVars => FpgaInv'
  BY FpgaGoesOn
<1>3. FpgaInv => FpgaReportsTheRules
  BY FpgaInvReports
<1> QED
  BY <1>1, <1>2, <1>3, PTL DEF SpecFpga
=============================================================================
