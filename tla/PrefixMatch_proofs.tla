------------------------- MODULE PrefixMatch_proofs -------------------------
(***************************************************************************)
(* Proofs about PrefixMatch, for every prefix DFA, every packet and each   *)
(* of the three functions that walk over it.                               *)
(***************************************************************************)
EXTENDS PrefixMatch, Automata_proofs, SequenceTheorems

LOCAL INSTANCE SequencesExt

(* What is assumed of the prefix DFAs, in the form the proofs use.         *)
LEMMA ChainsTyped ==
  ASSUME NEW p \in Compiled, NEW part \in Parts
  PROVE  /\ Len(p[part]) \in Nat
         /\ DOMAIN p[part] = 1 .. Len(p[part])
         /\ \A j \in 1 .. Len(p[part]) : IsPrefixDfa(p[part][j])
<1>1. /\ p[part] \in Seq({p[part][j] : j \in DOMAIN p[part]})
      /\ \A j \in DOMAIN p[part] : IsPrefixDfa(p[part][j])
  BY CompiledAssumption
<1>2. \A S : \A s \in Seq(S) : Len(s) \in Nat /\ DOMAIN s = 1 .. Len(s)
  BY LenProperties
<1>3. Len(p[part]) \in Nat /\ DOMAIN p[part] = 1 .. Len(p[part])
  BY <1>1, <1>2, Zenon
<1> QED
  BY <1>1, <1>3, Zenon

-----------------------------------------------------------------------------
(***************************************************************************)
(* One DFA over a part of a word.                                          *)
(***************************************************************************)
LEMMA SliceOfSlice ==
  ASSUME NEW S, NEW w \in Seq(S), NEW a \in Nat, NEW b \in Nat, NEW i \in Nat, NEW k \in Nat,
         a <= b, b <= Len(w), i <= k, k <= b - a
  PROVE  SubSeq(SubSeq(w, a + 1, b), i + 1, k) = SubSeq(w, a + i + 1, a + k)
<1>1. CASE i = k
  BY <1>1, SubSeqEmpty
<1>2. CASE i # k
  <2>1. a + 1 \in 1 .. Len(w) /\ b \in 1 .. Len(w)
        /\ i + 1 \in 1 .. b - (a + 1) + 1 /\ k \in 1 .. b - (a + 1) + 1
    BY <1>2
  <2>2. SubSeq(SubSeq(w, a + 1, b), i + 1, k)
          = SubSeq(w, (a + 1) + (i + 1) - 1, (a + 1) + k - 1)
    BY <2>1, SubSeqOfSubSeq
  <2> QED
    BY <2>2
<1> QED
  BY <1>1, <1>2

(* A part of a word is a word.                                             *)
LEMMA SliceIsWord ==
  ASSUME NEW S, NEW w \in Seq(S), NEW i \in Nat, NEW m \in Nat, i <= m, m <= Len(w)
  PROVE  /\ SubSeq(w, i + 1, m) \in Seq(S)
         /\ Len(SubSeq(w, i + 1, m)) = m - i
         /\ \A k \in 1 .. m - i : SubSeq(w, i + 1, m)[k] = w[i + k]
<1>1. \A k \in i + 1 .. m : w[k] \in S
  OBVIOUS
<1> QED
  BY <1>1, SubSeqProperties

(* The state of a DFA that began after i symbols of w, after m of them;    *)
(* whether it is still in the list, and whether it accepts the m-th.       *)
At(D, w, i, m)      == RunFrom(D, 0, SubSeq(w, i + 1, m))
LastsTo(D, w, i, m) == Lasts(D, SubSeq(w, i + 1, m))
TakesAt(D, w, i, m) == Takes(D, SubSeq(w, i + 1, m))

(* A node lasts if none of the states it comes to is its dead_state. *)
LEMMA LastsToIs ==
  ASSUME NEW D, NEW w \in Seq(Symbols), NEW i \in Nat, NEW m \in Nat, i <= m, m <= Len(w)
  PROVE  LastsTo(D, w, i, m) <=> \A k \in i + 1 .. m : At(D, w, i, k) # D.dead_state
<1> DEFINE v == SubSeq(w, i + 1, m)
<1>1. Len(v) = m - i
  BY SliceIsWord
<1>2. \A k \in 1 .. m - i : SubSeq(v, 1, k) = SubSeq(w, i + 1, i + k)
  <2> SUFFICES ASSUME NEW k \in 1 .. m - i
               PROVE  SubSeq(v, 0 + 1, k) = SubSeq(w, i + 0 + 1, i + k)
    OBVIOUS
  <2> QED
    BY SliceOfSlice
<1>3. LastsTo(D, w, i, m) <=> \A k \in 1 .. m - i : At(D, w, i, i + k) # D.dead_state
  BY <1>1, <1>2 DEF LastsTo, Lasts, At
<1>4. \A k \in i + 1 .. m : k - i \in 1 .. m - i /\ i + (k - i) = k
  OBVIOUS
<1>5. \A k \in 1 .. m - i : i + k \in i + 1 .. m
  OBVIOUS
<1> QED
  BY <1>3, <1>4, <1>5

(* One symbol more is one step more of a node's DFA. *)
LEMMA AtMoves ==
  ASSUME NEW D, IsPrefixDfa(D), NEW w \in Seq(Symbols), NEW i \in Nat, NEW m \in Nat,
         i <= m, m < Len(w)
  PROVE  /\ At(D, w, i, m) \in StatesOf(D)
         /\ At(D, w, i, m + 1) = D.table[At(D, w, i, m)][w[m + 1]]
         /\ LastsTo(D, w, i, m + 1)
              <=> LastsTo(D, w, i, m) /\ At(D, w, i, m + 1) # D.dead_state
         /\ TakesAt(D, w, i, m + 1)
              <=> LastsTo(D, w, i, m) /\ Accepts(D, At(D, w, i, m + 1))
<1> DEFINE u == SubSeq(w, i + 1, m)
           v == SubSeq(w, i + 1, m + 1)
<1>1. 0 \in StatesOf(D) /\ D.table \in [StatesOf(D) -> [Symbols -> StatesOf(D)]]
  BY DEF IsPrefixDfa, StatesOf
<1>2. u \in Seq(Symbols) /\ Len(u) = m - i /\ \A k \in 1 .. m - i : u[k] = w[i + k]
  BY SliceIsWord
<1>3. v \in Seq(Symbols) /\ Len(v) = m + 1 - i /\ \A k \in 1 .. m + 1 - i : v[k] = w[i + k]
  BY SliceIsWord
<1>4. At(D, w, i, m) \in StatesOf(D)
  BY <1>1, <1>2, RunFromStays DEF At
<1>5. At(D, w, i, m + 1) = D.table[At(D, w, i, m)][w[m + 1]]
  <2>1. Len(v) = Len(u) + 1 /\ \A k \in 1 .. Len(u) : v[k] = u[k]
    BY <1>2, <1>3
  <2>2. RunFrom(D, 0, v) = D.table[RunFrom(D, 0, u)][v[Len(v)]]
    <3> HIDE DEF u, v
    <3> QED
      BY ZenonT(20), <1>1, <1>2, <1>3, <2>1, RunFromGrows
  <2>3. v[Len(v)] = w[m + 1]
    <3> HIDE DEF u, v
    <3>1. Len(v) \in 1 .. m + 1 - i /\ i + Len(v) = m + 1
      BY <1>3
    <3> QED
      BY <1>3, <3>1
  <2> QED
    BY <2>2, <2>3 DEF At
<1>6. LastsTo(D, w, i, m + 1)
        <=> LastsTo(D, w, i, m) /\ At(D, w, i, m + 1) # D.dead_state
  <2>1. /\ LastsTo(D, w, i, m) <=> \A k \in i + 1 .. m : At(D, w, i, k) # D.dead_state
        /\ LastsTo(D, w, i, m + 1) <=> \A k \in i + 1 .. m + 1 : At(D, w, i, k) # D.dead_state
    BY LastsToIs
  <2>2. i + 1 .. m + 1 = (i + 1 .. m) \cup {m + 1}
    OBVIOUS
  <2> QED
    BY <2>1, <2>2
<1>7. TakesAt(D, w, i, m + 1)
        <=> LastsTo(D, w, i, m) /\ Accepts(D, At(D, w, i, m + 1))
  <2>1. SubSeq(v, 0 + 1, m - i) = SubSeq(w, i + 0 + 1, i + (m - i))
    BY SliceOfSlice
  <2>2. SubSeq(v, 1, Len(v) - 1) = u
    BY <1>3, <2>1
  <2> QED
    BY <2>2 DEF TakesAt, Takes, LastsTo, At
<1> QED
  BY <1>4, <1>5, <1>6, <1>7

(* A node begins in the entry state and lasts. *)
LEMMA AtBegins ==
  ASSUME NEW D, IsPrefixDfa(D), NEW w \in Seq(Symbols), NEW i \in Nat, i <= Len(w)
  PROVE  At(D, w, i, i) = 0 /\ LastsTo(D, w, i, i)
<1>1. 0 \in StatesOf(D) /\ D.table \in [StatesOf(D) -> [Symbols -> StatesOf(D)]]
  BY DEF IsPrefixDfa, StatesOf
<1>2. SubSeq(w, i + 1, i) \in Seq(Symbols) /\ Len(SubSeq(w, i + 1, i)) = 0
  BY SliceIsWord
<1>3. At(D, w, i, i) = 0
  BY <1>1, <1>2, RunFromStays DEF At
<1>4. LastsTo(D, w, i, i)
  BY <1>2 DEF LastsTo, Lasts
<1> QED
  BY <1>3, <1>4

-----------------------------------------------------------------------------
(***************************************************************************)
(* Where the nodes of a chain begin.                                       *)
(***************************************************************************)
(* Node j of a chain begins after symbol k if the node before, having      *)
(* begun at one of B, accepts with symbol k.                               *)
BornFrom(p, part, w, j, B) ==
  IF ~HasDfa(p, part, j) THEN {}
  ELSE {k \in 1 .. Len(w) : \E i \in B : i < k /\ TakesAt(p[part][j - 1], w, i, k)}

(* The recursion of Births, in which an arbitrary function is shown to     *)
(* exist: each node begins where the one before it accepts.                *)
LEMMA BirthsUnfold ==
  ASSUME NEW p \in Compiled, NEW part \in Parts, NEW w \in Seq(Symbols),
         NEW starts \in SUBSET Nat
  PROVE  \A j \in 1 .. Len(p[part]) :
           Births(p, part, w, starts)[j] =
             IF j = 1 THEN starts
             ELSE BornFrom(p, part, w, j, Births(p, part, w, starts)[j - 1])
<1> DEFINE n == Len(p[part])
           step == [k \in 1 .. n |-> [B \in SUBSET Nat |-> BornFrom(p, part, w, k + 1, B)]]
           F(b) == [j \in DOMAIN p[part] |->
                      IF j = 1 THEN starts
                      ELSE IF ~HasDfa(p, part, j) THEN {}
                      ELSE {k \in 1 .. Len(w) :
                              \E i \in b[j - 1] :
                                i < k /\ Takes(p[part][j - 1], SubSeq(w, i + 1, k))}]
           G(b) == [j \in 1 .. n |->
                      IF j = 1 THEN starts ELSE BornFrom(p, part, w, j, b[j - 1])]
<1>1. n \in Nat /\ DOMAIN p[part] = 1 .. n
  BY ChainsTyped
<1>2. step \in [1 .. n -> [SUBSET Nat -> SUBSET Nat]]
  <2>1. \A k, B : BornFrom(p, part, w, k, B) \in SUBSET Nat
    BY DEF BornFrom
  <2> QED
    BY <2>1
<1>3. PICK at : Follows(at, SUBSET Nat, step, starts, n)
  <2> HIDE DEF n, step
  <2> QED
    BY <1>1, <1>2, StepsLeadSomewhere
<1> DEFINE bt == [j \in 1 .. n |-> at[j - 1]]
<1>4. bt = G(bt)
  <2>1. ASSUME NEW j \in 1 .. n, j # 1
        PROVE  at[j - 1] = BornFrom(p, part, w, j, bt[j - 1])
    <3>1. j - 1 \in 1 .. n /\ j - 2 \in 0 .. n /\ (j - 1) - 1 = j - 2
      BY <1>1, <2>1
    <3>2. at[j - 1] = step[j - 1][at[j - 2]] /\ at[j - 2] \in SUBSET Nat
      BY <1>3, <3>1 DEF Follows
    <3>3. step[j - 1][at[j - 2]] = BornFrom(p, part, w, (j - 1) + 1, at[j - 2])
      BY <3>1, <3>2
    <3>4. (j - 1) + 1 = j /\ bt[j - 1] = at[j - 2]
      BY <3>1
    <3> QED
      BY <3>2, <3>3, <3>4
  <2>2. at[0] = starts
    BY <1>3 DEF Follows
  <2> QED
    BY <1>1, <2>1, <2>2
<1>5. \A b : F(b) = G(b)
  BY <1>1 DEF BornFrom, TakesAt
<1> DEFINE chosen == CHOOSE b : b = F(b)
<1>6. chosen = F(chosen)
  <2> HIDE DEF F, G, bt
  <2> QED
    BY <1>4, <1>5
<1>7. Births(p, part, w, starts) = chosen
  BY DEF Births
<1>8. Births(p, part, w, starts) = G(Births(p, part, w, starts))
  <2> HIDE DEF F, G, chosen
  <2> QED
    BY <1>5, <1>6, <1>7
<1>9. \A b : \A j \in 1 .. n : G(b)[j] = IF j = 1 THEN starts ELSE BornFrom(p, part, w, j, b[j - 1])
  OBVIOUS
<1> HIDE DEF G
<1> QED
  BY <1>8, <1>9, Zenon

(* Nodes are born at places of the word. *)
LEMMA BirthsAreNumbers ==
  ASSUME NEW p \in Compiled, NEW part \in Parts, NEW w \in Seq(Symbols),
         NEW starts \in SUBSET Nat, NEW j \in 1 .. Len(p[part])
  PROVE  /\ Births(p, part, w, starts)[j] \in SUBSET Nat
         /\ j # 1 => Births(p, part, w, starts)[j] \subseteq 1 .. Len(w)
<1>1. Births(p, part, w, starts)[j] =
        IF j = 1 THEN starts
        ELSE BornFrom(p, part, w, j, Births(p, part, w, starts)[j - 1])
  BY BirthsUnfold
<1>2. \A B : /\ BornFrom(p, part, w, j, B) \in SUBSET Nat
             /\ BornFrom(p, part, w, j, B) \subseteq 1 .. Len(w)
  BY DEF BornFrom
<1> QED
  BY <1>1, <1>2

(* What happens in the first m symbols of a word does not depend on the    *)
(* others.                                                                 *)
LEMMA BirthsUpTo ==
  ASSUME NEW p \in Compiled, NEW part \in Parts, NEW w \in Seq(Symbols),
         NEW starts \in SUBSET Nat, NEW m \in Nat, m <= Len(w)
  PROVE  \A j \in 1 .. Len(p[part]) :
           Births(p, part, SubSeq(w, 1, m), starts \cap (0 .. m))[j]
             = Births(p, part, w, starts)[j] \cap (0 .. m)
<1> DEFINE n == Len(p[part])
           v == SubSeq(w, 1, m)
           b == Births(p, part, w, starts)
           c == Births(p, part, v, starts \cap (0 .. m))
           Off == {j \in 1 .. n : c[j] # b[j] \cap (0 .. m)}
<1>1. n \in Nat
  BY ChainsTyped
<1>2. v \in Seq(Symbols) /\ Len(v) = m
  <2>1. SubSeq(w, 0 + 1, m) \in Seq(Symbols) /\ Len(SubSeq(w, 0 + 1, m)) = m - 0
    BY SliceIsWord
  <2> QED
    BY <2>1
<1>3. SUFFICES ASSUME Off # {} PROVE FALSE
  OBVIOUS
<1>4. PICK j \in Off : \A l \in Off : j <= l
  <2> HIDE DEF Off
  <2>1. Off \in SUBSET Nat
    BY DEF Off
  <2> QED
    BY <1>3, <2>1, LeastNumber
<1>5. /\ b[j] = IF j = 1 THEN starts ELSE BornFrom(p, part, w, j, b[j - 1])
      /\ c[j] = IF j = 1 THEN starts \cap (0 .. m) ELSE BornFrom(p, part, v, j, c[j - 1])
  <2>1. starts \cap (0 .. m) \in SUBSET Nat /\ j \in 1 .. n
    OBVIOUS
  <2> HIDE DEF Off, v
  <2> QED
    BY <1>2, <2>1, BirthsUnfold
<1>6. j # 1
  BY <1>4, <1>5
<1>7. j \in 1 .. n /\ j - 1 \in 1 .. n /\ j - 1 < j
  BY <1>1, <1>4, <1>6
<1>8. c[j - 1] = b[j - 1] \cap (0 .. m) /\ b[j - 1] \in SUBSET Nat
  <2>1. j - 1 \notin Off
    <3> HIDE DEF Off
    <3>1. Off \subseteq 1 .. n
      BY DEF Off
    <3> QED
      BY <1>4, <1>7, <3>1
  <2> QED
    BY <1>7, <2>1, BirthsAreNumbers
<1>9. ASSUME NEW i \in Nat, NEW k \in 1 .. m, i < k
      PROVE  TakesAt(p[part][j - 1], v, i, k) <=> TakesAt(p[part][j - 1], w, i, k)
  <2>1. k \in Nat /\ i <= k /\ k <= m - 0 /\ 0 <= m
    BY <1>9
  <2>2. SubSeq(SubSeq(w, 0 + 1, m), i + 1, k) = SubSeq(w, 0 + i + 1, 0 + k)
    BY <2>1, SliceOfSlice
  <2>3. 0 + 1 = 1 /\ 0 + i + 1 = i + 1 /\ 0 + k = k
    BY <2>1
  <2>4. SubSeq(v, i + 1, k) = SubSeq(w, i + 1, k)
    BY <2>2, <2>3
  <2> HIDE DEF v
  <2> QED
    BY <2>4 DEF TakesAt
<1>10. BornFrom(p, part, v, j, c[j - 1]) = BornFrom(p, part, w, j, b[j - 1]) \cap (0 .. m)
  <2>1. ASSUME NEW k \in 1 .. m
        PROVE  (\E i \in c[j - 1] : i < k /\ TakesAt(p[part][j - 1], v, i, k))
                 <=> (\E i \in b[j - 1] : i < k /\ TakesAt(p[part][j - 1], w, i, k))
    <3> HIDE DEF v, b, c, Off
    <3>1. \A i \in b[j - 1] : i < k => i \in c[j - 1]
      BY <1>8
    <3>2. \A i \in c[j - 1] : i \in b[j - 1] /\ i \in Nat
      BY <1>8
    <3> QED
      BY <1>8, <1>9, <3>1, <3>2
  <2>2. ~HasDfa(p, part, j) => /\ BornFrom(p, part, v, j, c[j - 1]) = {}
                               /\ BornFrom(p, part, w, j, b[j - 1]) = {}
    BY DEF BornFrom
  <2> HIDE DEF v, b, c, Off
  <2>3. ASSUME HasDfa(p, part, j), NEW k
        PROVE  k \in BornFrom(p, part, v, j, c[j - 1])
                 <=> k \in BornFrom(p, part, w, j, b[j - 1]) /\ k \in 0 .. m
    <3>1. k \in 1 .. Len(v) <=> k \in 1 .. Len(w) /\ k \in 0 .. m
      BY <1>2
    <3> QED
      BY <1>2, <2>1, <2>3, <3>1 DEF BornFrom
  <2> QED
    BY <2>2, <2>3
<1> QED
  BY <1>4, <1>5, <1>6, <1>10

(* The lists and the matches after the first m symbols of a word.          *)
LivingAt(p, part, w, starts, m) ==
  Living(p, part, SubSeq(w, 1, m), starts \cap (0 .. m))

MatchesAt(p, part, w, starts, m) ==
  ChainMatches(p, part, SubSeq(w, 1, m), starts \cap (0 .. m))

(* A node lives if it was born before, has lasted, and its DFA is in that state. *)
LEMMA LivingIs ==
  ASSUME NEW p \in Compiled, NEW part \in Parts, NEW w \in Seq(Symbols),
         NEW starts \in SUBSET Nat, NEW m \in Nat, m <= Len(w), NEW x
  PROVE  x \in LivingAt(p, part, w, starts, m)
           <=> \E j \in 1 .. Len(p[part]) : \E i \in Births(p, part, w, starts)[j] :
                 /\ i <= m
                 /\ LastsTo(p[part][j], w, i, m)
                 /\ x = <<j, At(p[part][j], w, i, m)>>
<1> DEFINE n == Len(p[part])
           v == SubSeq(w, 1, m)
           b == Births(p, part, w, starts)
           c == Births(p, part, v, starts \cap (0 .. m))
<1>1. DOMAIN p[part] = 1 .. n
  BY ChainsTyped
<1>2. Len(v) = m
  <2>1. Len(SubSeq(w, 0 + 1, m)) = m - 0
    BY SliceIsWord
  <2> QED
    BY <2>1
<1>3. \A j \in 1 .. n : c[j] = b[j] \cap (0 .. m) /\ b[j] \in SUBSET Nat
  BY BirthsUpTo, BirthsAreNumbers
<1>4. \A i \in 0 .. m : SubSeq(v, i + 1, Len(v)) = SubSeq(w, i + 1, m)
  <2>1. SUFFICES ASSUME NEW i \in 0 .. m
                 PROVE  SubSeq(SubSeq(w, 0 + 1, m), i + 1, m) = SubSeq(w, 0 + i + 1, 0 + m)
    BY <1>2
  <2> QED
    BY SliceOfSlice
<1>5. x \in LivingAt(p, part, w, starts, m)
        <=> \E j \in 1 .. n : \E i \in c[j] :
              /\ Lasts(p[part][j], SubSeq(v, i + 1, Len(v)))
              /\ x = <<j, RunFrom(p[part][j], 0, SubSeq(v, i + 1, Len(v)))>>
  <2> DEFINE T(j) == {<<j, RunFrom(p[part][j], 0, SubSeq(v, i + 1, Len(v)))>> :
                        i \in {y \in c[j] : Lasts(p[part][j], SubSeq(v, y + 1, Len(v)))}}
  <2>1. LivingAt(p, part, w, starts, m) = UNION {T(j) : j \in 1 .. n}
    <3> HIDE DEF n
    <3> QED
      BY <1>1 DEF LivingAt, Living
  <2>2. \A j : x \in T(j)
               <=> \E i \in c[j] :
                     /\ Lasts(p[part][j], SubSeq(v, i + 1, Len(v)))
                     /\ x = <<j, RunFrom(p[part][j], 0, SubSeq(v, i + 1, Len(v)))>>
    <3> HIDE DEF v, c
    <3> QED
      OBVIOUS
  <2> HIDE DEF T, v, c, n
  <2> QED
    BY <2>1, <2>2
<1> HIDE DEF n, b, c, v
<1>6. \A j \in 1 .. n : \A i \in c[j] :
        /\ i \in b[j] /\ i <= m /\ SubSeq(v, i + 1, Len(v)) = SubSeq(w, i + 1, m)
  <2> SUFFICES ASSUME NEW j \in 1 .. n, NEW i \in c[j]
               PROVE  /\ i \in b[j] /\ i <= m
                      /\ SubSeq(v, i + 1, Len(v)) = SubSeq(w, i + 1, m)
    OBVIOUS
  <2>1. i \in b[j] /\ i \in 0 .. m
    BY <1>3
  <2>2. SubSeq(v, i + 1, Len(v)) = SubSeq(w, i + 1, m)
    BY <1>4, <2>1, Zenon
  <2>3. i <= m
    BY <2>1
  <2> QED
    BY <2>1, <2>2, <2>3, Zenon
<1>7. \A j \in 1 .. n : \A i \in b[j] : i <= m => i \in c[j]
  BY <1>3
<1>8. x \in LivingAt(p, part, w, starts, m)
        <=> \E j \in 1 .. n : \E i \in b[j] :
              i <= m /\ LastsTo(p[part][j], w, i, m) /\ x = <<j, At(p[part][j], w, i, m)>>
  BY <1>5, <1>6, <1>7 DEF LastsTo, At
<1> QED
  BY <1>8 DEF n, b

(* A part has matched if a last node born before has been taken. *)
LEMMA MatchesIs ==
  ASSUME NEW p \in Compiled, NEW part \in Parts, NEW w \in Seq(Symbols),
         NEW starts \in SUBSET Nat, NEW m \in Nat, m <= Len(w), Len(p[part]) # 0
  PROVE  MatchesAt(p, part, w, starts, m)
           <=> \E i \in Births(p, part, w, starts)[Len(p[part])] : \E k \in i + 1 .. m :
                 TakesAt(p[part][Len(p[part])], w, i, k)
<1> DEFINE n == Len(p[part])
           v == SubSeq(w, 1, m)
           b == Births(p, part, w, starts)
           c == Births(p, part, v, starts \cap (0 .. m))
<1>1. n \in 1 .. n
  BY ChainsTyped
<1>2. Len(v) = m
  <2>1. Len(SubSeq(w, 0 + 1, m)) = m - 0
    BY SliceIsWord
  <2> QED
    BY <2>1
<1>3. c[n] = b[n] \cap (0 .. m) /\ b[n] \in SUBSET Nat
  <2>1. c[n] = b[n] \cap (0 .. m)
    BY <1>1, BirthsUpTo
  <2>2. b[n] \in SUBSET Nat
    BY <1>1, BirthsAreNumbers
  <2> QED
    BY <2>1, <2>2
<1>4. \A i \in 0 .. m : \A k \in i + 1 .. m : SubSeq(v, i + 1, k) = SubSeq(w, i + 1, k)
  <2>1. SUFFICES ASSUME NEW i \in 0 .. m, NEW k \in i + 1 .. m
                 PROVE  SubSeq(SubSeq(w, 0 + 1, m), i + 1, k) = SubSeq(w, 0 + i + 1, 0 + k)
    OBVIOUS
  <2> QED
    BY SliceOfSlice
<1>5. MatchesAt(p, part, w, starts, m)
        <=> \E i \in c[n] : \E k \in i + 1 .. m : Takes(p[part][n], SubSeq(v, i + 1, k))
  BY <1>2 DEF MatchesAt, ChainMatches
<1> HIDE DEF n, v, b, c
<1>6. \A i \in c[n] : i \in b[n] /\ i \in 0 .. m
  BY <1>3
<1>7. \A i \in b[n] : \A k \in i + 1 .. m : i \in c[n]
  BY <1>3
<1>8. MatchesAt(p, part, w, starts, m)
        <=> \E i \in b[n] : \E k \in i + 1 .. m : TakesAt(p[part][n], w, i, k)
  BY <1>4, <1>5, <1>6, <1>7 DEF TakesAt
<1> QED
  BY <1>8 DEF n, b

-----------------------------------------------------------------------------
(***************************************************************************)
(* What one symbol does to the lists.                                      *)
(***************************************************************************)
(* The state an entry moves to, the entries it leaves after the symbol,    *)
(* and that it ends the walk.                                              *)
To(p, part, e, c) == p[part][e[1]].table[e[2]][c]

Moved(p, part, e, c) ==
  {x \in {<<e[1], To(p, part, e, c)>>} : x[2] # p[part][e[1]].dead_state}

Started(p, part, e, c) ==
  {x \in {<<e[1] + 1, 0>>} : /\ Accepts(p[part][e[1]], To(p, part, e, c))
                             /\ ~IsLast(p, part, e[1])
                             /\ HasDfa(p, part, e[1] + 1)}

Outcome(p, part, L, c) ==
  UNION {Moved(p, part, e, c) \cup Started(p, part, e, c) : e \in L}

Ends(p, part, e, c) ==
  IsLast(p, part, e[1]) /\ Accepts(p[part][e[1]], To(p, part, e, c))

(* The entry that begins with the symbol after the first m.                *)
Begun(p, part, starts, m) ==
  {x \in {<<1, 0>>} : m \in starts /\ Len(p[part]) # 0}

(* After one symbol more: what the living make of it, and what begins there. *)
LEMMA LivingGrows ==
  ASSUME NEW p \in Compiled, NEW part \in Parts, NEW w \in Seq(Symbols),
         NEW starts \in SUBSET Nat, NEW m \in Nat, m < Len(w)
  PROVE  LivingAt(p, part, w, starts, m + 1)
           = Outcome(p, part, LivingAt(p, part, w, starts, m), w[m + 1])
               \cup Begun(p, part, starts, m + 1)
<1> DEFINE n == Len(p[part])
           b == Births(p, part, w, starts)
           now == LivingAt(p, part, w, starts, m)
           next == LivingAt(p, part, w, starts, m + 1)
           c == w[m + 1]
<1>1. n \in Nat /\ \A j \in 1 .. n : IsPrefixDfa(p[part][j])
  BY ChainsTyped
<1>2. \A j \in 1 .. n : b[j] \in SUBSET Nat
  BY BirthsAreNumbers
<1>3. \A x : x \in now <=> \E j \in 1 .. n : \E i \in b[j] :
                /\ i <= m
                /\ LastsTo(p[part][j], w, i, m)
                /\ x = <<j, At(p[part][j], w, i, m)>>
  <2>1. m <= Len(w)
    OBVIOUS
  <2> QED
    BY <2>1, LivingIs
<1>4. \A x : x \in next <=> \E j \in 1 .. n : \E i \in b[j] :
                /\ i <= m + 1
                /\ LastsTo(p[part][j], w, i, m + 1)
                /\ x = <<j, At(p[part][j], w, i, m + 1)>>
  <2>1. m + 1 \in Nat /\ m + 1 <= Len(w)
    OBVIOUS
  <2> QED
    BY <2>1, LivingIs
<1>5. \A j \in 1 .. n : \A i \in Nat : i <= m =>
        /\ At(p[part][j], w, i, m + 1) = p[part][j].table[At(p[part][j], w, i, m)][c]
        /\ LastsTo(p[part][j], w, i, m + 1)
             <=> /\ LastsTo(p[part][j], w, i, m)
                 /\ At(p[part][j], w, i, m + 1) # p[part][j].dead_state
        /\ TakesAt(p[part][j], w, i, m + 1)
             <=> LastsTo(p[part][j], w, i, m) /\ Accepts(p[part][j], At(p[part][j], w, i, m + 1))
  BY <1>1, AtMoves
<1>6. \A j \in 1 .. n : /\ At(p[part][j], w, m + 1, m + 1) = 0
                         /\ LastsTo(p[part][j], w, m + 1, m + 1)
  <2>1. m + 1 \in Nat /\ m + 1 <= Len(w)
    OBVIOUS
  <2> QED
    BY <1>1, <2>1, AtBegins
<1>7. \A j \in 1 .. n : m + 1 \in b[j]
        <=> IF j = 1 THEN m + 1 \in starts
            ELSE /\ HasDfa(p, part, j)
                 /\ \E i \in b[j - 1] : i <= m /\ TakesAt(p[part][j - 1], w, i, m + 1)
  <2> SUFFICES ASSUME NEW j \in 1 .. n, j # 1
               PROVE  m + 1 \in b[j]
                        <=> /\ HasDfa(p, part, j)
                            /\ \E i \in b[j - 1] : /\ i <= m
                                                    /\ TakesAt(p[part][j - 1], w, i, m + 1)
    BY SMTT(20), BirthsUnfold
  <2>1. b[j] = BornFrom(p, part, w, j, b[j - 1])
    BY BirthsUnfold
  <2>2. \A i \in b[j - 1] : i < m + 1 <=> i <= m
    BY SMTT(20), <1>1, <1>2
  <2>3. m + 1 \in 1 .. Len(w)
    OBVIOUS
  <2> HIDE DEF b, n
  <2> QED
    BY <2>1, <2>2, <2>3 DEF BornFrom
<1> HIDE DEF n, b, now, next, c
<1>8. ASSUME NEW x \in next
      PROVE  x \in Outcome(p, part, now, c) \cup Begun(p, part, starts, m + 1)
  <2>0. PICK j \in 1 .. n : \E i \in b[j] :
          /\ i <= m + 1
          /\ LastsTo(p[part][j], w, i, m + 1)
          /\ x = <<j, At(p[part][j], w, i, m + 1)>>
    BY <1>4, <1>8
  <2>1. PICK i \in b[j] : /\ i <= m + 1
                          /\ LastsTo(p[part][j], w, i, m + 1)
                          /\ x = <<j, At(p[part][j], w, i, m + 1)>>
    BY <2>0
  <2>2. CASE i <= m
    <3> DEFINE e == <<j, At(p[part][j], w, i, m)>>
    <3>1. i \in Nat
      BY <1>2
    <3>2. /\ At(p[part][j], w, i, m + 1) = p[part][j].table[At(p[part][j], w, i, m)][c]
          /\ LastsTo(p[part][j], w, i, m)
          /\ At(p[part][j], w, i, m + 1) # p[part][j].dead_state
      BY <1>5, <2>1, <2>2, <3>1
    <3>3. e \in now
      BY <1>3, <2>2, <3>2
    <3>4. x \in Moved(p, part, e, c)
      BY <2>1, <3>2 DEF Moved, To
    <3> QED
      BY <3>3, <3>4 DEF Outcome
  <2>3. CASE ~(i <= m)
    <3>1. i = m + 1
      BY <1>2, <2>1, <2>3
    <3>2. x = <<j, 0>> /\ m + 1 \in b[j]
      BY <1>6, <2>1, <3>1
    <3>3. CASE j = 1
      BY <1>1, <1>7, <3>2, <3>3 DEF Begun, n
    <3>4. CASE j # 1
      <4>1. HasDfa(p, part, j) /\ j - 1 \in 1 .. n /\ (j - 1) + 1 = j /\ j - 1 # n
        BY <1>1, <1>7, <3>2, <3>4
      <4>2. PICK h \in b[j - 1] : h <= m /\ TakesAt(p[part][j - 1], w, h, m + 1)
        BY <1>7, <3>2, <3>4
      <4> DEFINE e == <<j - 1, At(p[part][j - 1], w, h, m)>>
      <4>3. h \in Nat
        BY <1>2, <4>1
      <4>4. /\ LastsTo(p[part][j - 1], w, h, m)
            /\ Accepts(p[part][j - 1], p[part][j - 1].table[At(p[part][j - 1], w, h, m)][c])
        BY <1>5, <4>1, <4>2, <4>3
      <4>5. e \in now
        BY <1>3, <4>1, <4>2, <4>4
      <4>6. <<j, 0>> \in Started(p, part, e, c)
        BY <4>1, <4>4 DEF Started, To, IsLast, n
      <4> QED
        BY <3>2, <4>5, <4>6 DEF Outcome
    <3> QED
      BY <3>3, <3>4
  <2> QED
    BY <2>2, <2>3
<1>9. ASSUME NEW x \in Begun(p, part, starts, m + 1)
      PROVE  x \in next
  <2>1. x = <<1, 0>> /\ m + 1 \in starts /\ 1 \in 1 .. n
    BY <1>1, <1>9 DEF Begun, n
  <2>2. m + 1 \in b[1]
    BY <1>7, <2>1
  <2> QED
    BY <1>4, <1>6, <2>1, <2>2
<1>10. ASSUME NEW x \in Outcome(p, part, now, c)
       PROVE  x \in next
  <2>1. PICK e \in now : x \in Moved(p, part, e, c) \/ x \in Started(p, part, e, c)
    BY <1>10 DEF Outcome
  <2>0. PICK j \in 1 .. n : \E i \in b[j] :
          i <= m /\ LastsTo(p[part][j], w, i, m) /\ e = <<j, At(p[part][j], w, i, m)>>
    BY <1>3
  <2>2. PICK i \in b[j] :
          i <= m /\ LastsTo(p[part][j], w, i, m) /\ e = <<j, At(p[part][j], w, i, m)>>
    BY <2>0
  <2>3. i \in Nat
    BY <1>2
  <2>4. /\ At(p[part][j], w, i, m + 1) = To(p, part, e, c)
        /\ LastsTo(p[part][j], w, i, m + 1) <=> To(p, part, e, c) # p[part][j].dead_state
        /\ TakesAt(p[part][j], w, i, m + 1) <=> Accepts(p[part][j], To(p, part, e, c))
    BY <1>5, <2>2, <2>3 DEF To
  <2>5. CASE x \in Moved(p, part, e, c)
    <3>1. x = <<j, To(p, part, e, c)>> /\ To(p, part, e, c) # p[part][j].dead_state
      BY <2>2, <2>5 DEF Moved
    <3>2. i <= m + 1
      BY <2>2, <2>3
    <3> QED
      BY <1>4, <2>2, <2>4, <3>1, <3>2
  <2>6. CASE x \in Started(p, part, e, c)
    <3>1. /\ x = <<j + 1, 0>> /\ HasDfa(p, part, j + 1) /\ j # n
          /\ Accepts(p[part][j], To(p, part, e, c))
      BY <2>2, <2>6 DEF Started, IsLast, n
    <3>2. j + 1 \in 1 .. n /\ j + 1 # 1 /\ (j + 1) - 1 = j
      BY <1>1, <3>1
    <3>3. m + 1 \in b[j + 1]
      BY <1>7, <2>2, <2>4, <3>1, <3>2
    <3> QED
      BY <1>4, <1>6, <3>1, <3>2, <3>3
  <2> QED
    BY <2>1, <2>5, <2>6
<1> QED
  BY <1>8, <1>9, <1>10 DEF now, next, c

(* A part has matched after one symbol more if it had or a living last node ends. *)
LEMMA MatchesGrow ==
  ASSUME NEW p \in Compiled, NEW part \in Parts, NEW w \in Seq(Symbols),
         NEW starts \in SUBSET Nat, NEW m \in Nat, m < Len(w), Len(p[part]) # 0
  PROVE  MatchesAt(p, part, w, starts, m + 1)
           <=> \/ MatchesAt(p, part, w, starts, m)
               \/ \E e \in LivingAt(p, part, w, starts, m) : Ends(p, part, e, w[m + 1])
<1> DEFINE n == Len(p[part])
           b == Births(p, part, w, starts)
           now == LivingAt(p, part, w, starts, m)
           c == w[m + 1]
<1>1. n \in 1 .. n /\ IsPrefixDfa(p[part][n]) /\ b[n] \in SUBSET Nat
  BY ChainsTyped, BirthsAreNumbers
<1>2. \A x : x \in now <=> \E j \in 1 .. n : \E i \in b[j] :
                /\ i <= m
                /\ LastsTo(p[part][j], w, i, m)
                /\ x = <<j, At(p[part][j], w, i, m)>>
  <2>1. m <= Len(w)
    OBVIOUS
  <2> QED
    BY <2>1, LivingIs
<1>3. \A i \in Nat : i <= m =>
        /\ At(p[part][n], w, i, m + 1) = p[part][n].table[At(p[part][n], w, i, m)][c]
        /\ TakesAt(p[part][n], w, i, m + 1)
             <=> LastsTo(p[part][n], w, i, m) /\ Accepts(p[part][n], At(p[part][n], w, i, m + 1))
  BY <1>1, AtMoves
<1>4. /\ MatchesAt(p, part, w, starts, m)
           <=> \E i \in b[n] : \E k \in i + 1 .. m : TakesAt(p[part][n], w, i, k)
      /\ MatchesAt(p, part, w, starts, m + 1)
           <=> \E i \in b[n] : \E k \in i + 1 .. m + 1 : TakesAt(p[part][n], w, i, k)
  <2>1. m \in Nat /\ m <= Len(w) /\ m + 1 \in Nat /\ m + 1 <= Len(w)
    OBVIOUS
  <2> QED
    BY <2>1, MatchesIs
<1>5. \A i \in b[n] : \A k : k \in i + 1 .. m + 1 <=> k \in i + 1 .. m \/ (k = m + 1 /\ i <= m)
  <2> SUFFICES ASSUME NEW i \in b[n], NEW k
               PROVE  k \in i + 1 .. m + 1 <=> k \in i + 1 .. m \/ (k = m + 1 /\ i <= m)
    OBVIOUS
  <2>1. i \in Nat
    BY <1>1
  <2> QED
    BY <2>1
<1> HIDE DEF n, b, now, c
<1>6. (\E i \in b[n] : i <= m /\ TakesAt(p[part][n], w, i, m + 1))
        <=> \E e \in now : Ends(p, part, e, c)
  <2>1. ASSUME NEW i \in b[n], i <= m, TakesAt(p[part][n], w, i, m + 1)
        PROVE  \E e \in now : Ends(p, part, e, c)
    <3> DEFINE e == <<n, At(p[part][n], w, i, m)>>
    <3>1. e \in now
      BY <1>1, <1>2, <1>3, <2>1
    <3>2. Ends(p, part, e, c)
      BY <1>1, <1>3, <2>1 DEF Ends, IsLast, To, n
    <3> QED
      BY <3>1, <3>2
  <2>2. ASSUME NEW e \in now, Ends(p, part, e, c)
        PROVE  \E i \in b[n] : i <= m /\ TakesAt(p[part][n], w, i, m + 1)
    <3>0. PICK j \in 1 .. n : \E i \in b[j] :
            i <= m /\ LastsTo(p[part][j], w, i, m) /\ e = <<j, At(p[part][j], w, i, m)>>
      BY <1>2
    <3>1. PICK i \in b[j] :
            i <= m /\ LastsTo(p[part][j], w, i, m) /\ e = <<j, At(p[part][j], w, i, m)>>
      BY <3>0
    <3>2. j = n
      BY <2>2, <3>1 DEF Ends, IsLast, n
    <3> QED
      BY <1>1, <1>3, <2>2, <3>1, <3>2 DEF Ends, To
  <2> QED
    BY <2>1, <2>2
<1>7. (\E i \in b[n] : \E k \in i + 1 .. m + 1 : TakesAt(p[part][n], w, i, k))
        <=> \/ \E i \in b[n] : \E k \in i + 1 .. m : TakesAt(p[part][n], w, i, k)
            \/ \E i \in b[n] : i <= m /\ TakesAt(p[part][n], w, i, m + 1)
  BY <1>5
<1> QED
  BY <1>4, <1>6, <1>7 DEF now, c

(* Before the first symbol.                                                *)
LEMMA AtTheStart ==
  ASSUME NEW p \in Compiled, NEW part \in Parts, NEW w \in Seq(Symbols),
         NEW starts \in SUBSET Nat
  PROVE  /\ LivingAt(p, part, w, starts, 0) = Begun(p, part, starts, 0)
         /\ Len(p[part]) # 0 => ~MatchesAt(p, part, w, starts, 0)
<1> DEFINE n == Len(p[part])
           b == Births(p, part, w, starts)
           now == LivingAt(p, part, w, starts, 0)
<1>1. n \in Nat /\ \A j \in 1 .. n : IsPrefixDfa(p[part][j])
  BY ChainsTyped
<1>2. \A j \in 1 .. n : b[j] \in SUBSET Nat /\ (j # 1 => b[j] \subseteq 1 .. Len(w))
  BY BirthsAreNumbers
<1>3. 0 \in Nat /\ 0 <= Len(w)
  OBVIOUS
<1>4. \A x : x \in now <=> \E j \in 1 .. n : \E i \in b[j] :
                /\ i <= 0
                /\ LastsTo(p[part][j], w, i, 0)
                /\ x = <<j, At(p[part][j], w, i, 0)>>
  BY <1>3, LivingIs
<1>5. 1 \in 1 .. n => b[1] = starts
  BY BirthsUnfold
<1>6. \A j \in 1 .. n : At(p[part][j], w, 0, 0) = 0 /\ LastsTo(p[part][j], w, 0, 0)
  BY <1>1, <1>3, AtBegins
<1>7. n # 0 => ~MatchesAt(p, part, w, starts, 0)
  <2>1. n # 0 => (MatchesAt(p, part, w, starts, 0)
                    <=> \E i \in b[n] : \E k \in i + 1 .. 0 : TakesAt(p[part][n], w, i, k))
    BY <1>3, MatchesIs
  <2>2. n # 0 => b[n] \in SUBSET Nat
    BY <1>1, <1>2
  <2>3. \A i \in Nat : i + 1 .. 0 = {}
    OBVIOUS
  <2> HIDE DEF n, b
  <2> QED
    BY <2>1, <2>2, <2>3
<1> HIDE DEF n, b, now
<1>8. ASSUME NEW x \in now
      PROVE  x \in Begun(p, part, starts, 0)
  <2>1. PICK j \in 1 .. n : \E i \in b[j] :
          i <= 0 /\ LastsTo(p[part][j], w, i, 0) /\ x = <<j, At(p[part][j], w, i, 0)>>
    BY <1>4
  <2>2. PICK i \in b[j] :
          i <= 0 /\ LastsTo(p[part][j], w, i, 0) /\ x = <<j, At(p[part][j], w, i, 0)>>
    BY <2>1
  <2>3. i = 0 /\ j = 1
    BY <1>2, <2>2
  <2>4. x = <<1, 0>> /\ 0 \in starts /\ n # 0
    BY <1>1, <1>5, <1>6, <2>2, <2>3
  <2> QED
    BY <2>4 DEF Begun, n
<1>9. ASSUME NEW x \in Begun(p, part, starts, 0)
      PROVE  x \in now
  <2>1. x = <<1, 0>> /\ 0 \in starts /\ 1 \in 1 .. n
    BY <1>1, <1>9 DEF Begun, n
  <2> QED
    BY <1>4, <1>5, <1>6, <2>1
<1> QED
  BY <1>7, <1>8, <1>9 DEF now, n

(* Once a part of the word matches, it does whatever follows.              *)
LEMMA MatchesStay ==
  ASSUME NEW p \in Compiled, NEW part \in Parts, NEW w \in Seq(Symbols),
         NEW starts \in SUBSET Nat, NEW m \in Nat, NEW l \in Nat, m <= l, l <= Len(w),
         Len(p[part]) # 0, MatchesAt(p, part, w, starts, m)
  PROVE  MatchesAt(p, part, w, starts, l)
<1> DEFINE n == Len(p[part])
           b == Births(p, part, w, starts)
<1>1. /\ MatchesAt(p, part, w, starts, m)
           <=> \E i \in b[n] : \E k \in i + 1 .. m : TakesAt(p[part][n], w, i, k)
      /\ MatchesAt(p, part, w, starts, l)
           <=> \E i \in b[n] : \E k \in i + 1 .. l : TakesAt(p[part][n], w, i, k)
  <2>1. m <= Len(w)
    OBVIOUS
  <2> QED
    BY <2>1, MatchesIs
<1>2. b[n] \in SUBSET Nat
  BY ChainsTyped, BirthsAreNumbers
<1>3. \A i \in b[n] : i + 1 .. m \subseteq i + 1 .. l
  BY <1>2
<1> HIDE DEF n, b
<1> QED
  BY <1>1, <1>3

(* When the list is empty and nothing can begin any more, the rest of the  *)
(* word need not be read.                                                  *)
LEMMA NothingLeft ==
  ASSUME NEW p \in Compiled, NEW part \in Parts, NEW w \in Seq(Symbols),
         NEW starts \in SUBSET Nat, NEW m \in Nat, m <= Len(w), Len(p[part]) # 0,
         LivingAt(p, part, w, starts, m) = {}, ~MatchesAt(p, part, w, starts, m),
         \A i \in starts : i <= m
  PROVE  ~MatchesAt(p, part, w, starts, Len(w))
<1> DEFINE Off == {k \in m .. Len(w) : \/ LivingAt(p, part, w, starts, k) # {}
                                       \/ MatchesAt(p, part, w, starts, k)}
<1>1. SUFFICES ASSUME Off # {} PROVE FALSE
  OBVIOUS
<1>2. PICK k \in Off : \A l \in Off : k <= l
  <2> HIDE DEF Off
  <2>1. Off \in SUBSET Nat
    BY DEF Off
  <2> QED
    BY <1>1, <2>1, LeastNumber
<1>3. k \in m .. Len(w) /\ k # m
  BY <1>2
<1>4. k - 1 \in Nat /\ k - 1 < Len(w) /\ (k - 1) + 1 = k /\ k - 1 \in m .. Len(w)
  BY <1>3
<1>5. LivingAt(p, part, w, starts, k - 1) = {} /\ ~MatchesAt(p, part, w, starts, k - 1)
  BY <1>2, <1>4
<1>6. k \notin starts
  BY <1>3
<1> HIDE DEF Off
<1>7. LivingAt(p, part, w, starts, k) = {}
  <2>1. LivingAt(p, part, w, starts, (k - 1) + 1)
          = Outcome(p, part, LivingAt(p, part, w, starts, k - 1), w[(k - 1) + 1])
              \cup Begun(p, part, starts, (k - 1) + 1)
    BY <1>4, LivingGrows
  <2> QED
    BY <1>4, <1>5, <1>6, <2>1 DEF Outcome, Begun
<1>8. ~MatchesAt(p, part, w, starts, k)
  <2>1. MatchesAt(p, part, w, starts, (k - 1) + 1)
          <=> \/ MatchesAt(p, part, w, starts, k - 1)
              \/ \E e \in LivingAt(p, part, w, starts, k - 1) :
                    Ends(p, part, e, w[(k - 1) + 1])
    BY <1>4, MatchesGrow
  <2> QED
    BY <1>4, <1>5, <2>1
<1> QED
  BY <1>2, <1>7, <1>8 DEF Off

-----------------------------------------------------------------------------
(***************************************************************************)
(* traverse looks for the part after every hit at once, in one list.       *)
(***************************************************************************)
(* A slice of the word from s on, by its own numbers.                      *)
LEMMA TakesShifted ==
  ASSUME NEW D, NEW w \in Seq(Symbols), NEW s \in Nat, NEW i \in Nat, NEW k \in Nat,
         s <= i, i <= k, k <= Len(w)
  PROVE  TakesAt(D, SubSeq(w, s + 1, Len(w)), i - s, k - s) <=> TakesAt(D, w, i, k)
<1>1. /\ Len(w) \in Nat /\ i - s \in Nat /\ k - s \in Nat /\ s <= Len(w)
      /\ i - s <= k - s /\ k - s <= Len(w) - s
  OBVIOUS
<1>2. SubSeq(SubSeq(w, s + 1, Len(w)), (i - s) + 1, k - s)
        = SubSeq(w, s + (i - s) + 1, s + (k - s))
  BY <1>1, SliceOfSlice
<1>3. s + (i - s) = i /\ s + (k - s) = k
  OBVIOUS
<1> QED
  BY <1>2, <1>3 DEF TakesAt

(* Node j begins where it would for one of the starts alone.               *)
LEMMA BirthsApart ==
  ASSUME NEW p \in Compiled, NEW part \in Parts, NEW w \in Seq(Symbols),
         NEW starts \in SUBSET Nat
  PROVE  \A j \in 1 .. Len(p[part]) : \A k \in 0 .. Len(w) :
           k \in Births(p, part, w, starts)[j]
             <=> \E s \in starts :
                   /\ s <= k
                   /\ k - s \in Births(p, part, SubSeq(w, s + 1, Len(w)), {0})[j]
<1> DEFINE n == Len(p[part])
           b == Births(p, part, w, starts)
           c(s) == Births(p, part, SubSeq(w, s + 1, Len(w)), {0})
           Apart(j, k) == k \in b[j] <=> \E s \in starts : s <= k /\ k - s \in c(s)[j]
           Off == {j \in 1 .. n : \E k \in 0 .. Len(w) : ~Apart(j, k)}
<1>1. n \in Nat /\ Len(w) \in Nat
  BY ChainsTyped
<1>2. SUFFICES ASSUME Off # {} PROVE FALSE
  OBVIOUS
<1>3. PICK j \in Off : \A l \in Off : j <= l
  <2> HIDE DEF Off
  <2>1. Off \in SUBSET Nat
    BY DEF Off
  <2> QED
    BY <1>2, <2>1, LeastNumber
<1>4. PICK k \in 0 .. Len(w) : ~Apart(j, k)
  BY <1>3
<1>5. j \in 1 .. n
  BY <1>3
<1>6. b[j] = IF j = 1 THEN starts ELSE BornFrom(p, part, w, j, b[j - 1])
  BY <1>5, BirthsUnfold
<1>7. ASSUME NEW s \in Nat, s <= Len(w)
      PROVE  /\ Len(SubSeq(w, s + 1, Len(w))) = Len(w) - s
             /\ c(s)[j] = IF j = 1 THEN {0}
                          ELSE BornFrom(p, part, SubSeq(w, s + 1, Len(w)), j, c(s)[j - 1])
             /\ j # 1 => c(s)[j - 1] \in SUBSET Nat
  <2>1. /\ SubSeq(w, s + 1, Len(w)) \in Seq(Symbols)
        /\ Len(SubSeq(w, s + 1, Len(w))) = Len(w) - s
    BY <1>1, <1>7, SliceIsWord
  <2>2. {0} \in SUBSET Nat
    OBVIOUS
  <2>3. j # 1 => j - 1 \in 1 .. n
    BY <1>1, <1>5
  <2> DEFINE v == SubSeq(w, s + 1, Len(w))
  <2>4. c(s)[j] = IF j = 1 THEN {0} ELSE BornFrom(p, part, v, j, c(s)[j - 1])
    <3> HIDE DEF Off, Apart, b, v
    <3>1. v \in Seq(Symbols)
      BY <2>1 DEF v
    <3>2. \A i \in 1 .. n :
            Births(p, part, v, {0})[i] =
              IF i = 1 THEN {0} ELSE BornFrom(p, part, v, i, Births(p, part, v, {0})[i - 1])
      BY <2>2, <3>1, BirthsUnfold
    <3> QED
      BY <1>5, <3>2 DEF v
  <2>5. j # 1 => c(s)[j - 1] \in SUBSET Nat
    <3> HIDE DEF Off, Apart, b
    <3> QED
      BY <2>1, <2>2, <2>3, BirthsAreNumbers
  <2> QED
    BY <2>1, <2>4, <2>5
<1> HIDE DEF b, c
<1>8. j # 1
  <2> SUFFICES ASSUME j = 1 PROVE FALSE
    OBVIOUS
  <2>1. \A s \in starts : s <= k => c(s)[1] = {0}
    BY <1>7
  <2>2. k \in starts <=> \E s \in starts : s <= k /\ k - s \in c(s)[1]
    <3>1. k \in starts => k <= k /\ k - k \in {0}
      OBVIOUS
    <3>2. \A s \in starts : k - s \in {0} => k = s
      OBVIOUS
    <3> QED
      BY <2>1, <3>1, <3>2
  <2> QED
    BY <1>4, <1>6, <2>2
<1>9. \A i \in 0 .. Len(w) : Apart(j - 1, i)
  <2>1. j - 1 \in 1 .. n /\ j - 1 < j
    BY <1>1, <1>5, <1>8
  <2>2. j - 1 \notin Off
    <3> HIDE DEF Off
    <3>1. Off \subseteq Nat
      BY DEF Off
    <3> QED
      BY <1>3, <2>1, <3>1
  <2> QED
    BY <2>1, <2>2
<1> HIDE DEF Off, n
<1>10. ASSUME NEW s \in Nat, NEW i \in Nat, s <= i, i < k
       PROVE  TakesAt(p[part][j - 1], SubSeq(w, s + 1, Len(w)), i - s, k - s)
                <=> TakesAt(p[part][j - 1], w, i, k)
  <2>1. k \in Nat /\ i <= k /\ k <= Len(w)
    BY <1>1, <1>10
  <2> QED
    BY <1>10, <2>1, TakesShifted
<1>11. ASSUME k \in b[j]
       PROVE  \E s \in starts : s <= k /\ k - s \in c(s)[j]
  <2>1. /\ HasDfa(p, part, j)
        /\ \E i \in b[j - 1] : i < k /\ TakesAt(p[part][j - 1], w, i, k)
    BY <1>6, <1>8, <1>11 DEF BornFrom
  <2>2. PICK i \in b[j - 1] : i < k /\ TakesAt(p[part][j - 1], w, i, k)
    BY <2>1
  <2>3. i \in 0 .. Len(w)
    <3>1. b[j - 1] \in SUBSET Nat
      <4>1. j - 1 \in 1 .. Len(p[part])
        BY <1>1, <1>5, <1>8 DEF n
      <4> QED
        BY <4>1, BirthsAreNumbers DEF b
    <3> QED
      BY <1>1, <2>2, <3>1
  <2>4. PICK s \in starts : s <= i /\ i - s \in c(s)[j - 1]
    BY <1>9, <2>2, <2>3
  <2>5. /\ s \in Nat /\ s <= k /\ s <= Len(w) /\ i - s < k - s
        /\ k - s \in 1 .. Len(w) - s
    BY <1>1, <2>2, <2>3, <2>4
  <2>6. TakesAt(p[part][j - 1], SubSeq(w, s + 1, Len(w)), i - s, k - s)
    BY <1>10, <2>2, <2>3, <2>4, <2>5
  <2>7. k - s \in BornFrom(p, part, SubSeq(w, s + 1, Len(w)), j, c(s)[j - 1])
    <3>1. k - s \in 1 .. Len(SubSeq(w, s + 1, Len(w)))
      BY <1>7, <2>5
    <3> QED
      BY <2>1, <2>4, <2>5, <2>6, <3>1 DEF BornFrom
  <2>8. k - s \in c(s)[j]
    BY <1>7, <1>8, <2>5, <2>7
  <2> QED
    BY <2>5, <2>8
<1>12. ASSUME NEW s \in starts, s <= k, k - s \in c(s)[j]
       PROVE  k \in b[j]
  <2>1. s \in Nat /\ s <= Len(w)
    BY <1>1, <1>12
  <2>2. k - s \in BornFrom(p, part, SubSeq(w, s + 1, Len(w)), j, c(s)[j - 1])
    BY <1>7, <1>8, <1>12, <2>1
  <2>3. /\ HasDfa(p, part, j)
        /\ k - s \in 1 .. Len(SubSeq(w, s + 1, Len(w)))
        /\ \E i \in c(s)[j - 1] :
              i < k - s /\ TakesAt(p[part][j - 1], SubSeq(w, s + 1, Len(w)), i, k - s)
    BY <2>2 DEF BornFrom
  <2>4. PICK h \in c(s)[j - 1] :
          h < k - s /\ TakesAt(p[part][j - 1], SubSeq(w, s + 1, Len(w)), h, k - s)
    BY <2>3
  <2> DEFINE i == s + h
  <2>5. h \in Nat
    BY <1>7, <1>8, <2>1
  <2>6. i \in Nat /\ i \in 0 .. Len(w) /\ s <= i /\ i < k /\ i - s = h /\ k \in 1 .. Len(w)
    BY <1>1, <2>1, <2>4, <2>5
  <2> HIDE DEF i
  <2>7. i \in b[j - 1]
    BY <1>9, <2>4, <2>6
  <2>8. TakesAt(p[part][j - 1], w, i, k)
    BY <1>10, <2>1, <2>4, <2>6
  <2> QED
    BY <1>6, <1>8, <2>3, <2>6, <2>7, <2>8 DEF BornFrom
<1> QED
  BY <1>4, <1>11, <1>12

(* And a chain matches if it does from one of them.                        *)
MatchesFromOne(p, part, w, starts, m) ==
  \E s \in starts :
     s <= m /\ MatchesAt(p, part, SubSeq(w, s + 1, Len(w)), {0}, m - s)

(* Nodes that different hits start do not disturb one another. *)
LEMMA MatchesApart ==
  ASSUME NEW p \in Compiled, NEW part \in Parts, NEW w \in Seq(Symbols),
         NEW starts \in SUBSET Nat, NEW m \in Nat, m <= Len(w), Len(p[part]) # 0
  PROVE  MatchesAt(p, part, w, starts, m) <=> MatchesFromOne(p, part, w, starts, m)
<1> DEFINE n == Len(p[part])
           b == Births(p, part, w, starts)
           v(s) == SubSeq(w, s + 1, Len(w))
           c(s) == Births(p, part, v(s), {0})
<1>1. n \in 1 .. n /\ b[n] \in SUBSET Nat /\ Len(w) \in Nat
  BY ChainsTyped, BirthsAreNumbers
<1>2. MatchesAt(p, part, w, starts, m)
        <=> \E i \in b[n] : \E k \in i + 1 .. m : TakesAt(p[part][n], w, i, k)
  BY MatchesIs
<1>3. ASSUME NEW s \in Nat, s <= m
      PROVE  /\ c(s)[n] \in SUBSET Nat
             /\ MatchesAt(p, part, v(s), {0}, m - s)
                  <=> \E i \in c(s)[n] : \E k \in i + 1 .. m - s : TakesAt(p[part][n], v(s), i, k)
  <2>1. v(s) \in Seq(Symbols) /\ Len(v(s)) = Len(w) - s
    BY <1>1, <1>3, SliceIsWord
  <2>2. {0} \in SUBSET Nat /\ m - s \in Nat /\ m - s <= Len(v(s))
    BY <1>1, <1>3, <2>1
  <2> HIDE DEF v
  <2> QED
    BY <1>1, <2>1, <2>2, MatchesIs, BirthsAreNumbers
<1>4. ASSUME NEW k \in 0 .. Len(w)
      PROVE  k \in b[n] <=> \E s \in starts : s <= k /\ k - s \in c(s)[n]
  BY <1>1, BirthsApart
<1>5. ASSUME NEW s \in Nat, NEW i \in Nat, NEW k \in Nat, s <= i, i <= k, k <= Len(w)
      PROVE  TakesAt(p[part][n], v(s), i - s, k - s) <=> TakesAt(p[part][n], w, i, k)
  BY <1>5, TakesShifted
<1> HIDE DEF n, b, v, c
<1>6. ASSUME NEW i \in b[n], NEW k \in i + 1 .. m, TakesAt(p[part][n], w, i, k)
      PROVE  \E s \in starts : s <= m /\ MatchesAt(p, part, v(s), {0}, m - s)
  <2>1. i \in Nat /\ k \in Nat /\ i <= k /\ k <= Len(w) /\ i \in 0 .. Len(w) /\ i < k /\ k <= m
    BY <1>1
  <2>2. PICK s \in starts : s <= i /\ i - s \in c(s)[n]
    BY <1>4, <2>1
  <2>3. s \in Nat /\ s <= m /\ k - s \in (i - s) + 1 .. m - s
    BY <2>1, <2>2
  <2>4. TakesAt(p[part][n], v(s), i - s, k - s)
    BY <1>5, <1>6, <2>1, <2>2, <2>3
  <2>5. MatchesAt(p, part, v(s), {0}, m - s)
    BY <1>3, <2>2, <2>3, <2>4
  <2> QED
    BY <2>3, <2>5
<1>7. ASSUME NEW s \in starts, s <= m, MatchesAt(p, part, v(s), {0}, m - s)
      PROVE  \E i \in b[n] : \E k \in i + 1 .. m : TakesAt(p[part][n], w, i, k)
  <2>1. s \in Nat
    OBVIOUS
  <2>2. PICK h \in c(s)[n] : \E k \in h + 1 .. m - s : TakesAt(p[part][n], v(s), h, k)
    BY <1>3, <1>7, <2>1
  <2>3. PICK l \in h + 1 .. m - s : TakesAt(p[part][n], v(s), h, l)
    BY <2>2
  <2>4. h \in Nat
    BY <1>3, <1>7, <2>1
  <2> DEFINE i == s + h
             k == s + l
  <2>5. /\ i \in Nat /\ k \in Nat /\ s <= i /\ i <= k /\ k <= Len(w) /\ i \in 0 .. Len(w)
        /\ i - s = h /\ k - s = l /\ k \in i + 1 .. m
    BY <1>1, <2>1, <2>3, <2>4
  <2> HIDE DEF i, k
  <2>6. i \in b[n]
    BY <1>4, <2>2, <2>5
  <2>7. TakesAt(p[part][n], w, i, k)
    BY <1>5, <2>1, <2>3, <2>5
  <2> QED
    BY <2>5, <2>6, <2>7
<1> QED
  BY <1>2, <1>6, <1>7 DEF v, MatchesFromOne

-----------------------------------------------------------------------------
(***************************************************************************)
(* The two lists while they are walked.                                    *)
(***************************************************************************)
WalkTyped(p, part, w) ==
  /\ w \in [prefixDfas : Seq(1 .. Len(p[part])), states : Seq(Nat),
            it_prefixdfa : Nat, it_state : Nat, add_post : Seq(1 .. Len(p[part]))]
  /\ Len(w.prefixDfas) = Len(w.states)
  /\ w.it_prefixdfa = w.it_state
  /\ w.it_state \in 1 .. Len(w.states) + 1
  /\ \A i \in 1 .. Len(w.states) : /\ HasDfa(p, part, w.prefixDfas[i])
                                  /\ w.states[i] \in StatesOf(p[part][w.prefixDfas[i]])
  /\ \A i \in 1 .. Len(w.add_post) : HasDfa(p, part, w.add_post[i])

(* The entries that were visited, those that were not, and the nodes that  *)
(* will join them.                                                         *)
Entry(w, i) == <<w.prefixDfas[i], w.states[i]>>
Done(w)     == {Entry(w, i) : i \in 1 .. w.it_state - 1}
Ahead(w)    == {Entry(w, i) : i \in w.it_state .. Len(w.states)}
Added(w)    == {<<w.add_post[i], 0>> : i \in 1 .. Len(w.add_post)}

(* Erasing an entry of a list moves the later ones to its left. *)
LEMMA RemoveAtProperties ==
  ASSUME NEW S, NEW s \in Seq(S), NEW i \in 1 .. Len(s)
  PROVE  /\ RemoveAt(s, i) \in Seq(S)
         /\ Len(RemoveAt(s, i)) = Len(s) - 1
         /\ \A k \in 1 .. i - 1 : RemoveAt(s, i)[k] = s[k]
         /\ \A k \in i .. Len(s) - 1 : RemoveAt(s, i)[k] = s[k + 1]
<1> DEFINE l == SubSeq(s, 1, i - 1)
           r == SubSeq(s, i + 1, Len(s))
<1>1. /\ l \in Seq(S) /\ Len(l) = i - 1
      /\ \A k \in 1 .. i - 1 : l[k] = s[k]
  <2>1. 0 \in Nat /\ i - 1 \in Nat /\ 0 <= i - 1 /\ i - 1 <= Len(s)
    OBVIOUS
  <2>2. /\ SubSeq(s, 0 + 1, i - 1) \in Seq(S)
        /\ Len(SubSeq(s, 0 + 1, i - 1)) = (i - 1) - 0
        /\ \A k \in 1 .. (i - 1) - 0 : SubSeq(s, 0 + 1, i - 1)[k] = s[0 + k]
    BY <2>1, SliceIsWord
  <2> QED
    BY <2>2
<1>2. /\ r \in Seq(S) /\ Len(r) = Len(s) - i
      /\ \A k \in 1 .. Len(s) - i : r[k] = s[i + k]
  <2>1. i \in Nat /\ Len(s) \in Nat /\ i <= Len(s)
    OBVIOUS
  <2> QED
    BY <2>1, SliceIsWord
<1>3. RemoveAt(s, i) = l \o r
  BY DEF RemoveAt
<1> HIDE DEF l, r
<1>4. /\ l \o r \in Seq(S) /\ Len(l \o r) = Len(l) + Len(r)
      /\ \A k \in 1 .. Len(l) + Len(r) :
            (l \o r)[k] = IF k <= Len(l) THEN l[k] ELSE r[k - Len(l)]
  BY <1>1, <1>2, ConcatProperties
<1>5. \A k \in i .. Len(s) - 1 : (l \o r)[k] = s[k + 1]
  <2> SUFFICES ASSUME NEW k \in i .. Len(s) - 1
               PROVE  (l \o r)[k] = s[k + 1]
    OBVIOUS
  <2>1. k \in 1 .. Len(l) + Len(r) /\ ~(k <= Len(l)) /\ k - Len(l) \in 1 .. Len(s) - i
        /\ i + (k - Len(l)) = k + 1
    BY <1>1, <1>2
  <2>2. (l \o r)[k] = r[k - Len(l)] /\ r[k - Len(l)] = s[i + (k - Len(l))]
    BY <1>2, <1>4, <2>1
  <2> QED
    BY <2>1, <2>2
<1>6. \A k \in 1 .. i - 1 : (l \o r)[k] = s[k]
  BY <1>1, <1>2, <1>4
<1>7. Len(l) + Len(r) = Len(s) - 1
  BY <1>1, <1>2
<1> QED
  BY <1>3, <1>4, <1>5, <1>6, <1>7

(* A visit to an entry, and the nodes it adds.                             *)
AfterVisit(p, part, w, c) ==
  LET node == w.prefixDfas[w.it_prefixdfa]
      D    == p[part][node]
      t    == D.table[w.states[w.it_state]][c]
  IN [Visited(w, D, t) EXCEPT
        !.add_post = @ \o IF Accepts(D, t) THEN PostDfa(p, part, node) ELSE <<>>]

(* A visit takes one entry from those to come to those moved on, to be added or erased. *)
LEMMA VisitMovesOne ==
  ASSUME NEW p \in Compiled, NEW part \in Parts, NEW w, WalkTyped(p, part, w),
         NEW c \in Symbols, w.it_state <= Len(w.states),
         ~Ends(p, part, Entry(w, w.it_state), c)
  PROVE  LET v == AfterVisit(p, part, w, c)
             e == Entry(w, w.it_state)
         IN /\ WalkTyped(p, part, v)
            /\ Done(v) = Done(w) \cup Moved(p, part, e, c)
            /\ Ahead(w) = {e} \cup Ahead(v)
            /\ Added(v) = Added(w) \cup Started(p, part, e, c)
<1> DEFINE k == w.it_state
           e == Entry(w, k)
           node == w.prefixDfas[k]
           D == p[part][node]
           t == D.table[w.states[k]][c]
           more == IF Accepts(D, t) THEN PostDfa(p, part, node) ELSE <<>>
           v == AfterVisit(p, part, w, c)
           n == Len(p[part])
<1>1. /\ w \in [prefixDfas : Seq(1 .. n), states : Seq(Nat), it_prefixdfa : Nat,
                it_state : Nat, add_post : Seq(1 .. n)]
      /\ w.it_prefixdfa = k /\ k \in 1 .. Len(w.states) /\ Len(w.prefixDfas) = Len(w.states)
  BY DEF WalkTyped
<1>2. n \in Nat /\ node \in 1 .. n /\ IsPrefixDfa(D) /\ w.states[k] \in StatesOf(D)
  BY <1>1, ChainsTyped DEF WalkTyped
<1>3. t \in StatesOf(D) /\ t \in Nat
  <2>1. D.table \in [StatesOf(D) -> [Symbols -> StatesOf(D)]]
    BY <1>2 DEF IsPrefixDfa
  <2> HIDE DEF D, k
  <2>2. t \in StatesOf(D)
    BY <1>2, <2>1
  <2> HIDE DEF t
  <2> QED
    BY <2>2 DEF StatesOf
<1>4. t = To(p, part, e, c) /\ e = <<node, w.states[k]>> /\ e[1] = node /\ D = p[part][node]
  BY DEF To, Entry
<1>5. Moved(p, part, e, c) = IF t = D.dead_state THEN {} ELSE {<<node, t>>}
  <2> HIDE DEF t, e, node, D
  <2>1. \A x \in {<<node, t>>} : x[2] = t
    OBVIOUS
  <2>2. Moved(p, part, e, c) = {x \in {<<node, t>>} : x[2] # D.dead_state}
    BY <1>4 DEF Moved
  <2> QED
    BY <2>1, <2>2
<1>6. v = [Visited(w, D, t) EXCEPT !.add_post = @ \o more]
  BY <1>1 DEF AfterVisit
<1>7. /\ more \in Seq(1 .. n)
      /\ \A i \in 1 .. Len(more) : HasDfa(p, part, more[i])
      /\ {<<more[i], 0>> : i \in 1 .. Len(more)} = Started(p, part, e, c)
  <2>1. CASE Accepts(D, t) /\ HasDfa(p, part, node + 1)
    <3>1. ~IsLast(p, part, node)
      BY <1>4, <2>1 DEF Ends
    <3>2. more = <<node + 1>>
      BY <2>1 DEF PostDfa
    <3>4. node # n
      BY <3>1 DEF IsLast
    <3>5. node + 1 \in 1 .. n
      <4> HIDE DEF node, n
      <4> QED
        BY <1>2, <3>4
    <3>3. Started(p, part, e, c) = {<<node + 1, 0>>}
      BY <1>4, <2>1, <3>1 DEF Started
    <3> HIDE DEF more, n, D, t, node
    <3> QED
      BY <2>1, <3>2, <3>3, <3>5
  <2>2. CASE ~(Accepts(D, t) /\ HasDfa(p, part, node + 1))
    <3>1. more = <<>>
      BY <2>2 DEF PostDfa
    <3>2. Started(p, part, e, c) = {}
      BY <1>4, <2>2 DEF Started
    <3> HIDE DEF more
    <3> QED
      BY <3>1, <3>2
  <2> QED
    BY <2>1, <2>2
<1> HIDE DEF more
<1>8. \A a \in Seq(1 .. n) :
        /\ a \o more \in Seq(1 .. n)
        /\ Len(a \o more) = Len(a) + Len(more)
        /\ \A i \in 1 .. Len(a) : (a \o more)[i] = a[i]
        /\ \A i \in 1 .. Len(more) : (a \o more)[Len(a) + i] = more[i]
  BY <1>7
<1>9. /\ Len(w.states) \in Nat
      /\ w.prefixDfas \in Seq(1 .. n) /\ w.states \in Seq(Nat) /\ w.add_post \in Seq(1 .. n)
      /\ \A i \in 1 .. Len(w.states) : /\ HasDfa(p, part, w.prefixDfas[i])
                                      /\ w.states[i] \in StatesOf(p[part][w.prefixDfas[i]])
      /\ \A i \in 1 .. Len(w.add_post) : HasDfa(p, part, w.add_post[i])
  BY DEF WalkTyped
<1> HIDE DEF n
<1>10. /\ Added(v) = Added(w) \cup Started(p, part, e, c)
      /\ v.add_post \in Seq(1 .. n)
      /\ \A i \in 1 .. Len(v.add_post) : HasDfa(p, part, v.add_post[i])
  <2>1. v.add_post = w.add_post \o more
    BY <1>1, <1>6 DEF Visited
  <2> HIDE DEF v, e
  <2> DEFINE a == w.add_post
             ab == a \o more
  <2>2. /\ ab \in Seq(1 .. n) /\ Len(ab) = Len(a) + Len(more)
        /\ Len(a) \in Nat /\ Len(more) \in Nat
        /\ \A i \in 1 .. Len(a) : ab[i] = a[i]
        /\ \A i \in 1 .. Len(more) : ab[Len(a) + i] = more[i]
    BY <1>7, <1>8, <1>9
  <2> HIDE DEF a, ab
  <2>3. \A i \in 1 .. Len(ab) : \/ i \in 1 .. Len(a) /\ ab[i] = a[i]
                                \/ /\ i - Len(a) \in 1 .. Len(more)
                                   /\ ab[i] = more[i - Len(a)]
    <3> SUFFICES ASSUME NEW i \in 1 .. Len(ab), i \notin 1 .. Len(a)
                 PROVE  i - Len(a) \in 1 .. Len(more) /\ ab[i] = more[i - Len(a)]
      BY <2>2
    <3>1. i - Len(a) \in 1 .. Len(more) /\ Len(a) + (i - Len(a)) = i
      BY <2>2
    <3> QED
      BY <2>2, <3>1
  <2>4. \A i \in 1 .. Len(a) : i \in 1 .. Len(ab) /\ ab[i] = a[i]
    BY <2>2
  <2>5. \A i \in 1 .. Len(more) : Len(a) + i \in 1 .. Len(ab) /\ ab[Len(a) + i] = more[i]
    BY <2>2
  <2>6. {<<ab[i], 0>> : i \in 1 .. Len(ab)}
          = {<<a[i], 0>> : i \in 1 .. Len(a)} \cup {<<more[i], 0>> : i \in 1 .. Len(more)}
    BY <2>3, <2>4, <2>5
  <2>7. \A i \in 1 .. Len(ab) : HasDfa(p, part, ab[i])
    BY <1>7, <1>9, <2>3 DEF a
  <2>8. v.add_post = ab /\ w.add_post = a
    BY <2>1 DEF a, ab
  <2>9. Added(v) = Added(w) \cup Started(p, part, e, c)
    BY <1>7, <2>6, <2>8 DEF Added
  <2> QED
    BY <2>2, <2>7, <2>8, <2>9
<1>11. CASE t = D.dead_state
  <2> DEFINE pd == RemoveAt(w.prefixDfas, k)
             st == RemoveAt(w.states, k)
  <2>1. /\ v.prefixDfas = pd /\ v.states = st /\ v.it_state = k /\ v.it_prefixdfa = k
        /\ v.add_post = w.add_post \o more
        /\ v = [prefixDfas |-> pd, states |-> st, it_prefixdfa |-> k, it_state |-> k,
                add_post |-> w.add_post \o more]
    BY <1>1, <1>6, <1>11 DEF Visited
  <2> HIDE DEF v, t, D, node, e
  <2>2. /\ pd \in Seq(1 .. n) /\ Len(pd) = Len(w.states) - 1
        /\ \A i \in 1 .. k - 1 : pd[i] = w.prefixDfas[i]
        /\ \A i \in k .. Len(w.states) - 1 : pd[i] = w.prefixDfas[i + 1]
    <3>1. k \in 1 .. Len(w.prefixDfas)
      BY <1>1
    <3>2. /\ pd \in Seq(1 .. n) /\ Len(pd) = Len(w.prefixDfas) - 1
          /\ \A i \in 1 .. k - 1 : pd[i] = w.prefixDfas[i]
          /\ \A i \in k .. Len(w.prefixDfas) - 1 : pd[i] = w.prefixDfas[i + 1]
      BY ZenonT(20), <1>9, <3>1, RemoveAtProperties
    <3> HIDE DEF k, pd
    <3> QED
      BY <1>1, <3>2
  <2>3. /\ st \in Seq(Nat) /\ Len(st) = Len(w.states) - 1
        /\ \A i \in 1 .. k - 1 : st[i] = w.states[i]
        /\ \A i \in k .. Len(w.states) - 1 : st[i] = w.states[i + 1]
    BY <1>1, <1>9, RemoveAtProperties
  <2> HIDE DEF k, pd, st
  <2>4. /\ \A i \in 1 .. k - 1 : Entry(v, i) = Entry(w, i)
        /\ \A i \in k .. Len(w.states) - 1 : Entry(v, i) = Entry(w, i + 1)
    BY <2>1, <2>2, <2>3 DEF Entry
  <2>5. Done(v) = Done(w)
    BY <2>1, <2>4 DEF Done, k
  <2>6. Ahead(v) = {Entry(w, i) : i \in k + 1 .. Len(w.states)}
    <3>1. Ahead(v) = {Entry(v, i) : i \in k .. Len(w.states) - 1}
      BY <2>1, <2>3 DEF Ahead
    <3>2. \A i \in k .. Len(w.states) - 1 :
            i + 1 \in k + 1 .. Len(w.states) /\ Entry(v, i) = Entry(w, i + 1)
      BY <1>1, <1>9, <2>4
    <3>3. \A i \in k + 1 .. Len(w.states) :
            i - 1 \in k .. Len(w.states) - 1 /\ Entry(v, i - 1) = Entry(w, i)
      <4> SUFFICES ASSUME NEW i \in k + 1 .. Len(w.states)
                   PROVE  i - 1 \in k .. Len(w.states) - 1 /\ Entry(v, i - 1) = Entry(w, i)
        OBVIOUS
      <4>1. i - 1 \in k .. Len(w.states) - 1 /\ (i - 1) + 1 = i
        BY <1>1, <1>9
      <4> QED
        BY <2>4, <4>1
    <3> QED
      BY <3>1, <3>2, <3>3
  <2>7. \A i \in 1 .. Len(v.states) : /\ HasDfa(p, part, v.prefixDfas[i])
                                     /\ v.states[i] \in StatesOf(p[part][v.prefixDfas[i]])
    <3> SUFFICES ASSUME NEW i \in 1 .. Len(w.states) - 1
                 PROVE  /\ HasDfa(p, part, v.prefixDfas[i])
                        /\ v.states[i] \in StatesOf(p[part][v.prefixDfas[i]])
      BY <2>1, <2>3
    <3>1. \/ i \in 1 .. k - 1 /\ i \in 1 .. Len(w.states)
          \/ i \in k .. Len(w.states) - 1 /\ i + 1 \in 1 .. Len(w.states)
      BY <1>1, <1>9
    <3> QED
      BY <1>9, <2>1, <2>2, <2>3, <3>1
  <2>8. WalkTyped(p, part, v)
    <3>1. v \in [prefixDfas : Seq(1 .. n), states : Seq(Nat), it_prefixdfa : Nat,
                 it_state : Nat, add_post : Seq(1 .. n)]
      BY <1>1, <1>9, <1>10, <2>1, <2>2, <2>3
    <3>2. k \in 1 .. Len(v.states) + 1
      BY <1>1, <1>9, <2>1, <2>3
    <3> QED
      BY <1>10, <2>1, <2>2, <2>3, <2>7, <3>1, <3>2 DEF WalkTyped, n
  <2>9. Ahead(w) = {e} \cup Ahead(v)
    <3>1. \A i : i \in k .. Len(w.states) <=> i = k \/ i \in k + 1 .. Len(w.states)
      BY <1>1, <1>9
    <3> QED
      BY <2>6, <3>1 DEF Ahead, e, k
  <2>10. Done(v) = Done(w) \cup Moved(p, part, e, c)
    BY <1>11, <1>5, <2>5
  <2> QED
    BY <1>10, <2>8, <2>9, <2>10 DEF v, e, k
<1>12. CASE t # D.dead_state
  <2> DEFINE st == [w.states EXCEPT ![k] = t]
  <2>1. /\ v.prefixDfas = w.prefixDfas /\ v.states = st
        /\ v.it_state = k + 1 /\ v.it_prefixdfa = k + 1
        /\ v.add_post = w.add_post \o more
        /\ v = [prefixDfas |-> w.prefixDfas, states |-> st, it_prefixdfa |-> k + 1,
                it_state |-> k + 1, add_post |-> w.add_post \o more]
    BY <1>1, <1>6, <1>12 DEF Visited
  <2> HIDE DEF v, t, D, node, e
  <2>2. /\ st \in Seq(Nat) /\ Len(st) = Len(w.states)
        /\ \A i \in 1 .. Len(w.states) : st[i] = IF i = k THEN t ELSE w.states[i]
    BY <1>1, <1>3, <1>9, ExceptSeq
  <2> HIDE DEF k, st
  <2>3. /\ \A i \in 1 .. k - 1 : Entry(v, i) = Entry(w, i)
        /\ \A i \in k + 1 .. Len(w.states) : Entry(v, i) = Entry(w, i)
        /\ Entry(v, k) = <<node, t>>
    <3>1. \A i \in 1 .. Len(w.states) : i # k => Entry(v, i) = Entry(w, i)
      BY <2>1, <2>2 DEF Entry
    <3>2. Entry(v, k) = <<node, t>>
      BY <1>1, <2>1, <2>2 DEF Entry, node
    <3>3. /\ \A i \in 1 .. k - 1 : i \in 1 .. Len(w.states) /\ i # k
          /\ \A i \in k + 1 .. Len(w.states) : i \in 1 .. Len(w.states) /\ i # k
      BY SMTT(20), <1>1, <1>9
    <3> QED
      BY <3>1, <3>2, <3>3
  <2>4. Done(v) = Done(w) \cup {<<node, t>>}
    <3>1. \A i : i \in 1 .. k <=> i = k \/ i \in 1 .. k - 1
      BY <1>1
    <3>2. Done(v) = {Entry(v, i) : i \in 1 .. k}
      BY <1>1, <2>1 DEF Done
    <3> QED
      BY <2>3, <3>1, <3>2 DEF Done, k
  <2>5. Ahead(w) = {e} \cup Ahead(v)
    <3>1. \A i : i \in k .. Len(w.states) <=> i = k \/ i \in k + 1 .. Len(w.states)
      BY <1>1, <1>9
    <3>2. Ahead(v) = {Entry(v, i) : i \in k + 1 .. Len(w.states)}
      BY <2>1, <2>2 DEF Ahead
    <3> QED
      BY <2>3, <3>1, <3>2 DEF Ahead, e, k
  <2>6. \A i \in 1 .. Len(v.states) : /\ HasDfa(p, part, v.prefixDfas[i])
                                     /\ v.states[i] \in StatesOf(p[part][v.prefixDfas[i]])
    <3> SUFFICES ASSUME NEW i \in 1 .. Len(w.states)
                 PROVE  /\ HasDfa(p, part, v.prefixDfas[i])
                        /\ v.states[i] \in StatesOf(p[part][v.prefixDfas[i]])
      BY <2>1, <2>2
    <3>1. i = k => t \in StatesOf(p[part][w.prefixDfas[i]])
      BY <1>3, <1>4 DEF node
    <3> QED
      BY <1>9, <2>1, <2>2, <3>1
  <2>7. WalkTyped(p, part, v)
    <3>1. v \in [prefixDfas : Seq(1 .. n), states : Seq(Nat), it_prefixdfa : Nat,
                 it_state : Nat, add_post : Seq(1 .. n)]
      BY <1>1, <1>9, <1>10, <2>1, <2>2
    <3>2. k + 1 \in 1 .. Len(v.states) + 1
      BY <1>1, <1>9, <2>1, <2>2
    <3> QED
      BY <1>1, <1>10, <2>1, <2>2, <2>6, <3>1, <3>2 DEF WalkTyped, n
  <2> QED
    BY <1>12, <1>5, <1>10, <2>4, <2>5, <2>7 DEF v, e, k
<1> QED
  BY <1>11, <1>12

(* While the m-th symbol is read, what was done and what is ahead make up  *)
(* the list after it, and only an entry ahead can end the walk.            *)
Midway(p, part, w, word, starts, m) ==
  /\ Done(w) \cup Added(w) \cup Outcome(p, part, Ahead(w), word[m])
       = LivingAt(p, part, word, starts, m)
  /\ Len(p[part]) # 0 =>
       (MatchesAt(p, part, word, starts, m)
          <=> \E e \in Ahead(w) : Ends(p, part, e, word[m]))

(* Between the m-th symbol and the next.                                   *)
Between(p, part, w, word, starts, m) ==
  /\ w.it_state = 1 /\ w.add_post = <<>>
  /\ Listed(w) = LivingAt(p, part, word, starts, m)
  /\ Len(p[part]) # 0 => ~MatchesAt(p, part, word, starts, m)

(* A visit keeps what is said in the middle of a symbol, and matches if it ends a part. *)
LEMMA VisitGoesOn ==
  ASSUME NEW p \in Compiled, NEW part \in Parts, NEW w, WalkTyped(p, part, w),
         NEW word \in Seq(Symbols), NEW starts \in SUBSET Nat, NEW m \in 1 .. Len(word),
         Midway(p, part, w, word, starts, m), w.it_state <= Len(w.states)
  PROVE  /\ Ends(p, part, Entry(w, w.it_state), word[m]) =>
              Len(p[part]) # 0 /\ MatchesAt(p, part, word, starts, m)
         /\ ~Ends(p, part, Entry(w, w.it_state), word[m]) =>
              /\ WalkTyped(p, part, AfterVisit(p, part, w, word[m]))
              /\ Midway(p, part, AfterVisit(p, part, w, word[m]), word, starts, m)
<1> DEFINE e == Entry(w, w.it_state)
           c == word[m]
           v == AfterVisit(p, part, w, c)
<1>1. c \in Symbols
  OBVIOUS
<1>2. e \in Ahead(w)
  <2>1. w.it_state \in w.it_state .. Len(w.states)
    BY DEF WalkTyped
  <2> QED
    BY <2>1 DEF Ahead
<1>3. Len(p[part]) # 0
  <2>1. w.it_state \in 1 .. Len(w.prefixDfas) /\ w.prefixDfas \in Seq(1 .. Len(p[part]))
    BY DEF WalkTyped
  <2>2. w.prefixDfas[w.it_state] \in 1 .. Len(p[part])
    BY <2>1
  <2> QED
    BY <2>2
<1>4. ASSUME Ends(p, part, e, c)
      PROVE  MatchesAt(p, part, word, starts, m)
  BY <1>2, <1>3, <1>4 DEF Midway
<1>5. ASSUME ~Ends(p, part, e, c)
      PROVE  WalkTyped(p, part, v) /\ Midway(p, part, v, word, starts, m)
  <2>1. /\ WalkTyped(p, part, v)
        /\ Done(v) = Done(w) \cup Moved(p, part, e, c)
        /\ Ahead(w) = {e} \cup Ahead(v)
        /\ Added(v) = Added(w) \cup Started(p, part, e, c)
    <3> HIDE DEF c
    <3> QED
      BY <1>1, <1>5, VisitMovesOne
  <2> HIDE DEF e, v, c
  <2>2. Outcome(p, part, Ahead(w), c)
          = Moved(p, part, e, c) \cup Started(p, part, e, c) \cup Outcome(p, part, Ahead(v), c)
    BY <2>1 DEF Outcome
  <2>3. Done(w) \cup Added(w) \cup Outcome(p, part, Ahead(w), c)
          = Done(v) \cup Added(v) \cup Outcome(p, part, Ahead(v), c)
    BY <2>1, <2>2
  <2>4. (\E x \in Ahead(w) : Ends(p, part, x, c)) <=> \E x \in Ahead(v) : Ends(p, part, x, c)
    BY <1>5, <2>1
  <2> QED
    BY <2>1, <2>3, <2>4 DEF Midway, c
<1> QED
  BY <1>3, <1>4, <1>5

(* When all entries are visited the list holds what should be active after the symbol. *)
LEMMA SymbolEnds ==
  ASSUME NEW p \in Compiled, NEW part \in Parts, NEW w, WalkTyped(p, part, w),
         NEW word, NEW starts, NEW m,
         Midway(p, part, w, word, starts, m), w.it_state > Len(w.states)
  PROVE  /\ WalkTyped(p, part, Joined(w))
         /\ Between(p, part, Joined(w), word, starts, m)
<1> DEFINE n == Len(p[part])
           a == w.add_post
           z == [i \in DOMAIN a |-> 0]
           pd == w.prefixDfas \o a
           st == w.states \o z
           l == Len(w.states)
           v == Joined(w)
<1>1. /\ w \in [prefixDfas : Seq(1 .. n), states : Seq(Nat), it_prefixdfa : Nat,
                it_state : Nat, add_post : Seq(1 .. n)]
      /\ Len(w.prefixDfas) = l /\ l \in Nat /\ w.it_state = l + 1
      /\ w.prefixDfas \in Seq(1 .. n) /\ w.states \in Seq(Nat) /\ a \in Seq(1 .. n)
  BY DEF WalkTyped
<1>2. /\ z \in Seq(Nat) /\ Len(z) = Len(a) /\ Len(a) \in Nat
      /\ \A i \in 1 .. Len(a) : z[i] = 0
  BY <1>1
<1>3. /\ v = [prefixDfas |-> pd, states |-> st, it_prefixdfa |-> 1, it_state |-> 1,
              add_post |-> <<>>]
      /\ v.prefixDfas = pd /\ v.states = st
  <2>1. v = [w EXCEPT !.prefixDfas = pd, !.states = st, !.add_post = <<>>,
                      !.it_prefixdfa = 1, !.it_state = 1]
    BY DEF Joined
  <2> HIDE DEF v, pd, st, a, l, n
  <2> QED
    BY <1>1, <2>1
<1> HIDE DEF z, a, l, n
<1>4. /\ pd \in Seq(1 .. n) /\ Len(pd) = l + Len(a)
      /\ \A i \in 1 .. l + Len(a) : pd[i] = IF i <= l THEN w.prefixDfas[i] ELSE a[i - l]
  <2>1. /\ pd \in Seq(1 .. n) /\ Len(pd) = Len(w.prefixDfas) + Len(a)
        /\ \A i \in 1 .. Len(w.prefixDfas) + Len(a) :
              pd[i] = IF i <= Len(w.prefixDfas) THEN w.prefixDfas[i] ELSE a[i - Len(w.prefixDfas)]
    BY <1>1, ConcatProperties
  <2> HIDE DEF pd
  <2> QED
    BY <1>1, <2>1
<1>5. /\ st \in Seq(Nat) /\ Len(st) = l + Len(a)
      /\ \A i \in 1 .. l + Len(a) : st[i] = IF i <= l THEN w.states[i] ELSE z[i - l]
  <2>1. \A x, y \in Seq(Nat) :
          /\ x \o y \in Seq(Nat) /\ Len(x \o y) = Len(x) + Len(y)
          /\ \A i \in 1 .. Len(x) + Len(y) :
                (x \o y)[i] = IF i <= Len(x) THEN x[i] ELSE y[i - Len(x)]
    BY ConcatProperties
  <2>2. /\ st \in Seq(Nat) /\ Len(st) = Len(w.states) + Len(z)
        /\ \A i \in 1 .. Len(w.states) + Len(z) :
              st[i] = IF i <= Len(w.states) THEN w.states[i] ELSE z[i - Len(w.states)]
    BY <1>1, <1>2, <2>1, Zenon
  <2> HIDE DEF st
  <2> QED
    BY <1>2, <2>2 DEF l
<1> HIDE DEF pd, st, v
<1>6. \A i \in 1 .. l + Len(a) :
        \/ i \in 1 .. l /\ pd[i] = w.prefixDfas[i] /\ st[i] = w.states[i]
        \/ i - l \in 1 .. Len(a) /\ pd[i] = a[i - l] /\ st[i] = 0
  <2> SUFFICES ASSUME NEW i \in 1 .. l + Len(a), i \notin 1 .. l
               PROVE  i - l \in 1 .. Len(a) /\ pd[i] = a[i - l] /\ st[i] = 0
    BY <1>1, <1>4, <1>5
  <2>1. i - l \in 1 .. Len(a) /\ ~(i <= l)
    BY <1>1, <1>2
  <2> QED
    BY <1>2, <1>4, <1>5, <2>1
<1>7. /\ \A i \in 1 .. l : /\ i \in 1 .. l + Len(a)
                           /\ pd[i] = w.prefixDfas[i] /\ st[i] = w.states[i]
      /\ \A i \in 1 .. Len(a) : /\ l + i \in 1 .. l + Len(a)
                                /\ pd[l + i] = a[i] /\ st[l + i] = 0
  <2>1. ASSUME NEW i \in 1 .. l
        PROVE  i \in 1 .. l + Len(a) /\ pd[i] = w.prefixDfas[i] /\ st[i] = w.states[i]
    <3>1. i \in 1 .. l + Len(a) /\ i <= l
      BY <1>1, <1>2
    <3> QED
      BY <1>4, <1>5, <3>1
  <2>2. ASSUME NEW i \in 1 .. Len(a)
        PROVE  l + i \in 1 .. l + Len(a) /\ pd[l + i] = a[i] /\ st[l + i] = 0
    <3>1. l + i \in 1 .. l + Len(a) /\ ~(l + i <= l) /\ (l + i) - l = i
      BY <1>1, <1>2
    <3> QED
      BY <1>2, <1>4, <1>5, <3>1
  <2> QED
    BY <2>1, <2>2
<1>8. Listed(v) = Done(w) \cup Added(w)
  <2>1. Listed(v) = {<<pd[i], st[i]>> : i \in 1 .. l + Len(a)}
    <3>1. DOMAIN st = 1 .. l + Len(a)
      BY <1>5
    <3> QED
      BY <1>3, <3>1 DEF Listed
  <2>2. Done(w) = {<<w.prefixDfas[i], w.states[i]>> : i \in 1 .. l}
    <3>1. 1 .. w.it_state - 1 = 1 .. l
      BY <1>1
    <3> QED
      BY <3>1 DEF Done, Entry
  <2>3. Added(w) = {<<a[i], 0>> : i \in 1 .. Len(a)}
    BY DEF Added, a
  <2>4. ASSUME NEW x \in Listed(v)
        PROVE  x \in Done(w) \cup Added(w)
    <3>1. PICK i \in 1 .. l + Len(a) : x = <<pd[i], st[i]>>
      BY <2>1
    <3> QED
      BY <1>6, <2>2, <2>3, <3>1
  <2>5. ASSUME NEW x \in Done(w)
        PROVE  x \in Listed(v)
    BY <1>7, <2>1, <2>2
  <2>6. ASSUME NEW x \in Added(w)
        PROVE  x \in Listed(v)
    BY <1>7, <2>1, <2>3
  <2> QED
    BY <2>4, <2>5, <2>6
<1>9. Ahead(w) = {}
  <2>1. w.it_state .. Len(w.states) = {}
    BY <1>1 DEF l
  <2> QED
    BY <2>1 DEF Ahead
<1>10. WalkTyped(p, part, v)
  <2>1. v \in [prefixDfas : Seq(1 .. n), states : Seq(Nat), it_prefixdfa : Nat,
               it_state : Nat, add_post : Seq(1 .. n)]
    BY <1>3, <1>4, <1>5
  <2>2. /\ \A i \in 1 .. l : /\ HasDfa(p, part, w.prefixDfas[i])
                             /\ w.states[i] \in StatesOf(p[part][w.prefixDfas[i]])
        /\ \A i \in 1 .. Len(a) : HasDfa(p, part, a[i])
    BY DEF WalkTyped, l, a
  <2>3. \A j \in 1 .. n : 0 \in StatesOf(p[part][j])
    BY ChainsTyped DEF n, IsPrefixDfa, StatesOf
  <2>4. ASSUME NEW i \in 1 .. l + Len(a)
        PROVE  HasDfa(p, part, pd[i]) /\ st[i] \in StatesOf(p[part][pd[i]])
    <3>1. pd[i] \in 1 .. n
      <4>1. i \in 1 .. Len(pd)
        BY <1>4
      <4> QED
        BY <1>4, <4>1, ElementOfSeq
    <3> QED
      BY <1>6, <2>2, <2>3, <3>1
  <2>5. 1 \in 1 .. Len(v.states) + 1
    BY <1>1, <1>2, <1>3, <1>5
  <2> QED
    BY SMTT(20), <1>3, <1>4, <1>5, <2>1, <2>4, <2>5 DEF WalkTyped, n
<1>11. Between(p, part, v, word, starts, m)
  <2>1. Outcome(p, part, Ahead(w), word[m]) = {}
    BY <1>9 DEF Outcome
  <2> QED
    BY <1>3, <1>8, <1>9, <2>1 DEF Between, Midway
<1> QED
  BY <1>10, <1>11 DEF v

(* A symbol begins: the node to be added after it, if there is one, is the *)
(* first of the chain.                                                     *)
LEMMA SymbolBegins ==
  ASSUME NEW p \in Compiled, NEW part \in Parts, NEW w, WalkTyped(p, part, w),
         NEW word \in Seq(Symbols), NEW starts \in SUBSET Nat,
         NEW m \in Nat, m < Len(word), Between(p, part, w, word, starts, m),
         NEW v, WalkTyped(p, part, v),
         v.prefixDfas = w.prefixDfas, v.states = w.states, v.it_state = w.it_state,
         v.add_post = IF Len(p[part]) # 0 /\ m + 1 \in starts THEN << 1 >> ELSE <<>>
  PROVE  Midway(p, part, v, word, starts, m + 1)
<1>1. v.it_state = 1 /\ Len(v.states) \in Nat /\ v.states \in Seq(Nat)
  BY DEF WalkTyped, Between
<1>2. Done(v) = {}
  <2>1. 1 .. v.it_state - 1 = {}
    BY <1>1
  <2> QED
    BY <2>1 DEF Done
<1>3. Added(v) = Begun(p, part, starts, m + 1)
  <2>1. CASE Len(p[part]) # 0 /\ m + 1 \in starts
    <3>1. v.add_post = <<1>>
      BY <2>1
    <3> QED
      BY <2>1, <3>1 DEF Added, Begun
  <2>2. CASE ~(Len(p[part]) # 0 /\ m + 1 \in starts)
    <3>1. v.add_post = <<>>
      BY <2>2
    <3> QED
      BY <2>2, <3>1 DEF Added, Begun
  <2> QED
    BY <2>1, <2>2
<1>4. Ahead(v) = LivingAt(p, part, word, starts, m)
  <2>1. DOMAIN w.states = 1 .. Len(v.states)
    BY <1>1
  <2>2. Ahead(v) = Listed(w)
    BY <1>1, <2>1 DEF Ahead, Listed, Entry
  <2> QED
    BY <2>2 DEF Between
<1>5. LivingAt(p, part, word, starts, m + 1)
        = Outcome(p, part, LivingAt(p, part, word, starts, m), word[m + 1])
            \cup Begun(p, part, starts, m + 1)
  BY LivingGrows
<1>6. Len(p[part]) # 0 =>
        (MatchesAt(p, part, word, starts, m + 1)
           <=> \E e \in LivingAt(p, part, word, starts, m) : Ends(p, part, e, word[m + 1]))
  <2>1. Len(p[part]) # 0 =>
          (MatchesAt(p, part, word, starts, m + 1)
             <=> \/ MatchesAt(p, part, word, starts, m)
                 \/ \E e \in LivingAt(p, part, word, starts, m) : Ends(p, part, e, word[m + 1]))
    BY MatchesGrow
  <2> QED
    BY <2>1 DEF Between
<1> QED
  BY <1>2, <1>3, <1>4, <1>5, <1>6 DEF Midway

(* At a place where nothing starts, the list between two symbols is that of the next. *)
LEMMA NothingBegins ==
  ASSUME NEW p \in Compiled, NEW part \in Parts, NEW w, WalkTyped(p, part, w),
         NEW word \in Seq(Symbols), NEW starts \in SUBSET Nat,
         NEW m \in Nat, m < Len(word), Between(p, part, w, word, starts, m),
         m + 1 \notin starts
  PROVE  Midway(p, part, w, word, starts, m + 1)
<1>1. w.add_post = IF Len(p[part]) # 0 /\ m + 1 \in starts THEN <<1>> ELSE <<>>
  BY DEF Between
<1> QED
  BY <1>1, SymbolBegins

(* Before the first symbol the list holds the first node or nothing.       *)
LEMMA WalkBegins ==
  ASSUME NEW p \in Compiled, NEW part \in Parts, NEW word \in Seq(Symbols),
         NEW starts \in SUBSET Nat
  PROVE  /\ WalkTyped(p, part, NoEntries)
         /\ 0 \notin starts => Between(p, part, NoEntries, word, starts, 0)
         /\ Len(p[part]) # 0 => WalkTyped(p, part, FirstNode)
         /\ Len(p[part]) # 0 /\ 0 \in starts => Between(p, part, FirstNode, word, starts, 0)
<1>1. /\ LivingAt(p, part, word, starts, 0) = Begun(p, part, starts, 0)
      /\ Len(p[part]) # 0 => ~MatchesAt(p, part, word, starts, 0)
  BY AtTheStart
<1>2. Len(p[part]) \in Nat
  BY ChainsTyped
<1>3. /\ NoEntries.prefixDfas = <<>> /\ NoEntries.states = <<>> /\ NoEntries.add_post = <<>>
      /\ NoEntries.it_prefixdfa = 1 /\ NoEntries.it_state = 1
      /\ WalkTyped(p, part, NoEntries)
  BY DEF NoEntries, WalkTyped
<1>4. 0 \notin starts => Between(p, part, NoEntries, word, starts, 0)
  <2>1. Listed(NoEntries) = {}
    BY <1>3 DEF Listed
  <2> QED
    BY <1>1, <1>3, <2>1 DEF Between, Begun
<1>5. FirstNode = [prefixDfas |-> <<1>>, states |-> <<0>>, it_prefixdfa |-> 1,
                   it_state |-> 1, add_post |-> <<>>]
  <2>1. FirstNode = [NoEntries EXCEPT !.prefixDfas = <<1>>, !.states = <<0>>]
    BY DEF FirstNode
  <2>2. NoEntries \in [prefixDfas : Seq(1 .. Len(p[part])), states : Seq(Nat),
                       it_prefixdfa : Nat, it_state : Nat, add_post : Seq(1 .. Len(p[part]))]
    BY <1>3 DEF WalkTyped
  <2> QED
    BY <1>3, <2>1, <2>2
<1>6. ASSUME Len(p[part]) # 0
      PROVE  WalkTyped(p, part, FirstNode)
  <2>1. IsPrefixDfa(p[part][1]) /\ 1 \in 1 .. Len(p[part])
    BY <1>2, <1>6, ChainsTyped
  <2>2. HasDfa(p, part, 1) /\ 0 \in StatesOf(p[part][1])
    BY <2>1 DEF HasDfa, IsPrefixDfa, StatesOf
  <2>3. /\ FirstNode.prefixDfas = <<1>> /\ FirstNode.states = <<0>>
        /\ FirstNode.add_post = <<>>
        /\ FirstNode.it_prefixdfa = 1 /\ FirstNode.it_state = 1
    BY <1>5
  <2>4. FirstNode \in [prefixDfas : Seq(1 .. Len(p[part])), states : Seq(Nat),
                       it_prefixdfa : Nat, it_state : Nat, add_post : Seq(1 .. Len(p[part]))]
    <3>1. <<1>> \in Seq(1 .. Len(p[part])) /\ <<>> \in Seq(1 .. Len(p[part])) /\ <<0>> \in Seq(Nat)
      BY <2>1
    <3> QED
      BY <1>5, <3>1
  <2>5. Len(<<1>>) = 1 /\ Len(<<0>>) = 1 /\ <<1>>[1] = 1 /\ <<0>>[1] = 0 /\ Len(<<>>) = 0
    OBVIOUS
  <2> QED
    BY <2>2, <2>3, <2>4, <2>5 DEF WalkTyped
<1>7. ASSUME Len(p[part]) # 0, 0 \in starts
      PROVE  Between(p, part, FirstNode, word, starts, 0)
  <2>1. FirstNode.prefixDfas = <<1>> /\ FirstNode.states = <<0>>
        /\ FirstNode.add_post = <<>> /\ FirstNode.it_state = 1
    BY <1>5
  <2>2. Listed(FirstNode) = {<<1, 0>>}
    BY <2>1 DEF Listed
  <2> QED
    BY <1>1, <1>7, <2>1, <2>2 DEF Between, Begun
<1> QED
  BY <1>3, <1>4, <1>6, <1>7

(* At the end of the word nothing is left to be found.                     *)
LEMMA WholeWord ==
  ASSUME NEW p \in Compiled, NEW part \in Parts, NEW word \in Seq(Symbols),
         NEW starts \in SUBSET Nat, starts \subseteq 0 .. Len(word)
  PROVE  MatchesAt(p, part, word, starts, Len(word)) <=> ChainMatches(p, part, word, starts)
<1>1. SubSeq(word, 1, Len(word)) = word
  BY SubSeqFull
<1>2. starts \cap (0 .. Len(word)) = starts
  OBVIOUS
<1> QED
  BY <1>1, <1>2 DEF MatchesAt

-----------------------------------------------------------------------------
(***************************************************************************)
(* The walks over a packet.                                                *)
(***************************************************************************)
(* The words they read: backwards from the candidate for a hit at h, from  *)
(* the symbol after it on, and for traverse the whole packet, in which the *)
(* part after begins behind each hit that the part before precedes.        *)
Before(h) == Reverse(SubSeq(data, 1, h - Depth + 1))

After(h) == SubSeq(data, h + 2, Len(data))

Found(l) == {h \in Hits : h < l /\ MayPrecede(h)}

WordAfter == IF walk = "match" THEN After(hit) ELSE data

StartsAfter == IF walk = "match" THEN {0} ELSE {h + 1 : h \in Found(Len(data))}

Typed ==
  /\ given \in Compiled /\ data \in Packets /\ walk \in Walks
  /\ pc \in {"read", "hit", "pre", "post", "activate", "unmatched", "matched", "none"}
  /\ state \in StatesOf(given.mid)
  /\ offset \in 0 .. Len(data)
  /\ back \in 0 .. Len(data)
  /\ hit \in {NO_STATE} \cup Hits
  /\ active = [part \in Parts |-> active[part]]
  /\ \A part \in Parts : WalkTyped(given, part, active[part])

(* The DFA of the middle part has read the packet up to the offset, in     *)
(* traverse also the symbol there unless it is the next to be read.        *)
MidFollows ==
  walk # "match" =>
    /\ pc = "read" => state = RunFrom(given.mid, 0, SubSeq(data, 1, offset))
    /\ pc \notin {"read", "matched", "none"} =>
         offset < Len(data) /\ state = RunFrom(given.mid, 0, SubSeq(data, 1, offset + 1))

AtHit ==
  /\ pc \in {"hit", "pre", "activate", "unmatched"} => hit = offset /\ hit \in Hits
  /\ walk = "match" => hit \in Hits /\ pc # "read"

(* What pre_match knows while it walks, and what it has found out.         *)
WalkBefore ==
  /\ pc = "pre" =>
       /\ given.pre # <<>> /\ Depth <= hit /\ back <= hit - Depth
       /\ Midway(given, "pre", active["pre"], Before(hit), {0}, (hit - Depth + 1) - back)
  /\ pc = "activate" => MayPrecede(hit)
  /\ pc = "unmatched" => \/ ~MayPrecede(hit)
                         \/ walk = "match" /\ given.pre # <<>> /\ hit + 1 = Depth

(* The walk after the candidate, of match and of traverse.                 *)
MatchAfter ==
  walk = "match" /\ pc = "post" =>
    /\ given.post # <<>> /\ MayPrecede(hit) /\ hit < offset /\ offset < Len(data)
    /\ Midway(given, "post", active["post"], WordAfter, StartsAfter, offset - hit)

TraverseAfter ==
  /\ walk # "match" /\ pc \in {"read", "hit", "pre", "activate", "unmatched"} =>
       /\ Between(given, "post", active["post"], WordAfter, StartsAfter, offset)
       /\ given.post = <<>> => Found(offset) = {}
  /\ walk # "match" /\ pc = "post" =>
       /\ Midway(given, "post", active["post"], WordAfter, StartsAfter, offset + 1)
       /\ given.post = <<>> => Found(offset + 1) = {}

IInv ==
  /\ Typed
  /\ MidFollows
  /\ AtHit
  /\ WalkBefore
  /\ MatchAfter
  /\ TraverseAfter
  /\ MatchedIffCut
-----------------------------------------------------------------------------
(* A reversed slice, read from its front.                                  *)
LEMMA ReversedSlice ==
  ASSUME NEW S, NEW w \in Seq(S), NEW l \in Nat, l <= Len(w)
  PROVE  LET v == Reverse(SubSeq(w, 1, l))
         IN /\ v \in Seq(S) /\ Len(v) = l
            /\ \A b \in 0 .. l - 1 : v[l - b] = w[b + 1]
            /\ \A b \in 0 .. l : SubSeq(v, 1, l - b) = Reverse(SubSeq(w, b + 1, l))
<1> DEFINE v == Reverse(SubSeq(w, 1, l))
<1>1. \A b \in 0 .. l : /\ SubSeq(w, b + 1, l) \in Seq(S)
                        /\ Len(SubSeq(w, b + 1, l)) = l - b
                        /\ \A k \in 1 .. l - b : SubSeq(w, b + 1, l)[k] = w[b + k]
  BY SliceIsWord
<1>2. \A b \in 0 .. l : /\ Reverse(SubSeq(w, b + 1, l)) \in Seq(S)
                        /\ Len(Reverse(SubSeq(w, b + 1, l))) = l - b
                        /\ \A k \in 1 .. l - b : Reverse(SubSeq(w, b + 1, l))[k] = w[l - k + 1]
  <2> SUFFICES ASSUME NEW b \in 0 .. l
               PROVE  /\ Reverse(SubSeq(w, b + 1, l)) \in Seq(S)
                      /\ Len(Reverse(SubSeq(w, b + 1, l))) = l - b
                      /\ \A k \in 1 .. l - b : Reverse(SubSeq(w, b + 1, l))[k] = w[l - k + 1]
    OBVIOUS
  <2> DEFINE u == SubSeq(w, b + 1, l)
             e == l - b
  <2>1. u \in Seq(S) /\ Len(u) = e /\ e \in Nat /\ \A k \in 1 .. e : u[k] = w[b + k]
    BY <1>1
  <2>2. Reverse(u) = [k \in 1 .. e |-> u[(e - k) + 1]]
    BY <2>1 DEF Reverse
  <2>3. \A k \in 1 .. e : (e - k) + 1 \in 1 .. e /\ b + ((e - k) + 1) = l - k + 1
    OBVIOUS
  <2> HIDE DEF u, e
  <2>4. \A k \in 1 .. e : u[(e - k) + 1] \in S /\ u[(e - k) + 1] = w[l - k + 1]
    <3> SUFFICES ASSUME NEW k \in 1 .. e
                 PROVE  u[(e - k) + 1] \in S /\ u[(e - k) + 1] = w[l - k + 1]
      OBVIOUS
    <3>1. u[(e - k) + 1] = w[b + ((e - k) + 1)]
      BY <2>1, <2>3
    <3>2. u[(e - k) + 1] \in S
      BY <2>1, <2>3, ElementOfSeq
    <3> QED
      BY <2>3, <3>1, <3>2
  <2>5. Reverse(u) \in Seq(S) /\ Len(Reverse(u)) = e
    BY <2>1, <2>2, <2>4
  <2>6. \A k \in 1 .. e : Reverse(u)[k] = w[l - k + 1]
    BY <2>2, <2>4
  <2> QED
    BY <2>5, <2>6 DEF u, e
<1>3. /\ v \in Seq(S) /\ Len(v) = l
      /\ \A k \in 1 .. l : v[k] = w[l - k + 1]
  <2>1. 0 \in 0 .. l /\ 0 + 1 = 1 /\ l - 0 = l
    OBVIOUS
  <2>2. /\ Reverse(SubSeq(w, 0 + 1, l)) \in Seq(S)
        /\ Len(Reverse(SubSeq(w, 0 + 1, l))) = l - 0
        /\ \A k \in 1 .. l - 0 : Reverse(SubSeq(w, 0 + 1, l))[k] = w[l - k + 1]
    BY <1>2, <2>1
  <2> QED
    BY <2>1, <2>2
<1> HIDE DEF v
<1>4. \A b \in 0 .. l - 1 : v[l - b] = w[b + 1]
  <2> SUFFICES ASSUME NEW b \in 0 .. l - 1
               PROVE  v[l - b] = w[b + 1]
    OBVIOUS
  <2>1. l - b \in 1 .. l /\ l - (l - b) + 1 = b + 1
    OBVIOUS
  <2> QED
    BY <1>3, <2>1
<1>5. ASSUME NEW b \in 0 .. l
      PROVE  SubSeq(v, 1, l - b) = Reverse(SubSeq(w, b + 1, l))
  <2> DEFINE x == SubSeq(v, 0 + 1, l - b)
             y == Reverse(SubSeq(w, b + 1, l))
  <2>1. l - b \in Nat /\ 0 \in Nat /\ 0 <= l - b /\ l - b <= Len(v) /\ (l - b) - 0 = l - b
    BY <1>3
  <2>2. /\ x \in Seq(S) /\ Len(x) = (l - b) - 0
        /\ \A k \in 1 .. (l - b) - 0 : x[k] = v[0 + k]
    BY <1>3, <2>1, SliceIsWord
  <2>3. y \in Seq(S) /\ Len(y) = l - b /\ \A k \in 1 .. l - b : y[k] = w[l - k + 1]
    BY <1>2
  <2>4. \A k \in 1 .. l - b : 0 + k = k /\ k \in 1 .. l
    OBVIOUS
  <2> HIDE DEF x, y
  <2>5. Len(x) = Len(y) /\ \A k \in 1 .. Len(x) : x[k] = y[k]
    BY <1>3, <2>1, <2>2, <2>3, <2>4
  <2>6. x = y
    BY <2>2, <2>3, <2>5, SeqEqual
  <2> QED
    BY <2>6 DEF x, y
<1> QED
  BY <1>3, <1>4, <1>5 DEF v

(* A chain that matches before the end of the word matches it.             *)
LEMMA FoundEarly ==
  ASSUME NEW p \in Compiled, NEW part \in Parts, Len(p[part]) # 0,
         NEW word \in Seq(Symbols), NEW m \in Nat, m <= Len(word),
         MatchesAt(p, part, word, {0}, m)
  PROVE  ChainMatches(p, part, word, {0})
<1>1. {0} \in SUBSET Nat /\ {0} \subseteq 0 .. Len(word) /\ Len(word) \in Nat
      /\ Len(word) <= Len(word)
  OBVIOUS
<1>2. MatchesAt(p, part, word, {0}, Len(word))
  BY <1>1, MatchesStay
<1> QED
  BY <1>1, <1>2, WholeWord

(* When the word ends, or the list is empty, without a match, there is     *)
(* none.                                                                   *)
LEMMA NotFoundAtAll ==
  ASSUME NEW p \in Compiled, NEW part \in Parts, Len(p[part]) # 0,
         NEW word \in Seq(Symbols), NEW m \in Nat, m <= Len(word),
         NEW w, WalkTyped(p, part, w), Between(p, part, w, word, {0}, m),
         m = Len(word) \/ w.prefixDfas = <<>>
  PROVE  ~ChainMatches(p, part, word, {0})
<1>1. {0} \in SUBSET Nat /\ {0} \subseteq 0 .. Len(word) /\ \A i \in {0} : i <= m
  OBVIOUS
<1>2. ~MatchesAt(p, part, word, {0}, m)
  BY DEF Between
<1>3. ~MatchesAt(p, part, word, {0}, Len(word))
  <2>1. CASE w.prefixDfas = <<>>
    <3>1. Len(w.states) = 0 /\ w.states \in Seq(Nat)
      BY <2>1 DEF WalkTyped
    <3>2. Listed(w) = {}
      BY <3>1 DEF Listed
    <3>3. LivingAt(p, part, word, {0}, m) = {}
      BY <3>2 DEF Between
    <3> QED
      BY <1>1, <1>2, <3>3, NothingLeft
  <2> QED
    BY <1>2, <2>1
<1> QED
  BY <1>1, <1>3, WholeWord

-----------------------------------------------------------------------------
(* What the names above stand for.                                         *)
LEMMA TypedMeans ==
  ASSUME Typed
  PROVE  /\ data \in Seq(Symbols) /\ Len(data) \in Nat
         /\ Depth \in Nat /\ NO_STATE \notin Hits
         /\ Hits \subseteq 0 .. Len(data) - 1
         /\ Parts = {"pre", "post"}
         /\ \A part \in Parts : /\ Len(given[part]) \in Nat
                                /\ Len(given[part]) # 0 <=> given[part] # <<>>
         /\ given["pre"] = given.pre /\ given["post"] = given.post
         /\ IsPrefixDfa(given.mid)
<1>1. data \in Seq(Symbols) /\ Len(data) \in Nat
  BY PacketAssumption DEF Typed
<1>2. IsPrefixDfa(given.mid) /\ given.length \in Nat /\ given.simplest \in BOOLEAN
  BY CompiledAssumption DEF Typed
<1>3. Hits \subseteq 0 .. Len(data) - 1
  BY DEF Hits
<1>4. \A part \in Parts : /\ Len(given[part]) \in Nat
                          /\ Len(given[part]) # 0 <=> given[part] # <<>>
  <2> SUFFICES ASSUME NEW part \in Parts
               PROVE  /\ Len(given[part]) \in Nat
                      /\ Len(given[part]) # 0 <=> given[part] # <<>>
    OBVIOUS
  <2>1. given[part] \in Seq({given[part][j] : j \in DOMAIN given[part]})
    BY CompiledAssumption DEF Typed
  <2> DEFINE s == given[part]
             T == {given[part][j] : j \in DOMAIN given[part]}
  <2>2. s \in Seq(T)
    BY <2>1
  <2> HIDE DEF s, T
  <2>3. Len(s) \in Nat /\ (Len(s) # 0 <=> s # <<>>)
    BY <2>2, EmptySeq, LenProperties
  <2> QED
    BY <2>3 DEF s
<1> QED
  BY <1>1, <1>2, <1>3, <1>4 DEF Depth, NO_STATE, Parts

(* The parts of the packet before and after a hit, symbol by symbol. *)
LEMMA WordsMean ==
  ASSUME Typed
  PROVE  /\ \A h \in Hits : Depth <= h =>
              /\ Before(h) \in Seq(Symbols) /\ Len(Before(h)) = h - Depth + 1
              /\ \A b \in 0 .. h - Depth : Before(h)[(h - Depth + 1) - b] = data[b + 1]
              /\ \A b \in 0 .. h - Depth + 1 :
                    SubSeq(Before(h), 1, (h - Depth + 1) - b)
                      = Reverse(SubSeq(data, b + 1, h - Depth + 1))
         /\ \A h \in Hits : /\ After(h) \in Seq(Symbols)
                            /\ Len(After(h)) = Len(data) - h - 1
                            /\ \A k \in 1 .. Len(data) - h - 1 : After(h)[k] = data[h + k + 1]
         /\ \A l : Found(l) \subseteq Hits
         /\ StartsAfter \in SUBSET Nat
         /\ StartsAfter \subseteq 0 .. Len(data) \/ StartsAfter = {0}
<1>1. /\ data \in Seq(Symbols) /\ Len(data) \in Nat /\ Depth \in Nat
      /\ Hits \subseteq 0 .. Len(data) - 1
  BY TypedMeans
<1>2. ASSUME NEW h \in Hits, Depth <= h
      PROVE  /\ Before(h) \in Seq(Symbols) /\ Len(Before(h)) = h - Depth + 1
             /\ \A b \in 0 .. h - Depth : Before(h)[(h - Depth + 1) - b] = data[b + 1]
             /\ \A b \in 0 .. h - Depth + 1 :
                   SubSeq(Before(h), 1, (h - Depth + 1) - b)
                     = Reverse(SubSeq(data, b + 1, h - Depth + 1))
  <2> DEFINE l == h - Depth + 1
             v == Reverse(SubSeq(data, 1, l))
  <2>1. l \in Nat /\ l <= Len(data) /\ l - 1 = h - Depth /\ h - Depth + 1 = l
    BY <1>1, <1>2
  <2>2. /\ v \in Seq(Symbols) /\ Len(v) = l
        /\ \A b \in 0 .. l - 1 : v[l - b] = data[b + 1]
        /\ \A b \in 0 .. l : SubSeq(v, 1, l - b) = Reverse(SubSeq(data, b + 1, l))
    <3> HIDE DEF l
    <3> QED
      BY <1>1, <2>1, ReversedSlice
  <2>3. Before(h) = v
    BY DEF Before
  <2> HIDE DEF v, l
  <2>4. /\ Before(h) \in Seq(Symbols) /\ Len(Before(h)) = l
        /\ \A b \in 0 .. h - Depth : Before(h)[l - b] = data[b + 1]
        /\ \A b \in 0 .. l : SubSeq(Before(h), 1, l - b) = Reverse(SubSeq(data, b + 1, l))
    BY <2>1, <2>2, <2>3
  <2> QED
    BY <2>4 DEF l
<1>3. ASSUME NEW h \in Hits
      PROVE  /\ After(h) \in Seq(Symbols)
             /\ Len(After(h)) = Len(data) - h - 1
             /\ \A k \in 1 .. Len(data) - h - 1 : After(h)[k] = data[h + k + 1]
  <2>1. h + 1 \in Nat /\ h + 1 <= Len(data) /\ Len(data) <= Len(data) /\ h \in Nat
    BY <1>1
  <2>2. /\ SubSeq(data, (h + 1) + 1, Len(data)) \in Seq(Symbols)
        /\ Len(SubSeq(data, (h + 1) + 1, Len(data))) = Len(data) - (h + 1)
        /\ \A k \in 1 .. Len(data) - (h + 1) :
              SubSeq(data, (h + 1) + 1, Len(data))[k] = data[(h + 1) + k]
    BY <1>1, <2>1, SliceIsWord
  <2>3. (h + 1) + 1 = h + 2 /\ Len(data) - (h + 1) = Len(data) - h - 1
        /\ \A k \in Int : (h + 1) + k = h + k + 1
    BY <1>1, <2>1
  <2> QED
    BY <2>2, <2>3 DEF After
<1>4. \A l : Found(l) \subseteq Hits
  BY DEF Found
<1>5. {h + 1 : h \in Found(Len(data))} \subseteq 0 .. Len(data)
  <2> SUFFICES ASSUME NEW h \in Found(Len(data))
               PROVE  h + 1 \in 0 .. Len(data)
    OBVIOUS
  <2>1. h \in Hits
    BY <1>4
  <2> QED
    BY <1>1, <2>1
<1>6. /\ StartsAfter \in SUBSET Nat
      /\ StartsAfter \subseteq 0 .. Len(data) \/ StartsAfter = {0}
  BY <1>5 DEF StartsAfter
<1> QED
  BY <1>2, <1>3, <1>4, <1>6

(* Nothing of that changes.                                                *)
LEMMA SameWords ==
  ASSUME UNCHANGED <<given, data, walk>>
  PROVE  /\ Hits' = Hits /\ Depth' = Depth
         /\ \A h : MayPrecede(h)' <=> MayPrecede(h)
         /\ \A h : MayFollow(h)' <=> MayFollow(h)
         /\ \A h : Before(h)' = Before(h) /\ After(h)' = After(h)
         /\ \A l : Found(l)' = Found(l)
         /\ StartsAfter' = StartsAfter
         /\ walk # "match" \/ hit' = hit => WordAfter' = WordAfter
<1>1. Hits' = Hits /\ Depth' = Depth
  BY DEF Hits, Depth
<1>2. \A h : MayPrecede(h)' <=> MayPrecede(h)
  BY <1>1 DEF MayPrecede
<1>3. \A h : MayFollow(h)' <=> MayFollow(h)
  BY DEF MayFollow
<1>4. \A h : Before(h)' = Before(h) /\ After(h)' = After(h)
  BY <1>1 DEF Before, After
<1>5. \A l : Found(l)' = Found(l)
  BY <1>1, <1>2 DEF Found
<1> QED
  BY <1>1, <1>2, <1>3, <1>4, <1>5 DEF StartsAfter, WordAfter

(* What the walk before the candidate finds.                               *)
LEMMA FoundBefore ==
  ASSUME Typed, NEW h \in Hits, Depth <= h, given.pre # <<>>,
         NEW m \in Nat, m <= h - Depth + 1
  PROVE  /\ MatchesAt(given, "pre", Before(h), {0}, m) => MayPrecede(h)
         /\ \A w : /\ WalkTyped(given, "pre", w)
                   /\ Between(given, "pre", w, Before(h), {0}, m)
                   /\ m = h - Depth + 1 \/ w.prefixDfas = <<>>
                   => ~MayPrecede(h)
<1>1. /\ given \in Compiled /\ "pre" \in Parts /\ Len(given["pre"]) # 0
      /\ Before(h) \in Seq(Symbols) /\ Len(Before(h)) = h - Depth + 1
      /\ m <= Len(Before(h)) /\ h \in Nat /\ Depth \in Nat
  BY SMTT(20), TypedMeans, WordsMean DEF Typed
<1>2. ChainMatches(given, "pre", Before(h), {0}) <=> MayPrecede(h)
  BY <1>1 DEF MayPrecede, Before
<1> QED
  BY <1>1, <1>2, FoundEarly, NotFoundAtAll

(* What the walk of match after it finds.                                  *)
LEMMA FoundAfter ==
  ASSUME Typed, NEW h \in Hits, given.post # <<>>,
         NEW m \in Nat, m <= Len(data) - h - 1
  PROVE  /\ MatchesAt(given, "post", After(h), {0}, m) => MayFollow(h)
         /\ \A w : /\ WalkTyped(given, "post", w)
                   /\ Between(given, "post", w, After(h), {0}, m)
                   /\ m = Len(data) - h - 1 \/ w.prefixDfas = <<>>
                   => ~MayFollow(h)
<1>1. /\ given \in Compiled /\ "post" \in Parts /\ Len(given["post"]) # 0
      /\ After(h) \in Seq(Symbols) /\ Len(After(h)) = Len(data) - h - 1
      /\ m <= Len(After(h))
  BY TypedMeans, WordsMean DEF Typed
<1>2. ChainMatches(given, "post", After(h), {0}) <=> MayFollow(h)
  BY DEF MayFollow, After
<1> QED
  BY <1>1, <1>2, FoundEarly, NotFoundAtAll

(* What the walk of traverse, which looks for all hits at once, finds.     *)
LEMMA FoundByTraverse ==
  ASSUME Typed, walk # "match", given.post # <<>>,
         NEW m \in Nat, m <= Len(data)
  PROVE  /\ MatchesAt(given, "post", WordAfter, StartsAfter, m) =>
              \E h \in Found(m) : MayFollow(h)
         /\ ~MatchesAt(given, "post", WordAfter, StartsAfter, Len(data)) =>
              \A h \in Found(Len(data)) : ~MayFollow(h)
<1>1. /\ given \in Compiled /\ "post" \in Parts /\ Len(given["post"]) # 0
      /\ data \in Seq(Symbols) /\ StartsAfter \in SUBSET Nat /\ Len(data) \in Nat
      /\ Hits \subseteq 0 .. Len(data) - 1
  BY TypedMeans, WordsMean DEF Typed
<1>2. WordAfter = data /\ StartsAfter = {h + 1 : h \in Found(Len(data))}
  BY DEF WordAfter, StartsAfter
<1>3. ASSUME NEW h \in Found(Len(data))
      PROVE  /\ h \in Hits /\ h \in Nat /\ h < Len(data) /\ h + 1 \in StartsAfter
             /\ SubSeq(data, (h + 1) + 1, Len(data)) = After(h)
             /\ After(h) \in Seq(Symbols) /\ Len(After(h)) = Len(data) - h - 1
             /\ MayPrecede(h)
             /\ ChainMatches(given, "post", After(h), {0}) <=> MayFollow(h)
  <2>1. h \in Hits /\ h \in Nat /\ h < Len(data) /\ MayPrecede(h) /\ h + 1 \in StartsAfter
    BY <1>1, <1>2 DEF Found
  <2>2. (h + 1) + 1 = h + 2
    BY <2>1
  <2> QED
    BY <2>1, <2>2, WordsMean DEF After, MayFollow
<1>4. ASSUME NEW l \in Nat, l <= Len(data)
      PROVE  MatchesAt(given, "post", data, StartsAfter, l)
               <=> MatchesFromOne(given, "post", data, StartsAfter, l)
  BY <1>1, <1>4, MatchesApart
<1>5. ASSUME MatchesAt(given, "post", WordAfter, StartsAfter, m)
      PROVE  \E h \in Found(m) : MayFollow(h)
  <2>1. PICK s \in StartsAfter :
          /\ s <= m
          /\ MatchesAt(given, "post", SubSeq(data, s + 1, Len(data)), {0}, m - s)
    BY <1>2, <1>4, <1>5 DEF MatchesFromOne
  <2>2. PICK h \in Found(Len(data)) : s = h + 1
    BY <1>2
  <2>3. MatchesAt(given, "post", After(h), {0}, m - (h + 1))
    BY <1>3, <2>1, <2>2
  <2>4. m - (h + 1) \in Nat /\ m - (h + 1) <= Len(After(h)) /\ h < m
    BY SMTT(20), <1>1, <1>3, <2>1, <2>2
  <2>5. ChainMatches(given, "post", After(h), {0})
    BY <1>1, <1>3, <2>3, <2>4, FoundEarly
  <2>6. h \in Found(m)
    BY <1>3, <2>4 DEF Found
  <2> QED
    BY <1>3, <2>5, <2>6
<1>6. ASSUME NEW h \in Found(Len(data)), MayFollow(h)
      PROVE  MatchesAt(given, "post", WordAfter, StartsAfter, Len(data))
  <2>1. {0} \in SUBSET Nat /\ {0} \subseteq 0 .. Len(After(h))
    BY <1>3
  <2>2. MatchesAt(given, "post", After(h), {0}, Len(After(h)))
    BY <1>1, <1>3, <1>6, <2>1, WholeWord
  <2>3. Len(After(h)) = Len(data) - (h + 1) /\ h + 1 <= Len(data) /\ Len(data) <= Len(data)
    BY <1>1, <1>3
  <2>4. MatchesAt(given, "post", SubSeq(data, (h + 1) + 1, Len(data)), {0}, Len(data) - (h + 1))
    BY <1>3, <2>2, <2>3
  <2> QED
    BY <1>1, <1>2, <1>3, <1>4, <2>3, <2>4 DEF MatchesFromOne
<1> QED
  BY <1>5, <1>6

-----------------------------------------------------------------------------
(***************************************************************************)
(* Every step keeps the invariant.                                         *)
(***************************************************************************)
LEMMA TypedAfter ==
  ASSUME Typed, UNCHANGED <<given, data, walk>>,
         pc' \in {"read", "hit", "pre", "post", "activate", "unmatched", "matched", "none"},
         state' \in StatesOf(given.mid), offset' \in 0 .. Len(data),
         back' \in 0 .. Len(data), hit' \in {NO_STATE} \cup Hits,
         NEW part \in Parts, NEW w, WalkTyped(given, part, w),
         active' = [active EXCEPT ![part] = w]
  PROVE  /\ Typed'
         /\ active'[part] = w
         /\ \A other \in Parts : other # part => active'[other] = active[other]
<1>1. Hits' = Hits
  BY SameWords
<1>2. /\ active' = [other \in Parts |-> active'[other]]
      /\ active'[part] = w
      /\ \A other \in Parts : other # part => active'[other] = active[other]
  BY DEF Typed
<1>3. \A other \in Parts : WalkTyped(given, other, active'[other])
  BY <1>2 DEF Typed
<1>4. \A other : WalkTyped(given, other, active[other])' <=> WalkTyped(given, other, active'[other])
  BY DEF WalkTyped, HasDfa
<1>5. (\A other \in Parts : WalkTyped(given, other, active[other]))'
  BY <1>3, <1>4
<1> QED
  BY <1>1, <1>2, <1>5 DEF Typed

(* Steps that leave the lists alone keep the types. *)
LEMMA TypedStays ==
  ASSUME Typed, UNCHANGED <<given, data, walk, active>>,
         pc' \in {"read", "hit", "pre", "post", "activate", "unmatched", "matched", "none"},
         state' \in StatesOf(given.mid), offset' \in 0 .. Len(data),
         back' \in 0 .. Len(data), hit' \in {NO_STATE} \cup Hits
  PROVE  Typed'
<1>1. Hits' = Hits
  BY SameWords
<1>2. (\A part \in Parts : WalkTyped(given, part, active[part]))'
  BY DEF Typed, WalkTyped, HasDfa
<1> QED
  BY <1>1, <1>2 DEF Typed

(* The DFA of the middle part reads a symbol.                              *)
LEMMA MidMoves ==
  ASSUME Typed, offset < Len(data),
         state = RunFrom(given.mid, 0, SubSeq(data, 1, offset))
  PROVE  LET t == given.mid.table[state][data[offset + 1]]
         IN /\ t \in StatesOf(given.mid)
            /\ t = RunFrom(given.mid, 0, SubSeq(data, 1, offset + 1))
            /\ Accepts(given.mid, t) <=> offset \in Hits
<1>1. /\ IsPrefixDfa(given.mid) /\ data \in Seq(Symbols) /\ offset \in Nat /\ 0 \in Nat
      /\ 0 <= offset
  BY TypedMeans DEF Typed
<1>2. At(given.mid, data, 0, offset + 1)
        = given.mid.table[At(given.mid, data, 0, offset)][data[offset + 1]]
  BY <1>1, AtMoves
<1>3. /\ At(given.mid, data, 0, offset) = state
      /\ At(given.mid, data, 0, offset + 1) = RunFrom(given.mid, 0, SubSeq(data, 1, offset + 1))
  BY DEF At
<1>4. given.mid.table[state][data[offset + 1]] \in StatesOf(given.mid)
  <2>1. given.mid.table \in [StatesOf(given.mid) -> [Symbols -> StatesOf(given.mid)]]
    BY <1>1 DEF IsPrefixDfa
  <2>2. state \in StatesOf(given.mid) /\ data[offset + 1] \in Symbols
    <3>1. offset + 1 \in 1 .. Len(data)
      BY <1>1
    <3> QED
      BY <1>1, <3>1, ElementOfSeq DEF Typed
  <2> QED
    BY <2>1, <2>2
<1>5. offset \in Hits <=> Accepts(given.mid, RunFrom(given.mid, 0, SubSeq(data, 1, offset + 1)))
  <2>1. offset \in 0 .. Len(data) - 1
    BY <1>1, TypedMeans
  <2> QED
    BY <2>1 DEF Hits
<1> QED
  BY <1>2, <1>3, <1>4, <1>5

(* Reading a symbol with the middle part keeps the invariant. *)
LEMMA ReadSymbolKeeps == IInv /\ ReadSymbol => IInv'
<1> SUFFICES ASSUME IInv, ReadSymbol
             PROVE  IInv'
  OBVIOUS
<1> DEFINE t == given.mid.table[state][data[offset + 1]]
<1>1. /\ Typed /\ MidFollows /\ AtHit /\ WalkBefore /\ TraverseAfter
      /\ pc = "read" /\ walk # "match" /\ offset < Len(data)
  BY DEF IInv, ReadSymbol, AtHit
<1>2. /\ data \in Seq(Symbols) /\ Len(data) \in Nat /\ offset \in Nat
      /\ given \in Compiled /\ "post" \in Parts
      /\ StartsAfter \in SUBSET Nat /\ WordAfter = data
      /\ WalkTyped(given, "post", active["post"])
      /\ Hits \subseteq 0 .. Len(data) - 1
  BY <1>1, TypedMeans, WordsMean DEF Typed, WordAfter
<1>3. /\ t \in StatesOf(given.mid)
      /\ t = RunFrom(given.mid, 0, SubSeq(data, 1, offset + 1))
      /\ Accepts(given.mid, t) <=> offset \in Hits
  BY <1>1, MidMoves DEF MidFollows
<1>4. /\ UNCHANGED <<given, data, walk, offset, back, active>> /\ state' = t
      /\ \/ Accepts(given.mid, t) /\ pc' = "hit" /\ hit' = offset
         \/ ~Accepts(given.mid, t) /\ pc' = "post" /\ hit' = hit
  BY DEF ReadSymbol
<1> HIDE DEF t
<1>5. /\ Hits' = Hits /\ \A l : Found(l)' = Found(l)
      /\ WordAfter' = WordAfter /\ StartsAfter' = StartsAfter
  BY <1>1, <1>4, SameWords
<1>6. Typed'
  BY <1>1, <1>3, <1>4, TypedStays DEF Typed
<1>7. MidFollows' /\ AtHit' /\ WalkBefore' /\ MatchAfter' /\ MatchedIffCut'
  BY <1>1, <1>3, <1>4, <1>5 DEF MidFollows, AtHit, WalkBefore, MatchAfter, MatchedIffCut
<1>8. /\ Between(given, "post", active["post"], WordAfter, StartsAfter, offset)
      /\ given.post = <<>> => Found(offset) = {}
  BY <1>1 DEF TraverseAfter
<1>9. CASE pc' = "hit"
  <2>1. TraverseAfter'
    BY <1>1, <1>4, <1>5, <1>8, <1>9 DEF TraverseAfter
  <2> QED
    BY <1>6, <1>7, <2>1 DEF IInv
<1>10. CASE pc' = "post"
  <2>1. offset \notin Hits
    BY <1>3, <1>4, <1>10
  <2>2. offset + 1 \notin StartsAfter
    <3>1. \A h \in Hits : h \in Int /\ (h + 1 = offset + 1 => h = offset)
      BY <1>2
    <3> QED
      BY <1>1, <2>1, <3>1 DEF StartsAfter, Found
  <2>3. Midway(given, "post", active["post"], WordAfter, StartsAfter, offset + 1)
    <3>1. WordAfter \in Seq(Symbols) /\ offset < Len(WordAfter)
      BY <1>1, <1>2
    <3> QED
      BY <1>2, <1>8, <2>2, <3>1, NothingBegins
  <2>4. given.post = <<>> => Found(offset + 1) = {}
    <3>1. \A h \in Found(offset + 1) : h \in Found(offset)
      BY <1>2, <2>1 DEF Found
    <3> QED
      BY <1>8, <3>1
  <2>5. TraverseAfter'
    BY <1>1, <1>4, <1>5, <1>10, <2>3, <2>4 DEF TraverseAfter
  <2> QED
    BY <1>6, <1>7, <2>5 DEF IInv
<1> QED
  BY <1>4, <1>9, <1>10

(* The end of the packet keeps the invariant. *)
LEMMA EndOfDataKeeps == IInv /\ EndOfData => IInv'
<1> SUFFICES ASSUME IInv, EndOfData
             PROVE  IInv'
  OBVIOUS
<1>1. /\ Typed /\ MidFollows /\ AtHit /\ WalkBefore /\ TraverseAfter
      /\ pc = "read" /\ walk # "match" /\ offset = Len(data)
  BY DEF IInv, EndOfData, AtHit
<1>2. /\ UNCHANGED <<given, data, walk, state, offset, hit, back, active>>
      /\ pc' = "none"
  BY DEF EndOfData
<1>3. /\ Len(data) \in Nat /\ Hits \subseteq 0 .. Len(data) - 1
      /\ Len(given["post"]) # 0 <=> given.post # <<>>
  BY <1>1, TypedMeans DEF Parts
<1>4. /\ Hits' = Hits
      /\ \A h : MayPrecede(h)' <=> MayPrecede(h)
      /\ \A h : MayFollow(h)' <=> MayFollow(h)
  BY <1>2, SameWords
<1>5. Typed'
  BY <1>1, <1>2, TypedStays DEF Typed
<1>6. MidFollows' /\ AtHit' /\ WalkBefore' /\ MatchAfter' /\ TraverseAfter'
  BY <1>1, <1>2, <1>4 DEF MidFollows, AtHit, WalkBefore, MatchAfter, TraverseAfter
<1>7. \A h \in Found(Len(data)) : ~MayFollow(h)
  <2>1. CASE given.post = <<>>
    BY <1>1, <2>1 DEF TraverseAfter
  <2>2. CASE given.post # <<>>
    <3>1. ~MatchesAt(given, "post", WordAfter, StartsAfter, Len(data))
      BY <1>1, <1>3, <2>2 DEF TraverseAfter, Between
    <3>2. Len(data) <= Len(data)
      BY <1>3
    <3> QED
      BY <1>1, <1>3, <2>2, <3>1, <3>2, FoundByTraverse
  <2> QED
    BY <2>1, <2>2
<1>8. \A h \in Hits : ~(MayPrecede(h) /\ MayFollow(h))
  <2>1. \A h \in Hits : MayPrecede(h) => h \in Found(Len(data))
    BY <1>3 DEF Found
  <2> QED
    BY <1>7, <2>1
<1>9. MatchedIffCut'
  BY <1>1, <1>2, <1>4, <1>8 DEF MatchedIffCut
<1> QED
  BY <1>5, <1>6, <1>9 DEF IInv

(* Entering pre_match keeps the invariant. *)
LEMMA EnterPreKeeps == IInv /\ EnterPre => IInv'
<1> SUFFICES ASSUME IInv, EnterPre
             PROVE  IInv'
  OBVIOUS
<1>1. /\ Typed /\ MidFollows /\ AtHit /\ WalkBefore /\ TraverseAfter
      /\ pc = "hit" /\ hit = offset /\ hit \in Hits
      /\ given.pre # <<>> /\ Depth <= hit
  BY DEF IInv, EnterPre, AtHit
<1>2. /\ UNCHANGED <<given, data, walk, state, offset, hit>>
      /\ pc' = "pre" /\ back' = hit - Depth
      /\ active' = [active EXCEPT !["pre"] = FirstNode]
  BY <1>1 DEF EnterPre
<1>3. /\ data \in Seq(Symbols) /\ Len(data) \in Nat /\ Depth \in Nat /\ hit \in Nat
      /\ hit < Len(data)
      /\ given \in Compiled /\ "pre" \in Parts /\ "post" \in Parts /\ "post" # "pre"
      /\ Before(hit) \in Seq(Symbols) /\ Len(Before(hit)) = hit - Depth + 1
  BY <1>1, TypedMeans, WordsMean DEF Typed
<1>4. Len(given["pre"]) # 0
  BY <1>1, <1>3, TypedMeans
<1>5. /\ WalkTyped(given, "pre", FirstNode)
      /\ Between(given, "pre", FirstNode, Before(hit), {0}, 0)
  <2>1. {0} \in SUBSET Nat /\ 0 \in {0}
    OBVIOUS
  <2> QED
    BY <1>3, <1>4, <2>1, WalkBegins
<1>6. Midway(given, "pre", FirstNode, Before(hit), {0}, 1)
  <2>1. {0} \in SUBSET Nat /\ 0 \in Nat /\ 0 + 1 \notin {0} /\ 0 + 1 = 1
    OBVIOUS
  <2>2. 0 < Len(Before(hit))
    BY <1>1, <1>3
  <2>3. Midway(given, "pre", FirstNode, Before(hit), {0}, 0 + 1)
    BY <1>3, <1>5, <2>1, <2>2, NothingBegins
  <2> QED
    BY <2>1, <2>3
<1>7. /\ Hits' = Hits /\ Depth' = Depth /\ \A h : Before(h)' = Before(h)
      /\ \A l : Found(l)' = Found(l)
      /\ WordAfter' = WordAfter /\ StartsAfter' = StartsAfter
  BY <1>2, SameWords
<1>8. /\ Typed' /\ active'["pre"] = FirstNode /\ active'["post"] = active["post"]
  <2>1. /\ back' \in 0 .. Len(data)
        /\ state' \in StatesOf(given.mid) /\ offset' \in 0 .. Len(data)
        /\ hit' \in {NO_STATE} \cup Hits
        /\ pc' \in {"read", "hit", "pre", "post", "activate", "unmatched", "matched", "none"}
    BY <1>1, <1>2, <1>3 DEF Typed
  <2>2. UNCHANGED <<given, data, walk>>
    BY <1>2
  <2>3. /\ Typed' /\ active'["pre"] = FirstNode
        /\ \A other \in Parts : other # "pre" => active'[other] = active[other]
    BY <1>1, <1>2, <1>3, <1>5, <2>1, <2>2, TypedAfter
  <2> QED
    BY <1>3, <2>3
<1>9. MidFollows' /\ AtHit' /\ MatchAfter' /\ MatchedIffCut'
  BY <1>1, <1>2, <1>7 DEF MidFollows, AtHit, MatchAfter, MatchedIffCut
<1>10. WalkBefore'
  <2>1. (hit - Depth + 1) - (hit - Depth) = 1
    BY <1>3
  <2>2. Midway(given, "pre", active'["pre"], Before(hit), {0}, (hit - Depth + 1) - back')
    BY <1>2, <1>6, <1>8, <2>1
  <2>3. Before(hit)' = Before(hit)
    BY <1>2, <1>7 DEF Before
  <2> QED
    BY <1>1, <1>2, <1>3, <1>7, <2>2, <2>3 DEF WalkBefore
<1>11. TraverseAfter'
  BY <1>1, <1>2, <1>7, <1>8 DEF TraverseAfter
<1> QED
  BY <1>8, <1>9, <1>10, <1>11 DEF IInv

(* A hit with nothing before it, or too early for what is before, keeps the invariant. *)
LEMMA SkipPreKeeps == IInv /\ SkipPre => IInv'
<1> SUFFICES ASSUME IInv, SkipPre
             PROVE  IInv'
  OBVIOUS
<1>1. /\ Typed /\ MidFollows /\ AtHit /\ WalkBefore /\ TraverseAfter
      /\ pc = "hit" /\ hit = offset /\ hit \in Hits
  BY DEF IInv, SkipPre, AtHit
<1>2. /\ UNCHANGED <<given, data, walk, state, offset, hit, back, active>>
      /\ \/ NothingBefore /\ pc' = "activate"
         \/ OutOfReach /\ pc' = "unmatched"
  BY DEF SkipPre
<1>3. Depth \in Nat /\ hit \in Nat
  BY <1>1, TypedMeans
<1>4. /\ Hits' = Hits /\ Depth' = Depth /\ \A h : Before(h)' = Before(h)
      /\ \A h : MayPrecede(h)' <=> MayPrecede(h)
      /\ \A l : Found(l)' = Found(l)
      /\ WordAfter' = WordAfter /\ StartsAfter' = StartsAfter
  BY <1>2, SameWords
<1>5. Typed'
  BY <1>1, <1>2, TypedStays DEF Typed
<1>6. MidFollows' /\ AtHit' /\ MatchAfter' /\ MatchedIffCut' /\ TraverseAfter'
  BY <1>1, <1>2, <1>4 DEF MidFollows, AtHit, MatchAfter, MatchedIffCut, TraverseAfter
<1>7. pc' = "activate" => MayPrecede(hit)
  BY <1>1, <1>2 DEF NothingBefore, MayPrecede
<1>8. pc' = "unmatched" => \/ ~MayPrecede(hit)
                           \/ walk = "match" /\ given.pre # <<>> /\ hit + 1 = Depth
  BY <1>1, <1>2, <1>3 DEF OutOfReach, MayPrecede
<1>9. WalkBefore'
  BY <1>2, <1>4, <1>7, <1>8 DEF WalkBefore
<1> QED
  BY <1>5, <1>6, <1>9 DEF IInv

(* Giving up the part before a hit keeps the invariant. *)
LEMMA NotMatchedBeforeKeeps == IInv /\ NotMatchedBefore => IInv'
<1> SUFFICES ASSUME IInv, NotMatchedBefore
             PROVE  IInv'
  OBVIOUS
<1>1. /\ Typed /\ MidFollows /\ AtHit /\ WalkBefore /\ TraverseAfter
      /\ pc = "unmatched" /\ hit = offset /\ hit \in Hits
      /\ \/ ~MayPrecede(hit)
         \/ walk = "match" /\ given.pre # <<>> /\ hit + 1 = Depth
  BY DEF IInv, NotMatchedBefore, AtHit, WalkBefore
<1>2. /\ UNCHANGED <<given, data, walk, state, offset, hit, back, active>>
      /\ pc' = IF walk = "match" THEN "none" ELSE "post"
  BY DEF NotMatchedBefore
<1>3. /\ Hits' = Hits /\ Depth' = Depth
      /\ \A h : MayPrecede(h)' <=> MayPrecede(h)
      /\ \A h : MayFollow(h)' <=> MayFollow(h)
      /\ \A l : Found(l)' = Found(l)
      /\ WordAfter' = WordAfter /\ StartsAfter' = StartsAfter
  BY <1>2, SameWords
<1>4. Typed'
  BY <1>1, <1>2, TypedStays DEF Typed
<1>5. MidFollows' /\ AtHit' /\ WalkBefore' /\ MatchAfter' /\ MatchedIffCut'
  BY <1>1, <1>2, <1>3 DEF MidFollows, AtHit, WalkBefore, MatchAfter, MatchedIffCut
<1>6. CASE walk = "match"
  BY <1>2, <1>3, <1>4, <1>5, <1>6 DEF TraverseAfter, IInv
<1>7. CASE walk # "match"
  <2>1. /\ data \in Seq(Symbols) /\ Len(data) \in Nat /\ offset \in Nat /\ offset < Len(data)
        /\ given \in Compiled /\ "post" \in Parts
        /\ StartsAfter \in SUBSET Nat /\ WordAfter = data
        /\ WalkTyped(given, "post", active["post"])
        /\ Hits \subseteq 0 .. Len(data) - 1
    BY <1>1, <1>7, TypedMeans, WordsMean DEF Typed, WordAfter
  <2>2. /\ Between(given, "post", active["post"], WordAfter, StartsAfter, offset)
        /\ given.post = <<>> => Found(offset) = {}
    BY <1>1, <1>7 DEF TraverseAfter
  <2>3. offset + 1 \notin StartsAfter
    <3>1. \A h \in Hits : h \in Int /\ (h + 1 = offset + 1 => h = offset)
      BY <2>1
    <3> QED
      BY <1>1, <1>7, <3>1 DEF StartsAfter, Found
  <2>4. Midway(given, "post", active["post"], WordAfter, StartsAfter, offset + 1)
    BY <2>1, <2>2, <2>3, NothingBegins
  <2>5. given.post = <<>> => Found(offset + 1) = {}
    <3>1. \A h \in Found(offset + 1) : h \in Found(offset)
      BY <1>1, <1>7, <2>1 DEF Found
    <3> QED
      BY <2>2, <3>1
  <2>6. TraverseAfter'
    BY <1>2, <1>3, <1>7, <2>4, <2>5 DEF TraverseAfter
  <2> QED
    BY <1>4, <1>5, <2>6 DEF IInv
<1> QED
  BY <1>6, <1>7

(* The first node of the part after is to be added.                        *)
LEMMA ActivatedTyped ==
  ASSUME NEW p \in Compiled, NEW part \in Parts, NEW w, WalkTyped(p, part, w),
         Len(p[part]) # 0
  PROVE  LET v == [w EXCEPT !.add_post = <<1>>]
         IN /\ WalkTyped(p, part, v)
            /\ v.prefixDfas = w.prefixDfas /\ v.states = w.states
            /\ v.it_state = w.it_state /\ v.add_post = <<1>>
<1> DEFINE v == [w EXCEPT !.add_post = <<1>>]
           n == Len(p[part])
<1>1. 1 \in 1 .. n
  BY ChainsTyped
<1>2. w \in [prefixDfas : Seq(1 .. n), states : Seq(Nat), it_prefixdfa : Nat,
             it_state : Nat, add_post : Seq(1 .. n)]
  BY DEF WalkTyped
<1>3. <<1>> \in Seq(1 .. n) /\ Len(<<1>>) = 1 /\ <<1>>[1] = 1
  BY <1>1
<1>4. /\ v \in [prefixDfas : Seq(1 .. n), states : Seq(Nat), it_prefixdfa : Nat,
                it_state : Nat, add_post : Seq(1 .. n)]
      /\ v.prefixDfas = w.prefixDfas /\ v.states = w.states /\ v.add_post = <<1>>
      /\ v.it_prefixdfa = w.it_prefixdfa /\ v.it_state = w.it_state
  <2> HIDE DEF n
  <2> QED
    BY <1>2, <1>3
<1>5. HasDfa(p, part, 1)
  BY DEF HasDfa
<1>6. \A i \in 1 .. Len(v.add_post) : HasDfa(p, part, v.add_post[i])
  <2> HIDE DEF v
  <2> QED
    BY <1>3, <1>4, <1>5
<1> HIDE DEF v
<1>7. WalkTyped(p, part, v)
  BY <1>4, <1>6 DEF WalkTyped, n
<1> QED
  BY <1>4, <1>7 DEF v

(* Activating the first node after a hit keeps the invariant. *)
LEMMA ActivateKeeps == IInv /\ Activate => IInv'
<1> SUFFICES ASSUME IInv, Activate
             PROVE  IInv'
  OBVIOUS
<1>1. /\ Typed /\ MidFollows /\ AtHit /\ WalkBefore /\ TraverseAfter
      /\ pc = "activate" /\ hit = offset /\ hit \in Hits /\ MayPrecede(hit)
  BY DEF IInv, Activate, AtHit, WalkBefore
<1>2. UNCHANGED <<given, data, walk, state, hit, back>>
  BY DEF Activate
<1>3. /\ data \in Seq(Symbols) /\ Len(data) \in Nat /\ hit \in Nat /\ hit < Len(data)
      /\ given \in Compiled /\ "post" \in Parts /\ "pre" \in Parts
      /\ After(hit) \in Seq(Symbols) /\ Len(After(hit)) = Len(data) - hit - 1
      /\ WalkTyped(given, "post", active["post"])
      /\ Hits \subseteq 0 .. Len(data) - 1
  BY <1>1, TypedMeans, WordsMean DEF Typed
<1>4. /\ Hits' = Hits /\ Depth' = Depth
      /\ \A h : MayPrecede(h)' <=> MayPrecede(h)
      /\ \A h : MayFollow(h)' <=> MayFollow(h)
      /\ \A l : Found(l)' = Found(l)
      /\ WordAfter' = WordAfter /\ StartsAfter' = StartsAfter
  BY <1>2, SameWords
<1>5. CASE given.post = <<>>
  <2>1. pc' = "matched" /\ UNCHANGED <<offset, active>>
    BY <1>5 DEF Activate
  <2>2. Typed'
    BY <1>1, <1>2, <2>1, TypedStays DEF Typed
  <2>3. MidFollows' /\ AtHit' /\ WalkBefore' /\ MatchAfter' /\ TraverseAfter'
    BY <1>1, <1>2, <1>4, <2>1 DEF MidFollows, AtHit, WalkBefore, MatchAfter, TraverseAfter
  <2>4. MayFollow(hit) /\ hit <= offset
    BY <1>1, <1>3, <1>5 DEF MayFollow
  <2>5. MatchedIffCut'
    BY <1>1, <1>2, <1>4, <2>1, <2>4 DEF MatchedIffCut
  <2> QED
    BY <2>2, <2>3, <2>5 DEF IInv
<1>6. CASE given.post # <<>> /\ walk = "match"
  <2>1. /\ active' = [active EXCEPT !["post"] = FirstNode]
        /\ offset' = offset + 1
        /\ pc' = IF offset' < Len(data) THEN "post" ELSE "none"
    BY <1>6 DEF Activate
  <2>2. Len(given["post"]) # 0
    BY <1>1, <1>3, <1>6, TypedMeans
  <2>3. {0} \in SUBSET Nat /\ 0 \in {0} /\ 0 \in Nat /\ 0 + 1 \notin {0} /\ 0 + 1 = 1
    OBVIOUS
  <2>4. /\ WalkTyped(given, "post", FirstNode)
        /\ Between(given, "post", FirstNode, After(hit), {0}, 0)
    BY <1>3, <2>2, <2>3, WalkBegins
  <2>5. /\ Typed' /\ active'["post"] = FirstNode
    <3>1. /\ back' \in 0 .. Len(data)
          /\ state' \in StatesOf(given.mid) /\ offset' \in 0 .. Len(data)
          /\ hit' \in {NO_STATE} \cup Hits
          /\ pc' \in {"read", "hit", "pre", "post", "activate", "unmatched", "matched", "none"}
      BY <1>1, <1>2, <1>3, <2>1 DEF Typed
    <3>2. UNCHANGED <<given, data, walk>>
      BY <1>2
    <3> QED
      BY <1>1, <1>3, <2>1, <2>4, <3>1, <3>2, TypedAfter
  <2>6. MidFollows' /\ AtHit' /\ WalkBefore' /\ TraverseAfter'
    BY <1>1, <1>2, <1>4, <1>6, <2>1 DEF MidFollows, AtHit, WalkBefore, TraverseAfter
  <2>7. CASE offset + 1 < Len(data)
    <3>1. 0 < Len(After(hit))
      BY <1>1, <1>3, <2>7
    <3>2. Midway(given, "post", FirstNode, After(hit), {0}, 0 + 1)
      BY <1>3, <2>3, <2>4, <3>1, NothingBegins
    <3>3. (offset + 1) - hit = 1 /\ hit < offset + 1
      BY <1>1, <1>3
    <3>4. Midway(given, "post", active'["post"], WordAfter, StartsAfter, offset' - hit)
      BY <1>6, <2>1, <2>3, <2>5, <3>2, <3>3 DEF WordAfter, StartsAfter
    <3>5. pc' = "post" /\ offset' < Len(data) /\ hit < offset'
      BY <2>1, <2>7, <3>3
    <3>6. MatchAfter'
      BY <1>1, <1>2, <1>4, <1>6, <3>4, <3>5 DEF MatchAfter
    <3>7. MatchedIffCut'
      BY <3>5 DEF MatchedIffCut
    <3> QED
      BY <2>5, <2>6, <3>6, <3>7 DEF IInv
  <2>8. CASE ~(offset + 1 < Len(data))
    <3>1. pc' = "none" /\ Len(data) - hit - 1 = 0 /\ 0 <= Len(data) - hit - 1
      BY <1>1, <1>3, <2>1, <2>8
    <3>2. ~MayFollow(hit)
      BY <1>1, <1>6, <2>3, <2>4, <3>1, FoundAfter
    <3>3. MatchAfter' /\ MatchedIffCut'
      BY <1>2, <1>4, <1>6, <3>1, <3>2 DEF MatchAfter, MatchedIffCut
    <3> QED
      BY <2>5, <2>6, <3>3 DEF IInv
  <2> QED
    BY <2>7, <2>8
<1>7. CASE given.post # <<>> /\ walk # "match"
  <2> DEFINE w == active["post"]
             v == [w EXCEPT !.add_post = <<1>>]
  <2>1. /\ active' = [active EXCEPT !["post"] = v]
        /\ pc' = "post" /\ offset' = offset
    BY <1>7 DEF Activate
  <2>2. Len(given["post"]) # 0
    BY <1>1, <1>3, <1>7, TypedMeans
  <2>3. /\ WalkTyped(given, "post", v)
        /\ v.prefixDfas = w.prefixDfas /\ v.states = w.states
        /\ v.it_state = w.it_state /\ v.add_post = <<1>>
    BY <1>3, <2>2, ActivatedTyped
  <2> HIDE DEF v
  <2>4. offset + 1 \in StartsAfter
    BY <1>1, <1>3, <1>7 DEF StartsAfter, Found
  <2>5. Between(given, "post", w, WordAfter, StartsAfter, offset)
    BY <1>1, <1>7 DEF TraverseAfter
  <2>6. /\ WordAfter \in Seq(Symbols) /\ offset \in Nat /\ offset < Len(WordAfter)
        /\ StartsAfter \in SUBSET Nat
    BY <1>1, <1>3, <1>7, WordsMean DEF WordAfter
  <2>7. v.add_post = IF Len(given["post"]) # 0 /\ offset + 1 \in StartsAfter THEN <<1>> ELSE <<>>
    BY <2>2, <2>3, <2>4
  <2>8. Midway(given, "post", v, WordAfter, StartsAfter, offset + 1)
    BY <1>3, <2>3, <2>5, <2>6, <2>7, SymbolBegins
  <2>9. Typed' /\ active'["post"] = v
    <3>1. /\ back' \in 0 .. Len(data)
          /\ state' \in StatesOf(given.mid) /\ offset' \in 0 .. Len(data)
          /\ hit' \in {NO_STATE} \cup Hits
          /\ pc' \in {"read", "hit", "pre", "post", "activate", "unmatched", "matched", "none"}
      BY <1>1, <1>2, <2>1 DEF Typed
    <3>2. UNCHANGED <<given, data, walk>>
      BY <1>2
    <3> QED
      BY <1>1, <1>3, <2>1, <2>3, <3>1, <3>2, TypedAfter
  <2>10. MidFollows' /\ AtHit' /\ WalkBefore' /\ MatchAfter' /\ MatchedIffCut'
    BY <1>1, <1>2, <1>4, <1>7, <2>1 DEF MidFollows, AtHit, WalkBefore, MatchAfter, MatchedIffCut
  <2>11. TraverseAfter'
    BY <1>2, <1>4, <1>7, <2>1, <2>8, <2>9 DEF TraverseAfter
  <2> QED
    BY <2>9, <2>10, <2>11 DEF IInv
<1> QED
  BY <1>5, <1>6, <1>7

(* A visit, by what its entry does.                                        *)
LEMMA VisitIs ==
  ASSUME Typed, NEW part \in Parts, Visit(part)
  PROVE  LET w == active[part]
             c == SymbolAt(part)
         IN /\ pc = part /\ w.it_state <= Len(w.states)
            /\ UNCHANGED <<given, data, walk, state, offset, hit, back>>
            /\ \/ /\ Ends(given, part, Entry(w, w.it_state), c)
                  /\ pc' = IF part = "pre" THEN "activate" ELSE "matched"
                  /\ active' = [active EXCEPT ![part] = NoEntries]
               \/ /\ ~Ends(given, part, Entry(w, w.it_state), c)
                  /\ pc' = pc
                  /\ active' = [active EXCEPT ![part] = AfterVisit(given, part, w, c)]
<1> DEFINE w == active[part]
           c == SymbolAt(part)
           node == w.prefixDfas[w.it_prefixdfa]
           D == given[part][node]
           t == D.table[w.states[w.it_state]][c]
<1>1. w.it_prefixdfa = w.it_state
  BY DEF Typed, WalkTyped
<1>2. Ends(given, part, Entry(w, w.it_state), c)
        <=> Accepts(D, t) /\ IsLast(given, part, node)
  BY <1>1 DEF Ends, Entry, To
<1>3. AfterVisit(given, part, w, c)
        = [Visited(w, D, t) EXCEPT
             !.add_post = @ \o IF Accepts(D, t) THEN PostDfa(given, part, node) ELSE <<>>]
  BY DEF AfterVisit
<1>4. /\ pc = part /\ w.it_state <= Len(w.states)
      /\ UNCHANGED <<given, data, walk, state, offset, hit, back>>
      /\ IF Accepts(D, t) /\ IsLast(given, part, node)
           THEN /\ pc' = IF part = "pre" THEN "activate" ELSE "matched"
                /\ active' = [active EXCEPT ![part] = NoEntries]
           ELSE /\ active' = [active EXCEPT ![part] =
                     [Visited(w, D, t) EXCEPT
                        !.add_post = @ \o IF Accepts(D, t) THEN PostDfa(given, part, node)
                                          ELSE <<>>]]
                /\ pc' = pc
  BY DEF Visit
<1> QED
  BY <1>2, <1>3, <1>4

(* Visiting an entry of the walk before the hit keeps the invariant. *)
LEMMA VisitPreKeeps == IInv /\ Visit("pre") => IInv'
<1> SUFFICES ASSUME IInv, Visit("pre")
             PROVE  IInv'
  OBVIOUS
<1> DEFINE w == active["pre"]
           c == SymbolAt("pre")
           m == (hit - Depth + 1) - back
           e == Entry(w, w.it_state)
           v == AfterVisit(given, "pre", w, c)
<1>1. /\ Typed /\ MidFollows /\ AtHit /\ WalkBefore /\ TraverseAfter
      /\ "pre" \in Parts /\ "post" \in Parts /\ "post" # "pre"
  BY DEF IInv, Parts
<1>2. /\ pc = "pre" /\ w.it_state <= Len(w.states)
      /\ UNCHANGED <<given, data, walk, state, offset, hit, back>>
      /\ \/ /\ Ends(given, "pre", e, c)
            /\ pc' = "activate"
            /\ active' = [active EXCEPT !["pre"] = NoEntries]
         \/ /\ ~Ends(given, "pre", e, c)
            /\ pc' = pc
            /\ active' = [active EXCEPT !["pre"] = v]
  BY <1>1, VisitIs
<1>3. /\ hit = offset /\ hit \in Hits /\ given.pre # <<>> /\ Depth <= hit /\ back <= hit - Depth
      /\ Midway(given, "pre", w, Before(hit), {0}, m)
  BY <1>1, <1>2 DEF AtHit, WalkBefore
<1>4. /\ data \in Seq(Symbols) /\ Len(data) \in Nat /\ Depth \in Nat /\ hit \in Nat
      /\ hit < Len(data) /\ back \in Nat
      /\ given \in Compiled
      /\ Before(hit) \in Seq(Symbols) /\ Len(Before(hit)) = hit - Depth + 1
      /\ WalkTyped(given, "pre", w)
  BY <1>1, <1>3, TypedMeans, WordsMean DEF Typed
<1>5. m \in 1 .. Len(Before(hit)) /\ m \in Nat /\ m <= hit - Depth + 1
  BY <1>3, <1>4
<1>6. c = Before(hit)[m]
  <2>1. back \in 0 .. hit - Depth
    BY <1>3, <1>4
  <2>2. Before(hit)[m] = data[back + 1]
    BY <1>1, <1>3, <2>1, WordsMean
  <2>3. 1 + back = back + 1
    BY <1>4
  <2> QED
    BY <2>2, <2>3 DEF SymbolAt
<1> HIDE DEF c, m, w
<1>7. /\ Ends(given, "pre", e, c) => MatchesAt(given, "pre", Before(hit), {0}, m)
      /\ ~Ends(given, "pre", e, c) => /\ WalkTyped(given, "pre", v)
                                      /\ Midway(given, "pre", v, Before(hit), {0}, m)
  <2>1. {0} \in SUBSET Nat
    OBVIOUS
  <2> QED
    BY <1>1, <1>2, <1>3, <1>4, <1>5, <1>6, <2>1, VisitGoesOn
<1> HIDE DEF v, e
<1>8. /\ Hits' = Hits /\ Depth' = Depth /\ Before(hit)' = Before(hit)
      /\ \A h : MayPrecede(h)' <=> MayPrecede(h)
      /\ \A l : Found(l)' = Found(l)
      /\ WordAfter' = WordAfter /\ StartsAfter' = StartsAfter
  BY <1>2, SameWords DEF Before
<1>9. /\ back' \in 0 .. Len(data)
      /\ state' \in StatesOf(given.mid) /\ offset' \in 0 .. Len(data)
      /\ hit' \in {NO_STATE} \cup Hits
      /\ pc' \in {"read", "hit", "pre", "post", "activate", "unmatched", "matched", "none"}
      /\ UNCHANGED <<given, data, walk>>
  BY <1>1, <1>2 DEF Typed
<1>10. CASE Ends(given, "pre", e, c)
  <2>1. pc' = "activate" /\ active' = [active EXCEPT !["pre"] = NoEntries]
    BY <1>2, <1>10
  <2>2. WalkTyped(given, "pre", NoEntries)
    <3>1. {0} \in SUBSET Nat
      OBVIOUS
    <3> QED
      BY <1>1, <1>4, <3>1, WalkBegins
  <2>3. Typed' /\ active'["post"] = active["post"]
    BY <1>1, <1>9, <2>1, <2>2, TypedAfter
  <2>4. MayPrecede(hit)
    BY <1>1, <1>3, <1>5, <1>7, <1>10, FoundBefore
  <2>5. MidFollows' /\ AtHit' /\ WalkBefore' /\ MatchAfter' /\ MatchedIffCut'
    BY <1>1, <1>2, <1>8, <2>1, <2>4 DEF MidFollows, AtHit, WalkBefore, MatchAfter, MatchedIffCut
  <2>6. TraverseAfter'
    BY <1>1, <1>2, <1>8, <2>1, <2>3 DEF TraverseAfter
  <2> QED
    BY <2>3, <2>5, <2>6 DEF IInv
<1>11. CASE ~Ends(given, "pre", e, c)
  <2>1. pc' = "pre" /\ active' = [active EXCEPT !["pre"] = v]
    BY <1>2, <1>11
  <2>2. Typed' /\ active'["pre"] = v /\ active'["post"] = active["post"]
    BY <1>1, <1>7, <1>9, <1>11, <2>1, TypedAfter
  <2>3. MidFollows' /\ AtHit' /\ MatchAfter' /\ MatchedIffCut'
    BY <1>1, <1>2, <1>8, <2>1 DEF MidFollows, AtHit, MatchAfter, MatchedIffCut
  <2>4. WalkBefore'
    BY <1>2, <1>3, <1>7, <1>8, <1>11, <2>1, <2>2 DEF WalkBefore, m
  <2>5. TraverseAfter'
    BY <1>1, <1>2, <1>8, <2>1, <2>2 DEF TraverseAfter
  <2> QED
    BY <2>2, <2>3, <2>4, <2>5 DEF IInv
<1> QED
  BY <1>10, <1>11

(* The symbols the walk after the candidate has read, of its word.         *)
ReadAfter == IF walk = "match" THEN offset - hit ELSE offset + 1

(* What the walk after the hit has when it visits its entries. *)
LEMMA WalkAfterIs ==
  ASSUME IInv, pc = "post"
  PROVE  /\ Typed /\ given \in Compiled /\ "post" \in Parts
         /\ WalkTyped(given, "post", active["post"])
         /\ WordAfter \in Seq(Symbols) /\ StartsAfter \in SUBSET Nat
         /\ ReadAfter \in 1 .. Len(WordAfter) /\ ReadAfter \in Nat
         /\ ReadAfter <= Len(WordAfter)
         /\ Midway(given, "post", active["post"], WordAfter, StartsAfter, ReadAfter)
         /\ SymbolAt("post") = WordAfter[ReadAfter]
         /\ offset \in Nat /\ offset < Len(data)
         /\ walk = "match" => /\ hit \in Hits /\ hit \in Nat /\ hit < offset
                              /\ given.post # <<>> /\ MayPrecede(hit)
                              /\ WordAfter = After(hit) /\ StartsAfter = {0}
                              /\ Len(WordAfter) = Len(data) - hit - 1
         /\ walk # "match" => WordAfter = data
<1>1. /\ Typed /\ MidFollows /\ AtHit /\ MatchAfter /\ TraverseAfter
      /\ given \in Compiled /\ "post" \in Parts
      /\ WalkTyped(given, "post", active["post"])
  BY DEF IInv, Typed, Parts
<1>2. /\ data \in Seq(Symbols) /\ Len(data) \in Nat /\ offset \in Nat
      /\ Hits \subseteq 0 .. Len(data) - 1 /\ StartsAfter \in SUBSET Nat
  BY <1>1, TypedMeans, WordsMean DEF Typed
<1>3. SymbolAt("post") = data[offset + 1]
  <2>1. 1 + offset = offset + 1
    BY <1>2
  <2> QED
    BY <2>1 DEF SymbolAt
<1>4. CASE walk = "match"
  <2>1. /\ hit \in Hits /\ given.post # <<>> /\ MayPrecede(hit) /\ hit < offset
        /\ offset < Len(data)
        /\ Midway(given, "post", active["post"], WordAfter, StartsAfter, offset - hit)
    BY <1>1, <1>4 DEF AtHit, MatchAfter
  <2>2. WordAfter = After(hit) /\ StartsAfter = {0} /\ ReadAfter = offset - hit
    BY <1>4 DEF WordAfter, StartsAfter, ReadAfter
  <2>3. /\ After(hit) \in Seq(Symbols) /\ Len(After(hit)) = Len(data) - hit - 1
        /\ \A k \in 1 .. Len(data) - hit - 1 : After(hit)[k] = data[hit + k + 1]
    BY <1>1, <2>1, WordsMean
  <2>4. hit \in Nat /\ offset - hit \in 1 .. Len(data) - hit - 1
        /\ hit + (offset - hit) + 1 = offset + 1
    BY <1>2, <2>1
  <2>5. After(hit)[offset - hit] = data[offset + 1]
    BY <2>3, <2>4
  <2>6. ReadAfter \in 1 .. Len(WordAfter) /\ ReadAfter \in Nat /\ ReadAfter <= Len(WordAfter)
    BY <2>2, <2>3, <2>4
  <2> QED
    BY <1>1, <1>2, <1>3, <1>4, <2>1, <2>2, <2>3, <2>4, <2>5, <2>6
<1>5. CASE walk # "match"
  <2>1. WordAfter = data /\ ReadAfter = offset + 1
    BY <1>5 DEF WordAfter, ReadAfter
  <2>2. /\ offset < Len(data)
        /\ Midway(given, "post", active["post"], WordAfter, StartsAfter, offset + 1)
    BY <1>1, <1>5 DEF MidFollows, TraverseAfter
  <2>3. ReadAfter \in 1 .. Len(WordAfter) /\ ReadAfter \in Nat /\ ReadAfter <= Len(WordAfter)
    BY <1>2, <2>1, <2>2
  <2> QED
    BY <1>1, <1>2, <1>3, <1>5, <2>1, <2>2, <2>3
<1> QED
  BY <1>4, <1>5

(* Visiting an entry of the walk after the hit keeps the invariant. *)
LEMMA VisitPostKeeps == IInv /\ Visit("post") => IInv'
<1> SUFFICES ASSUME IInv, Visit("post")
             PROVE  IInv'
  OBVIOUS
<1> DEFINE w == active["post"]
           c == SymbolAt("post")
           m == ReadAfter
           e == Entry(w, w.it_state)
           v == AfterVisit(given, "post", w, c)
<1>1. /\ Typed /\ MidFollows /\ AtHit /\ WalkBefore /\ MatchAfter /\ TraverseAfter
      /\ "post" \in Parts
  BY DEF IInv, Parts
<1>2. /\ pc = "post" /\ w.it_state <= Len(w.states)
      /\ UNCHANGED <<given, data, walk, state, offset, hit, back>>
      /\ \/ /\ Ends(given, "post", e, c)
            /\ pc' = "matched"
            /\ active' = [active EXCEPT !["post"] = NoEntries]
         \/ /\ ~Ends(given, "post", e, c)
            /\ pc' = pc
            /\ active' = [active EXCEPT !["post"] = v]
  BY <1>1, VisitIs
<1>3. /\ given \in Compiled /\ WalkTyped(given, "post", w)
      /\ WordAfter \in Seq(Symbols) /\ StartsAfter \in SUBSET Nat
      /\ m \in 1 .. Len(WordAfter) /\ m \in Nat /\ m <= Len(WordAfter)
      /\ Midway(given, "post", w, WordAfter, StartsAfter, m)
      /\ c = WordAfter[m]
      /\ offset \in Nat /\ offset < Len(data)
      /\ walk = "match" => /\ hit \in Hits /\ hit \in Nat /\ hit < offset
                           /\ given.post # <<>> /\ MayPrecede(hit)
                           /\ WordAfter = After(hit) /\ StartsAfter = {0}
                           /\ Len(WordAfter) = Len(data) - hit - 1
      /\ walk # "match" => WordAfter = data
  BY <1>2, WalkAfterIs
<1> HIDE DEF c, m, w
<1>4. /\ Ends(given, "post", e, c) => /\ Len(given["post"]) # 0
                                      /\ MatchesAt(given, "post", WordAfter, StartsAfter, m)
      /\ ~Ends(given, "post", e, c) => /\ WalkTyped(given, "post", v)
                                       /\ Midway(given, "post", v, WordAfter, StartsAfter, m)
  BY <1>1, <1>2, <1>3, VisitGoesOn
<1> HIDE DEF v, e
<1>5. /\ Hits' = Hits /\ Depth' = Depth
      /\ \A h : MayPrecede(h)' <=> MayPrecede(h)
      /\ \A h : MayFollow(h)' <=> MayFollow(h)
      /\ \A l : Found(l)' = Found(l)
      /\ WordAfter' = WordAfter /\ StartsAfter' = StartsAfter
  BY <1>2, SameWords
<1>6. /\ back' \in 0 .. Len(data)
      /\ state' \in StatesOf(given.mid) /\ offset' \in 0 .. Len(data)
      /\ hit' \in {NO_STATE} \cup Hits
      /\ pc' \in {"read", "hit", "pre", "post", "activate", "unmatched", "matched", "none"}
      /\ UNCHANGED <<given, data, walk>>
  BY <1>1, <1>2 DEF Typed
<1>7. CASE Ends(given, "post", e, c)
  <2>1. pc' = "matched" /\ active' = [active EXCEPT !["post"] = NoEntries]
    BY <1>2, <1>7
  <2>2. WalkTyped(given, "post", NoEntries)
    BY <1>1, <1>3, WalkBegins
  <2>3. Typed'
    BY <1>1, <1>6, <2>1, <2>2, TypedAfter
  <2>4. given.post # <<>>
    BY <1>1, <1>4, <1>7, TypedMeans
  <2>5. walk = "match" => MayPrecede(hit) /\ MayFollow(hit)
    <3> SUFFICES ASSUME walk = "match"
                 PROVE  MayPrecede(hit) /\ MayFollow(hit)
      OBVIOUS
    <3> QED
      BY <1>1, <1>3, <1>4, <1>7, <2>4, FoundAfter
  <2>6. walk # "match" => \E h \in Hits : h <= offset /\ MayPrecede(h) /\ MayFollow(h)
    <3> SUFFICES ASSUME walk # "match"
                 PROVE  \E h \in Hits : h <= offset /\ MayPrecede(h) /\ MayFollow(h)
      OBVIOUS
    <3>1. m = offset + 1
      BY DEF m, ReadAfter
    <3>2. \E h \in Found(m) : MayFollow(h)
      BY <1>1, <1>3, <1>4, <1>7, <2>4, FoundByTraverse
    <3>3. PICK h \in Found(m) : MayFollow(h)
      BY <3>2
    <3>4. h \in Hits /\ MayPrecede(h) /\ h < offset + 1 /\ h \in Int
      BY <1>1, <3>1, TypedMeans DEF Found
    <3> QED
      BY <1>3, <3>3, <3>4
  <2>7. MidFollows' /\ AtHit' /\ WalkBefore' /\ MatchAfter' /\ TraverseAfter'
    BY <1>1, <1>2, <1>5, <2>1 DEF MidFollows, AtHit, WalkBefore, MatchAfter, TraverseAfter
  <2>8. MatchedIffCut'
    BY <1>2, <1>5, <2>1, <2>5, <2>6 DEF MatchedIffCut
  <2> QED
    BY <2>3, <2>7, <2>8 DEF IInv
<1>8. CASE ~Ends(given, "post", e, c)
  <2>1. pc' = "post" /\ active' = [active EXCEPT !["post"] = v]
    BY <1>2, <1>8
  <2>2. Typed' /\ active'["post"] = v
    BY <1>1, <1>4, <1>6, <1>8, <2>1, TypedAfter
  <2>3. MidFollows' /\ AtHit' /\ WalkBefore' /\ MatchedIffCut'
    BY <1>1, <1>2, <1>5, <2>1 DEF MidFollows, AtHit, WalkBefore, MatchedIffCut
  <2>4. walk = "match" => Midway(given, "post", v, WordAfter, StartsAfter, offset - hit)
    BY <1>4, <1>8 DEF m, ReadAfter
  <2>5. MatchAfter'
    BY <1>1, <1>2, <1>3, <1>5, <2>1, <2>2, <2>4 DEF MatchAfter
  <2>6. walk # "match" => Midway(given, "post", v, WordAfter, StartsAfter, offset + 1)
    BY <1>4, <1>8 DEF m, ReadAfter
  <2>7. TraverseAfter'
    BY <1>1, <1>2, <1>5, <2>1, <2>2, <2>6 DEF TraverseAfter
  <2> QED
    BY <2>2, <2>3, <2>5, <2>7 DEF IInv
<1> QED
  BY <1>7, <1>8

(* Ending a symbol of the walk before the hit keeps the invariant. *)
LEMMA EndOfSymbolBeforeKeeps == IInv /\ EndOfSymbolBefore => IInv'
<1> SUFFICES ASSUME IInv, EndOfSymbolBefore
             PROVE  IInv'
  OBVIOUS
<1> DEFINE v == Joined(active["pre"])
           m == (hit - Depth + 1) - back
<1>1. /\ Typed /\ MidFollows /\ AtHit /\ WalkBefore /\ TraverseAfter
      /\ "pre" \in Parts /\ "post" \in Parts /\ "post" # "pre"
      /\ pc = "pre" /\ active["pre"].it_state > Len(active["pre"].states)
  BY DEF IInv, Parts, EndOfSymbolBefore, AtEnd
<1>2. /\ UNCHANGED <<given, data, walk, state, offset, hit>>
      /\ \/ /\ v.prefixDfas = <<>> \/ back = 0
            /\ pc' = "unmatched" /\ back' = back
            /\ active' = [active EXCEPT !["pre"] = NoEntries]
         \/ /\ back # 0
            /\ pc' = "pre" /\ back' = back - 1
            /\ active' = [active EXCEPT !["pre"] = v]
  BY <1>1 DEF EndOfSymbolBefore
<1>3. /\ hit = offset /\ hit \in Hits /\ given.pre # <<>> /\ Depth <= hit /\ back <= hit - Depth
      /\ Midway(given, "pre", active["pre"], Before(hit), {0}, m)
  BY <1>1 DEF AtHit, WalkBefore
<1>4. /\ data \in Seq(Symbols) /\ Len(data) \in Nat /\ Depth \in Nat /\ hit \in Nat
      /\ hit < Len(data) /\ back \in Nat
      /\ given \in Compiled
      /\ Before(hit) \in Seq(Symbols) /\ Len(Before(hit)) = hit - Depth + 1
      /\ WalkTyped(given, "pre", active["pre"])
  BY <1>1, <1>3, TypedMeans, WordsMean DEF Typed
<1>5. /\ WalkTyped(given, "pre", v)
      /\ Between(given, "pre", v, Before(hit), {0}, m)
  BY <1>1, <1>3, <1>4, SymbolEnds
<1> HIDE DEF v
<1>6. m \in Nat /\ m <= hit - Depth + 1
  BY <1>3, <1>4
<1>7. /\ Hits' = Hits /\ Depth' = Depth /\ Before(hit)' = Before(hit)
      /\ \A h : MayPrecede(h)' <=> MayPrecede(h)
      /\ \A l : Found(l)' = Found(l)
      /\ WordAfter' = WordAfter /\ StartsAfter' = StartsAfter
  BY <1>2, SameWords DEF Before
<1>8. /\ back' \in 0 .. Len(data)
      /\ state' \in StatesOf(given.mid) /\ offset' \in 0 .. Len(data)
      /\ hit' \in {NO_STATE} \cup Hits
      /\ pc' \in {"read", "hit", "pre", "post", "activate", "unmatched", "matched", "none"}
      /\ UNCHANGED <<given, data, walk>>
  BY <1>1, <1>2, <1>4 DEF Typed
<1>9. {0} \in SUBSET Nat
  OBVIOUS
<1>10. CASE /\ v.prefixDfas = <<>> \/ back = 0
            /\ pc' = "unmatched" /\ back' = back
            /\ active' = [active EXCEPT !["pre"] = NoEntries]
  <2>1. WalkTyped(given, "pre", NoEntries)
    BY <1>1, <1>4, <1>9, WalkBegins
  <2>2. Typed' /\ active'["post"] = active["post"]
    BY <1>1, <1>8, <1>10, <2>1, TypedAfter
  <2>3. m = hit - Depth + 1 \/ v.prefixDfas = <<>>
    BY <1>4, <1>10
  <2>4. ~MayPrecede(hit)
    <3> HIDE DEF m
    <3> QED
      BY <1>1, <1>3, <1>5, <1>6, <2>3, FoundBefore
  <2>5. MidFollows' /\ AtHit' /\ WalkBefore' /\ MatchAfter' /\ MatchedIffCut'
    BY <1>1, <1>2, <1>7, <1>10, <2>4 DEF MidFollows, AtHit, WalkBefore, MatchAfter, MatchedIffCut
  <2>6. TraverseAfter'
    BY <1>1, <1>2, <1>7, <1>10, <2>2 DEF TraverseAfter
  <2> QED
    BY <2>2, <2>5, <2>6 DEF IInv
<1>11. CASE /\ back # 0
            /\ pc' = "pre" /\ back' = back - 1
            /\ active' = [active EXCEPT !["pre"] = v]
  <2>1. Typed' /\ active'["pre"] = v /\ active'["post"] = active["post"]
    BY <1>1, <1>5, <1>8, <1>11, TypedAfter
  <2>2. m < Len(Before(hit)) /\ m + 1 \notin {0} /\ (hit - Depth + 1) - (back - 1) = m + 1
    BY <1>3, <1>4, <1>11
  <2>3. Midway(given, "pre", v, Before(hit), {0}, m + 1)
    <3> HIDE DEF m
    <3> QED
      BY <1>1, <1>4, <1>5, <1>6, <1>9, <2>2, NothingBegins
  <2>4. Midway(given, "pre", active'["pre"], Before(hit), {0}, (hit - Depth + 1) - back')
    BY <1>11, <2>1, <2>2, <2>3
  <2>5. back' <= hit - Depth
    BY <1>3, <1>4, <1>11
  <2>6. WalkBefore'
    BY <1>2, <1>3, <1>7, <1>11, <2>4, <2>5 DEF WalkBefore
  <2>7. MidFollows' /\ AtHit' /\ MatchAfter' /\ MatchedIffCut'
    BY <1>1, <1>2, <1>7, <1>11 DEF MidFollows, AtHit, MatchAfter, MatchedIffCut
  <2>8. TraverseAfter'
    BY <1>1, <1>2, <1>7, <1>11, <2>1 DEF TraverseAfter
  <2> QED
    BY <2>1, <2>6, <2>7, <2>8 DEF IInv
<1> QED
  BY <1>2, <1>10, <1>11

(* Ending a symbol of the walk after the hit keeps the invariant. *)
LEMMA EndOfSymbolAfterKeeps == IInv /\ EndOfSymbolAfter => IInv'
<1> SUFFICES ASSUME IInv, EndOfSymbolAfter
             PROVE  IInv'
  OBVIOUS
<1> DEFINE v == Joined(active["post"])
           m == ReadAfter
<1>1. /\ Typed /\ MidFollows /\ AtHit /\ WalkBefore /\ MatchAfter /\ TraverseAfter
      /\ "post" \in Parts
      /\ pc = "post" /\ active["post"].it_state > Len(active["post"].states)
  BY DEF IInv, Parts, EndOfSymbolAfter, AtEnd
<1>2. /\ UNCHANGED <<given, data, walk, state, hit, back>>
      /\ active' = [active EXCEPT !["post"] = v]
      /\ \/ /\ walk = "match" /\ (v.prefixDfas = <<>> \/ offset + 1 = Len(data))
            /\ pc' = "none" /\ offset' = offset
         \/ /\ walk = "match" /\ offset + 1 # Len(data)
            /\ pc' = "post" /\ offset' = offset + 1
         \/ /\ walk # "match"
            /\ pc' = "read" /\ offset' = offset + 1
  BY <1>1 DEF EndOfSymbolAfter
<1>3. /\ given \in Compiled /\ WalkTyped(given, "post", active["post"])
      /\ WordAfter \in Seq(Symbols) /\ StartsAfter \in SUBSET Nat
      /\ m \in 1 .. Len(WordAfter) /\ m \in Nat /\ m <= Len(WordAfter)
      /\ Midway(given, "post", active["post"], WordAfter, StartsAfter, m)
      /\ offset \in Nat /\ offset < Len(data)
      /\ walk = "match" => /\ hit \in Hits /\ hit \in Nat /\ hit < offset
                           /\ given.post # <<>> /\ MayPrecede(hit)
                           /\ WordAfter = After(hit) /\ StartsAfter = {0}
                           /\ Len(WordAfter) = Len(data) - hit - 1
      /\ walk # "match" => WordAfter = data
  BY <1>1, WalkAfterIs
<1> HIDE DEF m
<1>4. /\ WalkTyped(given, "post", v)
      /\ Between(given, "post", v, WordAfter, StartsAfter, m)
  BY <1>1, <1>3, SymbolEnds
<1> HIDE DEF v
<1>5. Len(data) \in Nat
  BY <1>1, TypedMeans
<1>6. /\ Hits' = Hits /\ Depth' = Depth
      /\ \A h : MayPrecede(h)' <=> MayPrecede(h)
      /\ \A h : MayFollow(h)' <=> MayFollow(h)
      /\ \A l : Found(l)' = Found(l)
      /\ WordAfter' = WordAfter /\ StartsAfter' = StartsAfter
  BY <1>2, SameWords
<1>7. /\ Typed' /\ active'["post"] = v
  <2>1. /\ back' \in 0 .. Len(data)
        /\ state' \in StatesOf(given.mid) /\ offset' \in 0 .. Len(data)
        /\ hit' \in {NO_STATE} \cup Hits
        /\ pc' \in {"read", "hit", "pre", "post", "activate", "unmatched", "matched", "none"}
        /\ UNCHANGED <<given, data, walk>>
    BY <1>1, <1>2, <1>3, <1>5 DEF Typed
  <2> QED
    BY <1>1, <1>2, <1>4, <2>1, TypedAfter
<1>8. CASE /\ walk = "match" /\ (v.prefixDfas = <<>> \/ offset + 1 = Len(data))
           /\ pc' = "none" /\ offset' = offset
  <2>1. m = Len(data) - hit - 1 \/ v.prefixDfas = <<>>
    BY <1>3, <1>5, <1>8 DEF m, ReadAfter
  <2>2. ~MayFollow(hit)
    BY <1>1, <1>3, <1>4, <1>8, <2>1, FoundAfter
  <2>3. MidFollows' /\ AtHit' /\ WalkBefore' /\ MatchAfter' /\ TraverseAfter'
    BY <1>1, <1>2, <1>6, <1>8 DEF MidFollows, AtHit, WalkBefore, MatchAfter, TraverseAfter
  <2>4. MatchedIffCut'
    BY <1>2, <1>6, <1>8, <2>2 DEF MatchedIffCut
  <2> QED
    BY <1>7, <2>3, <2>4 DEF IInv
<1>9. CASE /\ walk = "match" /\ offset + 1 # Len(data)
           /\ pc' = "post" /\ offset' = offset + 1
  <2>1. m < Len(WordAfter) /\ m + 1 \notin {0} /\ (offset + 1) - hit = m + 1
        /\ hit < offset + 1 /\ offset + 1 < Len(data)
    BY <1>3, <1>5, <1>9 DEF m, ReadAfter
  <2>2. Midway(given, "post", v, WordAfter, StartsAfter, m + 1)
    BY <1>1, <1>3, <1>4, <1>9, <2>1, NothingBegins
  <2>3. Midway(given, "post", active'["post"], WordAfter, StartsAfter, offset' - hit)
    BY <1>7, <1>9, <2>1, <2>2
  <2>4. MatchAfter'
    BY <1>2, <1>3, <1>6, <1>9, <2>1, <2>3 DEF MatchAfter
  <2>5. MidFollows' /\ AtHit' /\ WalkBefore' /\ TraverseAfter' /\ MatchedIffCut'
    BY <1>1, <1>2, <1>6, <1>9 DEF MidFollows, AtHit, WalkBefore, TraverseAfter, MatchedIffCut
  <2> QED
    BY <1>7, <2>4, <2>5 DEF IInv
<1>10. CASE /\ walk # "match"
            /\ pc' = "read" /\ offset' = offset + 1
  <2>1. Between(given, "post", v, WordAfter, StartsAfter, offset + 1)
    BY <1>4, <1>10 DEF m, ReadAfter
  <2>2. given.post = <<>> => Found(offset + 1) = {}
    BY <1>1, <1>10 DEF TraverseAfter
  <2>3. TraverseAfter'
    BY <1>2, <1>6, <1>7, <1>10, <2>1, <2>2 DEF TraverseAfter
  <2>4. MidFollows' /\ AtHit' /\ WalkBefore' /\ MatchAfter' /\ MatchedIffCut'
    BY <1>1, <1>2, <1>6, <1>10 DEF MidFollows, AtHit, WalkBefore, MatchAfter, MatchedIffCut
  <2> QED
    BY <1>7, <2>3, <2>4 DEF IInv
<1> QED
  BY <1>2, <1>8, <1>9, <1>10

(* The invariant holds when a packet begins. *)
LEMMA BeginsRight == Init => IInv
<1> SUFFICES ASSUME Init
             PROVE  IInv
  OBVIOUS
<1>1. /\ given \in Compiled /\ data \in Packets /\ walk \in Walks
      /\ state = 0 /\ back = 0 /\ active = [part \in Parts |-> NoEntries]
      /\ \/ walk = "match" /\ offset \in Hits /\ hit = offset /\ pc = "hit"
         \/ walk # "match" /\ offset = 0 /\ hit = NO_STATE /\ pc = "read"
  BY DEF Init, Walks
<1>2. /\ data \in Seq(Symbols) /\ Len(data) \in Nat /\ Hits \subseteq 0 .. Len(data) - 1
      /\ IsPrefixDfa(given.mid)
  BY <1>1, CompiledAssumption, PacketAssumption DEF Hits
<1>3. 0 \in StatesOf(given.mid)
  BY <1>2 DEF IsPrefixDfa, StatesOf
<1>4. \A part \in Parts : WalkTyped(given, part, active[part])
  <2>1. {0} \in SUBSET Nat
    OBVIOUS
  <2>2. \A part \in Parts : WalkTyped(given, part, NoEntries)
    BY <1>1, <1>2, <2>1, WalkBegins
  <2> QED
    BY <1>1, <2>2
<1>5. Typed
  <2>1. active = [part \in Parts |-> active[part]]
    BY <1>1
  <2>2. offset \in 0 .. Len(data)
    <3>1. offset = 0 \/ offset \in 0 .. Len(data) - 1
      BY <1>1, <1>2
    <3> QED
      BY <1>2, <3>1
  <2>3. back \in 0 .. Len(data) /\ hit \in {NO_STATE} \cup Hits
    BY <1>1, <1>2
  <2>4. state \in StatesOf(given.mid)
    BY <1>1, <1>3
  <2>5. pc \in {"read", "hit", "pre", "post", "activate", "unmatched", "matched", "none"}
    BY <1>1
  <2> QED
    BY <1>1, <1>4, <2>1, <2>2, <2>3, <2>4, <2>5 DEF Typed
<1>6. AtHit /\ WalkBefore /\ MatchAfter /\ MatchedIffCut
  BY <1>1 DEF AtHit, WalkBefore, MatchAfter, MatchedIffCut
<1>7. MidFollows
  <2>1. 0 \in Nat /\ 0 <= Len(data)
    BY <1>2
  <2>2. At(given.mid, data, 0, 0) = 0
    BY <1>2, <2>1, AtBegins
  <2>3. SubSeq(data, 0 + 1, 0) = SubSeq(data, 1, 0)
    OBVIOUS
  <2>4. RunFrom(given.mid, 0, SubSeq(data, 1, 0)) = 0
    BY <2>2, <2>3 DEF At
  <2> QED
    BY <1>1, <2>4 DEF MidFollows
<1>8. TraverseAfter
  <2> SUFFICES ASSUME walk # "match"
               PROVE  /\ Between(given, "post", active["post"], WordAfter, StartsAfter, 0)
                      /\ Found(0) = {}
    BY <1>1 DEF TraverseAfter
  <2>1. WordAfter = data /\ "post" \in Parts /\ StartsAfter \in SUBSET Nat
    BY <1>5, WordsMean DEF WordAfter, Parts
  <2>2. 0 \notin StartsAfter /\ Found(0) = {}
    <3>1. \A h \in Hits : h + 1 # 0 /\ ~(h < 0)
      BY <1>2
    <3> QED
      BY <3>1 DEF StartsAfter, Found
  <2>3. Between(given, "post", NoEntries, WordAfter, StartsAfter, 0)
    BY <1>1, <1>2, <2>1, <2>2, WalkBegins
  <2>4. active["post"] = NoEntries
    BY <1>1, <2>1
  <2> QED
    BY <2>2, <2>3, <2>4
<1> QED
  BY <1>5, <1>6, <1>7, <1>8 DEF IInv

(***************************************************************************)
(* The invariant holds in every reachable state of the three functions.    *)
(***************************************************************************)
THEOREM Inductive == Spec => []IInv
<1>1. IInv /\ [Next]_vars => IInv'
  <2> SUFFICES ASSUME IInv, [Next]_vars
               PROVE  IInv'
    OBVIOUS
  <2>1. CASE ReadSymbol
    BY <2>1, ReadSymbolKeeps
  <2>2. CASE EndOfData
    BY <2>2, EndOfDataKeeps
  <2>3. CASE EnterPre
    BY <2>3, EnterPreKeeps
  <2>4. CASE SkipPre
    BY <2>4, SkipPreKeeps
  <2>5. CASE \E part \in Parts : Visit(part)
    BY <2>5, VisitPreKeeps, VisitPostKeeps DEF Parts
  <2>6. CASE EndOfSymbolBefore
    BY <2>6, EndOfSymbolBeforeKeeps
  <2>7. CASE EndOfSymbolAfter
    BY <2>7, EndOfSymbolAfterKeeps
  <2>8. CASE Activate
    BY <2>8, ActivateKeeps
  <2>9. CASE NotMatchedBefore
    BY <2>9, NotMatchedBeforeKeeps
  <2>10. CASE UNCHANGED vars
    <3>1. UNCHANGED <<given, data, walk, pc, state, offset, hit, back, active>>
      BY <2>10 DEF vars
    <3>2. /\ Hits' = Hits /\ Depth' = Depth /\ \A h : Before(h)' = Before(h)
          /\ \A h : MayPrecede(h)' <=> MayPrecede(h)
          /\ \A h : MayFollow(h)' <=> MayFollow(h)
          /\ \A l : Found(l)' = Found(l)
          /\ WordAfter' = WordAfter /\ StartsAfter' = StartsAfter
      BY <3>1, SameWords
    <3>3. Typed'
      BY <3>1, TypedStays DEF IInv, Typed
    <3>4. MidFollows' /\ AtHit' /\ WalkBefore' /\ MatchedIffCut'
      BY <3>1, <3>2 DEF IInv, MidFollows, AtHit, WalkBefore, MatchedIffCut, Before
    <3>5. MatchAfter' /\ TraverseAfter'
      BY <3>1, <3>2 DEF IInv, MatchAfter, TraverseAfter
    <3> QED
      BY <3>3, <3>4, <3>5 DEF IInv
  <2> QED
    BY <2>1, <2>2, <2>3, <2>4, <2>5, <2>6, <2>7, <2>8, <2>9, <2>10 DEF Next
<1> QED
  BY <1>1, BeginsRight, PTL DEF Spec

(* The names the invariant uses say what TypeOK says.                      *)
LEMMA ListsAreTyped == IInv => TypeOK
<1> SUFFICES ASSUME IInv
             PROVE  TypeOK
  OBVIOUS
<1>1. Typed
  BY DEF IInv
<1>2. ASSUME NEW part \in Parts
      PROVE  LET w == active[part]
             IN /\ Len(w.prefixDfas) = Len(w.states)
                /\ w.it_prefixdfa = w.it_state
                /\ \A i \in DOMAIN w.states :
                     /\ HasDfa(given, part, w.prefixDfas[i])
                     /\ w.states[i] \in StatesOf(given[part][w.prefixDfas[i]])
  <2> DEFINE w == active[part]
  <2>1. WalkTyped(given, part, w)
    BY <1>1 DEF Typed
  <2> HIDE DEF w
  <2>2. DOMAIN w.states = 1 .. Len(w.states)
    BY <2>1, LenProperties DEF WalkTyped
  <2>3. /\ Len(w.prefixDfas) = Len(w.states)
        /\ w.it_prefixdfa = w.it_state
        /\ \A i \in DOMAIN w.states :
             /\ HasDfa(given, part, w.prefixDfas[i])
             /\ w.states[i] \in StatesOf(given[part][w.prefixDfas[i]])
    BY <2>1, <2>2 DEF WalkTyped
  <2> QED
    BY <2>3 DEF w
<1> QED
  BY <1>1, <1>2 DEF TypeOK, Typed

(* The invariant says that the lists hold the live cuts. *)
LEMMA ListsAreLive == IInv => EntriesAreLiveCuts
<1> SUFFICES ASSUME IInv
             PROVE  EntriesAreLiveCuts
  OBVIOUS
<1>1. Typed /\ TypeOK /\ "pre" \in Parts /\ "post" \in Parts
  BY ListsAreTyped DEF IInv, Parts
<1>2. /\ data \in Seq(Symbols) /\ Len(data) \in Nat /\ Depth \in Nat
      /\ Hits \subseteq 0 .. Len(data) - 1 /\ offset \in Nat
      /\ WalkTyped(given, "pre", active["pre"]) /\ given \in Compiled
  BY <1>1, TypedMeans DEF Typed
<1>3. ASSUME AtEnd("pre")
      PROVE  Listed(Joined(active["pre"])) =
               Living(given, "pre", Reverse(SubSeq(data, back + 1, hit - Depth + 1)), {0})
  <2> DEFINE m == (hit - Depth + 1) - back
  <2>1. /\ hit \in Hits /\ Depth <= hit /\ back <= hit - Depth /\ back \in Nat
        /\ Midway(given, "pre", active["pre"], Before(hit), {0}, m)
    BY <1>1, <1>3 DEF IInv, AtEnd, AtHit, WalkBefore, Typed
  <2>2. active["pre"].it_state > Len(active["pre"].states)
    BY <1>3 DEF AtEnd
  <2>3. Listed(Joined(active["pre"])) = LivingAt(given, "pre", Before(hit), {0}, m)
    <3> HIDE DEF m
    <3>1. Between(given, "pre", Joined(active["pre"]), Before(hit), {0}, m)
      BY <1>1, <1>2, <2>1, <2>2, SymbolEnds
    <3> QED
      BY <3>1 DEF Between
  <2>4. SubSeq(Before(hit), 1, m) = Reverse(SubSeq(data, back + 1, hit - Depth + 1))
    <3>1. back \in 0 .. hit - Depth + 1
      BY <1>2, <2>1
    <3> QED
      BY <1>1, <2>1, <3>1, WordsMean
  <2>5. {0} \cap (0 .. m) = {0}
    <3>1. m \in Nat
      BY <1>2, <2>1
    <3> HIDE DEF m
    <3> QED
      BY <3>1
  <2> QED
    BY <2>3, <2>4, <2>5 DEF LivingAt
<1>4. ASSUME AtEnd("post")
      PROVE  Listed(Joined(active["post"]))
               = LivingAt(given, "post", WordAfter, StartsAfter, ReadAfter)
  <2>1. pc = "post" /\ active["post"].it_state > Len(active["post"].states)
    BY <1>4 DEF AtEnd
  <2>2. /\ WalkTyped(given, "post", active["post"])
        /\ Midway(given, "post", active["post"], WordAfter, StartsAfter, ReadAfter)
    BY <2>1, WalkAfterIs
  <2>3. Between(given, "post", Joined(active["post"]), WordAfter, StartsAfter, ReadAfter)
    BY <1>1, <1>2, <2>1, <2>2, SymbolEnds
  <2> QED
    BY <2>3 DEF Between
<1>5. ASSUME walk = "match", AtEnd("post")
      PROVE  Listed(Joined(active["post"])) =
               Living(given, "post", SubSeq(data, hit + 2, offset + 1), {0})
  <2>1. pc = "post"
    BY <1>5 DEF AtEnd
  <2>2. /\ hit \in Hits /\ hit \in Nat /\ hit < offset /\ offset < Len(data)
        /\ WordAfter = After(hit) /\ StartsAfter = {0}
    BY <1>5, <2>1, WalkAfterIs
  <2>3. ReadAfter = offset - hit
    BY <1>5 DEF ReadAfter
  <2>4. SubSeq(After(hit), 1, offset - hit) = SubSeq(data, hit + 2, offset + 1)
    <3> DEFINE a == hit + 1
               k == offset - hit
    <3>1. /\ a \in Nat /\ a <= Len(data) /\ Len(data) <= Len(data)
          /\ 0 \in Nat /\ k \in Nat /\ 0 <= k /\ k <= Len(data) - a
          /\ a + 1 = hit + 2 /\ 0 + 1 = 1 /\ a + 0 + 1 = hit + 2 /\ a + k = offset + 1
      BY <1>2, <2>2
    <3> HIDE DEF a, k
    <3>2. SubSeq(SubSeq(data, a + 1, Len(data)), 0 + 1, k) = SubSeq(data, a + 0 + 1, a + k)
      BY <1>2, <3>1, SliceOfSlice
    <3>3. SubSeq(SubSeq(data, hit + 2, Len(data)), 1, k) = SubSeq(data, hit + 2, offset + 1)
      BY <3>1, <3>2
    <3> QED
      BY <3>3 DEF After, k
  <2>5. {0} \cap (0 .. offset - hit) = {0}
    <3>1. 0 \in 0 .. offset - hit
      BY <1>2, <2>2
    <3> QED
      BY <3>1
  <2> QED
    BY <1>4, <1>5, <2>2, <2>3, <2>4, <2>5 DEF LivingAt
<1>6. ASSUME walk # "match", AtEnd("post")
      PROVE  Listed(Joined(active["post"])) =
               Living(given, "post", SubSeq(data, 1, offset + 1),
                      {h + 1 : h \in {x \in Hits : x <= offset /\ MayPrecede(x)}})
  <2>1. pc = "post" /\ WordAfter = data /\ ReadAfter = offset + 1
    BY <1>6 DEF AtEnd, WordAfter, ReadAfter
  <2>2. StartsAfter \cap (0 .. offset + 1)
          = {h + 1 : h \in {x \in Hits : x <= offset /\ MayPrecede(x)}}
    <3> DEFINE A == {h + 1 : h \in {x \in Hits : x <= offset /\ MayPrecede(x)}}
    <3>1. \A h \in Hits : h \in Nat /\ h < Len(data)
      BY <1>2
    <3>2. ASSUME NEW s \in StartsAfter \cap (0 .. offset + 1)
          PROVE  s \in A
      <4>1. PICK h \in Found(Len(data)) : s = h + 1
        BY <1>6 DEF StartsAfter
      <4>2. h \in Hits /\ MayPrecede(h) /\ h <= offset
        BY <1>2, <3>1, <4>1 DEF Found
      <4> QED
        BY <4>1, <4>2
    <3>3. ASSUME NEW s \in A
          PROVE  s \in StartsAfter \cap (0 .. offset + 1)
      <4>1. PICK h \in Hits : h <= offset /\ MayPrecede(h) /\ s = h + 1
        OBVIOUS
      <4>2. h \in Found(Len(data)) /\ s \in 0 .. offset + 1
        BY <1>2, <3>1, <4>1 DEF Found
      <4> QED
        BY <1>6, <4>1, <4>2 DEF StartsAfter
    <3> HIDE DEF A
    <3>4. StartsAfter \cap (0 .. offset + 1) = A
      BY <3>2, <3>3
    <3> QED
      BY <3>4 DEF A
  <2> QED
    BY <1>4, <1>6, <2>1, <2>2 DEF LivingAt
<1> QED
  BY <1>1, <1>3, <1>5, <1>6 DEF EntriesAreLiveCuts

(***************************************************************************)
(* The lists are what the walks should hold: whatever the prefix DFAs, the *)
(* packet and the function, between two symbols they hold every node that  *)
(* some way to cut the symbols read so far has reached, in the state of    *)
(* its DFA, and no other.                                                  *)
(***************************************************************************)
THEOREM ListsAreLiveCuts == Spec => []EntriesAreLiveCuts
  BY Inductive, ListsAreLive, PTL

(***************************************************************************)
(* match and traverse answer right: they report a packet if and only if it *)
(* can be cut at a hit of the middle part.                                 *)
(***************************************************************************)
THEOREM MatchesAreCuts == Spec => []MatchedIffCut
<1>1. IInv => MatchedIffCut
  BY DEF IInv
<1> QED
  BY <1>1, Inductive, PTL

(***************************************************************************)
(* Every variable has its type: the two lists keep one length, the two     *)
(* iterators one place, and no entry is of a node without DFA or in a      *)
(* state its DFA does not have.                                            *)
(***************************************************************************)
THEOREM TypeCorrect == Spec => []TypeOK
  BY Inductive, ListsAreTyped, PTL

(***************************************************************************)
(* Erasing what is dead loses nothing where dead_state is what dfa.h says  *)
(* of it: a node then accepts with the last symbol of a word exactly when  *)
(* its DFA, run over all of the word, does.  Where minimize has left the   *)
(* number of another state in dead_state, Takes is all that can be said.   *)
(***************************************************************************)
THEOREM DeadStatesLoseNothing ==
  ASSUME NEW D, IsPrefixDfa(D),
         \/ D.dead_state = NO_STATE
         \/ D.dead_state \in StatesOf(D) /\ NoProgression(D, D.dead_state),
         NEW w \in Seq(Symbols)
  PROVE  Takes(D, w) <=> Accepts(D, RunFrom(D, 0, w))
<1> DEFINE n == Len(w)
           Dead == {k \in Nat : k <= n /\ At(D, w, 0, k) = D.dead_state}
<1>1. n \in Nat /\ D.table \in [StatesOf(D) -> [Symbols -> StatesOf(D)]]
  BY DEF IsPrefixDfa
<1>2. SubSeq(w, 0 + 1, n) = w
  BY <1>1
<1>3. RunFrom(D, 0, w) = At(D, w, 0, n)
  BY <1>2 DEF At
<1>4. 0 \in StatesOf(D)
  BY DEF IsPrefixDfa, StatesOf
<1>5. SUFFICES ASSUME Accepts(D, At(D, w, 0, n))
               PROVE  Lasts(D, SubSeq(w, 1, n - 1))
  BY <1>3 DEF Takes
<1>6. \A k \in Nat : k < n =>
        /\ At(D, w, 0, k) \in StatesOf(D)
        /\ At(D, w, 0, k + 1) = D.table[At(D, w, 0, k)][w[k + 1]]
  <2> SUFFICES ASSUME NEW k \in Nat, k < Len(w)
               PROVE  /\ At(D, w, 0, k) \in StatesOf(D)
                      /\ At(D, w, 0, k + 1) = D.table[At(D, w, 0, k)][w[k + 1]]
    OBVIOUS
  <2>1. 0 \in Nat /\ 0 <= k
    OBVIOUS
  <2> QED
    BY <2>1, AtMoves
<1>7. ASSUME NEW k \in Dead
      PROVE  FALSE
  <2> DEFINE Off == {l \in Nat : k <= l /\ l <= n /\ l \notin Dead}
  <2>1. k \in Nat /\ k <= n
    OBVIOUS
  <2>2. NoProgression(D, D.dead_state)
    <3>1. At(D, w, 0, k) \in Int /\ At(D, w, 0, k) # NO_STATE
      <4>1. CASE k < n
        BY <1>6, <2>1, <4>1 DEF StatesOf, NO_STATE
      <4>2. CASE k = n
        <5>1. RunFrom(D, 0, w) \in StatesOf(D)
          BY <1>1, <1>4, RunFromStays
        <5> QED
          BY <1>3, <4>2, <5>1 DEF StatesOf, NO_STATE
      <4> QED
        BY <1>1, <2>1, <4>1, <4>2
    <3> QED
      BY <3>1
  <2>3. n \in Off
    <3>1. D.accepted[D.dead_state] = {}
      BY <2>2 DEF NoProgression
    <3>2. At(D, w, 0, n) # D.dead_state
      BY <1>5, <3>1 DEF Accepts
    <3> QED
      BY <1>1, <2>1, <3>2
  <2>4. PICK l \in Off : \A m \in Off : l <= m
    <3>1. Off \in SUBSET Nat
      OBVIOUS
    <3> HIDE DEF Off
    <3> QED
      BY <2>3, <3>1, LeastNumber
  <2>5. l # k /\ l - 1 \in Nat /\ k <= l - 1 /\ l - 1 < n
    BY <2>1
  <2>6. l - 1 \notin Off
    BY <2>4, <2>5
  <2>7. At(D, w, 0, l - 1) = D.dead_state
    BY <2>5, <2>6
  <2>8. w[l] \in Symbols
    BY <1>1, <2>5
  <2>9. At(D, w, 0, l) = D.dead_state
    <3>1. At(D, w, 0, (l - 1) + 1) = D.table[At(D, w, 0, l - 1)][w[(l - 1) + 1]]
      BY <1>6, <2>5
    <3>2. (l - 1) + 1 = l
      BY <2>5
    <3> QED
      BY <2>2, <2>7, <2>8, <3>1, <3>2 DEF NoProgression
  <2> QED
    BY <2>9
<1>8. CASE n = 0
  <2>1. SubSeq(w, 1, n - 1) = <<>>
    BY <1>8
  <2>2. 1 .. Len(<<>>) = {}
    OBVIOUS
  <2> HIDE DEF n
  <2> QED
    BY <2>1, <2>2 DEF Lasts
<1>9. CASE n # 0
  <2>1. n - 1 \in Nat /\ 0 <= n - 1 /\ n - 1 <= n
    BY <1>1, <1>9
  <2>2. LastsTo(D, w, 0, n - 1)
          <=> \A k \in 0 + 1 .. n - 1 : At(D, w, 0, k) # D.dead_state
    BY <1>1, <2>1, LastsToIs
  <2>3. \A k \in 0 + 1 .. n - 1 : At(D, w, 0, k) # D.dead_state
    BY <1>7, <2>1
  <2>4. LastsTo(D, w, 0, n - 1)
    BY <2>2, <2>3
  <2> QED
    BY <2>4 DEF LastsTo
<1> QED
  BY <1>8, <1>9
=============================================================================
