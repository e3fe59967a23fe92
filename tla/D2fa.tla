-------------------------------- MODULE D2fa --------------------------------
(***************************************************************************)
(* DFA::D2FA (dfa.cpp): the default transitions are the edges of a forest  *)
(* of heavy edges.  Kruskal's algorithm takes the edges of the space       *)
(* reduction graph (two states, weighted by the transitions they have in   *)
(* common) from a heap and joins two trees if no path of the new tree is   *)
(* longer than `diameter'.  `distance' is meant to be the length of the    *)
(* longest path from a state.  Every tree is then rooted at a state of     *)
(* least distance.                                                         *)
(*                                                                         *)
(* The result is put, got and traversed as DefaultTx says.  The graph is   *)
(* scanned in passes, heavy edges first, to save memory; edges of a graph  *)
(* are numbered from 1 in the order in which they were joined.             *)
(***************************************************************************)
EXTENDS DefaultTx

CONSTANTS Diameters,  \* values of the parameter diameter
          DECREMENT,  \* weights of one pass (32 of 256 in dfa.cpp)
          MAX_FOREST  \* largest automaton D2FA is called on (bounds the model only)

ASSUME PassesAssumption ==
  /\ Diameters \subseteq Nat
  /\ DECREMENT \in Nat \ {0} /\ MAX_FOREST \in Nat
  /\ CSIZE % DECREMENT = 0

VARIABLES
  diameter, refined,  \* the parameters of the call
  max,                \* the heaviest weight of this pass
  G,                  \* edges of the space reduction graph in this pass
  heap,               \* the edges of G not yet taken
  T,                  \* edges of the forest, in the order of their numbers
  P,                  \* the tree of every state
  distance

d2faVars == <<diameter, refined, max, G, heap, T, P, distance>>
allVars == <<vars, d2faVars>>

NoEdges == << >>

-----------------------------------------------------------------------------
(* get_weight of an edge <<l, r, w>>: among edges of one weight, refined   *)
(* prefers the trees that stay shallow (top rounds up).                    *)
GetWeight(e) ==
  IF refined
    THEN G[e][3] * 1000 - (distance[G[e][1]] + distance[G[e][2]] + 2) \div 2
    ELSE G[e][3]

(* deletemin on the negated weights.  update_distance gives the edges in   *)
(* the heap their new keys at once, so the key is always the weight now.   *)
IsNext(e) == \A f \in heap : GetWeight(f) <= GetWeight(e)

(* The edges of this pass, numbered as the loops over s < t join them.     *)
Before(p, q) == p[1] < q[1] \/ (p[1] = q[1] /\ p[2] < q[2])

PassEdges ==
  {<<q[1], q[2], Common(dfa, q[1], q[2])>> :
     q \in {p \in States \X States :
              /\ p[1] < p[2]
              /\ Common(dfa, p[1], p[2]) \in max - DECREMENT + 1 .. max}}

Numbered(edges) ==
  [n \in 1 .. Cardinality(edges) |->
     CHOOSE p \in edges : Cardinality({q \in edges : Before(q, p)}) = n - 1]

(* The tree of u in a set of edges: for every state of it the number of    *)
(* edges between u and the state.                                          *)
DistancesFrom(edges, u) ==
  LET ball[n \in 0 .. dfa.size] ==
        IF n = 0 THEN {u}
        ELSE LET prev == ball[n - 1]
             IN prev \cup {v \in States : \E w \in prev :
                             <<v, w>> \in edges \/ <<w, v>> \in edges}
  IN [v \in ball[dfa.size] |->
        CHOOSE n \in 0 .. dfa.size : v \in ball[n] /\ (n = 0 \/ v \notin ball[n - 1])]

Tree(edges, u) == DOMAIN DistancesFrom(edges, u)

EdgesOf(forest) == {<<forest[e][1], forest[e][2]>> : e \in DOMAIN forest}

(* The part of the tree update_distance walks: it does not take the edge   *)
(* `in', which the first call gives as a number of G and compares with     *)
(* numbers of T.                                                           *)
Walked(u, in) ==
  {T[f] : f \in {g \in DOMAIN T : ~(g = in /\ u \in {T[g][1], T[g][2]})}}

(* A slip to compare with: the distances add up along the walk.            *)
DistanceSummed(old, d_v, steps) == old + d_v + 1 + steps

DistanceOver(old, d_v, steps) ==
  IF old < d_v + 1 + steps THEN d_v + 1 + steps ELSE old

(* update_distance: a path that leaves u over the new edge is longer by    *)
(* one than the distance on its other side.                                *)
UpdateDistance(d, u, in, d_v) ==
  LET steps == DistancesFrom(Walked(u, in), u)
  IN [x \in States |->
        IF x \in DOMAIN steps THEN DistanceOver(d[x], d_v, steps[x]) ELSE d[x]]

-----------------------------------------------------------------------------
InitD2fa ==
  /\ Init
  /\ diameter = 0
  /\ refined = FALSE
  /\ max = 0
  /\ G = NoEdges
  /\ heap = {}
  /\ T = NoEdges
  /\ P = [t \in States |-> {t}]
  /\ distance = [t \in States |-> 0]

(* D2FA is called on an automaton with or without default transitions;     *)
(* the parameters of the other algorithm are forgotten.                    *)
StartD2FA ==
  /\ pc \in {"fresh", "ready"}
  /\ dfa.size <= MAX_FOREST
  /\ file = NoFile /\ inputs = 0 /\ c = NoSymbol
  /\ diameter' \in Diameters
  /\ refined' \in BOOLEAN
  /\ algorithm' = "D2FA"
  /\ max' = CSIZE
  /\ T' = NoEdges
  /\ P' = [t \in States |-> {t}]
  /\ distance' = [t \in States |-> 0]
  /\ pc' = "graph"
  /\ k' = 1 /\ bound' = -1
  /\ UNCHANGED <<given, dfa, depth, s, dt_length, default_tx, labeled_tx, file,
                 traversalVars, G, heap>>

(* A new graph for each pass.                                              *)
BuildGraph ==
  /\ pc = "graph"
  /\ max > 0
  /\ G' = Numbered(PassEdges)
  /\ heap' = 1 .. Cardinality(PassEdges)
  /\ pc' = "kruskal"
  /\ UNCHANGED <<given, dfa, k, bound, compressionVars, file, traversalVars,
                 diameter, refined, max, T, P, distance>>

Fits(u, v) == P[u] # P[v] /\ distance[u] + distance[v] + 1 <= diameter

(* The next edge joins two trees.                                          *)
JoinTrees(e) ==
  LET u == G[e][1]
      v == G[e][2]
  IN /\ pc = "kruskal"
     /\ IsNext(e)
     /\ Fits(u, v)
     /\ distance' = UpdateDistance(UpdateDistance(distance, u, e, distance[v]),
                                   v, e, distance[u])
     /\ P' = [t \in States |-> IF t \in P[u] \cup P[v] THEN P[u] \cup P[v] ELSE P[t]]
     /\ T' = Append(T, <<u, v>>)
     /\ heap' = heap \ {e}
     /\ UNCHANGED <<vars, diameter, refined, max, G>>

(* It would close a cycle or make a path too long.                      *)
DropEdge(e) ==
  /\ pc = "kruskal"
  /\ IsNext(e)
  /\ ~Fits(G[e][1], G[e][2])
  /\ heap' = heap \ {e}
  /\ UNCHANGED <<vars, diameter, refined, max, G, T, P, distance>>

EndPass ==
  /\ pc = "kruskal"
  /\ heap = {}
  /\ max' = max - DECREMENT
  /\ pc' = "graph"
  /\ UNCHANGED <<given, dfa, k, bound, compressionVars, file, traversalVars,
                 diameter, refined, G, heap, T, P, distance>>

(* d2fa_graph_to_default_tx: all default transitions are reset, the labels *)
(* of an earlier compression are not.                                      *)
StartTrees ==
  /\ pc = "graph"
  /\ max <= 0
  /\ default_tx' = [t \in States |-> NO_STATE]
  /\ pc' = "trees"
  /\ UNCHANGED <<given, dfa, k, bound, algorithm, depth, s, dt_length,
                 labeled_tx, file, traversalVars, d2faVars>>

(* The neighbour of u on its way to the root.                              *)
TowardsRoot(u, from) ==
  CHOOSE v \in DOMAIN from :
    /\ <<u, v>> \in EdgesOf(T) \/ <<v, u>> \in EdgesOf(T)
    /\ from[v] < from[u]

(* push_back of labels; lookup takes the first that fits.                  *)
Pushed(labels, new) ==
  [a \in DOMAIN labels \cup DOMAIN new |->
     IF a \in DOMAIN labels THEN labels[a] ELSE new[a]]

(* A tree whose states have no default transition yet is rooted at a state *)
(* of least distance (the first that the walk from find(s) meets).  The    *)
(* root is its own default state and has all labels.                       *)
RootTree(root) ==
  LET from == DistancesFrom(EdgesOf(T), root) IN
  /\ pc = "trees"
  /\ default_tx[root] = NO_STATE
  /\ \A t \in DOMAIN from : distance[root] <= distance[t]
  /\ default_tx' = [t \in States |->
       IF t \notin DOMAIN from THEN default_tx[t]
       ELSE IF t = root THEN root ELSE TowardsRoot(t, from)]
  /\ labeled_tx' = [t \in States |->
       IF t \notin DOMAIN from THEN labeled_tx[t]
       ELSE IF t = root THEN Pushed(labeled_tx[t], AllLabeled(dfa, t))
       ELSE Pushed(labeled_tx[t], Differing(dfa, t, TowardsRoot(t, from)))]
  /\ UNCHANGED <<given, dfa, k, bound, algorithm, pc, depth, s, dt_length, file,
                 traversalVars, d2faVars>>

EndD2FA ==
  /\ pc = "trees"
  /\ \A t \in States : default_tx[t] # NO_STATE
  /\ pc' = "ready"
  /\ UNCHANGED <<given, dfa, k, bound, compressionVars, file, traversalVars,
                 d2faVars>>

D2FA ==
  \/ StartD2FA
  \/ BuildGraph
  \/ \E e \in heap : JoinTrees(e) \/ DropEdge(e)
  \/ EndPass
  \/ StartTrees
  \/ \E root \in States : RootTree(root)
  \/ EndD2FA

NextD2fa == D2FA \/ (Next /\ UNCHANGED d2faVars)

SpecD2fa == InitD2fa /\ [][NextD2fa]_allVars /\ Fairness

-----------------------------------------------------------------------------
(***************************************************************************)
(* Properties.                                                             *)
(***************************************************************************)
HasPathOf(t, n) ==
  LET from == DistancesFrom(EdgesOf(T), t) IN \E v \in DOMAIN from : from[v] >= n

(* Kruskal's partition and the forest, two structures kept by hand, agree, *)
(* the forest has no cycle, and no distance exceeds the longest path: an   *)
(* edge is never refused for a path that does not exist.                   *)
ForestAgreesWithPartition ==
  /\ \A t \in States : Tree(EdgesOf(T), t) = P[t]
  /\ Len(T) = dfa.size - Cardinality({P[t] : t \in States})
  /\ \A t \in States : HasPathOf(t, distance[t])
=============================================================================
