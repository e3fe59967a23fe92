------------------------------ MODULE NfaHeap -------------------------------
(***************************************************************************)
(* The NFA objects of nfa.cpp as the parser builds them, and the methods   *)
(* that build them: a heap of nodes with labeled and epsilon transitions,  *)
(* and the two pointers `first' and `last' that lead from a node, in one   *)
(* step or several, to the first and the last state of the machine it      *)
(* belongs to.  Every method takes the heap and returns the heap it        *)
(* leaves, with the pointer it returns.  get_first and get_last recurse    *)
(* along the pointers until one points to itself; `endless' records that   *)
(* a copy was made on which this recursion would never end.                *)
(***************************************************************************)
EXTENDS Automata, SequencesExt

_INFINITY == -1

Node(n) == [transitions |-> {}, epsilon |-> <<>>, first |-> n, last |-> n,
            accepting |-> {}, deleted |-> FALSE]

EmptyHeap == [node |-> <<>>, endless |-> FALSE]

At(h, n) == [heap |-> h, at |-> n]

(* new NFA() *)
NewNfa(h) ==
  LET n == Len(h.node) + 1
  IN At([h EXCEPT !.node = Append(@, Node(n))], n)

-----------------------------------------------------------------------------
(* Where the pointers lead; if they lead in a circle, no node ends them.   *)
RECURSIVE FollowFirst(_, _, _)
FollowFirst(h, n, steps) ==
  IF steps = 0 \/ h.node[n].first = n
    THEN n ELSE FollowFirst(h, h.node[n].first, steps - 1)

RECURSIVE FollowLast(_, _, _)
FollowLast(h, n, steps) ==
  IF steps = 0 \/ h.node[n].last = n
    THEN n ELSE FollowLast(h, h.node[n].last, steps - 1)

GetFirst(h, n) == FollowFirst(h, n, Len(h.node))

GetLast(h, n) == FollowLast(h, n, Len(h.node))

LastEnds(h, n) == LET m == GetLast(h, n) IN h.node[m].last = m

Successors(node) == {t[2] : t \in node.transitions} \cup ToSet(node.epsilon)

Connected(node) == Successors(node) # {}

(* traverse: every node that is reached from n. *)
RECURSIVE ReachedFrom(_, _, _)
ReachedFrom(h, new, seen) ==
  IF new = {} THEN seen
  ELSE LET all == seen \cup new
       IN ReachedFrom(h, UNION {Successors(h.node[m]) : m \in new} \ all, all)

Traverse(h, n) == ReachedFrom(h, {n}, {})

-----------------------------------------------------------------------------
(* epsilon->push_back(to) *)
PushEpsilon(h, from, to) ==
  [h EXCEPT !.node[from].epsilon = Append(@, to)]

(* nfa->add_epsilon(to): `to' belongs to the machine of `from' from now on *)
AddEpsilonTo(h, from, to) ==
  [PushEpsilon(h, from, to) EXCEPT !.node[to].first = from,
                                   !.node[from].last = to]

AddEpsilon(h, from) ==
  LET new == NewNfa(h) IN At(AddEpsilonTo(new.heap, from, new.at), new.at)

(* The three add_transition and add_any: one new state, or the one that is *)
(* given, is reached on the symbols S.  first is that of the machine, and  *)
(* the first state's last is short-cut to the new end.                     *)
Edges(h, from, S, to) ==
  [h EXCEPT !.node[from].transitions = @ \cup (S \X {to}),
            !.node[to].first = GetFirst(h, from)]

EndsAt(h, from, to) ==
  [h EXCEPT !.node[GetFirst(h, from)].last = to, !.node[from].last = to]

AddTransitionsTo(h, from, S, to) == EndsAt(Edges(h, from, S, to), from, to)

AddTransitions(h, from, S) ==
  LET new == NewNfa(h)
  IN At(AddTransitionsTo(new.heap, from, S, new.at), new.at)

-----------------------------------------------------------------------------
(* link: the first state of fa is merged into `this' and deleted.  In the  *)
(* nodes of fa whatever points to it is redirected.                        *)
Redirected(n, second, this) == IF n = second THEN this ELSE n

(* An epsilon transition that is redirected moves to the end of its list,  *)
(* and a slip: it stays where it is.                                       *)
InPlace(list, second, this) ==
  [i \in DOMAIN list |-> Redirected(list[i], second, this)]

MovedToEnd(list, second, this) ==
  IF second \in ToSet(list)
    THEN SelectSeq(list, LAMBDA m : m # second) \o <<this>>
    ELSE list

(* A slip to compare with: first still points to the state that is merged. *)
RedirectedEdges(node, second, this) ==
  [node EXCEPT !.transitions = {<<t[1], Redirected(t[2], second, this)>> : t \in @},
               !.epsilon     = MovedToEnd(@, second, this)]

RedirectedNode(node, second, this) ==
  [RedirectedEdges(node, second, this) EXCEPT !.first = Redirected(@, second, this)]

Delete(h, n) == [h EXCEPT !.node[n].deleted = TRUE]

(* (SubSeq makes TLC compute the sequence of nodes before it is changed    *)
(* further.)                                                               *)
Redirect(h, second, this) ==
  LET nodes == Traverse(h, second)
  IN [h EXCEPT !.node =
        SubSeq([n \in DOMAIN @ |-> IF n \in nodes
                                     THEN RedirectedNode(@[n], second, this)
                                     ELSE @[n]],
               1, Len(@))]

Merge(h, second, this) ==
  [h EXCEPT !.node[this].transitions = @ \cup h.node[second].transitions,
            !.node[this].epsilon     = @ \o h.node[second].epsilon]

LastOf(h, n, second) == [h EXCEPT !.node[n].last = GetLast(h, second)]

EndWith(h, second, this) == LastOf(LastOf(h, GetLast(h, this), second), this, second)

(* What comes next is appended to the end of the linked machine.           *)
EndOfLinked(h, this) == h.node[this].last

Continue(h, second, this) == At(Delete(h, second), EndOfLinked(h, this))

LinkFirst(h, this, second) ==
  IF Connected(h.node[second])
    THEN Continue(EndWith(Merge(Redirect(h, second, this), second, this),
                          second, this),
                  second, this)
    ELSE At(Delete(h, second), this)

Link(h, this, fa) == LinkFirst(h, this, GetFirst(h, fa))

-----------------------------------------------------------------------------
(* dup_state: the nodes are copied depth first.  An edge is copied to the  *)
(* copy of its target, which is made when it is first needed; the copy's   *)
(* first is the node it is made from, and the last of a node is the copy   *)
(* of its first successor in the order labeled transitions, epsilon list.  *)
(* The labeled transitions are walked in the order of their addresses;     *)
(* CopiesAreDetermined says why the order does not matter.                           *)
CopyOf(st, n) == st.mapping[n]

Mapped(st, new, next, copy) ==
  [st EXCEPT !.heap = [new.heap EXCEPT
                         !.node[new.at].accepting = new.heap.node[next].accepting,
                         !.node[new.at].first = copy],
             !.mapping = (next :> new.at) @@ @]

CopyTarget(st, copy, next) ==
  IF next \in DOMAIN st.mapping THEN st ELSE Mapped(st, NewNfa(st.heap), next, copy)

LastIsFirstCopied(st, copy, next) ==
  [st EXCEPT !.heap.node[copy].last = IF @ = copy THEN CopyOf(st, next) ELSE @]

CopiedLabel(st, copy, t) ==
  [st EXCEPT !.heap.node[copy].transitions = @ \cup {<<t[1], CopyOf(st, t[2])>>}]

CopiedEpsilon(st, copy, next) ==
  [st EXCEPT !.heap.node[copy].epsilon = Append(@, CopyOf(st, next))]

CopyTransition(st, copy, t) ==
  LastIsFirstCopied(CopiedLabel(CopyTarget(st, copy, t[2]), copy, t), copy, t[2])

CopyEpsilon(st, copy, next) ==
  LastIsFirstCopied(CopiedEpsilon(CopyTarget(st, copy, next), copy, next), copy, next)

RECURSIVE DupState(_, _)
DupState(st, n) ==
  IF n \in st.marked THEN st
  ELSE LET node    == st.heap.node[n]
           copy    == CopyOf(st, n)
           labeled == SetToSeq(node.transitions)
           one     == FoldLeft(LAMBDA s, t : CopyTransition(s, copy, t),
                               [st EXCEPT !.marked = @ \cup {n}], labeled)
           two     == FoldLeft(LAMBDA s, m : CopyEpsilon(s, copy, m),
                               one, node.epsilon)
       IN FoldLeft(LAMBDA s, m : DupState(s, m), two,
                   [i \in DOMAIN labeled |-> labeled[i][2]] \o node.epsilon)

AtLast(h, n) == At(h, GetLast(h, n))

(* make_dup returns the last state of the copy. *)
Followed(h, copy) == AtLast([h EXCEPT !.endless = @ \/ ~LastEnds(h, copy)], copy)

CopyFrom(new, begin) ==
  Followed(DupState([heap    |-> [new.heap EXCEPT !.node[new.at].accepting =
                                    new.heap.node[begin].accepting],
                     mapping |-> begin :> new.at,
                     marked  |-> {}], begin).heap,
           new.at)

MakeDup(h, this) == CopyFrom(NewNfa(h), GetFirst(h, this))

(* make_mdup chains copies. *)
LinkCopy(before, dup) == Link(dup.heap, GetLast(dup.heap, before.at), dup.at)

RECURSIVE MoreCopies(_, _, _)
MoreCopies(before, this, times) ==
  IF times = 0 THEN before
  ELSE MoreCopies(LinkCopy(before, MakeDup(before.heap, this)), this, times - 1)

MakeMDup(h, this, times) ==
  LET end == MoreCopies(MakeDup(h, this), this, times - 1)
  IN AtLast(end.heap, end.at)

-----------------------------------------------------------------------------
(***************************************************************************)
(* make_rep: the machine of `this' from lb to ub times.                    *)
(***************************************************************************)
SkipOver(h, this) == PushEpsilon(h, GetFirst(h, this), GetLast(h, this))

LoopBack(h, this) == PushEpsilon(h, GetLast(h, this), GetFirst(h, this))

(* {0,} and the loop of {1,}: skip, loop back, and go on from a new state. *)
AddEpsilonAtLast(h, this) == AddEpsilon(h, GetLast(h, this)).heap

Star(h, this) == AddEpsilonAtLast(LoopBack(SkipOver(h, this), this), this)

(* "to avoid critical situations with backward epsilon" *)
AvoidBackward(h, this) ==
  IF h.node[this].epsilon # <<>> THEN AddEpsilon(h, this).heap ELSE h

(* Copies of the machine follow the machine that ends in head, each with a *)
(* jump to the end of the last repetition, which is `this' itself.         *)
(* A slip to compare with: no jump.                                        *)
NoJump(h, copy, this) == h

JumpToEnd(h, copy, this) == PushEpsilon(h, GetFirst(h, copy), GetLast(h, this))

WithJump(copy, this) == At(JumpToEnd(copy.heap, copy.at, this), copy.at)

LinkAfter(head, copy) == Link(copy.heap, head.at, copy.at)

RECURSIVE OptionalCopies(_, _, _)
OptionalCopies(head, this, times) ==
  IF times = 0 THEN head
  ELSE OptionalCopies(LinkAfter(head, WithJump(MakeDup(head.heap, this), this)),
                      this, times - 1)

ThenSelf(head, this) == Link(head.heap, head.at, this)

ThenLoopingSelf(head, this) == Link(LoopBack(head.heap, this), head.at, this)

ThenOptionalSelf(head, this) == Link(SkipOver(head.heap, this), head.at, this)

RepIsFatal(lb, ub) == ub # _INFINITY /\ (ub = 0 \/ lb > ub)

ZeroOrMore(h, this) == AtLast(Star(h, this), this)

StarThenCopy(copy, this) ==
  LET s == Star(copy.heap, this) IN Link(s, GetLast(s, this), copy.at).heap

OneOrMore(h, this) == AtLast(StarThenCopy(MakeDup(h, this), this), this)

AtLeast(h, this, lb) ==
  ThenLoopingSelf(MakeMDup(AvoidBackward(h, this), this, lb - 1), this)

Exactly(h, this, n) ==
  IF n = 1 THEN At(h, this)
  ELSE ThenSelf(MakeMDup(AvoidBackward(h, this), this, n - 1), this)

ZeroOrOne(h, this) == AtLast(SkipOver(AvoidBackward(h, this), this), this)

UpTo(h, this, ub) ==
  LET head == WithJump(MakeDup(AvoidBackward(h, this), this), this)
  IN ThenOptionalSelf(OptionalCopies(head, this, ub - 2), this)

FromOneTo(h, this, ub) ==
  LET head == MakeDup(AvoidBackward(h, this), this)
  IN ThenOptionalSelf(OptionalCopies(head, this, ub - 2), this)

FromTo(h, this, lb, ub) ==
  LET head == MakeMDup(AvoidBackward(h, this), this, lb)
  IN ThenOptionalSelf(OptionalCopies(head, this, ub - lb - 1), this)

MakeRep(h, this, lb, ub) ==
  CASE ub = _INFINITY /\ lb = 0     -> ZeroOrMore(h, this)
    [] ub = _INFINITY /\ lb = 1     -> OneOrMore(h, this)
    [] ub = _INFINITY /\ lb > 1     -> AtLeast(h, this, lb)
    [] ub = lb                      -> Exactly(h, this, lb)
    [] lb = 0 /\ ub = 1             -> ZeroOrOne(h, this)
    [] lb = 0 /\ ub > 1             -> UpTo(h, this, ub)
    [] lb = 1 /\ ub > 1             -> FromOneTo(h, this, ub)
    [] lb > 1 /\ ub > lb            -> FromTo(h, this, lb, ub)

-----------------------------------------------------------------------------
(* The pointers of the two new states, and a slip: only back to the first. *)
FirstOnly(h, begin, end) == [h EXCEPT !.node[end].first = begin]

FirstAndLast(h, begin, end) ==
  [h EXCEPT !.node[begin].last = end, !.node[end].first = begin]

(* make_or: a new first and a new last state around both machines. *)
MakeOr(h, this, alt) ==
  LET b      == NewNfa(h)
      e      == NewNfa(b.heap)
      begin  == b.at
      end    == e.at
      branch(g, m) ==
        LET f == GetFirst(g, m)
        IN [PushEpsilon(g, begin, f) EXCEPT !.node[f].first = begin]
      join(g, m) ==
        LET l == GetLast(g, m)
        IN [PushEpsilon(g, l, end) EXCEPT !.node[l].last = end]
      both   == branch(branch(e.heap, this), alt)
      joined == join(join(both, this), alt)
  IN At(FirstAndLast(joined, begin, end), end)

(* accept *)
Accept(h, n, rule) == [h EXCEPT !.node[n].accepting = @ \cup {rule}]
=============================================================================
