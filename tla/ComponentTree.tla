---------------------------- MODULE ComponentTree ----------------------------
(***************************************************************************)
(* How the FPGA compiler cuts a rule into parts (component_tree/,          *)
(* main_fpga_2.cpp).  A rule is parsed into a tree of components.          *)
(* decompose walks over the tree and writes a prefix that is rare enough   *)
(* and does not explode into R_pre, the rest into R_post; extract and      *)
(* extract_simplest cut a middle part out of a sequence instead.  The rest *)
(* is decomposed again and again into a chain of DFAs (compile_prefixDFA), *)
(* what precedes a middle part is reversed first.  Cutting changes the     *)
(* bounds of the repetitions in the tree.                                  *)
(*                                                                         *)
(* A text (R_pre, R_post, a part) is the sequence of the components that   *)
(* parse makes of it.  A class is a set of four symbols: one of them       *)
(* stands for one symbol of 256, two for 16, all four for all.             *)
(* Probabilities of a match are kept as -log2: products are sums.          *)
(*                                                                         *)
(* `lost' names the places where the code is known to lose or repeat a     *)
(* part; what is promised is promised for a rule that meets none.          *)
(***************************************************************************)
EXTENDS Integers, Sequences, FiniteSets, SequencesExt, TLC

CONSTANT GivenRules \* [tree |-> a component, anchored |-> begins with "^"]

INFINITE == -1
AnySymbol == 0 .. 3

Class(S)          == [kind |-> "class", charReach |-> S]
Repeat(c, lb, ub) == [kind |-> "repeat", sub_comp |-> c, m_min |-> lb, m_max |-> ub]
Sequence(cs)      == [kind |-> "sequence", children |-> cs]
Alternation(cs)   == [kind |-> "alternation", children |-> cs]

(* p_match of a class, and the constants of Component.h, main_fpga_2.cpp.  *)
WeightOfClass(S) == CASE Cardinality(S) = 1 -> 8 [] Cardinality(S) = 2 -> 4 [] OTHER -> 0
PMATCH_THRESHOLD == 39   \* 10^-12 is between 2^-40 and 2^-39
PMATCH_ANCHOR    == 10   \* 0.001
T_MATCH          == 15   \* 0.00002 is between 2^-16 and 2^-15
DEAFAULT_THRESHOLD          == 100
PREFIX_DFA_STATES_THRESHOLD == 10000
EXTRACT_THRESHOLD           == 50
NO_PMATCH == -1          \* cur_pmatch = 2: not to be used

Lesser(a, b)  == IF a < b THEN a ELSE b
Greater(a, b) == IF a > b THEN a ELSE b
CeilDiv(a, b) == (a + b - 1) \div b

(* Below PMATCH_THRESHOLD.                                                 *)
RareEnough(cur) == cur # NO_PMATCH /\ cur > PMATCH_THRESHOLD

RECURSIVE WeightOf(_)
WeightOf(c) ==
  CASE c.kind = "class"    -> WeightOfClass(c.charReach)
    [] c.kind = "repeat"   -> c.m_min * WeightOf(c.sub_comp)
    [] c.kind = "sequence" -> FoldLeft(LAMBDA w, e : w + WeightOf(e), 0, c.children)
    [] OTHER -> LET ws == {WeightOf(c.children[i]) : i \in DOMAIN c.children}
                IN CHOOSE w \in ws : \A v \in ws : w <= v

RECURSIVE num_concat(_)
num_concat(c) ==
  CASE c.kind = "class"  -> 1
    [] c.kind = "repeat" -> Greater(c.m_min, c.m_max) * num_concat(c.sub_comp)
    [] OTHER             -> FoldLeft(LAMBDA n, e : n + num_concat(e), 0, c.children)

IsNearlyAny(c) == c.kind = "class" /\ WeightOf(c) = 0

is_dotstar(c) == c.kind = "repeat" /\ c.m_max = INFINITE /\ IsNearlyAny(c.sub_comp)

-----------------------------------------------------------------------------
(* get_re_part, parsed again.  The text of a sequence has no brackets of   *)
(* its own.  Alternatives are separated once something has been written:   *)
(* leading empty ones vanish.                                              *)
Bracketed(texts) ==
  LET written == {i \in DOMAIN texts : texts[i] # <<>>}
      first == IF written = {} THEN Len(texts) ELSE CHOOSE i \in written : \A j \in written : i <= j
      kept  == SubSeq(texts, first, Len(texts))
  IN IF Len(kept) = 1 THEN Sequence(kept[1])
     ELSE Alternation([i \in DOMAIN kept |-> Sequence(kept[i])])

RECURSIVE get_re_part(_)
get_re_part(c) ==
  LET parts == [i \in DOMAIN c.children |-> get_re_part(c.children[i])]
      operand == LET text == get_re_part(c.sub_comp)
                 IN IF c.sub_comp.kind = "sequence" THEN Sequence(text) ELSE text[1]
  IN CASE c.kind = "class"       -> <<c>>
       [] c.kind = "sequence"    -> FlattenSeq(parts)
       [] c.kind = "alternation" -> <<Bracketed(parts)>>
       [] c.kind = "repeat" /\ c.m_min = 0 /\ c.m_max = 0 -> <<>>
       [] c.kind = "repeat" /\ c.m_min = 1 /\ c.m_max = 1 -> <<operand>>
       [] OTHER                  -> <<Repeat(operand, c.m_min, c.m_max)>>

-----------------------------------------------------------------------------
(***************************************************************************)
(* decompose.  What the calls share by reference is the record d: how many *)
(* states may still be made, the classes that decide about explosion, the  *)
(* texts written, and the globals lis_R_pre with lis_R_post (pairs here)   *)
(* and g_if_contain_dotstar.  A call answers whether the component was     *)
(* decomposed, and leaves it with other bounds.                            *)
(***************************************************************************)
Answer(decomposed, c, d) == [decomposed |-> decomposed, comp |-> c, d |-> d]

WithTexts(d, pre, post) == [d EXCEPT !.R_pre = pre, !.R_post = post]

DecomposeClass(c, cur, d) ==
  IF d.threshold <= 0 \/ RareEnough(cur) THEN Answer(TRUE, c, d)
  ELSE Answer(FALSE, c,
         [d EXCEPT !.first_charClass = IF c.charReach \cap d.last_infinite # {}
                                       THEN @ \cup c.charReach ELSE @,
                   !.last_infinite = {},
                   !.threshold = @ - 1,
                   !.R_pre = Append(@, c),
                   !.depth = @ + 1])

(* Where a repeated class is cut for fear of an explosion, and whether at  *)
(* all.                                                                    *)
CutForStates(c, d) ==
  LET beta == c.sub_comp.charReach
      j == Greater(c.m_min, c.m_max)
      Outcome(cut, decomposed, left) == [cut |-> cut, decomposed |-> decomposed, left |-> left]
  IN CASE d.last_infinite \cap beta \notin {{}, beta} ->
            IF j <= 1 THEN Outcome(-1, FALSE, d.threshold - j)
            ELSE Outcome(IF d.depth >= 3 THEN 1 ELSE 5, TRUE, d.threshold)
       [] d.last_infinite \cap beta \in {{}, beta}
            /\ (\/ WeightOfClass(beta) = 8
                \/ Cardinality(d.alpha) < 2
                \/ d.alpha \cap beta = {} \/ d.first_charClass \cap beta = {}) ->
            IF d.threshold < j THEN Outcome(d.threshold, TRUE, d.threshold - j)
            ELSE Outcome(-1, FALSE, d.threshold - j)
       [] OTHER ->
            IF j < 5
            THEN Outcome(IF d.threshold < j * j THEN 0 ELSE -1, d.threshold < j * j, d.threshold - j * j)
            ELSE Outcome(IF d.depth < 3 THEN 5 ELSE 0, TRUE, 0)

(* As many as make the part rare enough are enough.                        *)
CutOfClass(c, cur, d) ==
  LET byStates == CutForStates(c, d)
      w == WeightOf(c.sub_comp)
      enough == CeilDiv(PMATCH_THRESHOLD - cur, w)
  IN IF cur # NO_PMATCH /\ w > 0 /\ (byStates.cut >= enough \/ c.m_min >= enough)
     THEN [byStates EXCEPT !.cut = enough, !.decomposed = TRUE] ELSE byStates

(* alpha, first_charClass and last_infinite_charclass behind the class.    *)
PassClass(c, d) ==
  LET beta == c.sub_comp.charReach
      more == c.m_max = INFINITE
  IN [d EXCEPT
       !.alpha = IF more THEN @ \cup beta ELSE @,
       !.first_charClass = IF ~more /\ beta \cap d.last_infinite # {} THEN @ \cup beta ELSE @,
       !.last_infinite = IF more THEN (IF c.m_min # 0 THEN beta ELSE @ \cup beta)
                         ELSE IF c.m_min # 0 THEN {} ELSE @]

(* `wanted' copies go to R_pre and the others to R_post, between them the  *)
(* parts of the copy that was decomposed itself.  And a slip: that copy is *)
(* not counted.                                                            *)
CutUncounted(c, wanted, pre, post, d) ==
  LET cut  == Lesser(wanted, c.m_min)
      rest == [c EXCEPT !.m_min = @ - cut, !.m_max = IF @ = INFINITE THEN @ ELSE @ - cut]
      most == [c EXCEPT !.m_min = cut, !.m_max = cut]
  IN Answer(TRUE, rest,
       WithTexts(d, d.R_pre \o get_re_part(most) \o (IF cut < c.m_min THEN pre ELSE <<>>),
                 d.R_post \o post \o get_re_part(rest)))

Cut(c, wanted, pre, post, d) ==
  LET cut   == Lesser(wanted, c.m_min)
      taken == IF cut < c.m_min /\ pre # <<>> THEN cut + 1 ELSE cut
      rest  == [c EXCEPT !.m_min = @ - taken, !.m_max = IF @ = INFINITE THEN @ ELSE @ - taken]
      most  == [c EXCEPT !.m_min = cut, !.m_max = cut]
  IN Answer(TRUE, rest,
       WithTexts(d, d.R_pre \o get_re_part(most) \o (IF cut < c.m_min THEN pre ELSE <<>>),
                 d.R_post \o post \o get_re_part(rest)))

CutOrPass(c, cut, passed) ==
  LET any   == IsNearlyAny(c.sub_comp)
      whole == [passed EXCEPT !.R_pre = @ \o get_re_part(c)]
  IN CASE cut.decomposed -> Cut(c, IF any THEN 0 ELSE cut.cut, <<>>, <<>>, passed)
       [] ~cut.decomposed /\ any /\ c.m_max - c.m_min > 100 -> Answer(TRUE, c, whole)
       [] OTHER -> Answer(FALSE, c, [whole EXCEPT !.depth = @ + c.m_min])

DecomposeRepeatedClass(c, cur, d) ==
  LET cut == CutOfClass(c, cur, d)
  IN CutOrPass(c, cut, [PassClass(c, d) EXCEPT !.threshold = cut.left])

RECURSIVE Decompose(_, _, _, _)

(* (RE){m,n}: the copies are decomposed one after the other until one is   *)
(* cut; the optional ones only to see whether they explode.  Texts are     *)
(* printed from the operand as the cut left it.                            *)
DecomposeGroup(c, cur, d, top) ==
  LET byAlternation == top /\ c.sub_comp.kind = "alternation"
      Copy(acc) ==
        LET out == Decompose(acc.sub, acc.cur, WithTexts(acc.d, <<>>, <<>>), byAlternation)
        IN IF acc.decomposed THEN acc
           ELSE [decomposed |-> out.decomposed, sub |-> out.comp, d |-> out.d,
                 copies |-> IF out.decomposed THEN acc.copies ELSE acc.copies + 1,
                 cur |-> IF out.decomposed \/ acc.cur = NO_PMATCH THEN acc.cur
                         ELSE acc.cur + WeightOf(out.comp)]
      OptionalCopy(acc) ==
        LET out == Decompose(acc.sub, NO_PMATCH, WithTexts(acc.d, <<>>, <<>>), FALSE)
        IN IF acc.decomposed THEN acc
           ELSE [acc EXCEPT !.decomposed = out.decomposed, !.sub = out.comp,
                            !.d = WithTexts(out.d, acc.d.R_pre, acc.d.R_post)]
      none == [decomposed |-> FALSE, sub |-> c.sub_comp, d |-> WithTexts(d, <<>>, <<>>),
               copies |-> 0, cur |-> cur]
      mandatory == FoldLeft(LAMBDA acc, i : Copy(acc), none, [i \in 1 .. c.m_min |-> i])
      all == FoldLeft(LAMBDA acc, i : OptionalCopy(acc), mandatory,
                      [i \in 1 .. Greater(c.m_max - c.m_min, 0) |-> i])
      split == mandatory.decomposed /\ byAlternation /\ all.d.lis # <<>>
      less == IF split THEN 1 ELSE 0
      left == [c EXCEPT !.sub_comp = all.sub, !.m_min = @ - less,
                        !.m_max = IF @ = INFINITE THEN @ ELSE @ - less]
      pre  == all.d.R_pre
      post == all.d.R_post
      met  == (IF all.sub # c.sub_comp THEN {"printed after the cut"} ELSE {})
                \cup (IF pre = <<>> /\ post # <<>> THEN {"a copy too many"} ELSE {})
      back == WithTexts(all.d, d.R_pre, d.R_post)
  IN IF all.decomposed
     THEN Cut(left, all.copies, pre, post, [back EXCEPT !.lost = @ \cup met])
     ELSE Answer(FALSE, left, [back EXCEPT !.R_pre = @ \o get_re_part(left),
                                           !.depth = @ + c.m_min * num_concat(c.sub_comp)])

DecomposeRepeat(c, cur, d, top) ==
  CASE d.threshold <= 0 \/ RareEnough(cur) -> Answer(TRUE, c, d)
    [] ~(d.threshold <= 0 \/ RareEnough(cur)) /\ c.sub_comp.kind = "class" ->
         DecomposeRepeatedClass(c, cur, d)
    [] OTHER -> DecomposeGroup(c, cur, d, top)

(* The alternatives of a top-level one behind .* become pairs of texts of  *)
(* their own: those that need no cut are gathered in `group' until one     *)
(* does, which is then decomposed again with a fresh threshold.            *)
RECURSIVE SplitAlternatives(_, _, _)
SplitAlternatives(given, fresh, acc) ==
  LET i   == acc.i
      d   == acc.d
      out == Decompose(acc.kids[i], NO_PMATCH,
                       WithTexts([d EXCEPT !.threshold = acc.threshold], <<>>, <<>>), FALSE)
      met == IF acc.kids[i] # given[i] THEN {"decomposed after the cut"} ELSE {}
      after == [acc EXCEPT !.kids[i] = out.comp, !.d.lost = out.d.lost \cup met]
      gathered == <<<<Bracketed(acc.group)>>, <<>>>>
      Onwards(a) == SplitAlternatives(given, fresh, a)
  IN CASE i > Len(given) ->
            IF acc.group = <<>> THEN acc ELSE [acc EXCEPT !.d.lis = Append(@, gathered)]
       [] i <= Len(given) /\ out.decomposed /\ acc.group # <<>> ->
            Onwards([after EXCEPT !.d.lis = Append(@, gathered), !.group = <<>>, !.threshold = fresh])
       [] i <= Len(given) /\ out.decomposed /\ acc.group = <<>> ->
            Onwards([after EXCEPT !.d.lis = Append(@, <<out.d.R_pre, out.d.R_post>>),
                               !.i = i + 1, !.threshold = fresh])
       [] OTHER ->
            Onwards([after EXCEPT !.group = IF @ = <<>> /\ out.d.R_pre = <<>> THEN @
                                         ELSE Append(@, out.d.R_pre),
                               !.i = i + 1, !.threshold = out.d.threshold])

(* Every alternative begins with what stood before the alternation; what   *)
(* one of them has used of the threshold is gone for the next.             *)
DecomposeAlternation(c, cur, d, top) ==
  LET Try(acc, i) ==
        LET out == Decompose(c.children[i], NO_PMATCH,
                             [WithTexts(d, <<>>, <<>>) EXCEPT !.threshold = acc.threshold], FALSE)
        IN IF acc.decomposed THEN acc
           ELSE [decomposed |-> out.decomposed \/ out.d.threshold < 0,
                 kids  |-> [acc.kids EXCEPT ![i] = out.comp],
                 threshold |-> out.d.threshold,
                 alpha |-> acc.alpha \cup out.d.alpha,
                 first |-> acc.first \cup out.d.first_charClass,
                 last  |-> acc.last \cup out.d.last_infinite,
                 lost  |-> acc.lost \cup out.d.lost]
      tried == FoldLeft(Try, [decomposed |-> FALSE, kids |-> c.children, threshold |-> d.threshold,
                              alpha |-> d.alpha, first |-> d.first_charClass, last |-> {}, lost |-> d.lost],
                        [i \in DOMAIN c.children |-> i])
      left  == Alternation(tried.kids)
      met   == IF tried.kids # c.children THEN {"printed after the cut"} ELSE {}
      used  == [d EXCEPT !.threshold = tried.threshold, !.lost = tried.lost]
      split == SplitAlternatives(c.children, d.threshold,
                 [kids |-> tried.kids, i |-> 1, group |-> <<>>, threshold |-> d.threshold, d |-> used])
      lengths == {num_concat(c.children[i]) : i \in DOMAIN c.children}
  IN CASE d.threshold <= 0 \/ RareEnough(cur) -> Answer(TRUE, c, d)
       [] ~(d.threshold <= 0 \/ RareEnough(cur)) /\ ~tried.decomposed ->
            Answer(FALSE, left,
              [used EXCEPT !.R_pre = @ \o get_re_part(left),
                           !.first_charClass = tried.first, !.last_infinite = tried.last,
                           !.alpha = tried.alpha,
                           !.depth = @ + CHOOSE n \in lengths : \A m \in lengths : n <= m])
       [] ~(d.threshold <= 0 \/ RareEnough(cur)) /\ tried.decomposed
            /\ (~top \/ d.last_infinite # AnySymbol \/ d.lis # <<>>) ->
            Answer(TRUE, left, [used EXCEPT !.R_post = @ \o get_re_part(left), !.lost = @ \cup met])
       [] OTHER -> Answer(TRUE, Alternation(split.kids), split.d)

-----------------------------------------------------------------------------
(* A pass over the children of a sequence.  A child that answers that it   *)
(* was decomposed has written its own texts, but for a class; what follows *)
(* it goes to R_post.  Up to the last .* that shall be in R_pre no         *)
(* probability counts.                                                     *)
Pass(children, cur, d, top, last_dotstar, start_pmatch) ==
  LET Child(acc, i) ==
        LET it   == acc.kids[i]
            pos  == acc.pos + 1
            now  == CASE top /\ pos <= last_dotstar -> NO_PMATCH
                      [] ~(top /\ pos <= last_dotstar) /\ cur # NO_PMATCH
                           /\ acc.cur \in {NO_PMATCH, 0} -> start_pmatch
                      [] OTHER -> acc.cur
            done == acc.decomposed \/ acc.d.threshold <= 0
            out  == IF done THEN Answer(TRUE, it, acc.d) ELSE Decompose(it, now, acc.d, top)
            silent == ~done /\ RareEnough(now) /\ it.kind # "class"
        IN [decomposed |-> out.decomposed,
            kids |-> [acc.kids EXCEPT ![i] = out.comp],
            pos  |-> IF done THEN acc.pos ELSE pos,
            cur  |-> IF now = NO_PMATCH THEN now ELSE now + WeightOf(out.comp),
            d    |-> [out.d EXCEPT !.R_post = IF done \/ (out.decomposed /\ it.kind = "class")
                                              THEN @ \o get_re_part(it) ELSE @,
                                   !.lost = IF silent THEN @ \cup {"a part dropped"} ELSE @]]
  IN FoldLeft(Child, [decomposed |-> FALSE, kids |-> children, pos |-> 0, cur |-> cur, d |-> d],
              [i \in DOMAIN children |-> i])

LastDotstar(children, n) ==
  LET dots == {i \in DOMAIN children : i <= n /\ is_dotstar(children[i])}
  IN IF dots = {} THEN -1 ELSE CHOOSE i \in dots : \A j \in dots : i >= j

(* If the last .* did not get into R_pre all is rolled back and done again *)
(* for the last .* that can; only the repetitions among the children get   *)
(* their bounds back.                                                      *)
Recovered(children, left) ==
  [i \in DOMAIN children |->
     IF children[i].kind = "repeat"
     THEN [left[i] EXCEPT !.m_min = children[i].m_min, !.m_max = children[i].m_max]
     ELSE left[i]]

AgainUpTo(near, children, recovered, cur, d, top, start) ==
  LET met == IF recovered # children THEN {"decomposed after the cut"} ELSE {}
  IN Pass(recovered, cur,
          [d EXCEPT !.lis = <<>>, !.dotstar = @ \/ near > 0, !.lost = @ \cup met], top, near, start)

AnswerOf(pass) == Answer(pass.decomposed, Sequence(pass.kids), pass.d)

SecondPass(once, far, c, cur, d, top, start) ==
  LET counted   == cur # NO_PMATCH /\ top
      reached   == counted /\ far >= 0 /\ once.pos > far + 1
      missed    == counted /\ once.pos <= far + 1 /\ once.decomposed
      recovered == Recovered(c.children, once.kids)
  IN IF missed
     THEN AnswerOf(AgainUpTo(LastDotstar(recovered, once.pos - 2), c.children, recovered, cur,
                             [d EXCEPT !.dotstar = once.d.dotstar], top, start))
     ELSE AnswerOf([once EXCEPT !.d.dotstar = @ \/ reached])

DecomposeSequence(c, cur, d, top) ==
  LET start == IF top /\ d.last_infinite = {} THEN PMATCH_ANCHOR ELSE 0
      far   == LastDotstar(c.children, Len(c.children))
  IN IF RareEnough(cur) THEN Answer(TRUE, c, d)
     ELSE SecondPass(Pass(c.children, cur, d, top, far, start), far, c, cur, d, top, start)

Decompose(c, cur, d, top) ==
  CASE c.kind = "class"    -> DecomposeClass(c, cur, d)
    [] c.kind = "repeat"   -> DecomposeRepeat(c, cur, d, top)
    [] c.kind = "sequence" -> DecomposeSequence(c, cur, d, top)
    [] OTHER               -> DecomposeAlternation(c, cur, d, top)

-----------------------------------------------------------------------------
(***************************************************************************)
(* decompose (decompose.cpp): a rule, or a text that is parsed again, into *)
(* R_pre and R_post or, where an alternation was split, into several.      *)
(***************************************************************************)
(* A prefix that is one repeated class of many symbols.                    *)
OneWideClass(text) ==
  /\ Len(text) = 1
  /\ text[1].kind = "repeat"
  /\ text[1].sub_comp.kind = "class"
  /\ WeightOf(text[1].sub_comp) <= 5

(* The texts, and the probability of the most common prefix: 0 for one     *)
(* that is of no use.                                                      *)
PairsOf(d) ==
  IF d.lis = <<>> THEN <<<<d.R_pre, d.R_post>>>>
  ELSE [i \in DOMAIN d.lis |-> <<d.R_pre \o d.lis[i][1], d.lis[i][2] \o d.R_post>>]

LeastWeight(pairs) ==
  LET OfPrefix(i) == WeightOf(Sequence(pairs[i][1]))
  IN CHOOSE w \in {OfPrefix(i) : i \in DOMAIN pairs} : \A i \in DOMAIN pairs : w <= OfPrefix(i)

Decomposed(d, pairs, anchored, no_wide_class) ==
  LET useless == d.lis = <<>> /\ (d.R_pre = <<>> \/ (no_wide_class /\ OneWideClass(d.R_pre)))
  IN [pairs |-> pairs, dotstar |-> d.dotstar, lost |-> d.lost,
      p_match |-> CASE useless -> 0
                    [] ~useless /\ anchored -> LeastWeight(pairs) + PMATCH_ANCHOR
                    [] OTHER -> LeastWeight(pairs)]

(* use_pmatch looks for a rare prefix; control_top leaves alternations     *)
(* whole.                                                                  *)
DecomposeRule(tree, anchored, threshold, use_pmatch, control_top) ==
  LET before == IF anchored THEN {} ELSE AnySymbol
      fresh == [threshold |-> threshold, alpha |-> before, last_infinite |-> before,
                first_charClass |-> {}, depth |-> 0, R_pre |-> <<>>, R_post |-> <<>>,
                lis |-> <<>>, dotstar |-> FALSE, lost |-> {}]
      Written(d) == Decomposed(d, PairsOf(d), anchored, ~anchored /\ use_pmatch /\ ~control_top)
  IN Written(Decompose(tree, IF use_pmatch THEN 0 ELSE NO_PMATCH, fresh, ~control_top).d)

(* compile_prefixDFA: the chain of expressions for what follows, each      *)
(* anchored, or none when nothing can be put into the next one.            *)
RECURSIVE ChainOf(_)

NoChain(lost) == [res |-> <<>>, failed |-> TRUE, lost |-> lost]

Link(pre, chain, lost) ==
  IF chain.failed THEN NoChain(lost \cup chain.lost)
  ELSE [res |-> <<pre>> \o chain.res, failed |-> FALSE, lost |-> lost \cup chain.lost]

LinkOf(out) ==
  LET pair == out.pairs[1]
  IN IF pair[1] = <<>> THEN NoChain(out.lost) ELSE Link(pair[1], ChainOf(pair[2]), out.lost)

ChainOf(text) ==
  IF text = <<>> THEN [res |-> <<>>, failed |-> FALSE, lost |-> {}]
  ELSE LinkOf(DecomposeRule(Sequence(text), TRUE, PREFIX_DFA_STATES_THRESHOLD, FALSE, TRUE))

-----------------------------------------------------------------------------
(***************************************************************************)
(* extract and extract_simplest: a middle part of a sequence.              *)
(***************************************************************************)
InThree(pre, mid, post) == [pre |-> pre, mid |-> mid, post |-> post]

NothingCut == InThree(<<>>, <<>>, <<>>)

TextOf(children, from, to) == FlattenSeq([i \in 1 .. Greater(to - from + 1, 0) |->
                                            get_re_part(children[from + i - 1])])

(* The rarest part of fixed length: from the child `first' to `second', of *)
(* which cut copies belong to it (-1: all, 0: none).  A piece ends at the  *)
(* threshold, and at a child that is no class, of no fixed length or       *)
(* shares symbols with the first class of the piece.                       *)
Rarest(children) ==
  LET last == Len(children)
      Start == [w |-> 0, left |-> EXTRACT_THRESHOLD, es1 |-> {}, some |-> FALSE]
      Step(acc, i) ==
        LET it == children[i]
            begin == IF acc.w = 0 THEN i ELSE acc.begin
            fits == \/ it.kind = "class"
                    \/ /\ it.kind = "repeat" /\ it.m_min # 0 /\ it.sub_comp.kind = "class"
                       /\ ~acc.some \/ acc.es1 \cap it.sub_comp.charReach = {}
            class == IF it.kind = "class" THEN it ELSE it.sub_comp
            n == IF it.kind = "class" THEN 1 ELSE Lesser(acc.left, it.m_min)
            w == IF fits THEN acc.w + n * WeightOf(class) ELSE acc.w
            left == IF fits THEN acc.left - n ELSE acc.left
            cut == CASE ~fits -> 0 [] fits /\ it.kind = "class" -> -1 [] OTHER -> n
            ends == ~fits \/ left <= 0 \/ (it.kind = "repeat" /\ it.m_min # it.m_max)
            rarer == ends /\ w > acc.best
            piece == [w |-> w, left |-> left, some |-> TRUE,
                      es1 |-> IF acc.some THEN acc.es1 ELSE class.charReach]
        IN [begin |-> begin,
            best   |-> IF rarer THEN w ELSE acc.best,
            first  |-> IF rarer THEN begin ELSE acc.first,
            second |-> IF rarer THEN i ELSE acc.second,
            cut    |-> IF rarer THEN cut ELSE acc.cut] @@ (IF ends THEN Start ELSE piece)
      Chosen(end) == IF end.w > end.best
                     THEN [first |-> end.begin, second |-> last + 1, cut |-> -1]
                     ELSE [first |-> end.first, second |-> end.second, cut |-> end.cut]
  IN Chosen(FoldLeft(Step, [begin |-> 1, best |-> 0, first |-> 0, second |-> 0, cut |-> 0] @@ Start,
                     [i \in DOMAIN children |-> i]))

(* ComponentSequence::extract.  The child that ends the part is looked at  *)
(* only if the part does not begin with it: else all that follows belongs  *)
(* to the part.                                                            *)
SplitOff(c, cut) ==
  CASE cut = -1 -> <<get_re_part(c), <<>>>>
    [] cut = 0  -> <<<<>>, get_re_part(c)>>
    [] OTHER -> <<get_re_part([c EXCEPT !.m_min = cut, !.m_max = cut]),
                  get_re_part([c EXCEPT !.m_min = @ - cut,
                                        !.m_max = IF @ = INFINITE THEN @ ELSE @ - cut])>>

Extracted(children, part) ==
  LET n == Len(children)
      ends == SplitOff(children[part.second], part.cut)
  IN CASE part.first = 0 -> InThree(TextOf(children, 1, n), <<>>, <<>>)
       [] part.first # 0 /\ (part.second = part.first \/ part.second > n) ->
            InThree(TextOf(children, 1, part.first - 1), TextOf(children, part.first, n), <<>>)
       [] OTHER ->
            InThree(TextOf(children, 1, part.first - 1),
                  TextOf(children, part.first, part.second - 1) \o ends[1],
                  ends[2] \o TextOf(children, part.second + 1, n))

ExtractRarest(children) == Extracted(children, Rarest(children))

(* extract_non_one_repeat: a rare repeated class at the beginning lends    *)
(* the middle part only as many copies as make it rare with the class      *)
(* that follows.                                                           *)
ExtractFromRepeat(children) ==
  LET rep == children[1]
      cut == CeilDiv(PMATCH_THRESHOLD - WeightOf(children[2]), WeightOf(rep.sub_comp))
      kept == [rep EXCEPT !.m_min = @ - cut, !.m_max = IF @ = INFINITE THEN @ ELSE @ - cut]
      lent == [rep EXCEPT !.m_min = cut, !.m_max = cut]
  IN IF Len(children) = 1 \/ children[2].kind # "class" THEN NothingCut
     ELSE InThree(get_re_part(kept), get_re_part(lent) \o get_re_part(children[2]),
                TextOf(children, 3, Len(children)))

(* The part is not cut off where it should end.                            *)
BeginsWithItsEnd(tree) ==
  LET Begins(part) == part.first = part.second
  IN tree.kind = "sequence" /\ Begins(Rarest(tree.children))

extract(tree) ==
  LET c == tree.children IN
  CASE tree.kind # "sequence" -> NothingCut
    [] tree.kind = "sequence" /\ c[1].kind = "repeat" /\ RareEnough(WeightOf(c[1]))
         /\ c[1].sub_comp.kind = "class" -> ExtractFromRepeat(c)
    [] OTHER -> ExtractRarest(c)

(* The shortest row of classes that is rare enough, the first of these.    *)
extract_simplest(tree, anchored) ==
  LET c == tree.children
      RowWeight(i, j) == (IF i = 1 /\ anchored THEN PMATCH_ANCHOR ELSE 0)
                           + WeightOf(Sequence(SubSeq(c, i, j)))
      rows == {<<i, j>> \in (DOMAIN c) \X (DOMAIN c) :
                 /\ i <= j
                 /\ \A k \in i .. j : c[k].kind = "class"
                 /\ RareEnough(RowWeight(i, j))}
      Before(r, q) == r[2] - r[1] < q[2] - q[1] \/ (r[2] - r[1] = q[2] - q[1] /\ r[1] <= q[1])
      row == CHOOSE r \in rows : \A q \in rows : Before(r, q)
  IN IF tree.kind # "sequence" \/ rows = {} THEN [anchored |-> FALSE] @@ NothingCut
     ELSE [anchored |-> anchored /\ row[1] = 1]
            @@ InThree(TextOf(c, 1, row[1] - 1), TextOf(c, row[1], row[2]), TextOf(c, row[2] + 1, Len(c)))

(* reverse_re: the children in reverse order, each as it is; "^" becomes a *)
(* "$" at the end, which is a symbol to the parser of NFAs, and a "$" at   *)
(* the end a "^".                                                          *)
Dollar == Class({3})

reverse_re(text, anchored) == Reverse(text) \o (IF anchored THEN <<Dollar>> ELSE <<>>)

(* A text whose words are those of the text, reversed.                     *)
RECURSIVE Mirrored(_)
Mirrored(c) ==
  CASE c.kind = "class"       -> c
    [] c.kind = "repeat"      -> [c EXCEPT !.sub_comp = Mirrored(@)]
    [] c.kind = "sequence"    -> Sequence(Reverse([i \in DOMAIN c.children |-> Mirrored(c.children[i])]))
    [] OTHER -> Alternation([i \in DOMAIN c.children |-> Mirrored(c.children[i])])

-----------------------------------------------------------------------------
(***************************************************************************)
(* compile (main_fpga_2.cpp) for one rule.                                 *)
(***************************************************************************)
VARIABLES
  rule,     \* the rule; never changes
  phase,    \* what compile tries next: "prefix" (compile_single_to_lis),
            \* "simplest", "middle" (try_compile_single_mid); "compiled";
            \* or "idle", the compiler does not run
  limit,    \* threshold of compile_single_to_lis
  prefixes  \* prefixDfa_lis: records of the expressions the DFAs are made of

compileVars == <<rule, phase, limit, prefixes>>

Node(mid, anchored, depth, before, after, lost) ==
  [mid |-> mid, anchored |-> anchored, depth |-> depth,
   parent_nodes |-> before, next_nodes |-> after, lost |-> lost]

NotCompiling == phase = "idle" /\ limit = 0 /\ prefixes = <<>>

InitCompile ==
  /\ rule \in GivenRules
  /\ phase = "prefix"
  /\ limit = DEAFAULT_THRESHOLD
  /\ prefixes = <<>>

(* One turn of the loop of compile_single_to_lis, by rule and threshold:   *)
(* the probability of the prefixes, and the prefixes with the chains of    *)
(* what follows.  Where such a chain cannot be made the prefix is kept     *)
(* without it.                                                             *)
PrefixNode(r, pre, chain, lost) ==
  Node(pre, r.anchored, 0, <<>>, chain.res,
       lost \cup chain.lost \cup (IF chain.failed THEN {"no chain"} ELSE {}))

PrefixesOf(r, out) ==
  [p_match |-> out.p_match, dotstar |-> out.dotstar,
   nodes |-> [i \in DOMAIN out.pairs |->
                PrefixNode(r, out.pairs[i][1], ChainOf(out.pairs[i][2]), out.lost)]]

Turn ==
  [r \in GivenRules |-> [threshold \in 0 .. DEAFAULT_THRESHOLD |->
     PrefixesOf(r, DecomposeRule(r.tree, r.anchored, threshold, TRUE, FALSE))]]

(* A prefix that fits into a block is kept; else the loop goes on with a   *)
(* smaller threshold, by the size of the DFA.                              *)
KeepOrReduce(turn) ==
  IF turn.p_match <= T_MATCH
  THEN phase' = "simplest" /\ prefixes' = <<>> /\ limit' = DEAFAULT_THRESHOLD
  ELSE \/ /\ prefixes' = turn.nodes
          /\ phase' = IF turn.dotstar THEN "compiled" ELSE "simplest"
          /\ limit' = DEAFAULT_THRESHOLD
       \/ /\ limit' \in 0 .. limit - 1
          /\ UNCHANGED <<phase, prefixes>>

CompilePrefix == phase = "prefix" /\ KeepOrReduce(Turn[rule][limit]) /\ UNCHANGED rule

(* try_compile_single_mid: the middle part may be too large for a block    *)
(* or too common, and what follows or precedes it may have no chain.  What *)
(* precedes it is matched backwards.                                       *)
Between(precedes, parts, follows, anchored, depth, met) ==
  IF WeightOf(Sequence(parts.mid)) <= T_MATCH \/ follows.failed \/ precedes.failed THEN {<<>>}
  ELSE {<<>>, <<Node(parts.mid, anchored /\ parts.pre = <<>>, depth, precedes.res, follows.res,
                     met \cup follows.lost \cup precedes.lost)>>}

Around(parts, anchored, depth, met) ==
  LET reversed == reverse_re(parts.pre, anchored /\ parts.pre # <<>>)
      turned   == reversed = Mirrored(Sequence(parts.pre)).children
  IN Between(ChainOf(reversed), parts, ChainOf(parts.post), anchored, depth,
             met \cup (IF turned THEN {} ELSE {"not reversed inside"}))

(* extract_simplest leaves the depth as it was, 0.                         *)
SimplestOf == [r \in GivenRules |-> Around(extract_simplest(r.tree, r.anchored), r.anchored, 0, {})]

TrySimplest ==
  /\ phase = "simplest"
  /\ \E nodes \in SimplestOf[rule] :
       /\ prefixes' = IF nodes # <<>> THEN nodes ELSE prefixes
       /\ phase' = IF prefixes' # <<>> THEN "compiled" ELSE "middle"
  /\ UNCHANGED <<rule, limit>>

(* extract drops the "^" of a rule.                                        *)
AroundMiddle(r, parts) ==
  Around(parts, FALSE, num_concat(Sequence(parts.mid)),
         (IF r.anchored THEN {"the anchor dropped"} ELSE {})
           \cup (IF BeginsWithItsEnd(r.tree) THEN {"not cut off"} ELSE {}))

MiddleOf == [r \in GivenRules |-> AroundMiddle(r, extract(r.tree))]

TryMiddle ==
  /\ phase = "middle"
  /\ prefixes' \in MiddleOf[rule]
  /\ phase' = "compiled"
  /\ UNCHANGED <<rule, limit>>

NextCompile == CompilePrefix \/ TrySimplest \/ TryMiddle

-----------------------------------------------------------------------------
(***************************************************************************)
(* Properties.                                                             *)
(***************************************************************************)
(* What a component unrolls to: sequences of runs of a class, or of what   *)
(* is optional.                                                            *)
Run(part, n) == IF n = 0 THEN <<>> ELSE <<[part |-> part, times |-> n]>>

JoinedRuns(r, q) ==
  IF r # <<>> /\ q # <<>> /\ Last(r).part = Head(q).part
  THEN Front(r) \o Run(Head(q).part, Last(r).times + Head(q).times) \o Tail(q)
  ELSE r \o q

RECURSIVE Unrolled(_)
Unrolled(c) ==
  LET Product(A, B) == {JoinedRuns(a, b) : a \in A, b \in B}
      AllOf(n) == FoldLeft(LAMBDA A, i : Product(A, Unrolled(c.sub_comp)), {<<>>}, [i \in 1 .. n |-> i])
      mandatory == IF c.sub_comp.kind = "class" THEN {Run(c.sub_comp, c.m_min)} ELSE AllOf(c.m_min)
      optional == IF c.m_max = c.m_min THEN <<>>
                  ELSE Run([kind |-> "optional", once |-> Unrolled(c.sub_comp),
                            most |-> IF c.m_max = INFINITE THEN INFINITE ELSE c.m_max - c.m_min], 1)
  IN CASE c.kind = "class"    -> {Run(c, 1)}
       [] c.kind = "repeat"   -> Product(mandatory, {optional})
       [] c.kind = "sequence" -> FoldLeft(LAMBDA A, e : Product(A, Unrolled(e)), {<<>>}, c.children)
       [] OTHER               -> UNION {Unrolled(c.children[i]) : i \in DOMAIN c.children}

PartsOf(n) ==
  Sequence(Mirrored(Sequence(FlattenSeq(n.parent_nodes))).children \o n.mid \o FlattenSeq(n.next_nodes))

(* The parts a rule is cut into, what precedes turned round again, make    *)
(* the rule: nothing is lost, repeated or exchanged where they meet, and   *)
(* an anchored rule has its anchor.  decompose, extract and                *)
(* extract_simplest write them while they change the tree.                 *)
PartsMakeTheRule ==
  phase = "compiled" /\ (\A i \in DOMAIN prefixes : prefixes[i].lost = {}) /\ prefixes # <<>> =>
    /\ UNION {Unrolled(PartsOf(prefixes[i])) : i \in DOMAIN prefixes} = Unrolled(rule.tree)
    /\ \A i \in DOMAIN prefixes : prefixes[i].anchored = rule.anchored

(* The words of a middle part that extract has found have the length that  *)
(* is stored with it: pre_match goes back by so many symbols before it     *)
(* reads what precedes ("determined depth of mid part", prefix_DFA.h).     *)
MiddleHasItsDepth ==
  \A i \in DOMAIN prefixes :
    prefixes[i].depth # 0 /\ prefixes[i].lost = {} =>
      \A u \in Unrolled(Sequence(prefixes[i].mid)) :
        /\ FoldLeft(LAMBDA n, r : n + r.times, 0, u) = prefixes[i].depth
        /\ \A j \in DOMAIN u : u[j].part.kind = "class"

(* A rule is cut as its runtime takes it to be.                            *)
CutAsPromised == PartsMakeTheRule /\ MiddleHasItsDepth
=============================================================================
