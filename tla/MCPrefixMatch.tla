--------------------------- MODULE MCPrefixMatch ---------------------------
(***************************************************************************)
(* Instances for TLC. For PrefixMatch: middle parts of one and two         *)
(* symbols, chains of up to three nodes with and without dead states on    *)
(* either side, and every packet up to a length. For ComponentTree: rules  *)
(* that are cut in each of the ways there are, below.                      *)
(***************************************************************************)
EXTENDS PrefixMatch, ComponentTree

CONSTANTS LongestPacket, \* every packet up to this many symbols
          Simplest,      \* how the middle part may have been cut out
          Chains         \* names of the chains the parts are made of

Dfa(table, accepting, dead) ==
  [size |-> Len(table), dead_state |-> dead,
   table |-> [s \in 0 .. Len(table) - 1 |-> [a \in Symbols |-> table[s + 1][a + 1]]],
   accepted |-> [s \in 0 .. Len(table) - 1 |-> IF s = accepting THEN Rules ELSE {}]]

(* Middle parts are not anchored: "a" and "ab".                            *)
FindA  == Dfa(<<<<1, 0>>, <<1, 0>>>>, 1, NO_STATE)
FindAB == Dfa(<<<<1, 0>>, <<1, 2>>, <<1, 0>>>>, 2, NO_STATE)

(* The parts around it are: "^b", "^a+", "^.*b" and "^[ab]a".              *)
OneB   == Dfa(<<<<2, 1>>, <<2, 2>>, <<2, 2>>>>, 1, 2)
SomeA  == Dfa(<<<<1, 2>>, <<1, 2>>, <<2, 2>>>>, 1, 2)
UpToB  == Dfa(<<<<0, 1>>, <<0, 1>>>>, 1, NO_STATE)
AnyA   == Dfa(<<<<1, 1>>, <<2, 3>>, <<3, 3>>, <<3, 3>>>>, 2, 3)

(* "^(ab|bb)a" after minimize: two pairs of states became one, the dead    *)
(* state is 2 and 3, which was its number, is the state after "ab".        *)
Stale  == Dfa(<<<<1, 1>>, <<2, 3>>, <<2, 2>>, <<4, 2>>, <<2, 2>>>>, 4, 3)

Chain(name) ==
  CASE name = "none"  -> <<>>
    [] name = "b"     -> <<OneB>>
    [] name = "xa"    -> <<AnyA>>
    [] name = "xba"   -> <<Stale>>
    [] name = "a+b"   -> <<SomeA, OneB>>
    [] name = ".*b.a" -> <<UpToB, AnyA>>
    [] name = "a+.*bxa" -> <<SomeA, UpToB, AnyA>>

MCCompiled ==
  {[mid |-> m, length |-> m.size - 1, pre |-> Chain(p), post |-> Chain(q),
    simplest |-> s, imported |-> i] :
      m \in {FindA, FindAB}, p \in Chains, q \in Chains,
      s \in Simplest, i \in BOOLEAN}

MCPackets == UNION {[1 .. n -> Symbols] : n \in 0 .. LongestPacket}

-----------------------------------------------------------------------------
(***************************************************************************)
(* Rules for ComponentTree, each with and without "^".                     *)
(***************************************************************************)
X   == Class({0})
Y   == Class({1})
XY  == Class({0, 1})
Dot == Class(AnySymbol)

Star(c)     == Repeat(c, 0, INFINITE)
Times(c, n) == Repeat(c, n, n)
Group(cs)   == Sequence(cs)
Either(cs)  == Alternation([i \in DOMAIN cs |-> Group(cs[i])])

(* A prefix alone, too common alone, cut for its probability, behind .*,   *)
(* in a repetition, at the limit of states, where an explosion threatens,  *)
(* or in the alternatives; and middle parts, of classes only, or up to a   *)
(* copy of a repetition, behind what no prefix can hold.                   *)
MCTrees ==
  {Group(cs) : cs \in {
     <<X, Y, X, Y>>,
     <<X, Y, X, Y, X, X, Y>>,
     <<X, Y, X, Y, X, Star(X), Y>>,
     <<X, Y, Star(Dot), Y, X, Y, X, X, Y>>,
     <<X, Star(Dot), Y, Star(Dot), X, X, Y>>,
     <<X, Y, Group(<<X, Y>>), Either(<<<<X>>, <<Y>>>>), Star(Dot), Y, Y, Y, Y, Y>>,
     <<X, Y, Times(Group(<<X, Y>>), 60), Y>>,
     <<X, Times(Y, 300), X>>,
     <<X, Repeat(XY, 3, INFINITE), Y, X, X, X>>,
     <<Repeat(XY, 12, INFINITE), Y, X, X, X>>,
     <<Star(Y), Repeat(XY, 12, INFINITE), Y, X, X, X>>,
     <<Star(Y), X, X, Repeat(Y, 12, INFINITE), Y, X, X, X>>,
     <<Either(<<<<X, Y, X>>, <<Y, Times(XY, 300)>>, <<Y, X>>>>), X, Y, X>>,
     <<Repeat(Dot, 0, 200), X, Y, X, X, Y, X>>}}

MCRules == [tree : MCTrees, anchored : BOOLEAN]

-----------------------------------------------------------------------------
(* A behaviour is of one of the two: of the compiler cutting a rule, or of *)
(* a packet that is matched.                                               *)
OnePacket == CHOOSE d \in MCPackets : Len(d) = 1
OneRule   == CHOOSE r \in MCRules : TRUE

InitEither ==
  \/ Init /\ rule = OneRule /\ NotCompiling
  \/ /\ InitCompile
     /\ given = CHOOSE p \in MCCompiled : TRUE
     /\ data = OnePacket /\ walk = "file" /\ pc = "read"
     /\ state = 0 /\ offset = 0 /\ hit = NO_STATE /\ back = 0
     /\ active = [part \in Parts |-> NoEntries]

NextEither ==
  \/ phase = "idle" /\ Next /\ UNCHANGED compileVars
  \/ phase # "idle" /\ NextCompile /\ UNCHANGED vars

SpecEither == InitEither /\ [][NextEither]_<<vars, compileVars>>
=============================================================================
