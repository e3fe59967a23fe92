---------------------------- MODULE PrefixMatch ----------------------------
(***************************************************************************)
(* Matching with prefix DFAs (prefix_DFA.cpp, trace.cpp).  An expression   *)
(* was cut into a middle part, whose DFA finds candidates in a packet, a   *)
(* chain of DFAs for what follows it and a chain of DFAs, of reversed      *)
(* expressions, for what precedes it.  A node of a chain that accepts      *)
(* activates the next node of the chain for the symbols that come after;   *)
(* the packet matches when a node without next_node accepts.               *)
(*                                                                         *)
(* The code has this three times: prefix_DFA::match for a candidate found  *)
(* by the FPGA, and trace::traverse with its own pre_match over a file and *)
(* over a packet in memory.  They walk alike and differ in where a walk    *)
(* begins and ends; `walk' says which of the three runs.                   *)
(*                                                                         *)
(* One step handles one entry of the two lists of active DFAs and states,  *)
(* or one decision between two symbols.                                    *)
(***************************************************************************)
EXTENDS Automata

LOCAL INSTANCE SequencesExt

CONSTANTS Compiled, \* the prefix DFAs an instance looks at
          Packets   \* the packets it looks for them in

Walks == {"match", "file", "packet"}
Parts == {"pre", "post"}

(* prefix_dfa of a node.  Its dead_state should involve no progression,    *)
(* but may be any state or none: the compiler minimizes every DFA, which   *)
(* gives the states other numbers and leaves dead_state as it was.         *)
IsPrefixDfa(D) ==
  /\ D.size \in Nat \ {0}
  /\ D.table \in [StatesOf(D) -> [Symbols -> StatesOf(D)]]
  /\ D.accepted \in [StatesOf(D) -> SUBSET Rules]
  /\ D.dead_state \in Nat \cup {NO_STATE}

(* `imported': the DFAs were read by load_prefixDfas, not just compiled.   *)
ASSUME CompiledAssumption ==
  \A p \in Compiled :
    /\ IsPrefixDfa(p.mid)
    /\ \A part \in Parts :
         /\ p[part] \in Seq({p[part][j] : j \in DOMAIN p[part]})
         /\ \A j \in DOMAIN p[part] : IsPrefixDfa(p[part][j])
    /\ p.length \in Nat \ {0}
    /\ p.simplest \in BOOLEAN /\ p.imported \in BOOLEAN

ASSUME PacketAssumption == \A d \in Packets : d \in Seq(Symbols)

VARIABLES
  given,  \* the prefix DFA; never changes
  data,   \* packet->data; data[i + 1] is the symbol at offset i; never changes
  walk,   \* which of the three functions runs; never changes
  pc,     \* "read": traverse reads a symbol; "hit": the middle part accepted;
          \* "pre", "post": visiting the entries of a walk; "activate": the
          \* part before matched; "unmatched": it did not; "matched", "none":
          \* returned
  state,  \* of the DFA of the middle part
  offset, \* of the symbol the function is at
  hit,    \* the offset at which the middle part accepted last
  back,   \* the offset pre_match is at
  active  \* per walk: the list active_prefixDfas (nodes by their place in
          \* the chain), the list active_states, the iterators of both and
          \* the nodes to add after the symbol

vars == <<given, data, walk, pc, state, offset, hit, back, active>>

-----------------------------------------------------------------------------
(* The depth try_compile_single_mid stores with the middle part: extract   *)
(* counts its length, extract_simplest leaves the initial 0.               *)
Depth == IF given.simplest THEN 0 ELSE given.length

Accepts(D, s) == D.accepted[s] # {}

(* prefix_dfa of a node is not null.  serialize_prefixdfa and              *)
(* load_prefixDfas follow parent_node from the first node of the part      *)
(* before, where it is null, and so leave its other nodes without DFA.     *)
HasDfa(p, part, j) == p.imported /\ part = "pre" => j = 1

(* get_post_dfa and the last-node test.                                    *)
IsLast(p, part, j) == j = Len(p[part])

PostDfa(p, part, j) == IF HasDfa(p, part, j + 1) THEN <<j + 1>> ELSE <<>>

NoEntries == [prefixDfas |-> <<>>, states |-> <<>>,
              it_prefixdfa |-> 1, it_state |-> 1, add_post |-> <<>>]

FirstNode == [NoEntries EXCEPT !.prefixDfas = <<1>>, !.states = <<0>>]

(* A slip to compare with: the activated nodes go to the front of one list *)
(* and their states to the end of the other.                               *)
JoinedAtTheFront(w) ==
  [w EXCEPT !.prefixDfas = w.add_post \o @,
            !.states = @ \o [i \in DOMAIN w.add_post |-> 0],
            !.add_post = <<>>, !.it_prefixdfa = 1, !.it_state = 1]

(* The end of a symbol: the activated nodes join the lists in state 0 and  *)
(* the iterators return to the front.                                      *)
Joined(w) ==
  [w EXCEPT !.prefixDfas = @ \o w.add_post,
            !.states = @ \o [i \in DOMAIN w.add_post |-> 0],
            !.add_post = <<>>, !.it_prefixdfa = 1, !.it_state = 1]

(* The symbol a walk reads.                                                *)
SymbolAt(part) == data[1 + IF part = "pre" THEN back ELSE offset]

(* The entry under the iterators has moved to state t: it is erased from   *)
(* both lists if t is the dead state; erasing steps back before the step   *)
(* to the next entry.                                                      *)
Visited(w, D, t) ==
  IF t = D.dead_state
    THEN [w EXCEPT !.prefixDfas = RemoveAt(@, w.it_prefixdfa),
                   !.states = RemoveAt(@, w.it_state)]
    ELSE [w EXCEPT !.states[w.it_state] = t,
                   !.it_prefixdfa = @ + 1, !.it_state = @ + 1]

-----------------------------------------------------------------------------
(* Offsets at which the DFA of the middle part accepts.                    *)
Hits == {i \in 0 .. Len(data) - 1 :
           Accepts(given.mid, RunFrom(given.mid, 0, SubSeq(data, 1, i + 1)))}

(* The FPGA reports one hit to match; traverse looks for all of them.  The *)
(* compiler runs traverse over a file only, the runtime all three.         *)
Init ==
  /\ given \in Compiled
  /\ data \in Packets
  /\ walk \in IF given.imported THEN Walks ELSE {"file"}
  /\ IF walk = "match"
       THEN \E i \in Hits : offset = i /\ hit = i /\ pc = "hit"
       ELSE offset = 0 /\ hit = NO_STATE /\ pc = "read"
  /\ state = 0
  /\ back = 0
  /\ active = [part \in Parts |-> NoEntries]

(* traverse: one symbol for the middle part, which never stops looking.    *)
ReadSymbol ==
  /\ pc = "read"
  /\ offset < Len(data)
  /\ state' = given.mid.table[state][data[offset + 1]]
  /\ IF Accepts(given.mid, state')
       THEN pc' = "hit" /\ hit' = offset
       ELSE pc' = "post" /\ UNCHANGED hit
  /\ UNCHANGED <<given, data, walk, offset, back, active>>

EndOfData ==
  /\ pc = "read"
  /\ offset = Len(data)
  /\ pc' = "none"
  /\ UNCHANGED <<given, data, walk, state, offset, hit, back, active>>

(* pre_match without a part before, or with no room for it: the file       *)
(* version reports success when it cannot seek, the packet version does    *)
(* not enter its loop.  match tests one symbol less, so that its unsigned  *)
(* offset wraps around when the middle part begins the packet: it then     *)
(* reads far outside of the packet, with any outcome.                      *)
NothingBefore ==
  \/ given.pre = <<>>
  \/ walk = "file" /\ offset < Depth
  \/ walk = "match" /\ offset + 1 <= Depth

OutOfReach ==
  /\ given.pre # <<>>
  /\ \/ walk = "packet" /\ offset < Depth
     \/ walk = "match" /\ offset + 1 = Depth

EnterPre ==
  /\ pc = "hit"
  /\ given.pre # <<>> /\ offset >= Depth
  /\ pc' = "pre"
  /\ back' = offset - Depth
  /\ active' = [active EXCEPT !["pre"] = FirstNode]
  /\ UNCHANGED <<given, data, walk, state, offset, hit>>

SkipPre ==
  /\ pc = "hit"
  /\ \/ NothingBefore /\ pc' = "activate"
     \/ OutOfReach /\ pc' = "unmatched"
  /\ UNCHANGED <<given, data, walk, state, offset, hit, back, active>>

(* One entry of a walk, which ends the walk if its node is the last one    *)
(* and accepts.                                                            *)
Visit(part) ==
  LET w    == active[part]
      node == w.prefixDfas[w.it_prefixdfa]
      D    == given[part][node]
      t    == D.table[w.states[w.it_state]][SymbolAt(part)]
  IN /\ pc = part
     /\ w.it_state <= Len(w.states)
     /\ IF Accepts(D, t) /\ IsLast(given, part, node)
          THEN /\ pc' = IF part = "pre" THEN "activate" ELSE "matched"
               /\ active' = [active EXCEPT ![part] = NoEntries]
          ELSE /\ active' = [active EXCEPT ![part] =
                    LET more == IF Accepts(D, t) THEN PostDfa(given, part, node) ELSE <<>>
                    IN [Visited(w, D, t) EXCEPT !.add_post = @ \o more]]
               /\ UNCHANGED pc
     /\ UNCHANGED <<given, data, walk, state, offset, hit, back>>

AtEnd(part) == pc = part /\ active[part].it_state > Len(active[part].states)

(* A slip to compare with: the first symbol of the packet is not read.     *)
EndOfSymbolBeforeTooEarly ==
  /\ AtEnd("pre")
  /\ LET w == Joined(active["pre"])
     IN IF w.prefixDfas = <<>> \/ back <= 1
          THEN /\ pc' = "unmatched"
               /\ active' = [active EXCEPT !["pre"] = NoEntries]
               /\ UNCHANGED back
          ELSE /\ back' = back - 1
               /\ active' = [active EXCEPT !["pre"] = w]
               /\ UNCHANGED pc
  /\ UNCHANGED <<given, data, walk, state, offset, hit>>

EndOfSymbolBefore ==
  /\ AtEnd("pre")
  /\ LET w == Joined(active["pre"])
     IN IF w.prefixDfas = <<>> \/ back = 0
          THEN /\ pc' = "unmatched"
               /\ active' = [active EXCEPT !["pre"] = NoEntries]
               /\ UNCHANGED back
          ELSE /\ back' = back - 1
               /\ active' = [active EXCEPT !["pre"] = w]
               /\ UNCHANGED pc
  /\ UNCHANGED <<given, data, walk, state, offset, hit>>

(* match stops when nothing is active any more, traverse never does.       *)
EndOfSymbolAfter ==
  /\ AtEnd("post")
  /\ LET w == Joined(active["post"])
     IN /\ active' = [active EXCEPT !["post"] = w]
        /\ IF walk = "match" /\ (w.prefixDfas = <<>> \/ offset + 1 = Len(data))
             THEN pc' = "none" /\ UNCHANGED offset
             ELSE /\ pc' = IF walk = "match" THEN "post" ELSE "read"
                  /\ offset' = offset + 1
  /\ UNCHANGED <<given, data, walk, state, hit, back>>

(* The part before matched: the part after begins with the next symbol.    *)
Activate ==
  /\ pc = "activate"
  /\ IF given.post = <<>>
       THEN pc' = "matched" /\ UNCHANGED <<offset, active>>
       ELSE IF walk = "match"
         THEN /\ active' = [active EXCEPT !["post"] = FirstNode]
              /\ offset' = offset + 1
              /\ pc' = IF offset' < Len(data) THEN "post" ELSE "none"
         ELSE /\ active' = [active EXCEPT !["post"].add_post = <<1>>]
              /\ pc' = "post"
              /\ UNCHANGED offset
  /\ UNCHANGED <<given, data, walk, state, hit, back>>

NotMatchedBefore ==
  /\ pc = "unmatched"
  /\ pc' = IF walk = "match" THEN "none" ELSE "post"
  /\ UNCHANGED <<given, data, walk, state, offset, hit, back, active>>

Next ==
  \/ ReadSymbol
  \/ EndOfData
  \/ EnterPre
  \/ SkipPre
  \/ \E part \in Parts : Visit(part)
  \/ EndOfSymbolBefore
  \/ EndOfSymbolAfter
  \/ Activate
  \/ NotMatchedBefore

Spec == Init /\ [][Next]_vars

-----------------------------------------------------------------------------
(* Every variable has its type; a list never holds a node without DFA.     *)
TypeOK ==
  /\ given \in Compiled /\ data \in Packets /\ walk \in Walks
  /\ pc \in {"read", "hit", "pre", "post", "activate", "unmatched",
             "matched", "none"}
  /\ state \in StatesOf(given.mid)
  /\ offset \in 0 .. Len(data)
  /\ hit \in {NO_STATE} \cup Hits
  /\ back \in 0 .. Len(data)
  /\ \A part \in Parts :
       LET w == active[part]
       IN /\ Len(w.prefixDfas) = Len(w.states)
          /\ w.it_prefixdfa = w.it_state
          /\ \A i \in DOMAIN w.states :
               /\ HasDfa(given, part, w.prefixDfas[i])
               /\ w.states[i] \in StatesOf(given[part][w.prefixDfas[i]])

-----------------------------------------------------------------------------
(***************************************************************************)
(* What a walk over a word should find, without lists or iterators.        *)
(***************************************************************************)
(* No symbol of w has led to the state in which the DFA is given up; and   *)
(* it accepts with the last one, until when it was not given up.           *)
Lasts(D, w) ==
  \A k \in 1 .. Len(w) : RunFrom(D, 0, SubSeq(w, 1, k)) # D.dead_state

Takes(D, w) == Lasts(D, SubSeq(w, 1, Len(w) - 1)) /\ Accepts(D, RunFrom(D, 0, w))

(* Node j of the chain begins to read after the first i symbols of w, for  *)
(* every i of the set, if node 1 begins where `starts' says.               *)
Births(p, part, w, starts) ==
  LET b[j \in DOMAIN p[part]] ==
        IF j = 1 THEN starts
        ELSE IF ~HasDfa(p, part, j) THEN {}
        ELSE LET before == b[j - 1]
             IN {k \in 1 .. Len(w) :
                   \E i \in before :
                     i < k /\ Takes(p[part][j - 1], SubSeq(w, i + 1, k))}
  IN b

(* Some way to cut w, from one of the starts on, into one word of every    *)
(* node of the chain and a rest.                                           *)
ChainMatches(p, part, w, starts) ==
  LET n == Len(p[part])
  IN \E i \in Births(p, part, w, starts)[n] : \E k \in i + 1 .. Len(w) :
        Takes(p[part][n], SubSeq(w, i + 1, k))

(* The nodes and states the lists should hold after the word w.            *)
Living(p, part, w, starts) ==
  LET b == Births(p, part, w, starts)
      Rest(i) == SubSeq(w, i + 1, Len(w))
  IN UNION {{<<j, RunFrom(p[part][j], 0, Rest(i))>> :
               i \in {x \in b[j] : Lasts(p[part][j], Rest(x))}} :
             j \in DOMAIN p[part]}

Listed(w) == {<<w.prefixDfas[i], w.states[i]>> : i \in DOMAIN w.states}

(* What pre_match can answer for a hit at offset h.                        *)
MayPrecede(h) ==
  \/ given.pre = <<>>
  \/ walk = "file" /\ h < Depth
  \/ walk = "match" /\ h + 1 <= Depth
  \/ h >= Depth /\ ChainMatches(given, "pre", Reverse(SubSeq(data, 1, h - Depth + 1)), {0})

(* The two lists stay in step whatever is erased and added while they are  *)
(* walked: between symbols they hold, for both walks, exactly the nodes    *)
(* that some way to cut the symbols read so far has reached, each in the   *)
(* state its DFA is in, without those that came to dead_state.             *)
EntriesAreLiveCuts ==
  /\ TypeOK
  /\ AtEnd("pre") =>
       Listed(Joined(active["pre"])) =
         Living(given, "pre", Reverse(SubSeq(data, back + 1, hit - Depth + 1)), {0})
  /\ walk = "match" /\ AtEnd("post") =>
       Listed(Joined(active["post"])) =
         Living(given, "post", SubSeq(data, hit + 2, offset + 1), {0})
  /\ walk # "match" /\ given.post # <<>> /\ AtEnd("post") =>
       Listed(Joined(active["post"])) =
         Living(given, "post", SubSeq(data, 1, offset + 1),
                {h + 1 : h \in {x \in Hits : x <= offset /\ MayPrecede(x)}})

(* What comes after a hit at offset h matches.                             *)
MayFollow(h) ==
  given.post = <<>> \/ ChainMatches(given, "post", SubSeq(data, h + 2, Len(data)), {0})

(* match calls back, and traverse stops at its first match, only when the  *)
(* packet can be cut at a hit into a part before and a part after that     *)
(* both match; and they miss no packet that can be.                        *)
MatchedIffCut ==
  /\ pc = "matched" =>
       IF walk = "match" THEN MayPrecede(hit) /\ MayFollow(hit)
       ELSE \E h \in Hits : h <= offset /\ MayPrecede(h) /\ MayFollow(h)
  /\ pc = "none" =>
       IF walk = "match"
         THEN ~(MayPrecede(hit) /\ MayFollow(hit)) \/ (given.pre # <<>> /\ hit + 1 = Depth)
         ELSE \A h \in Hits : ~(MayPrecede(h) /\ MayFollow(h))
=============================================================================
