# Becchi's regular expression processor: specification and checks

This directory holds a TLA+ development of the automata code of this
repository: models of its components, model-checking configurations, and
proofs. The program turns files of regular expressions into NFAs, these into
DFAs, minimizes, merges and compresses the DFAs, and runs network packets
through them; a later part cuts expressions into a middle part for an FPGA and
chains of DFAs around it.

Everything depends on one promise: **whatever representation an expression is
transformed into, the same rules are reported at the same positions of the
input.** Most of the code is sequential. What makes it hard is not concurrency
but long chains of operations on shared mutable structures: numbers of states
that become stale, pairs of lists that must stay in step, pointers that are
only kept up to date at the ends of a machine, arrays that are read before they
are written, files and memory images that are written in one pass and read in
another. Only the hierarchical merge is parallel.

Contents: [inventory](#inventory) · [modules](#modules) · [how the models
correspond to the code](#how-the-models-correspond-to-the-code) ·
[runs](#runs) · [bounds](#bounds) · [fairness](#fairness) · [proofs](#proofs) ·
[findings](#findings) · [what is not modelled](#what-is-not-modelled) ·
[plan](#plan)

## Inventory

Status: **m** modelled, **p** partly, **–** not modelled.

| component (source) | state it keeps | operations | what must hold | |
|---|---|---|---|---|
| Parser (`parser.cpp`) | position in the expression, the machine built so far, the atom a repetition waits for, the call stack of `parse_re` | `parse`, `parse_re` (a file, an expression), escapes, ranges, quantifiers | the NFA means what the expression means; rules keep their numbers; `^` and the i and m modifiers | p |
| NFA operations (`nfa.cpp`) | objects with labeled and epsilon transitions and the pointers `first`, `last` | `add_transition`, `link`, `make_rep`, `make_or`, `make_dup` | no deleted object in use; the pointers lead to the ends of the machine after any sequence of operations | p |
| NFA reduction (`nfa.cpp`, `dave_nfa.cpp`) | the same objects, a queue of subsets | `remove_epsilon`, `remove_duplicates`, `reduce`, `transform` | reports stay; what is deleted is reached from nowhere | p |
| Subset construction (`nfa.cpp`, `dave_subset.cpp`) | DFA table, subset lookup, two queues, the run-length cache | `nfa2dfa` | a powerset construction; NULL exactly above the cap | m |
| Minimization (`dfa.cpp`, `linked_set.cpp`) | partition, work list of pairs, arrays that link both | `minimize` | the coarsest stable partition, whatever the order of the list; the table rebuilt in place | m |
| Merge of DFAs (`hierarMerging.cpp`) | tuple lookup, two queues, merged table, border, dead state | `dfas_merge`, `dfas_merge_improve` | the union of what the DFAs report; borders inherited | m |
| Hierarchical merging (`hierarMerging.cpp`) | shared lists of NFAs and DFAs, counters of a round | `hm_dfalist2dfa`, `hm_nfa2dfa`, OpenMP iterations with critical sections | no DFA lost or merged twice; as few rounds as possible | m |
| Default transitions (`dfa.cpp`, `trace.cpp`) | `depth`, `dt_length`, `default_tx`, `labeled_tx` | `fast_compression_algorithm`, `lookup`, `put`, `get`, `traverse_compressed` | lookups end, lead where the table leads, and cost (k+1)/k per symbol | m |
| D2FA, CD2FA (`dfa.cpp`, `wgraph.cpp`, `partition.cpp`, `dheap.cpp`) | space reduction graph, forest, union-find, heap, `distance` | `D2FA`, `kruskal`, `update_distance`, `CD2FA` | a forest, and labels that agree with it | p |
| Renumbering and PFAC (`dfa.cpp`, `trace.cpp`) | `max_accept_state`, `dead_state`, the permuted table, four lanes and one counter of offsets | `renumber`, both PFAC traversals | every match of every offset that is begun counted once | m |
| Hybrid automata (`hybrid_fa.cpp`, `subset.cpp`, `hfadump.cpp`) | head DFA, border map to tail NFA states, the memory dumped | both constructors, `minimize`, traversal, `dumpmem`, `mem_search_hfa` | head and tails report what the NFA reports; the memory read is the automaton | p |
| Prefix DFAs (`prefix_DFA.cpp`, `trace.cpp`) | two parallel lists of active DFAs and states per walk | `match`, both `pre_match`, both `traverse` | a packet matches exactly when it can be cut at a hit | p |
| Fallback automata (`Fb_DFA.cpp`, `Fb_NFA.cpp`, `main_fpga_2.cpp`, `runtime_fpga.cpp`) | automata over half bytes, groups that share a block, images of the blocks, mapping | `minimise2`, `minimise`, `converge`, `greedy_group`, `to_BRAM`, `load_mapping`, `load_fpga_stt` | the blocks report every expression where it ends, once | m |
| Runtime (`runtime_fpga.cpp`, `parse_pcap.h`) | packets, prefix DFAs and tables read from files | `load_prefixDfas`, `load_mapping`, `process_one_prefix_match` | what is written is what is read | p |
| Memory layouts, cache (`fa_memory.cpp`, `dfas_memory.cpp`, `cache.cpp`, `trace.cpp`) | addresses of states, lines in the cache, hits and misses | three layouts, the reads of a symbol, `cache::read`, three traversals | a read stays in the block of its state; a line is in its set once | m |
| Encodings (`ecdfa`, `ecdfab`, `rcdfa`, `bitdfa`, `rledfa`, `orledfa`, `mdfa`, `nmdfa`) | compressed rows, of six types | `forOneState`, `getNext`, `match`, `getMemSize`, destructors | `getNext` equals the table; memory counted and freed | p |
| Component tree (`component_tree/`, `main_fpga_2.cpp`) | trees of components whose bounds change while they are cut, texts of the parts, lists of split alternatives | parse, `decompose`, `extract`, `extract_simplest`, `reverse_re`, `compile` | the parts make up the rule; a middle part has the length stored with it; a reversed part matches reversed words | p |
| Containers (`linked_set`, `int_set`, `set`, `c_type`, `partition`, `dheap`, `wgraph`) | sets, lists, heap | | what their users need is in the users' models | – |
| Drivers (`main.cpp`, `main_fpga_2.cpp`, `becchi.cpp`, `test_dave.cpp`) | | the order of the calls | | – |

**How they interact.** All components are in one process and call one another;
there are no messages and no recovery. The usual path, in `main.cpp`, is
`parse → nfa2dfa → minimize → hm_dfalist2dfa` (which calls `dfas_merge_improve`
and `minimize` again) `→ renumber → put` or a traversal. The path of the FPGA
compiler is `decompose → parse → nfa2dfa → minimize → Fb_DFA → minimise2 →
converge → to_BRAM` for every part, files, then `load_mapping`,
`load_fpga_stt`, `load_prefixDfas → match`. The hybrid automaton begins with an
NFA without epsilon transitions, and its list constructor calls
`hm_dfalist2dfa` on the heads. What a component leaves is therefore what the next
one begins with, and the interesting states are the fields a component does
*not* bring up to date: `dead_state` and `labeled_tx` after `minimize`, the keys
of the border map after a minimization, the start state of a block, the pointers inside of a machine after
`link`.

**Which behaviours are hard.** In order of how much depends on them: (1)
operations on machines with loops at either end, copied, linked and skipped in
any order; (2) work-list algorithms whose result must not depend on the order
(minimize) or must end although they feed themselves (nfa2dfa, the merge,
minimize); (3) lists walked in parallel while both change (prefix DFAs, the
queues of nfa2dfa and of the merge); (4) results for runs of symbols cached
for one state and used for a set of states; (5) the critical sections of the
parallel merge; (6) memory that is read before it is written (`dt_length`,
index `NO_STATE`); (7) limits: the cap on DFA states, the default path bound,
the states of a block; (8) formats that are written by one function and read by
another, which knows them by offsets, masks and casts. There are no timeouts, retries, messages or crashes to recover
from in this code. `PROJECT.json` lists the hazards line by line.

## Modules

| module | models | checked by | proved in |
|---|---|---|---|
| `Automata` | NFAs and DFAs as values, closure, moves, runs, quotient, equivalence | all | lemmas, `Automata_proofs` |
| `NfaHeap` | NFA objects and the operations that build them | `RegexParser` | |
| `RegexParser` | `regex_parser::parse` and `parse_re` | `MCRegexParser` | |
| `Regex` | reference: words and tokens of expression trees (models no code) | `MCRegexParser` | |
| `NfaReduce` | `remove_epsilon`, `remove_duplicates`, `reduce`, `transform`; extends `RegexParser` | `MCRegexParser` | |
| `NfaToDfa` | `NFA::nfa2dfa` | `MCNfaToDfa` | `NfaToDfa_proofs` |
| `Powerset` | abstract specification: the textbook powerset construction | through `NfaToDfa` | refinement, `NfaToDfa_proofs` |
| `Hopcroft` | `DFA::minimize` | `MCHopcroft` | `Hopcroft_proofs` |
| `Pfac` | `DFA::renumber` and the PFAC traversals; extends `Hopcroft` | `MCHopcroft` | `Hopcroft_proofs` |
| `DfaMerge` | `dfas_merge_improve` | `MCDfaMerge` | `DfaMerge_proofs` |
| `HierarMerge` | `hm_dfalist2dfa`, `hm_nfa2dfa` and their parallel iterations | itself | `DfaMerge_proofs` |
| `DefaultTx` | compression by depth, `lookup`, `put`, `get`, `traverse_compressed` | through `D2fa` | `D2fa_proofs` |
| `D2fa` | `DFA::D2FA`, `kruskal`, `update_distance`; extends `DefaultTx` | `MCD2fa` | `D2fa_proofs` |
| `ComponentTree` | how the FPGA compiler cuts a rule: `decompose`, `extract`, `extract_simplest`, `reverse_re`, `compile` | `MCPrefixMatch` | |
| `PrefixMatch` | `prefix_DFA::match`, `pre_match`, `trace::traverse` over prefix DFAs | `MCPrefixMatch` | `PrefixMatch_proofs` |
| `Encodings` | the compact forms of a table: encoding, lookup, size, destruction | `MCEncodings` | |
| `HybridFa` | both constructors, `minimize` (an instance of `Hopcroft`), traversal, dump and search | `MCHybridFa` | `HybridFa_proofs` |
| `Memory` | `fa_memory`, `dfas_memory`, `cache` and the traversals over them | `MCMemory` | `Memory_proofs` |
| `FbDfa` | the FPGA tool chain from minimized DFAs to loaded blocks, and what is read in them | `MCMemory` | `Memory_proofs` |
| `FbMinimise` | the other minimizations of the tool chain, compared with `minimise2`; extends `FbDfa` | `MCMemory` | |

`RegexParser` composes the parser with `NfaHeap`, `NfaReduce` adds what is done
with the heap it leaves; `Pfac` goes on where `Hopcroft` ends; `D2fa` composes
the forest with `DefaultTx`; `HybridFa` takes the actions of `Hopcroft` for its
own copy of minimize, on labels that say what a state accepts and borders on;
`NfaToDfa` implements `Powerset` under a refinement mapping. `HierarMerge`
abstracts the merge that `DfaMerge` models to the set of original DFAs a merged
one stands for, and `HybridFa` uses what the two leave as operators. `MCMemory`
checks `Memory` and `FbDfa` side by side: a behaviour is of one or the other; so
does `MCPrefixMatch` with `PrefixMatch` and `ComponentTree`.

## How the models correspond to the code

Variables carry the names of the code. One action is one pass through the loop
it is named after, and sequential code has a `pc` with the loops as values.

**NfaHeap, RegexParser.** A heap is a sequence of nodes. Every method of `NFA`
that the parser calls is an operator from a heap to a heap and the pointer it
returns; `link`, `make_rep` with its six cases, `make_or` and `dup_state` are
statement for statement the code, with the order of the epsilon lists kept,
because copies depend on it. The recursion of `parse_re` is the stack `frames`;
the local variables `fa`, `to_link`, `open_b`, `close_b` are fields of a frame.
The characters of a line are abstracted to tokens with the set of symbols that
`process_escape` and `process_range` compute. Labeled transitions are kept in
a set ordered by address in the code: `CopiesAreDetermined` says why the order
does not matter. `get_last` on a circle of pointers does not return; the model
records it as `endless` and stops.

**NfaReduce.** `RemoveEpsilon` is one step; `AbsorbDuplicates` is one pass of
`remove_duplicates` over a state, in any order of the states and of their
targets, since both are ordered by address; `sizes` keeps that a redirected pair
stays in its set. `reduce` and `transform` share the loop over subsets, with
the targets split into what all symbols have in common, what lies in the subset
itself, and the rest. What is deleted at the end is a step of its own, and
`NothingDeletedIsInUse` is about what is still reached then.

**NfaToDfa.** `Dequeue` pops the two queues, `FollowKnown` and `CreateState` are
the two branches of the loop over symbols (a found subset, a new one),
`EndOfState` ends that loop, `GiveUp` is the return of NULL at the cap and
`Return` the other return. The run of symbols that are filled in at once is
chosen by `LengthWithSameTarget`, the minimum of `get_length_same_target` over
the states of the subset: any run that the cache allows.

**Hopcroft, Pfac.** `Group` is the grouping by accepted rules, `Split` takes one
pair from the work list L with all the splits it causes, `EmptyWorkList` ends
the loop over L, and `Rebuild` is the loop that writes the kept rows to their
new places. Any pair of L may be picked: the list order of the code is one of
these orders. The error state 0 of the algorithm is `NO_STATE` here. The linked
arrays are the sets and the list they implement. `Renumber` works on what
`Rebuild` leaves, with the `dead_state` that minimize did not bring up to date;
a turn of a lane of a PFAC traversal is one step.

**DfaMerge.** As NfaToDfa, with tuples of states instead of subsets and
segments of symbols, as long as the shortest run of equal targets over all
DFAs, instead of runs.

**HierarMerge.** An iteration is a process: it takes DFAs one by one inside of
the critical section (`Take`, `StopTaking`), merges them outside and pushes
the result (`MergeAndPush`); the barrier of the loop is the guard of
`NextRound`. Before the rounds `hm_nfa2dfa` takes and compiles its NFAs in
parallel (`TakeNfa`, `CompileAndPush`). The default build does not enable OpenMP; the sequential order is
one of the interleavings.

**DefaultTx, D2fa.** `FallTo`, `OneInCommon` and `NoCandidate` are the outcomes
of one pass over the candidates for a state. `dt_length` begins with any value
of `Garbage`, the entry read at index `NO_STATE` is any of them too. One call of
`lookup` is one step, so its recursion can be watched. `D2fa` does `kruskal`
edge by edge, with `update_distance` as the recursive walk over edge numbers
that the code does, including its comparison of numbers of two different
graphs.

**ComponentTree.** A component is a record, and a text is the sequence of the
components that `parse` makes of it, so printing and parsing again is one
operator, `get_re_part`, with what it drops (`{0}`, brackets, leading empty
alternatives). `decompose` is one recursive operator per class that answers
whether the component was decomposed, the component as it is left, and the record
`d` of all that the code passes by reference or keeps in globals. `Pass` is the
loop over the children of a sequence, done a second time after the roll-back;
`SplitAlternatives` is the loop that steps back with `it--`. Probabilities are kept
as -log2 and classes have one, two or four symbols of four, standing for 1, 16
and 256 of 256, so that every comparison with a threshold comes out as in the
code. The state machine is `compile` for one rule: `CompilePrefix` is a turn of the
loop of `compile_single_to_lis`, whose DFA has any size, `TrySimplest` and
`TryMiddle` are the two calls of `try_compile_single_mid`. `lost` collects the
places where the code is known to lose or repeat a part.

**PrefixMatch.** One step handles one entry of the two parallel lists or one
decision between two symbols. `walk` says which of the three copies of the
algorithm runs (`match`, `traverse` over a file, `traverse` over a packet).
`HasDfa` says which nodes have a DFA after `load_prefixDfas`, `Depth` what the
compiler stores. The `dead_state` of a DFA may be any number: the compiler
minimizes every DFA, which leaves it stale. The reference definitions of the
properties (`Takes`, `Births`, `Living`, `ChainMatches`) know neither lists nor
iterators; they give a node up where its DFA comes to the number in
`dead_state`, and `DeadStatesLoseNothing` proves that this makes no difference
where the number is right.

**Encodings.** `EncodeState` is `forOneState` for one row, `LookUp` one call of
`getNext` within `match` or `traverse`. What all classes share (the ranges that
the scan sees to their end) is one operator; each class adds what it makes of
the ranges. A pointer cast to the wrong structure answers with any state.
`heap` holds the allocated objects with their sizes, for `getMemSize` and the
destructors. `ref` follows the table, `misled` says that a lookup met one of the
places where the code is known to lose the target.

**HybridFa.** `ProcessState` is one pass of the loop of `nfa2dfa_withborder`,
`NextNfa` the loop of the list constructor, `MergeHeads` the call of
`hm_dfalist2dfa`. A traversal reads any symbols, with the active states of the
NFA as a history variable next to it. The dump is laid out address by address,
offsets counted in one pass and lists written in another, and the search knows
nothing but the memory.

**Memory.** A layout gives every state an address and a block; `Accesses` lists
the addresses a symbol reads, with the arithmetic of the masks (a signed shift)
as it is. `ReadAddress` is one call of `cache::read`, whose random eviction is
any way of the set. `ReadDirectly` is the access to `cache_stats` that lies
outside of the array.

**FbDfa.** `Compile` is `Fb_DFA(DFA)`, `minimise2` and `bram_compatible` for
every expression, and the sort; `Converge` is one call of `converge` with all
its refusals; `ToBram` writes one block; `LoadMapping` and `LoadStt` are the
runtime. How the hardware reads a block is external, taken from the
format that `to_BRAM` writes and the keys `process_one_prefix_match` looks up:
`ReadByte` reads a byte as two halves in every block of one copy, `words` has what
was read last, `states` where the DFAs of the expressions are, and `Reports` is
what the runtime finds under the keys. `minimise` (two reversals) and
`minimize_do_not_dis_accept` are in `FbMinimise`; the code uses them for nothing
but comparison, and so does the model.

## Runs

| run | module, configuration | distinct states | what it shows |
|---|---|---|---|
| `regex_parser` | MCRegexParser, RegexParser.cfg | 56,645 | expressions and rule files become an NFA that means what they mean, and stays so when it is reduced or transformed |
| `nfa2dfa` | MCNfaToDfa, NfaToDfa.cfg | 18,856 | the optimised construction is a powerset construction; NULL exactly above the cap |
| `hopcroft` | MCHopcroft, Hopcroft.cfg | 115,462 | the minimal automaton for every order of the work list; renumbered and traversed, every match of every offset begun counted once |
| `dfa_merge` | MCDfaMerge, DfaMerge.cfg | 26,091 | rules and borders of all DFAs, dead states kept dead |
| `hier_merge` | HierarMerge, HierarMerge.cfg | 405,293 | no NFA or DFA lost or merged twice in any interleaving |
| `compression` | MCD2fa, Compression.cfg | 191,844 | both compressions, export, import and lookup |
| `prefix_match` | MCPrefixMatch, PrefixMatch.cfg | 225,244 | a match is found exactly when a packet can be cut at a hit; the parts a rule is cut into make up the rule |
| `encodings` | MCEncodings, Encodings.cfg | 89,589 | the compact forms answer as the table does, but for places that are named; their memory is counted and freed |
| `hybrid` | MCHybridFa, HybridFa.cfg | 11,577 | head and tails record what the NFA does, minimized or not; the memory dumped is the automaton |
| `memory` | MCMemory, Memory.cfg | 227,622 | what is written into a memory is followed by its reader: three layouts, the cache, and the blocks of the FPGA |
| `skipped_loops` | MCRegexParser, RegexRepetition.cfg | violation | see findings |
| `hybrid_list` | MCHybridFa, HybridBorder.cfg | violation | see findings |

The properties, by the question they answer:

* *Same rules?* `RecognizesTheFile` (parser, reduction and transformation
  against the meaning of the expressions), `SameRulesOnShortWords` (DFA against
  the NFA traversal), `ResultIsMinimal`, `ReportsEveryRuleOfShortWords`,
  `FollowsWholeDfa`, `ImportRestoresExport`, `MatchedIffCut`,
  `MatchesAreCounted`, `ReportsTheRules`, `SearchFollowsTheAutomaton`,
  `LookupsAnswerTheTable`, `MemoryTraversalReportsTheRules`, `ReducedIsMinimal`,
  `FpgaReportsTheRules`, and the refinement `BuildsPowerset`.
* *Does the bookkeeping stay in step?* `QueuesInStep`, `TransitionsFollowMoves`,
  `TuplesFollowComponents`, `InheritsEveryBorderOnShortWords`,
  `DeadStateStaysDead`, `EntriesAreLiveCuts`, `ForestAgreesWithPartition`,
  `PointersMeet`, `CopiesAreDetermined`, `SubsetsAreOld`,
  `NothingDeletedIsInUse`, `EveryRuleInOnePlace`, `NoEmptyBlocks`,
  `CutAsPromised` (the parts of a rule against the tree they were cut from).
* *Is less work, or less memory, enough?* `DisagreementIsPending` (only the
  smaller half goes back to the list), `AmortizedTraversals`, `BoundOnPaths`,
  `NullIffTooLarge`, `SizeIsWhatIsUsed`, `AccessesStayInTheBlock`,
  `MissesAreFirstReadsOrEvictions`.
* *Does it end?* `Returns`, `Terminates` (of `Hopcroft` and of `HierarMerge`),
  `LookupAnswers`.

Every property of a passing run has a slip of the code next to it, a variant of
an operator that it must catch ("A slip to compare with"): runs filled in for
the longest instead of the shortest state, a work list that forgets the twin of
a pair, a critical section left too early, a border that starts the tails anew,
the old number of a state written into a block.

Some properties name the places where the code does not do what one would
expect, and hold everywhere else: `MatchesAreCounted` (a stale `dead_state`, and offsets that four lanes
leave over),
`LookupsAnswerTheTable` (`Misses`), `SizeIsWhatIsUsed` (the two leaks),
`AccessesStayInTheBlock` (`Overrun`), `ReducedIsMinimal` (an automaton that
accepts nothing), `FpgaReportsTheRules` (the mapping that is written, and the
start state that no file holds), `CutAsPromised` (`lost`). The places are listed under
[findings](#findings).

## Bounds

* `nfa2dfa`: three symbols, so that runs of length one, two and three occur;
  every NFA of two states with at most one target per symbol and optional
  epsilon moves, and NFAs of three states with the row shapes the parser
  builds; a cap of four DFA states, which some of them exceed; words of up to
  four symbols, more than a DFA below the cap needs to tell two states apart.
* `hopcroft`: two symbols; every table of up to three states in the order
  nfa2dfa numbers them, with three different sets of rules, and shaped tables
  of four and five states, where the smaller half matters and where the dead
  state is met before or after the accepting one. Those with a dead state are
  renumbered and traversed, over inputs of two and five symbols, fewer and more
  than the four lanes, and one of nine, over which all lanes come to the end in
  one turn and leave the last offset over.
* `dfa_merge`: three symbols; lists of one to three DFAs, one of them with any
  two-state table, the others with and without dead state and border.
* `hier_merge`: seven DFAs or NFAs, two at a time: rounds of 4, 2 and 1 groups,
  with odd remainders.
* `compression`: three symbols, DFAs of four and five states; k 1 and 2; no
  bound, 1 and 2; uninitialised lengths -1 and 7, below and above every bound;
  inputs of two symbols. D2FA is called on DFAs of at most four states
  (`MAX_FOREST`), with a diameter of 2 and one weight per pass (`DECREMENT`).
* `prefix_match`: two symbols, packets of up to five; middle parts of one and
  two symbols; chains of none, of one DFA, with a right and with a stale
  `dead_state`, and of three, on either side. The other behaviours cut
  14 rules, each with and without `^`, that take every branch of the cutting; a
  prefix may turn out to have any size, so every smaller threshold is tried. The
  constants of `Component.h` and `main_fpga_2.cpp` have their values. 103 of 128
  outcomes meet none of the places in `lost`, some with chains on both sides, with
  a cut inside of a repetition or with split alternatives.
* `regex_parser`: three symbols (both cases of a letter and a newline); files of
  one anchored line with any of the expression trees up to depth three
  over the repetitions `?`, `*`, `+`, `{2}`, `{0,2}`, `{1,2}`, `{2,3}`, `{1,3}`,
  `{0,3}`, `{2,4}`, `{2,}`, two lines with every combination of anchors and
  modifiers, and rejected quantifiers; words of up to four symbols. Expressions
  whose loops would be skipped over or copied are left out of this run, by
  `Supported`; `skipped_loops` is about the first kind. The NFAs of single lines
  that do not begin with a loop and of two lines with the m modifier are
  reduced and transformed (`Reduced`).
* `encodings`: five symbols; every row with up to three targets other than 0,
  numbered as they occur, and its rotations as the rows of the other states. One
  range per target (`MANY_RANGES`) and one byte of bitmap (`CHAR_BIRMAP_SIZE`)
  are enough for all six types to occur; symbols from `FIRST_NEGATIVE` on are
  negative as chars; three symbols are read.
* `hybrid`, `hybrid_list`: two symbols; 64 NFAs of four states, chains with
  loops, dot-stars and ways back; `SPECIAL_DEPTH` 2, `SPECIAL_MIN_DEPTH` 1 and
  `MAX_TX` 2 so that states are special for each reason; pairs of NFAs for the
  list constructor, with heads of at most 3 states kept in `hybrid` (some are
  not) and of any size in `hybrid_list`. Inputs are not bounded: the automata
  are finite, and every input is covered.
* `memory`: four symbols, two to a bitmap (`BYTE`) and one second-level bitmap
  to a word (`PER_WORD`); DFAs of two states, alone and in pairs, NFAs of three
  states with and without epsilon transitions; five layouts with thresholds;
  caches of one and two sets of two ways; two symbols read. For FbDfa: bytes of
  two base-3 digits; blocks of 11 states, 3 of them with many targets; lists of
  up to three expressions; three units of two blocks each. Every reason for
  which `converge` refuses a pair occurs, and so do both crashes; inputs are
  not bounded.

`MAX_INPUTS`, `MAX_FOREST`, `LongestWord`, `LongestPacket` and `Inputs` bound
only the models; `MAX_DFA_SIZE`, `bound`, `diameter`, `k`, `SPECIAL_DEPTH`,
`MAX_HEAD`, `MAX_STATES_NUMBER` and the like are the code's own parameters.
Deadlock is checked where the system cannot stop (`regex_parser`, which ends in
an explicit self-loop); the other systems end.

## Fairness

A function that is called runs on: `NfaToDfa` assumes `WF_vars(Next)`, `Pfac`
`WF_allVars(Minimize)`, which is the same for `minimize` and obliges nobody to
renumber or to traverse. `HierarMerge` assumes it of the whole parallel loop,
with no fairness between iterations: each can take only so many steps in a
round. `DefaultTx` assumes `WF_vars(FollowLabel \/ FallBack)` only: a lookup
that was called goes on, but nothing obliges anyone to call one, to export or
to import. The other modules state no fairness and have no liveness property.
That the parser ends shows as the absence of deadlock in a finite graph without
cycles.

## Proofs

Each proof module is about every alphabet, every automaton the assumptions of
the model admit and every value of the parameters. An invariant that is proved
has been checked by TLC first, on the instance of the run.

**Words of any length.** Most of what matters here is about words: a DFA
reports after every word what an NFA does. The provers have no induction over
data, but the least element of a non-empty set of naturals is a fact they can
use, so a proof looks at the first place where two runs differ, or where a
walk leaves an invariant, and refutes it. `Automata_proofs` does this once for
each recursive function of `Automata`: `RunFrom` and `ActiveSet` are the
last of a sequence of steps (`RunFromIsRun`), a run over one symbol more is the
run and a step (`RunFromGrows`), a closure is a closure. `EquivalentPairs` drops pairs
of states in passes; that as many passes as there are states are enough
(`EquivalenceIsABisimulation`) is a count: a pass that drops a pair makes a class
more (`FinerHasMoreClasses`), and there are no more classes than states. The
quotient keeps a state of each class, in order; what it accepts and where it goes is what
the given automaton does (`QuotientFollows`), so it reports the same rules after
every word (`QuotientHasSameRules`), and no two of its states are equivalent
(`QuotientIsReduced`).

**nfa2dfa.** `TransitionsFollowMoves` is not inductive: a run is written to the
row of `state` with the moves of `cl_state`, so these must belong together, and
so must everything in the queues. The inductive invariant is `TypeOK`,
`QueuesInStep` and `TransitionsFollowMoves` over an NFA of `Nfas`. Proved from
it: `TypeCorrect`, `QueuesStayInStep`, `TransitionsAreMoves`. With `Progress`
(what has been dequeued is filled in up to the symbol the loop is at, what is
queued is not) also `ReturnedDfaIsComplete`, and `ImplementsPowerset`: each step
of the code is a step of `Powerset` or a stutter. The lemma `RunMovesTogether`
is where the minimum over the states of the subset matters. What the
powerset labels say of a single state, a run over the DFA says of every word
(`SameRulesOnEveryWord`, of which `SameRulesOnShortWords` is an instance).
`NullExactlyIfTooLarge` counts: the labels are distinct reachable subsets, so a
DFA at the cap with a subset to come means too many, and a finished one has
them all, because the reachable subsets are the least set closed under moves.
The assumption is `NfaAssumption`: NFAs over a finite set `NfaStates` with the
root among them.

**dfas_merge_improve.** `TuplesFollowComponents` is extended by what holds of a
tuple while it waits and after (`RulesFollow`, `BordersFollow`: nothing but what
its components have, and all of it once it has left the queue), by the rows
written so far, and by `DeadFollows`, the dead state as that of the tuple of all dead
states. Then a run over the merged DFA is at the tuple of the runs over its
components, whatever the word: `ReportsEveryRuleOfEveryWord`,
`InheritsEveryBorderOfEveryWord` (but for the border of the entry state, which the
code does not collect), `DeadStateIsDead`, and what the run checks as instances.

**Default transitions and D2FA.** One invariant for both algorithms, in any
order, with export, import and lookups between. `FollowsWholeDfa` rests on
`LabelsAgree` (a label is a transition of the automaton, and what a settled state
does not label its default state does alike) and `LookupOnTheWay` (a lookup is on
a state that makes the same transition). The time bound is a potential
(`DepthPays`): `k * accesses + depth[state] <= (k + 1) * inputs`, since a default
transition gives up `k` levels of depth and a symbol gains one at most. That
the depth is a number at all is `DepthUnique`: the equations of `IsDepth`
have one solution. The path bound is `PathsMeasured`, where `dt_length` is the
length of a path through states already compressed; it needs that states
are numbered by depth, or else the candidates for a default state would not
have been compressed yet. `DfasAssumption` says so, as nfa2dfa and the merge number states
by a queue.
Proved: `CompressionIsTransparent`, `TraversalsArePaidFor`, `PathsAreBounded`,
`ImportInvertsExport`. None of them needs the forest: the labels are right
whatever it is.

Kruskal has an invariant of its own, `KruskalInv`: the edges of the forest are
bridges (without any of them its ends are not connected: `IsForest`), the sets of
the partition are its trees (`AreTrees`), a state joined is a set less, and from
every state some state is at least as many edges away as `distance` says
(`FarFrom`). It speaks of walks, which may stay where they are; `DistancesAreWalks`
shows that the ball D2FA grows for as many rounds as there are states finds
all of them, and the shortest. The step that matters is `JoinTreesKeepsKruskalInv`:
a walk over an edge that joins two trees stays as short as it was within a tree
and has the edge between its two parts otherwise (`WalksCross`), so what
`update_distance` adds up is the length of a path. The number of G that the code
compares with numbers of T leaves some unrelated edge out of the walk; the walk
is then shorter, and what it still reaches it reaches by as many edges, as the
edge is a bridge (`WalkedIsNear`). Proved: `ForestAgrees`.

**minimize.** The inductive invariant says that the automaton is a given one,
that no block is empty, that states of one block accept the same rules, that a
disagreement of two states of a block is pending in L
(`DisagreementIsPending`), and that L is empty when the table is rebuilt.
`DisagreementIsPending` is the heart of the algorithm: splitting a block and
putting back only the smaller half keeps it, because the larger half was or is
pending through its twin. Proved: `TypeCorrect`, `BlocksHaveStates`,
`ErrorStateStaysAlone`, `DisagreementsArePending`, `PartitionIsStable` (the final
partition is a bisimulation) and `PartitionIsCoarsest` (states related by any
bisimulation are never parted). Together the last two say that the result is the
coarsest partition for every automaton and every order of the list. What is
proved of `TypeOK`, of the error state and of stability is not checked by a run
again. Blocks are then the classes of equivalent states (`BlocksAreClasses`: stable
one way, coarsest the other). What the
loop over the rows makes of them is an argument of its own: the state kept for
a block is the smallest equivalent one, and its new number, which the code gets by
subtracting the states dropped before it, is its rank among those kept (`RowsMoveUp`);
so the table is the quotient (`RebuildsTheQuotient`). Proved from it: `ResultIsTheQuotient`, which is
`ResultIsMinimal` for every automaton and every order of the list, and
`ResultReportsEveryWord`: the rules after every word are those of the automaton given.
The theorems are about `Spec` of `Hopcroft`; `HybridFa` takes its actions on
labels that also name borders, and its proofs take these theorems with them
(`HP`, an instance of `Hopcroft_proofs` with labels for rules).

**renumber and the PFAC traversals.** These theorems are about `SpecPfac`, the
specification that the run `hopcroft` checks: minimize, and then what `Pfac` does
with its result. `renumber` permutes the states (`NumbersAreDistinct`), so the
table it leaves follows the given automaton under the permutation
(`TableFollowsGiven`). The inductive invariant (`PfacInv`) has, for every lane, the
offset where it started: a lane is in the state of the given automaton after the symbols from its start
to its place, no two lanes started at the same offset, and none started at `nxt_off`
or later. The pairs of a start and a place that the lanes have been at
(`Reached`) are finitely many, and `matched_times` is the number of those among
them that accept. A lane that stops early loses nothing if
`dead_state` is dead (`DeadStaysDead`), and so at the end the count is that of
all pairs of the offsets that were begun: `PfacCounts`. An
earlier form of `MatchesAreCounted` promised the matches of all offsets. TLC
found no counterexample among inputs of two and five symbols; the proof failed where
the last lane stops, and an input of nine symbols shows why (see
findings). The assumptions are `DfasAssumption`, which is that of minimize, and
`InputsAssumption`: any words.

**hm_nfa2dfa and hm_dfalist2dfa.** `EveryRuleInOnePlace` is not inductive. That
a critical section hands a DFA to one iteration only, and that a merge unites
what it took, keeps every rule in one place (the lemmas `MoveOne` and `Unite`, over
any places). But an iteration that finds the list empty before it has taken
anything would push a DFA of no rule, and a DFA left in the list at the barrier
would be lost. Neither happens, because the iterations of a round have just
enough room: the inductive invariant counts (`IterationsTakeAll`) that the DFAs
in the list, those taken and `k` for every iteration that is done account for
all the round began with, exactly so while the list is not empty.
`NoIterationComesTooLate` and `NothingIsLeft` follow by comparing this with the
number of iterations, `(n - 1) \div k + 1`. Proved: `HmTypeCorrect`,
`RulesStayInOnePlace` and `ReturnedDfaHasEveryRule` (the safety half of
`Terminates`). The assumption is `MergingAssumption`: finitely many automata, at
least one, and `k > 1`. The proofs stand in `DfaMerge_proofs`, next to those of
the merge that this model takes as one step.

**Hybrid automata.** The head of a hybrid automaton is not a powerset of its NFA:
a subset is cut where it meets special states, which go on in the border. The
inductive invariant `HybridInv` follows the constructor for one NFA phase by
phase. `Building` is about the queue: of every head state the subset is known, the rows
of the states left are done (`RowDone`: the followed states of a target stand for
the head state of that row, the special ones are in its border), and every state
not done is queued. `Built` says the same of a whole head, with a numbering that
leads from the subsets met to head states, so that it survives minimize, which
renumbers the head and its border: then several subsets have one state.
`Refining` is the invariant of minimize, `HP!MinimizeInv`, about the labelled
head; that a row kept has the labels of every row dropped in favour of it is
what carries accepting rules and borders over. `Traversing` says that the active
states of the NFA are those of the tails and those that are not special of the
subset that the head is at. The step that matters is the first: the
border of the entry state is never joined, and nothing is lost since the root is at depth 0 and so
is never special (`RootIsNotSpecial`), which needs that depths are those of a
breadth-first walk (`ReachedUnfolds`) and that the thresholds are positive. Proved:
`HybridInductive` and `HybridReportsTheRules`, about `Spec`, under
`TaskAssumption`: any NFAs over finite sets of states without epsilon transitions, positive
depths, any limits. The list constructor loses rules (see findings); its automata are dumped and
searched in the model, and nothing is proved of them.
`SearchFollowsTheAutomaton` is only model-checked: where a
state lies in the memory is a sum over the states before it, as in `Memory`, but each
with a list per symbol.

**Prefix matching.** The reference says with sets of starting points which
nodes should be active (`Births`, `Living`); the code has two lists that are erased
from and extended while they are walked. The invariant is about the middle of a
symbol: `Midway` says that the entries already visited, moved on by the symbol,
the entries to come, not moved yet, and the nodes to be added make up what should be
active after the symbol, and that nothing has matched so far; `Between` says the
same between two symbols. `LivingGrows` and `MatchesGrow` are the two lemmas
about one symbol more, `VisitMovesOne` the one about the lists: erasing
the entry under an iterator moves every later one to its left. traverse keeps one
list for all hits, so `MatchesApart` must show that nodes started by different hits
do not disturb one another (`BirthsApart`: where the nodes begin is
the union over the starts). `WholeWord` and `ReversedSlice` turn this into
statements about parts of the packet. Proved: `TypeCorrect`,
`ListsAreLiveCuts`, `MatchesAreCuts`, for each of the three functions, and
`DeadStatesLoseNothing`. The assumption `CompiledAssumption` admits any chains
of any DFAs.

**Memory.** The invariant has three parts, of which the first two are about the
layout and the traversal, the third about the cache. Addresses are sums over
the states before (`SumsAre`, `SumsGrow`), so blocks do not overlap
(`BlocksAreApart`). That the reader tells the region of a state from its address
(`RegionIsToldFromTheAddress`) is less obvious, as a block may be empty: only the
blocks of the last region may, those of the others have an entry per symbol or one
for the epsilon transitions. `ReadsInv` says that what is still to be read lies in the
block, with one lemma per layout (`LinearIsWithin`, `IndirectIsWithin`,
`BitmapIsWithin`, `FullIsWithin`), and that `at` is a state of an automaton, which needs
`WalkInv`: the DFAs before `at` have followed the symbol, from the others it
leads where it should, and rules not recorded yet are those of states to come;
of an NFA the rules of the active states not yet read are to come. `CacheInv`
says what the property does and that every line read is still held while no set
was asked for more lines than it has ways; that there is a free way for the next one
is a pigeonhole argument (`CacheReadKeeps`). Proved: `EveryAccessStaysInTheBlock`,
`EveryMissIsAFirstReadOrEviction`, `MemoryTraversalIsRight`, about `Spec` of `Memory`,
of which the run `memory` has the behaviours beside those of `FbDfa`. The
assumption `MemoryAssumption` admits any compressed DFAs, any NFA with numbered
states, any layout, threshold and cache; the number of symbols is a multiple of
`BYTE`, as 256 is of 8.

**The blocks of the FPGA.** Two DFAs stand for an expression: the one minimize left,
which reads bytes, and an automaton that reads halves, which stands for several of
them and changes with every phase. The relation `Watches` joins them: a state of the
automaton is met after whole bytes or in the middle of one, it accepts only after whole
bytes, and its list has an expression, once, exactly if the DFA of that expression
accepts there. Each phase keeps it. `minimise2` does because its rounds end with a
stable partition (`FinalPartitionIsStable`: a round that changes the partition makes
more blocks, `NarrowingStops`), of which every block has one state
(`ReducedStandsFor`, `CompiledWatches`). `converge` does because a product that is kept
has a number for every pair that can be met (`PairsMetAreClosed`, `ProductWatches`). The
invariant `FpgaInv` says of the grouping that every expression of the lists is at home
in exactly one place: an automaton to come, the one in work, or a group
(`Grouping`, `Converging`); of the images, that the new numbers are a renumbering
(`NumbersAreNew`), that a word read is the target of the old row, with 8 bits for it
and two targets in a bitmap (`ImageIsRead`, `NoThreeOfTwo`), and that the keys
of different blocks differ (`KeysDiffer`); of the loaded blocks, that no image
is written over another and every copy is whole (`CopiesAreApart`); and of a run, that every
block is where the renumbered automaton would be (`ReadByteFollows`). Proved:
`FpgaReportsEveryRule`, about `SpecFpga`, under `FbAssumption` (a target fits into 8 bits)
and `ListsAssumption` (any lists of DFAs). A tool chain that has crashed reports
nothing, in the property as in the code. `FpgaInv` quantifies over relations, so
TLC has checked the property and not the invariant.

**Only model-checked.** Everything about liveness (`Returns`, `Terminates`,
`LookupAnswers`), as fairness and `ENABLED` are out of the prover's reach.
`Encodings` has no proofs: the run lengths are folds over a sorted sequence and the
sizes are sums over sets, so what they amount to is an induction over data;
lookups of ranges and bitmaps are not, and could be proved. `NfaHeap`, and with it the parser and
`NfaReduce`, `FbMinimise` and `ComponentTree` use recursive operators (paths of
pointers, depth-first copies, automata reversed), and what they promise is about
the result of a whole construction rather than about an invariant of its steps.

## Findings

Two places where the code does something else than its own comments say are
shown by a run:

1. `skipped_loops`: `make_rep` (nfa.h:245, "from lb to ub repetitions of the
   current one") adds an epsilon transition from the first to the last state; if
   the first state has a loop, what was read in it is skipped too: `^(a*b)?`
   accepts `a`.
2. `hybrid_list`: `hm_dfalist2dfa` ends with `minimize`, which merges head states
   by their rules alone and renumbers them, but leaves the border map
   (hybrid_fa.h:69) with its old keys; a rule that goes on in a tail is lost.

Met while modelling and contained in the models; properties that are near them
name them or stay clear of them, as said above.

* NFA: `dup_state` takes the first successor of a state for the way to the end
  of a copy; for the last state of `{n,}` that is its loop, and `get_last` of
  the copy recurses for ever: `(a{2,}){2}b` (nfa.cpp:1542, nfa.cpp:760).
  `remove_duplicates` may absorb the first state (nfa.cpp:1098); its
  `last==source` (nfa.cpp:1103) is a comparison, not an assignment.
* `minimize` leaves `dead_state` (dfa.cpp:665; "state involving no progression",
  dfa.h:145), and the PFAC traversals stop at whatever state has that number by
  then. So do the walks over prefix DFAs, which the compiler minimizes
  (main_fpga_2.cpp:292): prefix_DFA.cpp:43 then erases a live state, and a part
  like `^(ab|bb)a` is never found.
* `traverse_test_PFAC_speed2` ends when all four lanes are at the end in the same
  turn (trace.cpp:160), although the counter of offsets is not: the offsets from
  `nxt_off` on are never begun, and their matches are lost; the traversal with
  one lane finds them (trace.cpp:253).
* `update_distance` compares an edge number of the graph with edge numbers of
  the forest (dfa.cpp:1378): distances become too small, and default paths longer
  than the "diameter bound" (dfa.h:321). With k above 1 or bound 0 the
  compression reads `dt_length[NO_STATE]`, outside of the array (dfa.cpp:1345).
* Prefix DFAs: `extract_simplest` leaves depth 0 (main_fpga_2.cpp:379), so
  `pre_match` begins inside of the middle part; `load_prefixDfas` loses all but
  the first DFA of a part before (runtime_fpga.cpp:133).
* Component tree: when a prefix is rare enough, the repetition or group that comes
  next is dropped from the rule: `abcdex*y` becomes `abcde` and `^y`
  (ComponentSequence.cpp:62). A group that is cut after nothing was taken of its
  first copy keeps a copy too many (ComponentRepeat.cpp:144); what was cut inside
  of a group stays cut when the group is printed or decomposed again
  (ComponentRepeat.cpp:150, ComponentSequence.cpp:98, ComponentAlternation.cpp:85).
  `extract` does not cut off a part that begins with the component it ends with
  (ComponentSequence.cpp:231), reads `*children.end()` (224) and drops the `^` of a
  rule; `reverse_re` leaves groups as they are and makes a `$` of `^`
  (decompose.cpp:182). A prefix whose rest has no chain is kept without it
  (main_fpga_2.cpp:361).
* Encodings: the last symbol is lost if no other has its target (ecdfa.cpp:127);
  `getNext` misreads four of six types (ecdfa.cpp:352); run lengths are one
  symbol short (orledfa.cpp:19); a bitmap of type 3 is never freed
  (ecdfa.cpp:265).
* Hybrid automata: `dumpnfa` never sets `accept_offset` (hybrid_fa.cpp:1395);
  heads of more than 50 states are dropped without a word, and a list of which
  none is left is merged for ever; `accept_num` has four bits.
* Memory: reads behind the block in the layouts LINEAR and BITMAP
  (fa_memory.cpp:382, 389, 605); `cache_stats` is indexed with `DIRECT`, outside
  of the array (trace.cpp:1076).
* FPGA: `load_mapping` reads empty lists (runtime_fpga.cpp:103); the number of
  the start state that `to_BRAM` moves (Fb_DFA.cpp:591) is in no file;
  `minimise2` leaves a state too many, without targets, when nothing is accepted
  (Fb_DFA.cpp:519); `load_fpga_stt` divides by zero without an image.

## What is not modelled

* Of the component tree: how characters become classes, `is_exactString`,
  `contain_dotstar`, `is_explosive` and `char_count`, which the compilation of a
  rule does not call, and texts longer than the buffers of 1000 characters.
* `mdfa`, `nmdfa` (several DFAs traversed side by side), the content addressed
  variant CD2FA, the refined kruskal.
* `parse_to_dfa`, which splits a file whose DFA is too large and numbers the rules
  of the rest anew, and `parse_to_list_mp`, whose iterations all count in the
  unprotected `num_rules` (nfa.h:383): neither has a caller, and
  `parse_to_list_from_regexlist`, with the same loop, only one for statistics;
  the unprotected `sum_dfa_size` of `hm_nfa2dfa`, which is only printed. How
  characters become tokens; `split_states`, which nothing calls; `clone`.
* The tail reductions of the hybrid automata (`TAIL_DFAS`,
  `HYBRID_FA_REDUCTION`) and `ACTIVATE_ONCE_DOTSTAR`, which no build defines.
* Reading of files, packets and command lines; DOT output; statistics. The
  threads of `runtime_fpga` are not written yet in the source.
* Memory management, except where an object is deleted that may still be used
  (`NfaHeap`, `NfaReduce`), memory is read before it is written (`DefaultTx`),
  or its amount is counted (`Encodings`).

## Plan

Done, in this order: Automata, NfaToDfa with Powerset, Hopcroft, DfaMerge,
HierarMerge, DefaultTx, D2fa, PrefixMatch, NfaHeap with RegexParser, Pfac,
NfaReduce, Encodings, HybridFa, Memory, FbDfa with FbMinimise, ComponentTree.

What would come next in the models: the chains that `ComponentTree` makes as the
input of `PrefixMatch`; `mdfa` and `nmdfa` as products of `Encodings`;
`parse_to_list_mp` as a second parallel loop.

Theorems, next: in `Encodings` that lookups of ranges and bitmaps answer the table.
