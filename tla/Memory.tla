------------------------------- MODULE Memory -------------------------------
(***************************************************************************)
(* The memory model: where the states of compressed DFAs (fa_memory,       *)
(* dfas_memory) or of an NFA (fa_memory) are laid out, which addresses a   *)
(* symbol makes a traversal read, and which of the reads the cache answers.*)
(*                                                                         *)
(* A state with more labeled transitions than a threshold is fully         *)
(* specified: an entry per symbol.  The others are stored in one of three  *)
(* layouts, with an entry for what is not labeled: the default transition  *)
(* of a DFA's state, the epsilon transitions of an NFA's.                  *)
(*                                                                         *)
(* One step begins a symbol, reads one address, or follows a transition.   *)
(***************************************************************************)
EXTENDS Automata

CONSTANTS Tasks,      \* what is laid out, in which layout, and read how
          BYTE,       \* symbols for which there is a bit of a bitmap (8)
          PER_WORD,   \* second-level bitmaps in a word (4)
          MAX_INPUTS  \* longest input (bounds the model only)

WORD == 4

(* A DFA with default transitions, as compression leaves it: what is not   *)
(* labeled leads where it leads from the default state.                    *)
IsCompressed(D) ==
  /\ D.size \in Nat \ {0}
  /\ D.table \in [StatesOf(D) -> [Symbols -> StatesOf(D)]]
  /\ D.accepted \in [StatesOf(D) -> SUBSET Rules]
  /\ D.labeled \in [StatesOf(D) -> SUBSET Symbols]
  /\ \A s \in StatesOf(D) : \A a \in Symbols \ D.labeled[s] :
       D.default[s] \in StatesOf(D) /\ D.table[D.default[s]][a] = D.table[s][a]

(* An NFA whose ids are numbered from 0, by reset_state_id, in the order   *)
(* in which init_nfa meets the states.                                     *)
IsNumberedNfa(nfa) ==
  LET ids == DOMAIN nfa.epsilon
  IN /\ nfa \in NfaOver(ids)
     /\ IsFiniteSet(ids) /\ 0 \in ids /\ ids = 0 .. Cardinality(ids) - 1

(* The constructor of cache divides by the sizes, read shifts an address   *)
(* by the logarithm of the size of a line.                                 *)
IsReader(r) ==
  /\ r.kind \in {"cache", "onchip", "none"}
  /\ r.kind # "none" => r.size \in Nat
  /\ r.kind = "cache" => /\ {r.line_size, r.assoc} \subseteq Nat \ {0}
                         /\ r.assoc * r.line_size <= r.size
                         /\ \E n \in 0 .. r.line_size : r.line_size = 2 ^ n

(* A task: fa is a sequence of compressed DFAs, or of one NFA.             *)
ASSUME MemoryAssumption ==
  /\ {BYTE, PER_WORD} \subseteq Nat \ {0} /\ MAX_INPUTS \in Nat
  /\ CSIZE % BYTE = 0
  /\ \A t \in Tasks :
       /\ t.how \in {"dfa", "dfas", "nfa"}
       /\ t.fa \in Seq({t.fa[i] : i \in DOMAIN t.fa}) /\ t.fa # <<>>
       /\ t.how # "dfas" => Len(t.fa) = 1
       /\ \A i \in DOMAIN t.fa :
            IF t.how = "nfa" THEN IsNumberedNfa(t.fa[i]) ELSE IsCompressed(t.fa[i])
       /\ t.layout \in {"LINEAR", "BITMAP", "INDIRECT_ADDR"}
       /\ t.threshold \in Nat
       /\ t.layout = "INDIRECT_ADDR" => (t.threshold + 1) % WORD = 0
       /\ IsReader(t.reader)

VARIABLES
  task,
  address,      \* where every state is laid out
  limit,        \* limit[r]: where region r ends (memory_offset, ...)
  pc,           \* "next", "access", and "undefined"
  c,            \* the symbol being processed
  inputs,       \* symbols begun
  at,           \* the state that is being read
  reads,        \* the addresses still to be read for it
  state,        \* the states of the DFAs
  active, todo, \* the states of the NFA, and those not yet read for c
  accepted,     \* the rules recorded
  content,      \* the cache: line addresses, NoLine in an invalid line
  hits, misses, \* cache_stats
  ref,          \* what the tables and the NFA do (history)
  lines         \* the lines read (history)

layoutVars == <<task, address, limit>>
walkVars == <<c, inputs, at, state, active, todo, accepted, ref>>
cacheVars == <<content, hits, misses, lines>>
vars == <<layoutVars, pc, reads, walkVars, cacheVars>>

-----------------------------------------------------------------------------
(***************************************************************************)
(* init: the blocks.  A place is a state of one of the automata.           *)
(***************************************************************************)
IsNfa == task.how = "nfa"

NumStates(t, i) ==
  IF t.how = "nfa" THEN Cardinality(DOMAIN t.fa[i].epsilon) ELSE t.fa[i].size

Places(t) == UNION {{<<i, s>> : s \in 0 .. NumStates(t, i) - 1} : i \in DOMAIN t.fa}

(* Sums(f, n)[k] is the sum of f[0], ... f[k - 1], as a loop adds it up.   *)
Sums(f, n) ==
  LET sum[k \in 0 .. n] ==
        IF k = 0 THEN 0 ELSE LET before == sum[k - 1] IN before + f[k - 1]
  IN sum

Labels(t, x) ==
  IF t.how = "nfa" THEN {a \in Symbols : t.fa[1].transitions[x[2]][a] # {}}
                   ELSE t.fa[x[1]].labeled[x[2]]

(* num_labeled_tr: of an NFA the transitions, not the symbols.             *)
NumLabeled(t, x) ==
  IF t.how = "nfa"
    THEN Sums([a \in Symbols |-> Cardinality(t.fa[1].transitions[x[2]][a])], CSIZE)[CSIZE]
    ELSE Cardinality(Labels(t, x))

HasEpsilon(t, x) == t.how = "nfa" /\ t.fa[1].epsilon[x[2]] # {}

Full(t, x) == NumLabeled(t, x) > t.threshold

(* The regions of the memory: for every DFA the fully specified states and *)
(* the others; of an NFA those with epsilon transitions first.             *)
Region(t, x) ==
  IF t.how = "nfa" THEN CHOOSE r \in 1 .. 4 : /\ Full(t, x) <=> r <= 2
                                              /\ HasEpsilon(t, x) <=> r \in {1, 3}
  ELSE 2 * x[1] - (IF Full(t, x) THEN 1 ELSE 0)

Entry(t) == IF t.layout = "INDIRECT_ADDR" THEN t.threshold + 1 ELSE WORD

(* The entry for what is not labeled.                                      *)
Extra(t, x) ==
  IF HasEpsilon(t, x) \/ (t.how # "nfa" /\ ~ Full(t, x)) THEN 1 ELSE 0

(* bitmap[s]: the groups of BYTE symbols with a labeled one.               *)
Bitmap(t, x) == {a \div BYTE : a \in Labels(t, x)}

WordsFor(n) == (n + PER_WORD - 1) \div PER_WORD

BitmapWords(t, x) ==
  IF t.layout = "BITMAP" THEN 1 + WordsFor(Cardinality(Bitmap(t, x))) ELSE 0

(* A slip to compare with: the words of the bitmaps are not counted.       *)
EntriesOnly(t, x) == Extra(t, x) + NumLabeled(t, x)

SparseWords(t, x) == BitmapWords(t, x) + Extra(t, x) + NumLabeled(t, x)

BlockSize(t, x) ==
  Entry(t) * (IF Full(t, x) THEN CSIZE + Extra(t, x) ELSE SparseWords(t, x))

(* What the loop over the states that fills region r adds for each of them.*)
Regions(t) == IF t.how = "nfa" THEN 4 ELSE 2 * Len(t.fa)

AutomatonOf(t, r) == IF t.how = "nfa" THEN 1 ELSE (r + 1) \div 2

Filling(t, r) ==
  [s \in 0 .. NumStates(t, AutomatonOf(t, r)) - 1 |->
     LET x == <<AutomatonOf(t, r), s>>
     IN IF Region(t, x) = r THEN BlockSize(t, x) ELSE 0]

(* next_address in the loop for region r, counted from its beginning.      *)
Filled(t, r) == Sums(Filling(t, r), NumStates(t, AutomatonOf(t, r)))

Limits(t) ==
  Sums([r \in 0 .. Regions(t) - 1 |->
          Filled(t, r + 1)[NumStates(t, AutomatonOf(t, r + 1))]], Regions(t))

Addresses(t) ==
  LET limits == Limits(t)
  IN [x \in Places(t) |-> limits[Region(t, x) - 1] + Filled(t, Region(t, x))[x[2]]]

-----------------------------------------------------------------------------
(***************************************************************************)
(* get_dfa_accesses and get_nfa_accesses.                                  *)
(***************************************************************************)
(* The region is told from the address: the first that ends behind it.     *)
RegionAt(x) ==
  IF IsNfa THEN CHOOSE r \in 1 .. 4 : /\ r # 4 => address[x] < limit[r]
                                      /\ \A q \in 1 .. r - 1 : address[x] >= limit[q]
           ELSE 2 * x[1] - (IF address[x] < limit[2 * x[1] - 1] THEN 1 ELSE 0)

IsFull(x) == IF IsNfa THEN RegionAt(x) <= 2 ELSE RegionAt(x) % 2 = 1

(* The region has epsilon transitions. *)
WithEpsilon(x) == IsNfa /\ RegionAt(x) \in {1, 3}

ExtraAt(x) == IF WithEpsilon(x) \/ (~ IsNfa /\ ~ IsFull(x)) THEN 1 ELSE 0

(* The words of the i-th entry of a state, and its first n words.          *)
EntryWords(x, i) ==
  [k \in 1 .. Entry(task) \div WORD |-> address[x] + i * Entry(task) + (k - 1) * WORD]

Words(x, n) == [k \in 1 .. n |-> address[x] + (k - 1) * WORD]

LabelsBefore(x, a) == Cardinality({l \in Labels(task, x) : l < a})

FullAccesses(x, a) ==
  IF WithEpsilon(x) THEN EntryWords(x, 0) \o EntryWords(x, a + 1) ELSE EntryWords(x, a)

(* Labels are read one by one, and the next one where a is not found.      *)
LinearAccesses(x, a) ==
  Words(x, ExtraAt(x) + LabelsBefore(x, a) + 1)

(* (mask >> i) & bitmap: mask is a negative int, the shift keeps its sign, *)
(* and so the bits before i are in the mask as well.                       *)
Masked(x, i) == \E b \in Bitmap(task, x) : b <= i

MaskedUpTo(x, n) == WordsFor(Cardinality({i \in 0 .. n : Masked(x, i)}))

AllMasked(x) == MaskedUpTo(x, CSIZE \div BYTE - 1)

(* Behind the bitmaps: the default transition is the first entry; an NFA's *)
(* state without epsilon transitions has its entries counted from 0.       *)
BitmapEntry(x, a) ==
  IF a \in Labels(task, x)
    THEN <<(IF IsNfa /\ ~ WithEpsilon(x) THEN 0 ELSE 2) + AllMasked(x) + LabelsBefore(x, a)>>
    ELSE IF IsNfa THEN <<>> ELSE <<1 + AllMasked(x)>>

BitmapAccesses(x, a) ==
  LET first == Words(x, 1 + (IF WithEpsilon(x) THEN 1 ELSE 0)
                          + (IF Masked(x, a \div BYTE) THEN MaskedUpTo(x, a \div BYTE) ELSE 0))
      entry == BitmapEntry(x, a)
  IN first \o [k \in DOMAIN entry |-> address[x] + entry[k] * WORD]

IndirectAccesses(x, a) ==
  LET labeled == IF a \in Labels(task, x) THEN EntryWords(x, ExtraAt(x) + LabelsBefore(x, a))
                                          ELSE <<>>
  IN IF WithEpsilon(x) \/ (~ IsNfa /\ labeled = <<>>)
       THEN EntryWords(x, 0) \o labeled ELSE labeled

Accesses(x, a) ==
  IF IsFull(x) THEN FullAccesses(x, a)
  ELSE CASE task.layout = "LINEAR"        -> LinearAccesses(x, a)
         [] task.layout = "BITMAP"        -> BitmapAccesses(x, a)
         [] task.layout = "INDIRECT_ADDR" -> IndirectAccesses(x, a)

-----------------------------------------------------------------------------
(***************************************************************************)
(* cache::read, and read of the memory classes.                            *)
(***************************************************************************)
NoLine == -1

Cache == task.reader

NumLines == Cache.size \div Cache.line_size
LinesPerSet == Cache.size \div (Cache.assoc * Cache.line_size)

LineOf(a) == a \div Cache.line_size

(* A slip to compare with: the ways of a set are neighbours.               *)
NeighbouringWays(line) ==
  {(line % LinesPerSet) + i : i \in 0 .. Cache.assoc - 1}

WaysOf(line) == {(line % LinesPerSet) + i * LinesPerSet : i \in 0 .. Cache.assoc - 1}

Insert(way, line) == content' = [content EXCEPT ![way] = line]

CacheRead(line) ==
  LET ways == WaysOf(line)
      free == {w \in ways : content[w] = NoLine}
  IN \/ /\ \E w \in ways : content[w] = line
        /\ hits' = hits + 1
        /\ UNCHANGED <<content, misses>>
     \/ /\ \A w \in ways : content[w] # line
        /\ IF free # {} THEN \E w \in free : (\A v \in free : w <= v) /\ Insert(w, line)
                        ELSE \E w \in ways : Insert(w, line) \* random policy
        /\ misses' = misses + 1
        /\ UNCHANGED hits

OnChip(a) ==
  /\ hits' = hits + (IF a < Cache.size THEN 1 ELSE 0)
  /\ misses' = misses + (IF a < Cache.size THEN 0 ELSE 1)
  /\ UNCHANGED content

-----------------------------------------------------------------------------
(***************************************************************************)
(* trace::traverse, traverse_dfa and traverse_nfa.                         *)
(***************************************************************************)
(* The place whose accesses are read next. *)
Visit(x, a) == at' = x /\ reads' = Accesses(x, a)

(* The states of the DFAs by their whole tables, the NFA's by its moves.   *)
RefAfter(a) ==
  IF IsNfa
    THEN LET S == Move(task.fa[1], ref.active, a)
         IN [ref EXCEPT !.active = S, !.accepted = @ \cup AcceptedBy(task.fa[1], S)]
    ELSE LET next == [i \in DOMAIN task.fa |-> task.fa[i].table[ref.state[i]][a]]
         IN [ref EXCEPT !.state = next,
                        !.accepted = @ \cup UNION {task.fa[i].accepted[next[i]] :
                                                         i \in DOMAIN next}]

BeginSymbol ==
  /\ pc = "next"
  /\ inputs < MAX_INPUTS
  /\ \E a \in Symbols :
       /\ c' = a
       /\ ref' = RefAfter(a)
       /\ IF IsNfa THEN /\ todo' = active
                        /\ UNCHANGED <<at, reads>>
                   ELSE Visit(<<1, state[1]>>, a) /\ UNCHANGED todo
  /\ inputs' = inputs + 1
  /\ pc' = "access"
  /\ UNCHANGED <<layoutVars, state, active, accepted, cacheVars>>

ReadAddress ==
  /\ pc = "access"
  /\ reads # <<>>
  /\ Cache.kind # "none"
  /\ IF Cache.kind = "cache" THEN CacheRead(LineOf(Head(reads))) ELSE OnChip(Head(reads))
  /\ lines' = IF Cache.kind = "cache" THEN lines \cup {LineOf(Head(reads))} ELSE lines
  /\ reads' = Tail(reads)
  /\ UNCHANGED <<layoutVars, pc, walkVars>>

(* Without cache and on-chip memory the statistics have no place for the   *)
(* answer DIRECT: cache_stats[2] lies behind the array.                    *)
ReadDirectly ==
  /\ pc = "access"
  /\ reads # <<>>
  /\ Cache.kind = "none"
  /\ pc' = "undefined"
  /\ UNCHANGED <<layoutVars, reads, walkVars, cacheVars>>

Dfa == task.fa[at[1]]

FollowsDefault == c \notin Dfa.labeled[at[2]] /\ ~ IsFull(at)

AllRead == pc = "access" /\ reads = <<>>

(* A slip to compare with: the default transition consumes the symbol.     *)
FollowDefaultAsMove ==
  /\ AllRead
  /\ ~ IsNfa
  /\ FollowsDefault
  /\ state' = [state EXCEPT ![at[1]] = Dfa.default[at[2]]]
  /\ IF at[1] < Len(task.fa)
       THEN Visit(<<at[1] + 1, state[at[1] + 1]>>, c) /\ UNCHANGED pc
       ELSE pc' = "next" /\ UNCHANGED <<at, reads>>
  /\ UNCHANGED <<layoutVars, c, inputs, active, todo, accepted, ref, cacheVars>>

(* fa_memory's traversal looks for rules also behind a default transition. *)
FollowDefault ==
  /\ AllRead
  /\ ~ IsNfa
  /\ FollowsDefault
  /\ LET q == Dfa.default[at[2]]
     IN /\ state' = [state EXCEPT ![at[1]] = q]
        /\ Visit(<<at[1], q>>, c)
        /\ accepted' = IF task.how = "dfa" THEN accepted \cup Dfa.accepted[q] ELSE accepted
  /\ UNCHANGED <<layoutVars, pc, c, inputs, active, todo, ref, cacheVars>>

FollowTable ==
  /\ AllRead
  /\ ~ IsNfa
  /\ ~ FollowsDefault
  /\ LET q == Dfa.table[at[2]][c]
     IN /\ state' = [state EXCEPT ![at[1]] = q]
        /\ accepted' = accepted \cup Dfa.accepted[q]
  /\ IF at[1] < Len(task.fa)
       THEN Visit(<<at[1] + 1, state[at[1] + 1]>>, c) /\ UNCHANGED pc
       ELSE pc' = "next" /\ UNCHANGED <<at, reads>>
  /\ UNCHANGED <<layoutVars, c, inputs, active, todo, ref, cacheVars>>

(* The rules of an active state are recorded when a symbol is read from    *)
(* it, never those of the states that are active at the end.               *)
VisitNfaState ==
  /\ AllRead
  /\ IsNfa
  /\ \E n \in todo :
       /\ Visit(<<1, n>>, c)
       /\ accepted' = accepted \cup task.fa[1].accepting[n]
       /\ todo' = todo \ {n}
  /\ UNCHANGED <<layoutVars, pc, c, inputs, state, active, ref, cacheVars>>

MoveNfa ==
  /\ AllRead
  /\ IsNfa
  /\ todo = {}
  /\ active' = Move(task.fa[1], active, c)
  /\ pc' = "next"
  /\ UNCHANGED <<layoutVars, reads, c, inputs, at, state, todo, accepted, ref, cacheVars>>

Init ==
  /\ task \in Tasks
  /\ address = Addresses(task)
  /\ limit = Limits(task)
  /\ pc = "next"
  /\ c = 0 /\ inputs = 0
  /\ at = <<1, 0>> /\ reads = <<>>
  /\ state = [i \in DOMAIN task.fa |-> 0]
  /\ active = IF IsNfa THEN EpsilonClosure(task.fa[1], 0) ELSE {}
  /\ todo = {} /\ accepted = {}
  /\ ref = [state |-> state, active |-> active, accepted |->
              IF IsNfa THEN AcceptedBy(task.fa[1], active) ELSE {}]
  /\ content = IF Cache.kind = "cache" THEN [w \in 0 .. NumLines - 1 |-> NoLine] ELSE <<>>
  /\ hits = 0 /\ misses = 0 /\ lines = {}

Next ==
  \/ BeginSymbol
  \/ ReadAddress \/ ReadDirectly
  \/ FollowDefault \/ FollowTable
  \/ VisitNfaState \/ MoveNfa

Spec == Init /\ [][Next]_vars

-----------------------------------------------------------------------------
(***************************************************************************)
(* Properties.                                                             *)
(***************************************************************************)
BlockEnd(x) == address[x] + BlockSize(task, x)

(* How far behind its block a state is read.  In the layout LINEAR a       *)
(* symbol behind all labels makes one word more be read than there is.  In *)
(* BITMAP the mask counts bitmaps that are not stored, those behind the    *)
(* first: entries are looked for so many words too far.                    *)
Overrun(x, a) ==
  IF IsFull(x) THEN 0
  ELSE CASE task.layout = "LINEAR" ->
              IF a \notin Labels(task, x) /\ LabelsBefore(x, a) = NumLabeled(task, x)
                THEN WORD ELSE 0
         [] task.layout = "BITMAP" ->
              WORD * (AllMasked(x) - WordsFor(Cardinality(Bitmap(task, x))))
         [] task.layout = "INDIRECT_ADDR" -> 0

(* The blocks fill the memory and do not overlap, the region of a state    *)
(* can be told from its address even where blocks are empty, and every     *)
(* read made for a state lies in its block, but for the words that         *)
(* Overrun names (get_dfa_accesses, get_nfa_accesses).                     *)
AccessesStayInTheBlock ==
  /\ \A x, y \in DOMAIN address :
       x # y => BlockEnd(x) <= address[y] \/ BlockEnd(y) <= address[x]
  /\ \A x \in DOMAIN address : RegionAt(x) = Region(task, x)
  /\ \A k \in DOMAIN reads :
       /\ address[at] <= reads[k]
       /\ reads[k] + WORD <= BlockEnd(at) + Overrun(at, c)

(* The cache holds no line twice and each in its set.  Every line that was *)
(* read has missed once, and as long as no set has been asked for more     *)
(* lines than it has ways there is no other miss (cache::read).            *)
MissesAreFirstReadsOrEvictions ==
  Cache.kind = "cache" =>
    /\ \A w \in DOMAIN content : content[w] # NoLine =>
         /\ content[w] \in lines
         /\ w % LinesPerSet = content[w] % LinesPerSet
         /\ \A v \in DOMAIN content : content[v] = content[w] => v = w
    /\ misses >= Cardinality(lines)
    /\ (\A l \in lines : Cardinality({k \in lines : (k - l) % LinesPerSet = 0}) <= Cache.assoc)
         => misses = Cardinality(lines)

(* Between two symbols the traversal over the memory is where the whole    *)
(* tables would be, or the NFA; it has recorded the rules these have met,  *)
(* the NFA's but those of the states active now, which are recorded only   *)
(* with one more symbol, and fa_memory's maybe those of states it fell     *)
(* back to.                                                                *)
MemoryTraversalReportsTheRules ==
  pc = "next" =>
    /\ state = ref.state
    /\ active = ref.active
    /\ IF IsNfa THEN accepted \cup AcceptedBy(task.fa[1], active) = ref.accepted
       ELSE /\ ref.accepted \subseteq accepted
            /\ task.how = "dfas" => accepted = ref.accepted
=============================================================================
