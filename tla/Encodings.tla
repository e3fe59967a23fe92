----------------------------- MODULE Encodings -----------------------------
(***************************************************************************)
(* The compact forms of a DFA's table: RCDFA (ranges), BitCmpDfa (a bitmap *)
(* per target), RleDfa and ORleDfa (run lengths), EgCmpDfa and EgCmpDfaB   *)
(* (the shortest of these for every state).  All are built state by state  *)
(* by the same scan over the symbols, which leaves out transitions to      *)
(* state 0, and looked up symbol by symbol; those of EgCmpDfa, BitCmpDfa,  *)
(* RleDfa and ORleDfa count and free their memory.                         *)
(*                                                                         *)
(* One step encodes one state, looks one input symbol up, or destroys the  *)
(* encoding.  `string' is RCDFA with the match that reads a C string.        *)
(***************************************************************************)
EXTENDS Automata, FiniteSetsExt, SequencesExt

CONSTANTS Dfas,            \* the automata that are encoded
          Kinds,           \* which of the classes
          MANY_RANGES,     \* so many ranges of one target stay ranges (12)
          CHAR_BIRMAP_SIZE,\* bytes of a bitmap; so many ranges stay ranges (32)
          FIRST_NEGATIVE,  \* the smallest symbol that is a negative char (128)
          MAX_INPUTS       \* longest input (bounds the model only)

ASSUME EncodingAssumption ==
  /\ \A D \in Dfas : D.table \in [StatesOf(D) -> [Symbols -> StatesOf(D)]]
  /\ Kinds \subseteq {"range", "string", "bitmap", "rle", "orle", "mixed", "mixed_b"}
  /\ MANY_RANGES \in Nat /\ CHAR_BIRMAP_SIZE \in Nat /\ MAX_INPUTS \in Nat

VARIABLES
  dfa, kind,  \* the automaton given and the class it is encoded by
  pc,         \* "build", "walk", "crashed", "destroyed"
  s,          \* the next state to encode
  edges,      \* the encoded states
  heap,       \* memory in use: <<state, name, bytes>>
  state,      \* where the traversal is
  accepted,   \* the rules it has found
  inputs,     \* symbols read
  ref,        \* where the table would be, and the rules (history)
  misled      \* a lookup the encoding is known to miss was made (history)

walkVars == <<state, accepted, inputs, ref, misled>>
vars == <<dfa, kind, pc, s, edges, heap, walkVars>>

-----------------------------------------------------------------------------
(***************************************************************************)
(* The scan.  For the first symbol c of every target other than 0, a range *)
(* that begins at or after c is put on the list when the inner loop, over  *)
(* the symbols d behind c, sees it end.                                    *)
(***************************************************************************)
Within(c, r) == r.start <= c /\ c <= r.end

Ranges(row, t) ==
  {r \in [start : Symbols, end : Symbols, target : {t}] :
     /\ r.start <= r.end
     /\ \A c \in Symbols : Within(c, r) => row[c] = t
     /\ r.start > 0 => row[r.start - 1] # t
     /\ r.end < CSIZE - 1 => row[r.end + 1] # t}

Targets(row) == {row[c] : c \in Symbols} \ {0}

FirstSymbol(row, t) == Min({c \in Symbols : row[c] = t})

(* A slip to compare with: a range that reaches the last symbol is left.   *)
SeenToEndBefore(row, r) ==
  \E d \in FirstSymbol(row, r.target) + 1 .. CSIZE - 1 : d = r.end + 1

SeenToEnd(row, r) ==
  \E d \in FirstSymbol(row, r.target) + 1 .. CSIZE - 1 :
     d = r.end + 1 \/ (d = r.end /\ d = CSIZE - 1)

SameTarget(row, t) == {r \in Ranges(row, t) : SeenToEnd(row, r)}

SampleRanges(row) == UNION {SameTarget(row, t) : t \in Targets(row)}

(* RCDFA, RleDfa, ORleDfa, EgCmpDfa: the object of the range that is not   *)
(* seen to end is on no list.                                              *)
Dropped(row) == {r \in UNION {Ranges(row, t) : t \in Targets(row)} : ~ SeenToEnd(row, r)}

ByStart(ranges) == SetToSortSeq(ranges, LAMBDA q, r : q.start < r.start)

(* BitmapInit and BitmapSet for every symbol of the ranges: 8 bits a byte. *)
BitmapOf(ranges) ==
  {c \in Symbols : c \div 8 < CHAR_BIRMAP_SIZE /\ \E r \in ranges : Within(c, r)}

BitmapRange(row, t) == [target |-> t, bitmap |-> BitmapOf(SameTarget(row, t))]

-----------------------------------------------------------------------------
(* ORleDfa: gaps become runs to state 0; a run is stored by its length     *)
(* less one ("need +1, 0 is 1, 255 is 256") but for a gap at the front.    *)
GapBefore(sorted, i) ==
  IF i = 1
    THEN IF sorted[1].start > 0 THEN <<[target |-> 0, length |-> sorted[1].start]>>
                                ELSE <<>>
    ELSE IF sorted[i].start - sorted[i - 1].end > 1
           THEN <<[target |-> 0, length |-> sorted[i].start - sorted[i - 1].end - 2]>>
           ELSE <<>>

RunLengths(sorted) ==
  FoldLeft(LAMBDA list, i :
             list \o GapBefore(sorted, i)
                  \o <<[target |-> sorted[i].target,
                        length |-> sorted[i].end - sorted[i].start]>>,
           <<>>, [i \in 1 .. Len(sorted) |-> i])

(* EgCmpDfa and EgCmpDfaB: a target with many ranges becomes a bitmap.     *)
ManyRanges(row) == {t \in Targets(row) : Cardinality(SameTarget(row, t)) > MANY_RANGES}

FewRanges(row) == UNION {SameTarget(row, t) : t \in Targets(row) \ ManyRanges(row)}

(* types[s]: what stays ranges is kept as ranges or, where `runs' says so, *)
(* as a bitmap and ends; 0 is what allocate_array leaves.                  *)
TypeOf(bits, few, runs) ==
  IF bits # {} THEN (IF runs THEN 3 ELSE IF few # {} THEN 2 ELSE 6)
  ELSE CASE few = {}                                  -> 0
         [] \E r \in few : few = {r} /\ r.start = r.end -> 1
         [] OTHER                                     -> IF runs THEN 5 ELSE 4

Typed(row, runs) ==
  [type    |-> TypeOf(ManyRanges(row), FewRanges(row), runs),
   bitmaps |-> {BitmapRange(row, t) : t \in ManyRanges(row)},
   ranges  |-> FewRanges(row)]

(* What forOneState of each class leaves for a state with this row.  A     *)
(* target none of whose ranges is seen to end gives BitCmpDfa a NULL bitmap. *)
RangeState(row)  == [ranges |-> SampleRanges(row)]
BitmapState(row) == [bitmaps |-> {BitmapRange(row, t) : t \in Targets(row)},
                     null    |-> \E t \in Targets(row) : SameTarget(row, t) = {}]
RleState(row)    == [ranges |-> ByStart(SampleRanges(row)),
                     bitmap |-> BitmapOf(SampleRanges(row))]
OrleState(row)   == [ranges |-> RunLengths(ByStart(SampleRanges(row)))]
MixedState(row)  == Typed(row, Cardinality(FewRanges(row)) > CHAR_BIRMAP_SIZE)
MixedStateB(row) == Typed(row, FALSE)

ForOneState(k, row) ==
  CASE k = "bitmap"  -> BitmapState(row)
    [] k = "rle"     -> RleState(row)
    [] k = "orle"    -> OrleState(row)
    [] k = "mixed"   -> MixedState(row)
    [] k = "mixed_b" -> MixedStateB(row)
    [] OTHER         -> RangeState(row)

-----------------------------------------------------------------------------
(* Lookups.  `0' is the default of every scan that finds nothing.          *)
InRanges(ranges, c) ==
  IF \E r \in ranges : Within(c, r) THEN (CHOOSE r \in ranges : Within(c, r)).target ELSE 0

InBitmaps(bitmaps, c) ==
  IF \E b \in bitmaps : c \in b.bitmap
    THEN (CHOOSE b \in bitmaps : c \in b.bitmap).target ELSE 0

InRuns(ranges, bitmap, c) ==
  LET ends == {i \in 1 .. Len(ranges) : c <= ranges[i].end}
  IN IF c \in bitmap /\ ends # {} THEN ranges[Min(ends)].target ELSE 0

(* ORleDfa::getNext adds the lengths up, beginning with -1.                *)
InLengths(ranges, c) ==
  LET lastEnd[i \in 0 .. Len(ranges)] ==
        IF i = 0 THEN -1 ELSE lastEnd[i - 1] + ranges[i].length
      hit == {i \in 1 .. Len(ranges) : c <= lastEnd[i]}
  IN IF hit = {} THEN 0 ELSE ranges[Min(hit)].target

(* EgCmpDfa::getNext takes every edges[current] for an EgCmpDfaEdage and   *)
(* follows its pointer `data'.  Only the types 4 and 6 are that structure: *)
(* for 1, 2, 3 and 5 the read is undefined, here any state.                *)
WildTypes == {1, 2, 3, 5}

InEdage(e, c) ==
  CASE e.type \in WildTypes -> StatesOf(dfa)
    [] e.type = 6           -> {InBitmaps(e.bitmaps, c)}
    [] OTHER                -> {InRanges(e.ranges, c)}

(* match takes the symbol of a string for a char: below 0 it is in no range. *)
InString(ranges, c) == IF c >= FIRST_NEGATIVE THEN 0 ELSE InRanges(ranges, c)

(* The states a lookup may answer with.                                    *)
GetNext(k, e, c) ==
  CASE k = "mixed"  -> InEdage(e, c)
    [] k = "string" -> {InString(e.ranges, c)}
    [] k = "range"  -> {InRanges(e.ranges, c)}
    [] k = "bitmap" -> {InBitmaps(e.bitmaps, c)}
    [] k = "rle"    -> {InRuns(e.ranges, e.bitmap, c)}
    [] k = "orle"   -> {InLengths(e.ranges, c)}

-----------------------------------------------------------------------------
(***************************************************************************)
(* Memory, in bytes of the packed structures: a bitmap with its target, an *)
(* end with its target, a range, the header of each type.                  *)
(***************************************************************************)
BITMAP_RANGE == 4 + CHAR_BIRMAP_SIZE
RLE_ITEM     == 5
SAMPLE_RANGE == 6
RLE_RANGE    == CHAR_BIRMAP_SIZE + 12
Header(type) == CASE type = 1 -> RLE_ITEM
                  [] type = 2 -> 24
                  [] type = 3 -> 24 + CHAR_BIRMAP_SIZE
                  [] type = 5 -> RLE_RANGE
                  [] type \in {4, 6} -> 12

(* The objects forOneState leaves allocated for one state: <<name, bytes>>. *)
ObjectsOf(k, row, e) ==
  LET type == e.type
      b == Cardinality(e.bitmaps) * BITMAP_RANGE
      n == Cardinality(e.ranges)
  IN {<<"r_edge", SAMPLE_RANGE>> : r \in IF k = "bitmap" THEN {} ELSE Dropped(row)}
     \cup CASE k = "bitmap"          -> {<<"data", b>>}
            [] k \in {"rle", "orle"} -> {<<"ranges", Len(e.ranges) * RLE_ITEM>>}
            [] k \in {"mixed", "mixed_b"} /\ type # 0 ->
                 {<<"data", Header(type)>>}
                 \cup (IF type \in {2, 3, 6} THEN {<<"bit_ranges", b>>} ELSE {})
                 \cup (IF type \in {2, 4} THEN {<<"other_ranges", n * SAMPLE_RANGE>>} ELSE {})
                 \cup (IF type \in {3, 5} THEN {<<"other_ranges", n * RLE_ITEM>>} ELSE {})
                 \cup (IF type = 3 THEN {<<"rle_range_list", RLE_RANGE>>} ELSE {})
            [] OTHER                -> {}

(* What the destructors delete.  The array `types' and, of type 3, the     *)
(* object the bitmap was copied from are not (data5 is NULL there).        *)
DeletedByClass == [bitmap  |-> {"data", "edges"},
                   rle     |-> {"ranges", "edges"},
                   orle    |-> {"ranges", "edges"},
                   mixed   |-> {"data", "bit_ranges", "other_ranges", "edges"},
                   mixed_b |-> {"data", "bit_ranges", "other_ranges", "edges"}]

(* A slip to compare with: the bitmaps are kept.                           *)
DeletedButBitmaps(k, name) == name # "bit_ranges" /\ name \in DeletedByClass[k]

Deleted(k, name) == name \in DeletedByClass[k]

Arrays(k, n) ==
  CASE k = "bitmap" -> {<<-1, "edges", 12 * n>>}
    [] k = "rle"    -> {<<-1, "edges", (12 + CHAR_BIRMAP_SIZE) * n>>}
    [] k = "orle"   -> {<<-1, "edges", 12 * n>>}
    [] OTHER        -> {<<-1, "edges", 8 * n>>, <<-1, "types", n>>}

(* getMemSize: the arrays, and for every state its lists, by type.         *)
BitmapMemSize(e) == BITMAP_RANGE * Cardinality(e.bitmaps)
RleMemSize(e)    == RLE_ITEM * Len(e.ranges)
OrleMemSize(e)   == RLE_ITEM * Len(e.ranges)
MixedMemSize(e)  ==
  LET n == Cardinality(e.ranges)
      b == BITMAP_RANGE * Cardinality(e.bitmaps)
  IN CASE e.type = 0 -> 0
       [] e.type = 1 -> RLE_ITEM
       [] e.type = 2 -> Header(2) + b + SAMPLE_RANGE * n
       [] e.type = 3 -> Header(3) + b + RLE_ITEM * n
       [] e.type = 4 -> Header(4) + SAMPLE_RANGE * n
       [] e.type = 5 -> Header(5) + RLE_ITEM * n
       [] e.type = 6 -> Header(6) + b
MixedMemSizeB(e) == MixedMemSize(e)

StateMemSize(k, e) ==
  CASE k = "bitmap" -> BitmapMemSize(e)
    [] k = "rle"    -> RleMemSize(e)
    [] k = "orle"   -> OrleMemSize(e)
    [] k = "mixed"  -> MixedMemSize(e)
    [] OTHER        -> MixedMemSizeB(e)

MemSize == MapThenSumSet(LAMBDA x : x[3], Arrays(kind, dfa.size))
           + FoldSet(LAMBDA q, sum : sum + StateMemSize(kind, edges[q]), 0, DOMAIN edges)

(* RCDFA counts and frees in its own way, which is left out.               *)
CountedKinds == {"bitmap", "rle", "orle", "mixed", "mixed_b"}

-----------------------------------------------------------------------------
Init ==
  /\ dfa \in Dfas /\ kind \in Kinds
  /\ pc = "build" /\ s = 0
  /\ edges = << >>
  /\ heap = IF kind \in CountedKinds THEN Arrays(kind, dfa.size) ELSE {}
  /\ state = 0 /\ accepted = {} /\ inputs = 0
  /\ ref = [state |-> 0, accepted |-> {}] /\ misled = FALSE

(* forOneState(s, state_table).                                            *)
EncodeState ==
  /\ pc = "build" /\ s < dfa.size
  /\ LET e == ForOneState(kind, dfa.table[s])
     IN IF kind = "bitmap" /\ e.null
          THEN pc' = "crashed" /\ UNCHANGED <<s, edges, heap>>
          ELSE /\ edges' = [q \in 0 .. s |-> IF q = s THEN e ELSE edges[q]]
               /\ heap' = IF kind \in CountedKinds
                            THEN heap \cup {<<s, x[1], x[2]>> :
                                              x \in ObjectsOf(kind, dfa.table[s], e)}
                            ELSE heap
               /\ s' = s + 1
               /\ UNCHANGED pc
  /\ UNCHANGED <<dfa, kind, walkVars>>

EndOfBuild ==
  /\ pc = "build" /\ s = dfa.size
  /\ pc' = "walk"
  /\ UNCHANGED <<dfa, kind, s, edges, heap, walkVars>>

(* The symbol that ends up at state 0 because the only range of its target *)
(* is the last symbol.                                                     *)
IsLost(row, c) ==
  row[c] # 0 /\ c = CSIZE - 1 /\ \A d \in Symbols : row[d] = row[c] => d = c

(* Of an ORleDfa only the gap at the front and the run behind it, less its *)
(* last symbol, keep their places.                                         *)
IsShifted(row, c) ==
  \E d \in Symbols : /\ d <= c + 1 /\ d > 0 /\ row[d] # row[d - 1]
                     /\ \E b \in 0 .. d - 1 : row[b] # 0

(* Where a lookup need not answer what the table holds.                    *)
Misses(k, row, e, c) ==
  \/ IsLost(row, c)
  \/ k = "string" /\ c >= FIRST_NEGATIVE
  \/ k = "mixed" /\ e.type \in WildTypes
  \/ k = "orle" /\ (IsShifted(row, c) \/ c = CSIZE - 1)

(* match reads on until a state accepts (and a string until its end, the   *)
(* symbol 0); trace::traverse collects the rules of all states it enters.  *)
Stops(c) == \/ kind = "string" /\ c = 0
            \/ kind \in {"range", "string"} /\ accepted # {}

LookUp(c) ==
  /\ pc = "walk" /\ inputs < MAX_INPUTS /\ kind # "mixed_b"
  /\ ~ Stops(c)
  /\ \E next \in GetNext(kind, edges[state], c) :
       /\ state' = next
       /\ accepted' = accepted \cup dfa.accepted[next]
  /\ inputs' = inputs + 1
  /\ LET q == dfa.table[ref.state][c]
     IN ref' = [state |-> q, accepted |-> ref.accepted \cup dfa.accepted[q]]
  /\ misled' = (misled \/ Misses(kind, dfa.table[state], edges[state], c))
  /\ UNCHANGED <<dfa, kind, pc, s, edges, heap>>

Destroy ==
  /\ pc = "walk" /\ kind \in CountedKinds
  /\ pc' = "destroyed"
  /\ heap' = {x \in heap : ~ Deleted(kind, x[2])}
  /\ UNCHANGED <<dfa, kind, s, edges, walkVars>>

Next == EncodeState \/ EndOfBuild \/ (\E c \in Symbols : LookUp(c)) \/ Destroy

Spec == Init /\ [][Next]_vars

-----------------------------------------------------------------------------
(* getNext of every class answers what the table holds, but for the places *)
(* `Misses' names: the last symbol when no smaller symbol has its target   *)
(* (forOneState, every class), which leads to state 0; negative chars      *)
(* (match); the types whose structure getNext takes for another; what      *)
(* ORleDfa shifts.  BitCmpDfa cannot even be built for a lost symbol.  A   *)
(* traversal that meets no such place is where the table would be and has  *)
(* found the rules the table would report, for match up to the first.      *)
LookupsAnswerTheTable ==
  /\ ~ misled => state = ref.state /\ accepted = ref.accepted
  /\ pc = "crashed" => \E c \in Symbols : IsLost(dfa.table[s], c)
  /\ \A q \in DOMAIN edges, c \in Symbols :
       LET row == dfa.table[q]
           answers == GetNext(kind, edges[q], c)
       IN kind # "mixed_b" =>
            /\ ~ Misses(kind, row, edges[q], c) => answers = {row[c]}
            /\ IsLost(row, c) /\ (kind = "mixed" => edges[q].type \notin WildTypes)
                 => answers = {0}

(* getMemSize counts the objects in use but for those no field points to;  *)
(* the destructor leaves exactly these and the array of types: a leak of   *)
(* RLE_RANGE bytes for every state of type 3 and of a range for every lost *)
(* symbol.                                                                 *)
SizeIsWhatIsUsed ==
  LET used == {x \in heap : x[2] \notin {"r_edge", "rle_range_list"}}
  IN kind \in CountedKinds =>
       /\ pc = "walk" => MemSize = MapThenSumSet(LAMBDA x : x[3], used)
       /\ pc = "destroyed" =>
            /\ used \subseteq {<<-1, "types", dfa.size>>}
            /\ \A q \in DOMAIN edges :
                 /\ <<q, "r_edge", SAMPLE_RANGE>> \in heap
                      <=> \E c \in Symbols : IsLost(dfa.table[q], c)
                 /\ <<q, "rle_range_list", RLE_RANGE>> \in heap
                      <=> "type" \in DOMAIN edges[q] /\ edges[q].type = 3
=============================================================================
