-------------------------------- MODULE FbDfa --------------------------------
(***************************************************************************)
(* The way of main_fpga_2 from minimized DFAs to the memory of the FPGA:   *)
(* every DFA is rewritten to read half a byte at a time (Fb_DFA), reduced  *)
(* (minimise2), merged with others as long as the product fits into one    *)
(* block of memory (converge, greedy_group), and written as the image of   *)
(* the block (to_BRAM), with a table that maps accepting states to the     *)
(* expressions; runtime_fpga reads both back.                              *)
(*                                                                         *)
(* One step is the compilation of a list of expressions, the sort, one     *)
(* call of converge, one block written, one file read, or a byte of input. *)
(***************************************************************************)
EXTENDS Automata, FiniteSetsExt

CONSTANTS Lists,                 \* lists of minimized DFAs, one per expression
          NIBBLE,                \* values of half a byte (16)
          MAX_STATES_NUMBER,     \* states in a block (212)
          MAX_BIG_SATES_NUMBER,  \* of these, with more than two targets (100)
          BRAM_NUM_SINGLE_UNIT,  \* blocks in a unit (60)
          UNIT_NUMBER            \* units (28)

ASSUME FbAssumption ==
  /\ {NIBBLE, MAX_STATES_NUMBER, MAX_BIG_SATES_NUMBER, BRAM_NUM_SINGLE_UNIT,
      UNIT_NUMBER} \subseteq Nat \ {0}
  /\ MAX_BIG_SATES_NUMBER <= MAX_STATES_NUMBER
  /\ MAX_STATES_NUMBER <= 256

Nibbles == 0 .. NIBBLE - 1
Bytes == 0 .. NIBBLE * NIBBLE - 1

(* What minimize leaves; of dead_state nothing is promised.                *)
ASSUME ListsAssumption ==
  \A list \in Lists :
    /\ list \in Seq({list[e] : e \in DOMAIN list})
    /\ \A e \in DOMAIN list :
         /\ list[e].size \in Nat \ {0}
         /\ list[e].table \in [StatesOf(list[e]) -> [Bytes -> StatesOf(list[e])]]
         /\ list[e].dead_state \in Int

VARIABLES
  dfas,           \* the DFAs of the expressions that fit; expression e is
                  \* dfas[e + 1], and e its ind_prefixdfa_single
  tem_lis,        \* their Fb_DFAs, the largest first,
  converged,      \* and the places where there is a nullptr by now
  big_i, small_j, \* the loops of greedy_group
  dfa,            \* what dfas have been converged to
  target_dfas,
  stt,            \* fpga_stt.bin: the images of the blocks
  mapping_table,
  brams,          \* brams[p]: which image is in block p of the FPGA, or none
  loaded,         \* mapping_table of the runtime
  copy,           \* which copy of the blocks is watched,
  states,         \* where the DFAs of the expressions are,
  words,          \* the word read last from every block of the copy, and
  early,          \* whether one accepted between the halves of a byte
  fpga            \* where the tool chain is, "crashed" included

runVars == <<copy, states, words, early>>
fbVars == <<dfas, tem_lis, converged, big_i, small_j, dfa, target_dfas, stt,
            mapping_table, brams, loaded, runVars, fpga>>

-----------------------------------------------------------------------------
(***************************************************************************)
(* Fb_DFA: every state is followed by one state for each first half.       *)
(***************************************************************************)
WIDTH == NIBBLE + 1

Byte(high, low) == NIBBLE * high + low

FromDfa(D) ==
  LET States == 0 .. WIDTH * D.size - 1
  IN [size        |-> WIDTH * D.size,
      table       |-> [x \in States |-> [n \in Nibbles |->
                         IF x % WIDTH = 0 THEN x + n + 1
                         ELSE WIDTH * D.table[x \div WIDTH][Byte((x % WIDTH) - 1, n)]]],
      is_accept   |-> {WIDTH * s : s \in {q \in StatesOf(D) : D.accepted[q] # {}}},
      accept_list |-> [x \in States |-> <<>>],
      dead_state  |-> IF D.dead_state \in StatesOf(D) THEN WIDTH * D.dead_state
                                                      ELSE NO_STATE]

Targets(A, s) == {A.table[s][n] : n \in DOMAIN A.table[s]}

is_bigstate(A, s) == Cardinality(Targets(A, s)) > 2

get_large_states_num(A) == Cardinality({s \in StatesOf(A) : is_bigstate(A, s)})

small_enough(A) ==
  /\ A.size <= MAX_STATES_NUMBER
  /\ get_large_states_num(A) <= MAX_BIG_SATES_NUMBER

-----------------------------------------------------------------------------
(***************************************************************************)
(* minimise2, and minimize_do_not_dis_accept, which is the same for DFAs:  *)
(* the partition begins with the accepting states and the others and is    *)
(* refined until no two states of a block are told apart.  A partition is  *)
(* the number of the block of every state; the states of a block are in    *)
(* order.                                                                  *)
(***************************************************************************)
FirstPartition(A) == [s \in StatesOf(A) |-> IF s \in A.is_accept THEN 0 ELSE 1]

(* A slip to compare with: only the first symbol is looked at.             *)
ByFirstSymbol(A, belong, s) == belong[A.table[s][0]]

BlocksReached(A, belong, s) == [n \in DOMAIN A.table[s] |-> belong[A.table[s][n]]]

Alike(A, belong, s, t) ==
  /\ belong[s] = belong[t]
  /\ BlocksReached(A, belong, s) = BlocksReached(A, belong, t)

Former(A, belong, s) == Min({t \in StatesOf(A) : Alike(A, belong, s, t)})

(* One round: a state joins the block of an earlier state of its old block *)
(* that leads to the same blocks, or begins a new one.  Blocks are walked  *)
(* in order, and the states of each.                                       *)
Distinguished(A, belong) ==
  LET beginning == {Former(A, belong, s) : s \in StatesOf(A)}
      Before(t, s) == belong[t] < belong[s] \/ (belong[t] = belong[s] /\ t < s)
  IN [s \in StatesOf(A) |-> Cardinality({t \in beginning : Before(t, Former(A, belong, s))})]

(* "record Pk == Pk-1".                                                    *)
has_distinguish(belong, next) == belong # next

FinalPartition(A) ==
  LET round[k \in 0 .. A.size] ==
        IF k = 0 THEN FirstPartition(A)
        ELSE LET belong == round[k - 1]
                 next == Distinguished(A, belong)
             IN IF has_distinguish(belong, next) THEN next ELSE belong
  IN round[A.size]

(* The block of state 0 is state 0, blocks with the dead or an accepting   *)
(* state come next, in the order of their numbers, then the others.        *)
Turn(A, belong, s) ==
  IF belong[s] = belong[0] THEN 0
  ELSE IF \E t \in StatesOf(A) \cap (A.is_accept \cup {A.dead_state}) : belong[t] = belong[s]
         THEN 1 ELSE 2

Blocks(A, belong) ==
  {[front |-> s, number |-> belong[s], turn |-> Turn(A, belong, s)] :
     s \in {q \in StatesOf(A) : \A t \in 0 .. q - 1 : belong[t] # belong[q]}}

(* The state that stands for the block with this number.                   *)
partition_state_map(blocks, number) ==
  LET block == CHOOSE b \in blocks : b.number = number
  IN Cardinality({b \in blocks : \/ b.turn < block.turn
                                 \/ b.turn = block.turn /\ b.number < number})

(* The block of the accepting states is there even if it is empty; no      *)
(* symbol has a target in the state that stands for it: front() of the     *)
(* empty list is 0 in this library.  No state has a list of rules yet.     *)
Reduced(A) ==
  LET belong == FinalPartition(A)
      blocks == Blocks(A, belong)
      New(s) == partition_state_map(blocks, belong[s])
      size == IF A.is_accept = {} THEN Cardinality(blocks) + 1 ELSE Cardinality(blocks)
      Front(k) == (CHOOSE b \in blocks : partition_state_map(blocks, b.number) = k).front
  IN [size        |-> size,
      table       |-> [k \in 0 .. size - 1 |-> [n \in DOMAIN A.table[0] |->
                         IF k < Cardinality(blocks) THEN New(A.table[Front(k)][n])
                                                    ELSE NO_STATE]],
      is_accept   |-> {New(s) : s \in A.is_accept},
      accept_list |-> [k \in 0 .. size - 1 |-> <<>>],
      dead_state  |-> IF A.dead_state = NO_STATE THEN NO_STATE ELSE New(A.dead_state)]

-----------------------------------------------------------------------------
(***************************************************************************)
(* bram_compatible of every expression.  One that does not fit is cut and  *)
(* compiled anew by the caller: it is another expression then.  main       *)
(* numbers the others, and greedy_group begins with init_accept_rules.     *)
(***************************************************************************)
bram_compatible(D) ==
  2 * D.size <= MAX_STATES_NUMBER /\ small_enough(Reduced(FromDfa(D)))

ThoseThatFit ==
  LET fit == {e \in DOMAIN dfas : bram_compatible(dfas[e])}
      Nth(n) == CHOOSE e \in fit : Cardinality({d \in fit : d < e}) = n - 1
  IN [n \in 1 .. Cardinality(fit) |-> dfas[Nth(n)]]

init_accept_rules(A, e) ==
  [A EXCEPT !.accept_list =
     [s \in StatesOf(A) |-> IF s \in A.is_accept THEN Append(@[s], e) ELSE <<>>]]

(* qsort may leave automata of one size in any order.                      *)
LargestFirst(fbs) ==
  {sorted \in {[k \in DOMAIN fbs |-> fbs[perm[k]]] : perm \in Bijection(DOMAIN fbs, DOMAIN fbs)} :
     \A k, l \in DOMAIN fbs : k < l => sorted[k].size >= sorted[l].size}

Compile ==
  /\ fpga = "compile"
  /\ dfas' = ThoseThatFit
  /\ tem_lis' \in LargestFirst([e \in DOMAIN ThoseThatFit |->
                       init_accept_rules(Reduced(FromDfa(ThoseThatFit[e])), e - 1)])
  /\ fpga' = "group"
  /\ UNCHANGED <<converged, big_i, small_j, dfa, target_dfas, stt, mapping_table, brams,
                 loaded, runVars>>

-----------------------------------------------------------------------------
(***************************************************************************)
(* converge: the product, unless the automata are too large for it to be   *)
(* tried, or it gets too large.  States are numbered as pairs are met.     *)
(***************************************************************************)
None == [size |-> 0]

Tried(A, B) ==
  /\ 5 * (A.size + B.size) <= 6 * MAX_STATES_NUMBER
  /\ 5 * (get_large_states_num(A) + get_large_states_num(B)) <= 6 * MAX_BIG_SATES_NUMBER

(* The pairs in the order in which they are met; construction ends when    *)
(* there are too many.                                                     *)
Met(pairs, p) == IF \E k \in DOMAIN pairs : pairs[k] = p THEN pairs ELSE Append(pairs, p)

Destination(A, B, p, n) == <<A.table[p[1]][n], B.table[p[2]][n]>>

MetFrom(A, B, pairs, p) ==
  LET after[n \in 0 .. NIBBLE] ==
        IF n = 0 THEN pairs ELSE Met(after[n - 1], Destination(A, B, p, n - 1))
  IN after[NIBBLE]

PairsMet(A, B) ==
  LET met[k \in 0 .. MAX_STATES_NUMBER + 1] ==
        IF k = 0 THEN <<<<0, 0>>>>
        ELSE LET pairs == met[k - 1]
             IN IF k > Len(pairs) THEN pairs ELSE MetFrom(A, B, pairs, pairs[k])
  IN met[MAX_STATES_NUMBER + 1]

try_insert_new_accept(A, B, p) == A.accept_list[p[1]] \o B.accept_list[p[2]]

Product(A, B) ==
  LET pairs == PairsMet(A, B)
      Number(p) == CHOOSE k \in 0 .. Len(pairs) - 1 : pairs[k + 1] = p
      Of(s) == pairs[s + 1]
      States == 0 .. Len(pairs) - 1
  IN IF Len(pairs) > MAX_STATES_NUMBER THEN None
     ELSE [size        |-> Len(pairs),
           table       |-> [s \in States |-> [n \in Nibbles |->
                              Number(Destination(A, B, Of(s), n))]],
           is_accept   |-> {s \in States : Of(s)[1] \in A.is_accept \/ Of(s)[2] \in B.is_accept},
           accept_list |-> [s \in States |-> try_insert_new_accept(A, B, Of(s))],
           dead_state  |-> NO_STATE]

converge(A, B) ==
  IF ~ Tried(A, B) THEN None
  ELSE LET new_dfa == Product(A, B)
       IN IF new_dfa = None THEN None ELSE IF small_enough(new_dfa) THEN new_dfa ELSE None

-----------------------------------------------------------------------------
(***************************************************************************)
(* greedy_group: the largest automaton left takes in all the smaller ones  *)
(* it can.                                                                 *)
(***************************************************************************)
groupVars == <<dfas, tem_lis, stt, mapping_table, brams, loaded, runVars>>

BeginGroup ==
  /\ fpga = "group" /\ big_i <= Len(tem_lis)
  /\ IF big_i \in converged \/ ~ small_enough(tem_lis[big_i])
       THEN big_i' = big_i + 1 /\ UNCHANGED <<small_j, dfa, fpga>>
       ELSE /\ dfa' = tem_lis[big_i] /\ small_j' = big_i + 1
            /\ fpga' = "converge" /\ UNCHANGED big_i
  /\ UNCHANGED <<groupVars, converged, target_dfas>>

Converge ==
  /\ fpga = "converge" /\ small_j <= Len(tem_lis)
  /\ LET new_dfa == IF small_j \in converged THEN None
                                             ELSE converge(dfa, tem_lis[small_j])
     IN IF new_dfa = None
          THEN UNCHANGED <<dfa, converged>>
          ELSE dfa' = new_dfa /\ converged' = converged \cup {small_j}
  /\ small_j' = small_j + 1
  /\ UNCHANGED <<groupVars, big_i, target_dfas, fpga>>

EndGroup ==
  /\ fpga = "converge" /\ small_j > Len(tem_lis)
  /\ target_dfas' = Append(target_dfas, dfa)
  /\ big_i' = big_i + 1
  /\ fpga' = "group"
  /\ UNCHANGED <<groupVars, converged, small_j, dfa>>

-----------------------------------------------------------------------------
(***************************************************************************)
(* to_BRAM: states with more than two targets come first.  The first       *)
(* MAX_BIG_SATES_NUMBER states have a word per symbol, the others a bit    *)
(* per symbol and two targets.  A target is 8 bits wide and is followed by *)
(* a bit that says whether it accepts.                                     *)
(***************************************************************************)
NewNumberOf(A, s) ==
  IF is_bigstate(A, s)
    THEN Cardinality({t \in StatesOf(A) : t < s /\ is_bigstate(A, t)})
    ELSE get_large_states_num(A)
         + Cardinality({t \in StatesOf(A) : t < s /\ ~ is_bigstate(A, t)})

OldState(A, k) == CHOOSE s \in StatesOf(A) : NewNumberOf(A, s) = k

(* A slip to compare with: the number of the target before renumbering.    *)
WordOfOld(A, t) == <<t % 256, t \in A.is_accept>>

TargetWord(A, t) == <<NewNumberOf(A, t) % 256, t \in A.is_accept>>

NoTargetWord == <<NO_STATE % 256, FALSE>>

(* The second target is the last one that differs from the first.          *)
BitmapOf(A, row) ==
  LET others == {n \in Nibbles : row[n] # row[0]}
  IN [bits |-> others, first |-> TargetWord(A, row[0]),
      second |-> IF others = {} THEN NoTargetWord ELSE TargetWord(A, row[Max(others)])]

ImageOf(A) ==
  [k \in StatesOf(A) |->
     LET row == A.table[OldState(A, k)]
     IN IF k < MAX_BIG_SATES_NUMBER
          THEN [words |-> [n \in Nibbles |-> TargetWord(A, row[n])]]
          ELSE BitmapOf(A, row)]

(* The lists of the accepting states of block i, by their new numbers.     *)
KeysOf(A, i) == {i * MAX_STATES_NUMBER + NewNumberOf(A, s) : s \in A.is_accept}

ListOfKey(A, i, key) == A.accept_list[OldState(A, key - i * MAX_STATES_NUMBER)]

(* A target NO_STATE is read through the array map, far outside of it, and *)
(* the image of an automaton that is too large would be written from NULL. *)
CannotBeWritten(A) ==
  ~ small_enough(A) \/ \E s \in StatesOf(A) : NO_STATE \in Targets(A, s)

ToBram ==
  /\ fpga = "group" /\ big_i > Len(tem_lis) /\ Len(stt) < Len(target_dfas)
  /\ LET i == Len(stt)
         A == target_dfas[i + 1]
     IN IF CannotBeWritten(A)
          THEN fpga' = "crashed" /\ UNCHANGED <<stt, mapping_table>>
          ELSE /\ stt' = Append(stt, ImageOf(A))
               /\ mapping_table' = [key \in KeysOf(A, i) \cup DOMAIN mapping_table |->
                                      IF key \in KeysOf(A, i) THEN ListOfKey(A, i, key)
                                                              ELSE mapping_table[key]]
               /\ UNCHANGED fpga
  /\ UNCHANGED <<dfas, tem_lis, converged, big_i, small_j, dfa, target_dfas, brams, loaded,
                 runVars>>

-----------------------------------------------------------------------------
(***************************************************************************)
(* The runtime.  load_mapping counts the elements of a line only in a      *)
(* comment, so all of them are taken for the key, from the same place: the *)
(* lists stay empty.                                                       *)
(***************************************************************************)
LoadMapping ==
  /\ fpga = "group" /\ big_i > Len(tem_lis) /\ Len(stt) = Len(target_dfas)
  /\ loaded' = [key \in DOMAIN mapping_table |-> <<>>]
  /\ fpga' = "load"
  /\ UNCHANGED <<dfas, tem_lis, converged, big_i, small_j, dfa, target_dfas, stt,
                 mapping_table, brams, runVars>>

need_unit_num ==
  IF Len(stt) % BRAM_NUM_SINGLE_UNIT = 0 THEN Len(stt) \div BRAM_NUM_SINGLE_UNIT
                                         ELSE Len(stt) \div BRAM_NUM_SINGLE_UNIT + 1

copy_num == UNIT_NUMBER \div need_unit_num

BlockAt(i, c) == i + c * need_unit_num * BRAM_NUM_SINGLE_UNIT

(* write_to_fpga_bram in the order of the loops: a later image would stay. *)
WrittenTo(p) ==
  {i \in 0 .. Len(stt) - 1 : \E c \in 0 .. copy_num - 1 : BlockAt(i, c) = p}

(* Where the hardware begins to read a block: where state 0 has been moved *)
(* to, which no file says.                                                 *)
StartOf(i) == NewNumberOf(target_dfas[i + 1], 0)

(* Without an image copy_num is divided by zero; stts has room for one     *)
(* copy in all units.                                                      *)
LoadStt ==
  /\ fpga = "load"
  /\ IF Len(stt) = 0 \/ Len(stt) > BRAM_NUM_SINGLE_UNIT * UNIT_NUMBER
       THEN fpga' = "crashed" /\ UNCHANGED <<brams, runVars>>
       ELSE /\ brams' = [p \in 0 .. BRAM_NUM_SINGLE_UNIT * UNIT_NUMBER - 1 |->
                           IF WrittenTo(p) = {} THEN NO_STATE ELSE Max(WrittenTo(p))]
            /\ copy' \in 0 .. copy_num - 1
            /\ states' = [e \in DOMAIN dfas |-> 0]
            /\ words' = [i \in 0 .. Len(stt) - 1 |-> <<StartOf(i), FALSE>>]
            /\ early' = FALSE
            /\ fpga' = "loaded"
  /\ UNCHANGED <<dfas, tem_lis, converged, big_i, small_j, dfa, target_dfas, stt,
                 mapping_table, loaded>>

(* Reading the blocks, as the hardware does (external): a byte is read as  *)
(* two halves by every block of a copy.                                    *)
WordRead(image, k, n) ==
  IF k < MAX_BIG_SATES_NUMBER THEN image[k].words[n]
  ELSE IF n \in image[k].bits THEN image[k].second ELSE image[k].first

ImageAt(i) == stt[brams[BlockAt(i, copy)] + 1]

HalfRead(i, high) == WordRead(ImageAt(i), words[i][1], high)

ReadByte(high, low) ==
  /\ fpga \in {"loaded", "running"}
  /\ states' = [e \in DOMAIN dfas |-> dfas[e].table[states[e]][Byte(high, low)]]
  /\ words' = [i \in DOMAIN words |-> WordRead(ImageAt(i), HalfRead(i, high)[1], low)]
  /\ early' = \E i \in DOMAIN words : HalfRead(i, high)[2]
  /\ fpga' = "running"
  /\ UNCHANGED <<dfas, tem_lis, converged, big_i, small_j, dfa, target_dfas, stt,
                 mapping_table, brams, loaded, copy>>

-----------------------------------------------------------------------------
NothingDone ==
  /\ tem_lis = <<>> /\ converged = {} /\ big_i = 1 /\ small_j = 1
  /\ dfa = None /\ target_dfas = <<>> /\ stt = <<>>
  /\ mapping_table = <<>> /\ brams = <<>> /\ loaded = <<>>
  /\ copy = 0 /\ states = <<>> /\ words = <<>> /\ early = FALSE

InitFpga == dfas \in Lists /\ NothingDone /\ fpga = "compile"

NextFpga ==
  \/ Compile \/ BeginGroup \/ Converge \/ EndGroup
  \/ ToBram \/ LoadMapping \/ LoadStt
  \/ \E high, low \in Nibbles : ReadByte(high, low)

SpecFpga == InitFpga /\ [][NextFpga]_fbVars

-----------------------------------------------------------------------------
(* The keys process_one_prefix_match looks up, and where the expression e  *)
(* stands in what they are mapped to.                                      *)
KeysReported ==
  {i * MAX_STATES_NUMBER + words[i][1] : i \in {b \in DOMAIN words : words[b][2]}}

Reports(e) ==
  {r \in UNION {{key} \X DOMAIN mapping_table[key] : key \in KeysReported} :
     mapping_table[r[1]][r[2]] = e}

(* Whatever the FPGA has read, every copy of the blocks reports, by the    *)
(* mapping that is written, each expression that ends here once and no     *)
(* other, nothing between the halves of a byte, and only keys the runtime  *)
(* finds: no expression is lost or doubled by reducing, sorting, grouping, *)
(* renumbering, or copying.                                                *)
FpgaReportsTheRules ==
  fpga = "running" =>
    /\ ~ early
    /\ KeysReported \subseteq DOMAIN loaded
    /\ \A e \in DOMAIN dfas :
         Cardinality(Reports(e - 1)) = IF dfas[e].accepted[states[e]] # {} THEN 1 ELSE 0
=============================================================================
