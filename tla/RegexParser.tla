---------------------------- MODULE RegexParser -----------------------------
(***************************************************************************)
(* regex_parser: the regular expressions of a rule file, read one by one,  *)
(* become one NFA.  parse_re recurses on groups and alternatives; its      *)
(* calls are the frames of a stack here, and one pass through its loop is  *)
(* one action.  The characters of an expression are abstracted to tokens:  *)
(* what process_escape, process_range and process_quantifier make of them. *)
(***************************************************************************)
EXTENDS NfaHeap

CONSTANTS RuleFiles,    \* rule files: the lines, each with `tilde' (is it
                        \* anchored?) and `tokens', and the options i_modifier
                        \* (ignore case) and m_modifier (what is anchored
                        \* matches after a newline, too)
          CaseTwin,     \* the other case of a letter, a symbol itself otherwise
          Newlines      \* '\n' and '\r'

ASSUME ModifierAssumption ==
  /\ CaseTwin \in [Symbols -> Symbols]
  /\ Newlines \subseteq Symbols

VARIABLES file,    \* the rule file and the options it is read with
          rule,    \* number of expressions that have been begun
          ptr,     \* position in the tokens of the expression
          frames,  \* calls of parse_re, the innermost last
          heap,    \* the NFA objects
          parsed,  \* the machine parse_re returned for the whole expression
          pc

vars == <<file, rule, ptr, frames, heap, parsed, pc>>

NULL == 0

(* parse: nfa with its two successors, made before the file is read *)
nfa          == 1
non_anchored == 2
anchored     == 3

StartHeap ==
  LET one == AddEpsilon(NewNfa(EmptyHeap).heap, nfa)
  IN AddEpsilon(one.heap, nfa).heap

-----------------------------------------------------------------------------
(* Tokens.  An atom stands for the symbols its transition is labeled with. *)
Repetitions == {"star", "opt", "plus", "quantifier"}
AtomKinds   == {"char", "escape", "range", "any"}

WithTwins(S) == IF file.i_modifier THEN S \cup {CaseTwin[c] : c \in S} ELSE S

(* process_range adds the twins before it negates, add_transition after *)
InRange(t) == IF t.negate THEN Symbols \ WithTwins(t.symbols) ELSE WithTwins(t.symbols)

AtomSymbols(t) ==
  IF t.kind = "any" THEN Symbols
  ELSE WithTwins(IF t.kind = "range" THEN InRange(t) ELSE t.symbols)

Tokens == file.lines[rule].tokens

AtEndOfRegex == ptr > Len(Tokens)

Kind(i) == IF i \in DOMAIN Tokens THEN Tokens[i].kind ELSE "end"

Bounds(t) ==
  CASE t.kind = "star"       -> <<0, _INFINITY>>
    [] t.kind = "opt"        -> <<0, 1>>
    [] t.kind = "plus"       -> <<1, _INFINITY>>
    [] t.kind = "quantifier" -> <<t.lb, t.ub>>

-----------------------------------------------------------------------------
Frame(fa, bracket, use) ==
  [fa |-> fa, to_link |-> NULL, open_b |-> bracket, close_b |-> FALSE, use |-> use]

Top == frames[Len(frames)]

(* A call of parse_re begins with a new NFA; `use' is what the caller will *)
(* do with the machine that is returned.                                   *)
Call(bracket, use) ==
  LET new == NewNfa(heap)
  IN /\ heap' = new.heap
     /\ frames' = Append(frames, Frame(new.at, bracket, use))

(* One pass through the loop that leaves fa at r.at *)
Advance(r) ==
  /\ heap' = r.heap
  /\ frames' = [frames EXCEPT ![Len(frames)].fa = r.at]
  /\ ptr' = ptr + 1
  /\ UNCHANGED <<file, rule, parsed, pc>>

(* The call returns the machine r: the caller links it or ors with it. *)
Return(r) ==
  IF Len(frames) = 1
    THEN /\ heap' = r.heap
         /\ frames' = <<>>
         /\ parsed' = r.at
    ELSE LET n      == Len(frames) - 1
             caller == frames[n].fa
             joined == IF Top.use = "link"
                         THEN Link(r.heap, GetLast(r.heap, caller), r.at)
                         ELSE MakeOr(r.heap, caller, r.at)
         IN /\ heap' = joined.heap
            /\ frames' = [SubSeq(frames, 1, n) EXCEPT ![n].fa = joined.at]
            /\ UNCHANGED parsed

Init ==
  /\ file \in RuleFiles
  /\ rule = 0
  /\ ptr = 1
  /\ frames = <<>>
  /\ heap = StartHeap
  /\ parsed = NULL
  /\ pc = "file"

(* parse_re(nfa, re): the next expression of the file *)
NextRegex ==
  /\ pc = "file" /\ rule < Len(file.lines)
  /\ rule' = rule + 1
  /\ ptr' = 1
  /\ pc' = "regex"
  /\ Call(FALSE, "rule")
  /\ UNCHANGED <<file, parsed>>

-----------------------------------------------------------------------------
Reading == pc = "regex" /\ frames # <<>> /\ ~heap.endless

AtAtom == Reading /\ Kind(ptr) \in AtomKinds

(* An atom that no repetition follows is appended to fa. *)
AppendAtom ==
  /\ AtAtom /\ Kind(ptr + 1) \notin Repetitions
  /\ Advance(AddTransitions(heap, Top.fa, AtomSymbols(Tokens[ptr])))

(* An atom that is repeated becomes a machine of its own. *)
HoldAtom ==
  /\ AtAtom /\ Kind(ptr + 1) \in Repetitions
  /\ LET new  == NewNfa(heap)
         atom == AddTransitions(new.heap, new.at, AtomSymbols(Tokens[ptr]))
     IN /\ heap' = atom.heap
        /\ frames' = [frames EXCEPT ![Len(frames)].to_link = atom.at]
  /\ ptr' = ptr + 1
  /\ UNCHANGED <<file, rule, parsed, pc>>

AtRepetition == Reading /\ Kind(ptr) \in Repetitions

(* fatal: the program ends *)
RejectRepetition ==
  /\ AtRepetition
  /\ RepIsFatal(Bounds(Tokens[ptr])[1], Bounds(Tokens[ptr])[2])
  /\ pc' = "fatal"
  /\ UNCHANGED <<file, rule, ptr, frames, heap, parsed>>

Repeated(h, m) ==
  LET b == Bounds(Tokens[ptr]) IN MakeRep(h, m, b[1], b[2])

RepeatAtom ==
  /\ AtRepetition /\ ~Top.close_b /\ Top.to_link # NULL
  /\ ~RepIsFatal(Bounds(Tokens[ptr])[1], Bounds(Tokens[ptr])[2])
  /\ LET r      == Repeated(heap, Top.to_link)
         linked == Link(r.heap, Top.fa, r.at)
     IN /\ heap' = linked.heap
        /\ frames' = [frames EXCEPT ![Len(frames)].to_link = r.at,
                                    ![Len(frames)].fa = linked.at]
  /\ ptr' = ptr + 1
  /\ UNCHANGED <<file, rule, parsed, pc>>

RepeatGroup ==
  /\ AtRepetition /\ Top.close_b
  /\ ~RepIsFatal(Bounds(Tokens[ptr])[1], Bounds(Tokens[ptr])[2])
  /\ Return(Repeated(heap, Top.fa))
  /\ ptr' = ptr + 1
  /\ UNCHANGED <<file, rule, pc>>

OpenGroup ==
  /\ Reading /\ Kind(ptr) = "open"
  /\ Call(TRUE, "link")
  /\ ptr' = ptr + 1
  /\ UNCHANGED <<file, rule, parsed, pc>>

Alternative ==
  /\ Reading /\ Kind(ptr) = "or"
  /\ Call(FALSE, "or")
  /\ ptr' = ptr + 1
  /\ UNCHANGED <<file, rule, parsed, pc>>

(* A closing bracket ends the group, unless a repetition follows; the call *)
(* that reads an alternative leaves it to the one that opened the group.   *)
CloseGroup ==
  /\ Reading /\ Kind(ptr) = "close" /\ Top.open_b
  /\ Kind(ptr + 1) \notin Repetitions
  /\ Return(At(heap, Top.fa))
  /\ ptr' = ptr + 1
  /\ UNCHANGED <<file, rule, pc>>

CloseRepeatedGroup ==
  /\ Reading /\ Kind(ptr) = "close" /\ Top.open_b
  /\ Kind(ptr + 1) \in Repetitions
  /\ frames' = [frames EXCEPT ![Len(frames)].close_b = TRUE]
  /\ ptr' = ptr + 1
  /\ UNCHANGED <<file, rule, heap, parsed, pc>>

EndAlternative ==
  /\ Reading /\ Kind(ptr) = "close" /\ ~Top.open_b
  /\ Return(At(heap, Top.fa))
  /\ UNCHANGED <<file, rule, ptr, pc>>

EndOfRegex ==
  /\ Reading /\ AtEndOfRegex
  /\ Return(At(heap, GetFirst(heap, Top.fa)))
  /\ UNCHANGED <<file, rule, ptr, pc>>

(* The end of the machine accepts the rule, its beginning follows the node *)
(* for the expressions that are, or are not, anchored.                     *)
EnterRule ==
  /\ pc = "regex" /\ frames = <<>>
  /\ LET accepted == Accept(heap, GetLast(heap, parsed), rule)
         from     == IF file.lines[rule].tilde THEN anchored ELSE non_anchored
     IN heap' = AddEpsilonTo(accepted, from, GetFirst(heap, parsed))
  /\ parsed' = NULL
  /\ pc' = "file"
  /\ UNCHANGED <<file, rule, ptr, frames>>

AfterNewlines(h) ==
  IF file.m_modifier /\ Connected(h.node[anchored])
    THEN [h EXCEPT !.node[non_anchored].transitions = @ \cup (Newlines \X {anchored})]
    ELSE h

(* The node for what is not anchored goes, or loops on every symbol. *)
EndOfFile ==
  /\ pc = "file" /\ rule = Len(file.lines)
  /\ LET h == AfterNewlines(heap)
     IN heap' = IF Connected(h.node[non_anchored])
                  THEN AddTransitionsTo(h, non_anchored, Symbols, non_anchored)
                  ELSE Delete([h EXCEPT !.node[nfa].epsilon =
                                 SelectSeq(@, LAMBDA m : m # non_anchored)],
                              non_anchored)
  /\ pc' = "done"
  /\ UNCHANGED <<file, rule, ptr, frames, parsed>>

Next == \/ NextRegex \/ AppendAtom \/ HoldAtom
        \/ RejectRepetition \/ RepeatAtom \/ RepeatGroup
        \/ OpenGroup \/ Alternative
        \/ CloseGroup \/ CloseRepeatedGroup \/ EndAlternative
        \/ EndOfRegex \/ EnterRule \/ EndOfFile

(* parse has returned, or fatal has ended the program. *)
Ended == pc \in {"done", "fatal"} /\ UNCHANGED vars

Spec == Init /\ [][Next \/ Ended]_vars

-----------------------------------------------------------------------------
(***************************************************************************)
(* The NFA that is built, read as nfa.h describes it.                      *)
(***************************************************************************)
RECURSIVE Closure(_, _, _)
Closure(h, new, seen) ==
  IF new = {} THEN seen
  ELSE LET all == seen \cup new
       IN Closure(h, UNION {ToSet(h.node[n].epsilon) : n \in new} \ all, all)

RulesOf(h, active) == UNION {h.node[n].accepting : n \in active}

OnSymbol(h, active, c) ==
  Closure(h, UNION {{t[2] : t \in {x \in h.node[n].transitions : x[1] = c}} :
                      n \in active}, {})

(* The words that continue w by at most `more' symbols, each with a rule   *)
(* that is reported after it; `active' are the states after w.             *)
RECURSIVE ReportsAfter(_, _, _, _)
ReportsAfter(h, w, active, more) ==
  {<<w, r>> : r \in RulesOf(h, active)}
    \cup (IF more = 0 THEN {}
          ELSE UNION {ReportsAfter(h, Append(w, c), OnSymbol(h, active, c), more - 1) :
                        c \in Symbols})

Reports(h, longest) ==
  ReportsAfter(h, <<>>, Closure(h, {GetFirst(h, nfa)}, {}), longest)

Live == DOMAIN heap.node \ {n \in DOMAIN heap.node : heap.node[n].deleted}

(***************************************************************************)
(* Properties.                                                             *)
(***************************************************************************)

(* No NFA object that is still in use, by the file's NFA or by a call of   *)
(* parse_re, leads to an object that was deleted (by link, at the end of   *)
(* the file, or when the NFA is reduced): not by a transition and, as long *)
(* as the file is read, not by its pointers to first and last either.      *)
InUse ==
  UNION ({Traverse(heap, nfa)}
         \cup {Traverse(heap, GetFirst(heap, f.fa)) : f \in ToSet(frames)}
         \cup (IF parsed = NULL THEN {} ELSE {Traverse(heap, GetFirst(heap, parsed))}))

NothingDeletedIsInUse ==
  \A n \in InUse :
     /\ n \in Live
     /\ pc \in {"file", "regex", "done"} =>
          {heap.node[n].first, heap.node[n].last} \subseteq Live

(* In the machine of every call, get_last of the first state is the state  *)
(* the call goes on from: the pointers are updated at the ends of a        *)
(* machine only, and make_dup, link and accept rely on following them.     *)
PointersMeet ==
  \A f \in ToSet(frames) :
     LET first == GetFirst(heap, f.fa)
     IN heap.node[first].first = first /\ GetLast(heap, first) = f.fa

(* Every copy that make_dup makes is the same on each run of the program,  *)
(* and has an end.  While the file is read the labeled transitions of a    *)
(* state lead to one state only: dup_state takes the first of them in the  *)
(* order of their addresses.  And get_last, which recurses along the last  *)
(* pointers, meets no circle of them.                                      *)
CopiesAreDetermined ==
  /\ pc \in {"file", "regex"} =>
       \A n \in Live : Cardinality({t[2] : t \in heap.node[n].transitions}) <= 1
  /\ ~heap.endless
=============================================================================
