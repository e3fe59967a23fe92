-------------------------------- MODULE Pfac --------------------------------
(***************************************************************************)
(* What main does with a minimized automaton of anchored expressions:      *)
(* DFA::renumber gives the accepting states the smallest numbers, and the  *)
(* two PFAC traversals of trace.cpp read the input from every offset, one  *)
(* offset after the other or in four lanes, each until it meets dead_state *)
(* or the end.  They never look at accepted_rules: what a state is worth   *)
(* follows from max_accept_state and dead_state alone.                     *)
(*                                                                         *)
(* One step is the renumbering, or one lane's turn in the loop.            *)
(***************************************************************************)
EXTENDS Hopcroft, FiniteSetsExt, SequencesExt

CONSTANTS Renumbered,   \* the given automata that are renumbered
          Inputs        \* the input files, as sequences of symbols

ASSUME InputsAssumption == \A w \in Inputs : w \in Seq(Symbols)

VARIABLES
  phase,              \* "minimize", "renumbered", "one lane", "four lanes",
                      \* "counted" or "crashed"
  state_table,        \* the automaton renumbered, in place in the code,
  dead_state,         \* where accepted_rules is left as it was
  max_accept_state,   \* -1 is 2^32 - 1, when no state accepts
  lanes,              \* <<[state, off]>> of every lane
  turn,               \* the lane whose turn it is
  nxt_off,            \* the next offset nobody has started at
  data,               \* input_data
  matched_times

pfacVars == <<phase, state_table, dead_state, max_accept_state, lanes, turn, nxt_off, data,
              matched_times>>
allVars == <<vars, pfacVars>>

flen == Len(data)

-----------------------------------------------------------------------------
Empty(s) == dfa.accepted[s] = {}

(* old2new_state_map: the accepting states first, each kind in its order.  *)
NewNumber(s) ==
  IF Empty(s)
    THEN Cardinality({t \in StatesOf(dfa) : ~ Empty(t) \/ t < s})
    ELSE Cardinality({t \in StatesOf(dfa) : ~ Empty(t) /\ t < s})

OldNumber(n) == CHOOSE s \in StatesOf(dfa) : NewNumber(s) = n

NewRow(n) == [c \in Symbols |-> NewNumber(dfa.table[OldNumber(n)][c])]

(* dead_state goes through the map.  The map has _size + 5 entries, of     *)
(* which the last 5 are not initialised.                                   *)
NewDeadStates ==
  IF dfa.dead_state \in StatesOf(dfa)
    THEN {NewNumber(dfa.dead_state)}
    ELSE StatesOf(dfa) \cup {NO_STATE}

(* Without dead_state the index is 2^32 - 1, far outside of the map.       *)
Renumber ==
  /\ pc = "done" /\ phase = "minimize" /\ given \in Renumbered
  /\ IF dfa.dead_state \in 0 .. dfa.size + 4
       THEN /\ state_table' = [n \in StatesOf(dfa) |-> NewRow(n)]
            /\ dead_state' \in NewDeadStates
            /\ max_accept_state' = Cardinality({s \in StatesOf(dfa) : ~ Empty(s)}) - 1
            /\ phase' = "renumbered"
       ELSE /\ phase' = "crashed"
            /\ UNCHANGED <<state_table, dead_state, max_accept_state>>
  /\ UNCHANGED <<vars, lanes, turn, nxt_off, data, matched_times>>

-----------------------------------------------------------------------------
(* initial_state, and max_accept_state + 1 in the other traversal: there is *)
(* such a state, as dead_state came from one that does not accept.         *)
InitialState == max_accept_state + 1

(* The comparison is unsigned. *)
Accepts4(s) == max_accept_state = -1 \/ s <= max_accept_state

Lane(off) == [state |-> InitialState, off |-> off]

automatonVars == <<vars, state_table, dead_state, max_accept_state>>

Start(numLanes) ==
  /\ phase = "renumbered"
  /\ data' \in Inputs
  /\ lanes' = [i \in 1 .. numLanes |-> Lane(i - 1)]
  /\ nxt_off' = numLanes
  /\ turn' = 1 /\ matched_times' = 0
  /\ phase' = IF numLanes = 1 THEN "one lane" ELSE "four lanes"
  /\ UNCHANGED automatonVars

(* while(off1 < flen || ...), tested before the turn of the first lane.    *)
MoreToRead == turn # 1 \/ \E i \in DOMAIN lanes : lanes[i].off < flen

NextTurn == turn' = (turn % Len(lanes)) + 1

Traversing == phase \in {"one lane", "four lanes"}

(* The lane begins again at the next offset. *)
Restart ==
  /\ lanes' = [lanes EXCEPT ![turn] = Lane(nxt_off)]
  /\ nxt_off' = nxt_off + 1

GoOn(s) ==
  /\ lanes' = [lanes EXCEPT ![turn] = [state |-> s, off |-> @.off + 1]]
  /\ UNCHANGED nxt_off

(* The one lane looks for dead_state first, the four lanes for a match.    *)
DeadFirst == phase = "one lane"

(* A slip to compare with: the four lanes look for it first, too.          *)
StopsWhenDead(s) == s = dead_state

Stops(s) == s = dead_state /\ (DeadFirst \/ ~ Accepts4(s))

ReadSymbol ==
  /\ Traversing /\ MoreToRead
  /\ lanes[turn].off < flen
  /\ LET s == state_table[lanes[turn].state][data[lanes[turn].off + 1]]
     IN /\ IF Stops(s) THEN Restart ELSE GoOn(s)
        /\ matched_times' = IF Accepts4(s) /\ ~ Stops(s) THEN matched_times + 1
                                                        ELSE matched_times
  /\ NextTurn
  /\ UNCHANGED <<automatonVars, phase, data>>

(* The end of the input: a lane of four takes the next offset, which may   *)
(* be behind the end itself; the one lane goes on while there is one.      *)
AtEndOfInput ==
  /\ Traversing
  /\ IF phase = "four lanes" THEN MoreToRead ELSE nxt_off < flen
  /\ lanes[turn].off >= flen
  /\ Restart /\ NextTurn
  /\ UNCHANGED <<automatonVars, phase, data, matched_times>>

EndOfTraversal ==
  /\ Traversing /\ ~ MoreToRead
  /\ phase = "one lane" => nxt_off >= flen
  /\ phase' = "counted"
  /\ UNCHANGED <<automatonVars, lanes, turn, nxt_off, data, matched_times>>

-----------------------------------------------------------------------------
InitPfac ==
  /\ Init
  /\ phase = "minimize" /\ state_table = << >> /\ dead_state = NO_STATE
  /\ max_accept_state = -1 /\ lanes = <<>> /\ turn = 1
  /\ nxt_off = 0 /\ data = <<>> /\ matched_times = 0

Minimize == Next /\ UNCHANGED pfacVars

Traverse == Start(1) \/ Start(4) \/ ReadSymbol \/ AtEndOfInput \/ EndOfTraversal

SpecPfac ==
  /\ InitPfac
  /\ [][Minimize \/ Renumber \/ Traverse]_allVars
  /\ WF_allVars(Minimize)

-----------------------------------------------------------------------------
(* The pairs of an offset and an end between which the automaton that was  *)
(* given, anchored at the offset, accepts.                                 *)
StateAfter(i, j) == RunFrom(given, 0, SubSeq(data, i, j))

AcceptedPairs ==
  {p \in (1 .. flen) \X (1 .. flen) :
     p[1] <= p[2] /\ given.accepted[StateAfter(p[1], p[2])] # {}}

(* The automaton begins where it was read from, and dead_state is one.     *)
StartIsKept == given.accepted[0] = {} /\ max_accept_state >= 0

DeadStateIsDead ==
  /\ ~ Accepts4(dead_state)
  /\ \A c \in Symbols : state_table[dead_state][c] = dead_state

(* Where no offset is given up before its last match.                      *)
NothingIsMissed ==
  dead_state \in StatesOf(dfa) =>
    \/ DeadStateIsDead
    \/ Len(lanes) = 4 /\ Accepts4(dead_state)

(* Both traversals count every match of every offset they begin at once,   *)
(* provided that some state accepts but not the first (initial_state is    *)
(* the first state that does not, max_accept_state wraps below zero) and   *)
(* that dead_state still is one when minimize and renumber are through     *)
(* with it (neither sees to that).  If it is not, matches are missed but   *)
(* never made up, and four lanes still miss none if dead_state has come to *)
(* name an accepting state, as they look at that first.  One lane begins   *)
(* at every offset; four lanes stop, and leave offsets over, if all of     *)
(* them come to the end in one turn.                                       *)
MatchesAreCounted ==
  phase = "counted" /\ StartIsKept =>
    LET begun == Cardinality({p \in AcceptedPairs : p[1] <= nxt_off})
    IN /\ matched_times <= begun /\ (NothingIsMissed => matched_times = begun)
       /\ nxt_off < flen => Len(lanes) = 4 /\ \A i \in DOMAIN lanes : lanes[i].off = flen
=============================================================================
