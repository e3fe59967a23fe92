---------------------------- MODULE MCEncodings ----------------------------
(***************************************************************************)
(* Instances of Encodings for TLC: every row over five symbols with up to  *)
(* three targets other than 0, numbered as they first occur, is the row of *)
(* state 0; the other states have it rotated.  With one range per target   *)
(* and one byte per bitmap every type of EgCmpDfa occurs, and so does a    *)
(* last symbol that is the only one of its target.                         *)
(***************************************************************************)
EXTENDS Encodings

Rotated(row, n) == [c \in Symbols |-> row[(c + n) % CSIZE]]

NumberedInOrder(row) ==
  \A c \in Symbols : row[c] > 1 => \E d \in 0 .. c - 1 : row[d] = row[c] - 1

MCDfas ==
  {[size     |-> 4,
    table    |-> [q \in 0 .. 3 |-> Rotated(row, q)],
    accepted |-> [q \in 0 .. 3 |-> IF q = 1 THEN {1} ELSE IF q = 2 THEN {2} ELSE {}]] :
     row \in {r \in [Symbols -> 0 .. 3] : NumberedInOrder(r)}}

MCKinds == {"range", "string", "bitmap", "rle", "orle", "mixed", "mixed_b"}
=============================================================================
