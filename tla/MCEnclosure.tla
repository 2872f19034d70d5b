------------------------------ MODULE MCEnclosure ------------------------------
(* A small instance of Enclosure: an input with a narrow, a wide or no box. *)
EXTENDS Enclosure, TLC

MCBoxes == {Pair(1, 2), Pair(-2, 1), Entire}
Narrow == {Pair(1, 2)}
MCBounds == {Pair(0, 4), Entire}
===============================================================================
