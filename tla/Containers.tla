------------------------------ MODULE Containers ------------------------------
(***************************************************************************)
(* Maps and lists: a map with an entry put, the numbers of a set in their   *)
(* order, and the part of a list at a set of positions.  A number is told  *)
(* by how many of the set come before it, so that what holds of the result *)
(* can be proved as well as computed.                                       *)
(***************************************************************************)
EXTENDS Integers, Sequences, FiniteSets, FiniteSetsExt, SequencesExt

Assoc(f, x, v) == [y \in DOMAIN f \cup {x} |-> IF y = x THEN v ELSE f[y]]

Before(ps, p) == {q \in ps : q < p}
InOrder(ps) ==
    [i \in 1..Cardinality(ps) |-> CHOOSE p \in ps : Cardinality(Before(ps, p)) = i - 1]
At(s, ps) == [i \in 1..Cardinality(ps) |-> s[InOrder(ps)[i]]]
===============================================================================
