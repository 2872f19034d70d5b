-------------------------------- MODULE Merkle --------------------------------
(***************************************************************************)
(* The Merkle tree of core/merkle: the levels above a sequence of leaves,  *)
(* where an odd node is paired with itself, proofs of membership and their *)
(* check.  A digest is the term it was computed from, so equal digests are *)
(* equal terms; the prefixes 0x00 and 0x01 keep leaves and nodes apart.    *)
(***************************************************************************)
EXTENDS Calls, Integers, Sequences, SequencesExt

LeafHash(b) == [leaf |-> b]
NodeHash(l, r) == [left |-> l, right |-> r]
EmptyRoot == [of |-> "nothing"]     \* the digest of no byte at all

(* Mutant: an odd node is taken up unpaired. *)
Up_Unpaired(cur) ==
    [i \in 1..((Len(cur) + 1) \div 2) |->
        IF 2 * i <= Len(cur) THEN NodeHash(cur[2 * i - 1], cur[2 * i]) ELSE cur[2 * i - 1]]

Up(cur) ==
    [i \in 1..((Len(cur) + 1) \div 2) |->
        NodeHash(cur[2 * i - 1], IF 2 * i <= Len(cur) THEN cur[2 * i] ELSE cur[2 * i - 1])]

(* Level k over the leaves, and the first one that is a single node. *)
LevelsOver(leaves) == LET level[k \in Nat] == IF k = 0 THEN leaves ELSE Up(level[k - 1]) IN level
TopOver(leaves) ==
    CHOOSE k \in 0..Len(leaves) :
        /\ Len(LevelsOver(leaves)[k]) = 1
        /\ \A j \in 0..(k - 1) : Len(LevelsOver(leaves)[j]) > 1
Levels(leaves) ==
    IF leaves = <<>> THEN << <<EmptyRoot>> >>
    ELSE [k \in 1..(TopOver(leaves) + 1) |-> LevelsOver(leaves)[k - 1]]
Root(leaves) == Levels(leaves)[Len(Levels(leaves))][1]

(* The way from leaf i (from 0) up: the sibling and whether it is right; a  *)
(* node without a sibling is its own.                                       *)
Halved(i) == LET idx[k \in Nat] == IF k = 0 THEN i ELSE idx[k - 1] \div 2 IN idx
Proof(leaves, i) ==
    IF i >= Len(leaves) THEN <<>>
    ELSE LET levels == Levels(leaves) IN
         [lv \in 1..(Len(levels) - 1) |->
            LET cur == levels[lv]
                idx == Halved(i)[lv - 1]
                right == idx % 2 = 0
                sib == IF right THEN idx + 1 ELSE idx - 1
            IN [sib |-> cur[(IF sib >= Len(cur) THEN idx ELSE sib) + 1], right |-> right]]

Paired(acc, s) == IF s.right THEN NodeHash(acc, s.sib) ELSE NodeHash(s.sib, acc)
Climb(leaf, path) == LET acc[k \in Nat] == IF k = 0 THEN leaf ELSE Paired(acc[k - 1], path[k]) IN acc
Verify(leaf, path, root) == root = Climb(leaf, path)[Len(path)]

(* Two trees: their roots, and every proof of the first checked against both. *)
Hashed(bs) == [i \in 1..Len(bs) |-> LeafHash(bs[i])]
Checks(a, b, root) ==
    [i \in 0..(Len(a) - 1) |-> {x \in ToSet(a) \cup ToSet(b) : Verify(x, Proof(a, i), root)}]
MerkleStep ==
    /\ Asked("merkle")
    /\ LET a == Hashed(call.a)  b == Hashed(call.b) IN
       Return([same |-> Root(a) = Root(b), own |-> Checks(a, b, Root(a)), other |-> Checks(a, b, Root(b))])

-------------------------------------------------------------------------------
(* The leaves with the copies that pairing an odd node makes: in runs of 1, *)
(* 2, 4 and so on, when they are an odd number of runs and not a single     *)
(* one, the last run is written once more.                                  *)
Doubled(f) ==
    LET runs == Len(f.leaves) \div f.run
    IN [run |-> 2 * f.run,
        leaves |-> IF runs > 1 /\ runs % 2 = 1
                   THEN f.leaves \o SubSeq(f.leaves, Len(f.leaves) - f.run + 1, Len(f.leaves))
                   ELSE f.leaves]
Filled(bs) ==
    LET f[k \in Nat] == IF k = 0 THEN [run |-> 1, leaves |-> bs] ELSE Doubled(f[k - 1]) IN f
Unfolded(bs) == Filled(bs)[Len(bs)].leaves

(* A proof convinces of its leaf and of no other, the root commits to the   *)
(* leaves up to the copies that pairing an odd node makes, and a proof is   *)
(* good against another root only for the leaf that tree has in that place  *)
(* (merkle.cpp:26-68).                                                      *)
ProofsBind ==
    Got("merkle") =>
        /\ answer.value.same = (Unfolded(call.a) = Unfolded(call.b))
        /\ \A i \in DOMAIN answer.value.own :
             /\ answer.value.own[i] = {LeafHash(call.a[i + 1])}
             /\ answer.value.other[i] \subseteq
                  {LeafHash(Unfolded(call.b)[p]) : p \in {i + 1} \cap DOMAIN Unfolded(call.b)}
===============================================================================
