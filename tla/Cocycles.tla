------------------------------- MODULE Cocycles -------------------------------
(***************************************************************************)
(* semantic/glue.cpp, cohomology: the offsets measured on overlaps of      *)
(* regions are checked for a common potential with a union-find that keeps *)
(* the potential of every region relative to its parent.                   *)
(***************************************************************************)
EXTENDS Calls, Integers, Sequences, FiniteSets

CONSTANT Heights    \* the values that a potential may take
ASSUME HeightsAssumption == Heights \subseteq Int

(* What DSU::find returns for each region, the regions it calls itself for,  *)
(* and the sum of their potentials (d.pot is relative to the parent).        *)
RootOf(d) ==
    LET root[x \in DOMAIN d.p] == IF d.p[x] = x THEN x ELSE root[d.p[x]]
    IN  root
PathOf(d) ==
    LET path[x \in DOMAIN d.p] == IF d.p[x] = x THEN {x} ELSE {x} \cup path[d.p[x]]
    IN  path
SumOf(d) ==
    LET sum[x \in DOMAIN d.p] == IF d.p[x] = x THEN d.pot[x] ELSE d.pot[x] + sum[d.p[x]]
    IN  sum

(* DSU::find: a region met first is a root of its own.  The root becomes    *)
(* the parent of all the path, the sums along it their potentials.          *)
Touch(d, x) ==
    IF x \in DOMAIN d.p THEN d
    ELSE [p   |-> [y \in DOMAIN d.p \cup {x} |-> IF y = x THEN x ELSE d.p[y]],
          pot |-> [y \in DOMAIN d.p \cup {x} |-> IF y = x THEN 0 ELSE d.pot[y]]]
Compress(d, x) ==
    [p   |-> [y \in DOMAIN d.p |-> IF y \in PathOf(d)[x] THEN RootOf(d)[x] ELSE d.p[y]],
     pot |-> [y \in DOMAIN d.p |-> IF y \in PathOf(d)[x] THEN SumOf(d)[y] ELSE d.pot[y]]]
Find(d, x) ==
    LET t == Touch(d, x) IN [d |-> Compress(t, x), root |-> RootOf(t)[x]]
Potential(d, x) == Find(d, x).d.pot[x]

(* Mutant: the other root is attached without its own potential. *)
Attach_Bare(d, ra, rb, o) ==
    [p   |-> [d.p EXCEPT ![rb] = ra],
     pot |-> [d.pot EXCEPT ![rb] = Potential(d, o.a) + o.offset]]

(* One root below the other, at the height that o asks for. *)
Attach(d, ra, rb, o) ==
    [p   |-> [d.p EXCEPT ![rb] = ra],
     pot |-> [d.pot EXCEPT ![rb] = Potential(d, o.a) + o.offset - Potential(d, o.b)]]

(* Overlap k joins two trees, or closes a loop and is kept as a back edge. *)
Join(s, o, k) ==
    LET fa == Find(s.d, o.a)
        fb == Find(fa.d, o.b)
    IN IF fa.root = fb.root THEN [d |-> fb.d, back |-> s.back \cup {k}]
       ELSE [d |-> Attach(fb.d, fa.root, fb.root, o), back |-> s.back]

(* The overlaps of one symbol, in their order. *)
JoinedUp(overlaps, sym) ==
    LET joined[k \in Nat] ==
            IF k = 0 THEN [d |-> [p |-> <<>>, pot |-> <<>>], back |-> {}]
            ELSE IF overlaps[k].symbol = sym THEN Join(joined[k - 1], overlaps[k], k)
            ELSE joined[k - 1]
    IN  joined
Joined(overlaps, sym) == JoinedUp(overlaps, sym)[Len(overlaps)]

Symbols(overlaps) == {overlaps[i].symbol : i \in DOMAIN overlaps}
Discrepancy(d, o) == o.offset - (Potential(d, o.b) - Potential(d, o.a))

Cohomology(regions, overlaps) ==
    LET joined == [sym \in Symbols(overlaps) |-> Joined(overlaps, sym)]
        loops == UNION {joined[sym].back : sym \in DOMAIN joined}
        class == [i \in loops |->
                    LET o == overlaps[i] IN
                    [symbol |-> o.symbol, loop |-> <<o.a, o.b>>,
                     discrepancy |-> Discrepancy(joined[o.symbol].d, o)]]
    IN [h0 |-> Len(regions), h1rank |-> Cardinality(loops),
        classes |-> {c \in {class[i] : i \in loops} : c.discrepancy # 0},
        obstructed |-> \E i \in loops : class[i].discrepancy # 0]

CohomologyStep == Asked("cohomology") /\ Return(Cohomology(call.regions, call.overlaps))

-------------------------------------------------------------------------------
(* Overlaps are called obstructed exactly when no potential of the regions  *)
(* explains every offset of a symbol, whatever the order they are joined in *)
(* and whatever paths were compressed meanwhile.                            *)
Touched == {call.overlaps[i].a : i \in DOMAIN call.overlaps} \cup {call.overlaps[i].b : i \in DOMAIN call.overlaps}
Potentials == [Touched -> Heights]
Explains(p, sym) ==
    \A i \in DOMAIN call.overlaps : LET o == call.overlaps[i] IN
        o.symbol = sym => p[o.b] - p[o.a] = o.offset
Explained(sym) == \E p \in Potentials : Explains(p, sym)

ObstructionIsReal ==
    Got("cohomology") =>
        answer.value.obstructed = ~\A sym \in Symbols(call.overlaps) : Explained(sym)
===============================================================================
