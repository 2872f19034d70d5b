---------------------------------- MODULE Dim ---------------------------------
(***************************************************************************)
(* model/dim/dim.cpp infers the dimensions of symbols from linear relations*)
(* between the exponents of the base dimensions: the Smith normal form of  *)
(* the matrix of the unknown symbols, U*A*V = D, tells which relations can *)
(* hold at all and which exponents they force.  Exponents stay small, so   *)
(* long long does not overflow; int (7 base dimensions) is Bases here.     *)
(***************************************************************************)
EXTENDS Calls, Integers, Sequences, FiniteSetsExt, SequencesExt

CONSTANTS Bases, MaxExponent
ASSUME BasesAssumption == Bases \subseteq Nat /\ MaxExponent \in Nat

(* C++ division truncates toward zero. *)
Abs1(n) == IF n < 0 THEN -n ELSE n
Quo(a, b) == IF (a < 0) = (b < 0) THEN Abs1(a) \div Abs1(b) ELSE -(Abs1(a) \div Abs1(b))
Rest(a, b) == a - b * Quo(a, b)

Identity(n) == [i \in 1..n |-> [j \in 1..n |-> IF i = j THEN 1 ELSE 0]]
Times(x, y, cols) ==
    [i \in DOMAIN x |-> [j \in cols |-> MapThenSumSet(LAMBDA k : x[i][k] * y[k][j], DOMAIN y)]]

-------------------------------------------------------------------------------
(* The state of the elimination: the matrix a, and the transforms u and v.  *)
(* What is done to rows of a is done to u, to columns of a to v.            *)
SwapRows(x, r, s) == [x EXCEPT ![r] = x[s], ![s] = x[r]]
SwapCols(x, c, d) == [i \in DOMAIN x |-> [x[i] EXCEPT ![c] = x[i][d], ![d] = x[i][c]]]
AddRow(x, dst, src, q) == [x EXCEPT ![dst] = [j \in DOMAIN @ |-> @[j] - q * x[src][j]]]
AddCol(x, dst, src, q) == [i \in DOMAIN x |-> [x[i] EXCEPT ![dst] = @ - q * x[i][src]]]

RowSwap(s, r, t) == [s EXCEPT !.a = SwapRows(@, r, t), !.u = SwapRows(@, r, t)]
ColSwap(s, c, d) == [s EXCEPT !.a = SwapCols(@, c, d), !.v = SwapCols(@, c, d)]
RowAdd(s, dst, src, q) == [s EXCEPT !.a = AddRow(@, dst, src, q), !.u = AddRow(@, dst, src, q)]
ColAdd(s, dst, src, q) == [s EXCEPT !.a = AddCol(@, dst, src, q), !.v = AddCol(@, dst, src, q)]

(* Clear the entry below (right of) the pivot; a remainder becomes the new  *)
(* pivot and asks for another round.                                        *)
ClearRow(s, t, i) ==
    IF s.a[i][t] = 0 THEN s
    ELSE LET r == RowAdd(s, i, t, Quo(s.a[i][t], s.a[t][t])) IN
         IF r.a[i][t] = 0 THEN r ELSE [RowSwap(r, t, i) EXCEPT !.again = TRUE]

ClearCol(s, t, j) ==
    IF s.a[t][j] = 0 THEN s
    ELSE LET r == ColAdd(s, j, t, Quo(s.a[t][j], s.a[t][t])) IN
         IF r.a[t][j] = 0 THEN r ELSE [ColSwap(r, t, j) EXCEPT !.again = TRUE]

Below(t, m) == [i \in 1..(m - t) |-> t + i]
RECURSIVE Clear(_, _, _, _)
Clear(s, t, m, n) ==
    LET rows == FoldLeft(LAMBDA x, i : ClearRow(x, t, i), [s EXCEPT !.again = FALSE], Below(t, m))
        both == FoldLeft(LAMBDA x, j : ClearCol(x, t, j), rows, Below(t, n))
    IN IF both.again THEN Clear(both, t, m, n) ELSE both

(* The pivot is the smallest entry left, the first of them row by row.      *)
Left(s, t, m, n) == {<<i, j>> \in (t..m) \X (t..n) : s.a[i][j] # 0}
Pivot(s, t, m, n) ==
    LET least == {p \in Left(s, t, m, n) :
                    \A q \in Left(s, t, m, n) : Abs1(s.a[p[1]][p[2]]) <= Abs1(s.a[q[1]][q[2]])}
    IN CHOOSE p \in least : \A q \in least : p[1] < q[1] \/ (p[1] = q[1] /\ p[2] <= q[2])

(* A row with an entry the pivot does not divide is added to the pivot's.   *)
Undivided(s, t, m, n) ==
    {i \in (t + 1)..m : \E j \in (t + 1)..n : Rest(s.a[i][j], s.a[t][t]) # 0}
RECURSIVE Eliminate(_, _, _, _)
Proceed(s, t, m, n) ==
    LET bad == Undivided(s, t, m, n) IN
    IF bad = {} THEN Eliminate(s, t + 1, m, n)
    ELSE Eliminate(RowAdd(s, t, Min(bad), -1), t, m, n)
Pivoted(s, t, p) == ColSwap(RowSwap(s, t, p[1]), t, p[2])
Eliminate(s, t, m, n) ==
    IF t > Min({m, n}) \/ Left(s, t, m, n) = {} THEN s
    ELSE Proceed(Clear(Pivoted(s, t, Pivot(s, t, m, n)), t, m, n), t, m, n)

FlipSign(s, i) ==
    IF s.a[i][i] >= 0 THEN s
    ELSE [s EXCEPT !.a[i] = [j \in DOMAIN @ |-> -@[j]], !.u[i] = [j \in DOMAIN @ |-> -@[j]]]
SmithNormalForm(a) ==
    LET m == Len(a)  n == Len(a[1]) IN
    FoldLeft(FlipSign,
             Eliminate([a |-> a, u |-> Identity(m), v |-> Identity(n), again |-> FALSE], 1, m, n),
             [i \in 1..Min({m, n}) |-> i])

-------------------------------------------------------------------------------
(* A graph: syms in order, known dimensions, constraints as sequences of    *)
(* terms <<symbol, coefficient>> built by AddEq and AddCombo.               *)
AddEq(a, b) == << <<a, 1>>, <<b, -1>> >>
AddCombo(out, in) == << <<out, 1>> >> \o [i \in DOMAIN in |-> <<in[i][1], -in[i][2]>>]

Total(ns) == FoldLeft(LAMBDA x, y : x + y, 0, ns)
Unknowns(g) == SelectSeq(g.syms, LAMBDA s : s \notin DOMAIN g.known)
Coefficient(c, s) == Total([i \in DOMAIN c |-> IF c[i][1] = s THEN c[i][2] ELSE 0])
Matrix(g) == [r \in DOMAIN g.cons |->
                 [j \in DOMAIN Unknowns(g) |-> Coefficient(g.cons[r], Unknowns(g)[j])]]
Constant(g) == [r \in DOMAIN g.cons |-> [k \in Bases |->
                  -MapThenSumSet(LAMBDA s : Coefficient(g.cons[r], s) * g.known[s][k], DOMAIN g.known)]]

(* Mutant: a remainder is not a contradiction. *)
Divides_Rounded(b, d) == d = 0 => b = 0

Divides(b, d) == IF d = 0 THEN b = 0 ELSE Rest(b, d) = 0

(* What the normal form s says, with ub the constants that u makes of g's.  *)
Diag(s, i) == IF i \in DOMAIN s.a /\ i \in DOMAIN s.v THEN s.a[i][i] ELSE 0
Particular(s, ub) ==
    [i \in DOMAIN s.v |-> [k \in Bases |->
        IF Diag(s, i) # 0 /\ Divides(ub[i][k], Diag(s, i)) THEN Quo(ub[i][k], Diag(s, i)) ELSE 0]]
ForcedBy(s) == {j \in DOMAIN s.v : \A i \in DOMAIN s.v : Diag(s, i) = 0 => s.v[j][i] = 0}
Solve(g, s, ub) ==
    LET x == Times(s.v, Particular(s, ub), Bases)
        consistent == \A i \in DOMAIN s.a, k \in Bases : Divides(ub[i][k], Diag(s, i))
    IN [consistent |-> consistent,
        dims |-> [sym \in DOMAIN g.known \cup {Unknowns(g)[j] : j \in ForcedBy(s)} |->
                    IF sym \in DOMAIN g.known THEN g.known[sym]
                    ELSE x[CHOOSE j \in ForcedBy(s) : Unknowns(g)[j] = sym]],
        clashes |-> IF consistent THEN {} ELSE {t[1] : t \in UNION {ToSet(c) : c \in ToSet(g.cons)}}]

(* Needs a constraint: with none, v would have no rows to read.             *)
Reduced(g, s) == Solve(g, s, Times(s.u, Constant(g), Bases))
InferDims(g) == Reduced(g, SmithNormalForm(Matrix(g)))

InferStep == Asked("infer") /\ Return(InferDims(call.graph))

-------------------------------------------------------------------------------
(* The inference says of every system of relations what trying all the      *)
(* exponents says: it is consistent exactly when integer exponents of the   *)
(* unknown symbols satisfy every relation, and then a dimension is reported *)
(* exactly for the symbols on which all solutions agree, with that value.   *)
Exponents == -MaxExponent..MaxExponent
Satisfies(x, g, k) ==
    \A c \in ToSet(g.cons) : 0 = Total([i \in DOMAIN c |-> c[i][2] *
        (IF c[i][1] \in DOMAIN g.known THEN g.known[c[i][1]][k] ELSE x[c[i][1]])])
Solutions(g, k) == {x \in [ToSet(Unknowns(g)) -> Exponents] : Satisfies(x, g, k)}

DimsAreForced ==
    Got("infer") =>
        LET g == call.graph
            sols == [k \in Bases |-> Solutions(g, k)]
            Forced(sym) == \A k \in Bases : \A x \in sols[k], z \in sols[k] : x[sym] = z[sym]
        IN /\ answer.value.consistent = \A k \in Bases : sols[k] # {}
           /\ answer.value.consistent =>
                \A sym \in ToSet(Unknowns(g)) :
                    /\ (sym \in DOMAIN answer.value.dims) = Forced(sym)
                    /\ Forced(sym) => \A k \in Bases : \A x \in sols[k] : answer.value.dims[sym][k] = x[sym]
===============================================================================
