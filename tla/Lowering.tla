------------------------------- MODULE Lowering -------------------------------
(***************************************************************************)
(* From a workbook to the programs that are certified: build_sdg() of       *)
(* model/sdg collects who reads whom, margin_targets() of the pipeline      *)
(* picks the outputs nobody reads, lower_target() of model/lower unfolds    *)
(* the formulas above a target into one program.                            *)
(*                                                                         *)
(* A program denotes, for given inputs, the set of numbers its nodes may    *)
(* have: eval() (module Enclosure) encloses each of them.                   *)
(***************************************************************************)
EXTENDS Oracle

(* Names of this module's nodes. *)
Konst(v) == [kind |-> "const", val |-> v]
Var(id) == [kind |-> "var", cell |-> id]
Oper(op, x, y) == [kind |-> "oper", op |-> op, args |-> <<x, y>>]
Node1(fn, x) == [kind |-> "call1", fn |-> fn, args |-> <<x>>]
Node2(fn, x, y) == [kind |-> "call2", fn |-> fn, args |-> <<x, y>>]
Disj(x, y) == [kind |-> "disj", args |-> <<x, y>>]

(* The Lifter: nodes of the cells met, inputs met, holes made.              *)
Lifter0 == [memo |-> <<>>, base |-> {}, holes |-> 0]
MkHole(s) == <<[s EXCEPT !.holes = @ + 1], [kind |-> "hole", id |-> s.holes]>>

(* fold and fold_call: from the left, zero for nothing. *)
FoldNodes(combine(_, _), xs) ==
    IF xs = <<>> THEN Konst(0) ELSE FoldLeft(combine, xs[1], Tail(xs))

RECURSIVE LowerX(_, _, _, _)
(* A cell that is being lowered is a hole; what is remembered is not looked *)
(* at again.                                                                *)
LowerCell(s, id, visiting) ==
    LET done(r) == <<[r[1] EXCEPT !.memo = (id :> r[2]) @@ @], r[2]>>
    IN  CASE id \in DOMAIN s.memo -> <<s, s.memo[id]>>
          [] id \in visiting      -> MkHole(s)
          [] Has(id, "formula")   ->
                 done(LowerX(s, wb.cells[id].ast, id[1], visiting \cup {id}))
          [] Has(id, "broken")    -> done(MkHole(s))
          [] Has(id, "number")    -> done(<<[s EXCEPT !.base = @ \cup {id}], Var(id)>>)
          [] OTHER                -> done(<<s, Konst(0)>>)

(* expand: the nodes of arguments, ranges cell by cell. *)
Expand(s, args, cur, visiting) ==
    LET one(acc, r) == <<r[1], Append(acc[2], r[2])>>
        cell(acc, id) == one(acc, LowerCell(acc[1], id, visiting))
        arg(acc, a) == IF a.kind = "range" THEN FoldLeft(cell, acc, RangeCells(a, cur))
                       ELSE one(acc, LowerX(acc[1], a, cur, visiting))
    IN  FoldLeft(arg, <<s, <<>>>>, args)

(* Mutant: the value is the first branch. *)
LowerIf_Then(s, then, else) == <<s, then>>

LowerIf(s, then, else) == <<s, Disj(then, else)>>

(* lower_x of a call.  The condition of IF is not lowered. *)
LowerCall(s, a, cur, visiting) ==
    LET xs == Expand(s, a.args, cur, visiting)
        n == Len(a.args)
        at(t, j) == LowerX(t, a.args[j], cur, visiting)
        else(t, j) == IF n >= j THEN at(t, j) ELSE <<t, Konst(0)>>
        plus(x, y) == Oper("+", x, y)
        times(x, y) == Oper("*", x, y)
        lesser(x, y) == Node2("min", x, y)
        larger(x, y) == Node2("max", x, y)
    IN  CASE a.fn = "SUM"     -> <<xs[1], FoldNodes(plus, xs[2])>>
          [] a.fn = "AVERAGE" -> <<xs[1], Oper("/", FoldNodes(plus, xs[2]), Konst(Len(xs[2])))>>
          [] a.fn = "MIN"     -> <<xs[1], FoldNodes(lesser, xs[2])>>
          [] a.fn = "MAX"     -> <<xs[1], FoldNodes(larger, xs[2])>>
          [] a.fn = "PRODUCT" -> <<xs[1], FoldNodes(times, xs[2])>>
          [] a.fn = "ABS"     -> LET x == at(s, 1) IN <<x[1], Node1("abs", x[2])>>
          [] a.fn = "IF"      -> LET x == at(s, 2)
                                     y == else(x[1], 3)
                                 IN  LowerIf(y[1], x[2], y[2])
          [] a.fn = "IFERROR" -> LET x == at(s, 1)
                                     y == else(x[1], 2)
                                 IN  LowerIf(y[1], x[2], y[2])
          [] OTHER            -> MkHole(s)

(* A name lies on the sheet of its target or, without one, on this sheet.   *)
WalkedName(nm, cur) == <<OnSheet(wb.names[nm][1], cur), wb.names[nm][2], wb.names[nm][3]>>
LowerX(s, a, cur, visiting) ==
    CASE a.kind = "num"  -> <<s, Konst(a.num)>>
      [] a.kind = "cell" -> LowerCell(s, <<OnSheet(a.sheet, cur), a.at[1], a.at[2]>>, visiting)
      [] a.kind = "name" /\ a.name \in DOMAIN wb.names ->
             LowerCell(s, WalkedName(a.name, cur), visiting)
      [] a.kind = "un"   -> LET x == LowerX(s, a.args[1], cur, visiting)
                            IN  IF a.op = "-" THEN <<x[1], Node1("neg", x[2])>> ELSE x
      [] a.kind = "bin"  -> LET x == LowerX(s, a.args[1], cur, visiting)
                                y == LowerX(x[1], a.args[2], cur, visiting)
                            IN  IF a.op \in {"+", "-", "*", "/"}
                                THEN <<y[1], Oper(a.op, x[2], y[2])>> ELSE MkHole(y[1])
      [] a.kind = "call" -> LowerCall(s, a, cur, visiting)
      [] OTHER           -> MkHole(s)

LowerTarget(id) ==
    LET r == LowerCell(Lifter0, id, {})
    IN  [root |-> r[2], holes |-> r[1].holes, input_base |-> r[1].base]

-------------------------------------------------------------------------------
(* The numbers of a node, or Anything: a hole, or a divisor that is zero.   *)
Anything == {NaN}
RECURSIVE Numbered(_, _)
Numbered(n, inp) ==
    LET of(j) == Numbered(n.args[j], inp)
        arith == {Arith(n.op, x, y) : x \in of(1), y \in of(2)}
    IN  CASE n.kind = "const" -> {n.val}
          [] n.kind = "var"   -> {inp[n.cell]}
          [] n.kind = "hole"  -> Anything
          [] Anything \in {of(j) : j \in DOMAIN n.args} -> Anything
          [] n.kind = "oper"  -> IF n.op = "/" /\ 0 \in of(2) THEN Anything ELSE arith
          [] n.kind = "call1" /\ n.fn = "neg" -> {-x : x \in of(1)}
          [] n.kind = "call1" /\ n.fn = "abs" -> {Call("ABS", <<x>>) : x \in of(1)}
          [] n.kind = "call2" /\ n.fn = "min" -> {Min({x, y}) : x \in of(1), y \in of(2)}
          [] n.kind = "call2" /\ n.fn = "max" -> {Max({x, y}) : x \in of(1), y \in of(2)}
          [] n.kind = "disj"  -> of(1) \cup of(2)

-------------------------------------------------------------------------------
(* walk_refs and build_sdg: an edge for every cell a formula names, and for *)
(* every input an output responded to.                                      *)
RECURSIVE WalkRefs(_, _)
WalkRefs(a, cur) ==
    CASE a.kind = "cell"  -> {<<OnSheet(a.sheet, cur), a.at[1], a.at[2]>>}
      [] a.kind = "range" -> ToSet(RangeCells(a, cur))
      [] a.kind = "name"  -> IF a.name \in DOMAIN wb.names THEN {WalkedName(a.name, cur)} ELSE {}
      [] a.kind \in {"un", "bin", "call"} -> UNION {WalkRefs(b, cur) : b \in ToSet(a.args)}
      [] OTHER            -> {}
Syntactic == UNION {{<<r, o>> : r \in WalkRefs(wb.cells[o].ast, o[1])} : o \in ToSet(outputs)}
SdgEdges == Syntactic \cup edges
SdgNodes == ToSet(inputs) \cup ToSet(outputs) \cup {e[1] : e \in SdgEdges}

(* Mutant: whoever reads is no target. *)
MarginTargets_Readers == (SdgNodes \ ToSet(inputs)) \ {e[2] : e \in SdgEdges}

MarginTargets == (SdgNodes \ ToSet(inputs)) \ {e[1] : e \in SdgEdges}

-------------------------------------------------------------------------------
(* Two forms the oracle and the lowering read differently: a name without a *)
(* sheet used off the first sheet, and a range as the condition of IF,      *)
(* whose second cell the oracle takes for the first branch.                 *)
RECURSIVE ReadApart(_, _)
ReadApart(a, cur) ==
    CASE a.kind = "name" -> a.name \in DOMAIN wb.names /\ NamedCell(a.name) # WalkedName(a.name, cur)
      [] a.kind \in {"un", "bin", "call"} ->
             \/ a.kind = "call" /\ a.fn = "IF" /\ a.args[1].kind = "range"
             \/ \E b \in ToSet(a.args) : ReadApart(b, cur)
      [] OTHER           -> FALSE
ReadAlike == \A o \in ToSet(outputs) : ~ReadApart(wb.cells[o].ast, o[1])

(* The program certified for an output is the output: whatever the oracle   *)
(* answers, for whichever inputs and in whatever book, cyclic and deep ones *)
(* too, is one of the numbers the lowered program can have for these        *)
(* inputs, or an error of the sheet (lower.cpp:26-176 against oracle.cpp).  *)
LoweringEncloses ==
    (answer # <<>> /\ answer[2] # NaN /\ ReadAlike) =>
        LET set == Numbered(LowerTarget(answer[1]).root, over @@ BaseValues)
        IN  set = Anything \/ answer[2] \in set

(* An input whose change an output answers to is one its formulas lead to:  *)
(* interventions find nothing the syntax does not (intervene.cpp:16-30,     *)
(* sdg.cpp:47-88).                                                          *)
RECURSIVE Upstream(_, _)
Upstream(ids, n) ==
    IF n = 0 THEN ids
    ELSE Upstream(ids \cup {e[1] : e \in {f \in Syntactic : f[2] \in ids}}, n - 1)
ResponseIsWritten ==
    (pc = "probe" /\ ReadAlike) => \A e \in edges : e[1] \in Upstream({e[2]}, Cardinality(Cells))

(* No output escapes certification: a margin target is an output, and in an *)
(* acyclic book every output is a target or leads to one whose program      *)
(* contains it (pipeline.cpp:37-48).  Outputs on a cycle may lead to none.  *)
EveryOutputIsCertified ==
    pc = "probe" =>
        /\ MarginTargets \subseteq ToSet(outputs)
        /\ (Acyclic /\ ReadAlike) =>
               \A o \in ToSet(outputs) :
                   \E t \in MarginTargets : o \in Upstream({t}, Cardinality(Cells))

===============================================================================
