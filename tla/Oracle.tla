-------------------------------- MODULE Oracle --------------------------------
(***************************************************************************)
(* The workbook as the oracle computes it: Oracle of oracle/oracle.cpp      *)
(* evaluates a cell on demand and remembers every value it meets; Runtime   *)
(* runs all formulas; induce_deps() changes one input after another and     *)
(* sees which formulas respond.                                             *)
(*                                                                         *)
(* Numbers are integers and quotients are rounded; Lowering, which is       *)
(* compared with this module, rounds alike.  Functions of libm and text     *)
(* functions are left out; "INT" stands for those the lowering has no node  *)
(* for.                                                                     *)
(***************************************************************************)
EXTENDS Integers, Sequences, FiniteSets, SequencesExt, FiniteSetsExt, TLC

CONSTANTS
    NaN,
    Workbooks,  \* records: cells (coordinates to contents), names
    MaxDepth,   \* nested cells the evaluation follows (256 in the code)
    Limits,     \* RunLimits: records max_cells, max_evals
    MaxProbes   \* bound on probes

VARIABLES
    wb, limits,
    memo,       \* val_
    pc,         \* what runs, and at which input or output
    nextIn, nextOut,
    artifact,   \* outputs captured by Runtime::run
    base,       \* values of the outputs before any change
    edges,      \* DepGraph::edges as <<input, output>>
    over,       \* inputs set since the last reset
    answer      \* the last cell asked for and the value returned, or <<>>

ovars == <<wb, limits, memo, pc, nextIn, nextOut, artifact, base, edges, over, answer>>

-------------------------------------------------------------------------------
(* Coordinates <<sheet, row, column>> in the order of operator<.            *)
Before(a, b) ==
    \/ a[1] < b[1]
    \/ a[1] = b[1] /\ a[2] < b[2]
    \/ a[1] = b[1] /\ a[2] = b[2] /\ a[3] < b[3]
Cells == DOMAIN wb.cells
Has(id, kind) == id \in Cells /\ wb.cells[id].kind = kind

(* build(): formulas that parse are outputs, numbers without text inputs;   *)
(* labels, blanks and formulas that do not parse are neither.               *)
outputs == SetToSortSeq({id \in Cells : Has(id, "formula")}, Before)
inputs == SetToSortSeq({id \in Cells : Has(id, "number")}, Before)
BaseValues == [id \in ToSet(inputs) |-> wb.cells[id].value]

(* A reference without a sheet, or to a sheet that is not there, means the  *)
(* sheet of the formula.                                                    *)
OnSheet(sheet, cur) == IF sheet < 0 THEN cur ELSE sheet
Lesser(a, b) == IF a < b THEN a ELSE b
RangeCells(a, cur) ==
    LET top == Lesser(a.from[1], a.to[1])
        left == Lesser(a.from[2], a.to[2])
        height == a.from[1] + a.to[1] - 2 * top + 1
        width == a.from[2] + a.to[2] - 2 * left + 1
    IN  [n \in 1..(height * width) |->
            <<OnSheet(a.sheet, cur), top + (n - 1) \div width, left + ((n - 1) % width)>>]

(* resolve_name: a name without a sheet lies on the first one. *)
NamedCell(nm) == <<OnSheet(wb.names[nm][1], 0), wb.names[nm][2], wb.names[nm][3]>>

-------------------------------------------------------------------------------
(* Numbers.  Comparisons with NaN are false, except that it differs. *)
Lift(op(_, _), x, y) == IF NaN \in {x, y} THEN NaN ELSE op(x, y)
Truth(b) == IF b THEN 1 ELSE 0
Quotient(x, y) == IF NaN \in {x, y} \/ y = 0 THEN NaN
                  ELSE IF y < 0 THEN (-x) \div (-y) ELSE x \div y
Product2(x, y) == x * y
Sum2(x, y) == x + y
Less(x, y) == NaN \notin {x, y} /\ x < y
Unary(op, x) == IF op # "-" \/ x = NaN THEN x ELSE -x
Arith(op, x, y) ==
    CASE op = "+" -> Lift(Sum2, x, y)
      [] op = "-" -> Lift(Sum2, x, Unary("-", y))
      [] op = "*" -> Lift(Product2, x, y)
      [] op = "/" -> Quotient(x, y)
      [] op = "=" -> Truth(x # NaN /\ x = y)
      [] op = "<" -> Truth(Less(x, y))
      [] OTHER    -> NaN

Numbers(v) == SelectSeq(v, LAMBDA x : x # NaN)
Total(v) == FoldLeft(Sum2, 0, Numbers(v))
Large == 50      \* for the 1e300 that stands for no minimum
Call(f, v) ==
    CASE f = "SUM"     -> Total(v)
      [] f = "AVERAGE" -> Quotient(Total(v), Len(Numbers(v)))
      [] f = "MIN"     -> Min({Large} \cup ToSet(Numbers(v)))
      [] f = "MAX"     -> Max({-Large} \cup ToSet(Numbers(v)))
      [] f = "COUNT"   -> Len(Numbers(v))
      [] f = "PRODUCT" -> FoldLeft(Product2, 1, Numbers(v))
      [] f = "ABS"     -> IF v[1] = NaN THEN NaN ELSE IF v[1] < 0 THEN -v[1] ELSE v[1]
      [] f = "INT"     -> v[1]
      [] f = "IF"      -> IF v[1] # 0 THEN v[2] ELSE IF Len(v) > 2 THEN v[3] ELSE 0
      [] f = "IFERROR" -> IF v[1] # NaN THEN v[1] ELSE IF Len(v) > 1 THEN v[2] ELSE 0
      [] f = "AND"     -> Truth(0 \notin ToSet(v))
      [] f = "NOT"     -> Truth(v[1] = 0)
      [] OTHER         -> NaN

-------------------------------------------------------------------------------
(* eval(): the value of an expression and the memo after it.  CellVal is    *)
(* the value of a cell met at some depth; what is too deep is NaN and is    *)
(* not remembered, but what was computed from it is.                        *)
RECURSIVE Eval(_, _, _, _)
CellVal(m, id, depth) ==
    IF id \in DOMAIN m THEN <<m, m[id]>>
    ELSE IF ~Has(id, "formula") THEN <<m, 0>>
    ELSE IF depth > MaxDepth THEN <<m, NaN>>
    ELSE LET r == Eval(m, wb.cells[id].ast, id[1], depth + 1)
         IN  <<(id :> r[2]) @@ r[1], r[2]>>
RangeVals(m, a, cur, depth) ==
    FoldLeft(LAMBDA acc, id : LET r == CellVal(acc[1], id, depth)
                              IN  <<r[1], Append(acc[2], r[2])>>,
             <<m, <<>>>>, RangeCells(a, cur))
Flat(m, args, cur, depth) ==
    FoldLeft(LAMBDA acc, a :
                 IF a.kind = "range"
                 THEN LET r == RangeVals(acc[1], a, cur, depth) IN <<r[1], acc[2] \o r[2]>>
                 ELSE LET r == Eval(acc[1], a, cur, depth) IN <<r[1], Append(acc[2], r[2])>>,
             <<m, <<>>>>, args)
Eval(m, a, cur, depth) ==
    CASE a.kind = "num"   -> <<m, a.num>>
      [] a.kind = "str"   -> <<m, NaN>>
      [] a.kind = "cell"  -> CellVal(m, <<OnSheet(a.sheet, cur), a.at[1], a.at[2]>>, depth)
      [] a.kind = "range" -> LET r == RangeVals(m, a, cur, depth) IN <<r[1], r[2][1]>>
      [] a.kind = "name"  -> IF a.name \in DOMAIN wb.names
                             THEN CellVal(m, NamedCell(a.name), depth) ELSE <<m, NaN>>
      [] a.kind = "un"    -> LET r == Eval(m, a.args[1], cur, depth)
                             IN  <<r[1], Unary(a.op, r[2])>>
      [] a.kind = "bin"   -> LET x == Eval(m, a.args[1], cur, depth)
                                 y == Eval(x[1], a.args[2], cur, depth)
                             IN  <<y[1], Arith(a.op, x[2], y[2])>>
      [] a.kind = "call"  -> LET r == Flat(m, a.args, cur, depth)
                             IN  <<r[1], Call(a.fn, r[2])>>

(* value(): the public question, at depth 0. *)
Value(m, id) ==
    IF id \in DOMAIN m THEN <<m, m[id]>>
    ELSE IF Has(id, "formula")
    THEN LET r == Eval(m, wb.cells[id].ast, id[1], 0) IN <<(id :> r[2]) @@ r[1], r[2]>>
    ELSE <<m, 0>>

-------------------------------------------------------------------------------
(* Mutant: values of formulas outlive the reset. *)
AfterReset_KeepsFormulas(m) == BaseValues @@ m

(* Mutant: inputs keep what they were set to. *)
AfterReset_KeepsInputs(m) == [id \in ToSet(inputs) |-> m[id]]

(* reset() leaves the inputs, at the values they have in the file. *)
AfterReset(m) == BaseValues

OInit ==
    /\ wb \in Workbooks /\ limits \in Limits
    /\ memo = BaseValues /\ pc = "base" /\ nextIn = 0 /\ nextOut = 0
    /\ artifact = <<>> /\ base = <<>> /\ edges = {} /\ over = <<>> /\ answer = <<>>

Ask(m, id) ==
    LET r == Value(m, id) IN memo' = r[1] /\ answer' = <<id, r[2]>>

(* induce_deps(): all outputs, then for each input, a little higher, all    *)
(* outputs again.                                                           *)
BaseOutput ==
    /\ pc = "base" /\ nextOut < Len(outputs)
    /\ Ask(memo, outputs[nextOut + 1])
    /\ base' = Append(base, answer'[2])
    /\ nextOut' = nextOut + 1
    /\ UNCHANGED <<wb, limits, pc, nextIn, artifact, edges, over>>
Perturb ==
    /\ pc \in {"base", "respond"} /\ nextOut = Len(outputs) /\ nextIn < Len(inputs)
    /\ LET in == inputs[nextIn + 1]
           b == Value(AfterReset(memo), in)
       IN  /\ memo' = (in :> b[2] + 1) @@ b[1]
           /\ over' = in :> b[2] + 1
    /\ pc' = "respond" /\ nextIn' = nextIn + 1 /\ nextOut' = 0 /\ answer' = <<>>
    /\ UNCHANGED <<wb, limits, artifact, base, edges>>
Respond ==
    /\ pc = "respond" /\ nextOut < Len(outputs)
    /\ Ask(memo, outputs[nextOut + 1])
    /\ nextOut' = nextOut + 1
    /\ LET was == base[nextOut + 1]
           now == answer'[2]
       IN  edges' = IF NaN \in {was, now} \/ now = was THEN edges
                    ELSE edges \cup {<<inputs[nextIn], outputs[nextOut + 1]>>}
    /\ UNCHANGED <<wb, limits, pc, nextIn, artifact, base, over>>

(* Runtime::run, on an oracle of its own. *)
StartRun ==
    /\ pc \in {"base", "respond"} /\ nextOut = Len(outputs) /\ nextIn = Len(inputs)
    /\ pc' = "run" /\ nextOut' = 0 /\ memo' = BaseValues /\ over' = <<>> /\ answer' = <<>>
    /\ UNCHANGED <<wb, limits, nextIn, artifact, base, edges>>
WithinLimits == nextOut <= limits.max_evals /\ Cardinality(Cells) <= limits.max_cells
RunOutput ==
    /\ pc = "run" /\ nextOut < Len(outputs) /\ WithinLimits
    /\ Ask(memo, outputs[nextOut + 1])
    /\ nextOut' = nextOut + 1
    /\ artifact' = Append(artifact, answer'[2])
    /\ UNCHANGED <<wb, limits, pc, nextIn, base, edges, over>>

(* The caller goes on whether or not the run kept within its limits; it did *)
(* not, and captured nothing more, after an evaluation or a cell too many.  *)
EndRun ==
    /\ pc = "run" /\ (nextOut = Len(outputs) \/ ~WithinLimits)
    /\ pc' = "probe" /\ answer' = <<>>
    /\ artifact' = IF WithinLimits THEN artifact ELSE <<>>
    /\ UNCHANGED <<wb, limits, memo, nextIn, nextOut, base, edges, over>>

(* Service::verify probes an output at points of the box of the inputs it   *)
(* was seen to respond to: reset, set them all, ask.                        *)
Deviations(id) == LET b == wb.cells[id].value IN IF b = 0 THEN {0} ELSE {b - 1, b, b + 1}
Assignments(ids) ==
    {f \in [ids -> UNION {Deviations(id) : id \in ids}] : \A id \in ids : f[id] \in Deviations(id)}
Probe(t) ==
    /\ pc = "probe" /\ nextIn < Len(inputs) + MaxProbes
    /\ \E x \in Assignments({e[1] : e \in {f \in edges : f[2] = t}}) :
          Ask(x @@ AfterReset(memo), t) /\ over' = x
    /\ nextIn' = nextIn + 1
    /\ UNCHANGED <<wb, limits, pc, nextOut, artifact, base, edges>>

ONext ==
    \/ BaseOutput \/ Perturb \/ Respond
    \/ StartRun \/ RunOutput \/ EndRun
    \/ \E t \in ToSet(outputs) : Probe(t)

OSpec == OInit /\ [][ONext]_ovars

-------------------------------------------------------------------------------
(* The cells an expression reads, and the ones it reaches.                  *)
RECURSIVE ReadsOf(_, _)
ReadsOf(a, cur) ==
    CASE a.kind = "cell"  -> {<<OnSheet(a.sheet, cur), a.at[1], a.at[2]>>}
      [] a.kind = "range" -> ToSet(RangeCells(a, cur))
      [] a.kind = "name"  -> IF a.name \in DOMAIN wb.names THEN {NamedCell(a.name)} ELSE {}
      [] a.kind \in {"un", "bin", "call"} -> UNION {ReadsOf(b, cur) : b \in ToSet(a.args)}
      [] OTHER -> {}
Reads(id) == IF Has(id, "formula") THEN ReadsOf(wb.cells[id].ast, id[1]) ELSE {}

(* An acyclic book has no cell above itself.                                *)
RECURSIVE Above(_, _)
Above(ids, n) == IF n = 0 THEN ids ELSE Above(ids \cup UNION {Reads(id) : id \in ids}, n - 1)
Acyclic == \A id \in Cells : id \notin Above(Reads(id), Cardinality(Cells))
Shallow == MaxDepth + 1 >= Cardinality(Cells)

(* What a sheet shows: every cell computed from the cells it reads, nothing *)
(* remembered, with the inputs as they are set.                             *)
RECURSIVE Shown(_, _)
Shown(id, set) ==
    CASE id \in DOMAIN set -> set[id]
      [] ~Has(id, "formula") -> 0
      [] OTHER -> Eval([r \in Reads(id) |-> Shown(r, set)], wb.cells[id].ast, id[1], 0)[2]

(* Every answer is what the sheet shows for the inputs as they are set, in  *)
(* whatever order cells are asked for and inputs changed: nothing the       *)
(* oracle remembers is stale (oracle.cpp:48-82, runtime.cpp:19-29,          *)
(* intervene.cpp:11-31).  Cyclic books have no such value.                  *)
AnswerIsFresh ==
    (answer # <<>> /\ Acyclic /\ Shallow) =>
        answer[2] = Shown(answer[1], over @@ BaseValues)

===============================================================================
