-------------------------------- MODULE Formula -------------------------------
(***************************************************************************)
(* The formula parser of extractor/formula: a recursive descent over       *)
(* tokens with binding strengths.  Tokens are records; the characters they *)
(* are cut from are left out, but not the names of cells: their letters    *)
(* are digits to the base of 26.  A failure is remembered and parsing goes *)
(* on without consuming the token.                                         *)
(***************************************************************************)
EXTENDS Calls, Integers, Sequences, FiniteSets, SequencesExt

(* Column names (workbook.cpp): letters A..Z are 1..26, without a zero.     *)
RECURSIVE ColName(_)
ColName(n) == IF n = 0 THEN <<>> ELSE Append(ColName((n - 1) \div 26), ((n - 1) % 26) + 1)
A1(row, col) == [letters |-> ColName(col + 1), digits |-> row + 1]
ParseA1(name) ==
    [row |-> name.digits - 1,
     col |-> FoldLeft(LAMBDA c, letter : c * 26 + letter, 0, name.letters) - 1]

(* Tokens, and the nodes they become. *)
Op(o) == [t |-> "Op", op |-> o]
LP == [t |-> "LP"]
RP == [t |-> "RP"]
Comma == [t |-> "Comma"]
NumTok(n) == [t |-> "Num", num |-> n]
Ident(n) == [t |-> "Ident", name |-> n]
RefTok(names) == [t |-> "Ref", names |-> names]     \* one cell, or the two ends of a range

NumNode(n) == [kind |-> "num", num |-> n]
MakeRef(names) ==
    IF Len(names) = 2 THEN [kind |-> "range", from |-> ParseA1(names[1]), to |-> ParseA1(names[2])]
    ELSE [kind |-> "cell", at |-> ParseA1(names[1])]
NameNode(n) == [kind |-> "name", name |-> n]
CallNode(f, args) == [kind |-> "call", fn |-> f, args |-> args]
UnNode(o, x) == [kind |-> "un", op |-> o, args |-> <<x>>]
BinNode(o, x, y) == [kind |-> "bin", op |-> o, args |-> <<x, y>>]
Blank == [kind |-> "blank"]

Prec(o) ==
    CASE o \in {"=", "<>", "<", ">", "<=", ">="} -> 1
      [] o = "&" -> 2
      [] o \in {"+", "-"} -> 3
      [] o \in {"*", "/"} -> 4
      [] o = "^" -> 5
      [] OTHER -> 0

-------------------------------------------------------------------------------
(* r: the node read so far, the place of the next token, and ok.            *)
At(ts, i, t) == i <= Len(ts) /\ ts[i].t = t
AtOp(ts, i, ops) == At(ts, i, "Op") /\ ts[i].op \in ops
Read(ast, i, ok) == [ast |-> ast, i |-> i, ok |-> ok]
Closed(ts, r) == IF At(ts, r.i, "RP") THEN [r EXCEPT !.i = @ + 1] ELSE [r EXCEPT !.ok = FALSE]

RECURSIVE ParseExpr(_, _, _, _), ParseUnary(_, _, _), Binary(_, _, _), Percents(_, _), Arguments(_, _)

ParsePrimary(ts, i, ok) ==
    CASE At(ts, i, "Num") -> Read(NumNode(ts[i].num), i + 1, ok)
      [] At(ts, i, "Ref") -> Read(MakeRef(ts[i].names), i + 1, ok)
      [] At(ts, i, "LP")  -> Closed(ts, ParseExpr(ts, i + 1, ok, 1))
      [] At(ts, i, "Ident") /\ ~At(ts, i + 1, "LP") -> Read(NameNode(ts[i].name), i + 1, ok)
      [] At(ts, i, "Ident") /\ At(ts, i + 1, "LP") ->
            LET args == IF At(ts, i + 2, "RP") THEN Read(<<>>, i + 2, ok)
                        ELSE LET first == ParseExpr(ts, i + 2, ok, 1)
                             IN Arguments(ts, [first EXCEPT !.ast = <<@>>])
            IN Closed(ts, [args EXCEPT !.ast = CallNode(ts[i].name, @)])
      [] OTHER -> Read(Blank, i, FALSE)

Arguments(ts, r) ==
    IF ~At(ts, r.i, "Comma") THEN r
    ELSE LET next == ParseExpr(ts, r.i + 1, r.ok, 1)
         IN Arguments(ts, [next EXCEPT !.ast = Append(r.ast, @)])

Percents(ts, r) ==
    IF r.ok /\ AtOp(ts, r.i, {"%"})
    THEN Percents(ts, Read(UnNode("%", r.ast), r.i + 1, TRUE)) ELSE r

ParseUnary(ts, i, ok) ==
    IF AtOp(ts, i, {"-", "+"})
    THEN LET r == ParseUnary(ts, i + 1, ok) IN [r EXCEPT !.ast = UnNode(ts[i].op, @)]
    ELSE Percents(ts, ParsePrimary(ts, i, ok))

(* Mutant: an operator of the same strength binds to the right. *)
RightPrec_Same(o) == Prec(o)

RightPrec(o) == IF o = "^" THEN Prec(o) ELSE Prec(o) + 1

Binary(ts, r, least) ==
    IF r.ok /\ At(ts, r.i, "Op") /\ Prec(ts[r.i].op) >= least /\ Prec(ts[r.i].op) > 0
    THEN LET o == ts[r.i].op
             rhs == ParseExpr(ts, r.i + 1, r.ok, RightPrec(o))
         IN Binary(ts, [rhs EXCEPT !.ast = BinNode(o, r.ast, @)], least)
    ELSE r

ParseExpr(ts, i, ok, least) == Binary(ts, ParseUnary(ts, i, ok), least)

ParseFormula(ts) ==
    IF ts = <<>> THEN [ok |-> FALSE, ast |-> Blank]
    ELSE LET r == ParseExpr(ts, 1, TRUE, 1)
         IN [ok |-> r.ok /\ r.i > Len(ts), ast |-> r.ast]

ParseStep == Asked("parse") /\ Return(ParseFormula(call.tokens))

-------------------------------------------------------------------------------
(* The grammar the strengths stand for, as the set of all trees it derives  *)
(* for a sequence of tokens: operators of one strength from left to right,  *)
(* but ^ from right to left, signs tighter than ^, % tightest.              *)
Part(ts, i, j) == SubSeq(ts, i, j)
Splits(ts, ok(_)) == {i \in 2..(Len(ts) - 1) : ts[i].t = "Op" /\ ok(ts[i].op)}
RECURSIVE Trees(_, _), SignTrees(_), AtomTrees(_), Lists(_)
Trees(p, ts) ==
    IF p = 6 THEN SignTrees(ts)
    ELSE Trees(p + 1, ts) \cup
         UNION {{BinNode(ts[i].op, x, y) :
                   x \in Trees(IF p = 5 THEN 6 ELSE p, Part(ts, 1, i - 1)),
                   y \in Trees(IF p = 5 THEN 5 ELSE p + 1, Part(ts, i + 1, Len(ts)))} :
                i \in Splits(ts, LAMBDA o : Prec(o) = p)}
SignTrees(ts) ==
    AtomTrees(ts) \cup
    (IF Len(ts) > 1 /\ AtOp(ts, 1, {"-", "+"}) THEN {UnNode(ts[1].op, x) : x \in SignTrees(Tail(ts))} ELSE {})
AtomTrees(ts) ==
    LET n == Len(ts) IN
    UNION {{NumNode(ts[1].num) : k \in {1} \cap {n} \cap {IF At(ts, 1, "Num") THEN 1 ELSE 0}},
           {MakeRef(ts[1].names) : k \in {1} \cap {n} \cap {IF At(ts, 1, "Ref") THEN 1 ELSE 0}},
           {NameNode(ts[1].name) : k \in {1} \cap {n} \cap {IF At(ts, 1, "Ident") THEN 1 ELSE 0}},
           IF n > 1 /\ AtOp(ts, n, {"%"}) THEN {UnNode("%", x) : x \in AtomTrees(Front(ts))} ELSE {},
           IF n > 2 /\ At(ts, 1, "LP") /\ At(ts, n, "RP") THEN Trees(1, Part(ts, 2, n - 1)) ELSE {},
           IF n > 2 /\ At(ts, 1, "Ident") /\ At(ts, 2, "LP") /\ At(ts, n, "RP")
           THEN {CallNode(ts[1].name, args) : args \in Lists(Part(ts, 3, n - 1))} ELSE {}}
Lists(ts) ==
    IF ts = <<>> THEN {<<>>}
    ELSE {<<x>> : x \in Trees(1, ts)} \cup
         UNION {{<<x>> \o rest : x \in Trees(1, Part(ts, 1, i - 1)),
                                 rest \in Lists(Part(ts, i + 1, Len(ts)))} :
                i \in {i \in 2..(Len(ts) - 1) : ts[i].t = "Comma"}}

(* The parser accepts what the grammar derives and nothing else: no token   *)
(* is dropped or read twice, and the tree it returns is the only one.       *)
ParserFollowsTheGrammar ==
    Got("parse") =>
        IF answer.value.ok THEN Trees(1, call.tokens) = {answer.value.ast}
        ELSE Trees(1, call.tokens) = {}
===============================================================================
