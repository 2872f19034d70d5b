--------------------------------- MODULE Xlsb ---------------------------------
(***************************************************************************)
(* The sheets of a binary workbook (extractor/xlsb), of records as         *)
(* XlsbRecords cuts them: the cells, and formulas stored in reverse Polish *)
(* notation, which decode_rpn turns back into text for the parser.  Text   *)
(* is a sequence of tokens.                                                *)
(***************************************************************************)
EXTENDS Formula, XlsbRecords

-------------------------------------------------------------------------------
FnName(ift) ==
    CASE ift = 4 -> "SUM" [] ift = 6 -> "MIN" [] ift = 1 -> "IF" [] ift = 19 -> "PI" [] ift = 24 -> "ABS"
      [] OTHER -> "unknown"
Binaries == [add |-> "+", sub |-> "-", mul |-> "*", div |-> "/", pow |-> "^"]
(* "%g" keeps six digits of a number stored as a double (here of up to 7).  *)
SixDigits(n) == IF n < 1000000 THEN n ELSE ((n + 5) \div 10) * 10

Push(s, text) == [s EXCEPT !.st = Append(@, text)]
Fail(s) == [s EXCEPT !.ok = FALSE]
RECURSIVE Commas(_)
Commas(texts) ==
    IF Len(texts) <= 1 THEN FlattenSeq(texts) ELSE texts[1] \o <<Comma>> \o Commas(Tail(texts))
CallText(f, texts) == <<Ident(f), LP>> \o Commas(texts) \o <<RP>>

(* Mutant: the two operands of an operator are swapped. *)
Infix_Swapped(s, o) ==
    LET n == Len(s.st) IN
    IF n < 2 THEN Fail(s)
    ELSE [s EXCEPT !.st = Append(SubSeq(@, 1, n - 2), <<LP>> \o @[n] \o <<Op(o)>> \o @[n - 1] \o <<RP>>)]

Infix(s, o) ==
    LET n == Len(s.st) IN
    IF n < 2 THEN Fail(s)
    ELSE [s EXCEPT !.st = Append(SubSeq(@, 1, n - 2), <<LP>> \o @[n - 1] \o <<Op(o)>> \o @[n] \o <<RP>>)]

(* One token; a token that is cut off or unknown ends the loop.  A function *)
(* of fixed arity is put around the top of the stack, which stays there.    *)
Decode(s, x) ==
    LET n == Len(s.st) IN
    CASE s.stop -> s
      [] x.p = "cut" -> [Fail(s) EXCEPT !.stop = TRUE]
      [] x.p = "int" -> Push(s, <<NumTok(x.num)>>)
      [] x.p = "num" -> Push(s, <<NumTok(SixDigits(x.num))>>)
      [] x.p \in DOMAIN Binaries -> Infix(s, Binaries[x.p])
      [] x.p \in {"uplus", "paren"} -> s
      [] x.p = "uminus" -> IF n = 0 THEN s ELSE [s EXCEPT !.st[n] = <<Op("-")>> \o @]
      [] x.p = "ref" -> Push(s, <<RefTok(<<A1(x.at[1], x.at[2])>>)>>)
      [] x.p = "area" -> Push(s, <<RefTok(<<A1(x.from[1], x.from[2]), A1(x.to[1], x.to[2])>>)>>)
      [] x.p = "func" /\ FnName(x.ift) # "unknown" ->
            Push(s, CallText(FnName(x.ift), IF n = 0 THEN <<>> ELSE <<s.st[n]>>))
      [] x.p = "funcvar" /\ FnName(x.ift) # "unknown" /\ n >= x.cp ->
            [s EXCEPT !.st = Append(SubSeq(@, 1, n - x.cp), CallText(FnName(x.ift), SubSeq(@, n - x.cp + 1, n)))]
      [] OTHER -> [Fail(s) EXCEPT !.stop = TRUE]
DecodeRpn(rpn) ==
    LET s == FoldLeft(Decode, [st |-> <<>>, ok |-> TRUE, stop |-> FALSE], rpn)
    IN IF s.ok /\ Len(s.st) = 1 THEN [ok |-> TRUE, text |-> s.st[1]] ELSE [ok |-> FALSE, text |-> <<>>]

(* The cells of a sheet: a row record moves to a row, a later record of a   *)
(* cell replaces an earlier one, records of other kinds are passed over.    *)
Placed(row, col, c, sheet) == [at \in DOMAIN sheet \cup {<<row, col>>} |-> IF at = <<row, col>> THEN c ELSE sheet[at]]
Cell(v) == [value |-> v, formula |-> <<>>]
ParseCell(s, r) ==
    CASE r.rec = "row" -> [s EXCEPT !.row = r.row]
      [] r.rec = "value" -> [s EXCEPT !.cells = Placed(s.row, r.col, Cell(r.value), @)]
      [] r.rec = "formula" ->
            [s EXCEPT !.cells = Placed(s.row, r.col, [value |-> r.value, formula |-> DecodeRpn(r.rpn).text], @)]
      [] OTHER -> s
ParseSheet(recs) == FoldLeft(ParseCell, [row |-> 0, cells |-> <<>>], recs).cells

(* The cells, and the tree of each formula.                                 *)
SheetStep ==
    /\ Asked("sheet")
    /\ LET cells == ParseSheet(call.records) IN
       Return([at \in DOMAIN cells |->
                 [value |-> cells[at].value, parsed |-> ParseFormula(cells[at].formula)]])

-------------------------------------------------------------------------------
(* How the writer of the file encodes the tree of a formula (external).     *)
RECURSIVE Rpn(_)
Rpn(x) ==
    CASE x.kind = "num"   -> <<IF x.num < 65536 THEN [p |-> "int", num |-> x.num] ELSE [p |-> "num", num |-> x.num]>>
      [] x.kind = "cell"  -> <<[p |-> "ref", at |-> <<x.at.row, x.at.col>>]>>
      [] x.kind = "range" -> <<[p |-> "area", from |-> <<x.from.row, x.from.col>>, to |-> <<x.to.row, x.to.col>>]>>
      [] x.kind = "un"    -> Rpn(x.args[1]) \o <<[p |-> IF x.op = "-" THEN "uminus" ELSE "uplus"]>>
      [] x.kind = "bin"   -> Rpn(x.args[1]) \o Rpn(x.args[2])
                             \o <<[p |-> CHOOSE b \in DOMAIN Binaries : Binaries[b] = x.op]>>
      [] OTHER -> FlattenSeq([i \in DOMAIN x.args |-> Rpn(x.args[i])])
                  \o <<CASE x.fn = "ABS" -> [p |-> "func", ift |-> 24]
                         [] x.fn = "PI"  -> [p |-> "func", ift |-> 19]
                         [] x.fn = "MIN" -> [p |-> "funcvar", ift |-> 6, cp |-> Len(x.args)]
                         [] OTHER        -> [p |-> "funcvar", ift |-> 4, cp |-> Len(x.args)]>>

(* What the oracle and the lowering compute of a tree: a plus sign is       *)
(* nothing, and PI takes no notice of arguments.                            *)
RECURSIVE Meaning(_)
Meaning(x) ==
    CASE x.kind = "un" /\ x.op = "+" -> Meaning(x.args[1])
      [] x.kind = "call" /\ x.fn = "PI" -> CallNode("PI", <<>>)
      [] x.kind \in {"un", "bin", "call"} -> [x EXCEPT !.args = [i \in DOMAIN @ |-> Meaning(@[i])]]
      [] OTHER -> x
RECURSIVE Exact(_)     \* no constant of more than six digits
Exact(x) == CASE x.kind = "num" -> x.num < 1000000
              [] x.kind \in {"un", "bin", "call"} -> \A i \in DOMAIN x.args : Exact(x.args[i])
              [] OTHER -> TRUE

(* A formula that was stored in a binary sheet either is given up, and the  *)
(* cell keeps its cached value as a constant, or it means after decoding    *)
(* and parsing what it meant to the writer: no precedence is lost on the    *)
(* way through text, and no operand is swapped, dropped or taken from       *)
(* another cell.  Constants of more than six digits are excluded: they are  *)
(* rounded on the way.                                                      *)
FormulaSurvives ==
    Got("sheet") =>
        \A at \in DOMAIN call.wrote :
            LET x == call.wrote[at] IN
            x.kind # "blank" /\ Exact(x) =>
                LET parsed == answer.value[at].parsed IN parsed.ok => Meaning(parsed.ast) = Meaning(x)
===============================================================================
