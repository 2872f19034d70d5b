------------------------------ MODULE MCWorkbook ------------------------------
(* Small workbooks: two cells side by side on a first sheet and one on a    *)
(* second, each blank, a number, text, broken or one of a few formulas.     *)
EXTENDS Lowering

A1 == <<0, 0, 0>>
B1 == <<0, 0, 1>>
C1 == <<1, 0, 0>>

Num(n) == [kind |-> "num", num |-> n]
Str == [kind |-> "str"]
Here(row, col) == [kind |-> "cell", sheet |-> -1, at |-> <<row, col>>]
There(id) == [kind |-> "cell", sheet |-> id[1], at |-> <<id[2], id[3]>>]
Row == [kind |-> "range", sheet |-> -1, from |-> <<0, 1>>, to |-> <<0, 0>>]
Named(n) == [kind |-> "name", name |-> n]
Un(op, x) == [kind |-> "un", op |-> op, args |-> <<x>>]
Bin(op, x, y) == [kind |-> "bin", op |-> op, args |-> <<x, y>>]
Fn(f, args) == [kind |-> "call", fn |-> f, args |-> args]

Formulas ==
    { There(B1), Bin("-", There(C1), Here(0, 1)), Bin("/", Num(6), There(B1)),
      Fn("SUM", <<Row, Str>>), Fn("MIN", <<Row, Num(1)>>), Fn("AVERAGE", <<Row, There(C1)>>),
      Fn("IF", <<Bin("<", There(A1), Num(2)), There(B1), There(C1)>>),
      Fn("IF", <<Row, Num(5), Here(0, 1)>>),
      Fn("IFERROR", <<Bin("/", Num(4), There(A1)), There(C1)>>),
      Named("limit"), Bin("+", Named("rate"), Named("gone")),
      Fn("INT", <<Here(0, 0)>>), Un("-", There(A1)), Bin("*", There(A1), There(B1)),
      Fn("MAX", <<There(C1), Fn("ABS", <<There(B1)>>)>>), Fn("PRODUCT", <<Row, Num(2)>>) }
Contents ==
    {[kind |-> "number", value |-> v] : v \in {0, 2}} \cup {[kind |-> "text"], [kind |-> "broken"]}
    \cup {[kind |-> "formula", ast |-> f] : f \in Formulas}
MCNames == "limit" :> C1 @@ "rate" :> <<-1, 0, 0>>
MCWorkbooks == {[cells |-> c, names |-> MCNames] : c \in [{A1, B1, C1} -> Contents]}
MCLimits == {[max_cells |-> 3, max_evals |-> 1]}
===============================================================================
