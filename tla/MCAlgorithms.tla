----------------------------- MODULE MCAlgorithms -----------------------------
(* Every small argument of the functions that keep no state.                *)
EXTENDS CertDiff, Glue, Cocycles, Dim, Merkle, ArtifactGraph, Xlsb, Sivia, Grpc

-------------------------------------------------------------------------------
(* Runs of up to two targets; one may not be stored. *)
Ms == [SAFE |-> <<1, 3>>, FAIL |-> <<-3, -1>>, ABSTAIN |-> <<-1, 1>>]
Target(cell, v, cs) ==
    [cell |-> cell, verdict |-> v, cs |-> cs, ms |-> Ms[v], holes |-> IF v = "ABSTAIN" THEN 1 ELSE 0]
TargetsOf(cell) == {Target(cell, v, cs) : v \in {"SAFE", "FAIL", "ABSTAIN"}, cs \in {10, 15, 16}}
Runs == {<<>>} \cup {<<t>> : t \in TargetsOf("A")} \cup {<<t>> : t \in TargetsOf("B")}
        \cup {<<s, t>> : s \in TargetsOf("A"), t \in TargetsOf("B")}
DiffCall ==
    \/ \E a \in Runs, b \in Runs : call = [fn |-> "diff", runs |-> [old |-> a, new |-> b]]
    \/ \E b \in Runs : call = [fn |-> "diff", runs |-> [new |-> b]]

(* Three regions that give one or two symbols a range and perhaps a unit.   *)
Assigns == [range : {<<0, 6>>, <<0, 2>>, <<2, 4>>, <<3, 6>>}, dim : {NoDim, "mm", "N"}]
SymsOf == {<<>>} \cup [{"load"} -> Assigns] \cup [{"load", "area"} -> [range : {<<0, 2>>, <<3, 6>>}, dim : {"mm"}]]
GlueCall ==
    \E x \in SymsOf, y \in SymsOf, z \in SymsOf :
        call = [fn |-> "glue", sections |-> << [region |-> "A", sym |-> x],
                   [region |-> "B", sym |-> y], [region |-> "C", sym |-> z] >>]

(* Overlaps of four regions, in any order, also twice the same pair.  The   *)
(* trees have up to three of their offsets of 0 or 1.                       *)
SmallHeights == -3..3
Pairs == {<<"p", "q">>, <<"r", "s">>, <<"s", "q">>, <<"p", "r">>}
Overlaps == {[a |-> p[1], b |-> p[2], symbol |-> "x", offset |-> k] : p \in Pairs, k \in {0, 1}}
CohomologyCall ==
    \E n \in 0..4 : \E os \in [1..n -> Overlaps] :
        call = [fn |-> "cohomology", regions |-> <<"p", "q", "r", "s">>, overlaps |-> os]

(* Up to two relations between two unknown symbols and a known one.         *)
Relations ==
    {AddEq("x", "y"), AddEq("y", "k")}
    \cup {AddCombo(out, << <<a, i>>, <<b, j>> >>) :
            out \in {"x", "k"}, a \in {"x", "y"}, b \in {"y", "k"}, i \in {1, 2}, j \in {-2, 1}}
InferCall ==
    \E r \in Relations, s \in Relations :
        \E cons \in {<<r>>, <<r, s>>} :
            call = [fn |-> "infer", graph |-> [syms |-> <<"x", "y", "k">>, cons |-> cons,
                        known |-> [n \in {"k"} |-> [b \in Bases |-> b]]]]

Leaves == UNION {[1..n -> {"u", "v"}] : n \in 0..5}
MerkleCall == \E a \in Leaves, b \in Leaves : call = [fn |-> "merkle", a |-> a, b |-> b]

Dep(a, b, s) == [from |-> a, to |-> b, symbol |-> s, cell |-> s]
Deps == <<Dep("root", "a", "s"), Dep("root", "b", "s"), Dep("a", "b", "s"), Dep("a", "b", "t"),
         Dep("b", "c", "s"), Dep("a", "c", "s"), Dep("c", "a", "s"), Dep("d", "a", "s")>>
GraphCall ==
    \E ds \in SUBSET ToSet(Deps), n \in 1..4, order \in {Deps, Reverse(Deps)} :
        call = [fn |-> "graph", deps |-> SelectSeq(order, LAMBDA d : d \in ds), root |-> "root", depth |-> n,
                names |-> <<"a", "b", "c", "d", "root">>]

(* All formulas of up to four tokens, and longer ones of four operands in   *)
(* which the second or the last two may stand in parentheses.               *)
Tokens == {NumTok(7), Ident("f"), Op("+"), Op("-"), Op("^"), Op("%"), LP, RP, Comma,
           RefTok(<<A1(2, 27)>>)}
Operands == {<<NumTok(1)>>, <<Op("-"), NumTok(1)>>, <<NumTok(1), Op("%")>>}
Infixes == {"<", "&", "+", "-", "*", "^"}
Long == {x \o <<Op(o)>> \o open \o <<NumTok(2), Op(p), NumTok(3)>> \o close \o <<Op(q), NumTok(4)>> :
           x \in Operands, o \in Infixes, p \in Infixes, q \in Infixes, open \in {<<>>, <<LP>>}, close \in {<<>>, <<RP>>}}
ParseCall ==
    \E n \in 1..4 : \E ts \in [1..n -> Tokens] \cup Long : 
        /\ \A i \in 1..(Len(ts) - 1) : ~(ts[i].t = "Ref" /\ ts[i + 1].t = "LP")
        /\ call = [fn |-> "parse", tokens |-> ts]

(* Up to three records, ended anywhere, in up to three chunks.              *)
WrittenRecords == {[id |-> id, size |-> d[1], data |-> d[2]] :
              id \in {<<5>>, <<129, 1>>},
              d \in {<< <<0>>, <<>> >>, << <<1>>, <<9>> >>, << <<129, 0>>, <<200>> >>, << <<2>>, <<5, 0>> >>}}
RecordsCall ==
    \E n \in 1..3 : \E recs \in [1..n -> WrittenRecords] :
        LET bytes == FlattenSeq([k \in 1..n |-> EncodeRec(recs[k])]) IN
        \E end \in 1..Len(bytes), i \in 0..3, j \in 0..5 :
            /\ i + j <= end
            /\ call = [fn |-> "records", wrote |-> recs,
                       chunks |-> <<SubSeq(bytes, 1, i), SubSeq(bytes, i + 1, i + j), SubSeq(bytes, i + j + 1, end)>>]

(* Two cells of a row: a value that a later record may replace, a formula.  *)
Atoms == {NumNode(7), NumNode(1234567), NumNode(70000), MakeRef(<<A1(0, 25)>>), MakeRef(<<A1(1, 26)>>),
          CallNode("PI", <<>>)}
Ranges == {MakeRef(<<A1(0, 0), A1(2, 701)>>), MakeRef(<<A1(0, 702), A1(9, 703)>>)}
Deeper(xs, ys) ==
    {UnNode(o, x) : o \in {"-", "+"}, x \in xs}
    \cup {BinNode(o, x, y) : o \in {"+", "-", "/", "^"}, x \in xs, y \in ys}
    \cup {CallNode("ABS", <<x>>) : x \in xs}
    \cup {CallNode(f, <<x, y>>) : f \in {"MIN", "SUM"}, x \in xs, y \in ys \cup Ranges}
Shallower == Atoms \cup Deeper(Atoms, Atoms)
Formulas == Shallower \cup Deeper(Shallower, Atoms) \cup Deeper(Atoms, Shallower)
SheetCall ==
    \E x \in Formulas, again \in BOOLEAN :
        LET row == [rec |-> "row", row |-> 3]
            val == [rec |-> "value", col |-> 0, value |-> 1]
            fml == [rec |-> "formula", col |-> 1, value |-> 2, rpn |-> Rpn(x)]
        IN call = [fn |-> "sheet", records |-> <<row, val, fml>> \o (IF again THEN <<[fml EXCEPT !.col = 0]>> ELSE <<>>),
                   wrote |-> <<3, 0>> :> (IF again THEN x ELSE Blank) @@ <<3, 1>> :> x]

(* Margins of two inputs, one of them divided by the other, in boxes with   *)
(* and without zero, stopped early or late.                                 *)
X == <<"input", 1>>
Y == <<"input", 2>>
Margins ==
    LET c(n) == <<"const", n>> IN
    {<<"sub", X, c(5)>>, <<"add", X, Y>>, <<"sub", <<"mul", X, Y>>, c(6)>>, <<"sub", <<"mul", X, X>>, <<"mul", Y, Y>>>>,
     <<"sub", <<"div", X, Y>>, c(2)>>, <<"mul", X, <<"div", c(1), Y>>>>, <<"sub", X, X>>}
SiviaCall ==
    \E m \in Margins, r \in {0, 1}, b \in {<<4, 8>>, <<8, 0>>, <<-8, 8>>, <<0, -4>>}, sh \in {0, 4, 8},
      e \in {2, 4}, n \in {0, 1, 2, 5, 100} :
        call = [fn |-> "sivia", prog |-> [margin |-> m, residual |-> r], base |-> b, share |-> sh, eps |-> e, limit |-> n]

(* Requests of up to three fields, some unknown, one perhaps twice.         *)
LongText == [k \in 1..130 |-> k % 3]
WireFields ==
    <<Str(1, <<>>), Str(1, <<7>>), Str(1, LongText), Str(2, <<8, 200>>), Str(3, <<9>>), Num(9, 300), Str(20, <<1, 2>>),
      [field |-> 17, wire |-> 5, v |-> <<1, 1, 1, 1>>], Dbl(30, FivePercent)>>
Rates == {Dbl(2, [k \in 1..DoubleBytes |-> 255]), Dbl(2, FivePercent)}
SomeTarget(ms, holes) ==
    [cell |-> <<1>>, label |-> <<>>, verdict |-> <<3>>, ms |-> ms, method |-> <<4>>, holes |-> holes, cert |-> LongText, valid |-> TRUE]
Targets == {<<>>, <<SomeTarget(<<>>, 0)>>, <<SomeTarget(<<FivePercent, FivePercent>>, 128), SomeTarget(<<>>, 70000)>>}
Edge == [from |-> <<1>>, to |-> LongText, origin |-> <<>>, rel |-> <<2>>]
Returns(method) ==
    CASE method = "Upload" -> {[id |-> i, size |-> n] : i \in {<<1>>, LongText}, n \in {0, 127, 128, 16384, 70000}}
      [] method = "Analyze" -> {Absent, [ok |-> TRUE, model |-> <<5>>, format |-> <<6>>, nodes |-> 130, edges |-> 0,
                                         consistent |-> TRUE, obstructed |-> FALSE]}
      [] method = "Verify" -> {Absent} \cup {[ok |-> TRUE, run |-> <<1, 2>>, targets |-> t] : t \in Targets}
      [] method = "GetCertificate" ->
            {Absent} \cup {[ok |-> TRUE, id |-> <<1>>, artifact |-> <<2>>, chainOk |-> b, targets |-> t] : b \in BOOLEAN, t \in Targets}
      [] method = "GetArtifact" -> {Absent, [ok |-> TRUE, id |-> <<1>>, name |-> LongText, hash |-> <<>>, size |-> 200]}
      [] method = "GetGraph" ->
            {Absent, [ok |-> TRUE, edges |-> <<Edge, Edge>>,
                      nodes |-> <<[id |-> <<1>>, label |-> LongText, input |-> TRUE, ambiguous |-> FALSE]>>]}
      [] method = "Provenance" -> {Absent, [ok |-> TRUE, links |-> <<Edge>>]}
      [] method = "AuditHistory" -> {[chainOk |-> FALSE, entries |-> <<[seq |-> 300, type |-> <<1>>, subject |-> <<>>, prev |-> LongText]>>]}
      [] OTHER -> {Absent}
RpcCall ==
    \E method \in Methods \cup {"Delete"} :
        \E chosen \in UNION {[1..n -> DOMAIN WireFields] : n \in 0..2}, rate \in {<<>>} \cup {<<r>> : r \in Rates}, a \in Returns(method) :
            LET fs == [i \in DOMAIN chosen |-> WireFields[chosen[i]]] IN
            /\ method # "Verify" => rate = <<>>
            /\ method = "Verify" => \A i \in DOMAIN fs : fs[i].field # 2
            /\ call = [fn |-> "rpc", method |-> method, fields |-> rate \o fs, returns |-> a]

-------------------------------------------------------------------------------
Init == /\ answer = Pending
        /\ DiffCall \/ GlueCall \/ CohomologyCall \/ InferCall \/ MerkleCall \/ GraphCall
           \/ ParseCall \/ RecordsCall \/ SheetCall \/ SiviaCall \/ RpcCall
Next == Diff \/ GlueStep \/ CohomologyStep \/ InferStep \/ MerkleStep \/ GraphStep
        \/ ParseStep \/ RecordsStep \/ SheetStep \/ SiviaStep \/ RpcStep
Spec == Init /\ [][Next]_cvars
===============================================================================
