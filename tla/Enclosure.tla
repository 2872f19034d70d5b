------------------------------- MODULE Enclosure -------------------------------
(***************************************************************************)
(* The verification core: eval() of core/enclosure walks a program bottom  *)
(* up and computes an interval for every node; decide() turns the interval *)
(* of the margin into SAFE, FAIL or ABSTAIN; build_cert() and validate()   *)
(* of core/proof certify it and criticality() routes it.                   *)
(*                                                                         *)
(* The recursion of rec() is a stack machine: each step visits one node,   *)
(* whose arguments lie on the stack.  Any program over the given leaves    *)
(* comes about this way.  Next to each interval the model keeps the number *)
(* the node really has for one choice of inputs in their box and of hole   *)
(* values within their physical bounds: what the spreadsheet would show.   *)
(* Square roots, logarithms, exponentials and trigonometry are left to the *)
(* slack the code gives libm and are not modelled.                         *)
(***************************************************************************)
EXTENDS Interval, Sequences

CONSTANTS
    Consts,     \* constants a program uses
    Boxes,      \* boxes of the input: an interval, or Entire where there is none
    Bounds,     \* physical bounds of holes
    Ks,         \* Program::ks
    MaxNodes,   \* bound on the nodes of a program
    MaxReal     \* bound on numerators and denominators that are tracked

ASSUME LeafAssumption ==
    /\ Consts \subseteq -M..M /\ Boxes \subseteq Ival /\ Bounds \subseteq Ival
    /\ \A i \in Boxes \cup Bounds : NaN \notin {i.lo, i.hi}
    /\ Ks \in Nat /\ MaxNodes \in Nat /\ MaxReal \in Nat

VARIABLES
    box, input,     \* the box of the input, and the input's value
    stack,          \* nodes visited whose parent is not: interval and number
    residual,       \* twice the sum of the residuals so far, or Boundless
    nodes,
    clean,          \* no operation so far was Indefinite
    cert,           \* the certificate, once the root is decided
    priority        \* of the criticality score

evars == <<box, input, stack, residual, nodes, clean, cert, priority>>

-------------------------------------------------------------------------------
(* Numbers as fractions; Unknown where the sheet has an error or the bound  *)
(* is passed.                                                               *)
Unknown == <<0, 0>>
Frac(p, q) ==
    IF q = 0 \/ p > MaxReal \/ -p > MaxReal \/ q > MaxReal \/ -q > MaxReal THEN Unknown
    ELSE IF q > 0 THEN <<p, q>> ELSE <<-p, -q>>
Known(x) == x # Unknown
AtLeast(x, n) == n = MInf \/ (n \in -M..M /\ x[1] >= n * x[2])
AtMost(x, n) == n = PInf \/ (n \in -M..M /\ x[1] <= n * x[2])
Within(x, i) == AtLeast(x, i.lo) /\ AtMost(x, i.hi)
Ints(i) == {n \in -M..M : Le(i.lo, n) /\ Le(n, i.hi)}
Smaller(x, y) == IF x[1] * y[2] < y[1] * x[2] THEN x ELSE y
Larger(x, y) == IF x[1] * y[2] < y[1] * x[2] THEN y ELSE x
Power(x, n) == LET p[k \in Nat] == IF k = 0 THEN 1 ELSE x * p[k - 1] IN p[n]
RealPow(x, y) ==
    LET n == y[1] \div y[2] IN
    IF y[1] % y[2] # 0 \/ n > M \/ n < -M THEN Unknown
    ELSE IF n = 0 THEN <<1, 1>>
    ELSE IF x[1] > 9 \/ x[1] < -9 \/ x[2] > 9 THEN Unknown
    ELSE IF n > 0 THEN Frac(Power(x[1], n), Power(x[2], n))
    ELSE Frac(Power(x[2], -n), Power(x[1], -n))

Unary == {"neg", "abs"}
Binary == {"add", "sub", "mul", "div", "pow", "max", "min"}

Real1(op, x) ==
    IF ~Known(x) THEN Unknown
    ELSE IF op = "neg" \/ x[1] < 0 THEN Frac(-x[1], x[2]) ELSE x
Real2(op, x, y) ==
    IF ~Known(x) \/ ~Known(y) THEN Unknown
    ELSE CASE op = "add" -> Frac(x[1] * y[2] + y[1] * x[2], x[2] * y[2])
           [] op = "sub" -> Frac(x[1] * y[2] - y[1] * x[2], x[2] * y[2])
           [] op = "mul" -> Frac(x[1] * y[1], x[2] * y[2])
           [] op = "div" -> Frac(x[1] * y[2], x[2] * y[1])
           [] op = "pow" -> RealPow(x, y)
           [] op = "max" -> Larger(x, y)
           [] op = "min" -> Smaller(x, y)

-------------------------------------------------------------------------------
(* apply_op and call_fn.  A power takes the lower end of its exponent.      *)
CallAbs(a) ==
    Of(IF Le(a.lo, 0) /\ Le(0, a.hi) THEN 0 ELSE MinOf(Fabs(a.lo), Fabs(a.hi)), Mag(a))
Apply1(op, a) == IF op = "neg" THEN Neg(a) ELSE CallAbs(a)
Apply2(op, a, b) ==
    CASE op = "add" -> Add(a, b)
      [] op = "sub" -> Sub(a, b)
      [] op = "mul" -> Mul(a, b)
      [] op = "div" -> Div(a, b)
      [] op = "pow" -> RPow(a, b.lo)
      [] op = "max" -> Of(MaxOf(a.lo, b.lo), MaxOf(a.hi, b.hi))
      [] op = "min" -> Of(MinOf(a.lo, b.lo), MinOf(a.hi, b.hi))

EInit ==
    /\ box \in Boxes /\ input \in Ints(box)
    /\ stack = <<>> /\ residual = 0 /\ nodes = 0 /\ clean = TRUE
    /\ cert = <<>> /\ priority = 0

HasNaN(i) == NaN \in {i.lo, i.hi}
Visit(rest, i, x) ==
    /\ cert = <<>> /\ nodes < MaxNodes
    /\ nodes' = nodes + 1
    /\ nodes' + Len(rest) <= MaxNodes  \* what is on the stack still needs parents
    /\ stack' = Append(rest, [ival |-> i, real |-> x])
    /\ UNCHANGED <<box, input, cert, priority>>
Top == stack[Len(stack)]
Second == stack[Len(stack) - 1]
Pop(n) == SubSeq(stack, 1, Len(stack) - n)

VisitConst(c) == Visit(stack, Point(c), <<c, 1>>) /\ UNCHANGED <<residual, clean>>
VisitVar == Visit(stack, box, <<input, 1>>) /\ UNCHANGED <<residual, clean>>

Boundless == -1

(* A hole without a wrapper has its physical bounds and, as residual, half  *)
(* their width (rounded outward by the slack).  Residuals do not overflow   *)
(* here.                                                                    *)
HoleResidual(i) ==
    IF IsEmpty(i) THEN 0
    ELSE IF {i.lo, i.hi} \cap Infs # {} THEN Boundless ELSE i.hi - i.lo + 2
Plus(r, s) == IF Boundless \in {r, s} THEN Boundless ELSE r + s

VisitHole(i) ==
    /\ \E v \in Ints(i) : Visit(stack, i, <<v, 1>>)
    /\ residual' = Plus(residual, HoleResidual(i))
    /\ UNCHANGED clean

VisitUnary(op) ==
    /\ Len(stack) >= 1
    /\ Visit(Pop(1), Apply1(op, Top.ival), Real1(op, Top.real))
    /\ UNCHANGED <<residual, clean>>

(* Operations on which the arithmetic meets a NaN (zero times infinity,     *)
(* infinity through infinity), which comparisons may drop again, or takes   *)
(* an exponent with a width for its lower end.                              *)
Ends(a) == {a.lo, a.hi}
Fits(x, n) == x \in {0, 1} \/ (x \notin Infs /\ n \in 0..M /\ Power(x, n) <= M)
Indefinite(op, a, b) ==
    CASE op = "mul" -> \/ 0 \in Ends(a) /\ Ends(b) \cap Infs # {}
                       \/ 0 \in Ends(b) /\ Ends(a) \cap Infs # {}
      [] op = "div" -> Ends(a) \cap Infs # {} /\ Ends(b) \cap Infs # {}
      [] op = "pow" -> b.lo # b.hi \/ \E x \in Ends(a) : ~Fits(Fabs(x), Fabs(b.lo))
      [] OTHER      -> HasNaN(Apply2(op, a, b))

VisitBinary(op) ==
    /\ Len(stack) >= 2
    /\ LET i == Apply2(op, Second.ival, Top.ival) IN
        /\ Visit(Pop(2), i, Real2(op, Second.real, Top.real))
        /\ clean' = (clean /\ ~Indefinite(op, Second.ival, Top.ival))
    /\ UNCHANGED residual

(* IF and IFERROR are lowered to a disjunction: the node has the number of  *)
(* one of its candidates, its interval is their hull.                       *)
VisitDisj ==
    /\ Len(stack) >= 2
    /\ \E x \in {Second.real, Top.real} : Visit(Pop(2), Hull(Second.ival, Top.ival), x)
    /\ UNCHANGED <<residual, clean>>

-------------------------------------------------------------------------------
(* Mutant: the sign of the upper end decides. *)
Decide_Upper(i, r) ==
    IF IsEmpty(i) \/ i = Entire THEN "ABSTAIN"
    ELSE IF {i.lo, i.hi} \cap (Infs \cup {NaN}) # {} \/ r = Boundless THEN "ABSTAIN"
    ELSE IF 2 * i.hi - r > 0 THEN "SAFE"
    ELSE IF 2 * i.hi + r < 0 THEN "FAIL"
    ELSE "ABSTAIN"

(* decide_eval and decide. *)
Decide(i, r) ==
    IF IsEmpty(i) \/ i = Entire THEN "ABSTAIN"
    ELSE IF {i.lo, i.hi} \cap (Infs \cup {NaN}) # {} \/ r = Boundless THEN "ABSTAIN"
    ELSE IF 2 * i.lo - r > 0 THEN "SAFE"
    ELSE IF 2 * i.hi + r < 0 THEN "FAIL"
    ELSE "ABSTAIN"

(* validate(), of a certificate whose digest is its own. *)
Validates(c) ==
    /\ ~HasNaN(c.ival) /\ ~Lt(c.ival.hi, c.ival.lo)
    /\ CASE c.verdict = "SAFE" -> c.residual # Boundless /\ 2 * c.ival.lo - c.residual > 0
         [] c.verdict = "FAIL" -> c.residual # Boundless /\ 2 * c.ival.hi + c.residual < 0
         [] OTHER -> TRUE

(* criticality(): the score falls with (lo - residual) / (width + residual),*)
(* and a signal of zero is one half, where REVIEW begins; so near to zero   *)
(* that exp() gives one, it is REVIEW too.  The signal is NaN, and the      *)
(* priority HALT, for an infinite lower end or residual.                    *)
Priorities(i, r) ==
    IF HasNaN(i) \/ r = Boundless THEN {4}
    ELSE IF IsEmpty(i) THEN {0}
    ELSE IF i.lo \in Infs THEN {4}
    ELSE IF i.hi = PInf \/ 2 * i.lo - r = 0 THEN {2}
    ELSE IF 2 * i.lo - r > 0 THEN {0, 1, 2} ELSE {2, 3, 4}

Finish ==
    /\ Len(stack) = 1 /\ cert = <<>>
    /\ LET i == Top.ival
           r == Plus(residual, 2 * Ks)
       IN  /\ cert' = <<[ival |-> i, residual |-> r, verdict |-> Decide(i, r)]>>
           /\ \E p \in Priorities(i, r) : priority' = p
    /\ UNCHANGED <<box, input, stack, residual, nodes, clean>>

Next ==
    \/ \E c \in Consts : VisitConst(c)
    \/ VisitVar
    \/ \E i \in Bounds : VisitHole(i)
    \/ \E op \in Unary : VisitUnary(op)
    \/ \E op \in Binary : VisitBinary(op)
    \/ VisitDisj
    \/ Finish

Spec == EInit /\ [][Next]_evars

-------------------------------------------------------------------------------

(* Does the decision say the truth about the number of the sheet? *)
Verdict == cert[1].verdict
TrueVerdict ==
    (Len(cert) = 1 /\ Known(Top.real)) =>
        /\ Verdict = "SAFE" => Top.real[1] > 0
        /\ Verdict = "FAIL" => Top.real[1] < 0

(* ARCHITECTURE_SUMMARY, soundness of eval: whatever the program and its    *)
(* rounding and overflow, the interval of every node contains the node's    *)
(* number, and so a SAFE margin is positive and a FAIL margin negative in   *)
(* the sheet, as long as the arithmetic met no NaN and exponents are        *)
(* constant (enclosure.cpp:9-94, ival.cpp, verifier.cpp:14-28).             *)
Encloses ==
    clean =>
        /\ \A k \in 1..Len(stack) : Known(stack[k].real) => Within(stack[k].real, stack[k].ival)
        /\ TrueVerdict

(* What is decided has a certificate that validates, with every residual    *)
(* met, and criticality never ranks a SAFE margin CRITICAL or HALT          *)
(* (verifier.cpp:14-28, proof.cpp:16-34, 75-88, criticality.cpp:45-60).     *)
DecidedIsCertified ==
    (Len(cert) = 1 /\ Verdict # "ABSTAIN") =>
        /\ Validates(cert[1])
        /\ Verdict = "SAFE" => priority < 3

(* README: a false SAFE is structurally impossible. *)
NoFalseSafe ==
    (Len(cert) = 1 /\ Known(Top.real) /\ Verdict = "SAFE") => Top.real[1] > 0

===============================================================================
