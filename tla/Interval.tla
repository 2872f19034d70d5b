------------------------------- MODULE Interval -------------------------------
(***************************************************************************)
(* The interval arithmetic of core/interval/ival.cpp over a small floating *)
(* point: the finite numbers are -M..M, so that results are rounded and    *)
(* overflow as doubles do, under the two directed rounding modes the code  *)
(* sets.  Infinities and NaN take part in comparisons as in C++.           *)
(***************************************************************************)
EXTENDS Integers

CONSTANT M      \* the largest finite number

ASSUME MAssumption == M \in Nat \ {0}

PInf == M + 1
MInf == -(M + 1)
NaN == M + 2
Num == MInf..NaN
Ival == [lo : Num, hi : Num]

(* C++ comparisons are false on NaN; std::min and std::max keep their first *)
(* argument unless the second is strictly better.                           *)
Lt(a, b) == a # NaN /\ b # NaN /\ a < b
Le(a, b) == a # NaN /\ b # NaN /\ a <= b
MinOf(a, b) == IF Lt(b, a) THEN b ELSE a
MaxOf(a, b) == IF Lt(a, b) THEN b ELSE a
Min4(a, b, c, d) == MinOf(MinOf(a, b), MinOf(c, d))
Max4(a, b, c, d) == MaxOf(MaxOf(a, b), MaxOf(c, d))
Minus(a) == IF a = NaN THEN NaN ELSE -a
Fabs(a) == IF Lt(a, 0) THEN -a ELSE a

(* p/q (q > 0) rounded downward: too large is M, too small is -infinity.    *)
Down(p, q) ==
    LET f == p \div q IN IF f > M THEN M ELSE IF f < -M THEN MInf ELSE f

Infs == {PInf, MInf}
SignedInf(positive) == IF positive THEN PInf ELSE MInf

AddDown(a, b) ==
    IF NaN \in {a, b} \/ {a, b} = Infs THEN NaN
    ELSE IF {a, b} \cap Infs = {} THEN Down(a + b, 1) ELSE SignedInf(PInf \in {a, b})
MulDown(a, b) ==
    IF NaN \in {a, b} \/ (0 \in {a, b} /\ {a, b} \cap Infs # {}) THEN NaN
    ELSE IF {a, b} \cap Infs = {} THEN Down(a * b, 1) ELSE SignedInf((a > 0) = (b > 0))
DivDown(a, b) ==
    IF NaN \in {a, b} \/ (a = 0 /\ b = 0) \/ (a \in Infs /\ b \in Infs) THEN NaN
    ELSE IF b \in Infs THEN 0
    ELSE IF a \in Infs \/ b = 0 THEN SignedInf((a > 0) = (b >= 0))
    ELSE IF b > 0 THEN Down(a, b) ELSE Down(-a, -b)

(* Rounding upward is rounding the negated operation downward. *)
AddUp(a, b) == Minus(AddDown(Minus(a), Minus(b)))
MulUp(a, b) == Minus(MulDown(Minus(a), b))
DivUp(a, b) == Minus(DivDown(Minus(a), b))

-------------------------------------------------------------------------------
Pair(lo, hi) == [lo |-> lo, hi |-> hi]
Point(x) == Pair(x, x)
Of(a, b) == IF Le(a, b) THEN Pair(a, b) ELSE Pair(b, a)
Empty == Pair(PInf, MInf)
Entire == Pair(MInf, PInf)
IsEmpty(i) == Lt(i.hi, i.lo)
Mag(i) == IF IsEmpty(i) THEN 0 ELSE MaxOf(Fabs(i.lo), Fabs(i.hi))

(* A finite number moved by the two units of the libm slack. *)
SlackDown(x) == IF x \in Infs \cup {NaN} THEN x ELSE IF x - 2 < -M THEN MInf ELSE x - 2
SlackUp(x) == Minus(SlackDown(Minus(x)))

Neg(a) == IF IsEmpty(a) THEN a ELSE Pair(Minus(a.hi), Minus(a.lo))
Add(a, b) ==
    IF IsEmpty(a) \/ IsEmpty(b) THEN Empty ELSE Pair(AddDown(a.lo, b.lo), AddUp(a.hi, b.hi))

Sub(a, b) ==
    IF IsEmpty(a) \/ IsEmpty(b) THEN Empty
    ELSE Pair(AddDown(a.lo, Minus(b.hi)), AddUp(a.hi, Minus(b.lo)))

Mul(a, b) ==
    IF IsEmpty(a) \/ IsEmpty(b) THEN Empty
    ELSE Pair(Min4(MulDown(a.lo, b.lo), MulDown(a.lo, b.hi), MulDown(a.hi, b.lo), MulDown(a.hi, b.hi)),
              Max4(MulUp(a.lo, b.lo), MulUp(a.lo, b.hi), MulUp(a.hi, b.lo), MulUp(a.hi, b.hi)))

(* Mutant: only a divisor that is zero gives up. *)
Div_PointZero(a, b) ==
    IF IsEmpty(a) \/ IsEmpty(b) THEN Empty
    ELSE IF b.lo = 0 /\ b.hi = 0 THEN Entire
    ELSE Pair(Min4(DivDown(a.lo, b.lo), DivDown(a.lo, b.hi), DivDown(a.hi, b.lo), DivDown(a.hi, b.hi)),
              Max4(DivUp(a.lo, b.lo), DivUp(a.lo, b.hi), DivUp(a.hi, b.lo), DivUp(a.hi, b.hi)))

Div(a, b) ==
    IF IsEmpty(a) \/ IsEmpty(b) THEN Empty
    ELSE IF Le(b.lo, 0) /\ Le(0, b.hi) THEN Entire
    ELSE Pair(Min4(DivDown(a.lo, b.lo), DivDown(a.lo, b.hi), DivDown(a.hi, b.lo), DivDown(a.hi, b.hi)),
              Max4(DivUp(a.lo, b.lo), DivUp(a.lo, b.hi), DivUp(a.hi, b.lo), DivUp(a.hi, b.hi)))

(* One turn of the loop of ipow, and the power the n turns give that are     *)
(* more than it takes.                                                      *)
PowTurn(s) ==
    IF s.e = 0 THEN s
    ELSE [r    |-> IF s.e % 2 = 1 THEN Mul(s.r, s.base) ELSE s.r,
          base |-> IF s.e > 1 THEN Mul(s.base, s.base) ELSE s.base,
          e    |-> s.e \div 2]
PowNat(a, n) ==
    LET turn[k \in Nat] == IF k = 0 THEN [r |-> Point(1), base |-> a, e |-> n] ELSE PowTurn(turn[k - 1])
        r == turn[n].r
    IN  IF n > 0 /\ n % 2 = 0 /\ Lt(a.lo, 0) /\ Lt(0, a.hi) THEN [r EXCEPT !.lo = 0] ELSE r
IPow(a, n) ==
    IF IsEmpty(a) THEN a ELSE IF n >= 0 THEN PowNat(a, n) ELSE Div(Point(1), PowNat(a, -n))

(* pow of libm for an exponent that is no finite number. *)
LibmPow(x, p) ==
    IF x = 1 THEN 1
    ELSE IF NaN \in {x, p} THEN NaN
    ELSE IF (x > 1) = (p = PInf) THEN PInf ELSE 0
RPow(a, p) ==
    IF IsEmpty(a) THEN a
    ELSE IF p \notin Infs \cup {NaN} THEN IPow(a, p)
    ELSE IF Lt(a.hi, 0) THEN Empty
    ELSE LET fl == LibmPow(MaxOf(a.lo, 0), p)
             fh == LibmPow(MaxOf(a.hi, 0), p)
         IN  Pair(SlackDown(MinOf(fl, fh)), SlackUp(MaxOf(fl, fh)))

Hull(a, b) ==
    IF IsEmpty(a) THEN b
    ELSE IF IsEmpty(b) THEN a ELSE Pair(MinOf(a.lo, b.lo), MaxOf(a.hi, b.hi))

===============================================================================
