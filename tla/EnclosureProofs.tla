---------------------------- MODULE EnclosureProofs ---------------------------
(***************************************************************************)
(* Proofs about the verification core, for every floating point, program   *)
(* and box.  The interval arithmetic encloses: whatever the largest finite *)
(* number, the directed rounding, the overflow and the infinities, the     *)
(* interval an operation of core/interval/ival.cpp gives contains the      *)
(* number the operation gives on any two numbers of its arguments.  From   *)
(* it, what the core decides of a program it can certify.                  *)
(***************************************************************************)
EXTENDS Enclosure, SequenceTheorems, NaturalsInduction, WellFoundedInduction, TLAPS

(* The numbers of the sheet that are known, and the ends of intervals that  *)
(* are no NaN.                                                              *)
Fraction == Int \X (Nat \ {0})
Opposite(x) == <<-x[1], x[2]>>
Ordinary == Num \ {NaN}

(* What a fraction is made of. *)
LEMMA FractionParts ==
    ASSUME NEW x \in Fraction
    PROVE  x[1] \in Int /\ x[2] \in Int /\ x[2] > 0 /\ x = <<x[1], x[2]>> /\ Opposite(x) \in Fraction
BY DEF Fraction, Opposite

(* Below a lower end there is room for lower ones. *)
LEMMA LowerStillBelow ==
    ASSUME NEW x \in Fraction, NEW m \in Num, NEW n \in Num, n <= m, AtLeast(x, m)
    PROVE  AtLeast(x, n)
<1>1. CASE n = MInf
    BY <1>1 DEF AtLeast
<1>2. CASE n # MInf
    <2>1. m \in -M..M /\ n \in -M..M /\ x[1] >= m * x[2]
        BY <1>2, MAssumption DEF AtLeast, Num, NaN, MInf
    <2>2. n * x[2] <= m * x[2]
        BY <2>1, FractionParts
    <2> QED BY <2>1, <2>2, FractionParts DEF AtLeast
<1> QED BY <1>1, <1>2

(* Upper ends are lower ends of the opposite number. *)
LEMMA Mirrored ==
    ASSUME NEW x \in Fraction, NEW n \in Ordinary
    PROVE  /\ Minus(n) \in Ordinary /\ Minus(Minus(n)) = n
           /\ AtMost(x, n) <=> AtLeast(Opposite(x), Minus(n))
           /\ AtLeast(x, n) <=> AtMost(Opposite(x), Minus(n))
<1>1. n \in Int /\ n # NaN /\ n >= MInf /\ n <= PInf
    BY MAssumption DEF Ordinary, Num, NaN, MInf, PInf
<1>2. Minus(n) = -n
    BY <1>1 DEF Minus
<1>3. -n # NaN /\ -n \in Num
    BY <1>1, MAssumption DEF NaN, MInf, PInf, Num
<1>4. Minus(Minus(n)) = n
    BY <1>1, <1>2, <1>3 DEF Minus
<1>5. (-n) * x[2] = -(n * x[2]) /\ n * x[2] \in Int /\ x[1] \in Int
    BY <1>1, FractionParts
<1>6. Opposite(x)[1] = -x[1] /\ Opposite(x)[2] = x[2]
    BY DEF Opposite
<1>7. AtMost(x, n) <=> AtLeast(Opposite(x), Minus(n))
    BY <1>1, <1>2, <1>5, <1>6, MAssumption DEF AtMost, AtLeast, PInf, MInf
<1>8. AtLeast(x, n) <=> AtMost(Opposite(x), Minus(n))
    BY <1>1, <1>2, <1>5, <1>6, MAssumption DEF AtMost, AtLeast, PInf, MInf
<1> QED BY <1>2, <1>3, <1>4, <1>7, <1>8 DEF Ordinary

(* What the code calls dmin4 and dmax4. *)
LEMMA LeastOfFour ==
    ASSUME NEW a \in Ordinary, NEW b \in Ordinary, NEW c \in Ordinary, NEW d \in Ordinary
    PROVE  /\ Min4(a, b, c, d) \in Ordinary
           /\ Min4(a, b, c, d) <= a /\ Min4(a, b, c, d) <= b /\ Min4(a, b, c, d) <= c /\ Min4(a, b, c, d) <= d
           /\ Max4(a, b, c, d) \in Ordinary
           /\ Max4(a, b, c, d) >= a /\ Max4(a, b, c, d) >= b /\ Max4(a, b, c, d) >= c /\ Max4(a, b, c, d) >= d
<1>1. \A u, v \in Ordinary : /\ MinOf(u, v) \in Ordinary /\ MinOf(u, v) <= u /\ MinOf(u, v) <= v
                             /\ MaxOf(u, v) \in Ordinary /\ MaxOf(u, v) >= u /\ MaxOf(u, v) >= v
    BY MAssumption DEF MinOf, MaxOf, Lt, Ordinary, Num, NaN, MInf
<1>2. \A u \in Ordinary : u \in Int
    BY MAssumption DEF Ordinary, Num, NaN, MInf
<1>3. MinOf(a, b) \in Ordinary /\ MinOf(c, d) \in Ordinary /\ MaxOf(a, b) \in Ordinary /\ MaxOf(c, d) \in Ordinary
    BY <1>1
<1> QED BY <1>1, <1>2, <1>3 DEF Min4, Max4

(* Rounding downward stays below the quotient, overflow included. *)
LEMMA DownIsBelow ==
    ASSUME NEW x \in Fraction, NEW n \in Int, NEW d \in Int, d > 0, n * x[2] <= x[1] * d
    PROVE  AtLeast(x, Down(n, d)) /\ Down(n, d) \in Ordinary
<1> DEFINE f == n \div d
<1>1. f \in Int /\ f * d <= n
    OBVIOUS
<1> HIDE DEF f
<1>2. f * x[2] <= x[1]
    <2>1. x[1] \in Int /\ x[2] \in Int /\ x[2] > 0
        BY FractionParts
    <2>2. (f * d) * x[2] <= n * x[2]
        BY <1>1, <2>1
    <2>3. (f * x[2]) * d <= x[1] * d
        BY <2>1, <2>2, <1>1
    <2>4. f * x[2] \in Int
        BY <1>1, <2>1
    <2> QED BY <2>1, <2>3, <2>4
<1>3. CASE f > M
    <2>1. M * x[2] <= f * x[2]
        BY <1>1, <1>3, MAssumption, FractionParts
    <2>2. M * x[2] <= x[1]
        BY <1>1, <1>2, <2>1, MAssumption, FractionParts
    <2>3. Down(n, d) = M
        BY <1>3 DEF Down, f
    <2> QED BY <2>2, <2>3, MAssumption, FractionParts DEF AtLeast, Ordinary, Num, NaN, MInf
<1>4. CASE f < -M
    <2>1. Down(n, d) = MInf
        BY <1>1, <1>4, MAssumption DEF Down, f
    <2> QED BY <2>1, MAssumption DEF AtLeast, Ordinary, Num, NaN, MInf
<1>5. CASE f \in -M..M
    <2>0. ~(f > M) /\ ~(f < -M)
        BY <1>1, <1>5, MAssumption
    <2>1. Down(n, d) = f
        BY <2>0 DEF Down, f
    <2> QED BY <2>1, <1>2, <1>5, MAssumption, FractionParts DEF AtLeast, Ordinary, Num, NaN, MInf
<1> QED BY <1>1, <1>3, <1>4, <1>5, MAssumption

-------------------------------------------------------------------------------
(* Products and quotients of signed factors. *)
(* An inequality times a factor keeps or turns its sense. *)
LEMMA Times ==
    ASSUME NEW a \in Int, NEW b \in Int, NEW c \in Int, a <= b
    PROVE  /\ 0 <= c => a * c <= b * c /\ c * a <= c * b
           /\ c <= 0 => b * c <= a * c /\ c * b <= c * a
OBVIOUS

(* A product of two ends is below a number when their exact product is, or  *)
(* when one is infinite and their signs differ.                             *)
LEMMA MulDownIsBelow ==
    ASSUME NEW z \in Fraction, NEW a \in Ordinary, NEW b \in Ordinary, MulDown(a, b) # NaN,
           (a \in -M..M /\ b \in -M..M) => (a * b) * z[2] <= z[1],
           (a \notin -M..M \/ b \notin -M..M) => (a > 0 <=> ~(b > 0))
    PROVE  AtLeast(z, MulDown(a, b))
<1>1. a \in Int /\ b \in Int /\ MInf <= a /\ a <= PInf /\ MInf <= b /\ b <= PInf /\ PInf # MInf
      /\ a # NaN /\ b # NaN
    BY MAssumption DEF Ordinary, Num, NaN, MInf, PInf
<1>2. ~(0 \in {a, b} /\ {a, b} \cap Infs # {})
    BY <1>1 DEF MulDown
<1>3. CASE {a, b} \cap Infs = {}
    <2>1. MulDown(a, b) = Down(a * b, 1)
        BY <1>1, <1>2, <1>3 DEF MulDown
    <2>0. a # PInf /\ a # MInf /\ b # PInf /\ b # MInf
        BY <1>3 DEF Infs
    <2>2. a \in -M..M /\ b \in -M..M
        BY <1>1, <2>0, MAssumption DEF MInf, PInf
    <2>3. a * b \in Int /\ (a * b) * z[2] <= z[1] * 1
        BY <1>1, <2>2, FractionParts
    <2> QED BY <2>1, <2>3, DownIsBelow
<1>4. CASE {a, b} \cap Infs # {}
    <2>1. MulDown(a, b) = SignedInf((a > 0) = (b > 0))
        BY <1>1, <1>2, <1>4 DEF MulDown
    <2>2. a \notin -M..M \/ b \notin -M..M
        BY <1>4, MAssumption DEF Infs, MInf, PInf
    <2>3. MulDown(a, b) = MInf
        BY <2>1, <2>2 DEF SignedInf
    <2> QED BY <2>3 DEF AtLeast
<1> QED BY <1>3, <1>4

(* One product of the ends is below the product of what lies between. *)
LEMMA OneCornerIsBelow ==
    ASSUME NEW x \in Fraction, NEW y \in Fraction,
           NEW a \in Ordinary, NEW b \in Ordinary, NEW c \in Ordinary, NEW d \in Ordinary,
           AtLeast(x, a), AtMost(x, b), AtLeast(y, c), AtMost(y, d),
           \A e \in {a, b}, f \in {c, d} : MulDown(e, f) # NaN
    PROVE  \E e \in {a, b}, f \in {c, d} : AtLeast(<<x[1] * y[1], x[2] * y[2]>>, MulDown(e, f))
<1> DEFINE p == x[1]
           q == x[2]
           r == y[1]
           s == y[2]
           z == <<p * r, q * s>>
<1>1. p \in Int /\ q \in Int /\ q > 0 /\ r \in Int /\ s \in Int /\ s > 0
    BY FractionParts
<1>2. z \in Fraction /\ z[1] = p * r /\ z[2] = q * s
    <2>1. p * r \in Int /\ q * s \in Nat \ {0}
        BY <1>1
    <2> QED BY <2>1 DEF Fraction
<1>3. /\ a = MInf \/ (a \in -M..M /\ a * q <= p)
      /\ b = PInf \/ (b \in -M..M /\ p <= b * q)
      /\ c = MInf \/ (c \in -M..M /\ c * s <= r)
      /\ d = PInf \/ (d \in -M..M /\ r <= d * s)
    BY <1>1, MAssumption DEF AtLeast, AtMost
<1>4. /\ a \in Int /\ b \in Int /\ c \in Int /\ d \in Int
      /\ MInf < 0 /\ PInf > 0 /\ MInf \notin -M..M /\ PInf \notin -M..M
      /\ MInf \in Infs /\ PInf \in Infs
    BY MAssumption DEF Ordinary, Num, NaN, MInf, PInf, Infs
<1>5. ASSUME NEW e \in {a, b}, NEW f \in {c, d},
             (e \in -M..M /\ f \in -M..M) => (e * f) * (q * s) <= p * r,
             (e \notin -M..M \/ f \notin -M..M) => (e > 0 <=> ~(f > 0))
      PROVE  AtLeast(z, MulDown(e, f))
    BY <1>2, <1>5, MulDownIsBelow
<1>6. ASSUME NEW e \in {a, b}, NEW f \in {c, d}, f \in Infs PROVE e # 0
    BY <1>4, <1>6 DEF MulDown
<1>6a. ASSUME NEW e \in {a, b}, NEW f \in {c, d}, e \in Infs PROVE f # 0
    BY <1>4, <1>6a DEF MulDown
<1> HIDE DEF z, p, q, r, s
<1>7. CASE r >= 0 /\ a >= 0
    <2>1. a \in -M..M /\ a * q <= p
        BY <1>3, <1>4, <1>7
    <2>2. (a * q) * r <= p * r
        BY <1>1, <1>4, <1>7, <2>1, Times
    <2>3. c \in -M..M => (a * c) * (q * s) <= p * r
        <3> SUFFICES ASSUME c \in -M..M PROVE (a * c) * (q * s) <= p * r
            OBVIOUS
        <3>1. c * s <= r
            BY <1>3, <1>4
        <3>2. a * q \in Int /\ a * q >= 0 /\ c * s \in Int
            BY <1>1, <1>4, <1>7
        <3>3. (a * q) * (c * s) <= (a * q) * r
            BY <1>1, <3>1, <3>2, Times
        <3>4. (a * q) * (c * s) = (a * c) * (q * s)
            BY <1>1, <1>4
        <3>5. (a * q) * r \in Int /\ p * r \in Int /\ (a * c) * (q * s) \in Int
            BY <1>1, <1>4
        <3> QED BY <2>2, <3>3, <3>4, <3>5
    <2>4. c \notin -M..M => c = MInf /\ a > 0
        BY <1>3, <1>4, <1>6, <1>7
    <2>5. AtLeast(z, MulDown(a, c))
        BY <1>4, <1>5, <2>1, <2>3, <2>4
    <2> QED BY <2>5 DEF z, p, q, r, s
<1>8. CASE r >= 0 /\ a < 0
    <2>1. d = PInf \/ (d \in -M..M /\ d >= 0)
        BY <1>1, <1>3, <1>4, <1>8
    <2>2. d \in -M..M /\ a \in -M..M => (a * d) * (q * s) <= p * r
        <3> SUFFICES ASSUME d \in -M..M, a \in -M..M PROVE (a * d) * (q * s) <= p * r
            OBVIOUS
        <3>1. r <= d * s /\ a * q <= p
            BY <1>3, <1>4
        <3>2. a * q \in Int /\ a * q <= 0 /\ d * s \in Int
            BY <1>1, <1>4, <1>8
        <3>3. (a * q) * (d * s) <= (a * q) * r
            BY <1>1, <3>1, <3>2, Times
        <3>4. (a * q) * r <= p * r
            BY <1>1, <1>8, <3>1, <3>2, Times
        <3>5. (a * q) * (d * s) = (a * d) * (q * s)
            BY <1>1, <1>4
        <3>6. (a * q) * r \in Int /\ p * r \in Int /\ (a * d) * (q * s) \in Int
            BY <1>1, <1>4
        <3> QED BY <3>3, <3>4, <3>5, <3>6
    <2>3. (d \notin -M..M \/ a \notin -M..M) => d > 0
        BY <1>3, <1>4, <1>6a, <2>1
    <2>4. AtLeast(z, MulDown(a, d))
        BY <1>4, <1>5, <1>8, <2>2, <2>3
    <2> QED BY <2>4 DEF z, p, q, r, s
<1>9. CASE r < 0 /\ b >= 0
    <2>1. c = MInf \/ (c \in -M..M /\ c < 0)
        BY <1>1, <1>3, <1>4, <1>9
    <2>2. c \in -M..M /\ b \in -M..M => (b * c) * (q * s) <= p * r
        <3> SUFFICES ASSUME c \in -M..M, b \in -M..M PROVE (b * c) * (q * s) <= p * r
            OBVIOUS
        <3>1. c * s <= r /\ p <= b * q
            BY <1>3, <1>4
        <3>2. b * q \in Int /\ b * q >= 0 /\ c * s \in Int
            BY <1>1, <1>4, <1>9
        <3>3. (b * q) * (c * s) <= (b * q) * r
            BY <1>1, <3>1, <3>2, Times
        <3>4. (b * q) * r <= p * r
            BY <1>1, <1>9, <3>1, <3>2, Times
        <3>5. (b * q) * (c * s) = (b * c) * (q * s)
            BY <1>1, <1>4
        <3>6. (b * q) * r \in Int /\ p * r \in Int /\ (b * c) * (q * s) \in Int
            BY <1>1, <1>4
        <3> QED BY <3>3, <3>4, <3>5, <3>6
    <2>3. (c \notin -M..M \/ b \notin -M..M) => b > 0 /\ ~(c > 0)
        BY <1>3, <1>4, <1>6, <1>9, <2>1
    <2>4. AtLeast(z, MulDown(b, c))
        BY <1>4, <1>5, <2>2, <2>3
    <2> QED BY <2>4 DEF z, p, q, r, s
<1>10. CASE r < 0 /\ b < 0
    <2>1. b \in -M..M /\ p <= b * q
        BY <1>3, <1>4, <1>10
    <2>2. d \in -M..M => (b * d) * (q * s) <= p * r
        <3> SUFFICES ASSUME d \in -M..M PROVE (b * d) * (q * s) <= p * r
            OBVIOUS
        <3>1. r <= d * s
            BY <1>3, <1>4
        <3>2. b * q \in Int /\ b * q <= 0 /\ d * s \in Int
            BY <1>1, <1>4, <1>10
        <3>3. (b * q) * (d * s) <= (b * q) * r
            BY <1>1, <3>1, <3>2, Times
        <3>4. (b * q) * r <= p * r
            BY <1>1, <1>10, <2>1, <3>2, Times
        <3>5. (b * q) * (d * s) = (b * d) * (q * s)
            BY <1>1, <1>4
        <3>6. (b * q) * r \in Int /\ p * r \in Int /\ (b * d) * (q * s) \in Int
            BY <1>1, <1>4
        <3> QED BY <3>3, <3>4, <3>5, <3>6
    <2>3. d \notin -M..M => d > 0
        BY <1>3, <1>4
    <2>4. AtLeast(z, MulDown(b, d))
        BY <1>4, <1>5, <1>10, <2>1, <2>2, <2>3
    <2> QED BY <2>4 DEF z, p, q, r, s
<1> QED BY <1>1, <1>4, <1>7, <1>8, <1>9, <1>10

(* Only zero times infinity is a NaN. *)
LEMMA MulDownIsANumber ==
    ASSUME NEW a \in Ordinary, NEW b \in Ordinary,
           ~(a = 0 /\ b \in Infs), ~(b = 0 /\ a \in Infs)
    PROVE  MulDown(a, b) \in Ordinary
<1>1. a \in Int /\ b \in Int /\ a # NaN /\ b # NaN
    BY MAssumption DEF Ordinary, Num, NaN, MInf, PInf
<1>2. ~(NaN \in {a, b} \/ (0 \in {a, b} /\ {a, b} \cap Infs # {}))
    <2>1. 0 \notin Infs
        BY MAssumption DEF Infs, MInf, PInf
    <2> QED BY <1>1, <2>1
<1>3. CASE {a, b} \cap Infs = {}
    <2>1. MulDown(a, b) = Down(a * b, 1)
        BY <1>2, <1>3 DEF MulDown
    <2>2. a * b \in Int
        BY <1>1
    <2>3. (a * b) \div 1 \in Int
        BY <2>2
    <2>4. \A f \in Int : (IF f > M THEN M ELSE IF f < -M THEN MInf ELSE f) \in Ordinary
        BY MAssumption DEF Ordinary, Num, NaN, MInf, PInf
    <2> QED BY <2>1, <2>3, <2>4 DEF Down
<1>4. CASE {a, b} \cap Infs # {}
    <2>1. MulDown(a, b) = SignedInf((a > 0) = (b > 0))
        BY <1>2, <1>4 DEF MulDown
    <2> QED BY <2>1, MAssumption DEF SignedInf, Ordinary, Num, NaN, MInf, PInf
<1> QED BY <1>3, <1>4

(* Intervals without a NaN. *)
Whole == [lo : Ordinary, hi : Ordinary]
LEMMA WholeEnds ==
    ASSUME NEW i \in Whole
    PROVE  /\ i.lo \in Ordinary /\ i.hi \in Ordinary /\ i = Pair(i.lo, i.hi) /\ ~HasNaN(i)
           /\ Pair(i.lo, i.hi) \in Whole
BY DEF Whole, Pair, HasNaN, Ordinary

(* What contains a number is not empty. *)
LEMMA InsideIsNotEmpty ==
    ASSUME NEW i \in Whole, NEW x \in Fraction, Within(x, i)
    PROVE  ~IsEmpty(i)
<1>1. /\ i.lo = MInf \/ (i.lo \in -M..M /\ i.lo * x[2] <= x[1])
      /\ i.hi = PInf \/ (i.hi \in -M..M /\ x[1] <= i.hi * x[2])
    BY FractionParts, MAssumption DEF Within, AtLeast, AtMost
<1>2. i.lo \in Int /\ i.hi \in Int /\ MInf <= i.hi /\ i.lo <= PInf
    BY MAssumption DEF Whole, Ordinary, Num, NaN, MInf, PInf
<1>3. CASE i.lo \in -M..M /\ i.hi \in -M..M
    <2>1. ~(i.hi < i.lo)
        <3> SUFFICES ASSUME i.hi < i.lo PROVE FALSE
            OBVIOUS
        <3>1. i.hi + 1 <= i.lo /\ x[2] >= 0
            BY <1>2, FractionParts
        <3>2. (i.hi + 1) * x[2] <= i.lo * x[2]
            <4>1. i.hi + 1 \in Int /\ i.lo \in Int /\ x[2] \in Int
                BY <1>2, FractionParts
            <4> QED BY <3>1, <4>1, Times
        <3>3. (i.hi + 1) * x[2] = i.hi * x[2] + x[2]
            BY <1>2, FractionParts
        <3>4. i.hi * x[2] \in Int /\ i.lo * x[2] \in Int
            BY <1>2, FractionParts
        <3> QED BY <1>1, <1>3, <3>2, <3>3, <3>4, FractionParts, MAssumption DEF MInf, PInf
    <2> QED BY <2>1 DEF IsEmpty, Lt
<1>4. CASE i.lo = MInf \/ i.hi = PInf
    BY <1>2, <1>4, MAssumption DEF IsEmpty, Lt, MInf, PInf
<1> QED BY <1>1, <1>3, <1>4

(* Changing the sign of an end. *)
LEMMA MinusOrdinary == \A a \in Ordinary : Minus(a) \in Ordinary /\ Minus(Minus(a)) = a /\ (Minus(a) = 0 <=> a = 0)
                           /\ (Minus(a) \in Infs <=> a \in Infs)
                           /\ (Minus(a) > 0 <=> a < 0)
BY MAssumption DEF Minus, Ordinary, Num, NaN, MInf, PInf, Infs

(* A zero of one factor never meets an infinity of the other.               *)
Definite(i, j) == ~(0 \in Ends(i) /\ Ends(j) \cap Infs # {}) /\ ~(0 \in Ends(j) /\ Ends(i) \cap Infs # {})

(* The product of two intervals has no NaN unless zero meets an infinity. *)
LEMMA ProductIsWhole ==
    ASSUME NEW i \in Whole, NEW j \in Whole, Definite(i, j)
    PROVE  /\ Mul(i, j) \in Whole
           /\ \A e \in Ends(i), f \in Ends(j) :
                 MulDown(e, f) \in Ordinary /\ MulDown(Minus(e), f) \in Ordinary /\ MulUp(e, f) \in Ordinary
<1>1. \A e \in Ends(i) : e \in Ordinary
    BY DEF Ends, Whole
<1>2. \A f \in Ends(j) : f \in Ordinary
    BY DEF Ends, Whole
<1>3. ASSUME NEW e \in Ends(i), NEW f \in Ends(j)
      PROVE  MulDown(e, f) \in Ordinary /\ MulDown(Minus(e), f) \in Ordinary /\ MulUp(e, f) \in Ordinary
    <2>1. ~(e = 0 /\ f \in Infs) /\ ~(f = 0 /\ e \in Infs)
        BY DEF Definite
    <2>2. MulDown(e, f) \in Ordinary /\ MulDown(Minus(e), f) \in Ordinary
        BY <1>1, <1>2, <2>1, MulDownIsANumber, MinusOrdinary
    <2> QED BY <2>2, MinusOrdinary DEF MulUp
<1>4. Empty \in Whole
    BY MAssumption DEF Empty, Pair, Whole, Ordinary, Num, NaN, MInf, PInf
<1>5. CASE ~IsEmpty(i) /\ ~IsEmpty(j)
    <2>1. i.lo \in Ends(i) /\ i.hi \in Ends(i) /\ j.lo \in Ends(j) /\ j.hi \in Ends(j)
        BY DEF Ends
    <2>2. /\ MulDown(i.lo, j.lo) \in Ordinary /\ MulDown(i.lo, j.hi) \in Ordinary
          /\ MulDown(i.hi, j.lo) \in Ordinary /\ MulDown(i.hi, j.hi) \in Ordinary
          /\ MulUp(i.lo, j.lo) \in Ordinary /\ MulUp(i.lo, j.hi) \in Ordinary
          /\ MulUp(i.hi, j.lo) \in Ordinary /\ MulUp(i.hi, j.hi) \in Ordinary
        BY <1>3, <2>1
    <2>3. /\ Min4(MulDown(i.lo, j.lo), MulDown(i.lo, j.hi), MulDown(i.hi, j.lo), MulDown(i.hi, j.hi)) \in Ordinary
          /\ Max4(MulUp(i.lo, j.lo), MulUp(i.lo, j.hi), MulUp(i.hi, j.lo), MulUp(i.hi, j.hi)) \in Ordinary
        BY <2>2, LeastOfFour
    <2> QED BY <1>3, <1>5, <2>3 DEF Mul, Pair, Whole
<1> QED BY <1>3, <1>4, <1>5 DEF Mul

(* mul() encloses the product. *)
LEMMA MulEncloses ==
    ASSUME NEW x \in Fraction, NEW y \in Fraction, NEW i \in Whole, NEW j \in Whole,
           Within(x, i), Within(y, j), Definite(i, j)
    PROVE  Within(<<x[1] * y[1], x[2] * y[2]>>, Mul(i, j))
<1> DEFINE z == <<x[1] * y[1], x[2] * y[2]>>
           low == Min4(MulDown(i.lo, j.lo), MulDown(i.lo, j.hi), MulDown(i.hi, j.lo), MulDown(i.hi, j.hi))
           high == Max4(MulUp(i.lo, j.lo), MulUp(i.lo, j.hi), MulUp(i.hi, j.lo), MulUp(i.hi, j.hi))
<1>1. Mul(i, j) = Pair(low, high)
    BY InsideIsNotEmpty DEF Mul
<1>2. i.lo \in Ordinary /\ i.hi \in Ordinary /\ j.lo \in Ordinary /\ j.hi \in Ordinary
    BY DEF Whole
<1>3. z \in Fraction /\ x[1] \in Int /\ y[1] \in Int
    <2>1. x[1] * y[1] \in Int /\ x[2] * y[2] \in Nat \ {0} /\ x[1] \in Int /\ y[1] \in Int
        BY FractionParts
    <2> QED BY <2>1 DEF Fraction
<1>4. /\ \A e \in {i.lo, i.hi}, f \in {j.lo, j.hi} : MulDown(e, f) \in Ordinary /\ MulUp(e, f) \in Ordinary
      /\ \A e \in {i.lo, i.hi}, f \in {j.lo, j.hi} : MulDown(Minus(e), f) \in Ordinary
    BY ProductIsWhole DEF Ends
<1>5. AtLeast(x, i.lo) /\ AtMost(x, i.hi) /\ AtLeast(y, j.lo) /\ AtMost(y, j.hi)
    BY DEF Within
<1>6. AtLeast(z, low)
    <2>1. \A e \in {i.lo, i.hi}, f \in {j.lo, j.hi} : MulDown(e, f) # NaN
        BY <1>4 DEF Ordinary
    <2>2. PICK e \in {i.lo, i.hi}, f \in {j.lo, j.hi} : AtLeast(z, MulDown(e, f))
        BY <1>2, <1>5, <2>1, OneCornerIsBelow
    <2>3. low \in Ordinary /\ low <= MulDown(e, f) /\ MulDown(e, f) \in Ordinary
        <3>1. /\ MulDown(i.lo, j.lo) \in Ordinary /\ MulDown(i.lo, j.hi) \in Ordinary
              /\ MulDown(i.hi, j.lo) \in Ordinary /\ MulDown(i.hi, j.hi) \in Ordinary
            BY <1>4
        <3> QED BY <3>1, LeastOfFour
    <2> HIDE DEF z, low
    <2> QED BY <1>3, <2>2, <2>3, LowerStillBelow DEF Ordinary
<1>7. AtMost(z, high)
    <2> DEFINE x1 == Opposite(x)
    <2>1. /\ AtLeast(x1, Minus(i.hi)) /\ AtMost(x1, Minus(i.lo)) /\ x1 \in Fraction
          /\ Minus(i.hi) \in Ordinary /\ Minus(i.lo) \in Ordinary
        BY <1>2, <1>5, Mirrored, FractionParts
    <2>2. \A e \in {Minus(i.hi), Minus(i.lo)}, f \in {j.lo, j.hi} : MulDown(e, f) # NaN
        BY <1>4 DEF Ordinary
    <2>3. PICK e \in {Minus(i.hi), Minus(i.lo)}, f \in {j.lo, j.hi} :
                AtLeast(<<x1[1] * y[1], x1[2] * y[2]>>, MulDown(e, f))
        <3> HIDE DEF x1
        <3> QED BY <1>2, <1>5, <2>1, <2>2, OneCornerIsBelow
    <2>4. <<x1[1] * y[1], x1[2] * y[2]>> = Opposite(z)
        <3>1. x1[1] = -x[1] /\ x1[2] = x[2] /\ (-x[1]) * y[1] = -(x[1] * y[1])
            BY <1>3 DEF Opposite
        <3> QED BY <3>1 DEF Opposite
    <2>5. PICK g \in {i.lo, i.hi} : e = Minus(g)
        OBVIOUS
    <2>6. MulDown(e, f) = Minus(MulUp(g, f)) /\ MulUp(g, f) \in Ordinary
        BY <1>4, <2>5, MinusOrdinary DEF MulUp
    <2>7. AtMost(z, MulUp(g, f))
        <3> HIDE DEF z
        <3> QED BY <1>3, <2>3, <2>4, <2>6, Mirrored
    <2>8. high \in Ordinary /\ MulUp(g, f) <= high
        <3>1. /\ MulUp(i.lo, j.lo) \in Ordinary /\ MulUp(i.lo, j.hi) \in Ordinary
              /\ MulUp(i.hi, j.lo) \in Ordinary /\ MulUp(i.hi, j.hi) \in Ordinary
            BY <1>4
        <3>2. MulDown(i.lo, j.lo) \in Ordinary
            BY <1>4
        <3> QED BY <3>1, <3>2, LeastOfFour
    <2> HIDE DEF z, high
    <2>9. Minus(high) <= Minus(MulUp(g, f)) /\ Minus(high) \in Ordinary /\ Minus(MulUp(g, f)) \in Ordinary
        BY <2>6, <2>8, MinusOrdinary, MAssumption DEF Minus, Ordinary, Num, NaN, MInf, PInf
    <2> QED BY <1>3, <2>6, <2>7, <2>8, <2>9, Mirrored, LowerStillBelow, FractionParts DEF Ordinary
<1> HIDE DEF z, low, high
<1>8. Within(z, Mul(i, j))
    BY <1>1, <1>6, <1>7 DEF Within, Pair
<1> QED BY <1>8 DEF z

-------------------------------------------------------------------------------
(* Above an upper end there is room for higher ones. *)
LEMMA UpperStillAbove ==
    ASSUME NEW x \in Fraction, NEW m \in Ordinary, NEW n \in Ordinary, m <= n, AtMost(x, m)
    PROVE  AtMost(x, n)
<1>1. CASE n = PInf
    BY <1>1 DEF AtMost
<1>2. CASE n # PInf
    <2>1. m \in -M..M /\ n \in -M..M /\ x[1] <= m * x[2]
        BY <1>2, MAssumption DEF AtMost, Ordinary, Num, NaN, MInf, PInf
    <2>2. m * x[2] <= n * x[2]
        BY <2>1, FractionParts
    <2> QED BY <2>1, <2>2, FractionParts DEF AtMost
<1> QED BY <1>1, <1>2

(* Any number is below or above any other, and what is above it is above    *)
(* what it is above.                                                        *)
LEMMA AboveTheAbove ==
    ASSUME NEW x \in Fraction, NEW w \in Fraction, x[1] * w[2] <= w[1] * x[2], NEW n \in Ordinary
    PROVE  /\ AtLeast(x, n) => AtLeast(w, n)
           /\ AtMost(w, n) => AtMost(x, n)
<1>1. x[1] \in Int /\ x[2] \in Int /\ x[2] > 0 /\ w[1] \in Int /\ w[2] \in Int /\ w[2] > 0 /\ n \in Int
    BY FractionParts, MAssumption DEF Ordinary, Num, NaN, MInf
<1>2. ASSUME n * x[2] <= x[1] PROVE n * w[2] <= w[1]
    <2>1. (n * x[2]) * w[2] <= x[1] * w[2]
        BY <1>1, <1>2
    <2>2. (n * w[2]) * x[2] <= w[1] * x[2]
        BY <1>1, <2>1
    <2>3. n * w[2] \in Int
        BY <1>1
    <2> QED BY <1>1, <2>2, <2>3
<1>3. ASSUME w[1] <= n * w[2] PROVE x[1] <= n * x[2]
    <2>1. w[1] * x[2] <= (n * w[2]) * x[2]
        BY <1>1, <1>3
    <2>2. x[1] * w[2] <= (n * x[2]) * w[2]
        BY <1>1, <2>1
    <2>3. n * x[2] \in Int
        BY <1>1
    <2> QED BY <1>1, <2>2, <2>3
<1>4. \A a, b \in Int : (a >= b <=> b <= a)
    OBVIOUS
<1>5. n * x[2] \in Int /\ n * w[2] \in Int
    BY <1>1
<1> QED BY <1>1, <1>2, <1>3, <1>5 DEF AtLeast, AtMost

(* A tracked number is exactly the quotient it stands for. *)
LEMMA FracIsExact ==
    ASSUME NEW p \in Int, NEW q \in Int, Known(Frac(p, q))
    PROVE  /\ Frac(p, q) \in Fraction /\ q # 0
           /\ q > 0 => Frac(p, q) = <<p, q>>
           /\ q < 0 => Frac(p, q) = <<-p, -q>>
<1>1. q # 0
    BY DEF Frac, Known
<1>2. ~(p > MaxReal \/ -p > MaxReal \/ q > MaxReal \/ -q > MaxReal)
    BY <1>1 DEF Frac, Known
<1>3. Frac(p, q) = IF q > 0 THEN <<p, q>> ELSE <<-p, -q>>
    BY <1>1, <1>2 DEF Frac
<1> QED BY <1>1, <1>3 DEF Fraction

-------------------------------------------------------------------------------
(* Sums rounded downward stay below; only opposite infinities give a NaN.   *)
LEMMA AddDownIsBelow ==
    ASSUME NEW a \in Ordinary, NEW b \in Ordinary, AddDown(a, b) # NaN
    PROVE  /\ AddDown(a, b) \in Ordinary
           /\ \A x, y \in Fraction : AtLeast(x, a) /\ AtLeast(y, b)
                => AtLeast(<<x[1] * y[2] + y[1] * x[2], x[2] * y[2]>>, AddDown(a, b))
<1>1. a \in Int /\ b \in Int /\ MInf <= a /\ a <= PInf /\ MInf <= b /\ b <= PInf /\ a # NaN /\ b # NaN
    BY MAssumption DEF Ordinary, Num, NaN, MInf, PInf
<1>2. ~(NaN \in {a, b} \/ {a, b} = Infs)
    BY <1>1 DEF AddDown
<1>3. CASE {a, b} \cap Infs = {}
    <2>1. AddDown(a, b) = Down(a + b, 1)
        BY <1>2, <1>3 DEF AddDown
    <2>2. a \in -M..M /\ b \in -M..M
        <3>1. a # PInf /\ a # MInf /\ b # PInf /\ b # MInf
            BY <1>3 DEF Infs
        <3> QED BY <1>1, <3>1, MAssumption DEF MInf, PInf
    <2>3. <<0, 1>> \in Fraction
        BY DEF Fraction
    <2>4. AddDown(a, b) \in Ordinary
        <3>1. \A f \in Int : (IF f > M THEN M ELSE IF f < -M THEN MInf ELSE f) \in Ordinary
            BY MAssumption DEF Ordinary, Num, NaN, MInf, PInf
        <3>2. (a + b) \div 1 \in Int
            BY <1>1
        <3> QED BY <2>1, <3>1, <3>2 DEF Down
    <2>5. ASSUME NEW x \in Fraction, NEW y \in Fraction, AtLeast(x, a), AtLeast(y, b)
          PROVE  AtLeast(<<x[1] * y[2] + y[1] * x[2], x[2] * y[2]>>, AddDown(a, b))
        <3> DEFINE z == <<x[1] * y[2] + y[1] * x[2], x[2] * y[2]>>
        <3>1. x[1] \in Int /\ x[2] \in Int /\ x[2] > 0 /\ y[1] \in Int /\ y[2] \in Int /\ y[2] > 0
            BY FractionParts
        <3>2. a * x[2] <= x[1] /\ b * y[2] <= y[1]
            BY <2>2, <2>5, <3>1, MAssumption DEF AtLeast, MInf
        <3>3. (a * x[2]) * y[2] <= x[1] * y[2]
            BY <1>1, <3>1, <3>2
        <3>4. (b * y[2]) * x[2] <= y[1] * x[2]
            BY <1>1, <3>1, <3>2
        <3>5. (a + b) * (x[2] * y[2]) = (a * x[2]) * y[2] + (b * y[2]) * x[2]
            BY <1>1, <3>1
        <3>6. (a * x[2]) * y[2] \in Int /\ (b * y[2]) * x[2] \in Int /\ x[1] * y[2] \in Int /\ y[1] * x[2] \in Int
            BY <1>1, <3>1
        <3>7. (a + b) * (x[2] * y[2]) <= (x[1] * y[2] + y[1] * x[2]) * 1
            BY <3>3, <3>4, <3>5, <3>6
        <3>8. z \in Fraction
            <4>1. x[2] * y[2] \in Nat \ {0}
                BY <3>1
            <4> QED BY <3>6, <4>1 DEF Fraction
        <3>9. (a + b) * z[2] <= z[1] * 1
            BY <3>7
        <3> HIDE DEF z
        <3>10. AtLeast(z, Down(a + b, 1))
            BY <1>1, <3>8, <3>9, DownIsBelow
        <3> QED BY <2>1, <3>10 DEF z
    <2> QED BY <2>4, <2>5
<1>4. CASE {a, b} \cap Infs # {}
    <2>1. AddDown(a, b) = SignedInf(PInf \in {a, b})
        BY <1>2, <1>4 DEF AddDown
    <2>2. AddDown(a, b) \in Ordinary
        BY <2>1, MAssumption DEF SignedInf, Ordinary, Num, NaN, MInf, PInf
    <2>3. ASSUME NEW x \in Fraction, NEW y \in Fraction, AtLeast(x, a), AtLeast(y, b)
          PROVE  AddDown(a, b) = MInf
        BY <2>1, <2>3, MAssumption DEF AtLeast, SignedInf, PInf, MInf
    <2> QED BY <2>2, <2>3 DEF AtLeast
<1> QED BY <1>3, <1>4

(* The ends add() and sub() give enclose the sum ... *)
LEMMA SumEncloses ==
    ASSUME NEW x \in Fraction, NEW y \in Fraction,
           NEW a \in Ordinary, NEW b \in Ordinary, NEW c \in Ordinary, NEW d \in Ordinary,
           AtLeast(x, a), AtMost(x, b), AtLeast(y, c), AtMost(y, d),
           AddDown(a, c) # NaN, AddUp(b, d) # NaN
    PROVE  Within(<<x[1] * y[2] + y[1] * x[2], x[2] * y[2]>>, Pair(AddDown(a, c), AddUp(b, d)))
<1> DEFINE z == <<x[1] * y[2] + y[1] * x[2], x[2] * y[2]>>
           x1 == Opposite(x)
           y1 == Opposite(y)
<1>1. AtLeast(z, AddDown(a, c))
    BY AddDownIsBelow
<1>2. x[1] \in Int /\ x[2] \in Int /\ x[2] > 0 /\ y[1] \in Int /\ y[2] \in Int /\ y[2] > 0
    BY FractionParts
<1>3. z \in Fraction
    <2>1. x[1] * y[2] + y[1] * x[2] \in Int /\ x[2] * y[2] \in Nat \ {0}
        BY <1>2
    <2> QED BY <2>1 DEF Fraction
<1>4. x1 \in Fraction /\ y1 \in Fraction /\ Minus(b) \in Ordinary /\ Minus(d) \in Ordinary
      /\ AtLeast(x1, Minus(b)) /\ AtLeast(y1, Minus(d))
    BY Mirrored, FractionParts
<1>5. AddDown(Minus(b), Minus(d)) # NaN
    BY DEF AddUp, Minus
<1>6. AtLeast(<<x1[1] * y1[2] + y1[1] * x1[2], x1[2] * y1[2]>>, AddDown(Minus(b), Minus(d)))
      /\ AddDown(Minus(b), Minus(d)) \in Ordinary
    <2> HIDE DEF x1, y1
    <2> QED BY <1>4, <1>5, AddDownIsBelow
<1>7. <<x1[1] * y1[2] + y1[1] * x1[2], x1[2] * y1[2]>> = Opposite(z)
    <2>1. (-x[1]) * y[2] + (-y[1]) * x[2] = -(x[1] * y[2] + y[1] * x[2])
        BY <1>2
    <2> QED BY <2>1 DEF Opposite
<1>8. AddDown(Minus(b), Minus(d)) = Minus(AddUp(b, d)) /\ AddUp(b, d) \in Ordinary
    BY <1>6, MinusOrdinary DEF AddUp
<1>9. AtMost(z, AddUp(b, d))
    <2> HIDE DEF z, x1, y1
    <2> QED BY <1>3, <1>6, <1>7, <1>8, Mirrored
<1> QED BY <1>1, <1>9 DEF Within, Pair

(* ... and are no NaN unless they were looked at as one. *)
LEMMA SumIsWhole ==
    ASSUME NEW a \in Ordinary, NEW b \in Ordinary, NEW c \in Ordinary, NEW d \in Ordinary,
           AddDown(a, c) # NaN, AddUp(b, d) # NaN
    PROVE  Pair(AddDown(a, c), AddUp(b, d)) \in Whole
<1>1. AddDown(a, c) \in Ordinary
    BY AddDownIsBelow
<1>2. Minus(b) \in Ordinary /\ Minus(d) \in Ordinary
    BY MinusOrdinary
<1>3. AddDown(Minus(b), Minus(d)) # NaN
    BY DEF AddUp, Minus
<1>4. AddUp(b, d) \in Ordinary
    BY <1>2, <1>3, AddDownIsBelow, MinusOrdinary DEF AddUp
<1> QED BY <1>1, <1>4 DEF Pair, Whole

(* The two special intervals. *)
LEMMA EmptyIsWhole == Empty \in Whole /\ Entire \in Whole /\ IsEmpty(Empty)
BY MAssumption DEF Empty, Entire, Pair, Whole, Ordinary, Num, NaN, MInf, PInf, IsEmpty, Lt

(* add() encloses the sum. *)
LEMMA AddEncloses ==
    ASSUME NEW i \in Whole, NEW j \in Whole, ~HasNaN(Add(i, j))
    PROVE  /\ Add(i, j) \in Whole
           /\ \A x, y \in Fraction : Within(x, i) /\ Within(y, j)
                => Within(<<x[1] * y[2] + y[1] * x[2], x[2] * y[2]>>, Add(i, j))
<1>1. i.lo \in Ordinary /\ i.hi \in Ordinary /\ j.lo \in Ordinary /\ j.hi \in Ordinary
    BY DEF Whole
<1>2. CASE IsEmpty(i) \/ IsEmpty(j)
    BY <1>2, EmptyIsWhole, InsideIsNotEmpty DEF Add
<1>3. CASE ~(IsEmpty(i) \/ IsEmpty(j))
    <2>1. Add(i, j) = Pair(AddDown(i.lo, j.lo), AddUp(i.hi, j.hi))
        BY <1>3 DEF Add
    <2>2. AddDown(i.lo, j.lo) # NaN /\ AddUp(i.hi, j.hi) # NaN
        BY <2>1 DEF HasNaN, Pair
    <2> QED BY <1>1, <2>1, <2>2, SumIsWhole, SumEncloses DEF Within
<1> QED BY <1>2, <1>3

(* sub() encloses the difference. *)
LEMMA SubEncloses ==
    ASSUME NEW i \in Whole, NEW j \in Whole, ~HasNaN(Sub(i, j))
    PROVE  /\ Sub(i, j) \in Whole
           /\ \A x, y \in Fraction : Within(x, i) /\ Within(y, j)
                => Within(<<x[1] * y[2] - y[1] * x[2], x[2] * y[2]>>, Sub(i, j))
<1>1. i.lo \in Ordinary /\ i.hi \in Ordinary /\ j.lo \in Ordinary /\ j.hi \in Ordinary
      /\ Minus(j.lo) \in Ordinary /\ Minus(j.hi) \in Ordinary
    BY MinusOrdinary DEF Whole
<1>2. CASE IsEmpty(i) \/ IsEmpty(j)
    BY <1>2, EmptyIsWhole, InsideIsNotEmpty DEF Sub
<1>3. CASE ~(IsEmpty(i) \/ IsEmpty(j))
    <2>1. Sub(i, j) = Pair(AddDown(i.lo, Minus(j.hi)), AddUp(i.hi, Minus(j.lo)))
        BY <1>3 DEF Sub
    <2>2. AddDown(i.lo, Minus(j.hi)) # NaN /\ AddUp(i.hi, Minus(j.lo)) # NaN
        BY <2>1 DEF HasNaN, Pair
    <2>3. ASSUME NEW x \in Fraction, NEW y \in Fraction, Within(x, i), Within(y, j)
          PROVE  Within(<<x[1] * y[2] - y[1] * x[2], x[2] * y[2]>>, Sub(i, j))
        <3>0. x[1] \in Int /\ x[2] \in Int /\ y[1] \in Int /\ y[2] \in Int
            BY FractionParts
        <3> DEFINE y1 == Opposite(y)
        <3>1. y1 \in Fraction /\ AtLeast(y1, Minus(j.hi)) /\ AtMost(y1, Minus(j.lo))
            BY <1>1, <2>3, Mirrored, FractionParts DEF Within
        <3>2. x[1] * y1[2] + y1[1] * x[2] = x[1] * y[2] - y[1] * x[2] /\ x[2] * y1[2] = x[2] * y[2]
            BY <3>0 DEF Opposite
        <3> HIDE DEF y1
        <3>3. Within(<<x[1] * y1[2] + y1[1] * x[2], x[2] * y1[2]>>, Sub(i, j))
            BY <1>1, <2>1, <2>2, <2>3, <3>1, SumEncloses DEF Within
        <3> QED BY <3>2, <3>3
    <2>4. Sub(i, j) \in Whole
        BY <1>1, <2>1, <2>2, SumIsWhole
    <2> QED BY <2>3, <2>4
<1> QED BY <1>2, <1>3

(* neg() encloses the opposite. *)
LEMMA NegEncloses ==
    ASSUME NEW i \in Whole
    PROVE  /\ Neg(i) \in Whole
           /\ \A x \in Fraction : Within(x, i) => Within(Opposite(x), Neg(i))
<1>1. i.lo \in Ordinary /\ i.hi \in Ordinary /\ Minus(i.lo) \in Ordinary /\ Minus(i.hi) \in Ordinary
    BY MinusOrdinary DEF Whole
<1>2. Neg(i) \in Whole
    BY <1>1 DEF Neg, Pair, Whole
<1>3. ASSUME NEW x \in Fraction, Within(x, i) PROVE Within(Opposite(x), Neg(i))
    <2>1. Neg(i) = Pair(Minus(i.hi), Minus(i.lo))
        BY <1>3, InsideIsNotEmpty DEF Neg
    <2>2. AtLeast(Opposite(x), Minus(i.hi)) /\ AtMost(Opposite(x), Minus(i.lo))
        BY <1>1, <1>3, Mirrored DEF Within
    <2> QED BY <2>1, <2>2 DEF Within, Pair
<1> QED BY <1>2, <1>3

-------------------------------------------------------------------------------
(* The quotient as a fraction with a positive denominator. *)
Quotient(x, y) ==
    IF y[1] > 0 THEN <<x[1] * y[2], x[2] * y[1]>> ELSE <<-(x[1] * y[2]), -(x[2] * y[1])>>

(* It is one when the divisor is not zero. *)
LEMMA QuotientIsAFraction ==
    ASSUME NEW x \in Fraction, NEW y \in Fraction, y[1] # 0
    PROVE  Quotient(x, y) \in Fraction /\ Quotient(Opposite(x), y) = Opposite(Quotient(x, y))
<1>1. x[1] \in Int /\ x[2] \in Int /\ x[2] > 0 /\ y[1] \in Int /\ y[2] \in Int
    BY FractionParts
<1>2. x[1] * y[2] \in Int /\ -(x[1] * y[2]) \in Int /\ (-x[1]) * y[2] = -(x[1] * y[2])
    BY <1>1
<1>3. y[1] > 0 => x[2] * y[1] \in Nat \ {0}
    BY <1>1
<1>4. ~(y[1] > 0) => -(x[2] * y[1]) \in Nat \ {0}
    BY <1>1
<1>5. Quotient(x, y) \in Fraction
    BY <1>2, <1>3, <1>4 DEF Quotient, Fraction
<1>6. Opposite(x)[1] = -x[1] /\ Opposite(x)[2] = x[2]
    BY DEF Opposite
<1>7. Quotient(Opposite(x), y) = Opposite(Quotient(x, y))
    BY <1>2, <1>6 DEF Quotient, Opposite
<1> QED BY <1>5, <1>7

(* Finite ends: the quotient rounded downward. *)
LEMMA DivDownIsBelow ==
    ASSUME NEW z \in Fraction, NEW a \in -M..M, NEW b \in -M..M, b # 0,
           b > 0 => a * z[2] <= z[1] * b,
           b < 0 => (-a) * z[2] <= z[1] * (-b)
    PROVE  AtLeast(z, DivDown(a, b))
<1>1. a \in Int /\ b \in Int /\ a \notin Infs /\ b \notin Infs /\ a # NaN /\ b # NaN
    BY MAssumption DEF NaN, MInf, PInf, Infs
<1>2. DivDown(a, b) = IF b > 0 THEN Down(a, b) ELSE Down(-a, -b)
    BY <1>1 DEF DivDown
<1>3. CASE b > 0
    BY <1>1, <1>2, <1>3, DownIsBelow
<1>4. CASE b < 0
    <2>1. -a \in Int /\ -b \in Int /\ -b > 0 /\ ~(b > 0)
        BY <1>1, <1>4
    <2> QED BY <1>2, <1>4, <2>1, DownIsBelow
<1> QED BY <1>1, <1>3, <1>4

(* Only an infinity through an infinity is a NaN once zero is excluded. *)
LEMMA DivDownIsANumber ==
    ASSUME NEW a \in Ordinary, NEW b \in Ordinary, b # 0, ~(a \in Infs /\ b \in Infs)
    PROVE  DivDown(a, b) \in Ordinary
<1>1. a \in Int /\ b \in Int /\ a # NaN /\ b # NaN /\ 0 \in Ordinary /\ PInf \in Ordinary /\ MInf \in Ordinary
    BY MAssumption DEF Ordinary, Num, NaN, MInf, PInf
<1>2. \A n \in Int, d \in Int : d > 0 => Down(n, d) \in Ordinary
    <2>1. \A f \in Int : (IF f > M THEN M ELSE IF f < -M THEN MInf ELSE f) \in Ordinary
        BY MAssumption DEF Ordinary, Num, NaN, MInf, PInf
    <2>2. \A n \in Int, d \in Int : d > 0 => n \div d \in Int
        OBVIOUS
    <2> QED BY <2>1, <2>2 DEF Down
<1>3. DivDown(a, b) = IF b \in Infs THEN 0
                      ELSE IF a \in Infs THEN SignedInf((a > 0) = (b >= 0))
                      ELSE IF b > 0 THEN Down(a, b) ELSE Down(-a, -b)
    BY <1>1 DEF DivDown
<1>4. b > 0 => Down(a, b) \in Ordinary
    BY <1>1, <1>2
<1>5. ~(b > 0) => Down(-a, -b) \in Ordinary
    <2>1. ~(b > 0) => -b > 0 /\ -a \in Int /\ -b \in Int
        BY <1>1
    <2> QED BY <1>2, <2>1
<1>6. SignedInf((a > 0) = (b >= 0)) \in Ordinary
    BY <1>1 DEF SignedInf
<1> QED BY <1>1, <1>3, <1>4, <1>5, <1>6

(* Two changed signs cancel. *)
LEMMA TwoMinuses ==
    ASSUME NEW a \in Int, NEW b \in Int, NEW c \in Int
    PROVE  a * (b * c) = (-(a * c)) * (-b) /\ (a * b) * c = (-a) * (-(b * c))
<1>1. a * (b * c) = (-(a * c)) * (-b)
    OBVIOUS
<1>2. (a * b) * c = (-a) * (-(b * c))
    OBVIOUS
<1> QED BY <1>1, <1>2

(* One quotient of the ends is below the quotient of what lies between. *)
LEMMA OneQuotientIsBelow ==
    ASSUME NEW x \in Fraction, NEW y \in Fraction,
           NEW a \in Ordinary, NEW b \in Ordinary, NEW c \in Ordinary, NEW d \in Ordinary,
           AtLeast(x, a), AtMost(x, b), AtLeast(y, c), AtMost(y, d), c > 0 \/ d < 0,
           {a, b} \cap Infs = {} \/ {c, d} \cap Infs = {}
    PROVE  \E e \in {a, b}, f \in {c, d} : AtLeast(Quotient(x, y), DivDown(e, f)) /\ y[1] # 0
<1> DEFINE p == x[1]
           q == x[2]
           r == y[1]
           s == y[2]
           z == Quotient(x, y)
<1>1. p \in Int /\ q \in Int /\ q > 0 /\ r \in Int /\ s \in Int /\ s > 0
    BY FractionParts
<1>3. /\ a = MInf \/ (a \in -M..M /\ a * q <= p)
      /\ b = PInf \/ (b \in -M..M /\ p <= b * q)
      /\ c = MInf \/ (c \in -M..M /\ c * s <= r)
      /\ d = PInf \/ (d \in -M..M /\ r <= d * s)
    BY <1>1, MAssumption DEF AtLeast, AtMost
<1>4. /\ a \in Int /\ b \in Int /\ c \in Int /\ d \in Int
      /\ MInf < 0 /\ PInf > 0 /\ MInf \notin -M..M /\ PInf \notin -M..M
      /\ MInf \in Infs /\ PInf \in Infs /\ MInf # NaN /\ PInf # NaN
      /\ a # NaN /\ b # NaN /\ c # NaN /\ d # NaN
      /\ \A n \in -M..M : n \notin Infs
    BY MAssumption DEF Ordinary, Num, NaN, MInf, PInf, Infs
<1>5. \A e \in -M..M : /\ DivDown(e, PInf) = 0 /\ DivDown(e, MInf) = 0
                       /\ e > 0 => DivDown(MInf, e) = MInf
                       /\ e < 0 => DivDown(PInf, e) = MInf
    <2>1. \A e \in -M..M : e \in Int /\ e # NaN /\ e \notin Infs
        BY MAssumption DEF NaN, MInf, PInf, Infs
    <2>2. MInf < 0 /\ PInf > 0 /\ MInf # NaN /\ PInf # NaN
        BY <1>4
    <2>3. \A e \in -M..M : DivDown(e, PInf) = 0 /\ DivDown(e, MInf) = 0
        BY <2>1, <2>2, <1>4 DEF DivDown
    <2>4. ASSUME NEW e \in -M..M, e > 0 PROVE DivDown(MInf, e) = MInf
        <3>1. ~(MInf > 0) /\ e >= 0 /\ e # 0 /\ e \notin Infs /\ MInf \in Infs /\ MInf # NaN /\ e # NaN /\ MInf # 0
            BY <2>1, <2>2, <2>4, <1>4, MAssumption DEF MInf
        <3> QED BY <3>1 DEF DivDown, SignedInf
    <2>5. ASSUME NEW e \in -M..M, e < 0 PROVE DivDown(PInf, e) = MInf
        <3>1. PInf > 0 /\ ~(e >= 0) /\ e # 0 /\ e \notin Infs /\ PInf \in Infs /\ PInf # NaN /\ e # NaN /\ PInf # 0
            BY <2>1, <2>2, <2>5, <1>4
        <3> QED BY <3>1 DEF DivDown, SignedInf
    <2> QED BY <2>3, <2>4, <2>5
<1>6. CASE c > 0
    <2>1. c \in -M..M /\ c * s <= r /\ c * s > 0
        BY <1>1, <1>3, <1>4, <1>6
    <2>2. r > 0 /\ c * s \in Int
        BY <1>1, <1>4, <2>1
    <2>3. z = <<p * s, q * r>> /\ p * s \in Int /\ q * r \in Int
        BY <1>1, <2>2 DEF Quotient
    <2>4. z \in Fraction
        BY <1>1, <2>2, QuotientIsAFraction
    <2>5. CASE a >= 0
        <3>1. a \in -M..M /\ a * q <= p /\ a * q >= 0 /\ a * q \in Int
            BY <1>1, <1>3, <1>4, <2>5
        <3>2. CASE d = PInf
            <4>1. DivDown(a, d) = 0
                BY <1>5, <3>1, <3>2
            <4>2. 0 <= p * s
                BY <1>1, <3>1
            <4>3. AtLeast(z, 0)
                BY <2>3, <4>2, MAssumption DEF AtLeast
            <4> QED BY <2>2, <4>1, <4>3
        <3>3. CASE d # PInf
            <4>1. d \in -M..M /\ r <= d * s
                BY <1>3, <3>3
            <4>2. d > 0
                BY <1>1, <1>4, <2>2, <4>1
            <4>3. (a * q) * r <= p * r
                BY <1>1, <2>2, <3>1, Times
            <4>4. p * r <= p * (d * s)
                <5>1. p >= 0 /\ p \in Int /\ r \in Int
                    BY <1>1, <1>4, <3>1
                <5>2. d * s \in Int
                    BY <1>1, <1>4, <4>1
                <5> DEFINE e == d * s
                <5> HIDE DEF e, r
                <5>3. e \in Int /\ r \in Int /\ r <= e
                    BY <4>1, <5>1, <5>2 DEF e
                <5>4. p * r <= p * e
                    BY <5>1, <5>3, Times
                <5> QED BY <5>4 DEF e
            <4>5. p * (d * s) = (p * s) * d /\ (a * q) * r = a * (q * r)
                BY <1>1, <1>4
            <4>6. p * r \in Int /\ (p * s) * d \in Int /\ a * (q * r) \in Int
                BY <1>1, <1>4
            <4>7. a * z[2] <= z[1] * d
                BY <2>3, <4>3, <4>4, <4>5, <4>6
            <4> HIDE DEF z, r
            <4>8. AtLeast(z, DivDown(a, d))
                BY <1>4, <2>4, <3>1, <4>1, <4>2, <4>7, DivDownIsBelow
            <4> QED BY <2>2, <4>8 DEF z, r
        <3> QED BY <3>2, <3>3
    <2>6. CASE a < 0
        <3>1. CASE a = MInf
            <4>1. DivDown(a, c) = MInf
                BY <1>5, <1>6, <2>1, <3>1
            <4> QED BY <2>2, <4>1 DEF AtLeast
        <3>2. CASE a # MInf
            <4>1. a \in -M..M /\ a * q <= p /\ a * q <= 0 /\ a * q \in Int
                BY <1>1, <1>3, <1>4, <2>6, <3>2
            <4>2. (a * q) * r <= (a * q) * (c * s)
                BY <1>1, <2>1, <2>2, <4>1, Times
            <4>3. (a * q) * (c * s) <= p * (c * s)
                BY <1>1, <2>1, <2>2, <4>1, Times
            <4>4. p * (c * s) = (p * s) * c /\ (a * q) * r = a * (q * r)
                BY <1>1, <1>4
            <4>5. (a * q) * (c * s) \in Int /\ (p * s) * c \in Int /\ a * (q * r) \in Int
                BY <1>1, <1>4
            <4>6. a * z[2] <= z[1] * c
                BY <2>3, <4>2, <4>3, <4>4, <4>5
            <4> HIDE DEF z, r
            <4>7. AtLeast(z, DivDown(a, c))
                BY <1>4, <1>6, <2>1, <2>4, <4>1, <4>6, DivDownIsBelow
            <4> QED BY <2>2, <4>7 DEF z, r
        <3> QED BY <3>1, <3>2
    <2> QED BY <1>4, <2>5, <2>6
<1>7. CASE d < 0
    <2>1. d \in -M..M /\ r <= d * s /\ d * s < 0
        BY <1>1, <1>3, <1>4, <1>7
    <2>2. r < 0 /\ d * s \in Int
        BY <1>1, <1>4, <2>1
    <2>3. z = <<-(p * s), -(q * r)>> /\ p * s \in Int /\ q * r \in Int
        <3>1. ~(r > 0)
            BY <1>1, <2>2
        <3> QED BY <1>1, <3>1 DEF Quotient
    <2>4. z \in Fraction
        BY <1>1, <2>2, QuotientIsAFraction
    <2>5. CASE b >= 0
        <3>1. CASE b = PInf
            <4>1. DivDown(b, d) = MInf
                BY <1>5, <1>7, <2>1, <3>1
            <4> QED BY <2>2, <4>1 DEF AtLeast
        <3>2. CASE b # PInf
            <4>1. b \in -M..M /\ p <= b * q /\ b * q >= 0 /\ b * q \in Int
                BY <1>1, <1>3, <1>4, <2>5, <3>2
            <4>2. (b * q) * r <= (b * q) * (d * s)
                BY <1>1, <2>1, <2>2, <4>1, Times
            <4>3. (b * q) * (d * s) <= p * (d * s)
                BY <1>1, <2>1, <2>2, <4>1, Times
            <4>4. p * (d * s) = (-(p * s)) * (-d) /\ (b * q) * r = (-b) * (-(q * r))
                <5> HIDE DEF p, q, r, s
                <5> QED BY <1>1, <1>4, TwoMinuses
            <4>5. (b * q) * (d * s) \in Int /\ (-(p * s)) * (-d) \in Int /\ (-b) * (-(q * r)) \in Int
                BY <1>1, <1>4
            <4>6. (-b) * z[2] <= z[1] * (-d)
                BY <2>3, <4>2, <4>3, <4>4, <4>5
            <4>7. ~(d > 0) /\ d # 0
                BY <1>4, <1>7
            <4> HIDE DEF z, r
            <4>8. AtLeast(z, DivDown(b, d))
                BY <1>4, <1>7, <2>1, <2>4, <4>1, <4>6, <4>7, DivDownIsBelow
            <4> QED BY <2>2, <4>8 DEF z, r
        <3> QED BY <3>1, <3>2
    <2>6. CASE b < 0
        <3>1. b \in -M..M /\ p <= b * q /\ b * q < 0 /\ b * q \in Int /\ p < 0
            BY <1>1, <1>3, <1>4, <2>6
        <3>2. CASE c = MInf
            <4>1. DivDown(b, c) = 0
                BY <1>5, <3>1, <3>2
            <4>2. 0 <= -(p * s)
                BY <1>1, <3>1
            <4>3. AtLeast(z, 0)
                BY <2>3, <4>2, MAssumption DEF AtLeast
            <4> QED BY <2>2, <4>1, <4>3
        <3>3. CASE c # MInf
            <4>1. c \in -M..M /\ c * s <= r
                BY <1>3, <3>3
            <4>2. c < 0 /\ c * s < 0 /\ c * s \in Int
                BY <1>1, <1>4, <2>2, <4>1
            <4>3. (b * q) * r <= (b * q) * (c * s)
                BY <1>1, <2>2, <3>1, <4>1, <4>2, Times
            <4>4. (b * q) * (c * s) <= p * (c * s)
                BY <1>1, <3>1, <4>2, Times
            <4>5. p * (c * s) = (-(p * s)) * (-c) /\ (b * q) * r = (-b) * (-(q * r))
                BY <1>1, <1>4, TwoMinuses
            <4>6. (b * q) * (c * s) \in Int /\ (-(p * s)) * (-c) \in Int /\ (-b) * (-(q * r)) \in Int
                BY <1>1, <1>4
            <4>7. (-b) * z[2] <= z[1] * (-c)
                BY <2>3, <4>3, <4>4, <4>5, <4>6
            <4>8. ~(c > 0) /\ c # 0
                BY <1>4, <4>2
            <4> HIDE DEF z, r
            <4>9. AtLeast(z, DivDown(b, c))
                BY <1>4, <2>4, <3>1, <4>1, <4>7, <4>8, DivDownIsBelow
            <4> QED BY <2>2, <4>9 DEF z, r
        <3> QED BY <3>2, <3>3
    <2> QED BY <1>4, <2>5, <2>6
<1> QED BY <1>6, <1>7

-------------------------------------------------------------------------------
(* divi() encloses the quotient, and the whole line where the divisor may   *)
(* be zero.                                                                 *)
LEMMA DivEncloses ==
    ASSUME NEW i \in Whole, NEW j \in Whole, Ends(i) \cap Infs = {} \/ Ends(j) \cap Infs = {}
    PROVE  /\ Div(i, j) \in Whole
           /\ \A x, y \in Fraction : Within(x, i) /\ Within(y, j) /\ y[1] # 0
                => Within(Quotient(x, y), Div(i, j))
<1>1. /\ i.lo \in Ordinary /\ i.hi \in Ordinary /\ j.lo \in Ordinary /\ j.hi \in Ordinary
      /\ i.lo \in Int /\ i.hi \in Int /\ j.lo \in Int /\ j.hi \in Int
      /\ i.lo # NaN /\ i.hi # NaN /\ j.lo # NaN /\ j.hi # NaN
    BY MAssumption DEF Whole, Ordinary, Num, NaN, MInf
<1>2. CASE IsEmpty(i) \/ IsEmpty(j)
    BY <1>2, EmptyIsWhole, InsideIsNotEmpty DEF Div
<1>3. CASE ~(IsEmpty(i) \/ IsEmpty(j)) /\ Le(j.lo, 0) /\ Le(0, j.hi)
    <2>1. Div(i, j) = Entire
        BY <1>3 DEF Div
    <2> QED BY <2>1, EmptyIsWhole DEF Entire, Pair, Within, AtLeast, AtMost
<1>4. CASE ~(IsEmpty(i) \/ IsEmpty(j)) /\ ~(Le(j.lo, 0) /\ Le(0, j.hi))
    <2> DEFINE low == Min4(DivDown(i.lo, j.lo), DivDown(i.lo, j.hi), DivDown(i.hi, j.lo), DivDown(i.hi, j.hi))
               high == Max4(DivUp(i.lo, j.lo), DivUp(i.lo, j.hi), DivUp(i.hi, j.lo), DivUp(i.hi, j.hi))
    <2>1. Div(i, j) = Pair(low, high)
        BY <1>4 DEF Div
    <2>2. (j.lo > 0 \/ j.hi < 0) /\ j.lo <= j.hi
        <3>1. 0 # NaN
            BY MAssumption DEF NaN
        <3> QED BY <1>1, <1>4, <3>1 DEF Le, Lt, IsEmpty
    <2>3. j.lo # 0 /\ j.hi # 0
        BY <1>1, <2>2
    <2>4. ASSUME NEW e \in {i.lo, i.hi}, NEW f \in {j.lo, j.hi}
          PROVE  DivDown(e, f) \in Ordinary /\ DivDown(Minus(e), f) \in Ordinary /\ DivUp(e, f) \in Ordinary
        <3>1. f # 0 /\ e \in Ordinary /\ f \in Ordinary /\ ~(e \in Infs /\ f \in Infs)
            BY <1>1, <2>3 DEF Ends
        <3>2. Minus(e) \in Ordinary /\ ~(Minus(e) \in Infs /\ f \in Infs)
            BY <3>1, MinusOrdinary
        <3>3. DivDown(e, f) \in Ordinary /\ DivDown(Minus(e), f) \in Ordinary
            BY <3>1, <3>2, DivDownIsANumber
        <3> QED BY <3>3, MinusOrdinary DEF DivUp
    <2>5. /\ DivDown(i.lo, j.lo) \in Ordinary /\ DivDown(i.lo, j.hi) \in Ordinary
          /\ DivDown(i.hi, j.lo) \in Ordinary /\ DivDown(i.hi, j.hi) \in Ordinary
          /\ DivUp(i.lo, j.lo) \in Ordinary /\ DivUp(i.lo, j.hi) \in Ordinary
          /\ DivUp(i.hi, j.lo) \in Ordinary /\ DivUp(i.hi, j.hi) \in Ordinary
        BY <2>4
    <2>6. /\ low \in Ordinary /\ \A e \in {i.lo, i.hi}, f \in {j.lo, j.hi} : low <= DivDown(e, f)
          /\ high \in Ordinary /\ \A e \in {i.lo, i.hi}, f \in {j.lo, j.hi} : DivUp(e, f) <= high
        <3>1. /\ low \in Ordinary /\ low <= DivDown(i.lo, j.lo) /\ low <= DivDown(i.lo, j.hi)
              /\ low <= DivDown(i.hi, j.lo) /\ low <= DivDown(i.hi, j.hi)
            BY <2>5, LeastOfFour
        <3>2. /\ high \in Ordinary /\ high >= DivUp(i.lo, j.lo) /\ high >= DivUp(i.lo, j.hi)
              /\ high >= DivUp(i.hi, j.lo) /\ high >= DivUp(i.hi, j.hi)
            BY <2>5, LeastOfFour
        <3>3. \A u, v \in Ordinary : u >= v <=> v <= u
            OBVIOUS
        <3> HIDE DEF low, high
        <3> QED BY <2>5, <3>1, <3>2, <3>3
    <2> HIDE DEF low, high
    <2>7. ASSUME NEW x \in Fraction, NEW y \in Fraction, Within(x, i), Within(y, j), y[1] # 0
          PROVE  Within(Quotient(x, y), Div(i, j))
        <3> DEFINE z == Quotient(x, y)
                   x1 == Opposite(x)
        <3>1. AtLeast(x, i.lo) /\ AtMost(x, i.hi) /\ AtLeast(y, j.lo) /\ AtMost(y, j.hi)
            BY <2>7 DEF Within
        <3>2. z \in Fraction
            BY <2>7, QuotientIsAFraction
        <3>3. AtLeast(z, low)
            <4>1. {i.lo, i.hi} \cap Infs = {} \/ {j.lo, j.hi} \cap Infs = {}
                BY DEF Ends
            <4>2. PICK e \in {i.lo, i.hi}, f \in {j.lo, j.hi} : AtLeast(z, DivDown(e, f))
                BY <1>1, <2>2, <3>1, <4>1, OneQuotientIsBelow
            <4> HIDE DEF z
            <4> QED BY <2>4, <2>6, <3>2, <4>2, LowerStillBelow DEF Ordinary
        <3>4. AtMost(z, high)
            <4>1. /\ AtLeast(x1, Minus(i.hi)) /\ AtMost(x1, Minus(i.lo)) /\ x1 \in Fraction
                  /\ Minus(i.hi) \in Ordinary /\ Minus(i.lo) \in Ordinary
                BY <1>1, <3>1, Mirrored, FractionParts
            <4>2. {Minus(i.hi), Minus(i.lo)} \cap Infs = {} \/ {j.lo, j.hi} \cap Infs = {}
                BY <1>1, MinusOrdinary DEF Ends
            <4> HIDE DEF x1
            <4>3. PICK e \in {Minus(i.hi), Minus(i.lo)}, f \in {j.lo, j.hi} : AtLeast(Quotient(x1, y), DivDown(e, f))
                BY <1>1, <2>2, <3>1, <4>1, <4>2, OneQuotientIsBelow
            <4>4. Quotient(x1, y) = Opposite(z)
                BY <2>7, QuotientIsAFraction DEF x1
            <4>5. PICK g \in {i.lo, i.hi} : e = Minus(g)
                OBVIOUS
            <4>6. DivDown(e, f) = Minus(DivUp(g, f)) /\ DivUp(g, f) \in Ordinary
                BY <2>4, <4>5, MinusOrdinary DEF DivUp
            <4> HIDE DEF z
            <4>7. AtMost(z, DivUp(g, f))
                BY <3>2, <4>3, <4>4, <4>6, Mirrored
            <4> QED BY <2>6, <3>2, <4>6, <4>7, UpperStillAbove
        <3> HIDE DEF z
        <3>5. Within(z, Div(i, j))
            BY <2>1, <3>3, <3>4 DEF Within, Pair
        <3> QED BY <3>5 DEF z
    <2>8. Div(i, j) \in Whole
        BY <2>1, <2>6 DEF Pair, Whole
    <2> QED BY <2>7, <2>8
<1> QED BY <1>2, <1>3, <1>4

-------------------------------------------------------------------------------
(* The ends in either order. *)
LEMMA OfIsWhole ==
    ASSUME NEW a \in Ordinary, NEW b \in Ordinary
    PROVE  Of(a, b) \in Whole /\ (a <= b => Of(a, b) = Pair(a, b))
BY MAssumption DEF Of, Le, Pair, Whole, Ordinary, Num, NaN, MInf

(* std::min and std::max of what is no NaN. *)
LEMMA LesserAndGreater ==
    \A u, v \in Ordinary : /\ MinOf(u, v) \in {u, v} /\ MinOf(u, v) <= u /\ MinOf(u, v) <= v
                           /\ MaxOf(u, v) \in {u, v} /\ MaxOf(u, v) >= u /\ MaxOf(u, v) >= v
                           /\ u \in Int
BY MAssumption DEF MinOf, MaxOf, Lt, Ordinary, Num, NaN, MInf

(* What contains a number has its ends in order. *)
LEMMA InsideIsOrdered ==
    ASSUME NEW i \in Whole, NEW x \in Fraction, Within(x, i)
    PROVE  i.lo <= i.hi
<1>1. i.lo \in Int /\ i.hi \in Int /\ i.lo # NaN /\ i.hi # NaN
    BY MAssumption DEF Whole, Ordinary, Num, NaN, MInf
<1> QED BY <1>1, InsideIsNotEmpty DEF IsEmpty, Lt

(* The larger and the smaller of two numbers. *)
LEMMA AnyTwoCompare ==
    ASSUME NEW x \in Fraction, NEW y \in Fraction
    PROVE  /\ Larger(x, y) \in {x, y} /\ Smaller(x, y) \in {x, y}
           /\ LET w == Larger(x, y) IN x[1] * w[2] <= w[1] * x[2] /\ y[1] * w[2] <= w[1] * y[2]
           /\ LET w == Smaller(x, y) IN w[1] * x[2] <= x[1] * w[2] /\ w[1] * y[2] <= y[1] * w[2]
<1>1. x[1] \in Int /\ x[2] \in Int /\ y[1] \in Int /\ y[2] \in Int
    BY FractionParts
<1>2. x[1] * y[2] \in Int /\ y[1] * x[2] \in Int /\ x[1] * x[2] \in Int /\ y[1] * y[2] \in Int
    BY <1>1
<1>3. CASE x[1] * y[2] < y[1] * x[2]
    <2>1. Larger(x, y) = y /\ Smaller(x, y) = x
        BY <1>3 DEF Larger, Smaller
    <2> QED BY <1>2, <1>3, <2>1
<1>4. CASE ~(x[1] * y[2] < y[1] * x[2])
    <2>1. Larger(x, y) = x /\ Smaller(x, y) = y
        BY <1>4 DEF Larger, Smaller
    <2> QED BY <1>2, <1>4, <2>1
<1> QED BY <1>3, <1>4

(* MAX of call_fn encloses the larger number. *)
LEMMA MaxEncloses ==
    ASSUME NEW i \in Whole, NEW j \in Whole
    PROVE  /\ Of(MaxOf(i.lo, j.lo), MaxOf(i.hi, j.hi)) \in Whole
           /\ \A x, y \in Fraction : Within(x, i) /\ Within(y, j)
                => Within(Larger(x, y), Of(MaxOf(i.lo, j.lo), MaxOf(i.hi, j.hi)))
<1> DEFINE l == MaxOf(i.lo, j.lo)
           h == MaxOf(i.hi, j.hi)
<1>1. i.lo \in Ordinary /\ i.hi \in Ordinary /\ j.lo \in Ordinary /\ j.hi \in Ordinary
    BY DEF Whole
<1>2. /\ l \in Ordinary /\ h \in Ordinary /\ l \in {i.lo, j.lo}
      /\ h >= i.hi /\ h >= j.hi /\ l \in Int /\ h \in Int
      /\ i.lo \in Int /\ i.hi \in Int /\ j.lo \in Int /\ j.hi \in Int
    BY <1>1, LesserAndGreater
<1> HIDE DEF l, h
<1>3. ASSUME NEW x \in Fraction, NEW y \in Fraction, Within(x, i), Within(y, j)
      PROVE  Within(Larger(x, y), Of(l, h))
    <2>1. l <= h
        BY <1>2, <1>3, InsideIsOrdered
    <2>2. PICK w : w = Larger(x, y)
        OBVIOUS
    <2>3. w \in {x, y} /\ w \in Fraction /\ x[1] * w[2] <= w[1] * x[2] /\ y[1] * w[2] <= w[1] * y[2]
        BY <2>2, AnyTwoCompare
    <2>4. AtLeast(w, i.lo) /\ AtLeast(w, j.lo)
        BY <1>1, <1>3, <2>3, AboveTheAbove DEF Within
    <2>5. AtMost(w, h)
        <3>1. AtMost(w, i.hi) \/ AtMost(w, j.hi)
            BY <1>3, <2>3 DEF Within
        <3>2. i.hi <= h /\ j.hi <= h
            BY <1>2
        <3> QED BY <1>1, <1>2, <2>3, <3>1, <3>2, UpperStillAbove
    <2>6. Of(l, h) = Pair(l, h)
        BY <1>2, <2>1, OfIsWhole
    <2> QED BY <1>2, <2>2, <2>4, <2>5, <2>6 DEF Within, Pair
<1>4. Of(l, h) \in Whole
    BY <1>2, OfIsWhole
<1> QED BY <1>3, <1>4 DEF l, h

(* MIN of call_fn encloses the smaller number. *)
LEMMA MinEncloses ==
    ASSUME NEW i \in Whole, NEW j \in Whole
    PROVE  /\ Of(MinOf(i.lo, j.lo), MinOf(i.hi, j.hi)) \in Whole
           /\ \A x, y \in Fraction : Within(x, i) /\ Within(y, j)
                => Within(Smaller(x, y), Of(MinOf(i.lo, j.lo), MinOf(i.hi, j.hi)))
<1> DEFINE l == MinOf(i.lo, j.lo)
           h == MinOf(i.hi, j.hi)
<1>1. i.lo \in Ordinary /\ i.hi \in Ordinary /\ j.lo \in Ordinary /\ j.hi \in Ordinary
    BY DEF Whole
<1>2. /\ l \in Ordinary /\ h \in Ordinary /\ h \in {i.hi, j.hi}
      /\ l <= i.lo /\ l <= j.lo /\ l \in Int /\ h \in Int
      /\ i.lo \in Int /\ i.hi \in Int /\ j.lo \in Int /\ j.hi \in Int
    BY <1>1, LesserAndGreater
<1> HIDE DEF l, h
<1>3. ASSUME NEW x \in Fraction, NEW y \in Fraction, Within(x, i), Within(y, j)
      PROVE  Within(Smaller(x, y), Of(l, h))
    <2>1. l <= h
        BY <1>2, <1>3, InsideIsOrdered
    <2>2. PICK w : w = Smaller(x, y)
        OBVIOUS
    <2>3. w \in {x, y} /\ w \in Fraction /\ w[1] * x[2] <= x[1] * w[2] /\ w[1] * y[2] <= y[1] * w[2]
        BY <2>2, AnyTwoCompare
    <2>4. AtMost(w, i.hi) /\ AtMost(w, j.hi)
        BY <1>1, <1>3, <2>3, AboveTheAbove DEF Within
    <2>5. AtLeast(w, l)
        <3>1. AtLeast(w, i.lo) \/ AtLeast(w, j.lo)
            BY <1>3, <2>3 DEF Within
        <3> QED BY <1>1, <1>2, <2>3, <3>1, LowerStillBelow DEF Ordinary
    <2>6. Of(l, h) = Pair(l, h)
        BY <1>2, <2>1, OfIsWhole
    <2> QED BY <1>2, <2>2, <2>4, <2>5, <2>6 DEF Within, Pair
<1>4. Of(l, h) \in Whole
    BY <1>2, OfIsWhole
<1> QED BY <1>3, <1>4 DEF l, h

(* hull() encloses whatever either interval does. *)
LEMMA HullEncloses ==
    ASSUME NEW i \in Whole, NEW j \in Whole
    PROVE  /\ Hull(i, j) \in Whole
           /\ \A x \in Fraction : Within(x, i) \/ Within(x, j) => Within(x, Hull(i, j))
<1> DEFINE l == MinOf(i.lo, j.lo)
           h == MaxOf(i.hi, j.hi)
<1>1. i.lo \in Ordinary /\ i.hi \in Ordinary /\ j.lo \in Ordinary /\ j.hi \in Ordinary
    BY DEF Whole
<1>2. /\ l \in Ordinary /\ h \in Ordinary /\ l <= i.lo /\ l <= j.lo /\ h >= i.hi /\ h >= j.hi
      /\ i.hi \in Int /\ j.hi \in Int /\ h \in Int
    BY <1>1, LesserAndGreater
<1>3. CASE IsEmpty(i) \/ IsEmpty(j)
    BY <1>3, InsideIsNotEmpty DEF Hull
<1> HIDE DEF l, h
<1>4. CASE ~(IsEmpty(i) \/ IsEmpty(j))
    <2>1. Hull(i, j) = Pair(l, h)
        BY <1>4 DEF Hull, l, h
    <2>2. i.hi <= h /\ j.hi <= h
        BY <1>2
    <2>3. ASSUME NEW x \in Fraction, Within(x, i) \/ Within(x, j) PROVE AtLeast(x, l) /\ AtMost(x, h)
        <3>1. (AtLeast(x, i.lo) /\ AtMost(x, i.hi)) \/ (AtLeast(x, j.lo) /\ AtMost(x, j.hi))
            BY <2>3 DEF Within
        <3> QED BY <1>1, <1>2, <2>2, <3>1, LowerStillBelow, UpperStillAbove DEF Ordinary
    <2> QED BY <1>2, <2>1, <2>3 DEF Pair, Whole, Within
<1> QED BY <1>3, <1>4

AbsOf(x) == IF x[1] < 0 THEN Opposite(x) ELSE x

(* ABS of call_fn encloses the absolute value. *)
LEMMA AbsEncloses ==
    ASSUME NEW i \in Whole
    PROVE  /\ CallAbs(i) \in Whole
           /\ \A x \in Fraction : Within(x, i) => Within(AbsOf(x), CallAbs(i))
<1> DEFINE l == IF Le(i.lo, 0) /\ Le(0, i.hi) THEN 0 ELSE MinOf(Fabs(i.lo), Fabs(i.hi))
           h == Mag(i)
<1>1. /\ i.lo \in Ordinary /\ i.hi \in Ordinary /\ i.lo \in Int /\ i.hi \in Int
      /\ i.lo # NaN /\ i.hi # NaN /\ 0 \in Ordinary /\ 0 # NaN
    BY MAssumption DEF Whole, Ordinary, Num, NaN, MInf, PInf
<1>2. \A u \in Ordinary : Fabs(u) \in Ordinary /\ Fabs(u) = IF u < 0 THEN -u ELSE u
    BY MAssumption DEF Fabs, Lt, Ordinary, Num, NaN, MInf, PInf
<1>3. Fabs(i.lo) \in Ordinary /\ Fabs(i.hi) \in Ordinary
    BY <1>1, <1>2
<1>4. l \in Ordinary /\ h \in Ordinary
    BY <1>1, <1>3, LesserAndGreater DEF Mag
<1>5. CallAbs(i) \in Whole
    BY <1>4, OfIsWhole DEF CallAbs
<1>6. ASSUME NEW x \in Fraction, Within(x, i) PROVE Within(AbsOf(x), CallAbs(i))
    <2>1. ~IsEmpty(i) /\ i.lo <= i.hi
        BY <1>6, InsideIsNotEmpty, InsideIsOrdered
    <2>2. h = MaxOf(Fabs(i.lo), Fabs(i.hi)) /\ h >= Fabs(i.lo) /\ h >= Fabs(i.hi) /\ h \in Int
          /\ Fabs(i.lo) \in Int /\ Fabs(i.hi) \in Int
        BY <1>3, <2>1, LesserAndGreater DEF Mag
    <2>3. /\ i.lo <= 0 /\ 0 <= i.hi => l = 0
          /\ ~(i.lo <= 0 /\ 0 <= i.hi) => l <= Fabs(i.lo) /\ l <= Fabs(i.hi) /\ l \in {Fabs(i.lo), Fabs(i.hi)}
        BY <1>1, <1>3, LesserAndGreater DEF Le
    <2> HIDE DEF l, h
    <2>4. Fabs(i.lo) = (IF i.lo < 0 THEN -i.lo ELSE i.lo) /\ Fabs(i.hi) = (IF i.hi < 0 THEN -i.hi ELSE i.hi)
        BY <1>1, <1>2
    <2>5. l <= h /\ i.hi <= h /\ -i.lo <= h /\ (l <= i.lo \/ l <= -i.hi \/ l = 0)
        BY <1>1, <2>1, <2>2, <2>3, <2>4
    <2>6. CallAbs(i) = Pair(l, h)
        BY <1>4, <2>5, OfIsWhole DEF CallAbs, l, h
    <2>7. x[1] \in Int /\ x[2] \in Int /\ x[2] > 0
        BY FractionParts
    <2>8. AtLeast(x, i.lo) /\ AtMost(x, i.hi)
        BY <1>6 DEF Within
    <2>9. Opposite(x) \in Fraction /\ AtMost(Opposite(x), -i.lo) /\ AtLeast(Opposite(x), -i.hi)
          /\ -i.lo \in Ordinary /\ -i.hi \in Ordinary
        <3>1. Minus(i.lo) = -i.lo /\ Minus(i.hi) = -i.hi
            BY <1>1 DEF Minus
        <3> QED BY <1>1, <2>8, <3>1, Mirrored, FractionParts
    <2>10. CASE x[1] < 0
        <3>1. AbsOf(x) = Opposite(x)
            BY <2>10 DEF AbsOf
        <3>2. AtMost(Opposite(x), h)
            BY <1>4, <2>5, <2>9, UpperStillAbove
        <3>3. i.lo < 0
            BY <1>1, <2>7, <2>8, <2>10, MAssumption DEF AtLeast, MInf
        <3>4. l = 0 \/ l <= -i.hi
            BY <1>1, <2>1, <2>3, <2>4, <3>3
        <3>5. AtLeast(Opposite(x), 0)
            BY <2>7, <2>10, MAssumption DEF AtLeast, Opposite
        <3>6. AtLeast(Opposite(x), l)
            BY <1>4, <2>9, <3>4, <3>5, LowerStillBelow DEF Ordinary
        <3> QED BY <2>6, <3>1, <3>2, <3>6 DEF Within, Pair
    <2>11. CASE ~(x[1] < 0)
        <3>1. AbsOf(x) = x
            BY <2>11 DEF AbsOf
        <3>2. AtMost(x, h)
            BY <1>1, <1>4, <2>5, <2>8, UpperStillAbove
        <3>3. i.hi >= 0
            BY <1>1, <2>7, <2>8, <2>11, MAssumption DEF AtMost, PInf
        <3>4. l = 0 \/ l <= i.lo
            BY <1>1, <2>1, <2>3, <2>4, <3>3
        <3>5. AtLeast(x, 0)
            BY <2>7, <2>11, MAssumption DEF AtLeast
        <3>6. AtLeast(x, l)
            BY <1>1, <1>4, <2>8, <3>4, <3>5, LowerStillBelow DEF Ordinary
        <3> QED BY <2>6, <3>1, <3>2, <3>6 DEF Within, Pair
    <2> QED BY <2>10, <2>11
<1> QED BY <1>5, <1>6

-------------------------------------------------------------------------------
(* Recursion.  Every set of naturals has a least element; so induction over  *)
(* a set holds, and what is done over and over from a start is a function.  *)
LEMMA Least ==
    ASSUME NEW T \in SUBSET Nat, T # {}
    PROVE  \E n \in T : \A m \in T : n <= m
<1>1. IsWellFoundedOn(OpToRel(<, Nat), Nat)
    BY NatLessThanWellFounded
<1>2. PICK n \in T : \A m \in T : ~(<<m, n>> \in OpToRel(<, Nat))
    BY <1>1, WFMin
<1>3. \A m \in T : ~(m < n)
    BY <1>2 DEF OpToRel
<1> QED BY <1>3

(* A set of numbers with zero in which every number's successor lies is Nat. *)
LEMMA Induct ==
    ASSUME NEW T, 0 \in T, \A n \in Nat : n \in T => n + 1 \in T
    PROVE  \A n \in Nat : n \in T
<1> DEFINE Bad == {n \in Nat : n \notin T}
<1> SUFFICES ASSUME Bad # {} PROVE FALSE
    OBVIOUS
<1>1. PICK n \in Bad : \A m \in Bad : n <= m
    BY Least
<1>2. n # 0 /\ n \in Nat
    BY <1>1
<1>3. n - 1 \in Nat /\ n - 1 \notin Bad
    BY <1>1, <1>2
<1> QED BY <1>1, <1>3

(* What is done over and over from a start. *)
Repeats(g, s, h) == g[0] = s /\ \A k \in Nat : g[k + 1] = h[g[k]]
LEMMA Iteration ==
    ASSUME NEW S, NEW s \in S, NEW h \in [S -> S]
    PROVE  \E g \in [Nat -> S] : Repeats(g, s, h)
<1> DEFINE Chain(n) == {g \in [0..n -> S] : g[0] = s /\ \A k \in 0..(n - 1) : g[k + 1] = h[g[k]]}
<1>1. \A n \in Nat : Chain(n) # {}
    <2> DEFINE T == {n \in Nat : Chain(n) # {}}
    <2>1. 0 \in T
        <3>1. [k \in 0..0 |-> s] \in Chain(0)
            OBVIOUS
        <3> QED BY <3>1
    <2>2. ASSUME NEW n \in Nat, n \in T PROVE n + 1 \in T
        <3>1. PICK g : g \in Chain(n)
            BY <2>2
        <3> DEFINE f == [k \in 0..(n + 1) |-> IF k = n + 1 THEN h[g[n]] ELSE g[k]]
        <3>2. g \in [0..n -> S] /\ g[0] = s /\ \A k \in 0..(n - 1) : g[k + 1] = h[g[k]]
            BY <3>1
        <3>3. f \in [0..(n + 1) -> S]
            BY <3>2
        <3>4. f[0] = s
            BY <3>2
        <3>5. ASSUME NEW k \in 0..n PROVE f[k + 1] = h[f[k]]
            <4>1. CASE k = n
                BY <4>1
            <4>2. CASE k # n
                BY <3>2, <4>2
            <4> QED BY <4>1, <4>2
        <3> HIDE DEF f
        <3>6. f \in Chain(n + 1)
            BY <3>3, <3>4, <3>5
        <3> QED BY <3>6
    <2> HIDE DEF T
    <2>3. \A n \in Nat : n \in T
        BY <2>1, <2>2, Induct
    <2> QED BY <2>3 DEF T
<1>2. ASSUME NEW n \in Nat, NEW g \in Chain(n), NEW f \in Chain(n + 1)
      PROVE  f[n] = g[n]
    <2> DEFINE T == {k \in Nat : k <= n => f[k] = g[k]}
    <2>1. 0 \in T
        OBVIOUS
    <2>2. ASSUME NEW k \in Nat, k \in T PROVE k + 1 \in T
        <3> SUFFICES ASSUME k + 1 <= n PROVE f[k + 1] = g[k + 1]
            OBVIOUS
        <3>1. f[k] = g[k] /\ k \in 0..(n - 1) /\ k \in 0..(n + 1 - 1)
            BY <2>2
        <3> QED BY <3>1
    <2> HIDE DEF T
    <2>3. n \in T
        BY <2>1, <2>2, Induct
    <2> QED BY <2>3 DEF T
<1> DEFINE c == [n \in Nat |-> CHOOSE g : g \in Chain(n)]
           G == [n \in Nat |-> c[n][n]]
<1>3. \A n \in Nat : c[n] \in Chain(n)
    BY <1>1
<1> HIDE DEF c, Chain
<1>4. \A n \in Nat : c[n] \in [0..n -> S] /\ c[n][0] = s /\ \A k \in 0..(n - 1) : c[n][k + 1] = h[c[n][k]]
    BY <1>3 DEF Chain
<1>5. G \in [Nat -> S] /\ G[0] = s
    BY <1>4
<1>6. ASSUME NEW n \in Nat PROVE G[n + 1] = h[G[n]]
    <2>1. c[n + 1][n] = c[n][n]
        BY <1>2, <1>3
    <2>2. c[n + 1][n + 1] = h[c[n + 1][n]]
        BY <1>4
    <2> QED BY <2>1, <2>2
<1> HIDE DEF G
<1> QED BY <1>5, <1>6 DEF Repeats

-------------------------------------------------------------------------------
(* Power is the function its recursion says. *)
LEMMA PowerFacts ==
    ASSUME NEW x \in Int
    PROVE  /\ Power(x, 0) = 1
           /\ \A n \in Nat : Power(x, n) \in Int /\ Power(x, n + 1) = x * Power(x, n)
<1> DEFINE p[k \in Nat] == IF k = 0 THEN 1 ELSE x * p[k - 1]
           h == [v \in Int |-> x * v]
           one == 1
<1>1. h \in [Int -> Int] /\ one \in Int
    OBVIOUS
<1> HIDE DEF h, one
<1>2. PICK g \in [Nat -> Int] : Repeats(g, one, h)
    BY <1>1, Iteration
<1>2a. g[0] = 1 /\ \A k \in Nat : g[k + 1] = h[g[k]]
    BY <1>2 DEF Repeats, one
<1> USE DEF h
<1>3. g = [k \in Nat |-> IF k = 0 THEN 1 ELSE x * g[k - 1]]
    <2>1. ASSUME NEW k \in Nat PROVE g[k] = IF k = 0 THEN 1 ELSE x * g[k - 1]
        <3>1. CASE k = 0
            BY <1>2a, <3>1
        <3>2. CASE k # 0
            <4>1. k - 1 \in Nat /\ (k - 1) + 1 = k
                BY <3>2
            <4> QED BY <1>2, <1>2a, <3>2, <4>1
        <3> QED BY <3>1, <3>2
    <2> QED BY <1>2, <2>1
<1>4. \A n : Power(x, n) = p[n]
    BY DEF Power, p
<1>5. p = CHOOSE f : f = [k \in Nat |-> IF k = 0 THEN 1 ELSE x * f[k - 1]]
    BY DEF p
<1> HIDE DEF p, h
<1>6. p = [k \in Nat |-> IF k = 0 THEN 1 ELSE x * p[k - 1]]
    BY <1>3, <1>5
<1>7. p[0] = 1 /\ \A n \in Nat : p[n + 1] = x * p[n]
    <2>1. ASSUME NEW n \in Nat PROVE p[n + 1] = x * p[n]
        <3>1. n + 1 \in Nat /\ n + 1 # 0 /\ (n + 1) - 1 = n
            OBVIOUS
        <3> QED BY <1>6, <3>1
    <2> QED BY <1>6, <2>1
<1>8. \A n \in Nat : p[n] \in Int
    <2> DEFINE T == {n \in Nat : p[n] \in Int}
    <2>1. 0 \in T /\ \A n \in Nat : n \in T => n + 1 \in T
        BY <1>7
    <2> HIDE DEF T
    <2>2. \A n \in Nat : n \in T
        BY <2>1, Induct
    <2> QED BY <2>2 DEF T
<1> QED BY <1>4, <1>7, <1>8

(* Powers of a sum of exponents are products. *)
LEMMA PowerSum ==
    ASSUME NEW x \in Int, NEW m \in Nat
    PROVE  \A n \in Nat : Power(x, m + n) = Power(x, m) * Power(x, n)
<1> DEFINE T == {n \in Nat : Power(x, m + n) = Power(x, m) * Power(x, n)}
<1>1. 0 \in T
    BY PowerFacts
<1>2. ASSUME NEW n \in Nat, n \in T PROVE n + 1 \in T
    <2>1. Power(x, m + n) = Power(x, m) * Power(x, n)
        BY <1>2
    <2>0. m + n \in Nat
        OBVIOUS
    <2>2. Power(x, (m + n) + 1) = x * Power(x, m + n) /\ Power(x, n + 1) = x * Power(x, n)
          /\ Power(x, m) \in Int /\ Power(x, n) \in Int
        BY <2>0, PowerFacts
    <2>3. (m + n) + 1 = m + (n + 1)
        OBVIOUS
    <2>4. x * (Power(x, m) * Power(x, n)) = Power(x, m) * (x * Power(x, n))
        BY <2>2
    <2> QED BY <2>1, <2>2, <2>3, <2>4
<1> HIDE DEF T
<1>3. \A n \in Nat : n \in T
    BY <1>1, <1>2, Induct
<1> QED BY <1>3 DEF T

(* From one upward powers only grow. *)
LEMMA PowerOfOneUp ==
    ASSUME NEW x \in Int, x >= 1
    PROVE  /\ \A n \in Nat : Power(x, n) >= 1
           /\ \A n \in Nat : \A m \in 0..n : Power(x, m) <= Power(x, n)
<1> DEFINE T == {n \in Nat : Power(x, n) >= 1}
<1>1. 0 \in T
    BY PowerFacts
<1>2. ASSUME NEW n \in Nat, n \in T PROVE n + 1 \in T
    <2>1. Power(x, n + 1) = x * Power(x, n) /\ Power(x, n) \in Int /\ Power(x, n) >= 1
        BY <1>2, PowerFacts
    <2>2. x * Power(x, n) >= 1
        BY <2>1
    <2> QED BY <2>1, <2>2
<1> HIDE DEF T
<1>3. \A n \in Nat : n \in T
    BY <1>1, <1>2, Induct
<1>4. \A n \in Nat : Power(x, n) >= 1
    BY <1>3 DEF T
<1>5. ASSUME NEW n \in Nat, NEW m \in 0..n PROVE Power(x, m) <= Power(x, n)
    <2>1. m \in Nat /\ n - m \in Nat /\ m + (n - m) = n
        OBVIOUS
    <2>2. Power(x, m + (n - m)) = Power(x, m) * Power(x, n - m)
        BY <2>1, PowerSum
    <2>5. Power(x, m) \in Int /\ Power(x, n - m) \in Int
        BY <2>1, PowerFacts
    <2>3. Power(x, m) >= 1 /\ Power(x, n - m) >= 1
        BY <1>4, <2>1
    <2> HIDE DEF T
    <2>4. \A a, b \in Int : a >= 1 /\ b >= 1 => a <= a * b
        OBVIOUS
    <2> QED BY <2>1, <2>2, <2>3, <2>4, <2>5
<1> QED BY <1>4, <1>5

(* Zero and one stay among themselves. *)
LEMMA PowerOfZero ==
    ASSUME NEW n \in Nat
    PROVE  Power(0, n) \in {0, 1}
<1>1. CASE n = 0
    BY <1>1, PowerFacts
<1>2. CASE n # 0
    <2>1. n - 1 \in Nat /\ (n - 1) + 1 = n
        BY <1>2
    <2>2. Power(0, (n - 1) + 1) = 0 * Power(0, n - 1) /\ Power(0, n - 1) \in Int
        BY <2>1, PowerFacts
    <2>3. \A a \in Int : 0 * a = 0
        OBVIOUS
    <2> QED BY <2>1, <2>2, <2>3
<1> QED BY <1>1, <1>2

LEMMA PowerOfOne == \A n \in Nat : Power(1, n) = 1
<1> DEFINE T == {n \in Nat : Power(1, n) = 1}
<1>1. 0 \in T /\ \A n \in Nat : n \in T => n + 1 \in T
    BY PowerFacts
<1> HIDE DEF T
<1>2. \A n \in Nat : n \in T
    BY <1>1, Induct
<1> QED BY <1>2 DEF T

(* Even powers are not negative. *)
LEMMA EvenPower ==
    ASSUME NEW x \in Int, NEW n \in Nat, n % 2 = 0
    PROVE  Power(x, n) >= 0
<1>1. PICK m \in Nat : n = m + m
    <2>1. n \div 2 \in Nat /\ n = (n \div 2) + (n \div 2)
        OBVIOUS
    <2> QED BY <2>1
<1>2. Power(x, n) = Power(x, m) * Power(x, m) /\ Power(x, m) \in Int
    BY <1>1, PowerSum, PowerFacts
<1>3. \A a \in Int : a * a >= 0
    OBVIOUS
<1> QED BY <1>2, <1>3

Powers(x, n) == <<Power(x[1], n), Power(x[2], n)>>

(* Powers of a fraction. *)
LEMMA PowersAreFractions ==
    ASSUME NEW x \in Fraction, NEW n \in Nat
    PROVE  /\ Powers(x, n) \in Fraction
           /\ Powers(x, 0) = <<1, 1>>
           /\ Powers(x, 1) = x
           /\ \A m \in Nat : Powers(x, n + m) = <<Powers(x, n)[1] * Powers(x, m)[1], Powers(x, n)[2] * Powers(x, m)[2]>>
<1>1. x[1] \in Int /\ x[2] \in Int /\ x[2] > 0 /\ x = <<x[1], x[2]>>
    BY FractionParts
<1>2. Power(x[1], n) \in Int /\ Power(x[2], n) \in Int /\ Power(x[2], n) >= 1
    BY <1>1, PowerFacts, PowerOfOneUp
<1>3. Powers(x, n) \in Fraction
    BY <1>2 DEF Powers, Fraction
<1>4. Powers(x, 0) = <<1, 1>>
    BY <1>1, PowerFacts DEF Powers
<1>5. Power(x[1], 0 + 1) = x[1] * 1 /\ Power(x[2], 0 + 1) = x[2] * 1
    BY <1>1, PowerFacts
<1>6. Powers(x, 1) = x
    BY <1>1, <1>5 DEF Powers
<1>7. \A m \in Nat : Powers(x, n + m) = <<Powers(x, n)[1] * Powers(x, m)[1], Powers(x, n)[2] * Powers(x, m)[2]>>
    BY <1>1, PowerSum DEF Powers
<1> QED BY <1>3, <1>4, <1>6, <1>7

-------------------------------------------------------------------------------
(* Products of intervals are intervals, NaNs and all. *)
LEMMA MulIsAnInterval == \A i, j \in Ival : Mul(i, j) \in Ival
<1>1. \A n \in Int : Down(n, 1) \in Num
    <2>1. \A f \in Int : (IF f > M THEN M ELSE IF f < -M THEN MInf ELSE f) \in Num
        BY MAssumption DEF Num, NaN, MInf
    <2>2. \A n \in Int : n \div 1 \in Int
        OBVIOUS
    <2> QED BY <2>1, <2>2 DEF Down
<1>2. PInf \in Num /\ MInf \in Num /\ NaN \in Num /\ \A u \in Num : u \in Int
    BY MAssumption DEF Num, NaN, MInf, PInf
<1>3. ASSUME NEW a \in Num, NEW b \in Num PROVE MulDown(a, b) \in Num
    <2>1. a * b \in Int
        BY <1>2
    <2>2. Down(a * b, 1) \in Num
        BY <1>1, <2>1
    <2>3. MulDown(a, b) \in {NaN, Down(a * b, 1), SignedInf((a > 0) = (b > 0))}
        BY DEF MulDown
    <2> QED BY <1>2, <2>2, <2>3 DEF SignedInf
<1>4. ASSUME NEW a \in Num PROVE Minus(a) \in Num
    BY MAssumption DEF Minus, Num, NaN, MInf
<1>5. \A a, b \in Num : MulUp(a, b) \in Num
    BY <1>3, <1>4 DEF MulUp
<1>6. \A a, b, c, d \in Num : Min4(a, b, c, d) \in Num /\ Max4(a, b, c, d) \in Num
    <2>1. \A a, b \in Num : MinOf(a, b) \in Num /\ MaxOf(a, b) \in Num
        BY DEF MinOf, MaxOf
    <2> QED BY <2>1 DEF Min4, Max4
<1>7. ASSUME NEW i \in Ival, NEW j \in Ival PROVE Mul(i, j) \in Ival
    <2>1. i.lo \in Num /\ i.hi \in Num /\ j.lo \in Num /\ j.hi \in Num
        BY DEF Ival
    <2>2. Empty \in Ival
        BY <1>2 DEF Empty, Pair, Ival
    <2>3. Pair(Min4(MulDown(i.lo, j.lo), MulDown(i.lo, j.hi), MulDown(i.hi, j.lo), MulDown(i.hi, j.hi)),
               Max4(MulUp(i.lo, j.lo), MulUp(i.lo, j.hi), MulUp(i.hi, j.lo), MulUp(i.hi, j.hi))) \in Ival
        BY <1>3, <1>5, <1>6, <2>1 DEF Pair, Ival
    <2> QED BY <2>2, <2>3 DEF Mul
<1> QED BY <1>7

(* Whole, not empty, and no end farther from zero than m. *)
Sound(i, m) ==
    i \in Whole /\ i.lo <= i.hi /\ -m <= i.lo /\ i.lo <= m /\ -m <= i.hi /\ i.hi <= m

(* Small enough intervals multiply exactly. *)
LEMMA SoundProduct ==
    ASSUME NEW i, NEW j, NEW a \in 0..M, NEW b \in 0..M, Sound(i, a), Sound(j, b), a * b <= M
    PROVE  Sound(Mul(i, j), a * b) /\ Definite(i, j)
<1>1. /\ i \in Whole /\ j \in Whole
      /\ i.lo \in -M..M /\ i.hi \in -M..M /\ j.lo \in -M..M /\ j.hi \in -M..M
      /\ M \in Nat /\ a \in Nat /\ b \in Nat /\ a * b \in Nat /\ -(a * b) >= -M
    <2>1. /\ i \in Whole /\ j \in Whole /\ i.lo \in Int /\ i.hi \in Int /\ j.lo \in Int /\ j.hi \in Int
        BY MAssumption DEF Sound, Whole, Ordinary, Num, NaN, MInf
    <2>2. M \in Nat /\ a \in Nat /\ b \in Nat /\ a * b \in Nat
        BY MAssumption
    <2> QED BY <2>1, <2>2 DEF Sound
<1>2. Definite(i, j)
    BY <1>1, MAssumption DEF Definite, Ends, Infs, PInf, MInf
<1>3. \A e, f \in Int : -a <= e /\ e <= a /\ -b <= f /\ f <= b => -(a * b) <= e * f /\ e * f <= a * b
    <2> SUFFICES ASSUME NEW e \in Int, NEW f \in Int, -a <= e, e <= a, -b <= f, f <= b
                 PROVE  -(a * b) <= e * f /\ e * f <= a * b
        OBVIOUS
    <2>1. CASE e >= 0
        <3>1. e * f <= e * b /\ e * (-b) <= e * f /\ e * b <= a * b /\ e * (-b) = -(e * b)
            BY <1>1, <2>1
        <3>2. e * f \in Int /\ e * b \in Int /\ a * b \in Int
            BY <1>1
        <3> QED BY <3>1, <3>2
    <2>2. CASE e < 0
        <3>1. e * b <= e * f /\ e * f <= e * (-b) /\ (-a) * b <= e * b
            BY <1>1, <2>2
        <3>2. e * (-b) = -(e * b) /\ (-a) * b = -(a * b)
            BY <1>1
        <3>3. e * f \in Int /\ e * b \in Int /\ a * b \in Int
            BY <1>1
        <3> QED BY <3>1, <3>2, <3>3
    <2> QED BY <2>1, <2>2
<1>4. ASSUME NEW e \in {i.lo, i.hi}, NEW f \in {j.lo, j.hi}
      PROVE  /\ MulDown(e, f) = e * f /\ MulUp(e, f) = e * f /\ e * f \in Ordinary /\ e * f \in Int
             /\ -(a * b) <= e * f /\ e * f <= a * b
    <2>1. e \in Int /\ f \in Int /\ -a <= e /\ e <= a /\ -b <= f /\ f <= b /\ e \in -M..M /\ f \in -M..M
        BY <1>1 DEF Sound
    <2>2. -(a * b) <= e * f /\ e * f <= a * b /\ e * f \in Int
        BY <1>3, <2>1
    <2>3. e * f \in -M..M /\ -(e * f) \in -M..M
        BY <1>1, <2>2
    <2>4. \A n \in -M..M : Down(n, 1) = n
        <3>1. \A n \in -M..M : n \div 1 = n /\ ~(n > M) /\ ~(n < -M)
            BY MAssumption
        <3> QED BY <3>1 DEF Down
    <2>5. \A n \in -M..M : n \in Int /\ n # NaN /\ n # PInf /\ n # MInf /\ n \in Ordinary /\ -n \in -M..M
                           /\ n \notin Infs
        BY MAssumption DEF NaN, MInf, PInf, Ordinary, Num, Infs
    <2>6. MulDown(e, f) = e * f
        <3>1. MulDown(e, f) = Down(e * f, 1)
            BY <2>1, <2>5 DEF MulDown
        <3> QED BY <2>3, <2>4, <3>1
    <2>7. MulDown(-e, f) = -(e * f)
        <3>1. MulDown(-e, f) = Down((-e) * f, 1)
            BY <2>1, <2>5 DEF MulDown
        <3>2. (-e) * f = -(e * f)
            BY <2>1
        <3> QED BY <2>3, <2>4, <3>1, <3>2
    <2>8. MulUp(e, f) = e * f
        <3>1. Minus(e) = -e /\ Minus(-(e * f)) = -(-(e * f)) /\ -(-(e * f)) = e * f
            BY <2>1, <2>2, <2>3, <2>5 DEF Minus
        <3> QED BY <2>7, <3>1 DEF MulUp
    <2> QED BY <2>2, <2>3, <2>5, <2>6, <2>8
<1>5. ~IsEmpty(i) /\ ~IsEmpty(j)
    BY <1>1 DEF Sound, IsEmpty, Lt
<1> DEFINE low == Min4(i.lo * j.lo, i.lo * j.hi, i.hi * j.lo, i.hi * j.hi)
           high == Max4(i.lo * j.lo, i.lo * j.hi, i.hi * j.lo, i.hi * j.hi)
<1>6. Mul(i, j) = Pair(low, high)
    <2>1. /\ MulDown(i.lo, j.lo) = i.lo * j.lo /\ MulUp(i.lo, j.lo) = i.lo * j.lo
          /\ MulDown(i.lo, j.hi) = i.lo * j.hi /\ MulUp(i.lo, j.hi) = i.lo * j.hi
          /\ MulDown(i.hi, j.lo) = i.hi * j.lo /\ MulUp(i.hi, j.lo) = i.hi * j.lo
          /\ MulDown(i.hi, j.hi) = i.hi * j.hi /\ MulUp(i.hi, j.hi) = i.hi * j.hi
        BY <1>4
    <2> QED BY <1>5, <2>1 DEF Mul
<1>7. PICK c1, c2, c3, c4 : /\ c1 = i.lo * j.lo /\ c2 = i.lo * j.hi /\ c3 = i.hi * j.lo /\ c4 = i.hi * j.hi
    OBVIOUS
<1>8. \A c \in {c1, c2, c3, c4} : c \in Ordinary /\ c \in Int /\ -(a * b) <= c /\ c <= a * b
    BY <1>4, <1>7
<1>9. /\ low \in Ordinary /\ low <= c1 /\ high \in Ordinary /\ high >= c1
      /\ low \in {c1, c2, c3, c4} /\ high \in {c1, c2, c3, c4}
    <2>1. low = Min4(c1, c2, c3, c4) /\ high = Max4(c1, c2, c3, c4)
        BY <1>7
    <2>2. \A u, v \in Ordinary : MinOf(u, v) \in {u, v} /\ MaxOf(u, v) \in {u, v}
        BY LesserAndGreater
    <2>3. Min4(c1, c2, c3, c4) \in {c1, c2, c3, c4} /\ Max4(c1, c2, c3, c4) \in {c1, c2, c3, c4}
        BY <1>8, <2>2 DEF Min4, Max4
    <2>4. c1 \in Ordinary /\ c2 \in Ordinary /\ c3 \in Ordinary /\ c4 \in Ordinary
        BY <1>8
    <2> HIDE DEF low, high
    <2> QED BY <2>1, <2>3, <2>4, LeastOfFour
<1> HIDE DEF low, high
<1>10. low <= high /\ -(a * b) <= low /\ low <= a * b /\ -(a * b) <= high /\ high <= a * b
    BY <1>8, <1>9
<1> QED BY <1>2, <1>6, <1>9, <1>10 DEF Sound, Pair, Whole

-------------------------------------------------------------------------------
(* The powers of g up to the n-th are finite numbers. *)
Room(g, n) == g \in 0..M /\ \A w \in 0..n : Power(g, w) \in 0..M

(* After k turns of the loop: r holds the u-th power, base the v-th, and e  *)
(* more of base make the n-th.                                              *)
LoopInv(a, g, n, k, s) ==
    /\ s.e \in Nat /\ (s.e = 0 \/ s.e + k <= n)
    /\ \E u, v \in Nat :
        /\ u + v * s.e = n
        /\ Power(g, u) \in 0..M /\ Power(g, v) \in 0..M
        /\ Sound(s.r, Power(g, u)) /\ Sound(s.base, Power(g, v))
        /\ \A x \in Fraction : Within(x, a) =>
               Within(Powers(x, u), s.r) /\ Within(Powers(x, v), s.base)

LEMMA SoundIsWhole == \A i, m : Sound(i, m) => i \in Whole
BY DEF Sound

(* Two powers multiplied, when the product has room. *)
LEMMA SoundPower ==
    ASSUME NEW i, NEW j, NEW g \in Nat, NEW u \in Nat, NEW v \in Nat,
           Power(g, u) \in 0..M, Power(g, v) \in 0..M, Power(g, u + v) \in 0..M,
           Sound(i, Power(g, u)), Sound(j, Power(g, v))
    PROVE  /\ Sound(Mul(i, j), Power(g, u + v))
           /\ \A x \in Fraction : Within(Powers(x, u), i) /\ Within(Powers(x, v), j)
                => Within(Powers(x, u + v), Mul(i, j))
<1>1. Power(g, u + v) = Power(g, u) * Power(g, v)
    BY PowerSum
<1>2. Power(g, u) * Power(g, v) <= M
    BY <1>1
<1>3. Sound(Mul(i, j), Power(g, u + v)) /\ Definite(i, j)
    BY <1>1, <1>2, SoundProduct
<1>4. i \in Whole /\ j \in Whole
    BY DEF Sound
<1>5. ASSUME NEW x \in Fraction, Within(Powers(x, u), i), Within(Powers(x, v), j)
      PROVE  Within(Powers(x, u + v), Mul(i, j))
    <2>1. Powers(x, u) \in Fraction /\ Powers(x, v) \in Fraction
        BY PowersAreFractions
    <2>2. Powers(x, u + v) = <<Powers(x, u)[1] * Powers(x, v)[1], Powers(x, u)[2] * Powers(x, v)[2]>>
        BY PowersAreFractions
    <2> QED BY <1>3, <1>4, <1>5, <2>1, <2>2, MulEncloses
<1> QED BY <1>3, <1>5

(* A turn of the loop keeps the invariant. *)
LEMMA TurnKeeps ==
    ASSUME NEW a, NEW g \in Nat, NEW n \in Nat, Room(g, n), NEW k \in Nat, NEW s, LoopInv(a, g, n, k, s)
    PROVE  LoopInv(a, g, n, k + 1, PowTurn(s))
<1>1. PICK u \in Nat, v \in Nat :
        /\ u + v * s.e = n
        /\ Power(g, u) \in 0..M /\ Power(g, v) \in 0..M
        /\ Sound(s.r, Power(g, u)) /\ Sound(s.base, Power(g, v))
        /\ \A x \in Fraction : Within(x, a) =>
               Within(Powers(x, u), s.r) /\ Within(Powers(x, v), s.base)
    BY DEF LoopInv
<1>2. s.e \in Nat /\ (s.e = 0 \/ s.e + k <= n)
    BY DEF LoopInv
<1>3. CASE s.e = 0
    <2>1. PowTurn(s) = s
        BY <1>3 DEF PowTurn
    <2> QED BY <1>1, <1>2, <1>3, <2>1 DEF LoopInv
<1>4. CASE s.e # 0
    <2> DEFINE t == PowTurn(s)
               uu == IF s.e % 2 = 1 THEN u + v ELSE u
               vv == IF s.e > 1 THEN v + v ELSE v
    <2>1. /\ t.r = IF s.e % 2 = 1 THEN Mul(s.r, s.base) ELSE s.r
          /\ t.base = IF s.e > 1 THEN Mul(s.base, s.base) ELSE s.base
          /\ t.e = s.e \div 2
        BY <1>4 DEF PowTurn
    <2>2. s.e \div 2 \in Nat /\ s.e \div 2 < s.e /\ s.e = 2 * (s.e \div 2) + (s.e % 2) /\ s.e % 2 \in {0, 1}
        <3>1. \A e \in Nat : e # 0 => /\ e \div 2 \in Nat /\ e \div 2 < e
                                       /\ e = 2 * (e \div 2) + (e % 2) /\ e % 2 \in {0, 1}
            OBVIOUS
        <3> QED BY <1>2, <1>4, <3>1
    <2>3. t.e \in Nat /\ (t.e = 0 \/ t.e + (k + 1) <= n)
        BY <1>2, <1>4, <2>1, <2>2
    <2>4. v <= v * s.e /\ (s.e > 1 => v + v <= v * s.e) /\ v * s.e \in Nat
        <3>1. \A e \in Nat : e # 0 => v <= v * e /\ (e > 1 => v + v <= v * e) /\ v * e \in Nat
            OBVIOUS
        <3> QED BY <1>2, <1>4, <3>1
    <2>5. u + v \in 0..n /\ (s.e > 1 => v + v \in 0..n)
        BY <1>1, <2>4
    <2>6. uu \in Nat /\ vv \in Nat /\ uu + vv * t.e = n
        <3> DEFINE h == s.e \div 2
        <3>1. h \in Nat /\ t.e = h
            BY <2>1, <2>2
        <3>2. CASE s.e % 2 = 1 /\ s.e > 1
            <4>1. s.e = 2 * h + 1
                BY <1>2, <2>2, <3>2
            <4> HIDE DEF h
            <4>2. v * (2 * h + 1) = v + (v + v) * h /\ (v + v) * h \in Int
                BY <3>1
            <4> QED BY <1>1, <3>1, <3>2, <4>1, <4>2
        <3>3. CASE s.e % 2 = 0
            <4>1. s.e = 2 * h /\ s.e > 1
                BY <2>2, <1>4, <3>3, <1>2
            <4> HIDE DEF h
            <4>2. v * (2 * h) = (v + v) * h
                BY <3>1
            <4> QED BY <1>1, <3>1, <3>3, <4>1, <4>2
        <3>4. CASE s.e % 2 = 1 /\ ~(s.e > 1)
            <4>1. s.e = 1 /\ h = 0
                BY <1>2, <1>4, <2>2, <3>4
            <4> QED BY <1>1, <3>1, <3>4, <4>1
        <3> QED BY <2>2, <3>2, <3>3, <3>4
    <2>7. Power(g, u + v) \in 0..M /\ (s.e > 1 => Power(g, v + v) \in 0..M)
        BY <2>5 DEF Room
    <2>8. /\ Sound(Mul(s.r, s.base), Power(g, u + v))
          /\ \A x \in Fraction : Within(x, a) => Within(Powers(x, u + v), Mul(s.r, s.base))
        BY <1>1, <2>7, SoundPower
    <2>9. s.e > 1 => /\ Sound(Mul(s.base, s.base), Power(g, v + v))
                     /\ \A x \in Fraction : Within(x, a) => Within(Powers(x, v + v), Mul(s.base, s.base))
        BY <1>1, <2>7, SoundPower
    <2> HIDE DEF t
    <2>10. /\ Power(g, uu) \in 0..M /\ Sound(t.r, Power(g, uu))
           /\ \A x \in Fraction : Within(x, a) => Within(Powers(x, uu), t.r)
        BY <1>1, <2>1, <2>7, <2>8
    <2>11. /\ Power(g, vv) \in 0..M /\ Sound(t.base, Power(g, vv))
           /\ \A x \in Fraction : Within(x, a) => Within(Powers(x, vv), t.base)
        BY <1>1, <2>1, <2>7, <2>9
    <2> HIDE DEF uu, vv
    <2>12. LoopInv(a, g, n, k + 1, t)
        BY <2>3, <2>6, <2>10, <2>11 DEF LoopInv
    <2> QED BY <2>12 DEF t
<1> QED BY <1>3, <1>4

LEMMA WholeIsAnInterval == \A i \in Whole : i \in Ival
BY DEF Whole, Ival, Ordinary

(* The interval the loop starts from. *)
LEMMA PointOne == /\ Sound(Point(1), 1) /\ Point(1) \in Whole /\ Ends(Point(1)) \cap Infs = {}
                  /\ Within(<<1, 1>>, Point(1)) /\ <<1, 1>> \in Fraction
<1>1. 1 \in Ordinary /\ 1 \in -M..M /\ 1 \notin Infs
    BY MAssumption DEF Ordinary, Num, NaN, MInf, PInf, Infs
<1>2. Point(1) \in Whole /\ Sound(Point(1), 1)
    BY <1>1 DEF Point, Pair, Whole, Sound
<1>3. Ends(Point(1)) \cap Infs = {}
    BY <1>1 DEF Ends, Point, Pair
<1>4. Within(<<1, 1>>, Point(1)) /\ <<1, 1>> \in Fraction
    BY <1>1 DEF Within, AtLeast, AtMost, Point, Pair, Fraction
<1> QED BY <1>2, <1>3, <1>4

(* The loop of ipow() encloses the power, the even case included. *)
LEMMA PowNatEncloses ==
    ASSUME NEW a \in Whole, NEW n \in Nat, NEW g \in Nat, Sound(a, g), Room(g, n)
    PROVE  /\ PowNat(a, n) \in Whole
           /\ \A x \in Fraction : Within(x, a) => Within(Powers(x, n), PowNat(a, n))
<1> DEFINE start == [r |-> Point(1), base |-> a, e |-> n]
           turn[k \in Nat] == IF k = 0 THEN start ELSE PowTurn(turn[k - 1])
           States == [r : Ival, base : Ival, e : Nat]
           h == [s \in States |-> PowTurn(s)]
<1>1. start \in States /\ h \in [States -> States]
    <2>1. start \in States
        BY PointOne, WholeIsAnInterval
    <2>2. ASSUME NEW s \in States PROVE PowTurn(s) \in States
        <3>1. s.e \div 2 \in Nat /\ Mul(s.r, s.base) \in Ival /\ Mul(s.base, s.base) \in Ival
            BY MulIsAnInterval
        <3> QED BY <3>1 DEF PowTurn
    <2> QED BY <2>1, <2>2
<1> HIDE DEF start, States, h
<1>2. PICK f \in [Nat -> States] : Repeats(f, start, h)
    BY <1>1, Iteration
<1>3. f[0] = start /\ \A k \in Nat : f[k + 1] = PowTurn(f[k])
    <2>1. f[0] = start /\ \A k \in Nat : f[k + 1] = h[f[k]]
        BY <1>2 DEF Repeats
    <2>2. \A k \in Nat : f[k] \in States
        OBVIOUS
    <2> QED BY <2>1, <2>2 DEF h
<1>4. f = [k \in Nat |-> IF k = 0 THEN start ELSE PowTurn(f[k - 1])]
    <2>1. ASSUME NEW k \in Nat PROVE f[k] = IF k = 0 THEN start ELSE PowTurn(f[k - 1])
        <3>1. CASE k = 0
            BY <1>3, <3>1
        <3>2. CASE k # 0
            <4>1. k - 1 \in Nat /\ (k - 1) + 1 = k
                BY <3>2
            <4> QED BY <1>3, <3>2, <4>1
        <3> QED BY <3>1, <3>2
    <2> QED BY <1>2, <2>1
<1>5. turn = CHOOSE ff : ff = [k \in Nat |-> IF k = 0 THEN start ELSE PowTurn(ff[k - 1])]
    BY DEF turn
<1>6. LET r == turn[n].r
      IN  PowNat(a, n) = IF n > 0 /\ n % 2 = 0 /\ Lt(a.lo, 0) /\ Lt(0, a.hi) THEN [r EXCEPT !.lo = 0] ELSE r
    BY DEF PowNat, turn, start
<1> HIDE DEF turn
<1>7. turn = [k \in Nat |-> IF k = 0 THEN start ELSE PowTurn(turn[k - 1])]
    BY <1>4, <1>5
<1>8. turn[0] = start /\ \A k \in Nat : turn[k + 1] = PowTurn(turn[k])
    <2>1. ASSUME NEW k \in Nat PROVE turn[k + 1] = PowTurn(turn[k])
        <3>1. k + 1 \in Nat /\ k + 1 # 0 /\ (k + 1) - 1 = k
            OBVIOUS
        <3> QED BY <1>7, <3>1
    <2> QED BY <1>7, <2>1
<1> DEFINE T == {k \in Nat : LoopInv(a, g, n, k, turn[k])}
<1>9. 0 \in T
    <2>1. Power(g, 0) = 1 /\ Power(g, 1) = g
        <3>1. Power(g, 0 + 1) = g * 1 /\ Power(g, 0) = 1
            BY PowerFacts
        <3> QED BY <3>1
    <2>2. \A x \in Fraction : Within(x, a) =>
               Within(Powers(x, 0), Point(1)) /\ Within(Powers(x, 1), a)
        BY PowersAreFractions, PointOne
    <2>3. start.r = Point(1) /\ start.base = a /\ start.e = n
        BY DEF start
    <2>4. 0 + 1 * n = n /\ n + 0 <= n /\ 0 \in Nat /\ 1 \in Nat /\ 1 \in 0..M
        BY MAssumption
    <2>5. g \in 0..M
        BY DEF Room
    <2> DEFINE zero == 0
               one == 1
    <2>6. /\ zero \in Nat /\ one \in Nat /\ zero + one * n = n
          /\ Power(g, zero) \in 0..M /\ Power(g, one) \in 0..M
          /\ Sound(Point(1), Power(g, zero)) /\ Sound(a, Power(g, one))
          /\ \A x \in Fraction : Within(x, a) =>
               Within(Powers(x, zero), Point(1)) /\ Within(Powers(x, one), a)
        BY <2>1, <2>2, <2>4, <2>5, PointOne
    <2> HIDE DEF zero, one
    <2>7. LoopInv(a, g, n, 0, start)
        BY <2>3, <2>4, <2>6 DEF LoopInv
    <2> QED BY <1>8, <2>7
<1>10. ASSUME NEW k \in Nat, k \in T PROVE k + 1 \in T
    BY <1>8, <1>10, TurnKeeps
<1> HIDE DEF T
<1>11. n \in T
    BY <1>9, <1>10, Induct
<1>12. PICK u \in Nat, v \in Nat :
        /\ u + v * turn[n].e = n
        /\ Sound(turn[n].r, Power(g, u))
        /\ \A x \in Fraction : Within(x, a) => Within(Powers(x, u), turn[n].r)
    BY <1>11 DEF T, LoopInv
<1>13. turn[n].e = 0
    BY <1>11 DEF T, LoopInv
<1>14. u = n
    BY <1>12, <1>13
<1>15. PICK r : r = turn[n].r
    OBVIOUS
<1>16. r \in Whole /\ \A x \in Fraction : Within(x, a) => Within(Powers(x, n), r)
    BY <1>12, <1>14, <1>15, SoundIsWhole
<1>17. CASE ~(n > 0 /\ n % 2 = 0 /\ Lt(a.lo, 0) /\ Lt(0, a.hi))
    BY <1>6, <1>15, <1>16, <1>17
<1>18. CASE n > 0 /\ n % 2 = 0 /\ Lt(a.lo, 0) /\ Lt(0, a.hi)
    <2>1. PowNat(a, n) = [r EXCEPT !.lo = 0]
        BY <1>6, <1>15, <1>18
    <2>2. PowNat(a, n) \in Whole /\ PowNat(a, n).lo = 0 /\ PowNat(a, n).hi = r.hi
        BY <1>16, <2>1, MAssumption DEF Whole, Ordinary, Num, NaN, MInf, PInf
    <2>3. ASSUME NEW x \in Fraction PROVE AtLeast(Powers(x, n), 0)
        <3>1. Power(x[1], n) >= 0 /\ Power(x[1], n) \in Int /\ Power(x[2], n) \in Int
            BY <1>18, EvenPower, PowerFacts, FractionParts
        <3> QED BY <3>1, MAssumption DEF AtLeast, Powers
    <2> QED BY <1>16, <2>2, <2>3 DEF Within
<1> QED BY <1>17, <1>18

-------------------------------------------------------------------------------
(* Absolute values of ends. *)
LEMMA FabsOf ==
    ASSUME NEW u \in Ordinary
    PROVE  /\ Fabs(u) = (IF u < 0 THEN -u ELSE u) /\ Fabs(u) \in Nat
           /\ Fabs(u) \notin Infs => Fabs(u) \in 0..M
BY MAssumption DEF Fabs, Lt, Ordinary, Num, NaN, MInf, PInf, Infs

(* A base that fits leaves room for every power up to the one asked. *)
LEMMA FitsGivesRoom ==
    ASSUME NEW x \in Nat, NEW n \in Nat, Fits(x, n), x \notin Infs => x \in 0..M
    PROVE  Room(x, n)
<1>1. CASE x = 0
    <2>1. \A w \in 0..n : w \in Nat
        OBVIOUS
    <2>2. \A w \in 0..n : Power(0, w) \in {0, 1}
        BY <2>1, PowerOfZero
    <2> QED BY <1>1, <2>2, MAssumption DEF Room
<1>2. CASE x = 1
    <2>1. \A w \in 0..n : w \in Nat
        OBVIOUS
    <2>2. \A w \in 0..n : Power(1, w) = 1
        BY <2>1, PowerOfOne
    <2> QED BY <1>2, <2>2, MAssumption DEF Room
<1>3. CASE x \notin {0, 1}
    <2>1. x \in 0..M /\ Power(x, n) <= M /\ x >= 1
        BY <1>3 DEF Fits
    <2>2. ASSUME NEW w \in 0..n PROVE Power(x, w) \in 0..M
        <3>1. w \in Nat /\ Power(x, w) \in Int /\ Power(x, n) \in Int
            BY PowerFacts
        <3>2. 1 <= Power(x, w) /\ Power(x, w) <= Power(x, n)
            <4>1. \A m \in Nat : Power(x, m) >= 1
                BY <2>1, PowerOfOneUp
            <4>2. \A m \in Nat : \A k \in 0..m : Power(x, k) <= Power(x, m)
                BY <2>1, PowerOfOneUp
            <4> QED BY <3>1, <4>1, <4>2
        <3> QED BY <2>1, <3>1, <3>2, MAssumption
    <2> QED BY <2>1, <2>2 DEF Room
<1> QED BY <1>1, <1>2, <1>3

LEMMA EndsGiveRoom ==
    ASSUME NEW a \in Whole, ~IsEmpty(a), NEW n \in Nat, \A e \in Ends(a) : Fits(Fabs(e), n)
    PROVE  \E g \in Nat : Sound(a, g) /\ Room(g, n)
<1>1. a.lo \in Ordinary /\ a.hi \in Ordinary /\ a.lo \in Int /\ a.hi \in Int /\ a.lo <= a.hi
    <2>1. a.lo \in Ordinary /\ a.hi \in Ordinary
        BY DEF Whole
    <2>2. a.lo \in Int /\ a.hi \in Int /\ a.lo # NaN /\ a.hi # NaN
        BY <2>1, MAssumption DEF Ordinary, Num, NaN, MInf
    <2> QED BY <2>1, <2>2 DEF IsEmpty, Lt
<1>2. Room(Fabs(a.lo), n) /\ Room(Fabs(a.hi), n)
    BY <1>1, FabsOf, FitsGivesRoom DEF Ends
<1>3. PICK l, h : l = Fabs(a.lo) /\ h = Fabs(a.hi)
    OBVIOUS
<1>4. l \in Nat /\ h \in Nat /\ l = (IF a.lo < 0 THEN -a.lo ELSE a.lo) /\ h = (IF a.hi < 0 THEN -a.hi ELSE a.hi)
    BY <1>1, <1>3, FabsOf
<1>5. CASE l <= h
    <2>1. Sound(a, h)
        BY <1>1, <1>4, <1>5 DEF Sound
    <2> QED BY <1>2, <1>3, <1>4, <2>1
<1>6. CASE ~(l <= h)
    <2>1. Sound(a, l)
        BY <1>1, <1>4, <1>6 DEF Sound
    <2> QED BY <1>2, <1>3, <1>4, <2>1
<1> QED BY <1>5, <1>6

(* ipow() encloses the power, negative exponents included. *)
LEMMA IPowEncloses ==
    ASSUME NEW a \in Whole, NEW n \in -M..M, ~IsEmpty(a), \A e \in Ends(a) : Fits(Fabs(e), Fabs(n))
    PROVE  /\ IPow(a, n) \in Whole
           /\ n >= 0 => \A x \in Fraction : Within(x, a) => Within(Powers(x, n), IPow(a, n))
           /\ n < 0 => \A x \in Fraction : Within(x, a) /\ Powers(x, -n)[1] # 0
                           => Within(Quotient(<<1, 1>>, Powers(x, -n)), IPow(a, n))
<1>1. n \in Int /\ n \in Ordinary
    BY MAssumption DEF Ordinary, Num, NaN, MInf, PInf
<1>2. Fabs(n) = IF n < 0 THEN -n ELSE n
    BY <1>1, FabsOf
<1>3. CASE n >= 0
    <2>1. n \in Nat /\ Fabs(n) = n
        BY <1>1, <1>2, <1>3
    <2>2. PICK g \in Nat : Sound(a, g) /\ Room(g, n)
        BY <2>1, EndsGiveRoom
    <2>3. IPow(a, n) = PowNat(a, n)
        BY <1>3 DEF IPow
    <2>4. ~(n < 0)
        BY <2>1
    <2> QED BY <2>1, <2>2, <2>3, <2>4, PowNatEncloses
<1>4. CASE n < 0
    <2>1. -n \in Nat /\ Fabs(n) = -n /\ ~(n >= 0)
        BY <1>1, <1>2, <1>4
    <2>2. PICK m \in Nat : m = -n
        BY <2>1
    <2>3. PICK g \in Nat : Sound(a, g) /\ Room(g, m)
        BY <2>1, <2>2, EndsGiveRoom
    <2>4. IPow(a, n) = Div(Point(1), PowNat(a, m))
        BY <2>1, <2>2 DEF IPow
    <2>5. PowNat(a, m) \in Whole /\ \A x \in Fraction : Within(x, a) => Within(Powers(x, m), PowNat(a, m))
        BY <2>3, PowNatEncloses
    <2>6. /\ IPow(a, n) \in Whole
          /\ \A x, y \in Fraction : Within(x, Point(1)) /\ Within(y, PowNat(a, m)) /\ y[1] # 0
                => Within(Quotient(x, y), IPow(a, n))
        BY <2>4, <2>5, DivEncloses, PointOne
    <2>7. ASSUME NEW x \in Fraction, Within(x, a), Powers(x, m)[1] # 0
          PROVE  Within(Quotient(<<1, 1>>, Powers(x, m)), IPow(a, n))
        <3>1. Powers(x, m) \in Fraction /\ Within(Powers(x, m), PowNat(a, m))
            BY <2>5, <2>7, PowersAreFractions
        <3> QED BY <2>6, <2>7, <3>1, PointOne
    <2> QED BY <2>1, <2>2, <2>6, <2>7
<1> QED BY <1>1, <1>3, <1>4

(* pow() of libm and the slack of an infinite exponent give no NaN. *)
LEMMA LibmIsOrdinary ==
    ASSUME NEW x \in Ordinary, NEW p \in Infs
    PROVE  LibmPow(x, p) \in Ordinary
<1>1. x # NaN /\ p # NaN /\ 1 \in Ordinary /\ 0 \in Ordinary /\ PInf \in Ordinary
    BY MAssumption DEF Ordinary, Num, NaN, MInf, PInf, Infs
<1> QED BY <1>1 DEF LibmPow

LEMMA SlackIsOrdinary == \A x \in Ordinary : SlackDown(x) \in Ordinary /\ SlackUp(x) \in Ordinary
<1>1. \A x \in Ordinary : SlackDown(x) \in Ordinary
    BY MAssumption DEF SlackDown, Ordinary, Num, NaN, MInf, PInf, Infs
<1> QED BY <1>1, MinusOrdinary DEF SlackUp

(* A tracked power is exactly the power, or its inverse. *)
LEMMA RealPowIsExact ==
    ASSUME NEW x \in Fraction, NEW y \in Fraction, NEW n \in -M..M,
           y[1] = n * y[2], Known(RealPow(x, y))
    PROVE  /\ RealPow(x, y) \in Fraction
           /\ n >= 0 => RealPow(x, y) = Powers(x, n)
           /\ n < 0 => Powers(x, -n)[1] # 0 /\ RealPow(x, y) = Quotient(<<1, 1>>, Powers(x, -n))
<1>1. n \in Int /\ y[1] \in Int /\ y[2] \in Int /\ y[2] > 0 /\ M \in Nat
      /\ x[1] \in Int /\ x[2] \in Int /\ x[2] > 0
    BY FractionParts, MAssumption
<1>2. y[1] \div y[2] = n /\ y[1] % y[2] = 0
    <2>1. \A q \in Int : q > 0 => (n * q) \div q = n /\ (n * q) % q = 0
        OBVIOUS
    <2> QED BY <1>1, <2>1
<1>3. RealPow(x, y) = IF n = 0 THEN <<1, 1>>
                      ELSE IF x[1] > 9 \/ x[1] < -9 \/ x[2] > 9 THEN Unknown
                      ELSE IF n > 0 THEN Frac(Power(x[1], n), Power(x[2], n))
                      ELSE Frac(Power(x[2], -n), Power(x[1], -n))
    <2>1. ~(y[1] % y[2] # 0 \/ n > M \/ n < -M)
        BY <1>1, <1>2
    <2> QED BY <1>2, <2>1 DEF RealPow
<1>4. CASE n = 0
    <2>1. RealPow(x, y) = <<1, 1>> /\ Powers(x, n) = <<1, 1>>
        BY <1>3, <1>4, PowersAreFractions
    <2> QED BY <1>4, <2>1, PointOne
<1>5. CASE n > 0
    <2>1. RealPow(x, y) = Frac(Power(x[1], n), Power(x[2], n))
        BY <1>1, <1>3, <1>5 DEF Known
    <2>2. n \in Nat
        BY <1>1, <1>5
    <2>3. Power(x[1], n) \in Int /\ Power(x[2], n) \in Int /\ Power(x[2], n) >= 1
        <3>1. x[2] >= 1
            BY <1>1
        <3>2. \A m \in Nat : Power(x[2], m) >= 1
            BY <1>1, <3>1, PowerOfOneUp
        <3> QED BY <1>1, <2>2, <3>2, PowerFacts
    <2> QED BY <1>5, <2>1, <2>3, FracIsExact DEF Powers
<1>6. CASE n < 0
    <2>1. RealPow(x, y) = Frac(Power(x[2], -n), Power(x[1], -n))
        BY <1>1, <1>3, <1>6 DEF Known
    <2>2. PICK m \in Nat : m = -n
        BY <1>1, <1>6
    <2>3. Power(x[1], m) \in Int /\ Power(x[2], m) \in Int
        BY <1>1, <2>2, PowerFacts
    <2>4. PICK p, q : p = Power(x[2], m) /\ q = Power(x[1], m)
        OBVIOUS
    <2>5. RealPow(x, y) = Frac(p, q) /\ Powers(x, m) = <<q, p>> /\ p \in Int /\ q \in Int
        BY <2>1, <2>2, <2>3, <2>4 DEF Powers
    <2>6. /\ Frac(p, q) \in Fraction /\ q # 0
          /\ q > 0 => Frac(p, q) = <<p, q>>
          /\ q < 0 => Frac(p, q) = <<-p, -q>>
        BY <2>5, FracIsExact
    <2>7. Quotient(<<1, 1>>, <<q, p>>) = IF q > 0 THEN <<p, q>> ELSE <<-p, -q>>
        BY <2>5 DEF Quotient
    <2>8. Quotient(<<1, 1>>, <<q, p>>) = Frac(p, q)
        BY <2>5, <2>6, <2>7
    <2> QED BY <1>1, <1>6, <2>2, <2>5, <2>6, <2>8
<1> QED BY <1>1, <1>4, <1>5, <1>6

(* rpow() encloses the power of a constant exponent. *)
LEMMA PowEncloses ==
    ASSUME NEW a \in Whole, NEW b \in Whole, ~Indefinite("pow", a, b)
    PROVE  /\ Apply2("pow", a, b) \in Whole
           /\ \A x, y \in Fraction : Within(x, a) /\ Within(y, b) /\ Known(RealPow(x, y))
                => RealPow(x, y) \in Fraction /\ Within(RealPow(x, y), Apply2("pow", a, b))
<1>1. b.lo = b.hi /\ \A e \in Ends(a) : Fits(Fabs(e), Fabs(b.lo))
    BY DEF Indefinite
<1>2. Apply2("pow", a, b) = RPow(a, b.lo)
    BY DEF Apply2
<1>3. PICK n : n = b.lo
    OBVIOUS
<1>4. n \in Ordinary /\ n # NaN
    BY <1>3 DEF Whole, Ordinary
<1>5. CASE IsEmpty(a)
    BY <1>2, <1>5, InsideIsNotEmpty DEF RPow
<1>6. CASE ~IsEmpty(a) /\ n \in Infs
    <2>1. RPow(a, n) \in Whole
        <3>1. a.lo \in Ordinary /\ a.hi \in Ordinary /\ 0 \in Ordinary
            BY MAssumption DEF Whole, Ordinary, Num, NaN, MInf, PInf
        <3>2. LibmPow(MaxOf(a.lo, 0), n) \in Ordinary /\ LibmPow(MaxOf(a.hi, 0), n) \in Ordinary
            BY <1>6, <3>1, LesserAndGreater, LibmIsOrdinary
        <3>3. PICK fl, fh : fl = LibmPow(MaxOf(a.lo, 0), n) /\ fh = LibmPow(MaxOf(a.hi, 0), n)
            OBVIOUS
        <3>4. SlackDown(MinOf(fl, fh)) \in Ordinary /\ SlackUp(MaxOf(fl, fh)) \in Ordinary
            BY <3>2, <3>3, LesserAndGreater, SlackIsOrdinary
        <3>5. RPow(a, n) = IF Lt(a.hi, 0) THEN Empty ELSE Pair(SlackDown(MinOf(fl, fh)), SlackUp(MaxOf(fl, fh)))
            BY <1>6, <3>3 DEF RPow
        <3> QED BY <3>4, <3>5, EmptyIsWhole DEF Pair, Whole
    <2>2. ASSUME NEW y \in Fraction, Within(y, b) PROVE FALSE
        BY <1>1, <1>3, <1>6, <2>2, MAssumption DEF Within, AtLeast, AtMost, Infs, PInf, MInf
    <2> QED BY <1>2, <1>3, <2>1, <2>2
<1>7. CASE ~IsEmpty(a) /\ n \notin Infs
    <2>1. n \in -M..M
        BY <1>4, <1>7, MAssumption DEF Ordinary, Num, NaN, MInf, PInf, Infs
    <2>2. RPow(a, n) = IPow(a, n)
        BY <1>4, <1>7 DEF RPow
    <2>3. /\ IPow(a, n) \in Whole
          /\ n >= 0 => \A x \in Fraction : Within(x, a) => Within(Powers(x, n), IPow(a, n))
          /\ n < 0 => \A x \in Fraction : Within(x, a) /\ Powers(x, -n)[1] # 0
                           => Within(Quotient(<<1, 1>>, Powers(x, -n)), IPow(a, n))
        BY <1>1, <1>3, <1>7, <2>1, IPowEncloses
    <2>4. ASSUME NEW x \in Fraction, NEW y \in Fraction, Within(x, a), Within(y, b), Known(RealPow(x, y))
          PROVE  RealPow(x, y) \in Fraction /\ Within(RealPow(x, y), IPow(a, n))
        <3>1. y[1] \in Int /\ y[2] \in Int /\ n \in Int
            BY <2>1, FractionParts
        <3>2. AtLeast(y, n) /\ AtMost(y, n) /\ n # PInf /\ n # MInf
            BY <1>1, <1>3, <1>7, <2>4 DEF Within, Infs
        <3>3. y[1] = n * y[2]
            <4>1. n * y[2] <= y[1] /\ y[1] <= n * y[2] /\ n * y[2] \in Int
                BY <3>1, <3>2 DEF AtLeast, AtMost
            <4> QED BY <3>1, <4>1
        <3>4. n >= 0 \/ n < 0
            BY <3>1
        <3> QED BY <2>1, <2>3, <2>4, <3>3, <3>4, RealPowIsExact
    <2> QED BY <1>2, <1>3, <2>2, <2>3, <2>4
<1> QED BY <1>5, <1>6, <1>7

-------------------------------------------------------------------------------
(* The certificate is the one build_cert makes of some interval and some    *)
(* residual, and the priority is one the same two give.                     *)
CertificateOf(i, r) == [ival |-> i, residual |-> r, verdict |-> Decide(i, r)]
CertInv ==
    \/ cert = <<>>
    \/ \E i, r : cert = <<CertificateOf(i, r)>> /\ priority \in Priorities(i, r)

LEMMA CertInvInit == EInit => CertInv
BY DEF EInit, CertInv

LEMMA VisitKeeps ==
    ASSUME NEW rest, NEW i, NEW x, CertInv, Visit(rest, i, x)
    PROVE  CertInv'
BY DEF CertInv, Visit

LEMMA CertInvStep == CertInv /\ [Next]_evars => CertInv'
<1> SUFFICES ASSUME CertInv, [Next]_evars PROVE CertInv'
    OBVIOUS
<1>1. CASE \E c \in Consts : VisitConst(c)
    BY <1>1, VisitKeeps DEF VisitConst
<1>2. CASE VisitVar
    BY <1>2, VisitKeeps DEF VisitVar
<1>3. CASE \E i \in Bounds : VisitHole(i)
    BY <1>3, VisitKeeps DEF VisitHole
<1>4. CASE \E op \in Unary : VisitUnary(op)
    BY <1>4, VisitKeeps DEF VisitUnary
<1>5. CASE \E op \in Binary : VisitBinary(op)
    BY <1>5, VisitKeeps DEF VisitBinary
<1>6. CASE VisitDisj
    BY <1>6, VisitKeeps DEF VisitDisj
<1>7. CASE Finish
  <2> DEFINE i == Top.ival
             r == Plus(residual, 2 * Ks)
  <2>1. cert' = <<CertificateOf(i, r)>> /\ priority' \in Priorities(i, r)
      BY <1>7 DEF Finish, CertificateOf
  <2> QED
      BY <2>1 DEF CertInv
<1>8. CASE UNCHANGED evars
    BY <1>8 DEF CertInv, evars
<1> QED
    BY <1>1, <1>2, <1>3, <1>4, <1>5, <1>6, <1>7, <1>8 DEF Next

(* decide() answers SAFE or FAIL only for finite ends in order and a finite *)
(* residual, and then the sign holds that validate() asks for.              *)
LEMMA DecidedIsSound ==
    ASSUME NEW i, NEW r, Decide(i, r) # "ABSTAIN"
    PROVE  /\ ~IsEmpty(i) /\ i.lo \notin Infs /\ ~HasNaN(i) /\ r # Boundless
           /\ \/ Decide(i, r) = "SAFE" /\ 2 * i.lo - r > 0
              \/ Decide(i, r) = "FAIL" /\ 2 * i.hi + r < 0
<1>1. ~IsEmpty(i) /\ {i.lo, i.hi} \cap (Infs \cup {NaN}) = {} /\ r # Boundless
    BY Zenon DEF Decide
<1>2. i.lo \notin Infs /\ ~HasNaN(i)
    BY <1>1, Zenon DEF HasNaN
<1>3. Decide(i, r) = IF 2 * i.lo - r > 0 THEN "SAFE"
                     ELSE IF 2 * i.hi + r < 0 THEN "FAIL" ELSE "ABSTAIN"
    BY <1>1, Zenon DEF Decide
<1> QED
    BY <1>1, <1>2, <1>3

LEMMA CertInvDecides == CertInv => DecidedIsCertified
<1> SUFFICES ASSUME CertInv, Len(cert) = 1, Verdict # "ABSTAIN"
             PROVE  /\ Validates(cert[1])
                    /\ Verdict = "SAFE" => priority < 3
    BY DEF DecidedIsCertified
<1>1. cert # <<>>
    OBVIOUS
<1>2. PICK i, r : cert = <<CertificateOf(i, r)>> /\ priority \in Priorities(i, r)
    BY <1>1 DEF CertInv
<1>3. cert[1] = CertificateOf(i, r)
    BY <1>2
<1>4. /\ cert[1].ival = i /\ cert[1].residual = r
      /\ cert[1].verdict = Decide(i, r) /\ Verdict = Decide(i, r)
    BY <1>3 DEF CertificateOf, Verdict
<1>5. /\ ~IsEmpty(i) /\ i.lo \notin Infs /\ ~HasNaN(i) /\ r # Boundless
      /\ \/ Decide(i, r) = "SAFE" /\ 2 * i.lo - r > 0
         \/ Decide(i, r) = "FAIL" /\ 2 * i.hi + r < 0
    BY <1>4, DecidedIsSound
<1>6. Validates(cert[1])
    BY <1>4, <1>5 DEF Validates, IsEmpty
<1>7. ASSUME Verdict = "SAFE" PROVE priority < 3
  <2>1. 2 * i.lo - r > 0
      BY <1>4, <1>5, <1>7
  <2>2. priority \in {2} \/ priority \in {0, 1, 2}
      BY <1>2, <1>5, <2>1 DEF Priorities
  <2> QED
      BY <2>2
<1> QED
    BY <1>6, <1>7

(* Every verdict but ABSTAIN comes with a certificate that validates, and   *)
(* no SAFE margin is ranked CRITICAL or HALT, whatever the rounding, the    *)
(* overflow and the NaNs of the evaluation before                           *)
(* (verifier.cpp:14-28, proof.cpp:16-34, 75-88, criticality.cpp:45-60).     *)
THEOREM DecidedIsAlwaysCertified == Spec => []DecidedIsCertified
<1>1. CertInv /\ [Next]_evars => CertInv'
    BY CertInvStep
<1> QED
    BY CertInvInit, <1>1, CertInvDecides, PTL DEF Spec


-------------------------------------------------------------------------------
(* A node on the stack encloses its number; the certificate is that of the  *)
(* root.                                                                    *)
Number == Fraction \cup {Unknown}
Node == {n \in [ival : Whole, real : Number] : Known(n.real) => Within(n.real, n.ival)}
Residual == Nat \cup {Boundless}

EncInv ==
    /\ box \in Boxes /\ input \in Ints(box)
    /\ residual \in Residual
    /\ clean => stack \in Seq(Node)
    /\ cert = <<>> \/ (Len(stack) = 1 /\ \E r \in Residual : cert = <<CertificateOf(stack[1].ival, r)>>)

LEMMA KnownIsAFraction == \A x \in Number : Known(x) <=> x \in Fraction
BY DEF Number, Known, Unknown, Fraction

(* Whatever the operation, a node of enclosing nodes encloses. *)
LEMMA UnaryEncloses ==
    ASSUME NEW op \in Unary, NEW n \in Node
    PROVE  [ival |-> Apply1(op, n.ival), real |-> Real1(op, n.real)] \in Node
<1>1. n.ival \in Whole /\ n.real \in Number /\ (Known(n.real) => Within(n.real, n.ival))
    BY DEF Node
<1>2. PICK i, x : i = n.ival /\ x = n.real
    OBVIOUS
<1>3. Apply1(op, i) \in Whole
    BY <1>1, <1>2, NegEncloses, AbsEncloses DEF Apply1
<1>4. Real1(op, x) \in Number /\ (Known(Real1(op, x)) => Within(Real1(op, x), Apply1(op, i)))
    <2>1. CASE ~Known(x)
        BY <2>1 DEF Real1, Number, Known
    <2>2. CASE Known(x)
        <3>1. x \in Fraction /\ Within(x, i) /\ x[1] \in Int /\ x[2] \in Int /\ x[2] > 0
            BY <1>1, <1>2, <2>2, KnownIsAFraction, FractionParts
        <3>2. Known(Frac(-x[1], x[2])) => Frac(-x[1], x[2]) = Opposite(x)
            BY <3>1, FracIsExact DEF Opposite
        <3>3. Frac(-x[1], x[2]) \in Number
            BY <3>1, FracIsExact DEF Number, Known
        <3>4. CASE op = "neg"
            <4>1. Real1(op, x) = Frac(-x[1], x[2]) /\ Apply1(op, i) = Neg(i)
                BY <2>2, <3>4 DEF Real1, Apply1
            <4> QED BY <1>1, <1>2, <3>1, <3>2, <3>3, <4>1, NegEncloses
        <3>5. CASE op = "abs"
            <4>1. Real1(op, x) = (IF x[1] < 0 THEN Frac(-x[1], x[2]) ELSE x) /\ Apply1(op, i) = CallAbs(i)
                BY <2>2, <3>5 DEF Real1, Apply1
            <4>2. Within(AbsOf(x), CallAbs(i))
                BY <1>1, <1>2, <3>1, AbsEncloses
            <4> QED BY <1>1, <1>2, <3>1, <3>2, <3>3, <4>1, <4>2 DEF AbsOf
        <3> QED BY <3>4, <3>5 DEF Unary
    <2> QED BY <2>1, <2>2
<1> QED BY <1>2, <1>3, <1>4 DEF Node

LEMMA BinaryEncloses ==
    ASSUME NEW op \in Binary, NEW m \in Node, NEW n \in Node, ~Indefinite(op, m.ival, n.ival)
    PROVE  [ival |-> Apply2(op, m.ival, n.ival), real |-> Real2(op, m.real, n.real)] \in Node
<1>1. /\ m.ival \in Whole /\ m.real \in Number /\ (Known(m.real) => Within(m.real, m.ival))
      /\ n.ival \in Whole /\ n.real \in Number /\ (Known(n.real) => Within(n.real, n.ival))
    BY DEF Node
<1>2. PICK i, x, j, y : i = m.ival /\ x = m.real /\ j = n.ival /\ y = n.real
    OBVIOUS
<1> DEFINE a == Apply2(op, i, j)
           z == Real2(op, x, y)
<1>3. SUFFICES a \in Whole /\ z \in Number /\ (Known(z) => Within(z, a))
    BY <1>2 DEF Node
<1>4. i \in Whole /\ j \in Whole /\ ~Indefinite(op, i, j)
    BY <1>1, <1>2
<1>5. ~Known(x) \/ ~Known(y) => z = Unknown
    BY DEF Real2
<1>6. Known(x) /\ Known(y) =>
        /\ x \in Fraction /\ Within(x, i) /\ x[1] \in Int /\ x[2] \in Int /\ x[2] > 0
        /\ y \in Fraction /\ Within(y, j) /\ y[1] \in Int /\ y[2] \in Int /\ y[2] > 0
    BY <1>1, <1>2, KnownIsAFraction, FractionParts
<1>7. ASSUME NEW p \in Int, NEW q \in Int PROVE Frac(p, q) \in Number
    BY FracIsExact DEF Number, Known
<1>8. Unknown \in Number /\ ~Known(Unknown)
    BY DEF Number, Known
<1>9. ASSUME Known(x), Known(y), NEW p \in Int, NEW q \in Int, q > 0, z = Frac(p, q), Within(<<p, q>>, a)
      PROVE  z \in Number /\ (Known(z) => Within(z, a))
    <2> HIDE DEF z, a
    <2>1. z \in Number
        BY <1>7, <1>9
    <2>2. Known(z) => z = <<p, q>>
        BY <1>9, FracIsExact
    <2> QED BY <1>9, <2>1, <2>2
<1> HIDE DEF a, z
<1>10. CASE op = "add"
    <2>1. a = Add(i, j) /\ ~HasNaN(Add(i, j))
        BY <1>4, <1>10 DEF a, Apply2, Indefinite
    <2>2. CASE Known(x) /\ Known(y)
        <3>1. z = Frac(x[1] * y[2] + y[1] * x[2], x[2] * y[2])
            BY <1>10, <2>2 DEF z, Real2
        <3>2. x[1] * y[2] + y[1] * x[2] \in Int /\ x[2] * y[2] \in Int /\ x[2] * y[2] > 0
            BY <1>6, <2>2
        <3> QED BY <1>4, <1>6, <1>9, <2>1, <2>2, <3>1, <3>2, AddEncloses
    <2> QED BY <1>4, <1>5, <1>8, <2>1, <2>2, AddEncloses
<1>11. CASE op = "sub"
    <2>1. a = Sub(i, j) /\ ~HasNaN(Sub(i, j))
        BY <1>4, <1>11 DEF a, Apply2, Indefinite
    <2>2. CASE Known(x) /\ Known(y)
        <3>1. z = Frac(x[1] * y[2] - y[1] * x[2], x[2] * y[2])
            BY <1>11, <2>2 DEF z, Real2
        <3>2. x[1] * y[2] - y[1] * x[2] \in Int /\ x[2] * y[2] \in Int /\ x[2] * y[2] > 0
            BY <1>6, <2>2
        <3> QED BY <1>4, <1>6, <1>9, <2>1, <2>2, <3>1, <3>2, SubEncloses
    <2> QED BY <1>4, <1>5, <1>8, <2>1, <2>2, SubEncloses
<1>12. CASE op = "mul"
    <2>1. a = Mul(i, j) /\ Definite(i, j)
        BY <1>4, <1>12 DEF a, Apply2, Indefinite, Definite
    <2>2. CASE Known(x) /\ Known(y)
        <3>1. z = Frac(x[1] * y[1], x[2] * y[2])
            BY <1>12, <2>2 DEF z, Real2
        <3>2. x[1] * y[1] \in Int /\ x[2] * y[2] \in Int /\ x[2] * y[2] > 0
            BY <1>6, <2>2
        <3> QED BY <1>4, <1>6, <1>9, <2>1, <2>2, <3>1, <3>2, MulEncloses, ProductIsWhole
    <2> QED BY <1>4, <1>5, <1>8, <2>1, <2>2, ProductIsWhole
<1>13. CASE op = "div"
    <2>1. a = Div(i, j) /\ (Ends(i) \cap Infs = {} \/ Ends(j) \cap Infs = {})
        BY <1>4, <1>13 DEF a, Apply2, Indefinite
    <2>2. CASE Known(x) /\ Known(y)
        <3>1. z = Frac(x[1] * y[2], x[2] * y[1])
            BY <1>13, <2>2 DEF z, Real2
        <3>2. x[1] * y[2] \in Int /\ x[2] * y[1] \in Int
            BY <1>6, <2>2
        <3>3. PICK p, q : p = x[1] * y[2] /\ q = x[2] * y[1]
            OBVIOUS
        <3>4. (q # 0 <=> y[1] # 0) /\ (q > 0 <=> y[1] > 0)
            BY <1>6, <2>2, <3>3
        <3>5. Known(z) => z = Quotient(x, y) /\ y[1] # 0
            <4> SUFFICES ASSUME Known(z) PROVE z = Quotient(x, y) /\ y[1] # 0
                OBVIOUS
            <4>1. z = (IF q > 0 THEN <<p, q>> ELSE <<-p, -q>>) /\ q # 0
                BY <3>1, <3>2, <3>3, FracIsExact
            <4>2. Quotient(x, y) = IF y[1] > 0 THEN <<p, q>> ELSE <<-p, -q>>
                BY <3>3 DEF Quotient
            <4> QED BY <3>4, <4>1, <4>2
        <3>6. z \in Number
            BY <1>7, <3>1, <3>2
        <3> QED BY <1>4, <1>6, <2>1, <2>2, <3>5, <3>6, DivEncloses
    <2> QED BY <1>4, <1>5, <1>8, <2>1, <2>2, DivEncloses
<1>14. CASE op = "pow"
    <2>1. a \in Whole
        BY <1>4, <1>14, PowEncloses DEF a
    <2>2. CASE Known(x) /\ Known(y)
        <3>1. z = RealPow(x, y)
            BY <1>14, <2>2 DEF z, Real2
        <3>2. Known(z) => z \in Fraction /\ Within(z, a)
            BY <1>4, <1>6, <1>14, <2>2, <3>1, PowEncloses DEF a
        <3>3. ~Known(z) => z = Unknown
            BY DEF Known
        <3> QED BY <1>8, <2>1, <3>2, <3>3 DEF Number
    <2> QED BY <1>5, <1>8, <2>1, <2>2
<1>15. CASE op = "max"
    <2>1. a = Of(MaxOf(i.lo, j.lo), MaxOf(i.hi, j.hi))
        BY <1>15 DEF a, Apply2
    <2>2. CASE Known(x) /\ Known(y)
        <3>1. z = Larger(x, y) /\ z \in {x, y}
            BY <1>15, <2>2 DEF z, Real2, Larger
        <3> QED BY <1>4, <1>6, <2>1, <2>2, <3>1, MaxEncloses DEF Number
    <2> QED BY <1>4, <1>5, <1>8, <2>1, <2>2, MaxEncloses
<1>16. CASE op = "min"
    <2>1. a = Of(MinOf(i.lo, j.lo), MinOf(i.hi, j.hi))
        BY <1>16 DEF a, Apply2
    <2>2. CASE Known(x) /\ Known(y)
        <3>1. z = Smaller(x, y) /\ z \in {x, y}
            BY <1>16, <2>2 DEF z, Real2, Smaller
        <3> QED BY <1>4, <1>6, <2>1, <2>2, <3>1, MinEncloses DEF Number
    <2> QED BY <1>4, <1>5, <1>8, <2>1, <2>2, MinEncloses
<1> QED BY <1>10, <1>11, <1>12, <1>13, <1>14, <1>15, <1>16 DEF Binary

(* So does a leaf. *)
LEMMA LeafEncloses ==
    ASSUME NEW i \in Ival, ~HasNaN(i), NEW v \in Ints(i)
    PROVE  [ival |-> i, real |-> <<v, 1>>] \in Node
<1>1. i \in Whole /\ i.lo \in Int /\ i.hi \in Int /\ i.lo # NaN /\ i.hi # NaN /\ v \in -M..M /\ v \in Int
      /\ i.lo >= MInf /\ i.hi <= PInf
    BY MAssumption DEF Ival, Whole, Ordinary, HasNaN, Ints, Num, NaN, MInf, PInf
<1>2. i.lo <= v /\ v <= i.hi
    BY <1>1 DEF Ints, Le
<1>3. Within(<<v, 1>>, i)
    BY <1>1, <1>2, MAssumption DEF Within, AtLeast, AtMost, MInf, PInf
<1> QED BY <1>1, <1>3 DEF Node, Number, Fraction

(* The invariant, one action after the other. *)
LEMMA EncInvInit == EInit => EncInv
<1> SUFFICES ASSUME EInit PROVE EncInv
    OBVIOUS
<1>1. stack \in Seq(Node) /\ residual \in Residual /\ cert = <<>>
    BY DEF EInit, Residual
<1> QED BY <1>1 DEF EInit, EncInv

LEMMA BoxesAreWhole ==
    ASSUME NEW i \in Boxes \cup Bounds
    PROVE  i \in Ival /\ ~HasNaN(i)
BY LeafAssumption DEF HasNaN

(* The arguments of an operation. *)
LEMMA PopsAreNodes ==
    ASSUME stack \in Seq(Node), NEW n \in {1, 2}, Len(stack) >= n
    PROVE  Pop(n) \in Seq(Node) /\ Top \in Node /\ (n = 2 => Second \in Node)
<1>1. Len(stack) \in Nat
    BY LenProperties
<1>2. Len(stack) \in 1..Len(stack) /\ (n = 2 => Len(stack) - 1 \in 1..Len(stack))
    BY <1>1
<1>3. Top \in Node /\ (n = 2 => Second \in Node)
    BY <1>2, ElementOfSeq DEF Top, Second
<1>4. Pop(n) \in Seq(Node)
    BY <1>1 DEF Pop
<1> QED BY <1>3, <1>4

LEMMA VisitEncloses ==
    ASSUME EncInv, NEW rest, NEW i, NEW x, Visit(rest, i, x), residual' \in Residual,
           clean' => clean /\ rest \in Seq(Node) /\ [ival |-> i, real |-> x] \in Node
    PROVE  EncInv'
<1>1. clean' => stack' \in Seq(Node)
    BY DEF Visit
<1> QED BY <1>1 DEF EncInv, Visit, Ints

LEMMA PlusIsAResidual == \A r, s \in Residual : Plus(r, s) \in Residual
BY DEF Plus, Residual, Boundless

LEMMA EncInvStep == EncInv /\ [Next]_evars => EncInv'
<1> SUFFICES ASSUME EncInv, [Next]_evars PROVE EncInv'
    OBVIOUS
<1>0. box \in Boxes /\ input \in Ints(box) /\ residual \in Residual /\ (clean => stack \in Seq(Node))
    BY DEF EncInv
<1>1. ASSUME NEW c \in Consts, VisitConst(c) PROVE EncInv'
    <2>1. Point(c) \in Ival /\ ~HasNaN(Point(c)) /\ c \in Ints(Point(c))
        <3>1. c \in -M..M
            BY LeafAssumption
        <3>2. c \in Num /\ c # NaN
            BY <3>1, MAssumption DEF Num, NaN, MInf
        <3>3. Point(c).lo = c /\ Point(c).hi = c
            BY DEF Point, Pair
        <3>4. Point(c) \in Ival
            BY <3>2 DEF Point, Pair, Ival
        <3> QED BY <3>1, <3>2, <3>3, <3>4 DEF HasNaN, Ints, Le
    <2>2. [ival |-> Point(c), real |-> <<c, 1>>] \in Node
        BY <2>1, LeafEncloses
    <2>3. Visit(stack, Point(c), <<c, 1>>) /\ residual' = residual /\ clean' = clean
        BY <1>1 DEF VisitConst
    <2> QED BY <1>0, <2>2, <2>3, VisitEncloses
<1>2. CASE VisitVar
    <2>1. [ival |-> box, real |-> <<input, 1>>] \in Node
        BY <1>0, BoxesAreWhole, LeafEncloses
    <2>2. Visit(stack, box, <<input, 1>>) /\ residual' = residual /\ clean' = clean
        BY <1>2 DEF VisitVar
    <2> QED BY <1>0, <2>1, <2>2, VisitEncloses
<1>3. ASSUME NEW i \in Bounds, VisitHole(i) PROVE EncInv'
    <2>1. PICK v \in Ints(i) : Visit(stack, i, <<v, 1>>)
        BY <1>3 DEF VisitHole
    <2>2. [ival |-> i, real |-> <<v, 1>>] \in Node
        BY BoxesAreWhole, LeafEncloses
    <2>3. HoleResidual(i) \in Residual
        <3>1. i \in Ival /\ ~HasNaN(i)
            BY BoxesAreWhole
        <3>2. i.lo \in Int /\ i.hi \in Int /\ i.lo # NaN /\ i.hi # NaN
            BY <3>1, MAssumption DEF Ival, HasNaN, Num, NaN, MInf
        <3>3. ~IsEmpty(i) => i.hi - i.lo + 2 \in Nat
            BY <3>2 DEF IsEmpty, Lt
        <3> QED BY <3>3 DEF HoleResidual, Residual
    <2>4. residual' \in Residual /\ clean' = clean
        BY <1>0, <1>3, <2>3, PlusIsAResidual DEF VisitHole
    <2> QED BY <1>0, <2>1, <2>2, <2>4, VisitEncloses
<1>4. ASSUME NEW op \in Unary, VisitUnary(op) PROVE EncInv'
    <2>1. /\ Len(stack) >= 1 /\ Visit(Pop(1), Apply1(op, Top.ival), Real1(op, Top.real))
          /\ residual' = residual /\ clean' = clean
        BY <1>4 DEF VisitUnary
    <2>2. clean => Pop(1) \in Seq(Node) /\ Top \in Node
        BY <1>0, <2>1, PopsAreNodes
    <2>3. clean => [ival |-> Apply1(op, Top.ival), real |-> Real1(op, Top.real)] \in Node
        BY <2>2, UnaryEncloses
    <2> QED BY <1>0, <2>1, <2>2, <2>3, VisitEncloses
<1>5. ASSUME NEW op \in Binary, VisitBinary(op) PROVE EncInv'
    <2>1. /\ Len(stack) >= 2 /\ Visit(Pop(2), Apply2(op, Second.ival, Top.ival), Real2(op, Second.real, Top.real))
          /\ residual' = residual /\ clean' = (clean /\ ~Indefinite(op, Second.ival, Top.ival))
        BY <1>5 DEF VisitBinary
    <2>2. clean => Pop(2) \in Seq(Node) /\ Top \in Node /\ Second \in Node
        BY <1>0, <2>1, PopsAreNodes
    <2>3. clean' => [ival |-> Apply2(op, Second.ival, Top.ival), real |-> Real2(op, Second.real, Top.real)] \in Node
        BY <2>1, <2>2, BinaryEncloses
    <2> QED BY <1>0, <2>1, <2>2, <2>3, VisitEncloses
<1>6. CASE VisitDisj
    <2>1. PICK x \in {Second.real, Top.real} : Visit(Pop(2), Hull(Second.ival, Top.ival), x)
        BY <1>6 DEF VisitDisj
    <2>2. Len(stack) >= 2 /\ residual' = residual /\ clean' = clean
        BY <1>6 DEF VisitDisj
    <2>3. clean => Pop(2) \in Seq(Node) /\ Top \in Node /\ Second \in Node
        BY <1>0, <2>2, PopsAreNodes
    <2>4. clean => [ival |-> Hull(Second.ival, Top.ival), real |-> x] \in Node
        <3> SUFFICES ASSUME clean PROVE [ival |-> Hull(Second.ival, Top.ival), real |-> x] \in Node
            OBVIOUS
        <3>1. /\ Second.ival \in Whole /\ Second.real \in Number /\ (Known(Second.real) => Within(Second.real, Second.ival))
              /\ Top.ival \in Whole /\ Top.real \in Number /\ (Known(Top.real) => Within(Top.real, Top.ival))
            BY <2>3 DEF Node
        <3>2. Hull(Second.ival, Top.ival) \in Whole
            BY <3>1, HullEncloses
        <3>3. x \in Number /\ (Known(x) => Within(x, Hull(Second.ival, Top.ival)))
            BY <3>1, HullEncloses, KnownIsAFraction
        <3> QED BY <3>2, <3>3 DEF Node
    <2> QED BY <1>0, <2>1, <2>2, <2>3, <2>4, VisitEncloses
<1>7. CASE Finish
    <2> DEFINE r == Plus(residual, 2 * Ks)
    <2>1. r \in Residual
        <3>1. 2 * Ks \in Residual
            BY LeafAssumption DEF Residual
        <3> QED BY <1>0, <3>1, PlusIsAResidual
    <2>2. /\ Len(stack) = 1 /\ cert' = <<CertificateOf(Top.ival, r)>>
          /\ box' = box /\ input' = input /\ stack' = stack /\ residual' = residual /\ clean' = clean
        BY <1>7 DEF Finish, CertificateOf
    <2>3. Top = stack[1] /\ stack'[1] = stack[1]
        BY <2>2 DEF Top
    <2> HIDE DEF r
    <2>4. cert' = <<CertificateOf(stack'[1].ival, r)>>
        BY <2>2, <2>3
    <2> QED BY <1>0, <2>1, <2>2, <2>4 DEF EncInv, Ints
<1>8. CASE UNCHANGED evars
    BY <1>8 DEF EncInv, evars, Ints, CertificateOf, Decide
<1> QED BY <1>1, <1>2, <1>3, <1>4, <1>5, <1>6, <1>7, <1>8 DEF Next

(* What decide() answers is true of any number in the interval. *)
LEMMA DecidedIsTrue ==
    ASSUME NEW i \in Whole, NEW r \in Residual, NEW x \in Fraction, Within(x, i)
    PROVE  /\ Decide(i, r) = "SAFE" => x[1] > 0
           /\ Decide(i, r) = "FAIL" => x[1] < 0
<1>1. x[1] \in Int /\ x[2] \in Int /\ x[2] > 0 /\ i.lo \in Int /\ i.hi \in Int
    BY FractionParts, MAssumption DEF Whole, Ordinary, Num, NaN, MInf
<1>2. ASSUME Decide(i, r) # "ABSTAIN"
      PROVE  /\ i.lo \notin Infs /\ i.hi \notin Infs /\ r \in Nat
             /\ \/ Decide(i, r) = "SAFE" /\ 2 * i.lo - r > 0
                \/ Decide(i, r) = "FAIL" /\ 2 * i.hi + r < 0
    <2>1. r \in Nat
        BY <1>2, DecidedIsSound DEF Residual
    <2>2. i.lo \notin Infs /\ i.hi \notin Infs
        BY <1>2, Zenon DEF Decide
    <2> QED BY <1>2, <2>1, <2>2, DecidedIsSound
<1>3. ASSUME Decide(i, r) = "SAFE" PROVE x[1] > 0
    <2>1. i.lo > 0 /\ i.lo # MInf
        BY <1>1, <1>2, <1>3 DEF Infs
    <2>2. i.lo * x[2] <= x[1] /\ i.lo * x[2] \in Int
        BY <1>1, <2>1 DEF Within, AtLeast
    <2>3. i.lo * x[2] > 0
        BY <1>1, <2>1
    <2> QED BY <1>1, <2>2, <2>3
<1>4. ASSUME Decide(i, r) = "FAIL" PROVE x[1] < 0
    <2>1. i.hi < 0 /\ i.hi # PInf
        BY <1>1, <1>2, <1>4 DEF Infs
    <2>2. x[1] <= i.hi * x[2] /\ i.hi * x[2] \in Int
        BY <1>1, <2>1 DEF Within, AtMost
    <2>3. i.hi * x[2] < 0
        BY <1>1, <2>1
    <2> QED BY <1>1, <2>2, <2>3
<1> QED BY <1>3, <1>4

(* And the invariant is what was to be shown. *)
LEMMA EncInvEncloses == EncInv => Encloses
<1> SUFFICES ASSUME EncInv, clean PROVE Encloses
    BY DEF Encloses
<1>1. stack \in Seq(Node)
    BY DEF EncInv
<1>2. \A k \in 1..Len(stack) : Known(stack[k].real) => Within(stack[k].real, stack[k].ival)
    BY <1>1, ElementOfSeq DEF Node
<1>3. TrueVerdict
    <2> SUFFICES ASSUME Len(cert) = 1, Known(Top.real)
                 PROVE  /\ Verdict = "SAFE" => Top.real[1] > 0
                        /\ Verdict = "FAIL" => Top.real[1] < 0
        BY DEF TrueVerdict
    <2>1. cert # <<>>
        OBVIOUS
    <2>2. Len(stack) = 1 /\ \E r \in Residual : cert = <<CertificateOf(stack[1].ival, r)>>
        BY <2>1 DEF EncInv
    <2>3. PICK r \in Residual : cert = <<CertificateOf(stack[1].ival, r)>>
        BY <2>2
    <2>4. Top = stack[1] /\ 1 \in 1..Len(stack)
        BY <2>2 DEF Top
    <2>5. Top \in Node
        BY <1>1, <2>4, ElementOfSeq
    <2>6. Top.ival \in Whole /\ Top.real \in Fraction /\ Within(Top.real, Top.ival)
        BY <2>5, KnownIsAFraction DEF Node
    <2>7. Verdict = Decide(Top.ival, r)
        BY <2>3, <2>4 DEF Verdict, CertificateOf
    <2> QED BY <2>6, <2>7, DecidedIsTrue
<1> QED BY <1>2, <1>3 DEF Encloses

(* ARCHITECTURE_SUMMARY, soundness of eval: for every floating point, every *)
(* program, box and physical bound, the interval of every node contains the *)
(* number the node has in the sheet, so that a SAFE margin is positive and  *)
(* a FAIL margin negative there, as long as no operation was Indefinite     *)
(* (enclosure.cpp:9-94, ival.cpp, verifier.cpp:14-28).                      *)
THEOREM EveryNodeIsEnclosed == Spec => []Encloses
<1>1. EncInv /\ [Next]_evars => EncInv'
    BY EncInvStep
<1> QED BY EncInvInit, <1>1, EncInvEncloses, PTL DEF Spec

===============================================================================
