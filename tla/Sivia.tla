--------------------------------- MODULE Sivia --------------------------------
(***************************************************************************)
(* The set inversion of core/sivia: a box of inputs is cut in halves until *)
(* each part is known to be safe, known to fail, or too narrow to decide,  *)
(* or the iterations are used up.  A box is the sequence of the ranges of  *)
(* its inputs in the order of their names; numbers are multiples of a unit *)
(* small enough for every midpoint.                                        *)
(***************************************************************************)
EXTENDS Calls, Integers, Sequences, SequencesExt

CONSTANT Greatest   \* the largest finite number

I == INSTANCE Interval WITH M <- Greatest

(* admissible_region: each input is moved by a share (in eighths) of its    *)
(* base value, one at zero by the share itself, and by one without a share. *)
AroundBase(base, share) ==
    [k \in DOMAIN base |->
        LET b == base[k]
            d == (I!Fabs(b) * share) \div 8
            e == IF d # 0 THEN d ELSE IF share > 0 THEN share ELSE 1
        IN I!Of(b - e, b + e)]

(* The range of a margin over a box. *)
RECURSIVE RangeOver(_, _)
RangeOver(m, box) ==
    CASE m[1] = "input" -> box[m[2]]
      [] m[1] = "const" -> I!Point(m[2])
      [] OTHER ->
            LET a == RangeOver(m[2], box)  b == RangeOver(m[3], box) IN
            CASE m[1] = "add" -> I!Add(a, b)
              [] m[1] = "sub" -> I!Sub(a, b)
              [] m[1] = "mul" -> I!Mul(a, b)
              [] m[1] = "div" -> I!Div(a, b)

Across(range) == range.hi - range.lo
BoxMaxWidth(box) == FoldLeft(LAMBDA m, r : IF Across(r) > m THEN Across(r) ELSE m, 0, box)
BoxVolume(box) == FoldLeft(LAMBDA v, r : v * (IF Across(r) > 0 THEN Across(r) ELSE 1), 1, box)

(* The first of the widest ranges is cut in the middle. *)
Bisect(box) ==
    LET k == CHOOSE k \in DOMAIN box :
                /\ Across(box[k]) = BoxMaxWidth(box)
                /\ \A j \in 1..(k - 1) : Across(box[j]) < Across(box[k])
        mid == (box[k].lo + box[k].hi) \div 2
    IN << [box EXCEPT ![k] = I!Of(@.lo, mid)], [box EXCEPT ![k] = I!Of(mid, @.hi)] >>

(* What becomes of the box taken from the back of the work.                 *)
Judge(p, box, eps) ==
    LET ms == RangeOver(p.margin, box)
        narrow == BoxMaxWidth(box) < eps
    IN  CASE ms.lo # I!NaN /\ ms.hi # I!NaN /\ ms.lo - p.residual > 0 -> "safe"
          [] ms.lo # I!NaN /\ ms.hi # I!NaN /\ ms.hi + p.residual < 0 -> "fails"
          [] narrow -> "unknown"
          [] OTHER  -> "cut"
Decided(p, s, eps) ==
    LET box == Last(s.work)
        rest == [s EXCEPT !.work = Front(@), !.iterations = @ + 1]
    IN  CASE Judge(p, box, eps) = "safe"    -> [rest EXCEPT !.safe = Append(@, box)]
          [] Judge(p, box, eps) = "fails"   -> rest
          [] Judge(p, box, eps) = "unknown" -> [rest EXCEPT !.unknown = Append(@, box)]
          [] OTHER                          -> [rest EXCEPT !.work = @ \o Bisect(box)]

(* Mutant: the work left at the limit is forgotten. *)
AtLimit_Forgotten(s) == s

AtLimit(s) == [s EXCEPT !.unknown = @ \o s.work]

RECURSIVE Paving(_, _, _, _)
Paving(p, s, eps, limit) ==
    IF s.work = <<>> \/ s.iterations >= limit THEN AtLimit(s)
    ELSE Paving(p, Decided(p, s, eps), eps, limit)
VolumeOf(boxes) == FoldLeft(LAMBDA v, b : v + BoxVolume(b), 0, boxes)

SiviaStep ==
    /\ Asked("sivia")
    /\ LET whole == AroundBase(call.base, call.share)
           s == Paving(call.prog, [work |-> <<whole>>, safe |-> <<>>, unknown |-> <<>>, iterations |-> 0],
                       call.eps, call.limit)
       IN Return([whole |-> whole, safe |-> s.safe, unknown |-> s.unknown,
                  fraction |-> <<VolumeOf(s.safe), BoxVolume(whole)>>])

-------------------------------------------------------------------------------
(* The margin at a point, a fraction with a divisor that is not negative,   *)
(* and zero where the sheet divides by zero.                                *)
RECURSIVE MarginAt(_, _)
MarginAt(m, x) ==
    CASE m[1] = "input" -> <<x[m[2]], 1>>
      [] m[1] = "const" -> <<m[2], 1>>
      [] OTHER ->
            LET a == MarginAt(m[2], x)  b == MarginAt(m[3], x)
                sign == IF b[1] < 0 THEN -1 ELSE 1
            IN CASE m[1] = "add" -> <<a[1] * b[2] + b[1] * a[2], a[2] * b[2]>>
                 [] m[1] = "sub" -> <<a[1] * b[2] - b[1] * a[2], a[2] * b[2]>>
                 [] m[1] = "mul" -> <<a[1] * b[1], a[2] * b[2]>>
                 [] m[1] = "div" -> IF b[2] = 0 THEN <<0, 0>> ELSE <<sign * a[1] * b[2], sign * a[2] * b[1]>>
RECURSIVE PointsOf(_)
PointsOf(box) ==
    IF box = <<>> THEN {<<>>}
    ELSE {Append(x, n) : x \in PointsOf(Front(box)), n \in Last(box).lo..Last(box).hi}
In(x, box) == \A k \in DOMAIN box : box[k].lo <= x[k] /\ x[k] <= box[k].hi
Somewhere(x, boxes) == \E i \in DOMAIN boxes : In(x, boxes[i])

(* However early the iterations end, the region told to be safe holds no    *)
(* point that fails, what is neither safe nor unknown holds none that does  *)
(* not, and the fraction is that of the whole (sivia.cpp:39-76,             *)
(* service.cpp:1040-1056).                                                  *)
PavingCovers ==
    Got("sivia") =>
        LET r == answer.value IN
        /\ \A x \in PointsOf(r.whole) :
             LET m == MarginAt(call.prog.margin, x) IN
             m[2] # 0 =>
                /\ Somewhere(x, r.safe) => m[1] > 0
                /\ m[1] >= 0 => Somewhere(x, r.safe \o r.unknown)
        /\ r.fraction[1] + VolumeOf(r.unknown) <= r.fraction[2]
===============================================================================
