--------------------------------- MODULE Glue ---------------------------------
(***************************************************************************)
(* semantic/glue.cpp, glue: the sections of the regions of a workbook,     *)
(* what each assigns to its symbols (a range and perhaps a dimension), are *)
(* glued into one, or the conflicts are named.                             *)
(***************************************************************************)
EXTENDS Calls, Integers, Sequences

CONSTANT Points     \* the numbers that ranges end at
ASSUME PointsAssumption == Points \subseteq Int

NoDim == "none"     \* has_dim is false
EmptyRange == <<1, 0>>
Meet(x, y) ==
    LET lo == IF x[1] > y[1] THEN x[1] ELSE y[1]
        hi == IF x[2] < y[2] THEN x[2] ELSE y[2]
    IN IF lo > hi THEN EmptyRange ELSE <<lo, hi>>

-------------------------------------------------------------------------------
(* One assignment met with what is glued so far: cur is [range, dim, from]. *)
DimClash(cur, a) == NoDim \notin {cur.dim, a.dim} /\ cur.dim # a.dim
RangeClash(cur, a) == Meet(cur.range, a.range) = EmptyRange

(* Mutant: a dimension is kept only if the first section gave it. *)
Merge_FirstDim(cur, a) ==
    IF DimClash(cur, a) THEN cur
    ELSE [cur EXCEPT !.range = IF RangeClash(cur, a) THEN @ ELSE Meet(@, a.range)]

(* A range that does not meet is dropped, the dimension adopted before stays. *)
Merge(cur, a) ==
    IF DimClash(cur, a) THEN cur
    ELSE [cur EXCEPT !.dim = IF @ = NoDim THEN a.dim ELSE @,
                     !.range = IF RangeClash(cur, a) THEN @ ELSE Meet(@, a.range)]

Conflicts(acc, s) ==
    {[symbol |-> n, a |-> acc[n].from, b |-> s.region,
      kind |-> IF DimClash(acc[n], s.sym[n]) THEN "dimension" ELSE "range"] :
        n \in {n \in DOMAIN acc \cap DOMAIN s.sym :
                 DimClash(acc[n], s.sym[n]) \/ RangeClash(acc[n], s.sym[n])}}

GlueSection(r, s) ==
    [acc |-> [n \in DOMAIN r.acc \cup DOMAIN s.sym |->
                IF n \notin DOMAIN r.acc
                THEN [range |-> s.sym[n].range, dim |-> s.sym[n].dim, from |-> s.region]
                ELSE IF n \in DOMAIN s.sym THEN Merge(r.acc[n], s.sym[n]) ELSE r.acc[n]],
     matches |-> r.matches \cup {<<r.acc[n].from, s.region, n>> : n \in DOMAIN r.acc \cap DOMAIN s.sym},
     conflicts |-> r.conflicts \cup Conflicts(r.acc, s)]

Glued(sections) ==
    LET r[k \in Nat] == IF k = 0 THEN [acc |-> <<>>, matches |-> {}, conflicts |-> {}]
                        ELSE GlueSection(r[k - 1], sections[k])
    IN  r
GlueSections(sections) ==
    LET r == Glued(sections)[Len(sections)]
    IN [global |-> r.acc, matches |-> r.matches, conflicts |-> r.conflicts,
        consistent |-> r.conflicts = {}]

GlueStep == Asked("glue") /\ Return(GlueSections(call.sections))

-------------------------------------------------------------------------------
(* The sheaf condition: the sections are called consistent exactly when one *)
(* assignment restricts to all of them (dimensions agree and some value is  *)
(* in every range), and then the glued range is what all of them allow and  *)
(* the glued dimension is the one any of them gave, whatever the order.     *)
Holders(n) == {i \in DOMAIN call.sections : n \in DOMAIN call.sections[i].sym}
GivenDims(n) == {call.sections[i].sym[n].dim : i \in Holders(n)} \ {NoDim}
Allowed(n, v) ==
    \A i \in Holders(n) : LET g == call.sections[i].sym[n].range IN g[1] <= v /\ v <= g[2]
Names == UNION {DOMAIN call.sections[i].sym : i \in DOMAIN call.sections}
Glueable ==
    \A n \in Names : (\A d, e \in GivenDims(n) : d = e) /\ \E v \in Points : Allowed(n, v)

GluedIsTheLimit ==
    Got("glue") =>
        /\ answer.value.consistent = Glueable
        /\ answer.value.consistent =>
             \A n \in Names : LET g == answer.value.global[n] IN
                 /\ \A v \in Points : Allowed(n, v) = (g.range[1] <= v /\ v <= g.range[2])
                 /\ IF GivenDims(n) = {} THEN g.dim = NoDim ELSE g.dim \in GivenDims(n)
===============================================================================
