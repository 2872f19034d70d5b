------------------------------- MODULE CertDiff -------------------------------
(***************************************************************************)
(* audit/diff.cpp compares two verification runs target by target, and     *)
(* Service::run_history sums up each run of an artifact by its worst       *)
(* verdict and largest score.  A run is the sequence of its targets; the   *)
(* criticality is in hundredths.  Labels are left out.                     *)
(***************************************************************************)
EXTENDS Calls, Integers, Sequences, FiniteSetsExt, SequencesExt

Stored == DOMAIN call.runs       \* the ids the store has a run of
RunOf(id) == call.runs[id]
Abs(n) == IF n < 0 THEN -n ELSE n

Cells(run) == {run[i].cell : i \in DOMAIN run}
TargetsByCell(run) ==
    [c \in Cells(run) |-> run[Max({i \in DOMAIN run : run[i].cell = c})]]

(* Mutant: a safe target that is undecided now is an other transition. *)
TransitionOf_Undecided(a, b) ==
    CASE b = "FAIL" /\ a # "FAIL" -> "ToFail"
      [] a = "FAIL" /\ b # "FAIL" -> "FromFail"
      [] a = "SAFE" /\ b = "SAFE" -> "SafeSafe"
      [] a = "ABSTAIN" /\ b = "SAFE" -> "AbstainSafe"
      [] OTHER -> "Other"

TransitionOf(a, b) ==
    CASE b = "FAIL" /\ a # "FAIL" -> "ToFail"
      [] a = "FAIL" /\ b # "FAIL" -> "FromFail"
      [] a = "SAFE" /\ b = "SAFE" -> "SafeSafe"
      [] a = "SAFE" /\ b = "ABSTAIN" -> "SafeAbstain"
      [] a = "ABSTAIN" /\ b = "SAFE" -> "AbstainSafe"
      [] OTHER -> "Other"

Width(ms) == ms[2] - ms[1]
NoDelta == [lo |-> 0, hi |-> 0, width |-> 0, cs |-> 0]

(* A target of the new run next to the old one of its cell, if there is one. *)
Compared(cell, old, new) ==
    IF cell \notin DOMAIN old
    THEN [cell |-> cell, was |-> "(absent)", is |-> new[cell].verdict,
          transition |-> "Other", delta |-> NoDelta, more |-> FALSE, fewer |-> FALSE]
    ELSE LET o == old[cell]  n == new[cell] IN
         [cell |-> cell, was |-> o.verdict, is |-> n.verdict,
          transition |-> TransitionOf(o.verdict, n.verdict),
          delta |-> [lo |-> n.ms[1] - o.ms[1], hi |-> n.ms[2] - o.ms[2],
                     width |-> Width(n.ms) - Width(o.ms), cs |-> n.cs - o.cs],
          more |-> n.holes > o.holes, fewer |-> n.holes < o.holes]

Regressed(t) ==
    t.transition \in {"ToFail", "SafeAbstain"} \/ (t.transition = "SafeSafe" /\ t.delta.cs > 5)

DiffRuns(a, b) ==
    IF ~({a, b} \subseteq Stored) THEN [ok |-> FALSE]
    ELSE LET old == TargetsByCell(RunOf(a))
             new == TargetsByCell(RunOf(b))
             ts  == {Compared(c, old, new) : c \in DOMAIN new}
         IN [ok |-> TRUE, safe |-> ~\E t \in ts : Regressed(t),
             targets |-> SetToSortSeq(ts, LAMBDA s, t : Abs(s.delta.cs) > Abs(t.delta.cs)),
             newHoles |-> {t.cell : t \in {t \in ts : t.more}},
             closedHoles |-> {t.cell : t \in {t \in ts : t.fewer}},
             worse |-> Cardinality({t \in ts : t.delta.cs > 5}),
             better |-> Cardinality({t \in ts : t.delta.cs < -5})]

Rank(verdict) == CASE verdict = "FAIL" -> 2 [] verdict = "ABSTAIN" -> 1 [] OTHER -> 0

(* One entry of the history: listed as SAFE when it has no target at all.   *)
Summary(run) ==
    [n |-> Len(run),
     verdict |-> LET worst == Max({0} \cup {Rank(run[i].verdict) : i \in DOMAIN run})
                 IN <<"SAFE", "ABSTAIN", "FAIL">>[worst + 1],
     maxCs |-> Max({0} \cup {run[i].cs : i \in DOMAIN run})]

(* Service::diff of the two runs, and the history that shows both.          *)
Diff ==
    /\ Asked("diff")
    /\ Return([diff |-> DiffRuns("old", "new"),
               history |-> [id \in Stored |-> Summary(RunOf(id))]])

-------------------------------------------------------------------------------
(* The comparison and the history tell one story: after a run that was SAFE *)
(* throughout, a later run of the same cells that the comparison calls not  *)
(* worse is SAFE in the history too, and its largest score rose by no more  *)
(* than the tolerance.  Targets new in the later run are excluded: the      *)
(* comparison never counts them, even when they FAIL (diff.cpp:48-95,       *)
(* service.cpp:934-963).                                                    *)
DiffAgreesWithHistory ==
    LET d == answer.value.diff  h == answer.value.history IN
    Got("diff") /\ d.ok /\ d.safe /\ h["old"].verdict = "SAFE"
        /\ Cells(RunOf("new")) \subseteq Cells(RunOf("old"))
        => h["new"].verdict = "SAFE" /\ h["new"].maxCs <= h["old"].maxCs + 5
===============================================================================
