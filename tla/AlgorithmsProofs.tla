---------------------------- MODULE AlgorithmsProofs --------------------------
(***************************************************************************)
(* Proofs about the functions that keep no state, for arguments of any     *)
(* size.  Each theorem is about one call and the answer to it.             *)
(***************************************************************************)
EXTENDS CertDiff, Merkle, Glue, XlsbRecords, Cocycles, ArtifactGraph, Grpc,
        FiniteSetTheorems, SequenceTheorems, NaturalsInduction, WellFoundedInduction, TLAPS

(* Every set of naturals has a least element. *)
LEMMA Least ==
    ASSUME NEW T \in SUBSET Nat, T # {}
    PROVE  \E n \in T : \A m \in T : n <= m
<1>1. IsWellFoundedOn(OpToRel(<, Nat), Nat)
    BY NatLessThanWellFounded
<1>2. PICK n \in T : \A m \in T : ~(<<m, n>> \in OpToRel(<, Nat))
    BY <1>1, WFMin
<1>3. \A m \in T : ~(m < n)
    BY <1>2 DEF OpToRel
<1> QED BY <1>3

(* A set of numbers with zero in which every number's successor lies is Nat. *)
LEMMA Induct ==
    ASSUME NEW T, 0 \in T, \A n \in Nat : n \in T => n + 1 \in T
    PROVE  \A n \in Nat : n \in T
<1> DEFINE Bad == {n \in Nat : n \notin T}
<1> SUFFICES ASSUME Bad # {} PROVE FALSE
    OBVIOUS
<1>1. PICK n \in Bad : \A m \in Bad : n <= m
    BY Least
<1>2. n # 0 /\ n \in Nat
    BY <1>1
<1>3. n - 1 \in Nat /\ n - 1 \notin Bad
    BY <1>1, <1>2
<1> QED BY <1>1, <1>3

-------------------------------------------------------------------------------
(* Two runs as the service stores them: every output cell has one target,   *)
(* for the targets are the nodes of a graph that has each once              *)
(* (pipeline.cpp:37-48).                                                    *)
CONSTANT Cell
Verdicts == {"SAFE", "ABSTAIN", "FAIL"}
OneTarget == [cell : Cell, verdict : Verdicts, cs : Int, ms : Int \X Int, holes : Nat]
Runs == {run \in Seq(OneTarget) : \A i, j \in 1..Len(run) : run[i].cell = run[j].cell => i = j}
DiffCalls == {[fn |-> "diff", runs |-> runs] : runs \in UNION {[ids -> Runs] : ids \in SUBSET {"old", "new"}}}
DiffInit == call \in DiffCalls /\ answer = Pending
DiffSpec == DiffInit /\ [][Diff]_cvars

(* The greatest of zero and finitely many numbers. *)
LEMMA GreatestOfMany ==
    ASSUME NEW n \in Nat, NEW f \in [1..n -> Int]
    PROVE  LET S == {0} \cup {f[i] : i \in 1..n} IN
           Max(S) \in S /\ \A x \in S : x <= Max(S)
<1> DEFINE S(k) == {0} \cup {f[i] : i \in 1..k}
           T == {k \in Nat : k <= n => \E m \in S(k) : \A x \in S(k) : m >= x}
<1>1. 0 \in T
    OBVIOUS
<1>2. ASSUME NEW k \in Nat, k \in T PROVE k + 1 \in T
    <2> SUFFICES ASSUME k + 1 <= n PROVE \E m \in S(k + 1) : \A x \in S(k + 1) : m >= x
        OBVIOUS
    <2>1. PICK m \in S(k) : \A x \in S(k) : m >= x
        BY <1>2
    <2>2. S(k + 1) = S(k) \cup {f[k + 1]} /\ f[k + 1] \in Int /\ S(k) \subseteq Int
        <3>1. \A i \in 1..(k + 1) : i \in 1..k \/ i = k + 1
            OBVIOUS
        <3>2. (\A i \in 1..k : i \in 1..(k + 1) /\ i \in 1..n) /\ k + 1 \in 1..(k + 1) /\ k + 1 \in 1..n
            OBVIOUS
        <3>3. \A x : x \in S(k + 1) <=> x = 0 \/ \E i \in 1..(k + 1) : x = f[i]
            OBVIOUS
        <3>4. \A x : x \in S(k) <=> x = 0 \/ \E i \in 1..k : x = f[i]
            OBVIOUS
        <3>5. S(k) \subseteq Int
            BY <3>2, <3>4
        <3> HIDE DEF S
        <3>6. \A x : x \in S(k + 1) <=> x \in S(k) \/ x = f[k + 1]
            BY <3>1, <3>2, <3>3, <3>4
        <3> QED BY <3>2, <3>5, <3>6
    <2>5. \A x \in S(k + 1) : x \in S(k) \/ x = f[k + 1]
        BY <2>2
    <2> HIDE DEF S
    <2>3. CASE m >= f[k + 1]
        BY <2>1, <2>2, <2>3, <2>5
    <2>4. CASE ~(m >= f[k + 1])
        <3>1. \A x \in S(k) : f[k + 1] >= x
            BY <2>1, <2>2, <2>4
        <3>2. f[k + 1] \in S(k + 1) /\ f[k + 1] \in Int
            BY <2>2
        <3>3. \A x \in S(k + 1) : f[k + 1] >= x
            BY <3>1, <3>2, <2>5
        <3> QED BY <3>2, <3>3
    <2> QED BY <2>3, <2>4
<1> HIDE DEF T
<1>3. n \in T
    BY <1>1, <1>2, Induct
<1>4. \E m \in S(n) : \A x \in S(n) : m >= x
    BY <1>3 DEF T
<1>5. S(n) \subseteq Int
    OBVIOUS
<1> HIDE DEF S
<1>6. Max(S(n)) \in S(n) /\ \A x \in S(n) : x <= Max(S(n))
    BY <1>4, <1>5 DEF Max
<1> QED BY <1>6 DEF S

(* With one target a cell, the targets by cell are the targets. *)
LEMMA TargetOfCell ==
    ASSUME NEW run \in Runs, NEW i \in 1..Len(run)
    PROVE  run[i].cell \in Cells(run) /\ TargetsByCell(run)[run[i].cell] = run[i]
<1> DEFINE c == run[i].cell
<1>1. DOMAIN run = 1..Len(run) /\ Len(run) \in Nat
    BY DEF Runs
<1>2. {j \in DOMAIN run : run[j].cell = c} = {i}
    BY <1>1 DEF Runs
<1>3. Max({i}) = i
    <2>1. i \in Int
        BY <1>1
    <2> QED BY <2>1 DEF Max
<1>4. c \in Cells(run)
    BY <1>1 DEF Cells
<1>5. TargetsByCell(run)[c] = run[Max({j \in DOMAIN run : run[j].cell = c})]
    BY <1>4 DEF TargetsByCell
<1> QED BY <1>2, <1>3, <1>4, <1>5

(* What the history says of a run. *)
LEMMA SummaryOfRun ==
    ASSUME NEW run \in Runs
    PROVE  /\ Summary(run).verdict = "SAFE" <=> \A i \in 1..Len(run) : run[i].verdict = "SAFE"
           /\ Summary(run).maxCs \in {0} \cup {run[i].cs : i \in 1..Len(run)}
           /\ Summary(run).maxCs >= 0
           /\ \A i \in 1..Len(run) : run[i].cs <= Summary(run).maxCs
<1>1. DOMAIN run = 1..Len(run) /\ Len(run) \in Nat /\ \A i \in 1..Len(run) : run[i] \in OneTarget
    BY DEF Runs
<1> DEFINE ranks == [i \in 1..Len(run) |-> Rank(run[i].verdict)]
           scores == [i \in 1..Len(run) |-> run[i].cs]
           worst == Max({0} \cup {ranks[i] : i \in 1..Len(run)})
<1>2. ranks \in [1..Len(run) -> Int] /\ scores \in [1..Len(run) -> Int]
    BY <1>1 DEF Rank, OneTarget, Verdicts
<1>3. /\ {Rank(run[i].verdict) : i \in DOMAIN run} = {ranks[i] : i \in 1..Len(run)}
      /\ {run[i].cs : i \in DOMAIN run} = {scores[i] : i \in 1..Len(run)}
    BY <1>1
<1>4. /\ Summary(run).verdict = <<"SAFE", "ABSTAIN", "FAIL">>[worst + 1]
      /\ Summary(run).maxCs = Max({0} \cup {scores[i] : i \in 1..Len(run)})
    BY <1>3 DEF Summary
<1>5. \A i \in 1..Len(run) : /\ ranks[i] \in {0, 1, 2}
                             /\ ranks[i] = 0 <=> run[i].verdict = "SAFE"
                             /\ scores[i] = run[i].cs
    BY <1>1 DEF Rank, OneTarget, Verdicts
<1> HIDE DEF ranks, scores
<1>6. worst \in {0} \cup {ranks[i] : i \in 1..Len(run)} /\ \A x \in {0} \cup {ranks[i] : i \in 1..Len(run)} : x <= worst
    BY <1>1, <1>2, GreatestOfMany
<1>7. worst \in {0, 1, 2} /\ \A i \in 1..Len(run) : ranks[i] <= worst
    BY <1>5, <1>6
<1>8. worst = 0 <=> \A i \in 1..Len(run) : ranks[i] = 0
    BY <1>5, <1>6, <1>7
<1> HIDE DEF worst
<1>9. Summary(run).verdict = "SAFE" <=> worst = 0
    BY <1>4, <1>7
<1>10. LET S == {0} \cup {scores[i] : i \in 1..Len(run)} IN Max(S) \in S /\ \A x \in S : x <= Max(S)
    BY <1>1, <1>2, GreatestOfMany
<1>11. Summary(run).verdict = "SAFE" <=> \A i \in 1..Len(run) : run[i].verdict = "SAFE"
    BY <1>5, <1>8, <1>9
<1>12. {0} \cup {scores[i] : i \in 1..Len(run)} = {0} \cup {run[i].cs : i \in 1..Len(run)}
    BY <1>5
<1>13. /\ Summary(run).maxCs \in {0} \cup {run[i].cs : i \in 1..Len(run)}
       /\ \A x \in {0} \cup {run[i].cs : i \in 1..Len(run)} : x <= Summary(run).maxCs
    BY <1>4, <1>10, <1>12
<1>14. Summary(run).maxCs >= 0 /\ \A i \in 1..Len(run) : run[i].cs <= Summary(run).maxCs
    <2>1. Summary(run).maxCs \in Int
        BY <1>1, <1>13 DEF OneTarget
    <2> QED BY <1>13, <2>1
<1> QED BY <1>11, <1>13, <1>14

(* One cell: SAFE before and not regressed is SAFE, and hardly higher. *)
LEMMA NotRegressed ==
    ASSUME NEW old, NEW new, NEW c \in DOMAIN old, old[c] \in OneTarget, new[c] \in OneTarget,
           old[c].verdict = "SAFE", ~Regressed(Compared(c, old, new))
    PROVE  new[c].verdict = "SAFE" /\ new[c].cs <= old[c].cs + 5
<1>1. /\ Compared(c, old, new).transition = TransitionOf("SAFE", new[c].verdict)
      /\ Compared(c, old, new).delta.cs = new[c].cs - old[c].cs
    BY DEF Compared
<1>2. old[c].cs \in Int /\ new[c].cs \in Int /\ new[c].verdict \in Verdicts
    BY DEF OneTarget
<1>3. TransitionOf("SAFE", "FAIL") = "ToFail" /\ TransitionOf("SAFE", "ABSTAIN") = "SafeAbstain"
      /\ TransitionOf("SAFE", "SAFE") = "SafeSafe"
    BY DEF TransitionOf
<1>4. new[c].verdict = "SAFE"
    BY <1>1, <1>2, <1>3 DEF Regressed, Verdicts
<1> QED BY <1>1, <1>2, <1>3, <1>4 DEF Regressed

(* A comparison that calls the later run not worse leaves no room in it for *)
(* a verdict that is not SAFE, nor for a much higher score.                 *)
LEMMA NoRoom ==
    ASSUME call \in DiffCalls, {"old", "new"} \subseteq Stored, DiffRuns("old", "new").safe,
           Summary(RunOf("old")).verdict = "SAFE", Cells(RunOf("new")) \subseteq Cells(RunOf("old"))
    PROVE  /\ Summary(RunOf("new")).verdict = "SAFE"
           /\ Summary(RunOf("new")).maxCs <= Summary(RunOf("old")).maxCs + 5
<1> DEFINE a == RunOf("old")
           b == RunOf("new")
<1>1. a \in Runs /\ b \in Runs
    <2>1. PICK ids \in SUBSET {"old", "new"} : \E runs \in [ids -> Runs] : call = [fn |-> "diff", runs |-> runs]
        BY DEF DiffCalls
    <2>2. call.runs \in [ids -> Runs] /\ DOMAIN call.runs = ids
        BY <2>1
    <2> QED BY <2>2 DEF Stored, RunOf
<1> DEFINE old == TargetsByCell(a)
           new == TargetsByCell(b)
<1>2. \A c \in Cells(b) : ~Regressed(Compared(c, old, new))
    BY DEF DiffRuns, TargetsByCell
<1>3. DOMAIN old = Cells(a) /\ Cells(b) \subseteq Cells(a) /\ Summary(a).verdict = "SAFE"
    BY DEF TargetsByCell
<1> HIDE DEF a, b, old, new
<1>4. ASSUME NEW i \in 1..Len(b)
      PROVE  b[i].verdict = "SAFE" /\ \E j \in 1..Len(a) : b[i].cs <= a[j].cs + 5
    <2>1. b[i].cell \in Cells(b) /\ new[b[i].cell] = b[i] /\ b[i] \in OneTarget
        BY <1>1, TargetOfCell DEF new, Runs
    <2>2. PICK j \in 1..Len(a) : a[j].cell = b[i].cell
        <3>1. b[i].cell \in Cells(a)
            BY <2>1, <1>3
        <3>2. DOMAIN a = 1..Len(a)
            BY <1>1 DEF Runs
        <3> QED BY <3>1, <3>2 DEF Cells
    <2>3. b[i].cell \in DOMAIN old /\ old[b[i].cell] = a[j] /\ a[j] \in OneTarget
        BY <2>2, <1>1, <1>3, TargetOfCell DEF old, Runs
    <2>4. a[j].verdict = "SAFE"
        BY <1>1, <1>3, SummaryOfRun
    <2> QED BY <2>1, <2>3, <2>4, <1>2, NotRegressed
<1>5. Summary(b).verdict = "SAFE"
    BY <1>1, <1>4, SummaryOfRun
<1>6. Summary(b).maxCs <= Summary(a).maxCs + 5
    <2>1. Summary(a).maxCs \in Int /\ Summary(a).maxCs >= 0
        <3>1. \A j \in 1..Len(a) : a[j].cs \in Int
            <4>1. \A j \in 1..Len(a) : a[j] \in OneTarget
                BY <1>1 DEF Runs
            <4> QED BY <4>1 DEF OneTarget
        <3> QED BY <1>1, <3>1, SummaryOfRun
    <2>2. CASE Summary(b).maxCs = 0
        BY <2>1, <2>2
    <2>3. CASE Summary(b).maxCs # 0
        <3>1. PICK i \in 1..Len(b) : Summary(b).maxCs = b[i].cs
            BY <1>1, <2>3, SummaryOfRun
        <3>2. PICK j \in 1..Len(a) : b[i].cs <= a[j].cs + 5
            BY <1>4
        <3>3. a[j].cs <= Summary(a).maxCs
            BY <1>1, SummaryOfRun
        <3>4. a[j].cs \in Int /\ b[i].cs \in Int
            <4>1. a[j] \in OneTarget /\ b[i] \in OneTarget
                BY <1>1 DEF Runs
            <4> QED BY <4>1 DEF OneTarget
        <3> QED BY <2>1, <3>1, <3>2, <3>3, <3>4
    <2> QED BY <2>2, <2>3
<1> QED BY <1>5, <1>6 DEF a, b

(* Whatever the runs, a comparison that calls the later one not worse and a *)
(* history that calls the earlier one SAFE leave no room for a verdict that *)
(* is not, nor for a higher score (diff.cpp:48-95, service.cpp:934-963).    *)
THEOREM DiffAgreesWithHistoryHolds == DiffSpec => []DiffAgreesWithHistory
<1> DEFINE Inv == call \in DiffCalls /\ DiffAgreesWithHistory
<1>1. DiffInit => Inv
    BY DEF DiffInit, DiffAgreesWithHistory, Got, Answered, Pending
<1>2. Inv /\ [Diff]_cvars => Inv'
    <2> SUFFICES ASSUME Inv, [Diff]_cvars PROVE Inv'
        OBVIOUS
    <2>1. CASE Diff
        <3>1. /\ call' = call
              /\ answer'.value = [diff |-> DiffRuns("old", "new"), history |-> [id \in Stored |-> Summary(RunOf(id))]]
            BY <2>1 DEF Diff, Return
        <3>2. ~({"old", "new"} \subseteq Stored) => ~DiffRuns("old", "new").ok
            BY DEF DiffRuns
        <3>3. RunOf("new")' = RunOf("new") /\ RunOf("old")' = RunOf("old")
            BY <3>1 DEF RunOf
        <3>4. Cells(RunOf("new"))' = Cells(RunOf("new")) /\ Cells(RunOf("old"))' = Cells(RunOf("old"))
            BY <3>3 DEF Cells
        <3>5. SUFFICES ASSUME {"old", "new"} \subseteq Stored,
                              DiffRuns("old", "new").ok, DiffRuns("old", "new").safe,
                              Summary(RunOf("old")).verdict = "SAFE", Cells(RunOf("new")) \subseteq Cells(RunOf("old"))
                       PROVE  /\ Summary(RunOf("new")).verdict = "SAFE"
                              /\ Summary(RunOf("new")).maxCs <= Summary(RunOf("old")).maxCs + 5
            BY <3>1, <3>2, <3>4 DEF DiffAgreesWithHistory
        <3> QED BY <3>5, NoRoom
    <2>2. CASE UNCHANGED cvars
        <3>1. call' = call /\ answer' = answer
            BY <2>2 DEF cvars
        <3>2. \A which : RunOf(which)' = RunOf(which)
            BY <3>1 DEF RunOf
        <3> QED BY <3>1, <3>2 DEF DiffAgreesWithHistory, Got, Answered
    <2> QED BY <2>1, <2>2
<1> QED BY <1>1, <1>2, PTL DEF DiffSpec

-------------------------------------------------------------------------------
(* What the recursive functions of Merkle, Glue, XlsbRecords, Cocycles,     *)
(* ArtifactGraph and Grpc repeat, by the name of the one that does.         *)
Appended(x, y) == x \o y
Follow(S) == {e[2] : e \in {e \in Edges : e[1] \in S}}
Turn(p, k, x) ==
    IF p.does = "up" THEN Up(x)
    ELSE IF p.does = "cut" THEN Cut(x, p.path)
    ELSE IF p.does = "feed" THEN Feed(x, p.path[k])
    ELSE IF p.does = "join" THEN Appended(x, p.path[k])
    ELSE IF p.does = "halve" THEN x \div 2
    ELSE IF p.does = "double" THEN Doubled(x)
    ELSE IF p.does = "glue" THEN GlueSection(x, p.path[k])
    ELSE IF p.does = "overlap" THEN IF p.path[k].symbol = p.symbol THEN Join(x, p.path[k], k) ELSE x
    ELSE IF p.does = "deps" THEN AddDep(x, p.path[k])
    ELSE IF p.does = "expand" THEN IF p.path[k].from = p.node THEN Expand(x, p.path[k], p.depth) ELSE x
    ELSE IF p.does = "collect" THEN CollectTurn(p.path, x, p.depth)
    ELSE IF p.does = "visit" THEN VisitTurn(p.graph, p.path, x)
    ELSE IF p.does = "import" THEN Import(x, p.path[k], p.node)
    ELSE IF p.does = "affect" THEN AffectTurn(p.path, x)
    ELSE IF p.does = "walk" THEN Follow(x)
    ELSE IF p.does = "emit" THEN Emit(x)
    ELSE IF p.does = "groups" THEN AddGroup(x, p.path)
    ELSE IF p.does = "write" THEN Appended(x, WriteField(p.path[k]))
    ELSE IF p.does = "take" THEN Take(x, p.path)
    ELSE IF p.does = "param" THEN IF p.path[k].field = p.node THEN p.path[k].v ELSE x
    ELSE Paired(x, p.path[k])

Turned(g, p, s) == g[0] = s /\ \A k \in Nat : g[k + 1] = Turn(p, k + 1, g[k])
Recursion(g, p, s) == g = [k \in Nat |-> IF k = 0 THEN s ELSE Turn(p, k, g[k - 1])]

Chain(n, g, p, s) ==
    /\ g = [k \in 0..n |-> g[k]] /\ g[0] = s
    /\ \A k \in Nat : k < n => g[k + 1] = Turn(p, k + 1, g[k])

(* There is a function that repeats it. *)
LEMMA Turning ==
    ASSUME NEW p, NEW s
    PROVE  \E g : Recursion(g, p, s)
<1>1. \A n \in Nat : \E g : Chain(n, g, p, s)
    <2> DEFINE T == {n \in Nat : \E g : Chain(n, g, p, s)}
    <2>1. 0 \in T
        <3> DEFINE f == [k \in 0..0 |-> s]
        <3>1. f = [k \in 0..0 |-> f[k]] /\ f[0] = s
            OBVIOUS
        <3>2. Chain(0, f, p, s)
            BY <3>1 DEF Chain
        <3> QED BY <3>2
    <2>2. ASSUME NEW n \in Nat, n \in T PROVE n + 1 \in T
        <3>1. PICK g : Chain(n, g, p, s)
            BY <2>2
        <3> DEFINE f == [k \in 0..(n + 1) |-> IF k = n + 1 THEN Turn(p, n + 1, g[n]) ELSE g[k]]
        <3>2. g[0] = s /\ \A k \in Nat : k < n => g[k + 1] = Turn(p, k + 1, g[k])
            BY <3>1 DEF Chain
        <3>3. f = [k \in 0..(n + 1) |-> f[k]]
            OBVIOUS
        <3>4. f[0] = s
            BY <3>2
        <3>5. ASSUME NEW k \in Nat, k < n + 1 PROVE f[k + 1] = Turn(p, k + 1, f[k])
            <4>1. CASE k = n
                BY <4>1
            <4>2. CASE k # n
                <5>1. k < n /\ k \in 0..(n + 1) /\ k + 1 \in 0..(n + 1) /\ k + 1 # n + 1 /\ k # n + 1
                    BY <3>5, <4>2
                <5> QED BY <3>2, <5>1
            <4> QED BY <4>1, <4>2
        <3> HIDE DEF f
        <3>6. Chain(n + 1, f, p, s)
            BY <3>3, <3>4, <3>5 DEF Chain
        <3> QED BY <3>6
    <2> HIDE DEF T
    <2>3. \A n \in Nat : n \in T
        BY <2>1, <2>2, Induct
    <2> QED BY <2>3 DEF T
<1>2. ASSUME NEW n \in Nat, NEW g, Chain(n, g, p, s), NEW f, Chain(n + 1, f, p, s)
      PROVE  f[n] = g[n]
    <2> DEFINE T == {k \in Nat : k <= n => f[k] = g[k]}
    <2>0. g[0] = s /\ f[0] = s /\ (\A k \in Nat : k < n => g[k + 1] = Turn(p, k + 1, g[k]))
          /\ \A k \in Nat : k < n + 1 => f[k + 1] = Turn(p, k + 1, f[k])
        BY <1>2 DEF Chain
    <2>1. 0 \in T
        BY <2>0
    <2>2. ASSUME NEW k \in Nat, k \in T PROVE k + 1 \in T
        <3> SUFFICES ASSUME k + 1 <= n PROVE f[k + 1] = g[k + 1]
            OBVIOUS
        <3>1. f[k] = g[k] /\ k < n /\ k < n + 1
            BY <2>2
        <3> QED BY <2>0, <3>1
    <2> HIDE DEF T
    <2>3. n \in T
        BY <2>1, <2>2, Induct
    <2> QED BY <2>3 DEF T
<1> DEFINE c == [n \in Nat |-> CHOOSE g : Chain(n, g, p, s)]
           G == [n \in Nat |-> c[n][n]]
<1>3. \A n \in Nat : Chain(n, c[n], p, s)
    BY <1>1
<1> HIDE DEF c
<1>4. \A n \in Nat : c[n][0] = s /\ \A k \in Nat : k < n => c[n][k + 1] = Turn(p, k + 1, c[n][k])
    BY <1>3 DEF Chain
<1>5. ASSUME NEW n \in Nat PROVE G[n] = IF n = 0 THEN s ELSE Turn(p, n, G[n - 1])
    <2>1. CASE n = 0
        BY <1>4, <2>1
    <2>2. CASE n # 0
        <3> DEFINE m == n - 1
        <3>1. m \in Nat /\ m + 1 = n /\ m < n
            BY <2>2
        <3> HIDE DEF m
        <3>2. c[m + 1][m] = c[m][m]
            BY <1>2, <1>3, <3>1
        <3>3. c[n][m + 1] = Turn(p, m + 1, c[n][m])
            BY <1>4, <3>1
        <3>4. c[n][n] = Turn(p, n, c[m][m])
            BY <3>1, <3>2, <3>3
        <3>5. G[n] = Turn(p, n, G[m])
            BY <3>1, <3>4
        <3>6. m = n - 1
            BY DEF m
        <3> QED BY <2>2, <3>5, <3>6
    <2> QED BY <2>1, <2>2
<1>6. G = [k \in Nat |-> IF k = 0 THEN s ELSE Turn(p, k, G[k - 1])]
    BY <1>5
<1> QED BY <1>6 DEF Recursion

(* So what CHOOSE takes repeats it. *)
LEMMA Chosen ==
    ASSUME NEW p, NEW s, NEW f, f = CHOOSE g : Recursion(g, p, s)
    PROVE  Turned(f, p, s)
<1>1. Recursion(f, p, s)
    BY Turning
<1>2. f = [k \in Nat |-> IF k = 0 THEN s ELSE Turn(p, k, f[k - 1])]
    BY <1>1 DEF Recursion
<1>3. ASSUME NEW k \in Nat PROVE f[k + 1] = Turn(p, k + 1, f[k])
    <2>1. k + 1 \in Nat /\ k + 1 # 0 /\ (k + 1) - 1 = k
        OBVIOUS
    <2> QED BY <1>2, <2>1
<1> QED BY <1>2, <1>3 DEF Turned

(* The recursions of the tree, of the way up, of the proof, of the copies    *)
(* and of the sections.                                                      *)
LEMMA LevelsAre ==
    ASSUME NEW leaves
    PROVE  LevelsOver(leaves)[0] = leaves /\ \A k \in Nat : LevelsOver(leaves)[k + 1] = Up(LevelsOver(leaves)[k])
<1> DEFINE p == [does |-> "up"]
           f == LevelsOver(leaves)
<1>1. p.does = "up"
    OBVIOUS
<1> HIDE DEF p
<1>2. \A k, x : Turn(p, k, x) = Up(x)
    BY <1>1 DEF Turn
<1>3. f = CHOOSE g : g = [k \in Nat |-> IF k = 0 THEN leaves ELSE Up(g[k - 1])]
    BY DEF LevelsOver
<1>4. f = CHOOSE g : Recursion(g, p, leaves)
    BY <1>2, <1>3 DEF Recursion
<1> HIDE DEF f
<1>5. Turned(f, p, leaves)
    BY <1>4, Chosen
<1> QED BY <1>2, <1>5 DEF Turned, f

LEMMA HalvedAre ==
    ASSUME NEW i
    PROVE  Halved(i)[0] = i /\ \A k \in Nat : Halved(i)[k + 1] = Halved(i)[k] \div 2
<1> DEFINE p == [does |-> "halve"]
           f == Halved(i)
<1>1. p.does = "halve"
    OBVIOUS
<1> HIDE DEF p
<1>2. \A k, x : Turn(p, k, x) = x \div 2
    BY <1>1 DEF Turn
<1>3. f = CHOOSE g : g = [k \in Nat |-> IF k = 0 THEN i ELSE g[k - 1] \div 2]
    BY DEF Halved
<1>4. f = CHOOSE g : Recursion(g, p, i)
    BY <1>2, <1>3 DEF Recursion
<1> HIDE DEF f
<1>5. Turned(f, p, i)
    BY <1>4, Chosen
<1> QED BY <1>2, <1>5 DEF Turned, f

LEMMA ClimbIs ==
    ASSUME NEW leaf, NEW path
    PROVE  /\ Climb(leaf, path)[0] = leaf
           /\ \A k \in Nat : Climb(leaf, path)[k + 1] = Paired(Climb(leaf, path)[k], path[k + 1])
<1> DEFINE p == [does |-> "climb", path |-> path]
           f == Climb(leaf, path)
<1>1. p.does = "climb" /\ p.path = path
    OBVIOUS
<1> HIDE DEF p
<1>2. \A k, x : Turn(p, k, x) = Paired(x, path[k])
    BY <1>1 DEF Turn
<1>3. f = CHOOSE g : g = [k \in Nat |-> IF k = 0 THEN leaf ELSE Paired(g[k - 1], path[k])]
    BY DEF Climb
<1>4. f = CHOOSE g : Recursion(g, p, leaf)
    BY <1>2, <1>3 DEF Recursion
<1> HIDE DEF f
<1>5. Turned(f, p, leaf)
    BY <1>4, Chosen
<1> QED BY <1>2, <1>5 DEF Turned, f

LEMMA GluedAre ==
    ASSUME NEW ss
    PROVE  /\ Glued(ss)[0] = [acc |-> <<>>, matches |-> {}, conflicts |-> {}]
           /\ \A k \in Nat : Glued(ss)[k + 1] = GlueSection(Glued(ss)[k], ss[k + 1])
<1> DEFINE p == [does |-> "glue", path |-> ss]
           s == [acc |-> <<>>, matches |-> {}, conflicts |-> {}]
           f == Glued(ss)
<1>1. p.does = "glue" /\ p.path = ss
    OBVIOUS
<1> HIDE DEF p
<1>2. \A k, x : Turn(p, k, x) = GlueSection(x, ss[k])
    BY <1>1 DEF Turn
<1>3. f = CHOOSE g : g = [k \in Nat |-> IF k = 0 THEN s ELSE GlueSection(g[k - 1], ss[k])]
    BY DEF Glued
<1> HIDE DEF s
<1>4. f = CHOOSE g : Recursion(g, p, s)
    BY <1>2, <1>3 DEF Recursion
<1> HIDE DEF f
<1>5. Turned(f, p, s)
    BY <1>4, Chosen
<1> QED BY <1>2, <1>5 DEF Turned, f, s

-------------------------------------------------------------------------------
(* The stride of a level, and the leaves padded for it. *)
Stride(bs, k) == Filled(bs)[k].run
Padded(bs, k) == Filled(bs)[k].leaves
Strides(bs, k) == Len(Padded(bs, k)) \div Stride(bs, k)
Pads(bs, k) == Strides(bs, k) > 1 /\ Strides(bs, k) % 2 = 1

LEMMA FilledIs ==
    ASSUME NEW bs
    PROVE  /\ Stride(bs, 0) = 1 /\ Padded(bs, 0) = bs
           /\ \A k \in Nat :
                /\ Stride(bs, k + 1) = 2 * Stride(bs, k)
                /\ Pads(bs, k) =>
                     Padded(bs, k + 1) =
                       Padded(bs, k) \o SubSeq(Padded(bs, k), Len(Padded(bs, k)) - Stride(bs, k) + 1, Len(Padded(bs, k)))
                /\ ~Pads(bs, k) => Padded(bs, k + 1) = Padded(bs, k)
<1> DEFINE p == [does |-> "double"]
           f == Filled(bs)
           start == [run |-> 1, leaves |-> bs]
<1>1. p.does = "double"
    OBVIOUS
<1> HIDE DEF p
<1>2. \A k, x : Turn(p, k, x) = Doubled(x)
    BY <1>1 DEF Turn
<1>3. f = CHOOSE g : g = [k \in Nat |-> IF k = 0 THEN start ELSE Doubled(g[k - 1])]
    BY DEF Filled
<1>6. start.run = 1 /\ start.leaves = bs
    OBVIOUS
<1> HIDE DEF start
<1>4. f = CHOOSE g : Recursion(g, p, start)
    BY <1>2, <1>3 DEF Recursion
<1> HIDE DEF f
<1>5. Turned(f, p, start)
    BY <1>4, Chosen
<1>7. f[0] = start /\ \A k \in Nat : f[k + 1] = Doubled(f[k])
    BY <1>2, <1>5 DEF Turned
<1>8. ASSUME NEW k \in Nat
      PROVE  /\ f[k + 1].run = 2 * f[k].run
             /\ f[k + 1].leaves = IF Pads(bs, k)
                                  THEN f[k].leaves \o SubSeq(f[k].leaves, Len(f[k].leaves) - f[k].run + 1, Len(f[k].leaves))
                                  ELSE f[k].leaves
    <2>1. f[k + 1] = Doubled(f[k])
        BY <1>7
    <2>2. Pads(bs, k) <=> LET runs == Len(f[k].leaves) \div f[k].run IN runs > 1 /\ runs % 2 = 1
        BY DEF Pads, Strides, Stride, Padded, f
    <2> QED BY <2>1, <2>2 DEF Doubled
<1>9. Stride(bs, 0) = 1 /\ Padded(bs, 0) = bs
    BY <1>6, <1>7 DEF Stride, Padded, f
<1>10. ASSUME NEW k \in Nat
      PROVE  /\ Stride(bs, k + 1) = 2 * Stride(bs, k)
             /\ Pads(bs, k) =>
                     Padded(bs, k + 1) =
                       Padded(bs, k) \o SubSeq(Padded(bs, k), Len(Padded(bs, k)) - Stride(bs, k) + 1, Len(Padded(bs, k)))
             /\ ~Pads(bs, k) => Padded(bs, k + 1) = Padded(bs, k)
    <2>1. f[k + 1].run = Stride(bs, k + 1) /\ f[k].run = Stride(bs, k)
          /\ f[k + 1].leaves = Padded(bs, k + 1) /\ f[k].leaves = Padded(bs, k)
        BY DEF Stride, Padded, f
    <2> QED BY <1>8, <2>1
<1> QED BY <1>9, <1>10

(* The runs are as wide whatever the leaves, and ever wider. *)
Wide(k) == Stride(<<>>, k)
LEMMA WideIs ==
    /\ Wide(0) = 1
    /\ \A k \in Nat : Wide(k) \in Nat /\ Wide(k) >= 1 /\ Wide(k + 1) = 2 * Wide(k)
    /\ \A bs : \A k \in Nat : Stride(bs, k) = Wide(k)
<1>1. Wide(0) = 1 /\ \A k \in Nat : Wide(k + 1) = 2 * Wide(k)
    BY FilledIs DEF Wide
<1>2. ASSUME NEW bs, NEW k \in Nat PROVE Stride(bs, k) = Wide(k)
    <2> DEFINE T == {m \in Nat : Stride(bs, m) = Wide(m)}
    <2>3. Stride(bs, 0) = 1 /\ \A m \in Nat : Stride(bs, m + 1) = 2 * Stride(bs, m)
        BY FilledIs
    <2>1. 0 \in T /\ \A m \in Nat : m \in T => m + 1 \in T
        BY <1>1, <2>3
    <2> HIDE DEF T
    <2>2. k \in T
        BY <2>1, Induct
    <2> QED BY <2>2 DEF T
<1>3. ASSUME NEW k \in Nat PROVE Wide(k) \in Nat /\ Wide(k) >= 1
    <2> DEFINE T == {m \in Nat : Wide(m) \in Nat /\ Wide(m) >= 1}
    <2>1. 0 \in T /\ \A m \in Nat : m \in T => m + 1 \in T
        BY <1>1
    <2> HIDE DEF T
    <2>2. k \in T
        BY <2>1, Induct
    <2> QED BY <2>2 DEF T
<1> QED BY <1>1, <1>2, <1>3

LEMMA Wider ==
    ASSUME NEW k \in Nat, NEW m \in Nat, k < m
    PROVE  Wide(k) < Wide(m)
<1> DEFINE T == {d \in Nat : Wide(k) < Wide(k + d + 1)}
<1>1. 0 \in T
    <2>1. Wide(k + 1) = 2 * Wide(k) /\ Wide(k) >= 1 /\ Wide(k) \in Nat
        BY WideIs
    <2>2. k + 0 + 1 = k + 1
        OBVIOUS
    <2> QED BY <2>1, <2>2
<1>2. ASSUME NEW d \in Nat, d \in T PROVE d + 1 \in T
    <2> DEFINE e == k + d + 1
    <2>1. e \in Nat /\ Wide(k) < Wide(e) /\ e + 1 = k + (d + 1) + 1
        BY <1>2
    <2> HIDE DEF e
    <2>2. Wide(e + 1) = 2 * Wide(e) /\ Wide(e) \in Nat /\ Wide(k) \in Nat
        BY <2>1, WideIs
    <2>3. Wide(k) < Wide(e + 1)
        BY <2>1, <2>2
    <2> QED BY <2>1, <2>3
<1> HIDE DEF T
<1> DEFINE d == m - k - 1
<1>3. d \in Nat /\ k + d + 1 = m
    OBVIOUS
<1> HIDE DEF d
<1>4. d \in T
    BY <1>1, <1>2, <1>3, Induct
<1> QED BY <1>3, <1>4 DEF T

-------------------------------------------------------------------------------
(* The levels of the tree over the hashed leaves, which may be anything. *)
CONSTANT Block
Level(bs, k) == LevelsOver(Hashed(bs))[k]
Size(bs, k) == Len(Level(bs, k))
SecondOf(bs, k, i) == IF 2 * i <= Size(bs, k) THEN 2 * i ELSE 2 * i - 1

(* A function on 1..n is a sequence of length n. *)
LEMMA CountedOut ==
    ASSUME NEW n \in Nat, NEW s, s = [i \in 1..n |-> s[i]]
    PROVE  Len(s) = n /\ DOMAIN s = 1..n
<1> DEFINE V == {s[i] : i \in DOMAIN s}
<1>1. DOMAIN s = 1..n
    OBVIOUS
<1>2. s \in [1..n -> V]
    BY <1>1
<1> HIDE DEF V
<1>3. s \in Seq(V) /\ Len(s) = n
    BY <1>2
<1> QED BY <1>1, <1>3

(* What the levels hold. *)
LEMMA LevelIs ==
    ASSUME NEW bs \in Seq(Block)
    PROVE  /\ Size(bs, 0) = Len(bs) /\ \A i \in 1..Len(bs) : Level(bs, 0)[i] = LeafHash(bs[i])
           /\ \A k \in Nat :
                /\ Size(bs, k) \in Nat /\ DOMAIN Level(bs, k) = 1..Size(bs, k)
                /\ Size(bs, k + 1) = (Size(bs, k) + 1) \div 2
                /\ \A i \in 1..Size(bs, k + 1) :
                     Level(bs, k + 1)[i] = NodeHash(Level(bs, k)[2 * i - 1], Level(bs, k)[SecondOf(bs, k, i)])
<1>1. Level(bs, 0) = Hashed(bs) /\ \A k \in Nat : Level(bs, k + 1) = Up(Level(bs, k))
    BY LevelsAre DEF Level
<1>2. Size(bs, 0) = Len(bs) /\ DOMAIN Level(bs, 0) = 1..Len(bs) /\ Len(bs) \in Nat
      /\ \A i \in 1..Len(bs) : Level(bs, 0)[i] = LeafHash(bs[i])
    <2> DEFINE s == Level(bs, 0)
               n == Len(bs)
    <2>1. n \in Nat
        OBVIOUS
    <2>2. s = [i \in 1..n |-> LeafHash(bs[i])]
        BY <1>1 DEF Hashed
    <2>3. s = [i \in 1..n |-> s[i]] /\ \A i \in 1..n : s[i] = LeafHash(bs[i])
        BY <2>2
    <2> HIDE DEF s, n
    <2>4. Len(s) = n /\ DOMAIN s = 1..n
        BY <2>1, <2>3, CountedOut
    <2> QED BY <2>1, <2>3, <2>4 DEF s, n, Size
<1>3. ASSUME NEW k \in Nat, Size(bs, k) \in Nat
      PROVE  /\ Size(bs, k + 1) = (Size(bs, k) + 1) \div 2 /\ DOMAIN Level(bs, k + 1) = 1..Size(bs, k + 1)
             /\ Size(bs, k + 1) \in Nat
             /\ \A i \in 1..Size(bs, k + 1) :
                  Level(bs, k + 1)[i] = NodeHash(Level(bs, k)[2 * i - 1], Level(bs, k)[SecondOf(bs, k, i)])
    <2> DEFINE s == Level(bs, k + 1)
               cur == Level(bs, k)
               n == (Size(bs, k) + 1) \div 2
    <2>1. n \in Nat
        BY <1>3
    <2>2. s = [i \in 1..n |-> NodeHash(cur[2 * i - 1], IF 2 * i <= Len(cur) THEN cur[2 * i] ELSE cur[2 * i - 1])]
        BY <1>1 DEF Up, Size
    <2>3. \A i \in 1..n : s[i] = NodeHash(cur[2 * i - 1], IF 2 * i <= Len(cur) THEN cur[2 * i] ELSE cur[2 * i - 1])
        BY <2>2
    <2>4. s = [i \in 1..n |-> s[i]]
        BY <2>2
    <2>5. ASSUME NEW i \in 1..n PROVE s[i] = NodeHash(cur[2 * i - 1], cur[SecondOf(bs, k, i)])
        BY <2>3 DEF SecondOf, Size
    <2> HIDE DEF s, n, cur
    <2>6. Len(s) = n /\ DOMAIN s = 1..n
        BY <2>1, <2>4, CountedOut
    <2>7. Size(bs, k + 1) = n
        BY <2>6 DEF s, Size
    <2>8. \A i \in 1..n : Level(bs, k + 1)[i] = NodeHash(Level(bs, k)[2 * i - 1], Level(bs, k)[SecondOf(bs, k, i)])
        BY <2>5 DEF s, cur
    <2>9. n = (Size(bs, k) + 1) \div 2 /\ DOMAIN Level(bs, k + 1) = 1..n
        BY <2>6 DEF n, s
    <2> QED BY <2>1, <2>7, <2>8, <2>9
<1>4. ASSUME NEW k \in Nat PROVE Size(bs, k) \in Nat /\ DOMAIN Level(bs, k) = 1..Size(bs, k)
    <2> DEFINE T == {m \in Nat : Size(bs, m) \in Nat /\ DOMAIN Level(bs, m) = 1..Size(bs, m)}
    <2>1. 0 \in T
        BY <1>2
    <2>2. ASSUME NEW m \in Nat, m \in T PROVE m + 1 \in T
        BY <1>3, <2>2
    <2> HIDE DEF T
    <2>3. k \in T
        BY <2>1, <2>2, Induct
    <2> QED BY <2>3 DEF T
<1> QED BY <1>2, <1>3, <1>4

(* The levels shrink to a single node, which the code takes for the root. *)
LEMMA TopIs ==
    ASSUME NEW bs \in Seq(Block), Len(bs) >= 1
    PROVE  /\ TopOver(Hashed(bs)) \in 0..Len(bs) /\ Size(bs, TopOver(Hashed(bs))) = 1
           /\ \A k \in 0..TopOver(Hashed(bs)) : k < TopOver(Hashed(bs)) => Size(bs, k) > 1
           /\ \A k \in Nat : Size(bs, k) >= 1
<1> DEFINE n == Len(bs)
           t == TopOver(Hashed(bs))
<1>0. n \in Nat /\ n >= 1
    OBVIOUS
<1>1. \A k \in Nat : Size(bs, k) \in Nat /\ Size(bs, k + 1) = (Size(bs, k) + 1) \div 2
    BY LevelIs
<1>2. Size(bs, 0) = n
    BY LevelIs
<1> HIDE DEF n
<1>3. ASSUME NEW k \in Nat PROVE Size(bs, k) >= 1 /\ (Size(bs, k) = 1 \/ Size(bs, k) + k <= n)
    <2> DEFINE T == {m \in Nat : Size(bs, m) >= 1 /\ (Size(bs, m) = 1 \/ Size(bs, m) + m <= n)}
    <2>1. 0 \in T
        BY <1>0, <1>2
    <2>2. ASSUME NEW m \in Nat, m \in T PROVE m + 1 \in T
        <3>1. Size(bs, m) \in Nat /\ Size(bs, m + 1) = (Size(bs, m) + 1) \div 2
            BY <1>1
        <3> QED BY <1>0, <2>2, <3>1
    <2> HIDE DEF T
    <2>3. k \in T
        BY <2>1, <2>2, Induct
    <2> QED BY <2>3 DEF T
<1> DEFINE Small == {k \in Nat : Size(bs, k) = 1}
<1>4. n \in Small
    <2>1. Size(bs, n) \in Nat /\ Size(bs, n) >= 1 /\ (Size(bs, n) = 1 \/ Size(bs, n) + n <= n)
        BY <1>0, <1>1, <1>3
    <2> QED BY <1>0, <2>1
<1>5. PICK k \in Small : \A m \in Small : k <= m
    BY <1>4, Least
<1>6. k \in 0..n /\ Size(bs, k) = 1 /\ \A j \in 0..(k - 1) : Size(bs, j) > 1
    <2>1. k \in Nat /\ k <= n /\ Size(bs, k) = 1
        BY <1>4, <1>5
    <2>2. ASSUME NEW j \in 0..(k - 1) PROVE Size(bs, j) > 1
        <3>1. j \in Nat /\ j < k /\ j \notin Small
            BY <1>5, <2>1
        <3>2. Size(bs, j) # 1 /\ Size(bs, j) >= 1 /\ Size(bs, j) \in Nat
            BY <1>1, <1>3, <3>1
        <3> QED BY <3>2
    <2> QED BY <1>0, <2>1, <2>2
<1>7. Len(Hashed(bs)) = n
    BY <1>2, LevelsAre DEF Level, Size
<1>8. t = CHOOSE m \in 0..n : Size(bs, m) = 1 /\ \A j \in 0..(m - 1) : Size(bs, j) > 1
    BY <1>7 DEF TopOver, Level, Size
<1> HIDE DEF t, Small
<1>9. t \in 0..n /\ Size(bs, t) = 1 /\ \A j \in 0..(t - 1) : Size(bs, j) > 1
    BY <1>6, <1>8
<1>10. \A j \in 0..t : j < t => Size(bs, j) > 1
    <2>1. \A j \in 0..t : j < t => j \in 0..(t - 1)
        BY <1>0, <1>9
    <2> QED BY <1>9, <2>1
<1> QED BY <1>3, <1>9, <1>10 DEF t, n

(* The levels the code keeps, and the root. *)
LEMMA RootIs ==
    ASSUME NEW bs \in Seq(Block), Len(bs) >= 1
    PROVE  /\ Len(Levels(Hashed(bs))) = TopOver(Hashed(bs)) + 1
           /\ \A k \in 0..TopOver(Hashed(bs)) : Levels(Hashed(bs))[k + 1] = Level(bs, k)
           /\ Root(Hashed(bs)) = Level(bs, TopOver(Hashed(bs)))[1]
<1> DEFINE leaves == Hashed(bs)
           t == TopOver(leaves)
           s == Levels(leaves)
<1>1. t \in Nat
    BY TopIs
<1>2. leaves # <<>>
    <2>1. Len(leaves) = Len(bs)
        <3>1. Size(bs, 0) = Len(bs) /\ Level(bs, 0) = leaves
            BY LevelIs, LevelsAre DEF Level
        <3> QED BY <3>1 DEF Size
    <2> HIDE DEF leaves
    <2> QED BY <2>1
<1>3. s = [k \in 1..(t + 1) |-> LevelsOver(leaves)[k - 1]]
    BY <1>2 DEF Levels
<1> HIDE DEF leaves, t, s
<1>4. s = [k \in 1..(t + 1) |-> s[k]] /\ t + 1 \in Nat
    BY <1>1, <1>3
<1>5. Len(s) = t + 1
    BY <1>4, CountedOut
<1>6. ASSUME NEW k \in 0..t PROVE s[k + 1] = Level(bs, k)
    <2>1. k + 1 \in 1..(t + 1) /\ k + 1 - 1 = k
        BY <1>1
    <2> QED BY <1>3, <2>1 DEF Level, leaves
<1>7. Root(leaves) = s[t + 1][1] /\ t \in 0..t
    BY <1>1, <1>5 DEF Root, s
<1> QED BY <1>5, <1>6, <1>7 DEF leaves, t, s

-------------------------------------------------------------------------------
(* The way up from a leaf. *)
LEMMA HalvedIs ==
    ASSUME NEW i \in Nat
    PROVE  \A k \in Nat : Halved(i)[k] \in Nat /\ Halved(i)[k] <= i
<1> DEFINE T == {k \in Nat : Halved(i)[k] \in Nat /\ Halved(i)[k] <= i}
<1>1. 0 \in T
    BY HalvedAre
<1>2. ASSUME NEW k \in Nat, k \in T PROVE k + 1 \in T
    <2>1. Halved(i)[k + 1] = Halved(i)[k] \div 2
        BY HalvedAre
    <2> QED BY <1>2, <2>1
<1> HIDE DEF T
<1>3. \A k \in Nat : k \in T
    BY <1>1, <1>2, Induct
<1> QED BY <1>3 DEF T

(* Halving leads to a node of every level. *)
LEMMA HalvedBelow ==
    ASSUME NEW bs \in Seq(Block), NEW i \in 0..(Len(bs) - 1), Len(bs) >= 1
    PROVE  \A k \in Nat : Halved(i)[k] < Size(bs, k)
<1> DEFINE T == {k \in Nat : Halved(i)[k] < Size(bs, k)}
<1>0. i \in Nat /\ i < Len(bs)
    OBVIOUS
<1>1. 0 \in T
    <2>1. Size(bs, 0) = Len(bs)
        BY LevelIs
    <2> QED BY <1>0, <2>1, HalvedAre
<1>2. ASSUME NEW k \in Nat, k \in T PROVE k + 1 \in T
    <2>1. Halved(i)[k + 1] = Halved(i)[k] \div 2 /\ Halved(i)[k] \in Nat
        BY <1>0, HalvedAre, HalvedIs
    <2>2. Size(bs, k + 1) = (Size(bs, k) + 1) \div 2 /\ Size(bs, k) \in Nat
        BY LevelIs
    <2> QED BY <1>2, <2>1, <2>2
<1> HIDE DEF T
<1>3. \A k \in Nat : k \in T
    BY <1>1, <1>2, Induct
<1> QED BY <1>3 DEF T

(* A step of a proof is the other of the two nodes under the one above. *)
LEMMA PathIs ==
    ASSUME NEW bs \in Seq(Block), NEW i \in 0..(Len(bs) - 1), Len(bs) >= 1
    PROVE  /\ Len(Proof(Hashed(bs), i)) = TopOver(Hashed(bs))
           /\ \A k \in Nat : k < TopOver(Hashed(bs)) =>
                LET s == Proof(Hashed(bs), i)[k + 1]
                    j == Halved(i)[k + 1] + 1
                IN  /\ j \in 1..Size(bs, k + 1)
                    /\ s.right <=> Halved(i)[k] % 2 = 0
                    /\ s.right => Halved(i)[k] + 1 = 2 * j - 1 /\ s.sib = Level(bs, k)[SecondOf(bs, k, j)]
                    /\ ~s.right => Halved(i)[k] + 1 = SecondOf(bs, k, j) /\ s.sib = Level(bs, k)[2 * j - 1]
<1> DEFINE leaves == Hashed(bs)
           t == TopOver(leaves)
           p == Proof(leaves, i)
           levels == Levels(leaves)
<1>0. i \in Nat /\ i < Len(bs) /\ Len(bs) \in Nat
    OBVIOUS
<1>1. Len(leaves) = Len(bs)
    <2>1. Size(bs, 0) = Len(bs) /\ Level(bs, 0) = leaves
        BY LevelIs, LevelsAre DEF Level
    <2> QED BY <2>1 DEF Size
<1>2. t \in Nat
    BY TopIs
<1>3. Len(levels) = t + 1 /\ \A k \in 0..t : levels[k + 1] = Level(bs, k)
    BY RootIs
<1>4. ~(i >= Len(leaves))
    BY <1>0, <1>1
<1> DEFINE StepAt(lv) ==
               LET cur == levels[lv]
                   idx == Halved(i)[lv - 1]
                   right == idx % 2 = 0
                   sib == IF right THEN idx + 1 ELSE idx - 1
               IN [sib |-> cur[(IF sib >= Len(cur) THEN idx ELSE sib) + 1], right |-> right]
<1>5. p = [lv \in 1..(Len(levels) - 1) |-> StepAt(lv)]
    BY <1>4 DEF Proof
<1>6. Len(levels) - 1 = t
    BY <1>2, <1>3
<1>7. p = [lv \in 1..t |-> StepAt(lv)]
    BY <1>5, <1>6
<1>8. p = [lv \in 1..t |-> p[lv]]
    BY <1>7
<1> HIDE DEF p, t, levels, leaves
<1>9. Len(p) = t
    BY <1>2, <1>8, CountedOut
<1>10. ASSUME NEW k \in Nat, k < t
       PROVE  LET s == p[k + 1]
                  j == Halved(i)[k + 1] + 1
              IN  /\ j \in 1..Size(bs, k + 1)
                  /\ s.right <=> Halved(i)[k] % 2 = 0
                  /\ s.right => Halved(i)[k] + 1 = 2 * j - 1 /\ s.sib = Level(bs, k)[SecondOf(bs, k, j)]
                  /\ ~s.right => Halved(i)[k] + 1 = SecondOf(bs, k, j) /\ s.sib = Level(bs, k)[2 * j - 1]
    <2> DEFINE s == p[k + 1]
               h == Halved(i)[k]
               g == Halved(i)[k + 1]
               n == Size(bs, k)
               cur == Level(bs, k)
    <2>1. k + 1 \in 1..t /\ k + 1 - 1 = k /\ k \in 0..t
        BY <1>2, <1>10
    <2>2. levels[k + 1] = cur
        BY <1>3, <2>1
    <2>3. p[k + 1] = StepAt(k + 1)
        BY <1>7, <2>1
    <2>4. s = [sib |-> cur[(IF (IF h % 2 = 0 THEN h + 1 ELSE h - 1) >= Len(cur)
                            THEN h ELSE (IF h % 2 = 0 THEN h + 1 ELSE h - 1)) + 1],
               right |-> h % 2 = 0]
        BY <2>1, <2>2, <2>3
    <2>5. n = Len(cur) /\ n \in Nat /\ h \in Nat /\ h < n /\ g = h \div 2 /\ g < Size(bs, k + 1)
          /\ Size(bs, k + 1) \in Nat /\ g \in Nat
        <3>1. n = Len(cur)
            BY DEF Size
        <3>0. k \in Nat /\ k + 1 \in Nat
            BY <1>10
        <3>2. n \in Nat /\ Size(bs, k + 1) \in Nat
            <4>1. \A m \in Nat : Size(bs, m) \in Nat
                BY LevelIs
            <4> QED BY <3>0, <4>1
        <3>3. h \in Nat /\ g \in Nat
            <4>1. \A m \in Nat : Halved(i)[m] \in Nat
                BY <1>0, HalvedIs
            <4> QED BY <3>0, <4>1
        <3>5. g = h \div 2
            BY <3>0, HalvedAre
        <3>4. h < n /\ g < Size(bs, k + 1)
            <4>1. \A m \in Nat : Halved(i)[m] < Size(bs, m)
                BY HalvedBelow
            <4> QED BY <3>0, <4>1
        <3> QED BY <3>1, <3>2, <3>3, <3>4, <3>5
    <2> HIDE DEF StepAt, s, h, g, n, cur
    <2>6. s.right = (h % 2 = 0)
        BY <2>4
    <2>7. SecondOf(bs, k, g + 1) = IF 2 * (g + 1) <= n THEN 2 * (g + 1) ELSE 2 * (g + 1) - 1
        BY DEF SecondOf, n
    <2>8. CASE h % 2 = 0
        <3>1. h + 1 = 2 * (g + 1) - 1
            BY <2>5, <2>8
        <3>2. s.sib = cur[(IF h + 1 >= n THEN h ELSE h + 1) + 1]
            BY <2>4, <2>5, <2>8
        <3>3. (IF h + 1 >= n THEN h ELSE h + 1) + 1 = SecondOf(bs, k, g + 1)
            BY <2>5, <2>7, <3>1
        <3>4. s.sib = cur[SecondOf(bs, k, g + 1)]
            BY <3>2, <3>3
        <3>5. g + 1 \in 1..Size(bs, k + 1)
            BY <2>5
        <3> QED BY <2>6, <2>8, <3>1, <3>4, <3>5 DEF s, h, g, cur
    <2>9. CASE h % 2 # 0
        <3>1. h = 2 * (g + 1) - 1 /\ 2 * (g + 1) <= n
            BY <2>5, <2>9
        <3>2. s.sib = cur[(IF h - 1 >= n THEN h ELSE h - 1) + 1]
            BY <2>4, <2>5, <2>9
        <3>3. (IF h - 1 >= n THEN h ELSE h - 1) + 1 = 2 * (g + 1) - 1
            BY <2>5, <3>1
        <3>4. s.sib = cur[2 * (g + 1) - 1]
            BY <3>2, <3>3
        <3>5. g + 1 \in 1..Size(bs, k + 1) /\ h + 1 = SecondOf(bs, k, g + 1)
            BY <2>5, <2>7, <3>1
        <3> QED BY <2>6, <2>9, <3>4, <3>5 DEF s, h, g, cur
    <2> QED BY <2>8, <2>9
<1> QED BY <1>9, <1>10 DEF p, t, leaves

(* A leaf's own proof climbs along the nodes over it. *)
LEMMA OwnClimbs ==
    ASSUME NEW bs \in Seq(Block), NEW i \in 0..(Len(bs) - 1), Len(bs) >= 1
    PROVE  \A k \in Nat : k <= TopOver(Hashed(bs)) =>
              Climb(LeafHash(bs[i + 1]), Proof(Hashed(bs), i))[k] = Level(bs, k)[Halved(i)[k] + 1]
<1> DEFINE t == TopOver(Hashed(bs))
           p == Proof(Hashed(bs), i)
           acc == Climb(LeafHash(bs[i + 1]), p)
           T == {k \in Nat : k <= t => acc[k] = Level(bs, k)[Halved(i)[k] + 1]}
<1>1. 0 \in T
    <2>1. acc[0] = LeafHash(bs[i + 1]) /\ Halved(i)[0] = i /\ i + 1 \in 1..Len(bs)
        <3>1. acc[0] = LeafHash(bs[i + 1])
            BY ClimbIs
        <3>2. Halved(i)[0] = i
            BY HalvedAre
        <3>3. i + 1 \in 1..Len(bs)
            OBVIOUS
        <3> QED BY <3>1, <3>2, <3>3
    <2> QED BY <2>1, LevelIs
<1>2. ASSUME NEW k \in Nat, k \in T PROVE k + 1 \in T
    <2> SUFFICES ASSUME k + 1 <= t PROVE acc[k + 1] = Level(bs, k + 1)[Halved(i)[k + 1] + 1]
        OBVIOUS
    <2>1. t \in Nat /\ k < t /\ k <= t
        BY TopIs
    <2> DEFINE s == p[k + 1]
               j == Halved(i)[k + 1] + 1
    <2>2. acc[k] = Level(bs, k)[Halved(i)[k] + 1] /\ acc[k + 1] = Paired(acc[k], s)
        <3>1. acc[k + 1] = Paired(acc[k], p[k + 1])
            BY ClimbIs
        <3> QED BY <1>2, <2>1, <3>1
    <2>3. /\ j \in 1..Size(bs, k + 1)
          /\ s.right => Halved(i)[k] + 1 = 2 * j - 1 /\ s.sib = Level(bs, k)[SecondOf(bs, k, j)]
          /\ ~s.right => Halved(i)[k] + 1 = SecondOf(bs, k, j) /\ s.sib = Level(bs, k)[2 * j - 1]
        BY <2>1, PathIs
    <2>4. Level(bs, k + 1)[j] = NodeHash(Level(bs, k)[2 * j - 1], Level(bs, k)[SecondOf(bs, k, j)])
        BY <2>3, LevelIs
    <2> HIDE DEF s, j, acc
    <2>5. acc[k + 1] = Level(bs, k + 1)[j]
        BY <2>2, <2>3, <2>4 DEF Paired
    <2> QED BY <2>5 DEF j
<1> HIDE DEF T
<1>3. \A k \in Nat : k \in T
    BY <1>1, <1>2, Induct
<1> QED BY <1>3 DEF T

-------------------------------------------------------------------------------
(* Of the digests, only that they are terms matters. *)
LEMMA HashesApart ==
    /\ \A b, l, r : LeafHash(b) # NodeHash(l, r) /\ LeafHash(b) # EmptyRoot /\ NodeHash(l, r) # EmptyRoot
    /\ \A b, c : LeafHash(b) = LeafHash(c) => b = c
    /\ \A l, r, m, s : NodeHash(l, r) = NodeHash(m, s) => l = m /\ r = s
<1>1. /\ \A b : DOMAIN LeafHash(b) = {"leaf"} /\ LeafHash(b).leaf = b
      /\ \A l, r : DOMAIN NodeHash(l, r) = {"left", "right"} /\ NodeHash(l, r).left = l /\ NodeHash(l, r).right = r
      /\ DOMAIN EmptyRoot = {"of"}
    BY DEF LeafHash, NodeHash, EmptyRoot
<1>2. {"leaf"} # {"left", "right"} /\ {"leaf"} # {"of"} /\ {"left", "right"} # {"of"}
    OBVIOUS
<1>3. \A b, l, r : LeafHash(b) # NodeHash(l, r) /\ LeafHash(b) # EmptyRoot /\ NodeHash(l, r) # EmptyRoot
    BY <1>1, <1>2
<1>4. \A b, c : LeafHash(b) = LeafHash(c) => b = c
    BY <1>1
<1>5. \A l, r, m, s : NodeHash(l, r) = NodeHash(m, s) => l = m /\ r = s
    BY <1>1
<1> QED BY <1>3, <1>4, <1>5

(* Nodes of different levels, of whatever trees, differ. *)
LEMMA LevelsApart ==
    ASSUME NEW a \in Seq(Block), NEW b \in Seq(Block)
    PROVE  \A k, m \in Nat : \A i \in 1..Size(a, k), j \in 1..Size(b, m) :
              Level(a, k)[i] = Level(b, m)[j] => k = m
<1> DEFINE T == {k \in Nat : \A m \in Nat : \A i \in 1..Size(a, k), j \in 1..Size(b, m) :
                                Level(a, k)[i] = Level(b, m)[j] => k = m}
<1>0. ASSUME NEW c \in Seq(Block), NEW k \in Nat, NEW i \in 1..Size(c, k + 1)
      PROVE  2 * i - 1 \in 1..Size(c, k) /\ SecondOf(c, k, i) \in 1..Size(c, k)
    <2>1. Size(c, k + 1) = (Size(c, k) + 1) \div 2 /\ Size(c, k) \in Nat
        BY LevelIs
    <2>2. i \in Int /\ 1 <= i /\ i <= (Size(c, k) + 1) \div 2
        BY <2>1
    <2>3. 2 * i - 1 \in 1..Size(c, k)
        BY <2>1, <2>2
    <2> QED BY <2>1, <2>2, <2>3 DEF SecondOf
<1>1. 0 \in T
    <2> SUFFICES ASSUME NEW m \in Nat, NEW i \in 1..Size(a, 0), NEW j \in 1..Size(b, m), m # 0
                 PROVE  Level(a, 0)[i] # Level(b, m)[j]
        OBVIOUS
    <2> DEFINE n == m - 1
    <2>1. n \in Nat /\ n + 1 = m
        OBVIOUS
    <2> HIDE DEF n
    <2>2. Level(a, 0)[i] = LeafHash(a[i])
        BY LevelIs
    <2>3. Level(b, n + 1)[j] = NodeHash(Level(b, n)[2 * j - 1], Level(b, n)[SecondOf(b, n, j)])
        BY <2>1, LevelIs
    <2> QED BY <2>1, <2>2, <2>3, HashesApart
<1>2. ASSUME NEW k \in Nat, k \in T PROVE k + 1 \in T
    <2> SUFFICES ASSUME NEW m \in Nat, NEW i \in 1..Size(a, k + 1), NEW j \in 1..Size(b, m),
                        Level(a, k + 1)[i] = Level(b, m)[j]
                 PROVE  k + 1 = m
        OBVIOUS
    <2>1. Level(a, k + 1)[i] = NodeHash(Level(a, k)[2 * i - 1], Level(a, k)[SecondOf(a, k, i)])
        BY LevelIs
    <2>2. CASE m = 0
        <3>1. Level(b, 0)[j] = LeafHash(b[j])
            BY <2>2, LevelIs
        <3> QED BY <2>1, <2>2, <3>1, HashesApart
    <2>3. CASE m # 0
        <3> DEFINE n == m - 1
        <3>1. n \in Nat /\ n + 1 = m
            BY <2>3
        <3> HIDE DEF n
        <3>2. Level(b, n + 1)[j] = NodeHash(Level(b, n)[2 * j - 1], Level(b, n)[SecondOf(b, n, j)])
            BY <3>1, LevelIs
        <3>3. Level(a, k)[2 * i - 1] = Level(b, n)[2 * j - 1]
            BY <2>1, <3>1, <3>2, HashesApart
        <3>4. 2 * i - 1 \in 1..Size(a, k) /\ 2 * j - 1 \in 1..Size(b, n)
            BY <1>0, <3>1
        <3>5. k = n
            BY <1>2, <3>1, <3>3, <3>4
        <3> QED BY <3>1, <3>5
    <2> QED BY <2>2, <2>3
<1> HIDE DEF T
<1>3. \A k \in Nat : k \in T
    BY <1>1, <1>2, Induct
<1> QED BY <1>3 DEF T

-------------------------------------------------------------------------------
(* The padded leaves under the nodes of a level: the q-th of those under the *)
(* j-th node.                                                                *)
LeafIn(bs, k, j, q) == Padded(bs, k)[(j - 1) * Wide(k) + q]

(* A product over one of its factors. *)
LEMMA Quotient ==
    ASSUME NEW n \in Nat, NEW w \in Nat, w >= 1
    PROVE  (n * w) \div w = n
<1> DEFINE a == n * w
           d == a \div w
<1>1. a \in Nat /\ d \in Int /\ d * w <= a /\ a < (d + 1) * w
    OBVIOUS
<1> HIDE DEF d
<1>2. ~(d < n)
    <2> SUFFICES ASSUME d + 1 <= n PROVE FALSE
        BY <1>1
    <2>1. (d + 1) * w <= n * w
        BY <1>1
    <2> QED BY <1>1, <2>1
<1>3. ~(d > n)
    <2> SUFFICES ASSUME n + 1 <= d PROVE FALSE
        BY <1>1
    <2>1. (n + 1) * w <= d * w
        BY <1>1
    <2>2. (n + 1) * w = n * w + w
        OBVIOUS
    <2> QED BY <1>1, <2>1, <2>2
<1> QED BY <1>1, <1>2, <1>3 DEF d

(* Places of a leaf: the j-th of n runs of w, and its q-th. *)
LEMMA PlaceIn ==
    ASSUME NEW n \in Nat, NEW w \in Nat, NEW j \in 1..n, NEW q \in 1..w
    PROVE  (j - 1) * w + q \in 1..(n * w) /\ (j - 1) * w + w = j * w /\ (j - 1) * w >= 0
<1>1. j - 1 >= 0 /\ n - j >= 0 /\ w >= 0 /\ j \in Int
    OBVIOUS
<1>2. (j - 1) * w >= 0 /\ (n - j) * w >= 0
    BY <1>1
<1>3. (n - j) * w = n * w - j * w /\ (j - 1) * w = j * w - w
    BY <1>1
<1> QED BY <1>1, <1>2, <1>3

(* What one doubling does to n runs. *)
LEMMA PaddedStep ==
    ASSUME NEW bs \in Seq(Block), NEW k \in Nat, NEW n \in Nat, n > 1,
           Padded(bs, k) \in Seq(Block), Len(Padded(bs, k)) = n * Wide(k)
    PROVE  LET w == Wide(k)
               s == Padded(bs, k)
               u == Padded(bs, k + 1)
           IN  /\ u \in Seq(Block)
               /\ Len(u) = IF n % 2 = 1 THEN n * w + w ELSE n * w
               /\ \A x \in 1..(n * w) : u[x] = s[x]
               /\ n % 2 = 1 => \A q \in 1..w : u[n * w + q] = s[(n - 1) * w + q]
<1> DEFINE w == Wide(k)
           s == Padded(bs, k)
           u == Padded(bs, k + 1)
           l == n * w
<1>1. w \in Nat /\ w >= 1 /\ Stride(bs, k) = w
    BY WideIs
<1>2. Pads(bs, k) <=> n % 2 = 1
    <2>1. Strides(bs, k) = n
        BY <1>1, Quotient DEF Strides
    <2> QED BY <2>1 DEF Pads
<1>3. /\ Pads(bs, k) => u = s \o SubSeq(s, Len(s) - w + 1, Len(s))
      /\ ~Pads(bs, k) => u = s
    <2>1. Pads(bs, k) => u = s \o SubSeq(s, Len(s) - Stride(bs, k) + 1, Len(s))
        BY FilledIs
    <2>2. ~Pads(bs, k) => u = s
        BY FilledIs
    <2> HIDE DEF w, s, u
    <2> QED BY <1>1, <2>1, <2>2
<1>4. s \in Seq(Block) /\ Len(s) = l /\ l \in Nat /\ w <= l /\ l - w = (n - 1) * w
    <2>1. (n - 1) * w = n * w - w /\ (n - 1) * w >= 0
        BY <1>1
    <2> QED BY <1>1, <2>1
<1> HIDE DEF w, s, u
<1>5. CASE n % 2 # 1
    BY <1>2, <1>3, <1>4, <1>5 DEF w, s, u
<1>6. CASE n % 2 = 1
    <2> DEFINE tail == SubSeq(s, l - w + 1, l)
    <2> HIDE DEF l
    <2>1. tail \in Seq(Block) /\ Len(tail) = w /\ \A q \in 1..w : tail[q] = s[l - w + q]
        <3>1. \A x \in (l - w + 1)..l : s[x] \in Block
            <4>1. ASSUME NEW x \in (l - w + 1)..l PROVE x \in 1..Len(s)
                <5>1. x \in Int /\ l - w + 1 <= x /\ x <= l
                    BY <1>1, <1>4
                <5>2. 1 <= x
                    BY <1>1, <1>4, <5>1
                <5> QED BY <1>4, <5>1, <5>2
            <4>2. \A x \in 1..Len(s) : s[x] \in Block
                BY <1>4
            <4> QED BY <4>1, <4>2
        <3>2. l - w + 1 \in Int /\ l \in Int /\ l - (l - w + 1) + 1 = w /\ l - w + 1 <= l
            BY <1>1, <1>4
        <3>3. /\ tail \in Seq(Block)
              /\ Len(tail) = l - (l - w + 1) + 1
              /\ \A q \in 1..(l - (l - w + 1) + 1) : tail[q] = s[(l - w + 1) + q - 1]
            BY <3>1, <3>2, SubSeqProperties, SMTT(30)
        <3> HIDE DEF tail
        <3>4. ASSUME NEW q \in 1..w PROVE tail[q] = s[l - w + q]
            <4>1. (l - w + 1) + q - 1 = l - w + q /\ q \in 1..(l - (l - w + 1) + 1)
                BY <1>1, <1>4, <3>2
            <4> QED BY <3>3, <4>1
        <3> QED BY <3>2, <3>3, <3>4
    <2>2. u = s \o tail
        BY <1>2, <1>3, <1>4, <1>6
    <2> HIDE DEF tail
    <2>3. /\ u \in Seq(Block) /\ Len(u) = l + w
          /\ \A x \in 1..(l + w) : u[x] = IF x <= l THEN s[x] ELSE tail[x - l]
        <3>1. /\ s \o tail \in Seq(Block) /\ Len(s \o tail) = Len(s) + Len(tail)
              /\ \A x \in 1..(Len(s) + Len(tail)) :
                    (s \o tail)[x] = IF x <= Len(s) THEN s[x] ELSE tail[x - Len(s)]
            BY <1>4, <2>1, ConcatProperties
        <3>2. Len(s) = l /\ Len(tail) = w
            BY <1>4, <2>1
        <3> QED BY <2>2, <3>1, <3>2
    <2>4. \A x \in 1..l : u[x] = s[x]
        BY <1>1, <1>4, <2>3
    <2>5. ASSUME NEW q \in 1..w PROVE u[l + q] = s[l - w + q]
        <3>1. l + q \in 1..(l + w) /\ ~(l + q <= l) /\ l + q - l = q
            BY <1>1, <1>4
        <3>2. u[l + q] = tail[q]
            <4> DEFINE x == l + q
            <4>1. x \in 1..(l + w) /\ ~(x <= l) /\ x - l = q
                BY <1>1, <1>4, <3>1
            <4> HIDE DEF x
            <4>2. u[x] = tail[x - l]
                BY <2>3, <4>1
            <4> QED BY <4>1, <4>2 DEF x
        <3>3. tail[q] = s[l - w + q]
            BY <2>1
        <3> QED BY <3>2, <3>3
    <2>6. \A q \in 1..w : u[n * w + q] = s[(n - 1) * w + q]
        BY <1>4, <2>5 DEF l
    <2> QED BY <1>6, <2>3, <2>4, <2>6 DEF w, s, u, l
<1> QED BY <1>5, <1>6

(* As many runs as the level has nodes. *)
LEMMA PaddedIs ==
    ASSUME NEW bs \in Seq(Block), Len(bs) >= 1
    PROVE  \A k \in Nat : k <= TopOver(Hashed(bs)) =>
              Padded(bs, k) \in Seq(Block) /\ Len(Padded(bs, k)) = Size(bs, k) * Wide(k)
<1> DEFINE t == TopOver(Hashed(bs))
           T == {k \in Nat : k <= t => Padded(bs, k) \in Seq(Block) /\ Len(Padded(bs, k)) = Size(bs, k) * Wide(k)}
<1>1. 0 \in T
    <2>1. Padded(bs, 0) = bs /\ Wide(0) = 1 /\ Size(bs, 0) = Len(bs) /\ Len(bs) \in Nat
        BY FilledIs, WideIs, LevelIs
    <2>2. Len(bs) * 1 = Len(bs)
        BY <2>1
    <2> QED BY <2>1, <2>2
<1>2. ASSUME NEW k \in Nat, k \in T PROVE k + 1 \in T
    <2> SUFFICES ASSUME k + 1 <= t
                 PROVE  Padded(bs, k + 1) \in Seq(Block) /\ Len(Padded(bs, k + 1)) = Size(bs, k + 1) * Wide(k + 1)
        OBVIOUS
    <2> DEFINE n == Size(bs, k)
               w == Wide(k)
    <2>1. t \in Nat /\ k < t /\ k <= t /\ k \in 0..t
        BY TopIs
    <2>2. n > 1 /\ n \in Nat /\ Size(bs, k + 1) = (n + 1) \div 2
        BY <2>1, TopIs, LevelIs
    <2>3. w \in Nat /\ Wide(k + 1) = 2 * w
        BY WideIs
    <2>4. Padded(bs, k) \in Seq(Block) /\ Len(Padded(bs, k)) = n * w
        BY <1>2, <2>1
    <2>5. Padded(bs, k + 1) \in Seq(Block) /\ Len(Padded(bs, k + 1)) = IF n % 2 = 1 THEN n * w + w ELSE n * w
        BY <2>2, <2>4, PaddedStep
    <2> HIDE DEF n, w
    <2>6. CASE n % 2 = 1
        <3>1. 2 * ((n + 1) \div 2) = n + 1
            BY <2>2, <2>6
        <3>2. ((n + 1) \div 2) * (2 * w) = (n + 1) * w
            BY <2>2, <2>3, <3>1
        <3>3. (n + 1) * w = n * w + w
            BY <2>2, <2>3
        <3> QED BY <2>2, <2>3, <2>5, <2>6, <3>2, <3>3
    <2>7. CASE n % 2 # 1
        <3>1. 2 * ((n + 1) \div 2) = n
            BY <2>2, <2>7
        <3>2. ((n + 1) \div 2) * (2 * w) = n * w
            BY <2>2, <2>3, <3>1
        <3> QED BY <2>2, <2>3, <2>5, <2>7, <3>2
    <2> QED BY <2>6, <2>7
<1> HIDE DEF T
<1>3. \A k \in Nat : k \in T
    BY <1>1, <1>2, Induct
<1> QED BY <1>3 DEF T

(* The leaves under a node are those under its two. *)
LEMMA LeavesUnder ==
    ASSUME NEW bs \in Seq(Block), Len(bs) >= 1, NEW k \in Nat, k < TopOver(Hashed(bs)),
           NEW j \in 1..Size(bs, k + 1)
    PROVE  /\ 2 * j - 1 \in 1..Size(bs, k) /\ SecondOf(bs, k, j) \in 1..Size(bs, k)
           /\ \A q \in 1..Wide(k) :
                /\ LeafIn(bs, k + 1, j, q) = LeafIn(bs, k, 2 * j - 1, q)
                /\ LeafIn(bs, k + 1, j, Wide(k) + q) = LeafIn(bs, k, SecondOf(bs, k, j), q)
<1> DEFINE t == TopOver(Hashed(bs))
           n == Size(bs, k)
           w == Wide(k)
           s == Padded(bs, k)
           u == Padded(bs, k + 1)
<1>1. t \in Nat /\ k \in 0..t /\ k <= t
    BY TopIs
<1>2. n > 1 /\ n \in Nat /\ Size(bs, k + 1) = (n + 1) \div 2
    BY <1>1, TopIs, LevelIs
<1>3. w \in Nat /\ Wide(k + 1) = 2 * w
    BY WideIs
<1>4. /\ \A x \in 1..(n * w) : u[x] = s[x]
      /\ n % 2 = 1 => \A q \in 1..w : u[n * w + q] = s[(n - 1) * w + q]
    <2>1. Padded(bs, k) \in Seq(Block) /\ Len(Padded(bs, k)) = n * w
        BY <1>1, PaddedIs
    <2> QED BY <1>2, <2>1, PaddedStep
<1>5. SecondOf(bs, k, j) = IF 2 * j <= n THEN 2 * j ELSE 2 * j - 1
    BY DEF SecondOf
<1>6. /\ \A i, q : LeafIn(bs, k, i, q) = s[(i - 1) * w + q]
      /\ \A i, q : LeafIn(bs, k + 1, i, q) = u[(i - 1) * (2 * w) + q]
    BY <1>3 DEF LeafIn
<1> HIDE DEF n, w, s, u, t
<1>7. j \in Nat /\ 1 <= j /\ j <= (n + 1) \div 2 /\ 2 * j - 1 \in 1..n
    BY <1>2
<1>8. ~(2 * j <= n) => n = 2 * j - 1 /\ n % 2 = 1
    BY <1>2, <1>7
<1>9. ASSUME NEW q \in 1..w
      PROVE  /\ LeafIn(bs, k + 1, j, q) = LeafIn(bs, k, 2 * j - 1, q)
             /\ LeafIn(bs, k + 1, j, w + q) = LeafIn(bs, k, SecondOf(bs, k, j), q)
    <2>1. (j - 1) * (2 * w) = (2 * j - 1 - 1) * w /\ (j - 1) * (2 * w) + w = (2 * j - 1) * w
        BY <1>3, <1>7
    <2>2. LeafIn(bs, k + 1, j, q) = LeafIn(bs, k, 2 * j - 1, q)
        <3>1. (2 * j - 1 - 1) * w + q \in 1..(n * w)
            BY <1>2, <1>3, <1>7, PlaceIn
        <3>2. LeafIn(bs, k + 1, j, q) = u[(2 * j - 1 - 1) * w + q]
            BY <1>6, <2>1
        <3>3. u[(2 * j - 1 - 1) * w + q] = s[(2 * j - 1 - 1) * w + q]
            BY <1>4, <3>1
        <3> QED BY <1>6, <3>2, <3>3
    <2>3. LeafIn(bs, k + 1, j, w + q) = u[(2 * j - 1) * w + q]
        <3>1. (j - 1) * (2 * w) + (w + q) = (2 * j - 1) * w + q
            BY <1>3, <1>7, <2>1
        <3> QED BY <1>6, <3>1
    <2>4. CASE 2 * j <= n
        <3>1. (2 * j - 1) * w + q \in 1..(n * w)
            <4>1. 2 * j \in 1..n
                BY <1>7, <2>4
            <4> QED BY <1>2, <1>3, <4>1, PlaceIn
        <3>2. u[(2 * j - 1) * w + q] = s[(2 * j - 1) * w + q]
            BY <1>4, <3>1
        <3> QED BY <1>5, <1>6, <2>2, <2>3, <2>4, <3>2
    <2>5. CASE ~(2 * j <= n)
        <3>1. u[(2 * j - 1) * w + q] = s[(2 * j - 1 - 1) * w + q]
            BY <1>4, <1>8, <2>5
        <3> QED BY <1>5, <1>6, <2>2, <2>3, <2>5, <3>1
    <2> QED BY <2>4, <2>5
<1>10. 2 * j - 1 \in 1..n /\ SecondOf(bs, k, j) \in 1..n
    BY <1>2, <1>5, <1>7
<1> QED BY <1>9, <1>10 DEF n, w

-------------------------------------------------------------------------------
(* Nodes of a level of two trees are equal when the leaves under them are,  *)
(* copies included.                                                         *)
SameLeaves(a, b, k, i, j) == \A q \in 1..Wide(k) : LeafIn(a, k, i, q) = LeafIn(b, k, j, q)

LEMMA NodesAreTheirLeaves ==
    ASSUME NEW a \in Seq(Block), NEW b \in Seq(Block), Len(a) >= 1, Len(b) >= 1
    PROVE  \A k \in Nat : k <= TopOver(Hashed(a)) /\ k <= TopOver(Hashed(b)) =>
              \A i \in 1..Size(a, k), j \in 1..Size(b, k) :
                 Level(a, k)[i] = Level(b, k)[j] <=> SameLeaves(a, b, k, i, j)
<1> DEFINE ta == TopOver(Hashed(a))
           tb == TopOver(Hashed(b))
           T == {k \in Nat : k <= ta /\ k <= tb =>
                   \A i \in 1..Size(a, k), j \in 1..Size(b, k) :
                      Level(a, k)[i] = Level(b, k)[j] <=> SameLeaves(a, b, k, i, j)}
<1>1. 0 \in T
    <2> SUFFICES ASSUME NEW i \in 1..Size(a, 0), NEW j \in 1..Size(b, 0)
                 PROVE  Level(a, 0)[i] = Level(b, 0)[j] <=> SameLeaves(a, b, 0, i, j)
        OBVIOUS
    <2>1. Level(a, 0)[i] = LeafHash(a[i]) /\ Level(b, 0)[j] = LeafHash(b[j]) /\ i \in Int /\ j \in Int
        <3>1. Size(a, 0) = Len(a) /\ Size(b, 0) = Len(b)
            BY LevelIs
        <3>2. Level(a, 0)[i] = LeafHash(a[i])
            BY <3>1, LevelIs
        <3>3. Level(b, 0)[j] = LeafHash(b[j])
            BY <3>1, LevelIs
        <3> QED BY <3>1, <3>2, <3>3
    <2>2. Level(a, 0)[i] = Level(b, 0)[j] <=> a[i] = b[j]
        BY <2>1, HashesApart
    <2>3. Padded(a, 0) = a /\ Padded(b, 0) = b /\ Wide(0) = 1
        BY FilledIs, WideIs
    <2>4. LeafIn(a, 0, i, 1) = a[i] /\ LeafIn(b, 0, j, 1) = b[j]
        <3>1. (i - 1) * 1 + 1 = i /\ (j - 1) * 1 + 1 = j
            BY <2>1
        <3> QED BY <2>3, <3>1 DEF LeafIn
    <2>5. 1..Wide(0) = {1}
        BY <2>3
    <2> QED BY <2>2, <2>4, <2>5 DEF SameLeaves
<1>2. ASSUME NEW k \in Nat, k \in T PROVE k + 1 \in T
    <2> SUFFICES ASSUME k + 1 <= ta, k + 1 <= tb, NEW i \in 1..Size(a, k + 1), NEW j \in 1..Size(b, k + 1)
                 PROVE  Level(a, k + 1)[i] = Level(b, k + 1)[j] <=> SameLeaves(a, b, k + 1, i, j)
        OBVIOUS
    <2>0. k < ta /\ k < tb /\ k <= ta /\ k <= tb
        <3>1. ta \in Nat /\ tb \in Nat
            BY TopIs
        <3> QED BY <3>1
    <2> DEFINE w == Wide(k)
               i1 == 2 * i - 1
               j1 == 2 * j - 1
               i2 == SecondOf(a, k, i)
               j2 == SecondOf(b, k, j)
    <2>1. w \in Nat /\ Wide(k + 1) = 2 * w
        BY WideIs
    <2>2. Level(a, k + 1)[i] = NodeHash(Level(a, k)[i1], Level(a, k)[i2])
          /\ Level(b, k + 1)[j] = NodeHash(Level(b, k)[j1], Level(b, k)[j2])
        <3>1. Level(a, k + 1)[i] = NodeHash(Level(a, k)[i1], Level(a, k)[i2])
            BY LevelIs
        <3>2. Level(b, k + 1)[j] = NodeHash(Level(b, k)[j1], Level(b, k)[j2])
            BY LevelIs
        <3> QED BY <3>1, <3>2
    <2>3. /\ i1 \in 1..Size(a, k) /\ i2 \in 1..Size(a, k)
          /\ \A q \in 1..w : LeafIn(a, k + 1, i, q) = LeafIn(a, k, i1, q)
                             /\ LeafIn(a, k + 1, i, w + q) = LeafIn(a, k, i2, q)
        BY <2>0, LeavesUnder
    <2>4. /\ j1 \in 1..Size(b, k) /\ j2 \in 1..Size(b, k)
          /\ \A q \in 1..w : LeafIn(b, k + 1, j, q) = LeafIn(b, k, j1, q)
                             /\ LeafIn(b, k + 1, j, w + q) = LeafIn(b, k, j2, q)
        BY <2>0, LeavesUnder
    <2>5. Level(a, k + 1)[i] = Level(b, k + 1)[j]
             <=> Level(a, k)[i1] = Level(b, k)[j1] /\ Level(a, k)[i2] = Level(b, k)[j2]
        BY <2>2, HashesApart
    <2>6. \A x \in 1..Size(a, k), y \in 1..Size(b, k) : Level(a, k)[x] = Level(b, k)[y] <=> SameLeaves(a, b, k, x, y)
        BY <1>2, <2>0
    <2> HIDE DEF T, i1, i2, j1, j2
    <2>7. Level(a, k + 1)[i] = Level(b, k + 1)[j] <=> SameLeaves(a, b, k, i1, j1) /\ SameLeaves(a, b, k, i2, j2)
        BY <2>3, <2>4, <2>5, <2>6
    <2> HIDE DEF w
    <2>8. SameLeaves(a, b, k + 1, i, j)
             <=> \A q \in 1..w : /\ LeafIn(a, k + 1, i, q) = LeafIn(b, k + 1, j, q)
                                 /\ LeafIn(a, k + 1, i, w + q) = LeafIn(b, k + 1, j, w + q)
        <3>1. SameLeaves(a, b, k + 1, i, j) <=> \A q \in 1..(2 * w) : LeafIn(a, k + 1, i, q) = LeafIn(b, k + 1, j, q)
            BY <2>1 DEF SameLeaves
        <3>2. \A q \in 1..w : q \in 1..(2 * w) /\ w + q \in 1..(2 * w)
            BY <2>1
        <3>3. \A x \in 1..(2 * w) : x \in 1..w \/ (x - w \in 1..w /\ w + (x - w) = x)
            BY <2>1
        <3> QED BY <3>1, <3>2, <3>3
    <2>9. SameLeaves(a, b, k + 1, i, j) <=> SameLeaves(a, b, k, i1, j1) /\ SameLeaves(a, b, k, i2, j2)
        <3>1. SameLeaves(a, b, k, i1, j1) <=> \A q \in 1..w : LeafIn(a, k, i1, q) = LeafIn(b, k, j1, q)
            BY DEF SameLeaves, w
        <3>2. SameLeaves(a, b, k, i2, j2) <=> \A q \in 1..w : LeafIn(a, k, i2, q) = LeafIn(b, k, j2, q)
            BY DEF SameLeaves, w
        <3> QED BY <2>3, <2>4, <2>8, <3>1, <3>2
    <2> QED BY <2>7, <2>9
<1> HIDE DEF T
<1>3. \A k \in Nat : k \in T
    BY <1>1, <1>2, Induct
<1> QED BY <1>3 DEF T

(* The leaves of the whole tree. *)
LEMMA UnfoldedIs ==
    ASSUME NEW bs \in Seq(Block), Len(bs) >= 1
    PROVE  /\ Unfolded(bs) \in Seq(Block) /\ Len(Unfolded(bs)) = Wide(TopOver(Hashed(bs)))
           /\ \A q \in 1..Wide(TopOver(Hashed(bs))) : Unfolded(bs)[q] = LeafIn(bs, TopOver(Hashed(bs)), 1, q)
<1> DEFINE t == TopOver(Hashed(bs))
           T == {d \in Nat : Padded(bs, t + d) = Padded(bs, t)}
<1>1. t \in Nat /\ t <= Len(bs) /\ Size(bs, t) = 1 /\ Len(bs) \in Nat
    BY TopIs
<1>2. Wide(t) \in Nat /\ Wide(t) >= 1
    BY <1>1, WideIs
<1>3. Padded(bs, t) \in Seq(Block) /\ Len(Padded(bs, t)) = Wide(t)
    <2>1. Padded(bs, t) \in Seq(Block) /\ Len(Padded(bs, t)) = Size(bs, t) * Wide(t)
        BY <1>1, PaddedIs
    <2>2. Size(bs, t) * Wide(t) = Wide(t)
        BY <1>1, <1>2
    <2> QED BY <2>1, <2>2
<1> HIDE DEF t
<1>4. 0 \in T
    BY <1>1
<1>5. ASSUME NEW d \in Nat, d \in T PROVE d + 1 \in T
    <2> DEFINE e == t + d
    <2>1. e \in Nat /\ e + 1 = t + (d + 1) /\ Padded(bs, e) = Padded(bs, t) /\ t <= e
        BY <1>1, <1>5
    <2> HIDE DEF e
    <2>2. Wide(t) <= Wide(e) /\ Wide(e) \in Nat /\ Wide(e) >= 1 /\ Stride(bs, e) = Wide(e)
        <3>1. CASE t = e
            <4>1. Stride(bs, t) = Wide(t)
                BY <1>1, WideIs
            <4> QED BY <1>2, <3>1, <4>1
        <3>2. CASE t # e
            <4>1. t < e
                BY <1>1, <2>1, <3>2
            <4>2. Wide(t) < Wide(e)
                BY <1>1, <2>1, <4>1, Wider
            <4>3. Wide(e) \in Nat /\ Wide(e) >= 1 /\ Stride(bs, e) = Wide(e)
                BY <2>1, WideIs
            <4> QED BY <1>2, <4>2, <4>3
        <3> QED BY <3>1, <3>2
    <2>3. Strides(bs, e) = Wide(t) \div Wide(e)
        BY <1>3, <2>1, <2>2 DEF Strides
    <2>4. ~(Wide(t) \div Wide(e) > 1)
        <3>1. \A x, y \in Nat : y >= 1 /\ x <= y => ~(x \div y > 1)
            <4> SUFFICES ASSUME NEW x \in Nat, NEW y \in Nat, y >= 1, x <= y, x \div y >= 2 PROVE FALSE
                OBVIOUS
            <4>1. (x \div y) * y <= x /\ x \div y \in Int
                OBVIOUS
            <4>2. (x \div y) * y >= 2 * y
                BY <4>1
            <4> QED BY <4>1, <4>2
        <3> QED BY <1>2, <2>2, <3>1
    <2>5. ~Pads(bs, e)
        BY <2>3, <2>4 DEF Pads
    <2>6. Padded(bs, e + 1) = Padded(bs, e)
        BY <2>1, <2>5, FilledIs
    <2> QED BY <2>1, <2>6
<1> HIDE DEF T
<1> DEFINE d == Len(bs) - t
<1>6. d \in Nat /\ t + d = Len(bs)
    BY <1>1
<1> HIDE DEF d
<1>7. d \in T
    BY <1>4, <1>5, <1>6, Induct
<1>8. Padded(bs, Len(bs)) = Padded(bs, t)
    BY <1>6, <1>7 DEF T
<1>9. Unfolded(bs) = Padded(bs, t)
    BY <1>8 DEF Unfolded, Padded
<1>10. ASSUME NEW q \in 1..Wide(t) PROVE Unfolded(bs)[q] = LeafIn(bs, t, 1, q)
    <2>1. (1 - 1) * Wide(t) + q = q
        BY <1>2
    <2> QED BY <1>9, <2>1 DEF LeafIn
<1> QED BY <1>3, <1>9, <1>10 DEF t

-------------------------------------------------------------------------------
(* What a proof of leaf i convinces of: where that leaf stands under the     *)
(* k-th node of its way up.                                                  *)
Stands(i, k) == i - Wide(k) * Halved(i)[k] + 1

(* On a step to the right it stays where it is, else a stride further. *)
LEMMA StandsIs ==
    ASSUME NEW i \in Nat
    PROVE  /\ Stands(i, 0) = 1
           /\ \A k \in Nat :
                /\ Stands(i, k) \in 1..Wide(k)
                /\ Stands(i, k + 1) = IF Halved(i)[k] % 2 = 0 THEN Stands(i, k) ELSE Wide(k) + Stands(i, k)
<1>1. Wide(0) = 1 /\ Halved(i)[0] = i
    BY WideIs, HalvedAre
<1>2. Stands(i, 0) = 1
    BY <1>1 DEF Stands
<1>3. ASSUME NEW k \in Nat
      PROVE  Stands(i, k + 1) = IF Halved(i)[k] % 2 = 0 THEN Stands(i, k) ELSE Wide(k) + Stands(i, k)
    <2> DEFINE w == Wide(k)
               h == Halved(i)[k]
               g == Halved(i)[k + 1]
    <2>1. w \in Nat /\ Wide(k + 1) = 2 * w
        BY WideIs
    <2>2. h \in Nat /\ g = h \div 2
        BY HalvedIs, HalvedAre
    <2>3. Stands(i, k) = i - w * h + 1 /\ Stands(i, k + 1) = i - (2 * w) * g + 1
        BY <2>1 DEF Stands
    <2> HIDE DEF w, h, g
    <2>4. CASE h % 2 = 0
        <3>1. h = 2 * g /\ g \in Nat
            BY <2>2, <2>4
        <3>2. (2 * w) * g = w * h
            BY <2>1, <3>1
        <3> QED BY <2>3, <2>4, <3>2 DEF h
    <2>5. CASE h % 2 # 0
        <3>1. h = 2 * g + 1 /\ g \in Nat
            BY <2>2, <2>5
        <3>2. w * h = (2 * w) * g + w /\ (2 * w) * g \in Int
            BY <2>1, <3>1
        <3>3. i - (2 * w) * g + 1 = w + (i - w * h + 1)
            BY <2>1, <3>2
        <3> QED BY <2>3, <2>5, <3>3 DEF h, w
    <2> QED BY <2>4, <2>5
<1>4. ASSUME NEW k \in Nat PROVE Stands(i, k) \in 1..Wide(k)
    <2> DEFINE T == {m \in Nat : Stands(i, m) \in 1..Wide(m)}
    <2>1. 0 \in T
        BY <1>1, <1>2
    <2>2. ASSUME NEW m \in Nat, m \in T PROVE m + 1 \in T
        <3>1. Wide(m) \in Nat /\ Wide(m + 1) = 2 * Wide(m)
            BY WideIs
        <3>2. Stands(i, m + 1) = Stands(i, m) \/ Stands(i, m + 1) = Wide(m) + Stands(i, m)
            BY <1>3
        <3>3. Stands(i, m) \in 1..Wide(m)
            BY <2>2
        <3> QED BY <3>1, <3>2, <3>3
    <2> HIDE DEF T
    <2>3. k \in T
        BY <2>1, <2>2, Induct
    <2> QED BY <2>3 DEF T
<1> QED BY <1>2, <1>3, <1>4

(* A hash that climbs by a proof to a node of some tree is the leaf in that *)
(* place under the node, and the node is as high as the proof is long.      *)
LEMMA Descends ==
    ASSUME NEW a \in Seq(Block), NEW b \in Seq(Block), Len(a) >= 1, Len(b) >= 1,
           NEW i \in 0..(Len(a) - 1), NEW x
    PROVE  \A k \in Nat : k <= TopOver(Hashed(a)) =>
              \A m \in Nat : m <= TopOver(Hashed(b)) => \A j \in 1..Size(b, m) :
                 Climb(LeafHash(x), Proof(Hashed(a), i))[k] = Level(b, m)[j] =>
                    k = m /\ x = LeafIn(b, k, j, Stands(i, k))
<1> DEFINE ta == TopOver(Hashed(a))
           tb == TopOver(Hashed(b))
           p == Proof(Hashed(a), i)
           acc == Climb(LeafHash(x), p)
           T == {k \in Nat : k <= ta =>
                    \A m \in Nat : m <= tb => \A j \in 1..Size(b, m) :
                       acc[k] = Level(b, m)[j] => k = m /\ x = LeafIn(b, k, j, Stands(i, k))}
<1>0. i \in Nat /\ ta \in Nat /\ tb \in Nat
    BY TopIs
<1>1. acc[0] = LeafHash(x) /\ \A k \in Nat : acc[k + 1] = Paired(acc[k], p[k + 1])
    BY ClimbIs
<1> HIDE DEF acc
<1>2. ASSUME NEW m \in Nat, NEW j \in 1..Size(b, m + 1)
      PROVE  Level(b, m + 1)[j] = NodeHash(Level(b, m)[2 * j - 1], Level(b, m)[SecondOf(b, m, j)])
    BY LevelIs
<1>3. 0 \in T
    <2> SUFFICES ASSUME NEW m \in Nat, m <= tb, NEW j \in 1..Size(b, m), acc[0] = Level(b, m)[j]
                 PROVE  0 = m /\ x = LeafIn(b, 0, j, Stands(i, 0))
        OBVIOUS
    <2>1. CASE m = 0
        <3>1. Size(b, 0) = Len(b) /\ j \in 1..Len(b)
            BY <2>1, LevelIs
        <3>2. Level(b, 0)[j] = LeafHash(b[j])
            BY <3>1, LevelIs
        <3>3. x = b[j]
            BY <1>1, <2>1, <3>2, HashesApart
        <3>4. Padded(b, 0) = b /\ Wide(0) = 1
            BY FilledIs, WideIs
        <3>5. Stands(i, 0) = 1
            BY <1>0, StandsIs
        <3>6. (j - 1) * 1 + 1 = j
            BY <3>1
        <3> QED BY <2>1, <3>3, <3>4, <3>5, <3>6 DEF LeafIn
    <2>2. CASE m # 0
        <3> DEFINE n == m - 1
        <3>1. n \in Nat /\ n + 1 = m
            BY <2>2
        <3> HIDE DEF n
        <3>2. Level(b, n + 1)[j] = NodeHash(Level(b, n)[2 * j - 1], Level(b, n)[SecondOf(b, n, j)])
            BY <1>2, <3>1
        <3>3. LeafHash(x) = Level(b, n + 1)[j]
            BY <1>1, <3>1
        <3> QED BY <3>2, <3>3, HashesApart
    <2> QED BY <2>1, <2>2
<1>4. ASSUME NEW k \in Nat, k \in T PROVE k + 1 \in T
    <2> SUFFICES ASSUME k + 1 <= ta, NEW m \in Nat, m <= tb, NEW j \in 1..Size(b, m), acc[k + 1] = Level(b, m)[j]
                 PROVE  k + 1 = m /\ x = LeafIn(b, k + 1, j, Stands(i, k + 1))
        OBVIOUS
    <2> DEFINE s == p[k + 1]
    <2>1. k < ta /\ k <= ta
        BY <1>0
    <2>2. s.right <=> Halved(i)[k] % 2 = 0
        BY <2>1, PathIs
    <2>3. acc[k + 1] = IF s.right THEN NodeHash(acc[k], s.sib) ELSE NodeHash(s.sib, acc[k])
        BY <1>1 DEF Paired
    <2> HIDE DEF s, p, T
    <2>4. \E l, r : acc[k + 1] = NodeHash(l, r)
        BY <2>3
    <2>5. m # 0
        <3> SUFFICES ASSUME m = 0 PROVE FALSE
            OBVIOUS
        <3>1. j \in 1..Len(b)
            BY LevelIs
        <3>2. Level(b, 0)[j] = LeafHash(b[j])
            BY <3>1, LevelIs
        <3> QED BY <2>4, <3>2, HashesApart
    <2> DEFINE n == m - 1
    <2>6. n \in Nat /\ n + 1 = m /\ n < tb /\ n <= tb
        BY <1>0, <2>5
    <2> HIDE DEF n
    <2>7. j \in 1..Size(b, n + 1) /\ acc[k + 1] = NodeHash(Level(b, n)[2 * j - 1], Level(b, n)[SecondOf(b, n, j)])
        BY <1>2, <2>6
    <2>8. /\ 2 * j - 1 \in 1..Size(b, n) /\ SecondOf(b, n, j) \in 1..Size(b, n)
          /\ \A q \in 1..Wide(n) :
               /\ LeafIn(b, n + 1, j, q) = LeafIn(b, n, 2 * j - 1, q)
               /\ LeafIn(b, n + 1, j, Wide(n) + q) = LeafIn(b, n, SecondOf(b, n, j), q)
        BY <2>6, <2>7, LeavesUnder
    <2>9. Stands(i, k) \in 1..Wide(k)
          /\ Stands(i, k + 1) = IF Halved(i)[k] % 2 = 0 THEN Stands(i, k) ELSE Wide(k) + Stands(i, k)
        BY <1>0, StandsIs
    <2>10. \A y \in 1..Size(b, n) : acc[k] = Level(b, n)[y] => k = n /\ x = LeafIn(b, k, y, Stands(i, k))
        BY <1>4, <2>1, <2>6 DEF T
    <2>11. CASE s.right
        <3>1. acc[k] = Level(b, n)[2 * j - 1]
            BY <2>3, <2>7, <2>11, HashesApart
        <3>2. k = n /\ x = LeafIn(b, k, 2 * j - 1, Stands(i, k))
            BY <2>8, <2>10, <3>1
        <3>3. Stands(i, k + 1) = Stands(i, k)
            BY <2>2, <2>9, <2>11
        <3> QED BY <2>6, <2>8, <2>9, <3>2, <3>3
    <2>12. CASE ~s.right
        <3>1. acc[k] = Level(b, n)[SecondOf(b, n, j)]
            BY <2>3, <2>7, <2>12, HashesApart
        <3>2. k = n /\ x = LeafIn(b, k, SecondOf(b, n, j), Stands(i, k))
            BY <2>8, <2>10, <3>1
        <3>3. Stands(i, k + 1) = Wide(k) + Stands(i, k)
            BY <2>2, <2>9, <2>12
        <3> QED BY <2>6, <2>8, <2>9, <3>2, <3>3
    <2> QED BY <2>11, <2>12
<1> HIDE DEF T
<1>5. \A k \in Nat : k \in T
    BY <1>3, <1>4, Induct
<1> QED BY <1>5 DEF T, acc

(* The tree over nothing, and that its root is no other tree's. *)
LEMMA EmptyTree ==
    ASSUME NEW bs \in Seq(Block), Len(bs) = 0
    PROVE  bs = <<>> /\ Root(Hashed(bs)) = EmptyRoot /\ Unfolded(bs) = <<>>
<1>1. bs = <<>>
    OBVIOUS
<1>2. Hashed(bs) = <<>>
    BY DEF Hashed
<1>3. Root(Hashed(bs)) = EmptyRoot
    <2>1. Levels(Hashed(bs)) = << <<EmptyRoot>> >>
        BY <1>2 DEF Levels
    <2> QED BY <2>1 DEF Root
<1>4. Unfolded(bs) = Padded(bs, 0)
    BY DEF Unfolded, Padded
<1> QED BY <1>1, <1>3, <1>4, FilledIs

LEMMA NoEmptyRoot ==
    ASSUME NEW bs \in Seq(Block), Len(bs) >= 1
    PROVE  Root(Hashed(bs)) # EmptyRoot
<1> DEFINE t == TopOver(Hashed(bs))
<1>1. t \in Nat /\ Size(bs, t) = 1 /\ Root(Hashed(bs)) = Level(bs, t)[1] /\ t \in 0..t
    BY TopIs, RootIs
<1> HIDE DEF t
<1>2. CASE t = 0
    <2>1. 1 \in 1..Len(bs)
        OBVIOUS
    <2>2. Level(bs, 0)[1] = LeafHash(bs[1])
        BY <2>1, LevelIs
    <2> QED BY <1>1, <1>2, <2>2, HashesApart
<1>3. CASE t # 0
    <2> DEFINE k == t - 1
    <2>1. k \in Nat /\ k + 1 = t
        BY <1>1, <1>3
    <2> HIDE DEF k
    <2>2. 1 \in 1..Size(bs, k + 1)
        BY <1>1, <2>1
    <2>3. Level(bs, k + 1)[1] = NodeHash(Level(bs, k)[2 * 1 - 1], Level(bs, k)[SecondOf(bs, k, 1)])
        BY <2>1, <2>2, LevelIs
    <2> QED BY <1>1, <2>1, <2>3, HashesApart
<1> QED BY <1>2, <1>3

(* The root commits to the leaves, up to copies. *)
LEMMA RootsAgree ==
    ASSUME NEW a \in Seq(Block), NEW b \in Seq(Block)
    PROVE  Root(Hashed(a)) = Root(Hashed(b)) <=> Unfolded(a) = Unfolded(b)
<1>0. \A s \in Seq(Block) : Len(s) = 0 \/ Len(s) >= 1
    OBVIOUS
<1>1. ASSUME NEW bs \in Seq(Block), Len(bs) >= 1 PROVE Unfolded(bs) # <<>> /\ Root(Hashed(bs)) # EmptyRoot
    <2>1. TopOver(Hashed(bs)) \in Nat
        BY <1>1, TopIs
    <2>2. Wide(TopOver(Hashed(bs))) >= 1
        BY <2>1, WideIs
    <2>3. Len(Unfolded(bs)) >= 1
        BY <1>1, <2>2, UnfoldedIs
    <2> QED BY <1>1, <2>3, NoEmptyRoot
<1>2. CASE Len(a) = 0 \/ Len(b) = 0
    BY <1>0, <1>1, <1>2, EmptyTree
<1>3. CASE Len(a) >= 1 /\ Len(b) >= 1
    <2> DEFINE ta == TopOver(Hashed(a))
               tb == TopOver(Hashed(b))
    <2>1. ta \in Nat /\ Size(a, ta) = 1 /\ Root(Hashed(a)) = Level(a, ta)[1]
        BY <1>3, TopIs, RootIs
    <2>2. tb \in Nat /\ Size(b, tb) = 1 /\ Root(Hashed(b)) = Level(b, tb)[1]
        BY <1>3, TopIs, RootIs
    <2>3. /\ Unfolded(a) \in Seq(Block) /\ Len(Unfolded(a)) = Wide(ta)
          /\ \A q \in 1..Wide(ta) : Unfolded(a)[q] = LeafIn(a, ta, 1, q)
        BY <1>3, UnfoldedIs
    <2>4. /\ Unfolded(b) \in Seq(Block) /\ Len(Unfolded(b)) = Wide(tb)
          /\ \A q \in 1..Wide(tb) : Unfolded(b)[q] = LeafIn(b, tb, 1, q)
        BY <1>3, UnfoldedIs
    <2>5. 1 \in 1..Size(a, ta) /\ 1 \in 1..Size(b, tb)
        BY <2>1, <2>2
    <2>6. ta = tb => (Level(a, ta)[1] = Level(b, tb)[1] <=> SameLeaves(a, b, ta, 1, 1))
        <3> SUFFICES ASSUME ta = tb PROVE Level(a, ta)[1] = Level(b, ta)[1] <=> SameLeaves(a, b, ta, 1, 1)
            OBVIOUS
        <3>1. ta \in Nat /\ ta <= ta /\ ta <= tb /\ 1 \in 1..Size(a, ta) /\ 1 \in 1..Size(b, ta)
            BY <2>1, <2>2, <2>5
        <3> QED BY <1>3, <3>1, NodesAreTheirLeaves
    <2>7. Level(a, ta)[1] = Level(b, tb)[1] => ta = tb
        BY <2>1, <2>2, <2>5, LevelsApart
    <2>8. Unfolded(a) = Unfolded(b) => ta = tb
        <3> SUFFICES ASSUME Wide(ta) = Wide(tb), ta # tb PROVE FALSE
            BY <2>3, <2>4
        <3>1. Wide(ta) \in Nat /\ Wide(tb) \in Nat
            BY <2>1, <2>2, WideIs
        <3>2. ta < tb \/ tb < ta
            BY <2>1, <2>2
        <3>3. Wide(ta) < Wide(tb) \/ Wide(tb) < Wide(ta)
            BY <2>1, <2>2, <3>2, Wider
        <3> QED BY <3>1, <3>3
    <2> HIDE DEF ta, tb
    <2>9. ta = tb => (Unfolded(a) = Unfolded(b) <=> SameLeaves(a, b, ta, 1, 1))
        <3> SUFFICES ASSUME ta = tb PROVE Unfolded(a) = Unfolded(b) <=> SameLeaves(a, b, ta, 1, 1)
            OBVIOUS
        <3>1. SameLeaves(a, b, ta, 1, 1) <=> \A q \in 1..Wide(ta) : Unfolded(a)[q] = Unfolded(b)[q]
            BY <2>3, <2>4 DEF SameLeaves
        <3>2. (\A q \in 1..Wide(ta) : Unfolded(a)[q] = Unfolded(b)[q]) => Unfolded(a) = Unfolded(b)
            BY <2>3, <2>4, SeqEqual
        <3> QED BY <3>1, <3>2
    <2> QED BY <2>1, <2>2, <2>6, <2>7, <2>8, <2>9
<1> QED BY <1>0, <1>2, <1>3

(* What a proof of leaf i of one tree is worth against the root of another. *)
LEMMA ProofIsGood ==
    ASSUME NEW a \in Seq(Block), NEW b \in Seq(Block), NEW i \in 0..(Len(a) - 1), NEW x,
           Verify(LeafHash(x), Proof(Hashed(a), i), Root(Hashed(b)))
    PROVE  i + 1 \in DOMAIN Unfolded(b) /\ x = Unfolded(b)[i + 1]
<1> DEFINE p == Proof(Hashed(a), i)
           t == TopOver(Hashed(a))
           acc == Climb(LeafHash(x), p)
<1>0. Len(a) \in Nat /\ Len(b) \in Nat
    OBVIOUS
<1>1. Len(a) >= 1 /\ i \in Nat
    BY <1>0
<1>2. t \in Nat /\ Size(a, t) = 1 /\ Len(p) = t
    BY <1>1, TopIs, PathIs
<1>3. Root(Hashed(b)) = acc[t]
    BY <1>2 DEF Verify
<1> HIDE DEF p, t, acc
<1>4. acc[t] # EmptyRoot
    <2>1. acc[0] = LeafHash(x) /\ \A k \in Nat : acc[k + 1] = Paired(acc[k], p[k + 1])
        BY ClimbIs DEF acc
    <2>2. CASE t = 0
        BY <2>1, <2>2, HashesApart
    <2>3. CASE t # 0
        <3> DEFINE k == t - 1
        <3>1. k \in Nat /\ k + 1 = t
            BY <1>2, <2>3
        <3> HIDE DEF k
        <3>2. acc[t] = Paired(acc[k], p[k + 1])
            BY <2>1, <3>1
        <3> QED BY <3>2, HashesApart DEF Paired
    <2> QED BY <2>2, <2>3
<1>5. Len(b) >= 1
    <2> SUFFICES ASSUME Len(b) = 0 PROVE FALSE
        BY <1>0
    <2> QED BY <1>3, <1>4, EmptyTree
<1> DEFINE tb == TopOver(Hashed(b))
<1>6. tb \in Nat /\ Size(b, tb) = 1 /\ Root(Hashed(b)) = Level(b, tb)[1] /\ tb <= tb /\ 1 \in 1..Size(b, tb)
    BY <1>5, TopIs, RootIs
<1>7. t = tb /\ x = LeafIn(b, t, 1, Stands(i, t))
    <2>1. acc[t] = Level(b, tb)[1] /\ t <= t
        BY <1>2, <1>3, <1>6
    <2>2. \A k \in Nat : k <= t =>
             \A m \in Nat : m <= tb => \A j \in 1..Size(b, m) :
                acc[k] = Level(b, m)[j] => k = m /\ x = LeafIn(b, k, j, Stands(i, k))
        BY <1>1, <1>5, Descends DEF t, acc, p
    <2> HIDE DEF tb
    <2>3. acc[t] = Level(b, tb)[1] => t = tb /\ x = LeafIn(b, t, 1, Stands(i, t))
        BY <1>2, <1>6, <2>1, <2>2
    <2> QED BY <2>1, <2>3
<1>8. Stands(i, t) = i + 1 /\ Stands(i, t) \in 1..Wide(t)
    <2>1. Halved(i)[t] \in Nat /\ Halved(i)[t] < Size(a, t)
        BY <1>1, <1>2, HalvedIs, HalvedBelow
    <2>2. Halved(i)[t] = 0
        BY <1>2, <2>1
    <2>3. Wide(t) * 0 = 0
        BY <1>2, WideIs
    <2>4. Stands(i, t) = i + 1
        BY <1>1, <2>2, <2>3 DEF Stands
    <2> QED BY <1>1, <1>2, <2>4, StandsIs
<1>9. /\ Unfolded(b) \in Seq(Block) /\ Len(Unfolded(b)) = Wide(tb)
      /\ \A q \in 1..Wide(tb) : Unfolded(b)[q] = LeafIn(b, tb, 1, q)
    BY <1>5, UnfoldedIs
<1> HIDE DEF tb
<1>10. DOMAIN Unfolded(b) = 1..Wide(tb)
    BY <1>9
<1> QED BY <1>7, <1>8, <1>9, <1>10

(* It is good for that leaf. *)
LEMMA OwnProofIsGood ==
    ASSUME NEW a \in Seq(Block), NEW i \in 0..(Len(a) - 1)
    PROVE  Verify(LeafHash(a[i + 1]), Proof(Hashed(a), i), Root(Hashed(a)))
<1> DEFINE t == TopOver(Hashed(a))
<1>1. Len(a) >= 1 /\ i \in Nat
    OBVIOUS
<1>2. t \in Nat /\ t <= t /\ Size(a, t) = 1 /\ Len(Proof(Hashed(a), i)) = t /\ Root(Hashed(a)) = Level(a, t)[1]
    BY <1>1, TopIs, PathIs, RootIs
<1>3. Climb(LeafHash(a[i + 1]), Proof(Hashed(a), i))[t] = Level(a, t)[Halved(i)[t] + 1]
    BY <1>1, <1>2, OwnClimbs
<1>4. Halved(i)[t] + 1 = 1
    <2>1. Halved(i)[t] \in Nat /\ Halved(i)[t] < Size(a, t)
        BY <1>1, <1>2, HalvedIs, HalvedBelow
    <2> QED BY <1>2, <2>1
<1> QED BY <1>2, <1>3, <1>4 DEF Verify

(* What the checks of the proofs answer. *)
LEMMA ChecksAre ==
    ASSUME NEW a \in Seq(Block), NEW b \in Seq(Block), NEW i \in 0..(Len(a) - 1)
    PROVE  /\ Checks(Hashed(a), Hashed(b), Root(Hashed(a)))[i] = {LeafHash(a[i + 1])}
           /\ Checks(Hashed(a), Hashed(b), Root(Hashed(b)))[i]
                \subseteq {LeafHash(Unfolded(b)[p]) : p \in {i + 1} \cap DOMAIN Unfolded(b)}
<1> DEFINE all == ToSet(Hashed(a)) \cup ToSet(Hashed(b))
           good(root) == {x \in all : Verify(x, Proof(Hashed(a), i), root)}
<1>0. i + 1 \in 1..Len(a) /\ Len(a) \in Nat
    OBVIOUS
<1>1. /\ DOMAIN Hashed(a) = 1..Len(a) /\ \A k \in 1..Len(a) : Hashed(a)[k] = LeafHash(a[k])
      /\ DOMAIN Hashed(b) = 1..Len(b) /\ \A k \in 1..Len(b) : Hashed(b)[k] = LeafHash(b[k])
    BY DEF Hashed
<1>2. /\ \A x \in all : \E y : x = LeafHash(y)
      /\ LeafHash(a[i + 1]) \in all
    BY <1>0, <1>1 DEF ToSet
<1>3. \A root : Checks(Hashed(a), Hashed(b), root)[i] = good(root)
    <2>1. Len(Hashed(a)) = Len(a)
        <3>1. Size(a, 0) = Len(a) /\ Level(a, 0) = Hashed(a)
            BY LevelIs, LevelsAre DEF Level
        <3> QED BY <3>1 DEF Size
    <2> QED BY <2>1 DEF Checks
<1> HIDE DEF all
<1>4. \A root : \A x \in good(root) : \E y : x = LeafHash(y) /\ Verify(LeafHash(y), Proof(Hashed(a), i), root)
    BY <1>2
<1>5. good(Root(Hashed(a))) = {LeafHash(a[i + 1])}
    <2>1. LeafHash(a[i + 1]) \in good(Root(Hashed(a)))
        BY <1>2, OwnProofIsGood
    <2>2. a[i + 1] = Unfolded(a)[i + 1]
        <3>1. Verify(LeafHash(a[i + 1]), Proof(Hashed(a), i), Root(Hashed(a)))
            BY OwnProofIsGood
        <3> DEFINE x == a[i + 1]
        <3> HIDE DEF x
        <3>2. Verify(LeafHash(x), Proof(Hashed(a), i), Root(Hashed(a)))
            BY <3>1 DEF x
        <3>3. x = Unfolded(a)[i + 1]
            BY <3>2, ProofIsGood
        <3> QED BY <3>3 DEF x
    <2>3. ASSUME NEW x \in good(Root(Hashed(a))) PROVE x = LeafHash(a[i + 1])
        <3>1. PICK y : x = LeafHash(y) /\ Verify(LeafHash(y), Proof(Hashed(a), i), Root(Hashed(a)))
            BY <1>4
        <3>2. y = Unfolded(a)[i + 1]
            BY <3>1, ProofIsGood
        <3> QED BY <2>2, <3>1, <3>2
    <2> HIDE DEF good
    <2> QED BY <2>1, <2>3
<1>6. ASSUME NEW x \in good(Root(Hashed(b)))
      PROVE  x \in {LeafHash(Unfolded(b)[p]) : p \in {i + 1} \cap DOMAIN Unfolded(b)}
    <2>1. PICK y : x = LeafHash(y) /\ Verify(LeafHash(y), Proof(Hashed(a), i), Root(Hashed(b)))
        BY <1>4
    <2>2. i + 1 \in DOMAIN Unfolded(b) /\ y = Unfolded(b)[i + 1]
        BY <2>1, ProofIsGood
    <2> QED BY <2>1, <2>2
<1> HIDE DEF good
<1> QED BY <1>3, <1>5, <1>6

MerkleCalls == {[fn |-> "merkle", a |-> a, b |-> b] : a \in Seq(Block), b \in Seq(Block)}
MerkleInit == call \in MerkleCalls /\ answer = Pending
MerkleSpec == MerkleInit /\ [][MerkleStep]_cvars

(* Whatever the two sequences of leaves: the roots are equal when the       *)
(* leaves are, up to the copies made of odd nodes; a proof convinces of its *)
(* own leaf alone, and against another root only of the leaf that stands    *)
(* there (merkle.cpp:26-68).                                                *)
THEOREM ProofsBindHolds == MerkleSpec => []ProofsBind
<1> DEFINE Inv == call \in MerkleCalls /\ ProofsBind
<1>1. MerkleInit => Inv
    BY DEF MerkleInit, ProofsBind, Got, Answered, Pending
<1>2. Inv /\ [MerkleStep]_cvars => Inv'
    <2> SUFFICES ASSUME Inv, [MerkleStep]_cvars PROVE Inv'
        OBVIOUS
    <2>1. CASE MerkleStep
        <3>1. PICK a \in Seq(Block), b \in Seq(Block) : call = [fn |-> "merkle", a |-> a, b |-> b]
            BY DEF MerkleCalls
        <3>2. call' = call /\ call.a = a /\ call.b = b
            BY <2>1, <3>1 DEF MerkleStep, Return
        <3> DEFINE checked == [same |-> Root(Hashed(a)) = Root(Hashed(b)),
                               own |-> Checks(Hashed(a), Hashed(b), Root(Hashed(a))),
                               other |-> Checks(Hashed(a), Hashed(b), Root(Hashed(b)))]
        <3>3. answer'.value = checked
            BY <2>1, <3>2 DEF MerkleStep, Return
        <3>4. DOMAIN checked.own = 0..(Len(a) - 1)
            <4>1. Len(Hashed(a)) = Len(a)
                <5>1. Size(a, 0) = Len(a) /\ Level(a, 0) = Hashed(a)
                    BY LevelIs, LevelsAre DEF Level
                <5> QED BY <5>1 DEF Size
            <4> QED BY <4>1 DEF Checks
        <3>5. /\ checked.same = (Unfolded(a) = Unfolded(b))
              /\ \A i \in 0..(Len(a) - 1) :
                   /\ checked.own[i] = {LeafHash(a[i + 1])}
                   /\ checked.other[i] \subseteq {LeafHash(Unfolded(b)[p]) : p \in {i + 1} \cap DOMAIN Unfolded(b)}
            BY RootsAgree, ChecksAre
        <3> HIDE DEF checked
        <3>6. ProofsBind'
            BY <3>2, <3>3, <3>4, <3>5 DEF ProofsBind
        <3> QED BY <3>2, <3>6
    <2>2. CASE UNCHANGED cvars
        BY <2>2 DEF cvars, ProofsBind, Got, Answered
    <2> QED BY <2>1, <2>2
<1> QED BY <1>1, <1>2, PTL DEF MerkleSpec

-------------------------------------------------------------------------------
(* Sections of regions: a range with its ends in order, which is a point or  *)
(* everything in sections_of (service.cpp:28-43) but which glue does not     *)
(* require, and a dimension or none (semantic/glue.hpp:9-18).                *)
CONSTANTS Name, Region, Unit
Ranges == {x \in Points \X Points : x[1] <= x[2]}
Section == [region : Region,
            sym : UNION {[ns -> [range : Ranges, dim : Unit \cup {NoDim}]] : ns \in SUBSET Name}]

(* What section i gives of name n, and what is glued of it by section k. *)
Holds(ss, i, n) == n \in DOMAIN ss[i].sym
LowIn(ss, i, n) == ss[i].sym[n].range[1]
HighIn(ss, i, n) == ss[i].sym[n].range[2]
DimIn(ss, i, n) == ss[i].sym[n].dim
Kept(ss, k, n) == Glued(ss)[k].acc[n]
KeptLow(ss, k, n) == Kept(ss, k, n).range[1]
KeptHigh(ss, k, n) == Kept(ss, k, n).range[2]
KeptDim(ss, k, n) == Kept(ss, k, n).dim

LEMMA Given ==
    ASSUME NEW ss \in Seq(Section), NEW i \in 1..Len(ss), NEW n, Holds(ss, i, n)
    PROVE  /\ LowIn(ss, i, n) \in Points /\ HighIn(ss, i, n) \in Points /\ LowIn(ss, i, n) <= HighIn(ss, i, n)
           /\ ss[i].sym[n].range = <<LowIn(ss, i, n), HighIn(ss, i, n)>>
           /\ DimIn(ss, i, n) \in Unit \cup {NoDim}
<1>1. ss[i] \in Section
    OBVIOUS
<1>2. PICK ns \in SUBSET Name : ss[i].sym \in [ns -> [range : Ranges, dim : Unit \cup {NoDim}]]
    BY <1>1 DEF Section
<1>3. ss[i].sym[n] \in [range : Ranges, dim : Unit \cup {NoDim}]
    BY <1>2 DEF Holds
<1>4. ss[i].sym[n].range \in Ranges /\ ss[i].sym[n].dim \in Unit \cup {NoDim}
    BY <1>3
<1> QED BY <1>4 DEF Ranges, LowIn, HighIn, DimIn

(* Ranges that meet, and what the merge of two assignments keeps. *)
LEMMA Meets ==
    ASSUME NEW l \in Int, NEW h \in Int, NEW u \in Int, NEW w \in Int, l <= h, u <= w
    PROVE  /\ (Meet(<<l, h>>, <<u, w>>) = EmptyRange) = (h < u \/ w < l)
           /\ ~(h < u \/ w < l) =>
                \E x \in {l, u}, y \in {h, w} :
                    /\ Meet(<<l, h>>, <<u, w>>) = <<x, y>>
                    /\ x <= y /\ l <= x /\ u <= x /\ y <= h /\ y <= w
<1> DEFINE x == IF l > u THEN l ELSE u
           y == IF h < w THEN h ELSE w
<1>1. x \in {l, u} /\ y \in {h, w} /\ l <= x /\ u <= x /\ y <= h /\ y <= w
    OBVIOUS
<1>2. (x > y) = (h < u \/ w < l)
    OBVIOUS
<1>3. Meet(<<l, h>>, <<u, w>>) = IF x > y THEN EmptyRange ELSE <<x, y>>
    BY DEF Meet
<1> HIDE DEF x, y
<1>4. <<x, y>> = EmptyRange => x > y
    BY DEF EmptyRange
<1>5. x \in Int /\ y \in Int
    BY <1>1
<1> QED BY <1>1, <1>2, <1>3, <1>4, <1>5

Clash(ss, i, j, n) ==
    \/ NoDim \notin {DimIn(ss, i, n), DimIn(ss, j, n)} /\ DimIn(ss, i, n) # DimIn(ss, j, n)
    \/ HighIn(ss, i, n) < LowIn(ss, j, n)

(* Nothing clashed among the first k sections, and every name has the       *)
(* tightest range and the only dimension that they give it; or two of them  *)
(* clash.                                                                   *)
Tight(ss, k, n) ==
    /\ Kept(ss, k, n) \in [range : Points \X Points, dim : Unit \cup {NoDim}, from : Region]
    /\ KeptLow(ss, k, n) <= KeptHigh(ss, k, n)
    /\ \A i \in 1..k : Holds(ss, i, n) =>
         /\ LowIn(ss, i, n) <= KeptLow(ss, k, n) /\ KeptHigh(ss, k, n) <= HighIn(ss, i, n)
         /\ DimIn(ss, i, n) \in {NoDim, KeptDim(ss, k, n)}
    /\ \E i \in 1..k : Holds(ss, i, n) /\ LowIn(ss, i, n) = KeptLow(ss, k, n)
    /\ \E i \in 1..k : Holds(ss, i, n) /\ HighIn(ss, i, n) = KeptHigh(ss, k, n)
    /\ KeptDim(ss, k, n) # NoDim => \E i \in 1..k : Holds(ss, i, n) /\ DimIn(ss, i, n) = KeptDim(ss, k, n)
GluesWell(ss, k) ==
    /\ Glued(ss)[k].conflicts = {}
    /\ \A n : n \in DOMAIN Glued(ss)[k].acc <=> \E i \in 1..k : Holds(ss, i, n)
    /\ \A n \in DOMAIN Glued(ss)[k].acc : Tight(ss, k, n)
Clashes(ss, k) ==
    /\ Glued(ss)[k].conflicts # {}
    /\ \E i \in 1..k, j \in 1..k : \E n : Holds(ss, i, n) /\ Holds(ss, j, n) /\ Clash(ss, i, j, n)

LEMMA SectionGlued ==
    ASSUME NEW ss \in Seq(Section), NEW k \in Nat
    PROVE  /\ Glued(ss)[k + 1].conflicts = Glued(ss)[k].conflicts \cup Conflicts(Glued(ss)[k].acc, ss[k + 1])
           /\ DOMAIN Glued(ss)[k + 1].acc = DOMAIN Glued(ss)[k].acc \cup DOMAIN ss[k + 1].sym
           /\ \A n \in DOMAIN Glued(ss)[k + 1].acc :
                Kept(ss, k + 1, n) =
                    IF n \notin DOMAIN Glued(ss)[k].acc
                    THEN [range |-> ss[k + 1].sym[n].range, dim |-> ss[k + 1].sym[n].dim, from |-> ss[k + 1].region]
                    ELSE IF n \in DOMAIN ss[k + 1].sym THEN Merge(Kept(ss, k, n), ss[k + 1].sym[n])
                    ELSE Kept(ss, k, n)
<1> DEFINE r == Glued(ss)[k]
           s == ss[k + 1]
<1>1. Glued(ss)[k + 1] = GlueSection(r, s)
    BY GluedAre
<1> HIDE DEF r, s
<1>2. /\ GlueSection(r, s).conflicts = r.conflicts \cup Conflicts(r.acc, s)
      /\ DOMAIN GlueSection(r, s).acc = DOMAIN r.acc \cup DOMAIN s.sym
      /\ \A n \in DOMAIN GlueSection(r, s).acc :
           GlueSection(r, s).acc[n] =
               IF n \notin DOMAIN r.acc THEN [range |-> s.sym[n].range, dim |-> s.sym[n].dim, from |-> s.region]
               ELSE IF n \in DOMAIN s.sym THEN Merge(r.acc[n], s.sym[n]) ELSE r.acc[n]
    BY DEF GlueSection
<1> QED BY <1>1, <1>2 DEF r, s, Kept

(* A name that only the new section gives. *)
LEMMA TightWhenNew ==
    ASSUME NEW ss \in Seq(Section), NEW k \in Nat, k < Len(ss), GluesWell(ss, k),
           NEW n, n \notin DOMAIN Glued(ss)[k].acc, Holds(ss, k + 1, n)
    PROVE  Tight(ss, k + 1, n)
<1>1. k + 1 \in 1..Len(ss) /\ k + 1 \in Nat /\ k + 1 \in 1..(k + 1)
    OBVIOUS
<1>2. ss[k + 1] \in Section
    BY <1>1
<1>3. n \in DOMAIN ss[k + 1].sym
    BY DEF Holds
<1>4. Kept(ss, k + 1, n) = [range |-> ss[k + 1].sym[n].range, dim |-> ss[k + 1].sym[n].dim, from |-> ss[k + 1].region]
    BY <1>3, SectionGlued
<1>5. /\ LowIn(ss, k + 1, n) \in Points /\ HighIn(ss, k + 1, n) \in Points
      /\ LowIn(ss, k + 1, n) <= HighIn(ss, k + 1, n)
      /\ ss[k + 1].sym[n].range = <<LowIn(ss, k + 1, n), HighIn(ss, k + 1, n)>>
      /\ DimIn(ss, k + 1, n) \in Unit \cup {NoDim}
    BY <1>1, Given
<1>6. ss[k + 1].region \in Region
    BY <1>2 DEF Section
<1>7. Kept(ss, k + 1, n) \in [range : Points \X Points, dim : Unit \cup {NoDim}, from : Region]
    BY <1>4, <1>5, <1>6 DEF DimIn
<1>8. /\ KeptLow(ss, k + 1, n) = LowIn(ss, k + 1, n) /\ KeptHigh(ss, k + 1, n) = HighIn(ss, k + 1, n)
      /\ KeptDim(ss, k + 1, n) = DimIn(ss, k + 1, n)
    BY <1>4 DEF KeptLow, KeptHigh, KeptDim, LowIn, HighIn, DimIn
<1>9. \A i \in 1..(k + 1) : Holds(ss, i, n) => i = k + 1
    <2>1. \A i \in 1..k : ~Holds(ss, i, n)
        BY DEF GluesWell
    <2> QED BY <2>1
<1>10. /\ LowIn(ss, k + 1, n) <= KeptLow(ss, k + 1, n) /\ KeptHigh(ss, k + 1, n) <= HighIn(ss, k + 1, n)
       /\ KeptLow(ss, k + 1, n) <= KeptHigh(ss, k + 1, n)
    <2>1. \A x \in Points : x <= x
        BY PointsAssumption
    <2> QED BY <1>5, <1>8, <2>1
<1> QED BY <1>1, <1>7, <1>8, <1>9, <1>10 DEF Tight

(* A name that only sections before it gave. *)
LEMMA TightWhenOld ==
    ASSUME NEW ss \in Seq(Section), NEW k \in Nat, k < Len(ss), GluesWell(ss, k),
           NEW n, n \in DOMAIN Glued(ss)[k].acc, ~Holds(ss, k + 1, n)
    PROVE  Tight(ss, k + 1, n)
<1>1. n \notin DOMAIN ss[k + 1].sym
    BY DEF Holds
<1>2. Kept(ss, k + 1, n) = Kept(ss, k, n)
    <2>1. DOMAIN Glued(ss)[k + 1].acc = DOMAIN Glued(ss)[k].acc \cup DOMAIN ss[k + 1].sym
        BY SectionGlued
    <2> QED BY <1>1, <2>1, SectionGlued
<1>3. /\ KeptLow(ss, k + 1, n) = KeptLow(ss, k, n) /\ KeptHigh(ss, k + 1, n) = KeptHigh(ss, k, n)
      /\ KeptDim(ss, k + 1, n) = KeptDim(ss, k, n)
    BY <1>2 DEF KeptLow, KeptHigh, KeptDim
<1>4. Tight(ss, k, n)
    BY DEF GluesWell
<1>5. \A i \in 1..(k + 1) : Holds(ss, i, n) => i \in 1..k
    OBVIOUS
<1>6. \A i \in 1..k : i \in 1..(k + 1)
    OBVIOUS
<1> QED BY <1>2, <1>3, <1>4, <1>5, <1>6 DEF Tight

(* A name given before and again: a clash is one of two sections, and       *)
(* without one what is merged is tight.                                     *)
Clashing(ss, k, n) ==
    \/ DimClash(Kept(ss, k, n), ss[k + 1].sym[n])
    \/ RangeClash(Kept(ss, k, n), ss[k + 1].sym[n])

LEMMA ClashOfTwo ==
    ASSUME NEW ss \in Seq(Section), NEW k \in Nat, k < Len(ss), GluesWell(ss, k),
           NEW n, n \in DOMAIN Glued(ss)[k].acc, Holds(ss, k + 1, n)
    PROVE  /\ Clashing(ss, k, n) =>
                \E i \in 1..(k + 1), j \in 1..(k + 1) :
                    Holds(ss, i, n) /\ Holds(ss, j, n) /\ Clash(ss, i, j, n)
           /\ ~Clashing(ss, k, n) => Tight(ss, k + 1, n)
<1> DEFINE cur == Kept(ss, k, n)
           a == ss[k + 1].sym[n]
           l == KeptLow(ss, k, n)
           h == KeptHigh(ss, k, n)
           d == KeptDim(ss, k, n)
           u == LowIn(ss, k + 1, n)
           w == HighIn(ss, k + 1, n)
           e == DimIn(ss, k + 1, n)
<1>1. k + 1 \in 1..Len(ss) /\ k + 1 \in Nat /\ k + 1 \in 1..(k + 1) /\ \A i \in 1..k : i \in 1..(k + 1)
    OBVIOUS
<1>2. u \in Points /\ w \in Points /\ u <= w /\ a.range = <<u, w>> /\ e \in Unit \cup {NoDim} /\ a.dim = e
    BY <1>1, Given DEF DimIn
<1>3. Tight(ss, k, n)
    BY DEF GluesWell
<1>4. cur \in [range : Points \X Points, dim : Unit \cup {NoDim}, from : Region]
    BY <1>3 DEF Tight
<1>5. l \in Points /\ h \in Points /\ cur.range = <<l, h>> /\ d \in Unit \cup {NoDim} /\ cur.dim = d /\ l <= h
    <2>1. cur.range \in Points \X Points /\ cur.dim \in Unit \cup {NoDim}
        BY <1>4
    <2>2. l <= h
        BY <1>3 DEF Tight
    <2> QED BY <2>1, <2>2 DEF KeptLow, KeptHigh, KeptDim
<1>6. l \in Int /\ h \in Int /\ u \in Int /\ w \in Int
    BY <1>2, <1>5, PointsAssumption
<1>7. DimClash(cur, a) = (NoDim \notin {d, e} /\ d # e)
    BY <1>2, <1>5 DEF DimClash
<1>8. RangeClash(cur, a) = (Meet(<<l, h>>, <<u, w>>) = EmptyRange)
    BY <1>2, <1>5 DEF RangeClash
<1>9. (Meet(<<l, h>>, <<u, w>>) = EmptyRange) = (h < u \/ w < l)
    BY <1>2, <1>5, <1>6, Meets
<1>10. /\ n \in DOMAIN Glued(ss)[k + 1].acc
       /\ Kept(ss, k + 1, n) = Merge(cur, a)
    BY SectionGlued DEF Holds
<1>11. /\ \A i \in 1..k : Holds(ss, i, n) =>
            LowIn(ss, i, n) <= l /\ h <= HighIn(ss, i, n) /\ DimIn(ss, i, n) \in {NoDim, d}
       /\ \E i \in 1..k : Holds(ss, i, n) /\ LowIn(ss, i, n) = l
       /\ \E i \in 1..k : Holds(ss, i, n) /\ HighIn(ss, i, n) = h
       /\ d # NoDim => \E i \in 1..k : Holds(ss, i, n) /\ DimIn(ss, i, n) = d
    BY <1>3 DEF Tight
<1> HIDE DEF cur, a, l, h, d, u, w, e
<1>12. ASSUME Clashing(ss, k, n)
       PROVE  \E i \in 1..(k + 1), j \in 1..(k + 1) :
                Holds(ss, i, n) /\ Holds(ss, j, n) /\ Clash(ss, i, j, n)
    <2>1. DimClash(cur, a) \/ RangeClash(cur, a)
        BY <1>12 DEF Clashing, cur, a
    <2>2. CASE DimClash(cur, a)
        <3>1. PICK i \in 1..k : Holds(ss, i, n) /\ DimIn(ss, i, n) = d
            BY <1>7, <1>11, <2>2
        <3>2. Clash(ss, i, k + 1, n)
            BY <1>7, <2>2, <3>1 DEF Clash, e
        <3> QED BY <1>1, <3>1, <3>2
    <2>3. CASE RangeClash(cur, a)
        <3>1. CASE h < u
            <4>1. PICK i \in 1..k : Holds(ss, i, n) /\ HighIn(ss, i, n) = h
                BY <1>11
            <4>2. Clash(ss, i, k + 1, n)
                BY <3>1, <4>1 DEF Clash, u
            <4> QED BY <1>1, <4>1, <4>2
        <3>2. CASE w < l
            <4>1. PICK j \in 1..k : Holds(ss, j, n) /\ LowIn(ss, j, n) = l
                BY <1>11
            <4>2. Clash(ss, k + 1, j, n)
                BY <3>2, <4>1 DEF Clash, w
            <4> QED BY <1>1, <4>1, <4>2
        <3> QED BY <1>8, <1>9, <2>3, <3>1, <3>2
    <2> QED BY <2>1, <2>2, <2>3
<1>13. ASSUME ~Clashing(ss, k, n) PROVE Tight(ss, k + 1, n)
    <2>1. ~DimClash(cur, a) /\ ~RangeClash(cur, a)
        BY <1>13 DEF Clashing, cur, a
    <2> DEFINE f == IF d = NoDim THEN e ELSE d
    <2>2. PICK x \in {l, u}, y \in {h, w} :
              /\ Meet(<<l, h>>, <<u, w>>) = <<x, y>>
              /\ x <= y /\ l <= x /\ u <= x /\ y <= h /\ y <= w
        <3>1. l <= h /\ u <= w
            BY <1>2, <1>5
        <3>2. ~(h < u \/ w < l)
            BY <1>8, <1>9, <2>1
        <3> QED BY <1>6, <3>1, <3>2, Meets
    <2>3. Merge(cur, a) = [cur EXCEPT !.dim = IF @ = NoDim THEN a.dim ELSE @, !.range = Meet(@, a.range)]
        BY <2>1 DEF Merge
    <2>4. Merge(cur, a) = [range |-> <<x, y>>, dim |-> f, from |-> cur.from]
        BY <1>2, <1>4, <1>5, <2>2, <2>3
    <2>5. x \in Points /\ y \in Points /\ f \in Unit \cup {NoDim} /\ cur.from \in Region
        BY <1>2, <1>4, <1>5
    <2>6. Kept(ss, k + 1, n) = [range |-> <<x, y>>, dim |-> f, from |-> cur.from]
        BY <1>10, <2>4
    <2>7. KeptLow(ss, k + 1, n) = x /\ KeptHigh(ss, k + 1, n) = y /\ KeptDim(ss, k + 1, n) = f
        BY <2>6 DEF KeptLow, KeptHigh, KeptDim
    <2>8. Kept(ss, k + 1, n) \in [range : Points \X Points, dim : Unit \cup {NoDim}, from : Region]
        BY <2>5, <2>6
    <2>9. ASSUME NEW i \in 1..(k + 1), Holds(ss, i, n)
          PROVE  LowIn(ss, i, n) <= x /\ y <= HighIn(ss, i, n) /\ DimIn(ss, i, n) \in {NoDim, f}
        <3>1. CASE i = k + 1
            <4>1. LowIn(ss, i, n) = u /\ HighIn(ss, i, n) = w /\ DimIn(ss, i, n) = e
                BY <3>1 DEF u, w, e
            <4>2. e \in {NoDim, f}
                BY <1>7, <2>1
            <4> QED BY <2>2, <4>1, <4>2
        <3>2. CASE i # k + 1
            <4>1. i \in 1..k
                BY <3>2
            <4>2. LowIn(ss, i, n) <= l /\ h <= HighIn(ss, i, n) /\ DimIn(ss, i, n) \in {NoDim, d}
                BY <1>11, <2>9, <4>1
            <4>3. LowIn(ss, i, n) \in Int /\ HighIn(ss, i, n) \in Int
                <5>1. i \in 1..Len(ss)
                    BY <4>1
                <5> QED BY <2>9, <5>1, Given, PointsAssumption
            <4>4. x \in Int /\ y \in Int
                BY <2>5, PointsAssumption
            <4> QED BY <1>6, <2>2, <4>2, <4>3, <4>4
        <3> QED BY <3>1, <3>2
    <2>10. Holds(ss, k + 1, n) /\ u = LowIn(ss, k + 1, n) /\ w = HighIn(ss, k + 1, n) /\ e = DimIn(ss, k + 1, n)
        BY DEF u, w, e
    <2>11. \E i \in 1..(k + 1) : Holds(ss, i, n) /\ LowIn(ss, i, n) = x
        BY <1>1, <1>11, <2>10
    <2>12. \E i \in 1..(k + 1) : Holds(ss, i, n) /\ HighIn(ss, i, n) = y
        BY <1>1, <1>11, <2>10
    <2>13. f # NoDim => \E i \in 1..(k + 1) : Holds(ss, i, n) /\ DimIn(ss, i, n) = f
        BY <1>1, <1>11, <2>10
    <2> QED BY <2>2, <2>7, <2>8, <2>9, <2>11, <2>12, <2>13 DEF Tight
<1> QED BY <1>12, <1>13

LEMMA NextSection ==
    ASSUME NEW ss \in Seq(Section), NEW k \in Nat, k < Len(ss), GluesWell(ss, k) \/ Clashes(ss, k)
    PROVE  GluesWell(ss, k + 1) \/ Clashes(ss, k + 1)
<1> DEFINE old == Glued(ss)[k]
           new == Glued(ss)[k + 1]
           s == ss[k + 1]
           clashing == {n \in DOMAIN old.acc \cap DOMAIN s.sym : Clashing(ss, k, n)}
<1>1. new.conflicts = old.conflicts \cup Conflicts(old.acc, s) /\ DOMAIN new.acc = DOMAIN old.acc \cup DOMAIN s.sym
    BY SectionGlued
<1>2. (Conflicts(old.acc, s) = {}) = (clashing = {})
    <2>1. \A n : Clashing(ss, k, n) = (DimClash(old.acc[n], s.sym[n]) \/ RangeClash(old.acc[n], s.sym[n]))
        BY DEF Clashing, Kept
    <2> HIDE DEF old, s
    <2>2. clashing = {n \in DOMAIN old.acc \cap DOMAIN s.sym :
                        DimClash(old.acc[n], s.sym[n]) \/ RangeClash(old.acc[n], s.sym[n])}
        BY <2>1
    <2> DEFINE named(n) == [symbol |-> n, a |-> old.acc[n].from, b |-> s.region,
                            kind |-> IF DimClash(old.acc[n], s.sym[n]) THEN "dimension" ELSE "range"]
    <2>3. Conflicts(old.acc, s) =
              {named(n) : n \in {n \in DOMAIN old.acc \cap DOMAIN s.sym :
                                    DimClash(old.acc[n], s.sym[n]) \/ RangeClash(old.acc[n], s.sym[n])}}
        BY DEF Conflicts
    <2> HIDE DEF named, clashing
    <2> QED BY <2>2, <2>3
<1>3. \A i \in 1..k : i \in 1..(k + 1)
    OBVIOUS
<1>4. k + 1 \in 1..(k + 1) /\ \A i \in 1..(k + 1) : i \in 1..k \/ i = k + 1
    OBVIOUS
<1>5. CASE Clashes(ss, k)
    <2>1. Clashes(ss, k + 1)
        BY <1>1, <1>3, <1>5 DEF Clashes
    <2> QED BY <2>1
<1>6. CASE GluesWell(ss, k) /\ clashing # {}
    <2>1. PICK n : n \in DOMAIN old.acc /\ n \in DOMAIN s.sym /\ Clashing(ss, k, n)
        BY <1>6
    <2>2. Holds(ss, k + 1, n)
        BY <2>1 DEF Holds
    <2>3. \E i \in 1..(k + 1), j \in 1..(k + 1) :
              Holds(ss, i, n) /\ Holds(ss, j, n) /\ Clash(ss, i, j, n)
        BY <1>6, <2>1, <2>2, ClashOfTwo
    <2>4. new.conflicts # {}
        BY <1>1, <1>2, <1>6
    <2>5. Clashes(ss, k + 1)
        BY <2>3, <2>4 DEF Clashes
    <2> QED BY <2>5
<1>7. CASE GluesWell(ss, k) /\ clashing = {}
    <2>1. new.conflicts = {}
        BY <1>1, <1>2, <1>7 DEF GluesWell
    <2>2. \A n : n \in DOMAIN new.acc <=> \E i \in 1..(k + 1) : Holds(ss, i, n)
        <3>1. \A n : n \in DOMAIN old.acc <=> \E i \in 1..k : Holds(ss, i, n)
            BY <1>7 DEF GluesWell
        <3>2. \A n : n \in DOMAIN s.sym <=> Holds(ss, k + 1, n)
            BY DEF Holds
        <3> QED BY <1>1, <1>3, <1>4, <3>1, <3>2
    <2>3. ASSUME NEW n \in DOMAIN new.acc PROVE Tight(ss, k + 1, n)
        <3>1. CASE n \notin DOMAIN old.acc
            <4>1. Holds(ss, k + 1, n)
                BY <1>1, <3>1 DEF Holds
            <4> QED BY <1>7, <3>1, <4>1, TightWhenNew
        <3>2. CASE n \in DOMAIN old.acc /\ ~Holds(ss, k + 1, n)
            BY <1>7, <3>2, TightWhenOld
        <3>3. CASE n \in DOMAIN old.acc /\ Holds(ss, k + 1, n)
            <4>1. ~Clashing(ss, k, n)
                BY <1>7, <3>3 DEF Holds
            <4> QED BY <1>7, <3>3, <4>1, ClashOfTwo
        <3> QED BY <3>1, <3>2, <3>3
    <2>4. GluesWell(ss, k + 1)
        BY <2>1, <2>2, <2>3 DEF GluesWell
    <2> QED BY <2>4
<1> QED BY <1>5, <1>6, <1>7

LEMMA AllGlued ==
    ASSUME NEW ss \in Seq(Section)
    PROVE  GluesWell(ss, Len(ss)) \/ Clashes(ss, Len(ss))
<1> DEFINE T == {k \in Nat : k <= Len(ss) => GluesWell(ss, k) \/ Clashes(ss, k)}
<1>1. 0 \in T
    <2>1. Glued(ss)[0].conflicts = {} /\ Glued(ss)[0].acc = <<>>
        BY GluedAre
    <2>2. DOMAIN Glued(ss)[0].acc = {}
        BY <2>1
    <2>3. GluesWell(ss, 0)
        BY <2>1, <2>2 DEF GluesWell
    <2> QED BY <2>3
<1>2. ASSUME NEW k \in Nat, k \in T PROVE k + 1 \in T
    <2> SUFFICES ASSUME k + 1 <= Len(ss) PROVE GluesWell(ss, k + 1) \/ Clashes(ss, k + 1)
        OBVIOUS
    <2>1. k < Len(ss) /\ (GluesWell(ss, k) \/ Clashes(ss, k))
        BY <1>2
    <2> QED BY <2>1, NextSection
<1> HIDE DEF T
<1>3. \A k \in Nat : k \in T
    BY <1>1, <1>2, Induct
<1> QED BY <1>3 DEF T

GlueCalls == {[fn |-> "glue", sections |-> ss] : ss \in Seq(Section)}
GlueInit == call \in GlueCalls /\ answer = Pending
GlueSpec == GlueInit /\ [][GlueStep]_cvars

(* The two outcomes, in the words of the property. *)
LEMMA WellIsLimit ==
    ASSUME NEW ss \in Seq(Section), call.sections = ss, GluesWell(ss, Len(ss))
    PROVE  /\ Glueable
           /\ \A n \in Names : LET g == Kept(ss, Len(ss), n) IN
                /\ \A v \in Points : Allowed(n, v) = (g.range[1] <= v /\ v <= g.range[2])
                /\ IF GivenDims(n) = {} THEN g.dim = NoDim ELSE g.dim \in GivenDims(n)
<1> DEFINE K == Len(ss)
<1>1. K \in Nat /\ DOMAIN ss = 1..K
    OBVIOUS
<1>2. ASSUME NEW n \in Names
      PROVE  /\ \A d, e \in GivenDims(n) : d = e
             /\ \E v \in Points : Allowed(n, v)
             /\ \A v \in Points : Allowed(n, v) = (KeptLow(ss, K, n) <= v /\ v <= KeptHigh(ss, K, n))
             /\ IF GivenDims(n) = {} THEN KeptDim(ss, K, n) = NoDim ELSE KeptDim(ss, K, n) \in GivenDims(n)
    <2> DEFINE l == KeptLow(ss, K, n)
               h == KeptHigh(ss, K, n)
               d == KeptDim(ss, K, n)
    <2>1. PICK i \in 1..K : Holds(ss, i, n)
        BY <1>1 DEF Names, Holds
    <2>2. Tight(ss, K, n)
        BY <2>1 DEF GluesWell
    <2>3. GivenDims(n) = {DimIn(ss, j, n) : j \in Holders(n)} \ {NoDim}
        BY DEF GivenDims, DimIn
    <2>4. Holders(n) = {j \in 1..K : Holds(ss, j, n)}
        BY <1>1 DEF Holders, Holds
    <2>5. \A v : Allowed(n, v) <=> \A j \in Holders(n) : LowIn(ss, j, n) <= v /\ v <= HighIn(ss, j, n)
        BY DEF Allowed, LowIn, HighIn
    <2>6. l \in Points /\ h \in Points /\ l <= h
        <3>1. Kept(ss, K, n).range \in Points \X Points /\ l <= h
            BY <2>2 DEF Tight
        <3> QED BY <3>1 DEF KeptLow, KeptHigh
    <2>7. /\ \A j \in 1..K : Holds(ss, j, n) =>
                LowIn(ss, j, n) <= l /\ h <= HighIn(ss, j, n) /\ DimIn(ss, j, n) \in {NoDim, d}
          /\ \E j \in 1..K : Holds(ss, j, n) /\ LowIn(ss, j, n) = l
          /\ \E j \in 1..K : Holds(ss, j, n) /\ HighIn(ss, j, n) = h
          /\ d # NoDim => \E j \in 1..K : Holds(ss, j, n) /\ DimIn(ss, j, n) = d
        BY <2>2 DEF Tight
    <2>8. \A j \in Holders(n) : LowIn(ss, j, n) \in Int /\ HighIn(ss, j, n) \in Int
        BY <1>1, <2>4, Given, PointsAssumption
    <2> HIDE DEF l, h, d, K
    <2>9. \A c, e \in GivenDims(n) : c = e
        <3>1. \A e \in GivenDims(n) : e = d
            BY <2>3, <2>4, <2>7
        <3> QED BY <3>1
    <2>10. IF GivenDims(n) = {} THEN d = NoDim ELSE d \in GivenDims(n)
        BY <2>3, <2>4, <2>7
    <2>11. ASSUME NEW v \in Points PROVE Allowed(n, v) <=> (l <= v /\ v <= h)
        <3>0. l \in Int /\ h \in Int /\ v \in Int
            BY <2>6, PointsAssumption
        <3>1. ASSUME Allowed(n, v) PROVE l <= v /\ v <= h
            BY <2>4, <2>5, <2>7, <3>1
        <3>2. ASSUME l <= v, v <= h, NEW j \in Holders(n) PROVE LowIn(ss, j, n) <= v /\ v <= HighIn(ss, j, n)
            <4>1. LowIn(ss, j, n) <= l /\ h <= HighIn(ss, j, n)
                BY <2>4, <2>7
            <4>2. LowIn(ss, j, n) \in Int /\ HighIn(ss, j, n) \in Int
                BY <2>8
            <4> QED BY <3>0, <3>2, <4>1, <4>2
        <3> QED BY <2>5, <3>1, <3>2
    <2>12. Allowed(n, l)
        <3>1. l <= l
            BY <2>6, PointsAssumption
        <3> QED BY <2>6, <2>11, <3>1
    <2>13. \A v \in Points : Allowed(n, v) = (l <= v /\ v <= h)
        <3>1. \A v \in Points : Allowed(n, v) \in BOOLEAN
            BY DEF Allowed
        <3> QED BY <2>11, <3>1
    <2> QED BY <2>6, <2>9, <2>10, <2>12, <2>13 DEF l, h, d
<1>3. \A n : /\ Kept(ss, K, n).range[1] = KeptLow(ss, K, n) /\ Kept(ss, K, n).range[2] = KeptHigh(ss, K, n)
             /\ Kept(ss, K, n).dim = KeptDim(ss, K, n)
    BY DEF KeptLow, KeptHigh, KeptDim
<1>4. Glueable
    BY <1>2 DEF Glueable
<1> QED BY <1>2, <1>3, <1>4

LEMMA ClashIsNoLimit ==
    ASSUME NEW ss \in Seq(Section), call.sections = ss, Clashes(ss, Len(ss))
    PROVE  ~Glueable
<1>1. DOMAIN ss = 1..Len(ss)
    OBVIOUS
<1>2. PICK i \in 1..Len(ss), j \in 1..Len(ss) :
          \E n : Holds(ss, i, n) /\ Holds(ss, j, n) /\ Clash(ss, i, j, n)
    BY DEF Clashes
<1>3. PICK n : Holds(ss, i, n) /\ Holds(ss, j, n) /\ Clash(ss, i, j, n)
    BY <1>2
<1>4. n \in Names /\ i \in Holders(n) /\ j \in Holders(n)
    BY <1>1, <1>3 DEF Names, Holders, Holds
<1> SUFFICES ASSUME Glueable PROVE FALSE
    OBVIOUS
<1>5. (\A d, e \in GivenDims(n) : d = e) /\ \E v \in Points : Allowed(n, v)
    BY <1>4 DEF Glueable
<1>6. CASE NoDim \notin {DimIn(ss, i, n), DimIn(ss, j, n)} /\ DimIn(ss, i, n) # DimIn(ss, j, n)
    <2>1. DimIn(ss, i, n) \in GivenDims(n) /\ DimIn(ss, j, n) \in GivenDims(n)
        BY <1>4, <1>6 DEF GivenDims, DimIn
    <2> QED BY <1>5, <1>6, <2>1
<1>7. CASE HighIn(ss, i, n) < LowIn(ss, j, n)
    <2>1. PICK v \in Points : Allowed(n, v)
        BY <1>5
    <2>2. v <= HighIn(ss, i, n) /\ LowIn(ss, j, n) <= v
        BY <1>4, <2>1 DEF Allowed, LowIn, HighIn
    <2>3. HighIn(ss, i, n) \in Int /\ LowIn(ss, j, n) \in Int /\ v \in Int
        <3>1. HighIn(ss, i, n) \in Points
            BY <1>3, Given
        <3>2. LowIn(ss, j, n) \in Points
            BY <1>3, Given
        <3> QED BY <3>1, <3>2, PointsAssumption
    <2> QED BY <1>7, <2>2, <2>3
<1> QED BY <1>3, <1>6, <1>7 DEF Clash

(* Whatever the sections of a workbook and the numbers their ranges end at: *)
(* they are called consistent exactly when one assignment restricts to all  *)
(* of them, and then what is glued is exactly what all of them allow        *)
(* (semantic/glue.cpp:23-58).                                               *)
THEOREM GluedIsTheLimitHolds == GlueSpec => []GluedIsTheLimit
<1> DEFINE Inv == call \in GlueCalls /\ GluedIsTheLimit
<1>1. GlueInit => Inv
    BY DEF GlueInit, GluedIsTheLimit, Got, Answered, Pending
<1>2. Inv /\ [GlueStep]_cvars => Inv'
    <2> SUFFICES ASSUME Inv, [GlueStep]_cvars PROVE Inv'
        OBVIOUS
    <2>1. CASE GlueStep
        <3>1. PICK ss \in Seq(Section) : call = [fn |-> "glue", sections |-> ss]
            BY DEF GlueCalls
        <3>2. call' = call /\ call.sections = ss
            BY <2>1, <3>1 DEF GlueStep, Return
        <3> DEFINE glued == [global |-> Glued(ss)[Len(ss)].acc, matches |-> Glued(ss)[Len(ss)].matches,
                             conflicts |-> Glued(ss)[Len(ss)].conflicts,
                             consistent |-> Glued(ss)[Len(ss)].conflicts = {}]
        <3>3. answer'.value = glued
            BY <2>1, <3>2 DEF GlueStep, Return, GlueSections
        <3>4. /\ glued.consistent = (Glued(ss)[Len(ss)].conflicts = {})
              /\ \A n : glued.global[n] = Kept(ss, Len(ss), n)
            BY DEF Kept
        <3> HIDE DEF glued
        <3>5. /\ glued.consistent = Glueable
              /\ glued.consistent =>
                   \A n \in Names : LET g == glued.global[n] IN
                       /\ \A v \in Points : Allowed(n, v) = (g.range[1] <= v /\ v <= g.range[2])
                       /\ IF GivenDims(n) = {} THEN g.dim = NoDim ELSE g.dim \in GivenDims(n)
            <4>0. Glueable \in BOOLEAN
                BY DEF Glueable
            <4>1. CASE GluesWell(ss, Len(ss))
                <5>1. glued.consistent
                    BY <3>4, <4>1 DEF GluesWell
                <5>2. /\ Glueable
                      /\ \A n \in Names : LET g == Kept(ss, Len(ss), n) IN
                           /\ \A v \in Points : Allowed(n, v) = (g.range[1] <= v /\ v <= g.range[2])
                           /\ IF GivenDims(n) = {} THEN g.dim = NoDim ELSE g.dim \in GivenDims(n)
                    BY <3>2, <4>1, WellIsLimit
                <5>3. glued.consistent = Glueable
                    BY <3>4, <4>0, <5>1, <5>2
                <5> QED BY <3>4, <5>2, <5>3
            <4>2. CASE Clashes(ss, Len(ss))
                <5>1. ~Glueable
                    BY <3>2, <4>2, ClashIsNoLimit
                <5>2. ~glued.consistent
                    BY <3>4, <4>2 DEF Clashes
                <5> QED BY <3>4, <4>0, <5>1, <5>2
            <4> QED BY <4>1, <4>2, AllGlued
        <3>6. /\ Glueable' = Glueable /\ Names' = Names
              /\ \A n, v : Allowed(n, v)' = Allowed(n, v)
              /\ \A n : GivenDims(n)' = GivenDims(n)
            BY <3>2 DEF Glueable, Names, Allowed, GivenDims, Holders
        <3>7. GluedIsTheLimit'
            BY <3>3, <3>5, <3>6 DEF GluedIsTheLimit
        <3> QED BY <3>2, <3>7
    <2>2. CASE UNCHANGED cvars
        <3>1. call' = call /\ answer' = answer
            BY <2>2 DEF cvars
        <3>2. /\ Glueable' = Glueable /\ Names' = Names
              /\ \A n, v : Allowed(n, v)' = Allowed(n, v)
              /\ \A n : GivenDims(n)' = GivenDims(n)
            BY <3>1 DEF Glueable, Names, Allowed, GivenDims, Holders
        <3> QED BY <3>1, <3>2 DEF GluedIsTheLimit, Got, Answered
    <2> QED BY <2>1, <2>2
<1> QED BY <1>1, <1>2, PTL DEF GlueSpec

-------------------------------------------------------------------------------
(* The union-find of Cocycles.  R and T are the root of every region and    *)
(* its height above the root, h falls along every path to the root.         *)
Forest(d, R, T, h) ==
    /\ d.p \in [DOMAIN d.p -> DOMAIN d.p] /\ d.pot \in [DOMAIN d.p -> Int]
    /\ R \in [DOMAIN d.p -> DOMAIN d.p] /\ T \in [DOMAIN d.p -> Int] /\ h \in [DOMAIN d.p -> Nat]
    /\ \A y \in DOMAIN d.p : d.p[y] = y => R[y] = y /\ T[y] = 0 /\ d.pot[y] = 0
    /\ \A y \in DOMAIN d.p : d.p[y] # y =>
           R[y] = R[d.p[y]] /\ T[y] = d.pot[y] + T[d.p[y]] /\ h[d.p[y]] < h[y]

(* What holds of the roots, and of a region when it holds of its parent,    *)
(* holds of every region.                                                   *)
LEMMA FromTheRoots ==
    ASSUME NEW d, NEW R, NEW T, NEW h, Forest(d, R, T, h), NEW S,
           \A y \in DOMAIN d.p : d.p[y] = y => y \in S,
           \A y \in DOMAIN d.p : d.p[y] # y /\ d.p[y] \in S => y \in S
    PROVE  DOMAIN d.p \subseteq S
<1> DEFINE N == DOMAIN d.p
           Heads == {h[y] : y \in N \ S}
<1> SUFFICES ASSUME N \ S # {} PROVE FALSE
    OBVIOUS
<1>1. (\A y \in N : d.p[y] \in N /\ h[y] \in Nat) /\ \A y \in N : d.p[y] # y => h[d.p[y]] < h[y]
    BY DEF Forest
<1>2. Heads \in SUBSET Nat /\ Heads # {}
    BY <1>1
<1>3. PICK n \in Heads : \A m \in Heads : n <= m
    BY <1>2, Least
<1>4. PICK y \in N \ S : h[y] = n
    BY <1>3
<1>5. d.p[y] # y /\ d.p[y] \in N \ S
    BY <1>1, <1>4
<1>6. h[d.p[y]] < h[y] /\ h[y] <= h[d.p[y]] /\ h[y] \in Nat /\ h[d.p[y]] \in Nat
    BY <1>1, <1>3, <1>4, <1>5
<1> QED BY <1>6

(* The roots are their own parents, at no height, and below their trees. *)
LEMMA Roots ==
    ASSUME NEW d, NEW R, NEW T, NEW h, Forest(d, R, T, h)
    PROVE  \A y \in DOMAIN d.p :
              /\ R[y] \in DOMAIN d.p /\ d.p[R[y]] = R[y] /\ R[R[y]] = R[y] /\ T[R[y]] = 0
              /\ R[y] # y => h[R[y]] < h[y]
<1> DEFINE N == DOMAIN d.p
           S == {y \in N : d.p[R[y]] = R[y] /\ (R[y] # y => h[R[y]] < h[y])}
<1>1. /\ \A y \in N : d.p[y] \in N /\ R[y] \in N /\ h[y] \in Nat
      /\ \A y \in N : d.p[y] = y => R[y] = y /\ T[y] = 0
      /\ \A y \in N : d.p[y] # y => R[y] = R[d.p[y]] /\ h[d.p[y]] < h[y]
    BY DEF Forest
<1>2. \A y \in N : d.p[y] = y => y \in S
    BY <1>1
<1>3. ASSUME NEW y \in N, d.p[y] # y, d.p[y] \in S PROVE y \in S
    <2> DEFINE q == d.p[y]
    <2>1. q \in N /\ R[y] = R[q] /\ h[q] < h[y] /\ R[q] \in N
        BY <1>1, <1>3
    <2>2. d.p[R[q]] = R[q] /\ (R[q] # q => h[R[q]] < h[q])
        BY <1>3
    <2>3. h[q] \in Nat /\ h[y] \in Nat /\ h[R[q]] \in Nat
        BY <1>1, <2>1
    <2> HIDE DEF q
    <2>4. h[R[q]] < h[y]
        BY <2>1, <2>2, <2>3
    <2> QED BY <2>1, <2>2, <2>4
<1> HIDE DEF S
<1>4. N \subseteq S
    BY <1>2, <1>3, FromTheRoots
<1> QED BY <1>1, <1>4 DEF S

(* The recursive functions of DSU::find are these roots and heights. *)
LEMMA RootOfIs ==
    ASSUME NEW d, NEW R, NEW T, NEW h, Forest(d, R, T, h)
    PROVE  \A y \in DOMAIN d.p : RootOf(d)[y] = R[y]
<1> DEFINE N == DOMAIN d.p
           f == RootOf(d)
           S == {y \in N : f[y] = R[y]}
<1>1. /\ R = [y \in N |-> R[y]] /\ \A y \in N : d.p[y] \in N
      /\ \A y \in N : d.p[y] = y => R[y] = y
      /\ \A y \in N : d.p[y] # y => R[y] = R[d.p[y]]
    BY DEF Forest
<1>2. f = CHOOSE g : g = [x \in N |-> IF d.p[x] = x THEN x ELSE g[d.p[x]]]
    BY DEF RootOf
<1>3. R = [x \in N |-> IF d.p[x] = x THEN x ELSE R[d.p[x]]]
    BY <1>1
<1>4. f = [x \in N |-> IF d.p[x] = x THEN x ELSE f[d.p[x]]]
    BY <1>2, <1>3
<1> HIDE DEF f
<1>5. \A y \in N : f[y] = IF d.p[y] = y THEN y ELSE f[d.p[y]]
    BY <1>4
<1>6. \A y \in N : d.p[y] = y => y \in S
    BY <1>1, <1>5
<1>7. ASSUME NEW y \in N, d.p[y] # y, d.p[y] \in S PROVE y \in S
    <2>1. f[d.p[y]] = R[d.p[y]]
        BY <1>7
    <2> QED BY <1>1, <1>5, <1>7, <2>1
<1> HIDE DEF S
<1>8. N \subseteq S
    BY <1>6, <1>7, FromTheRoots
<1> QED BY <1>8 DEF S, f

LEMMA SumOfIs ==
    ASSUME NEW d, NEW R, NEW T, NEW h, Forest(d, R, T, h)
    PROVE  \A y \in DOMAIN d.p : SumOf(d)[y] = T[y]
<1> DEFINE N == DOMAIN d.p
           f == SumOf(d)
           S == {y \in N : f[y] = T[y]}
<1>1. /\ T = [y \in N |-> T[y]] /\ \A y \in N : d.p[y] \in N
      /\ \A y \in N : d.p[y] = y => T[y] = d.pot[y]
      /\ \A y \in N : d.p[y] # y => T[y] = d.pot[y] + T[d.p[y]]
    BY DEF Forest
<1>2. f = CHOOSE g : g = [x \in N |-> IF d.p[x] = x THEN d.pot[x] ELSE d.pot[x] + g[d.p[x]]]
    BY DEF SumOf
<1>3. T = [x \in N |-> IF d.p[x] = x THEN d.pot[x] ELSE d.pot[x] + T[d.p[x]]]
    BY <1>1
<1>4. f = [x \in N |-> IF d.p[x] = x THEN d.pot[x] ELSE d.pot[x] + f[d.p[x]]]
    BY <1>2, <1>3
<1> HIDE DEF f
<1>5. \A y \in N : f[y] = IF d.p[y] = y THEN d.pot[y] ELSE d.pot[y] + f[d.p[y]]
    BY <1>4
<1>6. \A y \in N : d.p[y] = y => y \in S
    BY <1>1, <1>5
<1>7. ASSUME NEW y \in N, d.p[y] # y, d.p[y] \in S PROVE y \in S
    <2>1. f[d.p[y]] = T[d.p[y]]
        BY <1>7
    <2> QED BY <1>1, <1>5, <1>7, <2>1
<1> HIDE DEF S
<1>8. N \subseteq S
    BY <1>6, <1>7, FromTheRoots
<1> QED BY <1>8 DEF S, f

(* A path has its region on it and stays in one tree.  That there is one:   *)
(* the least set with the region that has the parents of its members.       *)
LEMMA PathOfIs ==
    ASSUME NEW d, NEW R, NEW T, NEW h, Forest(d, R, T, h)
    PROVE  \A y \in DOMAIN d.p :
              y \in PathOf(d)[y] /\ \A z \in PathOf(d)[y] : z \in DOMAIN d.p /\ R[z] = R[y]
<1> DEFINE N == DOMAIN d.p
           f == PathOf(d)
           Closed(S) == \A y \in S : d.p[y] \in S
           Above(x) == {z \in N : \A S \in SUBSET N : x \in S /\ Closed(S) => z \in S}
           G == [x \in N |-> Above(x)]
           OneTree == {y \in N : y \in f[y] /\ \A z \in f[y] : z \in N /\ R[z] = R[y]}
<1>1. /\ \A y \in N : d.p[y] \in N
      /\ \A y \in N : R[y] = R[d.p[y]]
    BY DEF Forest
<1>2. f = CHOOSE g : g = [x \in N |-> IF d.p[x] = x THEN {x} ELSE {x} \cup g[d.p[x]]]
    BY DEF PathOf
<1>3. ASSUME NEW x \in N PROVE Above(x) = IF d.p[x] = x THEN {x} ELSE {x} \cup Above(d.p[x])
    <2>1. x \in Above(x)
        OBVIOUS
    <2>2. Above(d.p[x]) \subseteq Above(x)
        OBVIOUS
    <2>3. Closed(Above(d.p[x])) /\ Above(d.p[x]) \in SUBSET N /\ d.p[x] \in Above(d.p[x])
        BY <1>1
    <2> DEFINE W == {x} \cup Above(d.p[x])
    <2>4. Closed(W) /\ W \in SUBSET N /\ x \in W
        BY <2>3
    <2> HIDE DEF W
    <2>5. Above(x) \subseteq W
        BY <2>4
    <2>6. d.p[x] = x => Closed({x}) /\ {x} \in SUBSET N /\ x \in {x}
        OBVIOUS
    <2>7. d.p[x] = x => Above(x) \subseteq {x}
        BY <2>6
    <2> HIDE DEF Above, Closed
    <2> QED BY <2>1, <2>2, <2>5, <2>7 DEF W
<1> HIDE DEF Above, Closed
<1>4. G = [x \in N |-> IF d.p[x] = x THEN {x} ELSE {x} \cup G[d.p[x]]]
    BY <1>1, <1>3
<1>5. f = [x \in N |-> IF d.p[x] = x THEN {x} ELSE {x} \cup f[d.p[x]]]
    BY <1>2, <1>4
<1> HIDE DEF f, G
<1>6. \A y \in N : f[y] = IF d.p[y] = y THEN {y} ELSE {y} \cup f[d.p[y]]
    BY <1>5
<1>7. ASSUME NEW y \in N, d.p[y] = y PROVE y \in OneTree
    <2>1. f[y] = {y}
        BY <1>6, <1>7
    <2> QED BY <2>1
<1>8. ASSUME NEW y \in N, d.p[y] # y, d.p[y] \in OneTree PROVE y \in OneTree
    <2>1. f[y] = {y} \cup f[d.p[y]] /\ R[y] = R[d.p[y]]
        BY <1>1, <1>6, <1>8
    <2>2. \A z \in f[d.p[y]] : z \in N /\ R[z] = R[d.p[y]]
        BY <1>8
    <2> QED BY <2>1, <2>2
<1> HIDE DEF OneTree
<1>9. N \subseteq OneTree
    BY <1>7, <1>8, FromTheRoots
<1> QED BY <1>9 DEF OneTree, f

(* A path may be compressed: roots and heights stay. *)
LEMMA CompressKeeps ==
    ASSUME NEW d, NEW R, NEW T, NEW h, Forest(d, R, T, h), NEW x \in DOMAIN d.p
    PROVE  /\ Forest(Compress(d, x), R, T, h)
           /\ DOMAIN Compress(d, x).p = DOMAIN d.p
           /\ Compress(d, x).pot[x] = T[x]
<1> DEFINE N == DOMAIN d.p
           P == PathOf(d)[x]
           c == Compress(d, x)
<1>1. /\ DOMAIN c.p = N /\ DOMAIN c.pot = N
      /\ \A y \in N : c.p[y] = IF y \in P THEN RootOf(d)[x] ELSE d.p[y]
      /\ \A y \in N : c.pot[y] = IF y \in P THEN SumOf(d)[y] ELSE d.pot[y]
      /\ c.p = [y \in N |-> c.p[y]] /\ c.pot = [y \in N |-> c.pot[y]]
    BY DEF Compress
<1>2. x \in P /\ \A z \in P : z \in N /\ R[z] = R[x]
    BY PathOfIs
<1> HIDE DEF c, P
<1>3. /\ \A y \in N : c.p[y] = IF y \in P THEN R[y] ELSE d.p[y]
      /\ \A y \in N : c.pot[y] = IF y \in P THEN T[y] ELSE d.pot[y]
    BY <1>1, <1>2, RootOfIs, SumOfIs
<1>4. \A y \in N : R[y] \in N /\ R[R[y]] = R[y] /\ T[R[y]] = 0 /\ (R[y] # y => h[R[y]] < h[y])
    BY Roots
<1>5. /\ \A y \in N : d.p[y] \in N /\ d.pot[y] \in Int /\ T[y] \in Int
      /\ \A y \in N : d.p[y] = y => R[y] = y /\ T[y] = 0 /\ d.pot[y] = 0
      /\ \A y \in N : d.p[y] # y => R[y] = R[d.p[y]] /\ T[y] = d.pot[y] + T[d.p[y]] /\ h[d.p[y]] < h[y]
      /\ R \in [N -> N] /\ T \in [N -> Int] /\ h \in [N -> Nat]
    BY DEF Forest
<1> HIDE DEF N
<1>6. c.p \in [N -> N] /\ c.pot \in [N -> Int]
    BY <1>1, <1>3, <1>4, <1>5
<1>7. ASSUME NEW y \in N, c.p[y] = y PROVE R[y] = y /\ T[y] = 0 /\ c.pot[y] = 0
    <2>1. CASE y \in P
        <3>1. R[y] = y /\ c.pot[y] = T[y]
            BY <1>3, <1>7, <2>1
        <3> QED BY <1>4, <3>1
    <2>2. CASE y \notin P
        BY <1>3, <1>5, <1>7, <2>2
    <2> QED BY <2>1, <2>2
<1>8. ASSUME NEW y \in N, c.p[y] # y
      PROVE  R[y] = R[c.p[y]] /\ T[y] = c.pot[y] + T[c.p[y]] /\ h[c.p[y]] < h[y]
    <2>1. CASE y \in P
        <3>1. c.p[y] = R[y] /\ c.pot[y] = T[y] /\ R[y] # y
            BY <1>3, <1>8, <2>1
        <3>2. T[y] = T[y] + T[R[y]]
            BY <1>4, <1>5
        <3> QED BY <1>4, <3>1, <3>2
    <2>2. CASE y \notin P
        BY <1>3, <1>5, <1>8, <2>2
    <2> QED BY <2>1, <2>2
<1>9. Forest(c, R, T, h)
    BY <1>1, <1>5, <1>6, <1>7, <1>8 DEF Forest
<1>10. c.pot[x] = T[x]
    BY <1>2, <1>3
<1> QED BY <1>1, <1>9, <1>10 DEF c, N

(* A function with one more argument, unless it has it. *)
Grown(f, x, v) == [y \in DOMAIN f \cup {x} |-> IF y \in DOMAIN f THEN f[y] ELSE v]

LEMMA TouchKeeps ==
    ASSUME NEW d, NEW R, NEW T, NEW h, Forest(d, R, T, h), NEW x
    PROVE  /\ Forest(Touch(d, x), Grown(R, x, x), Grown(T, x, 0), Grown(h, x, 0))
           /\ DOMAIN Touch(d, x).p = DOMAIN d.p \cup {x}
<1> DEFINE N == DOMAIN d.p
           M == N \cup {x}
           t == Touch(d, x)
           R1 == Grown(R, x, x)
           T1 == Grown(T, x, 0)
           h1 == Grown(h, x, 0)
<1>1. /\ \A y \in N : d.p[y] \in N /\ d.pot[y] \in Int /\ R[y] \in N /\ T[y] \in Int /\ h[y] \in Nat
      /\ \A y \in N : d.p[y] = y => R[y] = y /\ T[y] = 0 /\ d.pot[y] = 0
      /\ \A y \in N : d.p[y] # y => R[y] = R[d.p[y]] /\ T[y] = d.pot[y] + T[d.p[y]] /\ h[d.p[y]] < h[y]
      /\ DOMAIN R = N /\ DOMAIN T = N /\ DOMAIN h = N /\ DOMAIN d.pot = N
      /\ d.p = [y \in N |-> d.p[y]] /\ d.pot = [y \in N |-> d.pot[y]]
    BY DEF Forest
<1>2. /\ R1 = [y \in M |-> R1[y]] /\ T1 = [y \in M |-> T1[y]] /\ h1 = [y \in M |-> h1[y]]
      /\ \A y \in M : R1[y] = IF y \in N THEN R[y] ELSE x
      /\ \A y \in M : T1[y] = IF y \in N THEN T[y] ELSE 0
      /\ \A y \in M : h1[y] = IF y \in N THEN h[y] ELSE 0
    BY <1>1 DEF Grown
<1>3. /\ t.p = [y \in M |-> t.p[y]] /\ t.pot = [y \in M |-> t.pot[y]]
      /\ \A y \in M : t.p[y] = IF y \in N THEN d.p[y] ELSE x
      /\ \A y \in M : t.pot[y] = IF y \in N THEN d.pot[y] ELSE 0
    <2>1. CASE x \in N
        <3>1. t = d /\ M = N
            BY <2>1 DEF Touch
        <3> HIDE DEF t, M, N
        <3> QED BY <1>1, <3>1
    <2>2. CASE x \notin N
        <3>1. t = [p   |-> [y \in M |-> IF y = x THEN x ELSE d.p[y]],
                   pot |-> [y \in M |-> IF y = x THEN 0 ELSE d.pot[y]]]
            BY <2>2 DEF Touch
        <3> HIDE DEF t
        <3> QED BY <2>2, <3>1
    <2> QED BY <2>1, <2>2
<1>4. DOMAIN t.p = M
    BY <1>3
<1> HIDE DEF t, R1, T1, h1, N
<1>5. t.p \in [M -> M] /\ t.pot \in [M -> Int] /\ R1 \in [M -> M] /\ T1 \in [M -> Int] /\ h1 \in [M -> Nat]
    <2> SUFFICES ASSUME NEW y \in M
                 PROVE  t.p[y] \in M /\ t.pot[y] \in Int /\ R1[y] \in M /\ T1[y] \in Int /\ h1[y] \in Nat
        BY <1>2, <1>3
    <2>1. CASE y \in N
        <3>1. d.p[y] \in N /\ d.pot[y] \in Int /\ R[y] \in N /\ T[y] \in Int /\ h[y] \in Nat
            BY <1>1, <2>1
        <3> QED BY <1>2, <1>3, <2>1, <3>1
    <2>2. CASE y \notin N
        <3>1. t.p[y] = x /\ t.pot[y] = 0 /\ R1[y] = x /\ T1[y] = 0 /\ h1[y] = 0 /\ x \in M
            BY <1>2, <1>3, <2>2
        <3> QED BY <3>1
    <2> QED BY <2>1, <2>2
<1>6. ASSUME NEW y \in M, t.p[y] = y PROVE R1[y] = y /\ T1[y] = 0 /\ t.pot[y] = 0
    BY <1>1, <1>2, <1>3, <1>6
<1>7. ASSUME NEW y \in M, t.p[y] # y
      PROVE  R1[y] = R1[t.p[y]] /\ T1[y] = t.pot[y] + T1[t.p[y]] /\ h1[t.p[y]] < h1[y]
    <2>1. y \in N /\ t.p[y] = d.p[y] /\ t.pot[y] = d.pot[y] /\ d.p[y] \in N
        BY <1>1, <1>3, <1>7
    <2>2. /\ R1[y] = R[y] /\ T1[y] = T[y] /\ h1[y] = h[y]
          /\ R1[d.p[y]] = R[d.p[y]] /\ T1[d.p[y]] = T[d.p[y]] /\ h1[d.p[y]] = h[d.p[y]]
        BY <1>2, <2>1
    <2>3. d.p[y] # y
        BY <1>7, <2>1
    <2> QED BY <1>1, <2>1, <2>2, <2>3
<1>8. Forest(t, R1, T1, h1)
    BY <1>4, <1>5, <1>6, <1>7 DEF Forest
<1> QED BY <1>4, <1>8 DEF t, R1, T1, h1, N

(* DSU::find and DSU::potential give the root and the height. *)
LEMMA FindKeeps ==
    ASSUME NEW d, NEW R, NEW T, NEW h, Forest(d, R, T, h), NEW x
    PROVE  /\ Forest(Find(d, x).d, Grown(R, x, x), Grown(T, x, 0), Grown(h, x, 0))
           /\ DOMAIN Find(d, x).d.p = DOMAIN d.p \cup {x}
           /\ Find(d, x).root = Grown(R, x, x)[x]
           /\ Potential(d, x) = Grown(T, x, 0)[x]
<1> DEFINE t == Touch(d, x)
           R1 == Grown(R, x, x)
           T1 == Grown(T, x, 0)
           h1 == Grown(h, x, 0)
<1>1. Forest(t, R1, T1, h1) /\ DOMAIN t.p = DOMAIN d.p \cup {x}
    BY TouchKeeps
<1>2. Find(d, x).d = Compress(t, x) /\ Find(d, x).root = RootOf(t)[x]
    BY DEF Find
<1> HIDE DEF t, R1, T1, h1
<1>3. x \in DOMAIN t.p
    BY <1>1
<1>4. Forest(Compress(t, x), R1, T1, h1) /\ DOMAIN Compress(t, x).p = DOMAIN t.p /\ Compress(t, x).pot[x] = T1[x]
    BY <1>1, <1>3, CompressKeeps
<1>5. RootOf(t)[x] = R1[x]
    BY <1>1, <1>3, RootOfIs
<1> QED BY <1>1, <1>2, <1>4, <1>5 DEF R1, T1, h1, Potential

(* Of a region that was met before. *)
LEMMA PotentialIs ==
    ASSUME NEW d, NEW R, NEW T, NEW h, Forest(d, R, T, h), NEW x \in DOMAIN d.p
    PROVE  Potential(d, x) = T[x]
<1>1. x \in DOMAIN T
    BY DEF Forest
<1>2. Grown(T, x, 0)[x] = T[x]
    BY <1>1 DEF Grown
<1> QED BY <1>2, FindKeeps

(* One tree is put below the other, every region of it as much higher. *)
Below(R, ra, rb) == [y \in DOMAIN R |-> IF R[y] = rb THEN ra ELSE R[y]]
Raised(T, R, rb, by) == [y \in DOMAIN R |-> IF R[y] = rb THEN T[y] + by ELSE T[y]]

LEMMA AttachKeeps ==
    ASSUME NEW d, NEW R, NEW T, NEW h, Forest(d, R, T, h), NEW o,
           o.a \in DOMAIN d.p, o.b \in DOMAIN d.p, o.offset \in Int, R[o.a] # R[o.b]
    PROVE  LET ra == R[o.a]  rb == R[o.b] IN
           /\ Forest(Attach(d, ra, rb, o), Below(R, ra, rb), Raised(T, R, rb, T[o.a] + o.offset - T[o.b]),
                     Raised(h, R, rb, h[ra] + 1))
           /\ DOMAIN Attach(d, ra, rb, o).p = DOMAIN d.p
<1> DEFINE N == DOMAIN d.p
           ra == R[o.a]
           rb == R[o.b]
           by == T[o.a] + o.offset - T[o.b]
           up == h[ra] + 1
           c == Attach(d, ra, rb, o)
           R1 == Below(R, ra, rb)
           T1 == Raised(T, R, rb, by)
           h1 == Raised(h, R, rb, up)
<1>1. /\ \A y \in N : d.p[y] \in N /\ d.pot[y] \in Int /\ R[y] \in N /\ T[y] \in Int /\ h[y] \in Nat
      /\ \A y \in N : d.p[y] = y => R[y] = y /\ T[y] = 0 /\ d.pot[y] = 0
      /\ \A y \in N : d.p[y] # y => R[y] = R[d.p[y]] /\ T[y] = d.pot[y] + T[d.p[y]] /\ h[d.p[y]] < h[y]
      /\ DOMAIN R = N /\ DOMAIN T = N /\ DOMAIN h = N /\ DOMAIN d.pot = N
      /\ d.p = [y \in N |-> d.p[y]] /\ d.pot = [y \in N |-> d.pot[y]]
    BY DEF Forest
<1>2. \A y \in N : R[y] \in N /\ d.p[R[y]] = R[y] /\ R[R[y]] = R[y] /\ T[R[y]] = 0
    BY Roots
<1>3. Potential(d, o.a) = T[o.a] /\ Potential(d, o.b) = T[o.b]
    BY PotentialIs
<1>4. c = [p |-> [d.p EXCEPT ![rb] = ra], pot |-> [d.pot EXCEPT ![rb] = by]]
    BY <1>3 DEF Attach
<1>5. /\ ra \in N /\ rb \in N /\ ra # rb /\ d.p[ra] = ra /\ d.p[rb] = rb
      /\ R[ra] = ra /\ R[rb] = rb /\ T[ra] = 0 /\ T[rb] = 0
    BY <1>1, <1>2
<1>6. by \in Int /\ up \in Nat
    <2>1. T[o.a] \in Int /\ T[o.b] \in Int /\ h[ra] \in Nat
        BY <1>1, <1>5
    <2> HIDE DEF ra
    <2> QED BY <2>1
<1>7. /\ R1 = [y \in N |-> R1[y]] /\ T1 = [y \in N |-> T1[y]] /\ h1 = [y \in N |-> h1[y]]
      /\ \A y \in N : R1[y] = IF R[y] = rb THEN ra ELSE R[y]
      /\ \A y \in N : T1[y] = IF R[y] = rb THEN T[y] + by ELSE T[y]
      /\ \A y \in N : h1[y] = IF R[y] = rb THEN h[y] + up ELSE h[y]
    BY <1>1 DEF Below, Raised
<1>12. up = h[ra] + 1 /\ h[ra] \in Nat
    BY <1>1, <1>5
<1> HIDE DEF c, R1, T1, h1, N, ra, rb, by, up
<1>8. /\ c.p = [y \in N |-> c.p[y]] /\ c.pot = [y \in N |-> c.pot[y]]
      /\ \A y \in N : c.p[y] = IF y = rb THEN ra ELSE d.p[y]
      /\ \A y \in N : c.pot[y] = IF y = rb THEN by ELSE d.pot[y]
    BY <1>1, <1>4 DEF N
<1>9. DOMAIN c.p = N
    BY <1>8
<1>10. c.p \in [N -> N] /\ c.pot \in [N -> Int] /\ R1 \in [N -> N] /\ T1 \in [N -> Int] /\ h1 \in [N -> Nat]
    <2>1. \A y \in N : c.p[y] \in N /\ c.pot[y] \in Int
        BY <1>1, <1>5, <1>6, <1>8
    <2>2. \A y \in N : R1[y] \in N /\ T1[y] \in Int
        <3> SUFFICES ASSUME NEW y \in N PROVE R1[y] \in N /\ T1[y] \in Int
            OBVIOUS
        <3>1. R[y] \in N /\ T[y] \in Int /\ T[y] + by \in Int
            BY <1>1, <1>6
        <3> QED BY <1>5, <1>7, <3>1
    <2>3. \A y \in N : h1[y] \in Nat
        <3> SUFFICES ASSUME NEW y \in N PROVE h1[y] \in Nat
            OBVIOUS
        <3>1. h[y] \in Nat /\ h[y] + up \in Nat
            BY <1>1, <1>6
        <3> QED BY <1>7, <3>1
    <2> QED BY <1>7, <1>8, <2>1, <2>2, <2>3
<1>11. ASSUME NEW y \in N, c.p[y] = y PROVE R1[y] = y /\ T1[y] = 0 /\ c.pot[y] = 0
    <2>1. y # rb /\ d.p[y] = y
        BY <1>5, <1>8, <1>11
    <2>2. R[y] = y /\ T[y] = 0 /\ d.pot[y] = 0
        BY <1>1, <2>1
    <2> QED BY <1>7, <1>8, <2>1, <2>2
<1>13. ASSUME NEW y \in N, c.p[y] # y
       PROVE  R1[y] = R1[c.p[y]] /\ T1[y] = c.pot[y] + T1[c.p[y]] /\ h1[c.p[y]] < h1[y]
    <2>1. CASE y = rb
        <3>1. c.p[y] = ra /\ c.pot[y] = by
            BY <1>8, <2>1
        <3>2. R1[y] = ra /\ R1[ra] = ra /\ T1[y] = 0 + by /\ T1[ra] = 0 /\ h1[y] = h[y] + up /\ h1[ra] = h[ra]
            BY <1>5, <1>7, <2>1
        <3>3. h[y] \in Nat
            BY <1>1
        <3>4. h[ra] < h[y] + up
            BY <1>12, <3>3
        <3>5. 0 + by = by + 0
            BY <1>6
        <3> QED BY <3>1, <3>2, <3>4, <3>5
    <2>2. CASE y # rb
        <3> DEFINE q == d.p[y]
        <3>1. c.p[y] = q /\ c.pot[y] = d.pot[y] /\ q # y /\ q \in N
            BY <1>1, <1>8, <1>13, <2>2
        <3>2. R[y] = R[q] /\ T[y] = d.pot[y] + T[q] /\ h[q] < h[y]
            BY <1>1, <3>1
        <3>3. T[y] \in Int /\ T[q] \in Int /\ d.pot[y] \in Int /\ h[y] \in Nat /\ h[q] \in Nat
            BY <1>1, <3>1
        <3> HIDE DEF q
        <3>4. R1[y] = R1[q]
            BY <1>7, <3>1, <3>2
        <3>5. CASE R[y] = rb
            <4>1. T1[y] = T[y] + by /\ T1[q] = T[q] + by /\ h1[y] = h[y] + up /\ h1[q] = h[q] + up
                BY <1>7, <3>1, <3>2, <3>5
            <4>2. T[y] + by = d.pot[y] + (T[q] + by) /\ h[q] + up < h[y] + up
                BY <1>6, <3>2, <3>3
            <4> QED BY <3>1, <3>4, <4>1, <4>2
        <3>6. CASE R[y] # rb
            <4>1. T1[y] = T[y] /\ T1[q] = T[q] /\ h1[y] = h[y] /\ h1[q] = h[q]
                BY <1>7, <3>1, <3>2, <3>6
            <4> QED BY <3>1, <3>2, <3>4, <4>1
        <3> QED BY <3>5, <3>6
    <2> QED BY <2>1, <2>2
<1>14. Forest(c, R1, T1, h1)
    BY <1>9, <1>10, <1>11, <1>13 DEF Forest
<1> QED BY <1>9, <1>14 DEF c, R1, T1, h1, N, ra, rb, by, up

-------------------------------------------------------------------------------
(* The overlaps of a workbook; regions and symbols are names. *)
Overlap == [a : Region, b : Region, symbol : Name, offset : Int]
EndsOf(os) == {os[i].a : i \in DOMAIN os} \cup {os[i].b : i \in DOMAIN os}
Of(os, sym, k) == {i \in 1..Len(os) : i <= k /\ os[i].symbol = sym}

(* p gives the regions heights that the overlaps of E ask for. *)
MeetsAll(p, os, E) == \A i \in E : p[os[i].b] - p[os[i].a] = os[i].offset

(* After k overlaps: B are the back edges, the other overlaps of the symbol *)
(* hold exactly, and every potential that meets these is, up to its height  *)
(* at the root, the one of the forest.                                      *)
Fits(d, B, os, sym, k, R, T, h) ==
    /\ Forest(d, R, T, h)
    /\ DOMAIN d.p \subseteq EndsOf(os)
    /\ B \subseteq Of(os, sym, k)
    /\ \A i \in Of(os, sym, k) :
           os[i].a \in DOMAIN d.p /\ os[i].b \in DOMAIN d.p /\ R[os[i].a] = R[os[i].b]
    /\ MeetsAll(T, os, Of(os, sym, k) \ B)
    /\ \A p \in [EndsOf(os) -> Int] : MeetsAll(p, os, Of(os, sym, k) \ B) =>
           \A y \in DOMAIN d.p : p[y] = p[R[y]] + T[y]

LEMMA OverlapIs ==
    ASSUME NEW os \in Seq(Overlap), NEW i \in 1..Len(os)
    PROVE  /\ os[i].a \in EndsOf(os) /\ os[i].b \in EndsOf(os) /\ os[i].offset \in Int
           /\ os[i].symbol \in Name
<1>1. os[i] \in Overlap /\ i \in DOMAIN os
    OBVIOUS
<1> QED BY <1>1 DEF Overlap, EndsOf

(* A region looked up changes nothing of this. *)
LEMMA FindFits ==
    ASSUME NEW d, NEW B, NEW os \in Seq(Overlap), NEW sym, NEW k, NEW R, NEW T, NEW h,
           Fits(d, B, os, sym, k, R, T, h), NEW x \in EndsOf(os)
    PROVE  Fits(Find(d, x).d, B, os, sym, k, Grown(R, x, x), Grown(T, x, 0), Grown(h, x, 0))
<1> DEFINE N == DOMAIN d.p
           c == Find(d, x).d
           M == DOMAIN c.p
           R1 == Grown(R, x, x)
           T1 == Grown(T, x, 0)
           h1 == Grown(h, x, 0)
           E == Of(os, sym, k)
<1>1. /\ Forest(d, R, T, h) /\ N \subseteq EndsOf(os) /\ B \subseteq E
      /\ \A i \in E : os[i].a \in N /\ os[i].b \in N /\ R[os[i].a] = R[os[i].b]
      /\ MeetsAll(T, os, E \ B)
      /\ \A p \in [EndsOf(os) -> Int] : MeetsAll(p, os, E \ B) => \A y \in N : p[y] = p[R[y]] + T[y]
    BY DEF Fits
<1>2. Forest(c, R1, T1, h1) /\ M = N \cup {x}
    BY <1>1, FindKeeps
<1>3. DOMAIN R = N /\ DOMAIN T = N
    BY <1>1 DEF Forest
<1>4. /\ \A y \in N : R1[y] = R[y] /\ T1[y] = T[y]
      /\ x \notin N => R1[x] = x /\ T1[x] = 0
    <2>1. (\A y \in DOMAIN R : R1[y] = R[y]) /\ (x \notin DOMAIN R => R1[x] = x)
        BY DEF Grown
    <2>2. (\A y \in DOMAIN T : T1[y] = T[y]) /\ (x \notin DOMAIN T => T1[x] = 0)
        BY DEF Grown
    <2> HIDE DEF R1, T1, N
    <2> QED BY <1>3, <2>1, <2>2
<1> HIDE DEF c, M, N, R1, T1, h1, E
<1>5. M \subseteq EndsOf(os)
    BY <1>1, <1>2
<1>6. \A i \in E : os[i].a \in M /\ os[i].b \in M /\ R1[os[i].a] = R1[os[i].b]
    BY <1>1, <1>2, <1>4
<1>7. MeetsAll(T1, os, E \ B)
    BY <1>1, <1>4 DEF MeetsAll
<1>8. ASSUME NEW p \in [EndsOf(os) -> Int], MeetsAll(p, os, E \ B), NEW y \in M
      PROVE  p[y] = p[R1[y]] + T1[y]
    <2>1. CASE y \in N
        BY <1>1, <1>4, <1>8, <2>1
    <2>2. CASE y \notin N
        <3>1. y = x /\ R1[y] = y /\ T1[y] = 0 /\ p[y] \in Int
            BY <1>2, <1>4, <2>2
        <3> QED BY <3>1
    <2> QED BY <2>1, <2>2
<1> HIDE DEF MeetsAll
<1>9. \A p \in [EndsOf(os) -> Int] : MeetsAll(p, os, E \ B) => \A y \in M : p[y] = p[R1[y]] + T1[y]
    BY <1>8
<1> USE DEF c, M, E
<1> HIDE DEF R1, T1, h1
<1>10. Fits(c, B, os, sym, k, R1, T1, h1)
    BY <1>1, <1>2, <1>5, <1>6, <1>7, <1>9 DEF Fits
<1> QED BY <1>10 DEF R1, T1, h1

LEMMA OfNext ==
    ASSUME NEW os \in Seq(Overlap), NEW sym, NEW k \in Nat, k < Len(os), os[k + 1].symbol = sym
    PROVE  Of(os, sym, k + 1) = Of(os, sym, k) \cup {k + 1} /\ k + 1 \notin Of(os, sym, k)
<1>1. k + 1 \in 1..Len(os) /\ ~(k + 1 <= k) /\ k + 1 <= k + 1
    OBVIOUS
<1>2. \A i \in 1..Len(os) : i <= k + 1 <=> (i <= k \/ i = k + 1)
    OBVIOUS
<1> QED BY <1>1, <1>2 DEF Of

LEMMA OfSkipped ==
    ASSUME NEW os \in Seq(Overlap), NEW sym, NEW k \in Nat, k < Len(os), os[k + 1].symbol # sym
    PROVE  Of(os, sym, k + 1) = Of(os, sym, k)
<1>1. \A i \in 1..Len(os) : i <= k + 1 <=> (i <= k \/ i = k + 1)
    OBVIOUS
<1> QED BY <1>1 DEF Of

(* An overlap within one tree. *)
LEMMA BackFits ==
    ASSUME NEW d, NEW B, NEW os \in Seq(Overlap), NEW sym, NEW k \in Nat, NEW R, NEW T, NEW h,
           Fits(d, B, os, sym, k, R, T, h), k < Len(os), os[k + 1].symbol = sym,
           os[k + 1].a \in DOMAIN d.p, os[k + 1].b \in DOMAIN d.p, R[os[k + 1].a] = R[os[k + 1].b]
    PROVE  Fits(d, B \cup {k + 1}, os, sym, k + 1, R, T, h)
<1> DEFINE j == k + 1
           E == Of(os, sym, k)
           F == Of(os, sym, j)
           C == B \cup {j}
<1>1. F = E \cup {j} /\ j \notin E
    BY OfNext
<1>2. /\ Forest(d, R, T, h) /\ DOMAIN d.p \subseteq EndsOf(os) /\ B \subseteq E
      /\ \A i \in E : os[i].a \in DOMAIN d.p /\ os[i].b \in DOMAIN d.p /\ R[os[i].a] = R[os[i].b]
      /\ MeetsAll(T, os, E \ B)
      /\ \A p \in [EndsOf(os) -> Int] : MeetsAll(p, os, E \ B) => \A y \in DOMAIN d.p : p[y] = p[R[y]] + T[y]
    BY DEF Fits
<1> HIDE DEF j, E, F
<1>3. F \ C = E \ B /\ C \subseteq F
    BY <1>1, <1>2
<1>4. \A i \in F : os[i].a \in DOMAIN d.p /\ os[i].b \in DOMAIN d.p /\ R[os[i].a] = R[os[i].b]
    BY <1>1, <1>2 DEF j
<1> HIDE DEF C
<1>5. Fits(d, C, os, sym, j, R, T, h)
    BY <1>2, <1>3, <1>4 DEF Fits, F
<1> QED BY <1>5 DEF C, j

(* An overlap between two trees. *)
LEMMA AttachFits ==
    ASSUME NEW d, NEW B, NEW os \in Seq(Overlap), NEW sym, NEW k \in Nat, NEW R, NEW T, NEW h,
           Fits(d, B, os, sym, k, R, T, h), k < Len(os), os[k + 1].symbol = sym,
           os[k + 1].a \in DOMAIN d.p, os[k + 1].b \in DOMAIN d.p, R[os[k + 1].a] # R[os[k + 1].b]
    PROVE  \E R1, T1, h1 :
               Fits(Attach(d, R[os[k + 1].a], R[os[k + 1].b], os[k + 1]), B, os, sym, k + 1, R1, T1, h1)
<1> DEFINE N == DOMAIN d.p
           j == k + 1
           o == os[j]
           ra == R[o.a]
           rb == R[o.b]
           by == T[o.a] + o.offset - T[o.b]
           c == Attach(d, ra, rb, o)
           R1 == Below(R, ra, rb)
           T1 == Raised(T, R, rb, by)
           h1 == Raised(h, R, rb, h[ra] + 1)
           E == Of(os, sym, k)
           F == Of(os, sym, j)
<1>1. F = E \cup {j} /\ j \notin E
    BY OfNext
<1>2. /\ Forest(d, R, T, h) /\ N \subseteq EndsOf(os) /\ B \subseteq E
      /\ \A i \in E : os[i].a \in N /\ os[i].b \in N /\ R[os[i].a] = R[os[i].b]
      /\ MeetsAll(T, os, E \ B)
      /\ \A p \in [EndsOf(os) -> Int] : MeetsAll(p, os, E \ B) => \A y \in N : p[y] = p[R[y]] + T[y]
    BY DEF Fits
<1>3. o.offset \in Int
    BY OverlapIs
<1>4. o.a \in N /\ o.b \in N /\ ra # rb
    OBVIOUS
<1>5. Forest(c, R1, T1, h1) /\ DOMAIN c.p = N
    BY <1>2, <1>3, <1>4, AttachKeeps
<1>6. DOMAIN R = N /\ (\A y \in N : R[y] \in N /\ T[y] \in Int)
    BY <1>2 DEF Forest
<1>7. /\ \A y \in N : R1[y] = IF R[y] = rb THEN ra ELSE R[y]
      /\ \A y \in N : T1[y] = IF R[y] = rb THEN T[y] + by ELSE T[y]
    BY <1>6 DEF Below, Raised
<1>8. by = T[o.a] + o.offset - T[o.b] /\ ra = R[o.a] /\ rb = R[o.b] /\ o = os[j]
    OBVIOUS
<1> HIDE DEF N, j, o, ra, rb, by, c, R1, T1, h1, E, F
<1>9. by \in Int /\ T[o.a] \in Int /\ T[o.b] \in Int
    <2>1. T[o.a] \in Int /\ T[o.b] \in Int
        BY <1>4, <1>6
    <2> QED BY <1>3, <1>8, <2>1
<1>10. F \ B = (E \ B) \cup {j} /\ B \subseteq F
    BY <1>1, <1>2
<1>11. \A i \in F : os[i].a \in N /\ os[i].b \in N /\ R1[os[i].a] = R1[os[i].b]
    <2>1. \A i \in E : os[i].a \in N /\ os[i].b \in N /\ R1[os[i].a] = R1[os[i].b]
        BY <1>2, <1>7
    <2>2. R1[o.a] = ra /\ R1[o.b] = ra
        BY <1>4, <1>7, <1>8
    <2> QED BY <1>1, <1>4, <1>8, <2>1, <2>2
<1>12. MeetsAll(T1, os, F \ B)
    <2>1. ASSUME NEW i \in E \ B PROVE T1[os[i].b] - T1[os[i].a] = os[i].offset
        <3>1. os[i].a \in N /\ os[i].b \in N /\ R[os[i].a] = R[os[i].b]
            BY <1>2
        <3>2. T[os[i].b] - T[os[i].a] = os[i].offset
            BY <1>2 DEF MeetsAll
        <3>3. T[os[i].a] \in Int /\ T[os[i].b] \in Int
            BY <1>6, <3>1
        <3>4. CASE R[os[i].a] = rb
            <4>1. T1[os[i].a] = T[os[i].a] + by /\ T1[os[i].b] = T[os[i].b] + by
                BY <1>7, <3>1, <3>4
            <4>2. (T[os[i].b] + by) - (T[os[i].a] + by) = T[os[i].b] - T[os[i].a]
                BY <1>9, <3>3
            <4> QED BY <3>2, <4>1, <4>2
        <3>5. CASE R[os[i].a] # rb
            BY <1>7, <3>1, <3>2, <3>5
        <3> QED BY <3>4, <3>5
    <2>2. T1[o.b] - T1[o.a] = o.offset
        <3>1. T1[o.b] = T[o.b] + by /\ T1[o.a] = T[o.a]
            BY <1>4, <1>7, <1>8
        <3>2. (T[o.b] + by) - T[o.a] = o.offset
            BY <1>3, <1>8, <1>9
        <3> QED BY <3>1, <3>2
    <2> QED BY <1>8, <1>10, <2>1, <2>2 DEF MeetsAll
<1>13. ASSUME NEW p \in [EndsOf(os) -> Int], MeetsAll(p, os, F \ B), NEW y \in N
       PROVE  p[y] = p[R1[y]] + T1[y]
    <2>1. MeetsAll(p, os, E \ B) /\ p[o.b] - p[o.a] = o.offset
        BY <1>8, <1>10, <1>13 DEF MeetsAll
    <2>2. \A z \in N : p[z] = p[R[z]] + T[z]
        BY <1>2, <2>1
    <2>3. \A z \in N : p[z] \in Int /\ p[R[z]] \in Int /\ T[z] \in Int
        BY <1>2, <1>6
    <2>4. CASE R[y] = rb
        <3>1. R1[y] = ra /\ T1[y] = T[y] + by
            BY <1>7, <2>4
        <3>2. p[y] = p[rb] + T[y] /\ p[o.a] = p[ra] + T[o.a] /\ p[o.b] = p[rb] + T[o.b]
            BY <1>4, <1>8, <2>2, <2>4
        <3>3. p[o.a] \in Int /\ p[o.b] \in Int /\ p[ra] \in Int /\ p[rb] \in Int /\ T[y] \in Int
            BY <1>4, <1>8, <2>3
        <3>4. p[rb] = p[ra] + by
            <4> DEFINE pa == p[o.a]
                       pb == p[o.b]
                       qa == p[ra]
                       qb == p[rb]
                       ta == T[o.a]
                       tb == T[o.b]
                       off == o.offset
            <4>1. pa = qa + ta /\ pb = qb + tb /\ pb - pa = off /\ by = ta + off - tb
                BY <1>8, <2>1, <3>2
            <4>2. pa \in Int /\ pb \in Int /\ qa \in Int /\ qb \in Int /\ ta \in Int /\ tb \in Int /\ off \in Int
                BY <1>3, <1>9, <3>3
            <4> HIDE DEF pa, pb, qa, qb, ta, tb, off
            <4>3. qb = qa + by
                BY <4>1, <4>2
            <4> QED BY <4>3 DEF qa, qb
        <3>5. p[ra] + by + T[y] = p[ra] + (T[y] + by)
            BY <1>9, <3>3
        <3> QED BY <3>1, <3>2, <3>4, <3>5
    <2>5. CASE R[y] # rb
        BY <1>7, <2>2, <2>5
    <2> QED BY <2>4, <2>5
<1>14. \A p \in [EndsOf(os) -> Int] : MeetsAll(p, os, F \ B) => \A y \in N : p[y] = p[R1[y]] + T1[y]
    BY <1>13
<1>15. Fits(c, B, os, sym, j, R1, T1, h1)
    BY <1>2, <1>5, <1>10, <1>11, <1>12, <1>14 DEF Fits, F
<1>16. \E S, U, g : Fits(c, B, os, sym, j, S, U, g)
    BY <1>15
<1> QED BY <1>16 DEF c, j, o, ra, rb

(* An overlap of another symbol. *)
LEMMA SkipFits ==
    ASSUME NEW d, NEW B, NEW os \in Seq(Overlap), NEW sym, NEW k \in Nat, NEW R, NEW T, NEW h,
           Fits(d, B, os, sym, k, R, T, h), k < Len(os), os[k + 1].symbol # sym
    PROVE  Fits(d, B, os, sym, k + 1, R, T, h)
<1>1. Of(os, sym, k + 1) = Of(os, sym, k)
    BY OfSkipped
<1> QED BY <1>1 DEF Fits

LEMMA JoinFits ==
    ASSUME NEW s, NEW os \in Seq(Overlap), NEW sym, NEW k \in Nat, k < Len(os), os[k + 1].symbol = sym,
           \E R, T, h : Fits(s.d, s.back, os, sym, k, R, T, h)
    PROVE  \E R, T, h : Fits(Join(s, os[k + 1], k + 1).d, Join(s, os[k + 1], k + 1).back, os, sym, k + 1, R, T, h)
<1> DEFINE j == k + 1
           o == os[j]
           fa == Find(s.d, o.a)
           fb == Find(fa.d, o.b)
           n == Join(s, o, j)
<1>1. PICK R, T, h : Fits(s.d, s.back, os, sym, k, R, T, h)
    OBVIOUS
<1>2. o.a \in EndsOf(os) /\ o.b \in EndsOf(os)
    BY OverlapIs
<1> DEFINE Ra == Grown(R, o.a, o.a)
           Ta == Grown(T, o.a, 0)
           ha == Grown(h, o.a, 0)
           Rb == Grown(Ra, o.b, o.b)
           Tb == Grown(Ta, o.b, 0)
           hb == Grown(ha, o.b, 0)
<1>3. n = IF fa.root = fb.root THEN [d |-> fb.d, back |-> s.back \cup {j}]
          ELSE [d |-> Attach(fb.d, fa.root, fb.root, o), back |-> s.back]
    BY DEF Join
<1>4. /\ fa.root = fb.root => n.d = fb.d /\ n.back = s.back \cup {j}
      /\ fa.root # fb.root => n.d = Attach(fb.d, fa.root, fb.root, o) /\ n.back = s.back
    <2> HIDE DEF fa, fb, n
    <2> QED BY <1>3
<1>5. o = os[k + 1] /\ j = k + 1 /\ os[k + 1].symbol = sym
    OBVIOUS
<1> HIDE DEF n, o, j
<1>6. Forest(s.d, R, T, h)
    BY <1>1 DEF Fits
<1>7. /\ Fits(fa.d, s.back, os, sym, k, Ra, Ta, ha)
      /\ Forest(fa.d, Ra, Ta, ha) /\ DOMAIN fa.d.p = DOMAIN s.d.p \cup {o.a} /\ fa.root = Ra[o.a]
    BY <1>1, <1>2, <1>6, FindFits, FindKeeps
<1> HIDE DEF fa, Ra, Ta, ha
<1>8. /\ Fits(fb.d, s.back, os, sym, k, Rb, Tb, hb)
      /\ Forest(fb.d, Rb, Tb, hb) /\ DOMAIN fb.d.p = DOMAIN fa.d.p \cup {o.b} /\ fb.root = Rb[o.b]
    BY <1>2, <1>7, FindFits, FindKeeps
<1>9. Rb[o.a] = Ra[o.a]
    <2>1. DOMAIN Ra = DOMAIN fa.d.p
        BY <1>7 DEF Forest
    <2>2. o.a \in DOMAIN Ra
        BY <1>7, <2>1
    <2>3. \A y \in DOMAIN Ra : Rb[y] = Ra[y]
        BY DEF Grown, Rb
    <2> QED BY <2>2, <2>3
<1> HIDE DEF fb, Rb, Tb, hb
<1>10. o.a \in DOMAIN fb.d.p /\ o.b \in DOMAIN fb.d.p /\ fa.root = Rb[o.a] /\ fb.root = Rb[o.b]
    BY <1>7, <1>8, <1>9
<1>11. CASE fa.root = fb.root
    <2>1. Fits(fb.d, s.back \cup {j}, os, sym, j, Rb, Tb, hb)
        BY <1>5, <1>8, <1>10, <1>11, BackFits
    <2>2. Fits(n.d, n.back, os, sym, j, Rb, Tb, hb)
        BY <1>4, <1>11, <2>1
    <2>3. \E S, U, g : Fits(n.d, n.back, os, sym, j, S, U, g)
        BY <2>2
    <2> QED BY <2>3 DEF n, o, j
<1>12. CASE fa.root # fb.root
    <2>1. \E S, U, g : Fits(Attach(fb.d, Rb[o.a], Rb[o.b], o), s.back, os, sym, j, S, U, g)
        BY <1>5, <1>8, <1>10, <1>12, AttachFits
    <2>2. n.d = Attach(fb.d, Rb[o.a], Rb[o.b], o) /\ n.back = s.back
        BY <1>4, <1>10, <1>12
    <2>3. \E S, U, g : Fits(n.d, n.back, os, sym, j, S, U, g)
        BY <2>1, <2>2
    <2> QED BY <2>3 DEF n, o, j
<1> QED BY <1>11, <1>12

-------------------------------------------------------------------------------
(* Every prefix of the overlaps, for every symbol. *)
Nothing == [d |-> [p |-> <<>>, pot |-> <<>>], back |-> {}]

LEMMA NothingFits ==
    ASSUME NEW os \in Seq(Overlap), NEW sym
    PROVE  Fits(Nothing.d, Nothing.back, os, sym, 0, <<>>, <<>>, <<>>)
<1>1. Nothing.d.p = <<>> /\ Nothing.d.pot = <<>> /\ Nothing.back = {}
    BY DEF Nothing
<1>2. DOMAIN <<>> = {} /\ \A S : <<>> \in [{} -> S]
    <2>1. \A S : <<>> = [x \in {} |-> x]
        OBVIOUS
    <2> QED BY <2>1
<1>3. Of(os, sym, 0) = {}
    <2>1. \A i \in 1..Len(os) : ~(i <= 0)
        OBVIOUS
    <2> QED BY <2>1 DEF Of
<1>4. Forest(Nothing.d, <<>>, <<>>, <<>>)
    <2>1. DOMAIN Nothing.d.p = {}
        BY <1>1, <1>2
    <2> QED BY <1>1, <1>2, <2>1 DEF Forest
<1>5. DOMAIN Nothing.d.p = {}
    BY <1>1, <1>2
<1> QED BY <1>1, <1>3, <1>4, <1>5 DEF Fits, MeetsAll

JoinsAll(f, os, sym) ==
    /\ f[0] = Nothing
    /\ \A k \in Nat : f[k + 1] = IF os[k + 1].symbol = sym THEN Join(f[k], os[k + 1], k + 1) ELSE f[k]

LEMMA JoinedUpIs ==
    ASSUME NEW os, NEW sym
    PROVE  JoinsAll(JoinedUp(os, sym), os, sym)
<1> DEFINE p == [does |-> "overlap", path |-> os, symbol |-> sym]
           f == JoinedUp(os, sym)
<1>1. p.does = "overlap" /\ p.path = os /\ p.symbol = sym
    OBVIOUS
<1> HIDE DEF p
<1>2. \A k, x : Turn(p, k, x) = IF os[k].symbol = sym THEN Join(x, os[k], k) ELSE x
    BY <1>1 DEF Turn
<1>3. f = CHOOSE g : g = [k \in Nat |-> IF k = 0 THEN Nothing
                                        ELSE IF os[k].symbol = sym THEN Join(g[k - 1], os[k], k) ELSE g[k - 1]]
    BY DEF JoinedUp, Nothing
<1>4. f = CHOOSE g : Recursion(g, p, Nothing)
    BY <1>2, <1>3 DEF Recursion
<1> HIDE DEF f
<1>5. Turned(f, p, Nothing)
    BY <1>4, Chosen
<1>6. JoinsAll(f, os, sym)
    BY <1>2, <1>5 DEF Turned, JoinsAll
<1> QED BY <1>6 DEF f

LEMMA AllFit ==
    ASSUME NEW os \in Seq(Overlap), NEW sym
    PROVE  \E R, T, h : Fits(Joined(os, sym).d, Joined(os, sym).back, os, sym, Len(os), R, T, h)
<1> DEFINE f == JoinedUp(os, sym)
           Q(k) == \E R, T, h : Fits(f[k].d, f[k].back, os, sym, k, R, T, h)
           W == {k \in Nat : k <= Len(os) => Q(k)}
<1>1. /\ f[0] = Nothing
      /\ \A k \in Nat : f[k + 1] = IF os[k + 1].symbol = sym THEN Join(f[k], os[k + 1], k + 1) ELSE f[k]
    <2>1. JoinsAll(f, os, sym)
        BY JoinedUpIs
    <2> HIDE DEF f
    <2> QED BY <2>1 DEF JoinsAll
<1>2. Q(0)
    <2> HIDE DEF f
    <2> QED BY <1>1, NothingFits
<1>3. ASSUME NEW k \in Nat, k < Len(os), Q(k) PROVE Q(k + 1)
    <2>1. CASE os[k + 1].symbol = sym
        <3>1. f[k + 1] = Join(f[k], os[k + 1], k + 1)
            BY <1>1, <2>1
        <3> HIDE DEF f
        <3> QED BY <1>3, <2>1, <3>1, JoinFits
    <2>2. CASE os[k + 1].symbol # sym
        <3>1. f[k + 1] = f[k]
            BY <1>1, <2>2
        <3>2. PICK R, T, h : Fits(f[k].d, f[k].back, os, sym, k, R, T, h)
            BY <1>3
        <3>3. Fits(f[k].d, f[k].back, os, sym, k + 1, R, T, h)
            BY <1>3, <2>2, <3>2, SkipFits
        <3> HIDE DEF f
        <3> QED BY <3>1, <3>3
    <2> QED BY <2>1, <2>2
<1> HIDE DEF Q
<1>4. 0 \in W
    BY <1>2
<1>5. ASSUME NEW k \in Nat, k \in W PROVE k + 1 \in W
    <2> SUFFICES ASSUME k + 1 <= Len(os) PROVE Q(k + 1)
        OBVIOUS
    <2>1. Len(os) \in Nat
        OBVIOUS
    <2>2. k < Len(os) /\ k <= Len(os)
        BY <2>1
    <2> QED BY <1>3, <1>5, <2>2
<1> HIDE DEF W
<1>6. \A k \in Nat : k \in W
    BY <1>4, <1>5, Induct
<1>7. Len(os) \in Nat /\ Len(os) <= Len(os)
    OBVIOUS
<1>8. Q(Len(os))
    BY <1>6, <1>7 DEF W
<1> QED BY <1>8 DEF Q, Joined

-------------------------------------------------------------------------------
CohomologyCalls ==
    {[fn |-> "cohomology", regions |-> rs, overlaps |-> os] : rs \in Seq(Region), os \in Seq(Overlap)}
CohomologyInit == call \in CohomologyCalls /\ answer = Pending
CohomologySpec == CohomologyInit /\ [][CohomologyStep]_cvars

(* A symbol has a back edge with a discrepancy when nothing explains it. *)
Obstructs(os, sym) ==
    \E i \in Joined(os, sym).back : Discrepancy(Joined(os, sym).d, os[i]) # 0

LEMMA BackOf ==
    ASSUME NEW os \in Seq(Overlap), NEW sym
    PROVE  Joined(os, sym).back \subseteq {i \in 1..Len(os) : os[i].symbol = sym}
<1>1. Joined(os, sym).back \subseteq Of(os, sym, Len(os))
    BY AllFit DEF Fits
<1> QED BY <1>1 DEF Of

LEMMA ObstructsIs ==
    ASSUME Heights = Int, NEW os \in Seq(Overlap), call.overlaps = os, NEW sym
    PROVE  Obstructs(os, sym) <=> ~Explained(sym)
<1> DEFINE d == Joined(os, sym).d
           B == Joined(os, sym).back
           N == DOMAIN d.p
           E == Of(os, sym, Len(os))
<1>1. PICK R, T, h : Fits(d, B, os, sym, Len(os), R, T, h)
    BY AllFit
<1>2. /\ Forest(d, R, T, h) /\ N \subseteq EndsOf(os) /\ B \subseteq E
      /\ \A i \in E : os[i].a \in N /\ os[i].b \in N /\ R[os[i].a] = R[os[i].b]
      /\ MeetsAll(T, os, E \ B)
      /\ \A p \in [EndsOf(os) -> Int] : MeetsAll(p, os, E \ B) => \A y \in N : p[y] = p[R[y]] + T[y]
    BY <1>1 DEF Fits
<1>3. \A y \in N : R[y] \in N /\ T[y] \in Int
    BY <1>2 DEF Forest
<1>4. \A i \in E : Discrepancy(d, os[i]) = os[i].offset - (T[os[i].b] - T[os[i].a])
    <2> SUFFICES ASSUME NEW i \in E PROVE Discrepancy(d, os[i]) = os[i].offset - (T[os[i].b] - T[os[i].a])
        OBVIOUS
    <2>1. os[i].a \in N /\ os[i].b \in N
        BY <1>2
    <2>2. Potential(d, os[i].a) = T[os[i].a] /\ Potential(d, os[i].b) = T[os[i].b]
        BY <1>2, <2>1, PotentialIs
    <2> QED BY <2>2 DEF Discrepancy
<1>5. \A i \in E : os[i].offset \in Int /\ T[os[i].a] \in Int /\ T[os[i].b] \in Int
    <2>1. \A i \in E : os[i].offset \in Int
        BY OverlapIs DEF Of
    <2> QED BY <1>2, <1>3, <2>1
<1>6. Obstructs(os, sym) <=> \E i \in B : Discrepancy(d, os[i]) # 0
    BY DEF Obstructs
<1>7. Potentials = [EndsOf(os) -> Int]
    BY DEF Potentials, Touched, EndsOf
<1>8. \A p : Explains(p, sym) <=> MeetsAll(p, os, E)
    <2>1. \A i : i \in E <=> i \in DOMAIN os /\ os[i].symbol = sym
        <3>1. DOMAIN os = 1..Len(os) /\ \A i \in 1..Len(os) : i <= Len(os)
            OBVIOUS
        <3> QED BY <3>1 DEF Of
    <2> HIDE DEF E
    <2> QED BY <2>1 DEF Explains, MeetsAll
<1> HIDE DEF d, B, N, E
<1>9. ASSUME ~(\E i \in B : Discrepancy(d, os[i]) # 0) PROVE Explained(sym)
    <2> DEFINE p == [y \in EndsOf(os) |-> IF y \in N THEN T[y] ELSE 0]
    <2>1. p \in [EndsOf(os) -> Int]
        BY <1>3
    <2>2. ASSUME NEW i \in E PROVE T[os[i].b] - T[os[i].a] = os[i].offset
        <3>1. CASE i \in B
            <4>1. os[i].offset - (T[os[i].b] - T[os[i].a]) = 0
                BY <1>4, <1>9, <3>1
            <4> QED BY <1>5, <4>1
        <3>2. CASE i \notin B
            BY <1>2, <3>2 DEF MeetsAll
        <3> QED BY <3>1, <3>2
    <2>3. \A y \in N : p[y] = T[y]
        BY <1>2
    <2> HIDE DEF p
    <2>4. MeetsAll(p, os, E)
        BY <1>2, <2>2, <2>3 DEF MeetsAll
    <2> QED BY <1>7, <1>8, <2>1, <2>4 DEF Explained
<1>10. ASSUME Explained(sym), NEW i \in B PROVE Discrepancy(d, os[i]) = 0
    <2>1. PICK p \in [EndsOf(os) -> Int] : MeetsAll(p, os, E)
        BY <1>7, <1>8, <1>10 DEF Explained
    <2>2. i \in E /\ os[i].a \in N /\ os[i].b \in N /\ R[os[i].a] = R[os[i].b]
        BY <1>2, <1>10
    <2>3. \A y \in N : p[y] = p[R[y]] + T[y]
        <3>1. MeetsAll(p, os, E \ B)
            BY <2>1 DEF MeetsAll
        <3> QED BY <1>2, <3>1
    <2> DEFINE r == p[R[os[i].a]]
               ta == T[os[i].a]
               tb == T[os[i].b]
               off == os[i].offset
    <2>4. p[os[i].a] = r + ta /\ p[os[i].b] = r + tb
        BY <2>2, <2>3
    <2>5. p[os[i].b] - p[os[i].a] = off
        BY <2>1, <2>2 DEF MeetsAll
    <2>6. ta \in Int /\ tb \in Int /\ off \in Int
        BY <1>5, <2>2
    <2>7. r \in Int
        BY <1>2, <1>3, <2>2
    <2>8. Discrepancy(d, os[i]) = off - (tb - ta)
        BY <1>4, <2>2
    <2> HIDE DEF r, ta, tb, off
    <2>9. (r + tb) - (r + ta) = off
        BY <2>4, <2>5
    <2>10. off - (tb - ta) = 0
        BY <2>6, <2>7, <2>9
    <2> QED BY <2>8, <2>10
<1> QED BY <1>6, <1>9, <1>10

(* What is answered, in these words. *)
LEMMA CohomologyIs ==
    ASSUME NEW rs, NEW os \in Seq(Overlap)
    PROVE  Cohomology(rs, os).obstructed = \E sym \in Symbols(os) : Obstructs(os, sym)
<1> DEFINE joined == [sym \in Symbols(os) |-> Joined(os, sym)]
           loops == UNION {joined[sym].back : sym \in DOMAIN joined}
           class == [i \in loops |->
                       LET o == os[i] IN
                       [symbol |-> o.symbol, loop |-> <<o.a, o.b>>,
                        discrepancy |-> Discrepancy(joined[o.symbol].d, o)]]
<1>1. Cohomology(rs, os).obstructed = \E i \in loops : class[i].discrepancy # 0
    BY DEF Cohomology
<1>2. \A i \in loops : class[i].discrepancy = Discrepancy(joined[os[i].symbol].d, os[i])
    OBVIOUS
<1>3. \A sym \in Symbols(os) : joined[sym] = Joined(os, sym)
    OBVIOUS
<1>4. DOMAIN joined = Symbols(os)
    OBVIOUS
<1>5. \A i : i \in loops <=> \E sym \in Symbols(os) : i \in Joined(os, sym).back
    BY <1>3, <1>4
<1> HIDE DEF joined, loops, class
<1>6. \A sym \in Symbols(os) : \A i \in Joined(os, sym).back : os[i].symbol = sym
    BY BackOf
<1>7. (\E i \in loops : class[i].discrepancy # 0) <=> \E sym \in Symbols(os) : Obstructs(os, sym)
    <2>1. ASSUME NEW i \in loops, class[i].discrepancy # 0 PROVE \E sym \in Symbols(os) : Obstructs(os, sym)
        <3>1. PICK sym \in Symbols(os) : i \in Joined(os, sym).back
            BY <1>5, <2>1
        <3>2. os[i].symbol = sym
            BY <1>6, <3>1
        <3>3. class[i].discrepancy = Discrepancy(Joined(os, sym).d, os[i])
            BY <1>2, <1>3, <2>1, <3>2
        <3> QED BY <2>1, <3>1, <3>3 DEF Obstructs
    <2>2. ASSUME NEW sym \in Symbols(os), Obstructs(os, sym) PROVE \E i \in loops : class[i].discrepancy # 0
        <3>1. PICK i \in Joined(os, sym).back : Discrepancy(Joined(os, sym).d, os[i]) # 0
            BY <2>2 DEF Obstructs
        <3>2. i \in loops /\ os[i].symbol = sym
            BY <1>5, <1>6, <3>1
        <3>3. class[i].discrepancy = Discrepancy(Joined(os, sym).d, os[i])
            BY <1>2, <1>3, <3>2
        <3> QED BY <3>1, <3>2, <3>3
    <2> QED BY <2>1, <2>2
<1> QED BY <1>1, <1>7

(* Whatever the overlaps of a workbook, in whatever order they are joined:  *)
(* they are called obstructed exactly when no potential of the regions      *)
(* explains every offset of a symbol (semantic/glue.cpp:77-128).            *)
THEOREM ObstructionIsRealHolds ==
    ASSUME Heights = Int
    PROVE  CohomologySpec => []ObstructionIsReal
<1> DEFINE Inv == call \in CohomologyCalls /\ ObstructionIsReal
<1>1. CohomologyInit => Inv
    BY DEF CohomologyInit, ObstructionIsReal, Got, Answered, Pending
<1>2. Inv /\ [CohomologyStep]_cvars => Inv'
    <2> SUFFICES ASSUME Inv, [CohomologyStep]_cvars PROVE Inv'
        OBVIOUS
    <2>1. CASE CohomologyStep
        <3>1. PICK rs \in Seq(Region), os \in Seq(Overlap) :
                  call = [fn |-> "cohomology", regions |-> rs, overlaps |-> os]
            BY DEF CohomologyCalls
        <3>2. call' = call /\ call.overlaps = os /\ call.regions = rs
            BY <2>1, <3>1 DEF CohomologyStep, Return
        <3>3. answer'.value = Cohomology(rs, os)
            BY <2>1, <3>2 DEF CohomologyStep, Return
        <3>4. \A sym : Obstructs(os, sym) <=> ~Explained(sym)
            BY <3>2, ObstructsIs
        <3>5. answer'.value.obstructed = ~\A sym \in Symbols(call.overlaps) : Explained(sym)
            <4>1. answer'.value.obstructed = \E sym \in Symbols(os) : Obstructs(os, sym)
                BY <3>3, CohomologyIs
            <4>2. (\E sym \in Symbols(os) : Obstructs(os, sym)) <=> ~\A sym \in Symbols(os) : Explained(sym)
                BY <3>4
            <4> QED BY <3>2, <4>1, <4>2
        <3>6. \A sym : Explained(sym)' = Explained(sym)
            BY <3>2 DEF Explained, Explains, Potentials, Touched
        <3>7. ObstructionIsReal'
            BY <3>2, <3>5, <3>6 DEF ObstructionIsReal
        <3> QED BY <3>2, <3>7
    <2>2. CASE UNCHANGED cvars
        <3>1. call' = call /\ answer' = answer
            BY <2>2 DEF cvars
        <3>2. \A sym : Explained(sym)' = Explained(sym)
            BY <3>1 DEF Explained, Explains, Potentials, Touched
        <3> QED BY <3>1, <3>2 DEF ObstructionIsReal, Got, Answered
    <2> QED BY <2>1, <2>2
<1> QED BY <1>1, <1>2, PTL DEF CohomologySpec
-------------------------------------------------------------------------------
(* The dependencies of any artifacts. *)
CONSTANT Artifact
Dep == [from : Artifact, to : Artifact, symbol : Name, cell : Name]
PairsOf(es) == {<<es[i].from, es[i].to>> : i \in DOMAIN es}

(* The recursions of ArtifactGraph. *)
LEMMA DepsAre ==
    ASSUME NEW calls
    PROVE  \E f : /\ f[0] = <<>> /\ \A k \in Nat : f[k + 1] = AddDep(f[k], calls[k + 1])
                  /\ StoredDeps(calls) = f[Len(calls)]
<1> DEFINE p == [does |-> "deps", path |-> calls]
           f == CHOOSE g : g = [k \in Nat |-> IF k = 0 THEN <<>> ELSE AddDep(g[k - 1], calls[k])]
<1>1. p.does = "deps" /\ p.path = calls
    OBVIOUS
<1> HIDE DEF p
<1>2. \A k, x : Turn(p, k, x) = AddDep(x, calls[k])
    BY <1>1 DEF Turn
<1>3. StoredDeps(calls) = f[Len(calls)]
    BY DEF StoredDeps
<1>4. f = CHOOSE g : Recursion(g, p, <<>>)
    BY <1>2 DEF Recursion
<1> HIDE DEF f
<1>5. Turned(f, p, <<>>)
    BY <1>4, Chosen
<1> QED BY <1>2, <1>3, <1>5 DEF Turned

ExpandsAll(f, es, rest, u, d) ==
    /\ f[0] = rest
    /\ \A i \in Nat : f[i + 1] = IF es[i + 1].from = u THEN Expand(f[i], es[i + 1], d) ELSE f[i]
LEMMA ExpandedIs ==
    ASSUME NEW es, NEW rest, NEW u, NEW d
    PROVE  ExpandsAll(Expanded(es, rest, u, d), es, rest, u, d)
<1> DEFINE p == [does |-> "expand", path |-> es, node |-> u, depth |-> d]
           f == Expanded(es, rest, u, d)
<1>1. p.does = "expand" /\ p.path = es /\ p.node = u /\ p.depth = d
    OBVIOUS
<1> HIDE DEF p
<1>2. \A k, x : Turn(p, k, x) = IF es[k].from = u THEN Expand(x, es[k], d) ELSE x
    BY <1>1 DEF Turn
<1>3. f = CHOOSE g : g = [k \in Nat |-> IF k = 0 THEN rest
                                        ELSE IF es[k].from = u THEN Expand(g[k - 1], es[k], d) ELSE g[k - 1]]
    BY DEF Expanded
<1>4. f = CHOOSE g : Recursion(g, p, rest)
    BY <1>2, <1>3 DEF Recursion
<1> HIDE DEF f
<1>5. Turned(f, p, rest)
    BY <1>4, Chosen
<1>6. ExpandsAll(f, es, rest, u, d)
    BY <1>2, <1>5 DEF Turned, ExpandsAll
<1> QED BY <1>6 DEF f

CollectStart(root) == [q |-> << <<root, 0>> >>, nodes |-> {root}, edges |-> <<>>]
CollectsAll(f, es, root, m) ==
    f[0] = CollectStart(root) /\ \A k \in Nat : f[k + 1] = CollectTurn(es, f[k], m)
LEMMA CollectIs ==
    ASSUME NEW es, NEW root, NEW m
    PROVE  CollectsAll(Collect(es, root, m), es, root, m)
<1> DEFINE p == [does |-> "collect", path |-> es, depth |-> m]
           s == CollectStart(root)
           f == Collect(es, root, m)
<1>1. p.does = "collect" /\ p.path = es /\ p.depth = m
    OBVIOUS
<1> HIDE DEF p
<1>2. \A k, x : Turn(p, k, x) = CollectTurn(es, x, m)
    BY <1>1 DEF Turn
<1>3. f = CHOOSE g : g = [k \in Nat |-> IF k = 0 THEN s ELSE CollectTurn(es, g[k - 1], m)]
    BY DEF Collect, CollectStart
<1> HIDE DEF s
<1>4. f = CHOOSE g : Recursion(g, p, s)
    BY <1>2, <1>3 DEF Recursion
<1> HIDE DEF f
<1>5. Turned(f, p, s)
    BY <1>4, Chosen
<1>6. CollectsAll(f, es, root, m)
    BY <1>2, <1>5 DEF Turned, CollectsAll, s
<1> QED BY <1>6 DEF f

VisitStart == [stack |-> <<>>, order |-> <<>>, cycle |-> FALSE, next |-> 1]
VisitsAll(f, g, names) ==
    f[0] = VisitStart /\ \A k \in Nat : f[k + 1] = VisitTurn(g, names, f[k])
LEMMA VisitIs ==
    ASSUME NEW g, NEW names
    PROVE  VisitsAll(Visit(g, names), g, names)
<1> DEFINE p == [does |-> "visit", path |-> names, graph |-> g]
           s == VisitStart
           f == Visit(g, names)
<1>1. p.does = "visit" /\ p.path = names /\ p.graph = g
    OBVIOUS
<1> HIDE DEF p
<1>2. \A k, x : Turn(p, k, x) = VisitTurn(g, names, x)
    BY <1>1 DEF Turn
<1>3. f = CHOOSE h : h = [k \in Nat |-> IF k = 0 THEN s ELSE VisitTurn(g, names, h[k - 1])]
    BY DEF Visit, VisitStart
<1> HIDE DEF s
<1>4. f = CHOOSE h : Recursion(h, p, s)
    BY <1>2, <1>3 DEF Recursion
<1> HIDE DEF f
<1>5. Turned(f, p, s)
    BY <1>4, Chosen
<1>6. VisitsAll(f, g, names)
    BY <1>2, <1>5 DEF Turned, VisitsAll, s
<1> QED BY <1>6 DEF f

ImportsAll(f, es, rest, u) ==
    f[0] = rest /\ \A i \in Nat : f[i + 1] = Import(f[i], es[i + 1], u)
LEMMA ImportingIs ==
    ASSUME NEW es, NEW rest, NEW u
    PROVE  ImportsAll(Importing(es, rest, u), es, rest, u)
<1> DEFINE p == [does |-> "import", path |-> es, node |-> u]
           f == Importing(es, rest, u)
<1>1. p.does = "import" /\ p.path = es /\ p.node = u
    OBVIOUS
<1> HIDE DEF p
<1>2. \A k, x : Turn(p, k, x) = Import(x, es[k], u)
    BY <1>1 DEF Turn
<1>3. f = CHOOSE g : g = [k \in Nat |-> IF k = 0 THEN rest ELSE Import(g[k - 1], es[k], u)]
    BY DEF Importing
<1>4. f = CHOOSE g : Recursion(g, p, rest)
    BY <1>2, <1>3 DEF Recursion
<1> HIDE DEF f
<1>5. Turned(f, p, rest)
    BY <1>4, Chosen
<1>6. ImportsAll(f, es, rest, u)
    BY <1>2, <1>5 DEF Turned, ImportsAll
<1> QED BY <1>6 DEF f

AffectStart(c) == [seen |-> {}, stack |-> <<c>>]
AffectsAll(f, es, c) ==
    f[0] = AffectStart(c) /\ \A k \in Nat : f[k + 1] = AffectTurn(es, f[k])
LEMMA AffectIs ==
    ASSUME NEW es, NEW c
    PROVE  AffectsAll(Affect(es, c), es, c)
<1> DEFINE p == [does |-> "affect", path |-> es]
           s == AffectStart(c)
           f == Affect(es, c)
<1>1. p.does = "affect" /\ p.path = es
    OBVIOUS
<1> HIDE DEF p
<1>2. \A k, x : Turn(p, k, x) = AffectTurn(es, x)
    BY <1>1 DEF Turn
<1>3. f = CHOOSE g : g = [k \in Nat |-> IF k = 0 THEN s ELSE AffectTurn(es, g[k - 1])]
    BY DEF Affect, AffectStart
<1> HIDE DEF s
<1>4. f = CHOOSE g : Recursion(g, p, s)
    BY <1>2, <1>3 DEF Recursion
<1> HIDE DEF f
<1>5. Turned(f, p, s)
    BY <1>4, Chosen
<1>6. AffectsAll(f, es, c)
    BY <1>2, <1>5 DEF Turned, AffectsAll, s
<1> QED BY <1>6 DEF f

LEMMA WalkEndsAre ==
    WalkEnds[0] = {call.root} /\ \A k \in Nat : WalkEnds[k + 1] = Follow(WalkEnds[k])
<1> DEFINE p == [does |-> "walk"]
           s == {call.root}
           f == WalkEnds
<1>1. p.does = "walk"
    OBVIOUS
<1> HIDE DEF p
<1>2. \A k, x : Turn(p, k, x) = Follow(x)
    BY <1>1 DEF Turn
<1>3. f = CHOOSE g : g = [k \in Nat |-> IF k = 0 THEN s ELSE Follow(g[k - 1])]
    BY DEF WalkEnds, Follow
<1> HIDE DEF s
<1> HIDE DEF f
<1>4. f = CHOOSE g : Recursion(g, p, s)
    BY <1>2, <1>3 DEF Recursion
<1>5. Turned(f, p, s)
    BY <1>4, Chosen
<1>6. f[0] = s /\ \A k \in Nat : f[k + 1] = Follow(f[k])
    BY <1>2, <1>5 DEF Turned
<1> QED BY <1>6 DEF f, s

-------------------------------------------------------------------------------
(* What is stored are sequences of dependencies with the same ends. *)
LEMMA AddedDep ==
    ASSUME NEW ds \in Seq(Dep), NEW e \in Dep
    PROVE  AddDep(ds, e) \in Seq(Dep) /\ PairsOf(AddDep(ds, e)) = PairsOf(ds) \cup {<<e.from, e.to>>}
<1>1. CASE \E i \in DOMAIN ds : SameId(ds[i], e)
    <2> DEFINE n == [i \in DOMAIN ds |-> IF SameId(ds[i], e) THEN e ELSE ds[i]]
    <2>1. AddDep(ds, e) = n
        BY <1>1 DEF AddDep
    <2>2. n \in Seq(Dep)
        <3>1. Len(ds) \in Nat /\ n \in [1..Len(ds) -> Dep]
            OBVIOUS
        <3> HIDE DEF n
        <3> QED BY <3>1
    <2>3. DOMAIN n = DOMAIN ds /\ \A i \in DOMAIN ds : n[i].from = ds[i].from /\ n[i].to = ds[i].to
        BY DEF SameId
    <2>4. PICK j \in DOMAIN ds : SameId(ds[j], e)
        BY <1>1
    <2>5. <<e.from, e.to>> \in PairsOf(ds)
        BY <2>4 DEF SameId, PairsOf
    <2> HIDE DEF n
    <2>6. PairsOf(n) = PairsOf(ds)
        BY <2>3 DEF PairsOf
    <2> QED BY <2>1, <2>2, <2>5, <2>6
<1>2. CASE ~\E i \in DOMAIN ds : SameId(ds[i], e)
    <2> DEFINE n == Append(ds, e)
    <2>1. AddDep(ds, e) = n
        BY <1>2 DEF AddDep
    <2>2. /\ n \in Seq(Dep) /\ DOMAIN n = DOMAIN ds \cup {Len(ds) + 1} /\ n[Len(ds) + 1] = e
          /\ \A i \in DOMAIN ds : n[i] = ds[i]
        OBVIOUS
    <2> HIDE DEF n
    <2>3. PairsOf(n) = PairsOf(ds) \cup {<<e.from, e.to>>}
        BY <2>2 DEF PairsOf
    <2> QED BY <2>1, <2>2, <2>3
<1> QED BY <1>1, <1>2

LEMMA StoredPairs ==
    ASSUME NEW calls \in Seq(Dep)
    PROVE  StoredDeps(calls) \in Seq(Dep) /\ PairsOf(StoredDeps(calls)) = PairsOf(calls)
<1>1. PICK f : /\ f[0] = <<>> /\ \A k \in Nat : f[k + 1] = AddDep(f[k], calls[k + 1])
               /\ StoredDeps(calls) = f[Len(calls)]
    BY DepsAre
<1> DEFINE Upto(k) == {<<calls[i].from, calls[i].to>> : i \in 1..k}
           W == {k \in Nat : k <= Len(calls) => f[k] \in Seq(Dep) /\ PairsOf(f[k]) = Upto(k)}
<1>2. 0 \in W
    <2>1. f[0] \in Seq(Dep) /\ DOMAIN f[0] = {}
        BY <1>1
    <2>2. PairsOf(f[0]) = {} /\ Upto(0) = {}
        BY <2>1 DEF PairsOf
    <2> QED BY <2>1, <2>2
<1>3. ASSUME NEW k \in Nat, k \in W PROVE k + 1 \in W
    <2> SUFFICES ASSUME k + 1 <= Len(calls) PROVE f[k + 1] \in Seq(Dep) /\ PairsOf(f[k + 1]) = Upto(k + 1)
        OBVIOUS
    <2>1. k + 1 \in 1..Len(calls) /\ k <= Len(calls) /\ calls[k + 1] \in Dep
        OBVIOUS
    <2>2. f[k] \in Seq(Dep) /\ PairsOf(f[k]) = Upto(k)
        BY <1>3, <2>1
    <2>3. Upto(k + 1) = Upto(k) \cup {<<calls[k + 1].from, calls[k + 1].to>>}
        <3>1. 1..(k + 1) = (1..k) \cup {k + 1}
            OBVIOUS
        <3> QED BY <3>1
    <2> HIDE DEF Upto
    <2> QED BY <1>1, <2>1, <2>2, <2>3, AddedDep
<1> HIDE DEF W
<1>4. Len(calls) \in W /\ Len(calls) \in Nat
    BY <1>2, <1>3, Induct
<1>5. PairsOf(calls) = Upto(Len(calls))
    BY DEF PairsOf
<1> HIDE DEF Upto
<1> QED BY <1>1, <1>4, <1>5 DEF W

(* The least sets that reachability is. *)
LEMMA ReachedIs ==
    /\ call.root \in Reached /\ Reached \subseteq Artifacts /\ ClosedSet(Reached)
    /\ \A S \in SUBSET Artifacts : call.root \in S /\ ClosedSet(S) => Reached \subseteq S
<1>1. \A e \in Edges : e[2] \in Artifacts
    BY DEF Artifacts
<1>2. call.root \in Reached /\ Reached \subseteq Artifacts
    BY DEF Reached, Artifacts
<1>3. ClosedSet(Reached)
    BY <1>1 DEF ClosedSet, Reached
<1> QED BY <1>2, <1>3 DEF Reached

LEMMA NeedsIs ==
    ASSUME NEW a
    PROVE  /\ \A e \in Edges : e[1] = a => e[2] \in NeedsOf(a)
           /\ ClosedSet(NeedsOf(a)) /\ NeedsOf(a) \subseteq Artifacts
           /\ \A S \in SUBSET Artifacts :
                (\A e \in Edges : e[1] = a => e[2] \in S) /\ ClosedSet(S) => NeedsOf(a) \subseteq S
<1>1. \A e \in Edges : e[2] \in Artifacts
    BY DEF Artifacts
<1>2. \A e \in Edges : e[1] = a => e[2] \in NeedsOf(a)
    BY <1>1 DEF NeedsOf
<1>3. ASSUME NEW e \in Edges, e[1] \in NeedsOf(a) PROVE e[2] \in NeedsOf(a)
    <2>1. ASSUME NEW S \in SUBSET Artifacts, \A d \in Edges : d[1] = a => d[2] \in S, ClosedSet(S)
          PROVE  e[2] \in S
        <3>1. e[1] \in S
            BY <1>3, <2>1 DEF NeedsOf
        <3> QED BY <2>1, <3>1 DEF ClosedSet
    <2> QED BY <1>1, <2>1 DEF NeedsOf
<1>4. ClosedSet(NeedsOf(a))
    BY <1>3 DEF ClosedSet
<1> QED BY <1>2, <1>4 DEF NeedsOf

(* What is needed by what is needed. *)
LEMMA NeedsOnward ==
    ASSUME NEW a, NEW e \in Edges, e[1] \in NeedsOf(a)
    PROVE  e[2] \in NeedsOf(a)
BY NeedsIs DEF ClosedSet

LEMMA NeedsBack ==
    ASSUME NEW a, NEW c, NEW e \in Edges, e[1] = a, c \in NeedsOf(e[2])
    PROVE  c \in NeedsOf(a)
<1>1. e[2] \in NeedsOf(a) /\ ClosedSet(NeedsOf(a)) /\ NeedsOf(a) \in SUBSET Artifacts
    BY NeedsIs
<1>2. \A d \in Edges : d[1] = e[2] => d[2] \in NeedsOf(a)
    BY <1>1 DEF ClosedSet
<1>3. NeedsOf(e[2]) \subseteq NeedsOf(a)
    BY <1>1, <1>2, NeedsIs
<1> QED BY <1>3

(* A closed set of reached artifacts has what a member of it needs. *)
LEMMA NeedsStay ==
    ASSUME NEW a, NEW S \in SUBSET Artifacts, ClosedSet(S), a \in S
    PROVE  NeedsOf(a) \subseteq S
<1>1. \A e \in Edges : e[1] = a => e[2] \in S
    BY DEF ClosedSet
<1> QED BY <1>1, NeedsIs

(* As many as there are dependencies, and one. *)
LEMMA FewReached ==
    ASSUME NEW es \in Seq(Dep), PairsOf(es) = Edges
    PROVE  IsFiniteSet(Reached) /\ Cardinality(Reached) <= Len(es) + 1
<1> DEFINE n == Len(es)
           f == [i \in 1..(n + 1) |-> IF i = n + 1 THEN call.root ELSE es[i].to]
<1>1. n \in Nat /\ DOMAIN es = 1..n
    OBVIOUS
<1>2. Edges = {<<es[i].from, es[i].to>> : i \in 1..n}
    BY <1>1 DEF PairsOf
<1> HIDE DEF n
<1>3. Artifacts = {call.root} \cup {es[i].to : i \in 1..n}
    <2>1. \A e \in Edges : e[2] \in {es[i].to : i \in 1..n}
        BY <1>2
    <2>2. \A i \in 1..n : \E e \in Edges : e[2] = es[i].to
        <3> TAKE i \in 1..n
        <3>1. <<es[i].from, es[i].to>> \in Edges
            BY <1>2
        <3> QED BY <3>1
    <2> QED BY <2>1, <2>2 DEF Artifacts
<1>4. f[n + 1] = call.root /\ \A i \in 1..n : f[i] = es[i].to
    <2>1. n + 1 \in 1..(n + 1) /\ \A i \in 1..n : i \in 1..(n + 1) /\ i # n + 1
        BY <1>1
    <2> QED BY <2>1
<1>5. f \in Surjection(1..(n + 1), Artifacts)
    <2>1. \A i \in 1..(n + 1) : i = n + 1 \/ i \in 1..n
        BY <1>1
    <2>2. f \in [1..(n + 1) -> Artifacts]
        BY <1>3, <2>1
    <2>3. \A x \in Artifacts : \E i \in 1..(n + 1) : f[i] = x
        <3>1. n + 1 \in 1..(n + 1) /\ \A i \in 1..n : i \in 1..(n + 1)
            BY <1>1
        <3> HIDE DEF f
        <3> QED BY <1>3, <1>4, <3>1
    <2> HIDE DEF f
    <2> QED BY <2>2, <2>3 DEF Surjection
<1> HIDE DEF f
<1>6. IsFiniteSet(1..(n + 1)) /\ Cardinality(1..(n + 1)) = n + 1
    BY <1>1, FS_Interval
<1>7. IsFiniteSet(Artifacts) /\ Cardinality(Artifacts) <= n + 1
    BY <1>5, <1>6, FS_Surjection
<1>8. Reached \in SUBSET Artifacts
    BY ReachedIs
<1>9. IsFiniteSet(Reached) /\ Cardinality(Reached) <= Cardinality(Artifacts)
    BY <1>7, <1>8, FS_Subset
<1>10. Cardinality(Reached) \in Nat /\ Cardinality(Artifacts) \in Nat
    BY <1>7, <1>9, FS_CardinalityType
<1> QED BY <1>1, <1>7, <1>9, <1>10 DEF n
-------------------------------------------------------------------------------
(* The search from the root. *)
Collecting == [q : Seq(Reached \X Nat), nodes : SUBSET Reached, edges : Seq(Dep)]
Waiting(s) == {s.q[j][1] : j \in DOMAIN s.q}
Deep(nodes, m, u, d) ==     \* found along a walk of d edges, all of whose artifacts were new
    /\ u \in nodes /\ d <= m /\ u \in WalkEnds[d]
    /\ \E A \in SUBSET nodes : IsFiniteSet(A) /\ Cardinality(A) = d + 1
Known(s, m) ==
    /\ s \in Collecting /\ call.root \in s.nodes
    /\ PairsOf(s.edges) \subseteq {e \in Edges : e[1] \in s.nodes /\ e[2] \in s.nodes}
    /\ \A j \in DOMAIN s.q : Deep(s.nodes, m, s.q[j][1], s.q[j][2])
Told(s, v) == \A e \in Edges : e[1] = v => e \in PairsOf(s.edges)

LEMMA PairsGrow ==
    ASSUME NEW es \in Seq(Dep), NEW e \in Dep
    PROVE  PairsOf(Append(es, e)) = PairsOf(es) \cup {<<e.from, e.to>>}
<1> DEFINE n == Append(es, e)
<1>1. DOMAIN n = DOMAIN es \cup {Len(es) + 1} /\ n[Len(es) + 1] = e /\ \A i \in DOMAIN es : n[i] = es[i]
    OBVIOUS
<1> HIDE DEF n
<1>2. PairsOf(n) = PairsOf(es) \cup {<<e.from, e.to>>}
    BY <1>1 DEF PairsOf
<1> QED BY <1>2 DEF n

ExpandsTo(t, s, e, d) ==
    /\ t \in Collecting /\ t.nodes = s.nodes \cup {e.to} /\ t.edges = Append(s.edges, e)
    /\ e.to \in s.nodes => t.q = s.q
    /\ e.to \notin s.nodes => t.q = Append(s.q, <<e.to, d + 1>>)
LEMMA ExpandIs ==
    ASSUME NEW s \in Collecting, NEW e \in Dep, e.to \in Reached, NEW d \in Nat
    PROVE  ExpandsTo(Expand(s, e, d), s, e, d)
<1>0. s.q \in Seq(Reached \X Nat) /\ s.nodes \in SUBSET Reached /\ s.edges \in Seq(Dep)
    BY DEF Collecting
<1>1. CASE e.to \in s.nodes
    <2> DEFINE x == Append(s.edges, e)
               t == [s EXCEPT !.edges = x]
    <2>0. x \in Seq(Dep)
        BY <1>0
    <2> HIDE DEF x
    <2>1. t \in Collecting /\ t.q = s.q /\ t.nodes = s.nodes /\ t.edges = x
        BY <1>0, <2>0 DEF Collecting
    <2> USE DEF x
    <2> HIDE DEF t
    <2>2. ExpandsTo(t, s, e, d)
        BY <1>1, <2>1 DEF ExpandsTo
    <2>3. Expand(s, e, d) = t
        BY <1>1 DEF Expand, t
    <2> QED BY <2>2, <2>3
<1>2. CASE e.to \notin s.nodes
    <2> DEFINE t == [edges |-> Append(s.edges, e), nodes |-> s.nodes \cup {e.to}, q |-> Append(s.q, <<e.to, d + 1>>)]
    <2>1. <<e.to, d + 1>> \in Reached \X Nat
        OBVIOUS
    <2>2. Append(s.q, <<e.to, d + 1>>) \in Seq(Reached \X Nat)
        BY <1>0, <2>1
    <2>3. Append(s.edges, e) \in Seq(Dep) /\ s.nodes \cup {e.to} \in SUBSET Reached
        BY <1>0
    <2>4. t \in Collecting
        BY <2>2, <2>3 DEF Collecting
    <2>5. t.q = Append(s.q, <<e.to, d + 1>>) /\ t.nodes = s.nodes \cup {e.to} /\ t.edges = Append(s.edges, e)
        OBVIOUS
    <2> HIDE DEF t
    <2>6. ExpandsTo(t, s, e, d)
        BY <1>2, <2>4, <2>5 DEF ExpandsTo
    <2>7. Expand(s, e, d) = t
        BY <1>2 DEF Expand, t
    <2> QED BY <2>6, <2>7
<1> QED BY <1>1, <1>2

LEMMA DeepStays ==
    ASSUME NEW N, NEW M, N \subseteq M, NEW m, NEW u, NEW d, Deep(N, m, u, d)
    PROVE  Deep(M, m, u, d)
BY DEF Deep

(* What looking at an edge of the artifact being expanded leaves. *)
After(t, s, m, u, d) ==
    /\ Known(t, m) /\ Deep(t.nodes, m, u, d)
    /\ s.nodes \subseteq t.nodes /\ Waiting(s) \subseteq Waiting(t)
    /\ PairsOf(s.edges) \subseteq PairsOf(t.edges)
    /\ \A v \in t.nodes : v \in s.nodes \/ v \in Waiting(t)
Balanced(s, n) == IsFiniteSet(s.nodes) /\ Cardinality(s.nodes) = n + Len(s.q)

LEMMA ExpandStep ==
    ASSUME NEW s, NEW m \in Nat, NEW d \in Nat, d < m, NEW e \in Dep, <<e.from, e.to>> \in Edges,
           Known(s, m), Deep(s.nodes, m, e.from, d), NEW n \in Nat, Balanced(s, n)
    PROVE  LET t == Expand(s, e, d) IN
           After(t, s, m, e.from, d) /\ Balanced(t, n) /\ <<e.from, e.to>> \in PairsOf(t.edges)
<1> DEFINE t == Expand(s, e, d)
<1>0. s \in Collecting /\ s.q \in Seq(Reached \X Nat) /\ s.nodes \in SUBSET Reached /\ s.edges \in Seq(Dep)
    BY DEF Collecting, Known
<1>1. e.from \in s.nodes /\ e.from \in Reached
    BY <1>0 DEF Deep
<1>2. e.to \in Reached
    BY <1>1, ReachedIs DEF ClosedSet
<1>3. ExpandsTo(t, s, e, d)
    BY <1>0, <1>2, ExpandIs
<1> HIDE DEF t
<1>4. t \in Collecting /\ t.nodes = s.nodes \cup {e.to} /\ t.edges = Append(s.edges, e)
    BY <1>3 DEF ExpandsTo
<1>5. PairsOf(t.edges) = PairsOf(s.edges) \cup {<<e.from, e.to>>}
    BY <1>0, <1>4, PairsGrow
<1>6. call.root \in t.nodes /\ PairsOf(t.edges) \subseteq {x \in Edges : x[1] \in t.nodes /\ x[2] \in t.nodes}
    <2>1. call.root \in s.nodes /\ PairsOf(s.edges) \subseteq {x \in Edges : x[1] \in s.nodes /\ x[2] \in s.nodes}
        BY DEF Known
    <2> QED BY <1>1, <1>4, <1>5, <2>1
<1>7. Deep(t.nodes, m, e.from, d)
    BY <1>4, DeepStays
<1>8. \A j \in DOMAIN s.q : Deep(t.nodes, m, s.q[j][1], s.q[j][2])
    <2>1. \A j \in DOMAIN s.q : Deep(s.nodes, m, s.q[j][1], s.q[j][2])
        BY DEF Known
    <2> QED BY <1>4, <2>1, DeepStays
<1>9. CASE e.to \in s.nodes
    <2>1. t.q = s.q /\ t.nodes = s.nodes
        BY <1>3, <1>4, <1>9 DEF ExpandsTo
    <2>2. Known(t, m)
        BY <1>4, <1>6, <1>8, <2>1 DEF Known
    <2>3. Waiting(t) = Waiting(s)
        BY <2>1 DEF Waiting
    <2>4. Balanced(t, n)
        BY <2>1 DEF Balanced
    <2> QED BY <1>5, <1>7, <2>1, <2>2, <2>3, <2>4 DEF After, t
<1>10. CASE e.to \notin s.nodes
    <2> DEFINE x == <<e.to, d + 1>>
    <2>1. t.q = Append(s.q, x)
        BY <1>3, <1>10 DEF ExpandsTo
    <2>2. /\ Len(t.q) = Len(s.q) + 1 /\ DOMAIN t.q = DOMAIN s.q \cup {Len(s.q) + 1}
          /\ t.q[Len(s.q) + 1] = x /\ \A j \in DOMAIN s.q : t.q[j] = s.q[j]
        <3>1. x \in Reached \X Nat
            BY <1>2
        <3> DEFINE r == s.q
                   R == Reached \X Nat
        <3>2. r \in Seq(R) /\ x \in R
            BY <1>0, <3>1
        <3> HIDE DEF x, r, R
        <3>3. Len(Append(r, x)) = Len(r) + 1 /\ Append(r, x)[Len(r) + 1] = x
            BY <3>2
        <3>4. DOMAIN Append(r, x) = DOMAIN r \cup {Len(r) + 1}
            BY <3>2
        <3>5. \A j \in DOMAIN r : Append(r, x)[j] = r[j]
            BY <3>2
        <3> QED BY <2>1, <3>3, <3>4, <3>5 DEF r
    <2>3. x[1] = e.to /\ x[2] = d + 1
        OBVIOUS
    <2> HIDE DEF x
    <2>4. Deep(t.nodes, m, e.to, d + 1)
        <3>1. e.to \in t.nodes /\ d + 1 <= m
            BY <1>4
        <3>2. e.to \in WalkEnds[d + 1]
            <4>1. e.from \in WalkEnds[d] /\ WalkEnds[d + 1] = Follow(WalkEnds[d])
                BY WalkEndsAre DEF Deep
            <4> DEFINE y == <<e.from, e.to>>
            <4>2. y \in Edges /\ y[1] \in WalkEnds[d] /\ y[2] = e.to
                BY <4>1
            <4> HIDE DEF y
            <4>3. e.to \in Follow(WalkEnds[d])
                BY <4>2 DEF Follow
            <4> QED BY <4>1, <4>3
        <3>3. \E A \in SUBSET t.nodes : IsFiniteSet(A) /\ Cardinality(A) = (d + 1) + 1
            <4>1. PICK A \in SUBSET s.nodes : IsFiniteSet(A) /\ Cardinality(A) = d + 1
                BY DEF Deep
            <4>2. e.to \notin A
                BY <1>10
            <4>3. IsFiniteSet(A \cup {e.to}) /\ Cardinality(A \cup {e.to}) = Cardinality(A) + 1
                BY <4>1, <4>2, FS_AddElement
            <4>4. A \cup {e.to} \in SUBSET t.nodes
                BY <1>4
            <4> QED BY <4>1, <4>3, <4>4
        <3> QED BY <3>1, <3>2, <3>3 DEF Deep
    <2>5. \A j \in DOMAIN t.q : Deep(t.nodes, m, t.q[j][1], t.q[j][2])
        BY <1>8, <2>2, <2>3, <2>4
    <2>6. Known(t, m)
        BY <1>4, <1>6, <2>5 DEF Known
    <2>7. Waiting(t) = Waiting(s) \cup {e.to}
        BY <2>2, <2>3 DEF Waiting
    <2>8. Balanced(t, n)
        <3>1. IsFiniteSet(t.nodes) /\ Cardinality(t.nodes) = Cardinality(s.nodes) + 1
            <4> DEFINE N == s.nodes
                       y == e.to
            <4>1. IsFiniteSet(N) /\ y \notin N /\ t.nodes = N \cup {y}
                BY <1>4, <1>10 DEF Balanced
            <4> HIDE DEF N, y
            <4>2. IsFiniteSet(N \cup {y}) /\ Cardinality(N \cup {y}) = Cardinality(N) + 1
                BY <4>1, FS_AddElement
            <4> QED BY <4>1, <4>2 DEF N
        <3>2. Cardinality(s.nodes) = n + Len(s.q) /\ Len(s.q) \in Nat
            BY <1>0 DEF Balanced
        <3> QED BY <2>2, <3>1, <3>2 DEF Balanced
    <2> QED BY <1>4, <1>5, <1>7, <2>6, <2>7, <2>8 DEF After, t
<1> QED BY <1>9, <1>10

(* All the edges of one artifact, from the first on. *)
LEMMA ExpandAll ==
    ASSUME NEW es \in Seq(Dep), PairsOf(es) = Edges, NEW s, NEW m \in Nat, NEW d \in Nat, d < m, NEW u,
           Known(s, m), Deep(s.nodes, m, u, d), NEW n \in Nat, Balanced(s, n)
    PROVE  LET t == Expanded(es, s, u, d)[Len(es)] IN After(t, s, m, u, d) /\ Balanced(t, n) /\ Told(t, u)
<1> DEFINE f == Expanded(es, s, u, d)
           Seen(k) == \A i \in 1..k : es[i].from = u => <<es[i].from, es[i].to>> \in PairsOf(f[k].edges)
           W == {k \in Nat : k <= Len(es) => After(f[k], s, m, u, d) /\ Balanced(f[k], n) /\ Seen(k)}
<1>1. ExpandsAll(f, es, s, u, d)
    BY ExpandedIs
<1> HIDE DEF f
<1>2. f[0] = s /\ \A i \in Nat : f[i + 1] = IF es[i + 1].from = u THEN Expand(f[i], es[i + 1], d) ELSE f[i]
    BY <1>1 DEF ExpandsAll
<1>3. 0 \in W
    <2>1. After(s, s, m, u, d)
        BY DEF After
    <2>2. Seen(0)
        OBVIOUS
    <2> QED BY <1>2, <2>1, <2>2
<1>4. ASSUME NEW k \in Nat, k \in W PROVE k + 1 \in W
    <2> SUFFICES ASSUME k + 1 <= Len(es)
                 PROVE  After(f[k + 1], s, m, u, d) /\ Balanced(f[k + 1], n) /\ Seen(k + 1)
        OBVIOUS
    <2>1. k <= Len(es) /\ k + 1 \in DOMAIN es /\ es[k + 1] \in Dep
        OBVIOUS
    <2>2. After(f[k], s, m, u, d) /\ Balanced(f[k], n) /\ Seen(k)
        BY <1>4, <2>1
    <2> DEFINE e == es[k + 1]
    <2>3. <<e.from, e.to>> \in Edges
        BY <2>1 DEF PairsOf
    <2> HIDE DEF Seen
    <2>4. CASE e.from # u
        <3>1. f[k + 1] = f[k]
            BY <1>2, <2>4
        <3>2. Seen(k + 1)
            <4>1. \A i \in 1..(k + 1) : i \in 1..k \/ i = k + 1
                OBVIOUS
            <4> QED BY <2>2, <2>4, <3>1, <4>1 DEF Seen
        <3> QED BY <2>2, <3>1, <3>2
    <2>5. CASE e.from = u
        <3> DEFINE t == Expand(f[k], e, d)
        <3>1. f[k + 1] = t
            BY <1>2, <2>5
        <3>2. Known(f[k], m) /\ Deep(f[k].nodes, m, e.from, d)
            BY <2>2, <2>5 DEF After
        <3> HIDE DEF e
        <3>3. e \in Dep
            BY <2>1 DEF e
        <3>4. After(t, f[k], m, e.from, d) /\ Balanced(t, n) /\ <<e.from, e.to>> \in PairsOf(t.edges)
            BY <2>2, <2>3, <3>2, <3>3, ExpandStep
        <3> HIDE DEF t
        <3>5. After(t, s, m, u, d)
            BY <2>2, <2>5, <3>4 DEF After
        <3>6. Seen(k + 1)
            <4>1. \A i \in 1..(k + 1) : i \in 1..k \/ i = k + 1
                OBVIOUS
            <4>2. PairsOf(f[k].edges) \subseteq PairsOf(t.edges)
                BY <3>4 DEF After
            <4> QED BY <2>2, <3>1, <3>4, <4>1, <4>2 DEF Seen, e
        <3> QED BY <3>1, <3>4, <3>5, <3>6
    <2> QED BY <2>4, <2>5
<1> HIDE DEF W
<1>5. Len(es) \in W /\ Len(es) \in Nat /\ DOMAIN es = 1..Len(es)
    BY <1>3, <1>4, Induct
<1>6. After(f[Len(es)], s, m, u, d) /\ Balanced(f[Len(es)], n) /\ Seen(Len(es))
    BY <1>5 DEF W
<1>7. Told(f[Len(es)], u)
    <2> SUFFICES ASSUME NEW e \in Edges, e[1] = u PROVE e \in PairsOf(f[Len(es)].edges)
        BY DEF Told
    <2>1. PICK i \in DOMAIN es : e = <<es[i].from, es[i].to>>
        BY DEF PairsOf
    <2> QED BY <1>5, <1>6, <2>1
<1> QED BY <1>6, <1>7 DEF f

(* One turn: the artifact taken from the list is expanded, or it is too     *)
(* deep, and then it imports nothing.                                       *)
Covers(m) == m >= Cardinality(Reached) \/ WalkEnds[m + 1] = {}
Searched(s, m) == Known(s, m) /\ \A v \in s.nodes : v \in Waiting(s) \/ Told(s, v)

LEMMA TooDeep ==
    ASSUME NEW m \in Nat, Covers(m), IsFiniteSet(Reached), NEW N \in SUBSET Reached, NEW u, NEW d \in Nat,
           Deep(N, m, u, d), d >= m, NEW e \in Edges, e[1] = u
    PROVE  FALSE
<1>1. d = m /\ u \in WalkEnds[d]
    BY DEF Deep
<1>2. CASE m >= Cardinality(Reached)
    <2>1. PICK A \in SUBSET N : IsFiniteSet(A) /\ Cardinality(A) = d + 1
        BY DEF Deep
    <2>2. A \in SUBSET Reached
        OBVIOUS
    <2>3. Cardinality(A) <= Cardinality(Reached) /\ Cardinality(Reached) \in Nat
        BY <2>2, FS_Subset, FS_CardinalityType
    <2> QED BY <1>1, <1>2, <2>1, <2>3
<1>3. CASE WalkEnds[m + 1] = {}
    <2>1. WalkEnds[m + 1] = Follow(WalkEnds[m])
        BY WalkEndsAre
    <2>2. e[2] \in Follow(WalkEnds[m])
        BY <1>1 DEF Follow
    <2> QED BY <1>3, <2>1, <2>2
<1> QED BY <1>2, <1>3 DEF Covers

LEMMA CollectStep ==
    ASSUME NEW es \in Seq(Dep), PairsOf(es) = Edges, NEW s, NEW m \in Nat, Covers(m), IsFiniteSet(Reached),
           Searched(s, m), s.q # <<>>, NEW n \in Nat, Balanced(s, n)
    PROVE  LET t == CollectTurn(es, s, m) IN Searched(t, m) /\ Balanced(t, n + 1)
<1> DEFINE cur == Top(s.q)
           rest == [s EXCEPT !.q = Popped(@)]
           u == cur[1]
           d == cur[2]
           t == CollectTurn(es, s, m)
           L == Len(s.q)
<1>0. s \in Collecting /\ s.q \in Seq(Reached \X Nat) /\ s.nodes \in SUBSET Reached /\ Known(s, m)
    BY DEF Collecting, Known, Searched
<1>1. L \in Nat /\ L > 0 /\ L \in DOMAIN s.q /\ cur = s.q[L] /\ cur \in Reached \X Nat
    BY <1>0 DEF Top
<1>2. u \in Reached /\ d \in Nat
    BY <1>1
<1>3. Deep(s.nodes, m, u, d)
    BY <1>0, <1>1 DEF Known
<1>4. /\ Popped(s.q) \in Seq(Reached \X Nat) /\ Len(Popped(s.q)) = L - 1
      /\ \A j \in 1..(L - 1) : Popped(s.q)[j] = s.q[j]
    BY <1>0, <1>1 DEF Popped
<1>5. rest \in Collecting /\ rest.q = Popped(s.q) /\ rest.nodes = s.nodes /\ rest.edges = s.edges
    BY <1>0, <1>4 DEF Collecting
<1>12. DOMAIN s.q = 1..L /\ DOMAIN rest.q = 1..(L - 1) /\ Len(rest.q) = L - 1 /\ Len(s.q) = L
    BY <1>0, <1>1, <1>4, <1>5
<1> HIDE DEF rest, u, d, L
<1>6. Known(rest, m)
    <2>1. \A j \in DOMAIN rest.q : j \in DOMAIN s.q /\ rest.q[j] = s.q[j]
        <3>1. \A j \in 1..(L - 1) : j \in 1..L
            BY <1>1
        <3> QED BY <1>4, <1>5, <1>12, <3>1
    <2> QED BY <1>0, <1>5, <2>1 DEF Known
<1>7. Balanced(rest, n + 1)
    <2>1. IsFiniteSet(s.nodes) /\ Cardinality(s.nodes) = n + L
        BY <1>12 DEF Balanced
    <2>2. n + L = (n + 1) + (L - 1)
        BY <1>1
    <2> QED BY <1>5, <1>12, <2>1, <2>2 DEF Balanced
<1>8. \A v \in s.nodes : v = u \/ v \in Waiting(rest) \/ Told(rest, v)
    <2>1. \A v \in Waiting(s) : v = u \/ v \in Waiting(rest)
        <3> SUFFICES ASSUME NEW j \in DOMAIN s.q PROVE s.q[j][1] = u \/ s.q[j][1] \in Waiting(rest)
            BY DEF Waiting
        <3>1. CASE j = L
            BY <1>1, <3>1 DEF u
        <3>2. CASE j # L
            <4>1. j \in 1..(L - 1) /\ j \in DOMAIN rest.q
                BY <1>1, <1>12, <3>2
            <4> QED BY <1>4, <1>5, <4>1 DEF Waiting
        <3> QED BY <3>1, <3>2
    <2>2. \A v \in s.nodes : v \in Waiting(s) \/ Told(s, v)
        BY DEF Searched
    <2>3. \A v : Told(s, v) => Told(rest, v)
        BY <1>5 DEF Told
    <2> QED BY <2>1, <2>2, <2>3
<1>9. t = IF d >= m THEN rest ELSE Expanded(es, rest, u, d)[Len(es)]
    BY DEF CollectTurn, rest, u, d
<1> HIDE DEF t, cur
<1>10. CASE d >= m
    <2>1. Told(rest, u)
        BY <1>0, <1>2, <1>3, <1>10, TooDeep DEF Told
    <2>2. Searched(rest, m)
        BY <1>5, <1>6, <1>8, <2>1 DEF Searched
    <2> QED BY <1>7, <1>9, <1>10, <2>2 DEF t
<1>11. CASE d < m
    <2>1. t = Expanded(es, rest, u, d)[Len(es)]
        BY <1>2, <1>9, <1>11
    <2>2. n + 1 \in Nat /\ Deep(rest.nodes, m, u, d)
        BY <1>3, <1>5
    <2>3. After(t, rest, m, u, d) /\ Balanced(t, n + 1) /\ Told(t, u)
        BY <1>2, <1>6, <1>7, <1>11, <2>1, <2>2, ExpandAll
    <2>4. ASSUME NEW v \in t.nodes PROVE v \in Waiting(t) \/ Told(t, v)
        <3>1. v \in rest.nodes \/ v \in Waiting(t)
            BY <2>3 DEF After
        <3>2. Told(rest, v) => Told(t, v)
            BY <2>3 DEF Told, After
        <3>3. Waiting(rest) \subseteq Waiting(t)
            BY <2>3 DEF After
        <3> QED BY <1>5, <1>8, <2>3, <3>1, <3>2, <3>3
    <2>5. Searched(t, m)
        BY <2>3, <2>4 DEF Searched, After
    <2> QED BY <2>3, <2>5 DEF t
<1> QED BY <1>2, <1>10, <1>11

(* What is collected: the artifacts reached, and the edges from them.       *)
IsGraph(g) == g.nodes = Reached /\ g.edges \in Seq(Dep) /\ PairsOf(g.edges) = {e \in Edges : e[1] \in Reached}
LEMMA CollectedGraph ==
    ASSUME NEW es \in Seq(Dep), PairsOf(es) = Edges, NEW m \in Nat, Covers(m)
    PROVE  IsGraph(Collected(es, call.root, m))
<1> DEFINE f == Collect(es, call.root, m)
           Ready(k) == Balanced(f[k], k) \/ f[k].q = <<>>
           W == {k \in Nat : Searched(f[k], m) /\ Ready(k)}
           N == Len(es) + 1
<1>0. IsFiniteSet(Reached) /\ Cardinality(Reached) <= N /\ N \in Nat /\ Cardinality(Reached) \in Nat
    BY FewReached, FS_CardinalityType
<1>1. CollectsAll(f, es, call.root, m)
    BY CollectIs
<1> HIDE DEF f, N
<1>2. f[0] = CollectStart(call.root) /\ \A k \in Nat : f[k + 1] = CollectTurn(es, f[k], m)
    BY <1>1 DEF CollectsAll
<1>3. 0 \in W
    <2> DEFINE s == CollectStart(call.root)
               r == call.root
    <2>0. r \in Reached /\ WalkEnds[0] = {r}
        BY ReachedIs, WalkEndsAre
    <2>1. s.q = << <<r, 0>> >> /\ s.nodes = {r} /\ s.edges = <<>> /\ s = [q |-> s.q, nodes |-> s.nodes, edges |-> s.edges]
        BY DEF CollectStart
    <2> HIDE DEF r, s
    <2> DEFINE x == <<r, 0>>
    <2>2. x \in Reached \X Nat /\ x[1] = r /\ x[2] = 0
        BY <2>0
    <2> HIDE DEF x
    <2>3. s.q \in Seq(Reached \X Nat) /\ Len(s.q) = 1 /\ DOMAIN s.q = {1} /\ s.q[1] = x
        BY <2>1, <2>2 DEF x
    <2>4. s.edges \in Seq(Dep) /\ DOMAIN s.edges = {}
        BY <2>1
    <2>5. PairsOf(s.edges) = {}
        BY <2>4 DEF PairsOf
    <2>6. s \in Collecting
        BY <2>0, <2>1, <2>3, <2>4 DEF Collecting
    <2>7. IsFiniteSet({r}) /\ Cardinality({r}) = 1
        BY FS_Singleton
    <2>8. Deep(s.nodes, m, r, 0)
        BY <2>0, <2>1, <2>7 DEF Deep
    <2>9. Known(s, m)
        BY <2>1, <2>2, <2>3, <2>5, <2>6, <2>8 DEF Known, r
    <2>10. Waiting(s) = {r}
        BY <2>2, <2>3 DEF Waiting
    <2>11. Searched(s, m)
        BY <2>1, <2>9, <2>10 DEF Searched
    <2>12. Balanced(s, 0)
        BY <2>1, <2>3, <2>7 DEF Balanced
    <2> QED BY <1>2, <2>11, <2>12 DEF s
<1>4. ASSUME NEW k \in Nat, k \in W PROVE k + 1 \in W
    <2>1. Searched(f[k], m) /\ Ready(k) /\ f[k + 1] = CollectTurn(es, f[k], m)
        BY <1>2, <1>4
    <2>2. CASE f[k].q = <<>>
        <3>1. f[k + 1] = f[k]
            BY <2>1, <2>2 DEF CollectTurn
        <3> QED BY <2>1, <2>2, <3>1
    <2>3. CASE f[k].q # <<>>
        <3>1. Balanced(f[k], k)
            BY <2>1, <2>3
        <3>2. Searched(f[k + 1], m) /\ Balanced(f[k + 1], k + 1)
            BY <1>0, <2>1, <2>3, <3>1, CollectStep
        <3> QED BY <3>2
    <2> QED BY <2>2, <2>3
<1> HIDE DEF W
<1>5. N \in W
    BY <1>0, <1>3, <1>4, Induct
<1> DEFINE g == f[N]
<1>6. Searched(g, m) /\ Ready(N)
    BY <1>5 DEF W
<1> HIDE DEF g
<1>7. g \in Collecting /\ Known(g, m) /\ g.nodes \in SUBSET Reached /\ g.q \in Seq(Reached \X Nat) /\ g.edges \in Seq(Dep)
    BY <1>6 DEF Searched, Known, Collecting
<1>8. g.q = <<>>
    <2> SUFFICES ASSUME Balanced(g, N) PROVE g.q = <<>>
        BY <1>6 DEF g
    <2>1. Cardinality(g.nodes) <= Cardinality(Reached) /\ Cardinality(g.nodes) \in Nat
        BY <1>0, <1>7, FS_Subset, FS_CardinalityType
    <2>2. Cardinality(g.nodes) = N + Len(g.q)
        BY DEF Balanced
    <2>3. Len(g.q) \in Nat
        BY <1>7
    <2>4. Len(g.q) = 0
        BY <1>0, <2>1, <2>2, <2>3
    <2> QED BY <1>7, <2>4
<1>9. \A v \in g.nodes : Told(g, v)
    <2>1. Waiting(g) = {}
        BY <1>8 DEF Waiting
    <2> QED BY <1>6, <2>1 DEF Searched
<1>10. PairsOf(g.edges) \subseteq {e \in Edges : e[1] \in g.nodes /\ e[2] \in g.nodes}
    BY <1>7 DEF Known
<1>11. ClosedSet(g.nodes)
    BY <1>9, <1>10 DEF ClosedSet, Told
<1>12. g.nodes = Reached
    <2>1. g.nodes \in SUBSET Artifacts /\ call.root \in g.nodes
        BY <1>7, ReachedIs DEF Known
    <2> QED BY <1>7, <1>11, <2>1, ReachedIs
<1>13. PairsOf(g.edges) = {e \in Edges : e[1] \in Reached}
    BY <1>9, <1>10, <1>12 DEF Told
<1>14. IsGraph(g)
    BY <1>7, <1>12, <1>13 DEF IsGraph
<1> QED BY <1>14 DEF g, f, N, Collected
-------------------------------------------------------------------------------
(* The search backwards from a changed artifact. *)
FromReached(es) == es \in Seq(Dep) /\ PairsOf(es) = {e \in Edges : e[1] \in Reached}
Importers(es) == {es[i].from : i \in DOMAIN es}
Affecting == [seen : SUBSET Reached, stack : Seq(Reached)]
Traced(s, v) == \A e \in Edges : e[1] \in Reached /\ e[2] = v => e[1] \in s.seen
Affects(s, es, c) ==
    /\ s \in Affecting /\ s.seen \subseteq Importers(es)
    /\ \A a \in s.seen : c \in NeedsOf(a)
    /\ Range(s.stack) \subseteq s.seen \cup {c}
AfterImport(t, s, es, c) ==
    /\ Affects(t, es, c) /\ s.seen \subseteq t.seen /\ Range(s.stack) \subseteq Range(t.stack)
    /\ \A v \in t.seen : v \in s.seen \/ v \in Range(t.stack)
Weighed(s, n) == IsFiniteSet(s.seen) /\ Cardinality(s.seen) + 1 = n + Len(s.stack)

LEMMA FewImporters ==
    ASSUME NEW es \in Seq(Dep)
    PROVE  IsFiniteSet(Importers(es)) /\ Cardinality(Importers(es)) <= Len(es)
<1> DEFINE n == Len(es)
           f == [i \in 1..n |-> es[i].from]
<1>1. n \in Nat /\ DOMAIN es = 1..n
    OBVIOUS
<1>2. Importers(es) = {es[i].from : i \in 1..n}
    BY <1>1 DEF Importers
<1> HIDE DEF n
<1>3. f \in Surjection(1..n, Importers(es))
    <2>1. f \in [1..n -> Importers(es)]
        BY <1>2
    <2>2. \A x \in Importers(es) : \E i \in 1..n : f[i] = x
        BY <1>2
    <2> QED BY <2>1, <2>2 DEF Surjection
<1> HIDE DEF f
<1>4. IsFiniteSet(1..n) /\ Cardinality(1..n) = n
    BY <1>1, FS_Interval
<1> QED BY <1>3, <1>4, FS_Surjection DEF n

LEMMA ImportStep ==
    ASSUME NEW es, FromReached(es), NEW c \in Reached, NEW s, NEW u, NEW i \in DOMAIN es,
           Affects(s, es, c), u \in s.seen \/ u = c, NEW n \in Nat, Weighed(s, n)
    PROVE  LET t == Import(s, es[i], u) IN
           AfterImport(t, s, es, c) /\ Weighed(t, n) /\ (es[i].to = u => es[i].from \in t.seen)
<1> DEFINE e == es[i]
           t == Import(s, e, u)
<1>0. s \in Affecting /\ s.seen \in SUBSET Reached /\ s.stack \in Seq(Reached)
    BY DEF Affects, Affecting
<1>1. e \in Dep /\ <<e.from, e.to>> \in Edges /\ e.from \in Reached /\ e.from \in Importers(es)
    <2>1. <<e.from, e.to>> \in PairsOf(es)
        BY DEF PairsOf
    <2>2. <<e.from, e.to>> \in Edges /\ <<e.from, e.to>>[1] \in Reached
        BY <2>1 DEF FromReached
    <2> QED BY <2>2 DEF Importers, FromReached
<1> HIDE DEF e
<1>2. CASE e.to # u \/ e.from \in s.seen
    <2>1. t = s
        BY <1>2 DEF Import
    <2>2. AfterImport(s, s, es, c)
        BY DEF AfterImport
    <2> QED BY <1>2, <2>1, <2>2 DEF e
<1>3. CASE e.to = u /\ e.from \notin s.seen
    <2> DEFINE x == e.from
    <2>1. t = [seen |-> s.seen \cup {x}, stack |-> Append(s.stack, x)]
        BY <1>3 DEF Import
    <2> HIDE DEF t
    <2>2. t.seen = s.seen \cup {x} /\ t.stack = Append(s.stack, x)
        BY <2>1
    <2>3. x \in Reached /\ x \in Importers(es) /\ x \notin s.seen
        BY <1>1, <1>3
    <2>4. c \in NeedsOf(x)
        <3> DEFINE y == <<e.from, e.to>>
        <3>1. y \in Edges /\ y[1] = x /\ y[2] = u
            BY <1>1, <1>3
        <3> HIDE DEF y, x
        <3>2. CASE u = c
            BY <3>1, <3>2, NeedsIs
        <3>3. CASE u \in s.seen
            <4>1. c \in NeedsOf(u)
                BY <3>3 DEF Affects
            <4> QED BY <3>1, <4>1, NeedsBack
        <3> QED BY <3>2, <3>3
    <2> HIDE DEF x
    <2>5. /\ t.stack \in Seq(Reached) /\ Len(t.stack) = Len(s.stack) + 1 /\ Len(s.stack) \in Nat
          /\ DOMAIN t.stack = DOMAIN s.stack \cup {Len(s.stack) + 1} /\ t.stack[Len(s.stack) + 1] = x
          /\ \A j \in DOMAIN s.stack : t.stack[j] = s.stack[j]
        BY <1>0, <2>2, <2>3
    <2>6. Range(t.stack) = Range(s.stack) \cup {x}
        BY <2>5 DEF Range
    <2>7. t \in Affecting
        BY <1>0, <2>1, <2>2, <2>3, <2>5 DEF Affecting
    <2>8. Affects(t, es, c)
        BY <2>2, <2>3, <2>4, <2>6, <2>7 DEF Affects
    <2>9. AfterImport(t, s, es, c)
        BY <2>2, <2>6, <2>8 DEF AfterImport
    <2>10. Weighed(t, n)
        <3>1. IsFiniteSet(t.seen) /\ Cardinality(t.seen) = Cardinality(s.seen) + 1
            BY <2>2, <2>3, FS_AddElement DEF Weighed
        <3>2. Cardinality(s.seen) + 1 = n + Len(s.stack) /\ Cardinality(s.seen) \in Nat
            BY FS_CardinalityType DEF Weighed
        <3> QED BY <2>5, <3>1, <3>2 DEF Weighed
    <2> QED BY <2>2, <2>9, <2>10 DEF e, t, x
<1> QED BY <1>2, <1>3

LEMMA ImportAll ==
    ASSUME NEW es, FromReached(es), NEW c \in Reached, NEW s, NEW u,
           Affects(s, es, c), u \in s.seen \/ u = c, NEW n \in Nat, Weighed(s, n)
    PROVE  LET t == Importing(es, s, u)[Len(es)] IN AfterImport(t, s, es, c) /\ Weighed(t, n) /\ Traced(t, u)
<1> DEFINE f == Importing(es, s, u)
           Seen(k) == \A i \in 1..k : es[i].to = u => es[i].from \in f[k].seen
           W == {k \in Nat : k <= Len(es) => AfterImport(f[k], s, es, c) /\ Weighed(f[k], n) /\ Seen(k)}
<1>0. es \in Seq(Dep) /\ Len(es) \in Nat /\ DOMAIN es = 1..Len(es)
    BY DEF FromReached
<1>1. ImportsAll(f, es, s, u)
    BY ImportingIs
<1> HIDE DEF f
<1>2. f[0] = s /\ \A i \in Nat : f[i + 1] = Import(f[i], es[i + 1], u)
    BY <1>1 DEF ImportsAll
<1>3. 0 \in W
    <2>1. AfterImport(s, s, es, c)
        BY DEF AfterImport
    <2>2. Seen(0)
        OBVIOUS
    <2> QED BY <1>2, <2>1, <2>2
<1>4. ASSUME NEW k \in Nat, k \in W PROVE k + 1 \in W
    <2> SUFFICES ASSUME k + 1 <= Len(es)
                 PROVE  AfterImport(f[k + 1], s, es, c) /\ Weighed(f[k + 1], n) /\ Seen(k + 1)
        OBVIOUS
    <2>1. k <= Len(es) /\ k + 1 \in DOMAIN es
        BY <1>0
    <2>2. AfterImport(f[k], s, es, c) /\ Weighed(f[k], n) /\ Seen(k)
        BY <1>4, <2>1
    <2> DEFINE r == f[k]
               t == f[k + 1]
               i == k + 1
    <2>3. i \in DOMAIN es /\ t = Import(r, es[i], u)
        BY <1>2, <2>1
    <2>4. Affects(r, es, c) /\ (u \in r.seen \/ u = c) /\ Weighed(r, n)
        BY <2>2 DEF AfterImport
    <2> HIDE DEF r, t, i
    <2>5. AfterImport(t, r, es, c) /\ Weighed(t, n) /\ (es[i].to = u => es[i].from \in t.seen)
        BY <2>3, <2>4, ImportStep
    <2>6. AfterImport(t, s, es, c)
        BY <2>2, <2>5 DEF AfterImport, r
    <2>7. Seen(k + 1)
        <3>1. \A j \in 1..(k + 1) : j \in 1..k \/ j = i
            BY DEF i
        <3>2. r.seen \subseteq t.seen
            BY <2>5 DEF AfterImport
        <3>3. \A j \in 1..k : es[j].to = u => es[j].from \in r.seen
            BY <2>2 DEF r
        <3>4. \A j \in 1..(k + 1) : es[j].to = u => es[j].from \in t.seen
            BY <2>5, <3>1, <3>2, <3>3
        <3> QED BY <3>4 DEF t
    <2> QED BY <2>5, <2>6, <2>7 DEF t
<1> HIDE DEF W
<1>5. Len(es) \in W
    BY <1>0, <1>3, <1>4, Induct
<1> DEFINE t == f[Len(es)]
<1>6. AfterImport(t, s, es, c) /\ Weighed(t, n) /\ Seen(Len(es))
    BY <1>0, <1>5 DEF W
<1>7. Traced(t, u)
    <2> SUFFICES ASSUME NEW e \in Edges, e[1] \in Reached, e[2] = u PROVE e[1] \in t.seen
        BY DEF Traced
    <2>1. e \in PairsOf(es)
        BY DEF FromReached
    <2>2. PICK i \in DOMAIN es : e = <<es[i].from, es[i].to>>
        BY <2>1 DEF PairsOf
    <2> QED BY <1>0, <1>6, <2>2
<1> QED BY <1>6, <1>7 DEF f

AffectedSoFar(s, es, c) ==
    Affects(s, es, c) /\ \A v \in s.seen \cup {c} : v \in Range(s.stack) \/ Traced(s, v)
LEMMA AffectStep ==
    ASSUME NEW es, FromReached(es), NEW c \in Reached, NEW s,
           AffectedSoFar(s, es, c), s.stack # <<>>, NEW n \in Nat, Weighed(s, n)
    PROVE  LET t == AffectTurn(es, s) IN AffectedSoFar(t, es, c) /\ Weighed(t, n + 1)
<1> DEFINE u == Top(s.stack)
           rest == [s EXCEPT !.stack = Popped(@)]
           t == AffectTurn(es, s)
           L == Len(s.stack)
<1>0. s \in Affecting /\ s.seen \in SUBSET Reached /\ s.stack \in Seq(Reached) /\ Affects(s, es, c)
    BY DEF AffectedSoFar, Affects, Affecting
<1>1. L \in Nat /\ L > 0 /\ L \in DOMAIN s.stack /\ u = s.stack[L] /\ DOMAIN s.stack = 1..L
    BY <1>0 DEF Top
<1>2. /\ Popped(s.stack) \in Seq(Reached) /\ Len(Popped(s.stack)) = L - 1
      /\ \A j \in 1..(L - 1) : Popped(s.stack)[j] = s.stack[j]
    BY <1>0, <1>1 DEF Popped
<1>3. rest \in Affecting /\ rest.stack = Popped(s.stack) /\ rest.seen = s.seen
    BY <1>0, <1>2 DEF Affecting
<1>4. DOMAIN rest.stack = 1..(L - 1) /\ Len(rest.stack) = L - 1
    BY <1>1, <1>2, <1>3
<1>5. t = Importing(es, rest, u)[Len(es)]
    BY DEF AffectTurn
<1> HIDE DEF rest, t
<1>6. Range(s.stack) \subseteq Range(rest.stack) \cup {u} /\ Range(rest.stack) \subseteq Range(s.stack)
    <2>1. \A j \in 1..L : j \in 1..(L - 1) \/ j = L
        BY <1>1
    <2>2. \A j \in 1..(L - 1) : j \in 1..L
        BY <1>1
    <2>3. \A j \in 1..(L - 1) : rest.stack[j] = s.stack[j]
        BY <1>2, <1>3
    <2> HIDE DEF u, L
    <2> QED BY <1>1, <1>4, <2>1, <2>2, <2>3 DEF Range
<1>7. u \in rest.seen \/ u = c
    <2>1. u \in Range(s.stack)
        BY <1>1 DEF Range
    <2> QED BY <1>0, <1>3, <2>1 DEF Affects
<1> HIDE DEF u, L
<1>8. Affects(rest, es, c)
    BY <1>0, <1>3, <1>6 DEF Affects
<1>9. Weighed(rest, n + 1)
    <2>1. IsFiniteSet(s.seen) /\ Cardinality(s.seen) + 1 = n + L
        BY DEF Weighed, L
    <2>2. n + L = (n + 1) + (L - 1)
        BY <1>1
    <2> QED BY <1>3, <1>4, <2>1, <2>2 DEF Weighed
<1>10. n + 1 \in Nat
    OBVIOUS
<1>11. AfterImport(t, rest, es, c) /\ Weighed(t, n + 1) /\ Traced(t, u)
    BY <1>5, <1>7, <1>8, <1>9, <1>10, ImportAll
<1>12. ASSUME NEW v \in t.seen \cup {c} PROVE v \in Range(t.stack) \/ Traced(t, v)
    <2>1. rest.seen \subseteq t.seen /\ Range(rest.stack) \subseteq Range(t.stack)
          /\ (v \in t.seen => v \in s.seen \/ v \in Range(t.stack))
        BY <1>3, <1>11 DEF AfterImport
    <2>2. v \in s.seen \cup {c} => v \in Range(s.stack) \/ Traced(s, v)
        BY DEF AffectedSoFar
    <2>3. Traced(s, v) => Traced(t, v)
        BY <1>3, <2>1 DEF Traced
    <2> QED BY <1>6, <1>11, <2>1, <2>2, <2>3
<1>13. AffectedSoFar(t, es, c)
    BY <1>11, <1>12 DEF AffectedSoFar, AfterImport
<1> QED BY <1>11, <1>13 DEF t

(* The affected artifacts are those reached that need the changed one.      *)
LEMMA AffectedAll ==
    ASSUME NEW es, FromReached(es), NEW c \in Reached
    PROVE  Affect(es, c)[Len(es) + 1].seen = {a \in Reached : c \in NeedsOf(a)}
<1> DEFINE f == Affect(es, c)
           Ready(k) == Weighed(f[k], k) \/ f[k].stack = <<>>
           W == {k \in Nat : AffectedSoFar(f[k], es, c) /\ Ready(k)}
           N == Len(es) + 1
<1>0. es \in Seq(Dep) /\ Len(es) \in Nat /\ N \in Nat
    BY DEF FromReached
<1>1. AffectsAll(f, es, c)
    BY AffectIs
<1> HIDE DEF f
<1>2. f[0] = AffectStart(c) /\ \A k \in Nat : f[k + 1] = AffectTurn(es, f[k])
    BY <1>1 DEF AffectsAll
<1>3. 0 \in W
    <2> DEFINE s == AffectStart(c)
    <2>1. s.seen = {} /\ s.stack = <<c>> /\ s = [seen |-> s.seen, stack |-> s.stack]
        BY DEF AffectStart
    <2> HIDE DEF s
    <2>2. s.stack \in Seq(Reached) /\ Len(s.stack) = 1 /\ DOMAIN s.stack = {1} /\ s.stack[1] = c
        BY <2>1
    <2>3. Range(s.stack) = {c}
        BY <2>2 DEF Range
    <2>4. s \in Affecting
        BY <2>1, <2>2 DEF Affecting
    <2>5. AffectedSoFar(s, es, c)
        BY <2>1, <2>3, <2>4 DEF AffectedSoFar, Affects
    <2>6. Weighed(s, 0)
        <3>1. IsFiniteSet({}) /\ Cardinality({}) = 0
            BY FS_EmptySet
        <3> QED BY <2>1, <2>2, <3>1 DEF Weighed
    <2> QED BY <1>2, <2>5, <2>6 DEF s
<1>4. ASSUME NEW k \in Nat, k \in W PROVE k + 1 \in W
    <2>1. AffectedSoFar(f[k], es, c) /\ Ready(k) /\ f[k + 1] = AffectTurn(es, f[k])
        BY <1>2, <1>4
    <2>2. CASE f[k].stack = <<>>
        <3>1. f[k + 1] = f[k]
            BY <2>1, <2>2 DEF AffectTurn
        <3> QED BY <2>1, <2>2, <3>1
    <2>3. CASE f[k].stack # <<>>
        <3>1. Weighed(f[k], k)
            BY <2>1, <2>3
        <3>2. AffectedSoFar(f[k + 1], es, c) /\ Weighed(f[k + 1], k + 1)
            BY <2>1, <2>3, <3>1, AffectStep
        <3> QED BY <3>2
    <2> QED BY <2>2, <2>3
<1> HIDE DEF W
<1> HIDE DEF N
<1>5. N \in W
    BY <1>0, <1>3, <1>4, Induct
<1> DEFINE g == f[N]
<1>6. AffectedSoFar(g, es, c) /\ Ready(N)
    BY <1>5 DEF W
<1> HIDE DEF g
<1>7. Affects(g, es, c) /\ g.seen \in SUBSET Reached /\ g.stack \in Seq(Reached) /\ g.seen \subseteq Importers(es)
    BY <1>6 DEF AffectedSoFar, Affects, Affecting
<1>8. g.stack = <<>>
    <2> SUFFICES ASSUME Weighed(g, N) PROVE g.stack = <<>>
        BY <1>6 DEF g
    <2>1. IsFiniteSet(Importers(es)) /\ Cardinality(Importers(es)) <= Len(es) /\ Cardinality(Importers(es)) \in Nat
        BY <1>0, FewImporters, FS_CardinalityType
    <2>2. Cardinality(g.seen) <= Cardinality(Importers(es)) /\ Cardinality(g.seen) \in Nat
        BY <1>7, <2>1, FS_Subset, FS_CardinalityType
    <2>3. Cardinality(g.seen) + 1 = N + Len(g.stack)
        BY DEF Weighed
    <2>4. Len(g.stack) \in Nat
        BY <1>7
    <2> DEFINE a == Cardinality(Importers(es))
               b == Cardinality(g.seen)
               l == Len(es)
               x == Len(g.stack)
    <2>5. x = 0
        <3>1. a \in Nat /\ b \in Nat /\ l \in Nat /\ x \in Nat /\ b <= a /\ a <= l /\ b + 1 = N + x /\ N = l + 1
            BY <1>0, <2>1, <2>2, <2>3, <2>4 DEF N
        <3> HIDE DEF a, b, l, x
        <3> QED BY <3>1
    <2> QED BY <1>7, <2>5
<1>9. \A v \in g.seen \cup {c} : Traced(g, v)
    <2>1. Range(g.stack) = {}
        BY <1>8 DEF Range
    <2> QED BY <1>6, <2>1 DEF AffectedSoFar
<1>10. ASSUME NEW a \in Reached, a \notin g.seen PROVE c \notin NeedsOf(a)
    <2> DEFINE S == {b \in Reached : b \notin g.seen \cup {c}}
    <2>1. \A e \in Edges : e[1] \in Reached /\ e[1] \notin g.seen => e[2] \in S
        <3> SUFFICES ASSUME NEW e \in Edges, e[1] \in Reached, e[1] \notin g.seen PROVE e[2] \in S
            OBVIOUS
        <3>1. e[2] \in Reached
            BY ReachedIs DEF ClosedSet
        <3>2. e[2] \notin g.seen \cup {c}
            BY <1>9 DEF Traced
        <3> QED BY <3>1, <3>2
    <2>2. ClosedSet(S)
        BY <2>1 DEF ClosedSet
    <2>3. S \in SUBSET Artifacts
        BY ReachedIs
    <2>4. \A e \in Edges : e[1] = a => e[2] \in S
        BY <1>10, <2>1
    <2>5. c \notin S
        OBVIOUS
    <2> HIDE DEF S
    <2>6. NeedsOf(a) \subseteq S
        BY <2>2, <2>3, <2>4, NeedsIs
    <2> QED BY <2>5, <2>6
<1>11. \A a \in g.seen : c \in NeedsOf(a)
    BY <1>7 DEF Affects
<1>12. g.seen = {a \in Reached : c \in NeedsOf(a)}
    BY <1>7, <1>10, <1>11
<1> QED BY <1>12 DEF g, f, N
-------------------------------------------------------------------------------
(* The depth first search: a stack of calls of dfs, each with the edges it  *)
(* has looked at.                                                           *)
Frames(es) == [node : Reached, at : 1..(Len(es) + 1)]
Visiting(es, names) ==
    [stack : Seq(Frames(es)), order : Seq(Reached), cycle : BOOLEAN, next : 1..(Len(names) + 1)]
Apart(s) ==
    /\ \A i, j \in DOMAIN s.stack : s.stack[i].node = s.stack[j].node => i = j
    /\ \A i, j \in DOMAIN s.order : s.order[i] = s.order[j] => i = j
    /\ \A i \in DOMAIN s.stack : s.stack[i].node \notin Range(s.order)
Nested(s) == \A i, j \in DOMAIN s.stack : i < j => s.stack[j].node \in NeedsOf(s.stack[i].node)
LookedAt(s, es, V) ==       \* V: what is about to be called
    s.cycle \/ \A i \in DOMAIN s.stack : \A j \in DOMAIN es :
        j < s.stack[i].at /\ es[j].from = s.stack[i].node =>
            \/ es[j].to \in Range(s.order)
            \/ i + 1 \in DOMAIN s.stack /\ s.stack[i + 1].node = es[j].to
            \/ i = Len(s.stack) /\ es[j].to \in V
InTurn(s) ==
    s.cycle \/ \A p \in DOMAIN s.order : \A e \in Edges :
        e[1] = s.order[p] => \E q \in DOMAIN s.order : q < p /\ s.order[q] = e[2]
Begun(s, names, V) ==
    \A n \in DOMAIN names : n < s.next /\ names[n] \in Reached => names[n] \in Range(s.order) \cup Open(s) \cup V
RealCycle(s) == s.cycle => \E a \in Reached : a \in NeedsOf(a)
Walking(s, es, names, V) ==
    /\ s \in Visiting(es, names)
    /\ Apart(s) /\ Nested(s) /\ LookedAt(s, es, V) /\ InTurn(s) /\ Begun(s, names, V) /\ RealCycle(s)

WorkDone(s, es) ==
    {x \in Reached \X (1..(Len(es) + 1)) :
        x[1] \in Range(s.order) \/ \E j \in DOMAIN s.stack : s.stack[j].node = x[1] /\ x[2] < s.stack[j].at}
Clocked(s, es, k) == IsFiniteSet(WorkDone(s, es)) /\ (s.next - 1) + Cardinality(WorkDone(s, es)) = k

LEMMA EdgesReached ==
    ASSUME NEW es, FromReached(es), NEW i \in DOMAIN es
    PROVE  /\ <<es[i].from, es[i].to>> \in Edges /\ es[i].from \in Reached /\ es[i].to \in Reached
           /\ es[i].to \in NeedsOf(es[i].from)
<1> DEFINE x == <<es[i].from, es[i].to>>
<1>1. x \in PairsOf(es) /\ x[1] = es[i].from /\ x[2] = es[i].to
    BY DEF PairsOf
<1> HIDE DEF x
<1>2. x \in Edges /\ x[1] \in Reached
    BY <1>1 DEF FromReached
<1>3. x[2] \in Reached
    BY <1>2, ReachedIs DEF ClosedSet
<1>4. x[2] \in NeedsOf(x[1])
    BY <1>2, NeedsIs
<1> QED BY <1>1, <1>2, <1>3, <1>4 DEF x

LEMMA EdgesGiven ==
    ASSUME NEW es, FromReached(es), NEW e \in Edges, e[1] \in Reached
    PROVE  \E i \in DOMAIN es : es[i].from = e[1] /\ es[i].to = e[2]
<1>1. e \in PairsOf(es)
    BY DEF FromReached
<1>2. PICK i \in DOMAIN es : e = <<es[i].from, es[i].to>>
    BY <1>1 DEF PairsOf
<1> QED BY <1>2

(* The stack when the top frame has looked at one edge more.                *)
OnFrom(on, st, es) ==
    /\ on \in Seq(Frames(es)) /\ Len(on) = Len(st) /\ DOMAIN on = DOMAIN st
    /\ \A j \in DOMAIN st : on[j].node = st[j].node
    /\ \A j \in DOMAIN st : j # Len(st) => on[j].at = st[j].at
    /\ on[Len(st)].at = st[Len(st)].at + 1
LEMMA OnIs ==
    ASSUME NEW es \in Seq(Dep), NEW st \in Seq(Frames(es)), st # <<>>, Top(st).at <= Len(es)
    PROVE  OnFrom(Append(Popped(st), [Top(st) EXCEPT !.at = @ + 1]), st, es)
<1> DEFINE top == Top(st)
           new == [top EXCEPT !.at = @ + 1]
           pop == Popped(st)
           on == Append(pop, new)
           L == Len(st)
<1>1. L \in Nat /\ L > 0 /\ L \in DOMAIN st /\ top = st[L] /\ DOMAIN st = 1..L /\ top \in Frames(es)
    BY DEF Top
<1>2. pop \in Seq(Frames(es)) /\ Len(pop) = L - 1 /\ \A j \in 1..(L - 1) : pop[j] = st[j]
    BY <1>1 DEF Popped
<1>3. top.node \in Reached /\ top.at \in 1..(Len(es) + 1) /\ Len(es) \in Nat /\ DOMAIN top = {"node", "at"}
    BY <1>1 DEF Frames
<1>4. new \in Frames(es) /\ new.node = top.node /\ new.at = top.at + 1
    <2>1. top.at + 1 \in 1..(Len(es) + 1)
        BY <1>3
    <2> QED BY <1>1, <1>3, <2>1 DEF Frames
<1> HIDE DEF new, pop, top
<1>5. on \in Seq(Frames(es)) /\ Len(on) = (L - 1) + 1 /\ on[(L - 1) + 1] = new /\ \A j \in 1..(L - 1) : on[j] = pop[j]
    BY <1>2, <1>4
<1> HIDE DEF on, L
<1>6. (L - 1) + 1 = L
    BY <1>1
<1>7. Len(on) = L /\ on[L] = new /\ DOMAIN on = 1..L
    BY <1>5, <1>6
<1>8. \A j \in 1..L : j # L => j \in 1..(L - 1)
    BY <1>1
<1>9. \A j \in 1..L : j # L => on[j] = st[j]
    BY <1>2, <1>5, <1>8
<1>10. OnFrom(on, st, es)
    BY <1>1, <1>4, <1>5, <1>7, <1>9 DEF OnFrom, L
<1> QED BY <1>10 DEF on, new, pop, top

(* Looking at an edge whose end is done with, or about to be called.        *)
LEMMA AdvanceStep ==
    ASSUME NEW es, FromReached(es), NEW names, NEW s, Walking(s, es, names, {}), s.stack # <<>>,
           Top(s.stack).at <= Len(es), NEW V, NEW k \in Nat, Clocked(s, es, k), NEW on, OnFrom(on, s.stack, es),
           LET e == es[Top(s.stack).at] IN
           e.from # Top(s.stack).node \/ e.to \in Range(s.order) \/ e.to \in V
    PROVE  LET t == [s EXCEPT !.stack = on] IN
           Walking(t, es, names, V) /\ Clocked(t, es, k + 1)
<1> DEFINE st == s.stack
           L == Len(st)
           a == st[L].at
           t == [s EXCEPT !.stack = on]
<1>0. s \in Visiting(es, names) /\ st \in Seq(Frames(es)) /\ es \in Seq(Dep)
    BY DEF Walking, Visiting, FromReached
<1>1. L \in Nat /\ L > 0 /\ L \in DOMAIN st /\ Top(st) = st[L] /\ DOMAIN st = 1..L /\ st[L] \in Frames(es)
    BY <1>0 DEF Top
<1>2. a \in 1..(Len(es) + 1) /\ Len(es) \in Nat /\ a <= Len(es) /\ a \in DOMAIN es /\ a \in Nat
    BY <1>0, <1>1 DEF Frames
<1>3. t \in Visiting(es, names) /\ t.stack = on /\ t.order = s.order /\ t.cycle = s.cycle /\ t.next = s.next
    BY <1>0 DEF Visiting, OnFrom
<1> HIDE DEF t, a, L
<1>4. /\ DOMAIN on = DOMAIN st /\ Len(on) = L /\ (\A j \in DOMAIN st : on[j].node = st[j].node)
      /\ (\A j \in DOMAIN st : j # L => on[j].at = st[j].at) /\ on[L].at = a + 1
    BY DEF OnFrom, L, a
<1>5. Open(t) = Open(s)
    BY <1>3, <1>4 DEF Open
<1>6. Apart(t)
    BY <1>3, <1>4 DEF Apart, Walking
<1>7. Nested(t)
    BY <1>3, <1>4 DEF Nested, Walking
<1>8. LookedAt(t, es, V)
    <2> SUFFICES ASSUME ~s.cycle, NEW i \in DOMAIN st, NEW j \in DOMAIN es, j < on[i].at, es[j].from = st[i].node
                 PROVE  \/ es[j].to \in Range(s.order)
                        \/ i + 1 \in DOMAIN st /\ st[i + 1].node = es[j].to
                        \/ i = L /\ es[j].to \in V
        BY <1>3, <1>4 DEF LookedAt
    <2>1. j < st[i].at =>
              \/ es[j].to \in Range(s.order)
              \/ i + 1 \in DOMAIN st /\ st[i + 1].node = es[j].to
              \/ i = Len(s.stack) /\ es[j].to \in {}
        BY DEF Walking, LookedAt
    <2>2. CASE j < st[i].at
        BY <2>1, <2>2
    <2>3. CASE ~(j < st[i].at)
        <3>1. i = L
            BY <1>4, <2>3
        <3>2. j = a
            <4>1. j \in Nat /\ j < a + 1 /\ ~(j < a)
                BY <1>0, <1>4, <2>3, <3>1 DEF a
            <4> QED BY <1>2, <4>1
        <3> QED BY <1>1, <3>1, <3>2 DEF a
    <2> QED BY <2>2, <2>3
<1>9. InTurn(t)
    BY <1>3 DEF InTurn, Walking
<1>10. Begun(t, names, V)
    BY <1>3, <1>5 DEF Begun, Walking
<1>11. RealCycle(t)
    BY <1>3 DEF RealCycle, Walking
<1>12. Walking(t, es, names, V)
    BY <1>3, <1>6, <1>7, <1>8, <1>9, <1>10, <1>11 DEF Walking
<1>13. Clocked(t, es, k + 1)
    <2> DEFINE x == <<st[L].node, a>>
               C == Reached \X (1..(Len(es) + 1))
               Old == WorkDone(s, es)
    <2>1. x \in C /\ x[1] = st[L].node /\ x[2] = a
        BY <1>1, <1>2 DEF Frames
    <2>2. x \notin Old
        <3>1. st[L].node \notin Range(s.order)
            BY <1>1 DEF Walking, Apart
        <3>2. ASSUME NEW j \in DOMAIN st, st[j].node = st[L].node, a < st[j].at PROVE FALSE
            <4>1. j = L
                BY <1>1, <3>2 DEF Walking, Apart
            <4> QED BY <1>2, <3>2, <4>1 DEF a
        <3> HIDE DEF x
        <3> QED BY <2>1, <3>1, <3>2 DEF WorkDone
    <2> HIDE DEF x
    <2>3. ASSUME NEW y \in C PROVE y \in WorkDone(t, es) <=> y \in Old \/ y = x
        <3> DEFINE G(st1) == \E j \in DOMAIN st : st1[j].node = y[1] /\ y[2] < st1[j].at
        <3>1. y \in WorkDone(t, es) <=> y[1] \in Range(s.order) \/ G(on)
            BY <1>3, <1>4, <2>3 DEF WorkDone
        <3>2. y \in Old <=> y[1] \in Range(s.order) \/ G(st)
            BY <2>3 DEF WorkDone
        <3>3. \A j \in DOMAIN st : st[j].at \in Nat
            <4>1. \A j \in DOMAIN st : st[j] \in Frames(es)
                BY <1>0
            <4>2. \A z \in 1..(Len(es) + 1) : z \in Nat
                BY <1>2
            <4> QED BY <4>1, <4>2 DEF Frames
        <3>4. y[2] \in Nat
            BY <1>2, <2>3
        <3>5. G(st) => G(on)
            <4> SUFFICES ASSUME NEW j \in DOMAIN st, st[j].node = y[1], y[2] < st[j].at
                         PROVE  on[j].node = y[1] /\ y[2] < on[j].at
                OBVIOUS
            <4>1. CASE j = L
                BY <1>2, <1>4, <3>4, <4>1 DEF a
            <4>2. CASE j # L
                BY <1>4, <4>2
            <4> QED BY <4>1, <4>2
        <3>6. y = x => G(on)
            BY <1>1, <1>2, <1>4, <2>1
        <3>7. G(on) => G(st) \/ y = x
            <4> SUFFICES ASSUME NEW j \in DOMAIN st, on[j].node = y[1], y[2] < on[j].at, ~G(st) PROVE y = x
                OBVIOUS
            <4>1. j = L
                BY <1>4
            <4>2. y[1] = st[L].node /\ y[2] < a + 1 /\ ~(y[2] < a)
                BY <1>1, <1>4, <4>1 DEF a
            <4>3. y[2] = a
                BY <1>2, <3>4, <4>2
            <4> QED BY <2>1, <2>3, <4>2, <4>3 DEF x
        <3> HIDE DEF G
        <3> QED BY <3>1, <3>2, <3>5, <3>6, <3>7
    <2>4. WorkDone(t, es) \subseteq C /\ Old \subseteq C
        BY DEF WorkDone
    <2> HIDE DEF C
    <2>5. WorkDone(t, es) = Old \cup {x}
        BY <2>1, <2>3, <2>4
    <2>6. IsFiniteSet(Old) /\ (s.next - 1) + Cardinality(Old) = k
        BY DEF Clocked
    <2>7. IsFiniteSet(WorkDone(t, es)) /\ Cardinality(WorkDone(t, es)) = Cardinality(Old) + 1
        BY <2>2, <2>5, <2>6, FS_AddElement
    <2>8. Cardinality(Old) \in Nat /\ s.next \in Int
        BY <1>0, <2>6, FS_CardinalityType DEF Visiting
    <2> HIDE DEF Old
    <2>9. (s.next - 1) + (Cardinality(Old) + 1) = k + 1
        BY <2>6, <2>8
    <2> QED BY <1>3, <2>7, <2>9 DEF Clocked
<1> QED BY <1>12, <1>13 DEF t

(* The call of what was about to be called. *)
LEMMA PushStep ==
    ASSUME NEW es, FromReached(es), NEW names, NEW s, NEW v \in Reached, Walking(s, es, names, {v}),
           v \notin Range(s.order), v \notin Open(s), NEW k \in Nat, Clocked(s, es, k),
           \A i \in DOMAIN s.stack : v \in NeedsOf(s.stack[i].node)
    PROVE  LET t == [s EXCEPT !.stack = Append(s.stack, Calling(v))] IN
           Walking(t, es, names, {}) /\ Clocked(t, es, k)
<1> DEFINE st == s.stack
           L == Len(st)
           new == Calling(v)
           on == Append(st, new)
           t == [s EXCEPT !.stack = on]
<1>0. s \in Visiting(es, names) /\ st \in Seq(Frames(es)) /\ es \in Seq(Dep) /\ Len(es) \in Nat
    BY DEF Walking, Visiting, FromReached
<1>1. new \in Frames(es) /\ new.node = v /\ new.at = 1
    <2>1. 1 \in 1..(Len(es) + 1)
        BY <1>0
    <2> QED BY <2>1 DEF Calling, Frames
<1> HIDE DEF new
<1>2. /\ on \in Seq(Frames(es)) /\ L \in Nat /\ Len(on) = L + 1 /\ on[L + 1] = new /\ DOMAIN st = 1..L
      /\ DOMAIN on = 1..(L + 1) /\ \A j \in 1..L : on[j] = st[j]
    BY <1>0, <1>1
<1>3. t \in Visiting(es, names) /\ t.stack = on /\ t.order = s.order /\ t.cycle = s.cycle /\ t.next = s.next
    BY <1>0, <1>2 DEF Visiting
<1> HIDE DEF t, on, L
<1>4. \A j \in 1..(L + 1) : j \in 1..L \/ j = L + 1
    BY <1>2
<1>5. L + 1 \in 1..(L + 1) /\ \A j \in 1..L : j \in 1..(L + 1)
    BY <1>2
<1>6. \A j \in DOMAIN st : st[j].node # v
    BY DEF Open
<1>7. Open(t) = Open(s) \cup {v}
    BY <1>1, <1>2, <1>3, <1>4, <1>5 DEF Open
<1>8. Apart(t)
    <2>1. \A i, j \in DOMAIN on : on[i].node = on[j].node => i = j
        BY <1>1, <1>2, <1>4, <1>6 DEF Walking, Apart
    <2>2. \A i \in DOMAIN on : on[i].node \notin Range(s.order)
        BY <1>1, <1>2, <1>4 DEF Walking, Apart
    <2> QED BY <1>3, <2>1, <2>2 DEF Walking, Apart
<1>9. Nested(t)
    <2> SUFFICES ASSUME NEW i \in DOMAIN on, NEW j \in DOMAIN on, i < j PROVE on[j].node \in NeedsOf(on[i].node)
        BY <1>3 DEF Nested
    <2>1. i \in 1..L
        BY <1>2, <1>4
    <2>2. CASE j \in 1..L
        BY <1>2, <2>1, <2>2 DEF Walking, Nested
    <2>3. CASE j = L + 1
        BY <1>1, <1>2, <2>1, <2>3
    <2> QED BY <1>2, <1>4, <2>2, <2>3
<1>10. LookedAt(t, es, {})
    <2> SUFFICES ASSUME ~s.cycle, NEW i \in DOMAIN on, NEW j \in DOMAIN es, j < on[i].at, es[j].from = on[i].node
                 PROVE  es[j].to \in Range(s.order) \/ (i + 1 \in DOMAIN on /\ on[i + 1].node = es[j].to)
        BY <1>3 DEF LookedAt
    <2>1. i # L + 1
        <3>1. j \in Nat /\ ~(j < 1)
            BY <1>0
        <3> QED BY <1>1, <1>2, <3>1
    <2>2. i \in 1..L /\ on[i] = st[i]
        BY <1>2, <1>4, <2>1
    <2>3. \/ es[j].to \in Range(s.order)
          \/ i + 1 \in DOMAIN st /\ st[i + 1].node = es[j].to
          \/ i = Len(s.stack) /\ es[j].to \in {v}
        BY <1>2, <2>2 DEF Walking, LookedAt
    <2>4. CASE i + 1 \in DOMAIN st /\ st[i + 1].node = es[j].to
        BY <1>2, <1>5, <2>4
    <2>5. CASE i = Len(s.stack) /\ es[j].to \in {v}
        BY <1>1, <1>2, <1>5, <2>5 DEF L
    <2> QED BY <2>3, <2>4, <2>5
<1>11. InTurn(t)
    BY <1>3 DEF InTurn, Walking
<1>12. Begun(t, names, {})
    BY <1>3, <1>7 DEF Begun, Walking
<1>13. RealCycle(t)
    BY <1>3 DEF RealCycle, Walking
<1>14. Walking(t, es, names, {})
    BY <1>3, <1>8, <1>9, <1>10, <1>11, <1>12, <1>13 DEF Walking
<1>15. WorkDone(t, es) = WorkDone(s, es)
    <2> DEFINE C == Reached \X (1..(Len(es) + 1))
    <2>1. ASSUME NEW y \in C PROVE y \in WorkDone(t, es) <=> y \in WorkDone(s, es)
        <3> DEFINE P(j) == on[j].node = y[1] /\ y[2] < on[j].at
        <3>1. y \in WorkDone(t, es) <=> y[1] \in Range(s.order) \/ \E j \in 1..(L + 1) : P(j)
            BY <1>2, <1>3, <2>1 DEF WorkDone
        <3>2. y \in WorkDone(s, es) <=> y[1] \in Range(s.order) \/ \E j \in 1..L : P(j)
            BY <1>2, <2>1 DEF WorkDone
        <3>3. ~P(L + 1)
            <4>1. y[2] \in 1..(Len(es) + 1)
                BY <2>1
            <4>2. ~(y[2] < 1)
                BY <1>0, <4>1
            <4> QED BY <1>1, <1>2, <4>2
        <3> HIDE DEF P
        <3> QED BY <1>4, <1>5, <3>1, <3>2, <3>3
    <2>2. WorkDone(t, es) \subseteq C /\ WorkDone(s, es) \subseteq C
        BY DEF WorkDone
    <2> HIDE DEF C
    <2> QED BY <2>1, <2>2
<1>16. Clocked(t, es, k)
    BY <1>3, <1>15 DEF Clocked
<1> QED BY <1>14, <1>16 DEF t, on, new

(* Leaving the top frame. *)
LEMMA LeaveStep ==
    ASSUME NEW es, FromReached(es), NEW names, NEW s, Walking(s, es, names, {}), s.stack # <<>>,
           Top(s.stack).at > Len(es), NEW k \in Nat, Clocked(s, es, k)
    PROVE  Walking(LeaveTurn(s), es, names, {}) /\ Clocked(LeaveTurn(s), es, k + 1)
<1> DEFINE st == s.stack
           L == Len(st)
           M == Len(s.order)
           v == Top(st).node
           on == Popped(st)
           ord == Append(s.order, v)
           t == LeaveTurn(s)
<1>0. s \in Visiting(es, names) /\ st \in Seq(Frames(es)) /\ es \in Seq(Dep) /\ Len(es) \in Nat /\ s.order \in Seq(Reached)
    BY DEF Walking, Visiting, FromReached
<1>1. L \in Nat /\ L > 0 /\ L \in DOMAIN st /\ Top(st) = st[L] /\ DOMAIN st = 1..L /\ st[L] \in Frames(es)
    BY <1>0 DEF Top
<1>2. v \in Reached /\ st[L].node = v /\ st[L].at = Len(es) + 1
    <2>1. st[L].at \in 1..(Len(es) + 1) /\ st[L].node \in Reached
        BY <1>1 DEF Frames
    <2> QED BY <1>0, <1>1, <2>1
<1>3. on \in Seq(Frames(es)) /\ Len(on) = L - 1 /\ DOMAIN on = 1..(L - 1) /\ \A j \in 1..(L - 1) : on[j] = st[j]
    BY <1>0, <1>1 DEF Popped
<1> HIDE DEF v
<1>4. /\ ord \in Seq(Reached) /\ M \in Nat /\ DOMAIN s.order = 1..M /\ DOMAIN ord = 1..(M + 1) /\ ord[M + 1] = v
      /\ \A p \in 1..M : ord[p] = s.order[p]
    BY <1>0, <1>2
<1> HIDE DEF on, ord
<1>5. t.stack = on /\ t.order = ord /\ t.cycle = s.cycle /\ t.next = s.next /\ t \in Visiting(es, names)
    <2> DEFINE r == [s EXCEPT !.stack = on]
               w == [r EXCEPT !.order = ord]
    <2>1. t = w
        BY <1>0 DEF LeaveTurn, on, ord, v, Visiting
    <2>2. r \in Visiting(es, names) /\ r.stack = on /\ r.order = s.order /\ r.cycle = s.cycle /\ r.next = s.next
        BY <1>0, <1>3 DEF Visiting
    <2> HIDE DEF r
    <2>3. w \in Visiting(es, names) /\ w.stack = on /\ w.order = ord /\ w.cycle = r.cycle /\ w.next = r.next
        BY <1>4, <2>2 DEF Visiting
    <2> HIDE DEF w, t
    <2> QED BY <2>1, <2>2, <2>3
<1> HIDE DEF t, L, M
<1>6. \A j \in 1..L : j = L \/ j \in 1..(L - 1)
    BY <1>1
<1>7. \A j \in 1..(L - 1) : j \in 1..L /\ j # L
    BY <1>1
<1>8. (\A p \in 1..(M + 1) : p = M + 1 \/ p \in 1..M) /\ M + 1 \in 1..(M + 1) /\ \A p \in 1..M : p \in 1..(M + 1)
    BY <1>4
<1>9. Range(ord) = Range(s.order) \cup {v}
    BY <1>4, <1>8 DEF Range
<1>10. Open(s) \subseteq Open(t) \cup {v}
    BY <1>1, <1>2, <1>3, <1>5, <1>6 DEF Open
<1>11. Apart(t)
    <2>1. \A i, j \in DOMAIN on : on[i].node = on[j].node => i = j
        BY <1>1, <1>3, <1>7 DEF Walking, Apart
    <2>2. v \notin Range(s.order)
        BY <1>1, <1>2 DEF Walking, Apart
    <2>3. \A i, j \in DOMAIN ord : ord[i] = ord[j] => i = j
        <3>1. \A p \in 1..M : s.order[p] # v
            BY <1>4, <2>2 DEF Range
        <3>2. \A i, j \in 1..M : s.order[i] = s.order[j] => i = j
            BY <1>4 DEF Walking, Apart
        <3> QED BY <1>4, <1>8, <3>1, <3>2
    <2>4. \A i \in DOMAIN on : on[i].node \notin Range(ord)
        <3> SUFFICES ASSUME NEW i \in 1..(L - 1) PROVE st[i].node \notin Range(s.order) /\ st[i].node # v
            BY <1>3, <1>9
        <3> QED BY <1>1, <1>2, <1>7 DEF Walking, Apart
    <2> QED BY <1>5, <2>1, <2>3, <2>4 DEF Apart
<1>12. Nested(t)
    BY <1>1, <1>3, <1>5, <1>7 DEF Nested, Walking
<1>13. LookedAt(t, es, {})
    <2> SUFFICES ASSUME ~s.cycle, NEW i \in DOMAIN on, NEW j \in DOMAIN es, j < on[i].at, es[j].from = on[i].node
                 PROVE  es[j].to \in Range(ord) \/ (i + 1 \in DOMAIN on /\ on[i + 1].node = es[j].to)
        BY <1>5 DEF LookedAt
    <2>1. i \in 1..L /\ on[i] = st[i]
        BY <1>3, <1>7
    <2>2. es[j].to \in Range(s.order) \/ (i + 1 \in DOMAIN st /\ st[i + 1].node = es[j].to)
        BY <1>1, <2>1 DEF Walking, LookedAt
    <2>3. CASE i + 1 \in DOMAIN st /\ st[i + 1].node = es[j].to
        BY <1>1, <1>2, <1>3, <1>6, <1>9, <2>3
    <2> QED BY <1>9, <2>2, <2>3
<1>14. InTurn(t)
    <2> SUFFICES ASSUME ~s.cycle, NEW p \in DOMAIN ord, NEW e \in Edges, e[1] = ord[p]
                 PROVE  \E q \in DOMAIN ord : q < p /\ ord[q] = e[2]
        BY <1>5 DEF InTurn
    <2>1. CASE p \in 1..M
        <3>1. PICK q \in 1..M : q < p /\ s.order[q] = e[2]
            BY <1>4, <2>1 DEF Walking, InTurn
        <3> QED BY <1>4, <1>8, <3>1
    <2>2. CASE p = M + 1
        <3>1. PICK j \in DOMAIN es : es[j].from = v /\ es[j].to = e[2]
            BY <1>2, <1>4, <2>2, EdgesGiven
        <3>2. j < st[L].at
            <4>1. j \in 1..Len(es)
                BY <1>0
            <4> QED BY <1>0, <1>2, <4>1
        <3>3. L + 1 \notin DOMAIN st
            BY <1>1
        <3>4. e[2] \in Range(s.order)
            BY <1>1, <1>2, <3>1, <3>2, <3>3 DEF Walking, LookedAt
        <3>5. PICK q \in 1..M : s.order[q] = e[2]
            BY <1>4, <3>4 DEF Range
        <3>6. q < p
            BY <1>4, <2>2
        <3> QED BY <1>4, <1>8, <3>5, <3>6
    <2> QED BY <1>4, <1>8, <2>1, <2>2
<1>15. Begun(t, names, {})
    BY <1>5, <1>9, <1>10 DEF Begun, Walking
<1>16. RealCycle(t)
    BY <1>5 DEF RealCycle, Walking
<1>17. Walking(t, es, names, {})
    BY <1>5, <1>11, <1>12, <1>13, <1>14, <1>15, <1>16 DEF Walking
<1>18. Clocked(t, es, k + 1)
    <2> DEFINE a == Len(es) + 1
               x == <<v, a>>
               C == Reached \X (1..(Len(es) + 1))
               Old == WorkDone(s, es)
    <2>1. x \in C /\ x[1] = v /\ x[2] = a /\ a \in Nat
        BY <1>0, <1>2
    <2> HIDE DEF x
    <2>2. x \notin Old
        <3>1. v \notin Range(s.order)
            BY <1>1, <1>2 DEF Walking, Apart
        <3>2. ASSUME NEW j \in DOMAIN st, st[j].node = v, a < st[j].at PROVE FALSE
            <4>1. j = L
                BY <1>1, <1>2, <3>2 DEF Walking, Apart
            <4> QED BY <1>2, <2>1, <3>2, <4>1
        <3> HIDE DEF a
        <3> QED BY <2>1, <3>1, <3>2 DEF WorkDone
    <2>3. ASSUME NEW y \in C PROVE y \in WorkDone(t, es) <=> y \in Old \/ y = x
        <3> DEFINE P(j) == st[j].node = y[1] /\ y[2] < st[j].at
        <3>1. y \in WorkDone(t, es) <=> y[1] \in Range(s.order) \/ y[1] = v \/ \E j \in 1..(L - 1) : P(j)
            BY <1>3, <1>5, <1>9, <2>3 DEF WorkDone
        <3>2. y \in Old <=> y[1] \in Range(s.order) \/ \E j \in 1..L : P(j)
            BY <1>1, <2>3 DEF WorkDone
        <3>3. P(L) <=> y[1] = v /\ y # x
            <4>1. y[2] \in 1..(Len(es) + 1)
                BY <2>3
            <4>2. y[2] < a \/ y[2] = a
                BY <1>0, <4>1
            <4>3. ~(a < a)
                BY <2>1
            <4>4. y = <<y[1], y[2]>>
                BY <2>3
            <4>5. P(L) <=> v = y[1] /\ y[2] < a
                BY <1>2
            <4>6. y = x <=> y[1] = v /\ y[2] = a
                BY <2>1, <4>4 DEF x
            <4> HIDE DEF P, a
            <4> QED BY <4>2, <4>3, <4>5, <4>6
        <3>4. y = x => y[1] = v
            BY <2>1
        <3>5. P(L) \/ (\E j \in 1..(L - 1) : P(j)) <=> \E j \in 1..L : P(j)
            BY <1>1, <1>6, <1>7
        <3> HIDE DEF P
        <3> QED BY <3>1, <3>2, <3>3, <3>4, <3>5
    <2>4. WorkDone(t, es) \subseteq C /\ Old \subseteq C
        BY DEF WorkDone
    <2> HIDE DEF C
    <2>5. WorkDone(t, es) = Old \cup {x}
        BY <2>1, <2>3, <2>4
    <2>6. IsFiniteSet(Old) /\ (s.next - 1) + Cardinality(Old) = k
        BY DEF Clocked
    <2>7. IsFiniteSet(WorkDone(t, es)) /\ Cardinality(WorkDone(t, es)) = Cardinality(Old) + 1
        BY <2>2, <2>5, <2>6, FS_AddElement
    <2>8. Cardinality(Old) \in Nat /\ s.next \in Int
        BY <1>0, <2>6, FS_CardinalityType DEF Visiting
    <2> HIDE DEF Old
    <2>9. (s.next - 1) + (Cardinality(Old) + 1) = k + 1
        BY <2>6, <2>8
    <2> QED BY <1>5, <2>7, <2>9 DEF Clocked
<1> QED BY <1>17, <1>18 DEF t

(* A cycle is noted: what is called is open already. *)
LEMMA NoteCycle ==
    ASSUME NEW es, NEW names, NEW s, NEW v, Walking(s, es, names, {v}), v \in Open(s),
           NEW a \in Reached, a \in NeedsOf(a), NEW k \in Nat, Clocked(s, es, k)
    PROVE  LET t == [s EXCEPT !.cycle = TRUE] IN Walking(t, es, names, {}) /\ Clocked(t, es, k)
<1> DEFINE t == [s EXCEPT !.cycle = TRUE]
<1>1. s \in Visiting(es, names)
    BY DEF Walking
<1>2. t \in Visiting(es, names) /\ t.stack = s.stack /\ t.order = s.order /\ t.cycle /\ t.next = s.next
    BY <1>1 DEF Visiting
<1> HIDE DEF t
<1>3. Apart(t) /\ Nested(t)
    BY <1>2 DEF Apart, Nested, Walking
<1>4. LookedAt(t, es, {}) /\ InTurn(t) /\ RealCycle(t)
    BY <1>2 DEF LookedAt, InTurn, RealCycle
<1>5. Open(t) = Open(s)
    BY <1>2 DEF Open
<1>6. Begun(t, names, {})
    BY <1>2, <1>5 DEF Begun, Walking
<1>7. WorkDone(t, es) = WorkDone(s, es)
    BY <1>2 DEF WorkDone
<1>8. Clocked(t, es, k)
    BY <1>2, <1>7 DEF Clocked
<1> QED BY <1>2, <1>3, <1>4, <1>6, <1>8 DEF Walking, t

LEMMA EdgeStep ==
    ASSUME NEW es, FromReached(es), NEW names, NEW s, Walking(s, es, names, {}), s.stack # <<>>,
           Top(s.stack).at <= Len(es), NEW k \in Nat, Clocked(s, es, k)
    PROVE  LET t == EdgeTurn(es[Top(s.stack).at], s) IN Walking(t, es, names, {}) /\ Clocked(t, es, k + 1)
<1> DEFINE st == s.stack
           L == Len(st)
           top == Top(st)
           e == es[top.at]
           on == Append(Popped(st), [top EXCEPT !.at = @ + 1])
           o == [s EXCEPT !.stack = on]
           t == EdgeTurn(e, s)
<1>0. s \in Visiting(es, names) /\ st \in Seq(Frames(es)) /\ es \in Seq(Dep) /\ Len(es) \in Nat
    BY DEF Walking, Visiting, FromReached
<1>1. L \in Nat /\ L > 0 /\ L \in DOMAIN st /\ top = st[L] /\ DOMAIN st = 1..L /\ top \in Frames(es)
    BY <1>0 DEF Top
<1>2. top.at \in DOMAIN es /\ top.node \in Reached
    BY <1>0, <1>1 DEF Frames
<1>3. OnFrom(on, st, es)
    BY <1>0, OnIs
<1>4. <<e.from, e.to>> \in Edges /\ e.from \in Reached /\ e.to \in Reached /\ e.to \in NeedsOf(e.from)
    BY <1>2, EdgesReached
<1>5. /\ e.from # top.node \/ e.to \in Range(s.order) => t = o
      /\ e.from = top.node /\ e.to \notin Range(s.order) /\ e.to \in Open(s) => t = [s EXCEPT !.stack = on, !.cycle = TRUE]
      /\ e.from = top.node /\ e.to \notin Range(s.order) /\ e.to \notin Open(s)
             => t = [s EXCEPT !.stack = Append(on, Calling(e.to))]
    BY DEF EdgeTurn
<1> HIDE DEF on, t
<1>6. o.stack = on /\ o.order = s.order
    BY <1>0 DEF Visiting
<1>7. Open(o) = Open(s) /\ DOMAIN on = DOMAIN st /\ \A j \in DOMAIN st : on[j].node = st[j].node
    BY <1>3, <1>6 DEF Open, OnFrom
<1>8. k + 1 \in Nat
    OBVIOUS
<1>9. CASE e.from # top.node \/ e.to \in Range(s.order)
    <2>1. Walking(o, es, names, {}) /\ Clocked(o, es, k + 1)
        BY <1>3, <1>9, AdvanceStep
    <2> HIDE DEF o, e
    <2> QED BY <1>5, <1>9, <2>1 DEF t, e
<1>10. CASE e.from = top.node /\ e.to \notin Range(s.order)
    <2> DEFINE v == e.to
    <2>1. Walking(o, es, names, {v}) /\ Clocked(o, es, k + 1)
        <3>1. v \in {v}
            OBVIOUS
        <3> QED BY <1>3, <3>1, AdvanceStep
    <2>2. CASE v \in Open(s)
        <3>1. t = [o EXCEPT !.cycle = TRUE]
            <4>1. t = [s EXCEPT !.stack = on, !.cycle = TRUE]
                BY <1>5, <1>10, <2>2
            <4> QED BY <4>1
        <3>2. PICK j \in DOMAIN st : v = st[j].node
            BY <2>2 DEF Open
        <3>3. v \in NeedsOf(v)
            <4>1. CASE j = L
                BY <1>1, <1>4, <1>10, <3>2, <4>1
            <4>2. CASE j # L
                <5>1. j < L
                    BY <1>1, <4>2
                <5>2. top.node \in NeedsOf(v)
                    BY <1>1, <3>2, <5>1 DEF Walking, Nested
                <5> DEFINE y == <<e.from, e.to>>
                <5>3. y \in Edges /\ y[1] = top.node /\ y[2] = v
                    BY <1>4, <1>10
                <5> HIDE DEF y, v, top
                <5> QED BY <5>2, <5>3, NeedsOnward
            <4> QED BY <4>1, <4>2
        <3>4. v \in Reached /\ v \in Open(o)
            BY <1>4, <1>7, <2>2
        <3> HIDE DEF o, v
        <3>5. Walking(t, es, names, {}) /\ Clocked(t, es, k + 1)
            BY <1>8, <2>1, <3>1, <3>3, <3>4, NoteCycle
        <3> QED BY <3>5 DEF t, e
    <2>3. CASE v \notin Open(s)
        <3>1. t = [o EXCEPT !.stack = Append(o.stack, Calling(v))]
            <4> DEFINE w == Append(on, Calling(v))
            <4>1. t = [s EXCEPT !.stack = w]
                BY <1>5, <1>10, <2>3
            <4> HIDE DEF w
            <4>2. t = [o EXCEPT !.stack = w]
                BY <4>1
            <4> QED BY <1>6, <4>2 DEF w
        <3>2. \A i \in DOMAIN o.stack : v \in NeedsOf(o.stack[i].node)
            <4> SUFFICES ASSUME NEW i \in DOMAIN st PROVE v \in NeedsOf(st[i].node)
                BY <1>6, <1>7
            <4>1. CASE i = L
                BY <1>1, <1>4, <1>10, <4>1
            <4>2. CASE i # L
                <5>1. i < L
                    BY <1>1, <4>2
                <5>2. top.node \in NeedsOf(st[i].node)
                    BY <1>1, <5>1 DEF Walking, Nested
                <5> DEFINE y == <<e.from, e.to>>
                <5>3. y \in Edges /\ y[1] = top.node /\ y[2] = v
                    BY <1>4, <1>10
                <5> HIDE DEF y, v, top
                <5> QED BY <5>2, <5>3, NeedsOnward
            <4> QED BY <4>1, <4>2
        <3>3. v \in Reached /\ v \notin Open(o) /\ v \notin Range(o.order)
            BY <1>4, <1>6, <1>7, <1>10, <2>3
        <3> HIDE DEF o, v
        <3>4. Walking(t, es, names, {}) /\ Clocked(t, es, k + 1)
            BY <1>8, <2>1, <3>1, <3>2, <3>3, PushStep
        <3> QED BY <3>4 DEF t, e
    <2> QED BY <2>2, <2>3
<1> QED BY <1>9, <1>10

(* The next name. *)
LEMMA StartStep ==
    ASSUME NEW es, FromReached(es), NEW names \in Seq(Artifact), NEW s, Walking(s, es, names, {}),
           s.stack = <<>>, s.next <= Len(names), NEW k \in Nat, Clocked(s, es, k)
    PROVE  Walking(StartTurn(names, Reached, s), es, names, {}) /\ Clocked(StartTurn(names, Reached, s), es, k + 1)
<1> DEFINE n == names[s.next]
           r == [s EXCEPT !.next = @ + 1]
           t == StartTurn(names, Reached, s)
           V == {n}
<1>0. s \in Visiting(es, names) /\ Len(names) \in Nat /\ DOMAIN names = 1..Len(names)
    BY DEF Walking
<1>1. s.next \in 1..(Len(names) + 1) /\ s.next + 1 \in 1..(Len(names) + 1) /\ s.next \in Nat
    BY <1>0 DEF Visiting
<1>2. r \in Visiting(es, names) /\ r.stack = s.stack /\ r.order = s.order /\ r.cycle = s.cycle /\ r.next = s.next + 1
    BY <1>0, <1>1 DEF Visiting
<1>3. t = IF n \in Reached /\ n \notin Range(s.order) THEN [r EXCEPT !.stack = <<Calling(n)>>] ELSE r
    <2>1. CASE n \in Reached /\ n \notin Range(s.order)
        <3>1. t = [s EXCEPT !.next = @ + 1, !.stack = <<Calling(n)>>]
            BY <2>1 DEF StartTurn
        <3> QED BY <2>1, <3>1
    <2>2. CASE ~(n \in Reached /\ n \notin Range(s.order))
        <3>1. t = [s EXCEPT !.next = @ + 1, !.stack = s.stack]
            BY <2>2 DEF StartTurn
        <3>2. t = r
            BY <1>0, <3>1 DEF Visiting
        <3> QED BY <2>2, <3>2
    <2> QED BY <2>1, <2>2
<1> HIDE DEF r, t
<1>4. Apart(r) /\ Nested(r) /\ InTurn(r) /\ RealCycle(r) /\ Open(r) = Open(s)
    BY <1>2 DEF Apart, Nested, InTurn, RealCycle, Walking, Open
<1>5. \A W : LookedAt(r, es, W)
    BY <1>2 DEF LookedAt, Walking
<1>6. ASSUME NEW i \in DOMAIN names, i < r.next, names[i] \in Reached
      PROVE  i = s.next \/ names[i] \in Range(r.order) \cup Open(r)
    <2>1. i = s.next \/ i < s.next
        BY <1>0, <1>1, <1>2, <1>6
    <2> QED BY <1>2, <1>4, <1>6, <2>1 DEF Walking, Begun
<1>7. Clocked(r, es, k + 1)
    <2>1. WorkDone(r, es) = WorkDone(s, es)
        BY <1>2 DEF WorkDone
    <2>2. IsFiniteSet(WorkDone(s, es)) /\ (s.next - 1) + Cardinality(WorkDone(s, es)) = k
        BY DEF Clocked
    <2> DEFINE x == Cardinality(WorkDone(s, es))
    <2>3. x \in Nat /\ (s.next - 1) + x = k
        BY <2>2, FS_CardinalityType
    <2> HIDE DEF x
    <2>4. ((s.next + 1) - 1) + x = k + 1
        BY <1>1, <2>3
    <2> QED BY <1>2, <2>1, <2>2, <2>4 DEF Clocked, x
<1>8. CASE n \in Reached /\ n \notin Range(s.order)
    <2>1. Begun(r, names, V)
        BY <1>6 DEF Begun
    <2>2. Walking(r, es, names, V)
        BY <1>2, <1>4, <1>5, <2>1 DEF Walking
    <2>3. r.stack = <<>> /\ DOMAIN r.stack = {}
        BY <1>2
    <2>4. n \notin Open(r) /\ n \notin Range(r.order) /\ \A i \in DOMAIN r.stack : n \in NeedsOf(r.stack[i].node)
        BY <1>2, <1>8, <2>3 DEF Open
    <2>5. Append(r.stack, Calling(n)) = <<Calling(n)>>
        BY <2>3
    <2>6. t = [r EXCEPT !.stack = Append(r.stack, Calling(n))]
        BY <1>3, <1>8, <2>5
    <2>7. k + 1 \in Nat
        OBVIOUS
    <2> HIDE DEF n
    <2>8. Walking(t, es, names, {}) /\ Clocked(t, es, k + 1)
        BY <1>7, <1>8, <2>2, <2>4, <2>6, <2>7, PushStep
    <2> QED BY <2>8 DEF t
<1>9. CASE ~(n \in Reached /\ n \notin Range(s.order))
    <2>1. Begun(r, names, {})
        BY <1>2, <1>6, <1>9 DEF Begun
    <2>2. Walking(r, es, names, {})
        BY <1>2, <1>4, <1>5, <2>1 DEF Walking
    <2>3. t = r
        BY <1>3, <1>9
    <2> QED BY <1>7, <2>2, <2>3 DEF t
<1> QED BY <1>8, <1>9

(* One turn of the visit, and when no work is left. *)
LEMMA VisitStep ==
    ASSUME NEW g, IsGraph(g), NEW names \in Seq(Artifact), NEW s, Walking(s, g.edges, names, {}),
           s.stack # <<>> \/ s.next <= Len(names), NEW k \in Nat, Clocked(s, g.edges, k)
    PROVE  LET t == VisitTurn(g, names, s) IN Walking(t, g.edges, names, {}) /\ Clocked(t, g.edges, k + 1)
<1> DEFINE es == g.edges
           t == VisitTurn(g, names, s)
           a == Top(s.stack).at
           Good(x) == Walking(x, es, names, {}) /\ Clocked(x, es, k + 1)
<1>0. FromReached(es) /\ g.nodes = Reached /\ Len(es) \in Nat /\ Len(names) \in Nat
    BY DEF IsGraph, FromReached
<1>1. s \in Visiting(es, names)
    BY DEF Walking
<1>2. CASE s.stack = <<>>
    <2>1. s.next <= Len(names) /\ ~(s.next > Len(names))
        <3>1. s.next \in 1..(Len(names) + 1)
            BY <1>1 DEF Visiting
        <3> QED BY <1>0, <1>2, <3>1
    <2>2. t = StartTurn(names, Reached, s)
        BY <1>0, <1>2, <2>1 DEF VisitTurn
    <2> HIDE DEF es, t
    <2>3. Good(t)
        BY <1>0, <1>2, <2>1, <2>2, StartStep DEF es
    <2> QED BY <2>3 DEF es, t
<1>3. CASE s.stack # <<>>
    <2>1. a \in 1..(Len(es) + 1)
        <3>1. s.stack \in Seq(Frames(es))
            BY <1>1 DEF Visiting
        <3>2. Len(s.stack) \in DOMAIN s.stack
            BY <1>3, <3>1
        <3>3. Top(s.stack) \in Frames(es)
            BY <3>1, <3>2 DEF Top
        <3> QED BY <3>3 DEF Frames
    <2>2. t = IF a > Len(es) THEN LeaveTurn(s) ELSE EdgeTurn(es[a], s)
        BY <1>3 DEF VisitTurn
    <2>3. CASE a > Len(es)
        <3>1. t = LeaveTurn(s)
            BY <2>2, <2>3
        <3> HIDE DEF es, t
        <3>2. Good(t)
            BY <1>0, <1>3, <2>3, <3>1, LeaveStep DEF es
        <3> QED BY <3>2 DEF es, t
    <2>4. CASE a <= Len(es)
        <3>1. t = EdgeTurn(es[a], s)
            BY <1>0, <2>1, <2>2, <2>4
        <3> HIDE DEF es, t
        <3>2. Good(t)
            BY <1>0, <1>3, <2>4, <3>1, EdgeStep DEF es
        <3> QED BY <3>2 DEF es, t
    <2> HIDE DEF a, es
    <2> QED BY <1>0, <2>1, <2>3, <2>4
<1> QED BY <1>2, <1>3

LEMMA LessProduct ==
    ASSUME NEW a \in Nat, NEW b \in Nat, a <= b, NEW c \in Nat
    PROVE  a * c <= b * c /\ b * (c + 1) = b * c + b /\ b * c \in Nat
<1>1. PICK d \in Nat : b = a + d
    <2>1. b - a \in Nat /\ b = a + (b - a)
        OBVIOUS
    <2> QED BY <2>1
<1>2. b * c = a * c + d * c
    BY <1>1
<1>3. d * c \in Nat /\ a * c \in Nat /\ b * c \in Nat
    OBVIOUS
<1>4. a * c <= b * c
    <2> DEFINE x == a * c
               y == d * c
               z == b * c
    <2>1. z = x + y /\ y \in Nat /\ x \in Nat
        BY <1>2, <1>3
    <2> HIDE DEF x, y, z
    <2>2. x <= z
        BY <2>1
    <2> QED BY <2>2 DEF x, z
<1>5. b * (c + 1) = b * c + b
    OBVIOUS
<1> QED BY <1>3, <1>4, <1>5

LEMMA WorkEnds ==
    ASSUME NEW es, FromReached(es), NEW names \in Seq(Artifact), Reached \subseteq Range(names),
           NEW s, Walking(s, es, names, {}), Clocked(s, es, Len(names) * (Len(es) + 2)), Artifacts \subseteq Artifact
    PROVE  s.stack = <<>> /\ s.next > Len(names)
<1> DEFINE n == Len(names)
           l == Len(es) + 1
           C == Reached \X (1..l)
           Done == WorkDone(s, es)
           w == Cardinality(Done)
           r == Cardinality(Reached)
<1>0. n \in Nat /\ DOMAIN names = 1..n /\ Len(es) \in Nat /\ l \in Nat /\ s \in Visiting(es, names)
    BY DEF FromReached, Walking
<1>1. IsFiniteSet(Reached) /\ r <= n /\ r \in Nat
    <2>1. names \in Surjection(1..n, Range(names))
        BY <1>0 DEF Surjection, Range
    <2>2. IsFiniteSet(1..n) /\ Cardinality(1..n) = n
        <3>1. n \in Nat
            BY <1>0
        <3> HIDE DEF n
        <3> QED BY <3>1, FS_Interval
    <2>3. IsFiniteSet(Range(names)) /\ Cardinality(Range(names)) <= n
        BY <2>1, <2>2, FS_Surjection
    <2>4. IsFiniteSet(Reached) /\ r <= Cardinality(Range(names))
        BY <2>3, FS_Subset
    <2>5. r \in Nat /\ Cardinality(Range(names)) \in Nat
        BY <2>3, <2>4, FS_CardinalityType
    <2> HIDE DEF r, n
    <2> QED BY <1>0, <2>3, <2>4, <2>5
<1>2. IsFiniteSet(C) /\ Cardinality(C) = r * l
    <2>0. l \in Nat /\ ~(1 > l)
        BY <1>0
    <2> HIDE DEF l
    <2>1. IsFiniteSet(1..l) /\ Cardinality(1..l) = (l - 1) + 1
        BY <2>0, FS_Interval
    <2>2. Cardinality(1..l) = l
        BY <2>0, <2>1
    <2> QED BY <1>1, <2>1, <2>2, FS_Product
<1>3. Done \subseteq C
    BY DEF WorkDone
<1>4. IsFiniteSet(Done) /\ (s.next - 1) + w = n * (Len(es) + 2)
    BY DEF Clocked
<1>5. w \in Nat /\ Cardinality(C) \in Nat
    BY <1>2, <1>4, FS_CardinalityType
<1>6. s.next \in 1..(n + 1)
    BY <1>0 DEF Visiting
<1>7. n * (Len(es) + 2) = n * (l + 1)
    <2>1. Len(es) + 2 = l + 1
        BY <1>0
    <2> QED BY <2>1
<1> HIDE DEF n, l, C, w, r, Done
<1>8. r * l <= n * l /\ n * (l + 1) = n * l + n /\ n * l \in Nat
    BY <1>0, <1>1, LessProduct
<1> DEFINE a == r * l
           b == n * l
           nx == s.next
<1>9. a <= b /\ b \in Nat /\ Cardinality(C) = a /\ a \in Nat /\ (nx - 1) + w = b + n
    BY <1>2, <1>4, <1>5, <1>7, <1>8
<1> HIDE DEF a, b, nx
<1>10. ASSUME s.stack # <<>> PROVE FALSE
    <2> DEFINE x == <<Top(s.stack).node, l>>
    <2>1. s.stack \in Seq(Frames(es))
        BY <1>0 DEF Visiting
    <2>2. Len(s.stack) \in DOMAIN s.stack
        BY <1>10, <2>1
    <2>3. Top(s.stack) \in Frames(es) /\ Top(s.stack) = s.stack[Len(s.stack)]
        BY <2>1, <2>2 DEF Top
    <2>4. Top(s.stack).node \in Reached
        BY <2>3 DEF Frames
    <2>5. x \in C
        BY <1>0, <2>4 DEF C, l
    <2>6. x[1] = Top(s.stack).node /\ x[2] = l
        OBVIOUS
    <2> HIDE DEF x
    <2>7. x \notin Done
        <3>1. x[1] \notin Range(s.order)
            BY <2>2, <2>3, <2>6 DEF Walking, Apart
        <3>2. \A j \in DOMAIN s.stack : ~(l < s.stack[j].at)
            <4> TAKE j \in DOMAIN s.stack
            <4>1. s.stack[j] \in Frames(es)
                BY <2>1
            <4>2. s.stack[j].at \in 1..l
                BY <4>1 DEF Frames, l
            <4> QED BY <1>0, <4>2
        <3> QED BY <2>6, <3>1, <3>2 DEF Done, WorkDone
    <2>8. Done \subseteq C \ {x}
        BY <1>3, <2>7
    <2>9. IsFiniteSet(C \ {x}) /\ Cardinality(C \ {x}) = Cardinality(C) - 1
        BY <1>2, <2>5, FS_RemoveElement
    <2>10. w <= Cardinality(C \ {x})
        BY <2>8, <2>9, FS_Subset DEF w
    <2>11. w <= a - 1
        BY <1>9, <2>9, <2>10
    <2>12. nx - 1 <= n /\ nx \in Int
        BY <1>0, <1>6 DEF nx
    <2> QED BY <1>0, <1>5, <1>9, <2>11, <2>12
<1>11. s.next > n
    <2> SUFFICES ASSUME ~(nx > n) PROVE FALSE
        BY DEF nx
    <2>1. w <= a
        BY <1>2, <1>3, <1>9, FS_Subset DEF w
    <2>2. nx \in Int
        BY <1>0, <1>6 DEF nx
    <2>3. nx <= n
        BY <1>0, <2>2
    <2> QED BY <1>0, <1>5, <1>9, <2>1, <2>2, <2>3
<1> QED BY <1>10, <1>11 DEF n

LEMMA VisitedAll ==
    ASSUME NEW g, IsGraph(g), NEW names \in Seq(Artifact), Reached \subseteq Range(names), Artifacts \subseteq Artifact
    PROVE  LET d == Visited(g, names) IN
           Walking(d, g.edges, names, {}) /\ d.stack = <<>> /\ d.next > Len(names)
<1> DEFINE es == g.edges
           f == Visit(g, names)
           Rests(k) == f[k].stack = <<>> /\ f[k].next > Len(names)
           W == {k \in Nat : Walking(f[k], es, names, {}) /\ (Clocked(f[k], es, k) \/ Rests(k))}
           N == Len(names) * (Len(es) + 2)
<1>0. FromReached(es) /\ Len(es) \in Nat /\ Len(names) \in Nat
    BY DEF IsGraph, FromReached
<1>1. VisitsAll(f, g, names)
    BY VisitIs
<1> HIDE DEF f
<1>2. f[0] = VisitStart /\ \A k \in Nat : f[k + 1] = VisitTurn(g, names, f[k])
    BY <1>1 DEF VisitsAll
<1>3. 0 \in W
    <2> DEFINE s == VisitStart
    <2>1. s.stack = <<>> /\ s.order = <<>> /\ s.cycle = FALSE /\ s.next = 1
          /\ s = [stack |-> s.stack, order |-> s.order, cycle |-> s.cycle, next |-> s.next]
        BY DEF VisitStart
    <2> HIDE DEF s
    <2>2. DOMAIN s.stack = {} /\ DOMAIN s.order = {} /\ s.stack \in Seq(Frames(es)) /\ s.order \in Seq(Reached)
        BY <2>1
    <2>3. 1 \in 1..(Len(names) + 1)
        BY <1>0
    <2>4. s \in Visiting(es, names)
        BY <2>1, <2>2, <2>3 DEF Visiting
    <2>5. Apart(s) /\ Nested(s) /\ InTurn(s) /\ RealCycle(s) /\ LookedAt(s, es, {})
        BY <2>1, <2>2 DEF Apart, Nested, InTurn, RealCycle, LookedAt
    <2>6. Begun(s, names, {})
        <3>1. \A n \in DOMAIN names : ~(n < 1)
            BY <1>0
        <3> QED BY <2>1, <3>1 DEF Begun
    <2>7. Walking(s, es, names, {})
        BY <2>4, <2>5, <2>6 DEF Walking
    <2>8. WorkDone(s, es) = {}
        BY <2>2 DEF WorkDone, Range
    <2>9. IsFiniteSet({}) /\ Cardinality({}) = 0
        BY FS_EmptySet
    <2>10. Clocked(s, es, 0)
        BY <2>1, <2>8, <2>9 DEF Clocked
    <2> QED BY <1>2, <2>7, <2>10 DEF s
<1>4. ASSUME NEW k \in Nat, k \in W PROVE k + 1 \in W
    <2>1. Walking(f[k], es, names, {}) /\ (Clocked(f[k], es, k) \/ Rests(k)) /\ f[k + 1] = VisitTurn(g, names, f[k])
        BY <1>2, <1>4
    <2>2. CASE Rests(k)
        <3>1. f[k + 1] = f[k]
            BY <2>1, <2>2 DEF VisitTurn
        <3> QED BY <2>1, <2>2, <3>1
    <2>3. CASE ~Rests(k)
        <3>1. f[k].next \in 1..(Len(names) + 1)
            BY <2>1 DEF Walking, Visiting
        <3>2. f[k].stack # <<>> \/ f[k].next <= Len(names)
            BY <1>0, <2>3, <3>1
        <3>3. Walking(f[k + 1], es, names, {}) /\ Clocked(f[k + 1], es, k + 1)
            BY <2>1, <2>3, <3>2, VisitStep
        <3> QED BY <3>3
    <2> QED BY <2>2, <2>3
<1> HIDE DEF W
<1>5. N \in Nat
    BY <1>0
<1> HIDE DEF N
<1>6. N \in W
    BY <1>3, <1>4, <1>5, Induct
<1>7. Walking(f[N], es, names, {}) /\ (Clocked(f[N], es, N) \/ Rests(N))
    BY <1>6 DEF W
<1> DEFINE d == f[N]
<1>8. d.stack = <<>> /\ d.next > Len(names)
    <2> SUFFICES ASSUME Clocked(d, es, N) PROVE d.stack = <<>> /\ d.next > Len(names)
        BY <1>7
    <2> HIDE DEF es, d
    <2>1. Walking(d, es, names, {})
        BY <1>7 DEF d
    <2> QED BY <1>0, <2>1, WorkEnds DEF N
<1>9. d = Visited(g, names)
    BY DEF Visited, N, f
<1> QED BY <1>7, <1>8, <1>9

(* What the visit found. *)
LEMMA VisitedOrder ==
    ASSUME NEW d, NEW es, FromReached(es), NEW names \in Seq(Artifact), Reached \subseteq Range(names),
           Walking(d, es, names, {}), d.stack = <<>>, d.next > Len(names)
    PROVE  /\ Range(d.order) = Reached
           /\ ~d.cycle => \A a \in Reached : \A b \in NeedsOf(a) :
                  (CHOOSE i \in DOMAIN d.order : d.order[i] = b) < (CHOOSE i \in DOMAIN d.order : d.order[i] = a)
           /\ d.cycle = \E a \in Reached : a \in NeedsOf(a)
<1> DEFINE o == d.order
           at(a) == CHOOSE i \in DOMAIN o : o[i] = a
<1>0. o \in Seq(Reached) /\ DOMAIN o = 1..Len(o) /\ Len(o) \in Nat /\ d \in Visiting(es, names) /\ d.cycle \in BOOLEAN
    BY DEF Walking, Visiting
<1>1. Range(o) = Reached
    <2>1. Range(o) \subseteq Reached
        BY <1>0 DEF Range
    <2>2. Open(d) = {}
        BY DEF Open
    <2>3. \A n \in DOMAIN names : n < d.next
        <3>1. d.next \in 1..(Len(names) + 1)
            BY <1>0 DEF Visiting
        <3>2. Len(names) \in Nat /\ DOMAIN names = 1..Len(names)
            OBVIOUS
        <3> DEFINE y == d.next
                   l == Len(names)
        <3>3. y \in Int /\ y > l
            BY <3>1, <3>2
        <3> HIDE DEF y, l
        <3>4. \A n \in 1..l : n < y
            BY <3>2, <3>3 DEF l
        <3> QED BY <3>2, <3>4 DEF y, l
    <2>4. \A n \in DOMAIN names : names[n] \in Reached => names[n] \in Range(o)
        BY <2>2, <2>3 DEF Walking, Begun
    <2> QED BY <2>1, <2>4 DEF Range
<1>2. \A a \in Reached : at(a) \in DOMAIN o /\ o[at(a)] = a
    BY <1>1 DEF Range
<1> HIDE DEF at, o
<1>3. ASSUME ~d.cycle, NEW a \in Reached, NEW b \in NeedsOf(a) PROVE at(b) < at(a)
    <2> DEFINE S == {o[q] : q \in {q \in DOMAIN o : q < at(a)}}
    <2>1. at(a) \in DOMAIN o /\ o[at(a)] = a
        BY <1>2
    <2>2. ASSUME NEW p \in DOMAIN o, p <= at(a), NEW e \in Edges, e[1] = o[p] PROVE e[2] \in S
        <3>1. PICK q \in DOMAIN o : q < p /\ o[q] = e[2]
            BY <1>3, <2>2 DEF Walking, InTurn, o
        <3>2. q < at(a)
            BY <1>0, <2>1, <2>2, <3>1
        <3> QED BY <3>1, <3>2
    <2>3. \A e \in Edges : e[1] = a => e[2] \in S
        <3>1. at(a) <= at(a)
            BY <1>0, <2>1
        <3> HIDE DEF S
        <3> QED BY <2>1, <2>2, <3>1
    <2>4. ASSUME NEW e \in Edges, e[1] \in S PROVE e[2] \in S
        <3>1. PICK q \in DOMAIN o : q < at(a) /\ o[q] = e[1]
            BY <2>4
        <3>2. q <= at(a)
            BY <1>0, <2>1, <3>1
        <3> HIDE DEF S
        <3> QED BY <2>2, <3>1, <3>2
    <2>5. S \in SUBSET Artifacts
        <3>1. S \subseteq Reached
            BY <1>0
        <3> QED BY <3>1, ReachedIs
    <2> HIDE DEF S
    <2>6. ClosedSet(S)
        BY <2>4 DEF ClosedSet
    <2>7. b \in S
        BY <2>3, <2>5, <2>6, NeedsIs
    <2>8. PICK q \in DOMAIN o : q < at(a) /\ o[q] = b
        BY <2>7 DEF S
    <2>9. b \in Reached
        BY <1>1, <2>8 DEF Range
    <2>10. at(b) = q
        <3>1. at(b) \in DOMAIN o /\ o[at(b)] = b
            BY <1>2, <2>9
        <3> QED BY <2>8, <3>1 DEF Walking, Apart, o
    <2> QED BY <2>8, <2>10
<1>4. (\E a \in Reached : a \in NeedsOf(a)) => d.cycle
    <2> SUFFICES ASSUME ~d.cycle, NEW a \in Reached, a \in NeedsOf(a) PROVE FALSE
        OBVIOUS
    <2>1. at(a) < at(a)
        BY <1>3
    <2>2. at(a) \in Nat
        BY <1>0, <1>2 DEF o
    <2> QED BY <2>1, <2>2
<1>5. d.cycle => \E a \in Reached : a \in NeedsOf(a)
    BY DEF Walking, RealCycle
<1>6. d.cycle = \E a \in Reached : a \in NeedsOf(a)
    BY <1>0, <1>4, <1>5
<1> QED BY <1>1, <1>3, <1>6 DEF at, o

-------------------------------------------------------------------------------
(* The names put the artifacts of the stored dependencies in an order.      *)
GraphCalls ==
    {c \in [fn : {"graph"}, deps : Seq(Dep), root : Artifact, depth : Nat, names : Seq(Artifact)] :
        {c.root} \cup {c.deps[i].to : i \in DOMAIN c.deps} \subseteq Range(c.names)}
GraphInit == call \in GraphCalls /\ answer = Pending
GraphSpec == GraphInit /\ [][GraphStep]_cvars

(* The graph of a call, in the words of the property. *)
LEMMA BuiltGraph ==
    ASSUME call \in GraphCalls, DepthCoversAll
    PROVE  LET g == BuildArtifactGraph(StoredDeps(call.deps), call.root, call.depth, call.names) IN
           /\ FromReached(g.edges) /\ Range(g.artifacts) = Reached
           /\ g.cycle = \E a \in Reached : a \in NeedsOf(a)
           /\ ~g.cycle => \A a \in Reached : \A b \in NeedsOf(a) :
                  (CHOOSE i \in DOMAIN g.artifacts : g.artifacts[i] = b)
                      < (CHOOSE i \in DOMAIN g.artifacts : g.artifacts[i] = a)
           /\ Reached \subseteq Range(call.names)
<1> DEFINE es == StoredDeps(call.deps)
           m == call.depth
           names == call.names
           found == Collected(es, call.root, m)
           d == Visited(found, names)
           g == BuildArtifactGraph(es, call.root, m, names)
<1>1. /\ call.deps \in Seq(Dep) /\ call.root \in Artifact /\ m \in Nat /\ names \in Seq(Artifact)
      /\ {call.root} \cup {call.deps[i].to : i \in DOMAIN call.deps} \subseteq Range(names)
    BY DEF GraphCalls
<1>2. Edges = PairsOf(call.deps)
    BY DEF Edges, PairsOf
<1>3. es \in Seq(Dep) /\ PairsOf(es) = Edges
    BY <1>1, <1>2, StoredPairs
<1>4. Artifacts \subseteq Artifact /\ Artifacts \subseteq Range(names)
    <2>1. ASSUME NEW e \in Edges PROVE e[2] \in Artifact /\ e[2] \in Range(names)
        <3>1. PICK i \in DOMAIN call.deps : e = <<call.deps[i].from, call.deps[i].to>>
            BY <1>2 DEF PairsOf
        <3>2. call.deps[i] \in Dep
            BY <1>1
        <3>3. call.deps[i].to \in Artifact
            BY <3>2 DEF Dep
        <3>4. call.deps[i].to \in Range(names)
            BY <1>1
        <3> QED BY <3>1, <3>3, <3>4
    <2> QED BY <1>1, <2>1 DEF Artifacts
<1>5. Reached \subseteq Range(names)
    BY <1>4, ReachedIs
<1>6. Covers(m)
    BY DEF DepthCoversAll, Covers
<1>7. g.artifacts = d.order /\ g.edges = found.edges /\ g.cycle = d.cycle
    BY DEF BuildArtifactGraph
<1> HIDE DEF es, m, names
<1>8. IsGraph(found)
    BY <1>1, <1>3, <1>6, CollectedGraph
<1> HIDE DEF found
<1>9. FromReached(found.edges)
    BY <1>8 DEF IsGraph, FromReached
<1>10. Walking(d, found.edges, names, {}) /\ d.stack = <<>> /\ d.next > Len(names)
    BY <1>1, <1>4, <1>5, <1>8, VisitedAll
<1> HIDE DEF d, g
<1> DEFINE o == d.order
           fe == found.edges
<1>11. /\ Range(o) = Reached
       /\ ~d.cycle => \A a \in Reached : \A b \in NeedsOf(a) :
              (CHOOSE i \in DOMAIN o : o[i] = b) < (CHOOSE i \in DOMAIN o : o[i] = a)
       /\ d.cycle = \E a \in Reached : a \in NeedsOf(a)
    BY <1>1, <1>5, <1>9, <1>10, VisitedOrder
<1> HIDE DEF o, fe
<1>12. g.artifacts = o /\ g.edges = fe /\ FromReached(fe)
    BY <1>7, <1>9 DEF o, fe
<1>13. /\ FromReached(g.edges) /\ Range(g.artifacts) = Reached
       /\ g.cycle = \E a \in Reached : a \in NeedsOf(a)
       /\ ~g.cycle => \A a \in Reached : \A b \in NeedsOf(a) :
              (CHOOSE i \in DOMAIN g.artifacts : g.artifacts[i] = b)
                  < (CHOOSE i \in DOMAIN g.artifacts : g.artifacts[i] = a)
       /\ Reached \subseteq Range(names)
    BY <1>5, <1>7, <1>11, <1>12
<1> QED BY <1>13 DEF g, names, es, m

RightGraph(v, R, needs) ==
    LET at(a) == CHOOSE i \in DOMAIN v.g.artifacts : v.g.artifacts[i] = a
    IN  /\ \A c \in R : v.affected[c] = {a \in R : c \in needs[a]}
        /\ Range(v.g.artifacts) = R
        /\ v.g.cycle = \E a \in R : a \in needs[a]
        /\ ~v.g.cycle => \A a \in R : \A b \in needs[a] : at(b) < at(a)

LEMMA GraphIsRight ==
    ASSUME call \in GraphCalls, GraphStep
    PROVE  NothingAffectedIsForgotten'
<1> DEFINE g == BuildArtifactGraph(StoredDeps(call.deps), call.root, call.depth, call.names)
           value == [g |-> g, affected |-> [c \in Range(call.names) |-> AffectedArtifacts(g, c)]]
<1>1. call' = call /\ answer'.value = value
    BY DEF GraphStep, Return
<1>2. Edges' = Edges /\ Artifacts' = Artifacts
    BY <1>1 DEF Edges, Artifacts
<1>3. Reached' = Reached /\ (\A a : NeedsOf(a)' = NeedsOf(a)) /\ DepthCoversAll' = DepthCoversAll
    BY <1>1, <1>2 DEF Reached, NeedsOf, ClosedSet, DepthCoversAll, WalkEnds
<1> HIDE DEF g
<1>4. value.g = g /\ \A c \in Range(call.names) : value.affected[c] = AffectedArtifacts(g, c)
    OBVIOUS
<1> HIDE DEF value
<1> DEFINE needs == [a \in Reached |-> NeedsOf(a)]
<1>5. ASSUME DepthCoversAll PROVE RightGraph(value, Reached, needs)
    <2>1. /\ FromReached(g.edges) /\ Range(g.artifacts) = Reached
          /\ g.cycle = \E a \in Reached : a \in NeedsOf(a)
          /\ ~g.cycle => \A a \in Reached : \A b \in NeedsOf(a) :
                 (CHOOSE i \in DOMAIN g.artifacts : g.artifacts[i] = b)
                     < (CHOOSE i \in DOMAIN g.artifacts : g.artifacts[i] = a)
          /\ Reached \subseteq Range(call.names)
        BY <1>5, BuiltGraph DEF g
    <2>2. \A a \in Reached : needs[a] = NeedsOf(a)
        OBVIOUS
    <2> HIDE DEF needs
    <2>3. ASSUME NEW c \in Reached PROVE value.affected[c] = {a \in Reached : c \in needs[a]}
        <3>1. value.affected[c] = AffectedArtifacts(g, c)
            BY <1>4, <2>1
        <3> DEFINE es == g.edges
        <3>2. AffectedArtifacts(g, c) = Affect(es, c)[Len(es) + 1].seen
            BY DEF AffectedArtifacts
        <3> HIDE DEF es
        <3>3. FromReached(es)
            BY <2>1 DEF es
        <3>4. AffectedArtifacts(g, c) = {a \in Reached : c \in NeedsOf(a)}
            BY <3>2, <3>3, AffectedAll
        <3> QED BY <2>2, <3>1, <3>4
    <2>4. g.cycle = \E a \in Reached : a \in needs[a]
        BY <2>1, <2>2
    <2>5. ~g.cycle => \A a \in Reached : \A b \in needs[a] :
             (CHOOSE i \in DOMAIN g.artifacts : g.artifacts[i] = b)
                 < (CHOOSE i \in DOMAIN g.artifacts : g.artifacts[i] = a)
        BY <2>1, <2>2
    <2>6. Range(g.artifacts) = Reached
        BY <2>1
    <2> QED BY <1>4, <2>3, <2>4, <2>5, <2>6 DEF RightGraph
<1>6. NothingAffectedIsForgotten' <=>
          (Got("graph")' /\ DepthCoversAll' => RightGraph(answer'.value, Reached', [a \in Reached' |-> NeedsOf(a)']))
    BY DEF NothingAffectedIsForgotten, RightGraph
<1>7. [a \in Reached' |-> NeedsOf(a)'] = needs
    BY <1>3
<1> HIDE DEF needs
<1> QED BY <1>1, <1>3, <1>5, <1>6, <1>7

(* Whatever dependencies are stored and in whatever order they and the      *)
(* names of artifacts are met: where the depth covers every path from the   *)
(* root, the graph holds exactly what is reached, a cycle is reported       *)
(* exactly when there is one, without one the order puts after an artifact  *)
(* nothing it imports, and of every change exactly the artifacts that       *)
(* import from it are affected (platform/artifact_graph.cpp:34-91).         *)
THEOREM NothingAffectedIsForgottenHolds == GraphSpec => []NothingAffectedIsForgotten
<1> DEFINE Inv == call \in GraphCalls /\ NothingAffectedIsForgotten
<1>1. GraphInit => Inv
    BY DEF GraphInit, NothingAffectedIsForgotten, Got, Answered, Pending
<1>2. Inv /\ [GraphStep]_cvars => Inv'
    <2> SUFFICES ASSUME Inv, [GraphStep]_cvars PROVE Inv'
        OBVIOUS
    <2>1. CASE GraphStep
        <3>1. call' = call
            BY <2>1 DEF GraphStep, Return
        <3>2. (call \in GraphCalls)'
            BY <3>1
        <3> QED BY <2>1, <3>2, GraphIsRight
    <2>2. CASE UNCHANGED cvars
        <3>1. call' = call /\ answer' = answer
            BY <2>2 DEF cvars
        <3>2. Edges' = Edges /\ Artifacts' = Artifacts
            BY <3>1 DEF Edges, Artifacts
        <3>3. Reached' = Reached /\ (\A a : NeedsOf(a)' = NeedsOf(a)) /\ DepthCoversAll' = DepthCoversAll
            BY <3>1, <3>2 DEF Reached, NeedsOf, ClosedSet, DepthCoversAll, WalkEnds
        <3>4. NothingAffectedIsForgotten <=>
                  (Got("graph") /\ DepthCoversAll => RightGraph(answer.value, Reached, [a \in Reached |-> NeedsOf(a)]))
            BY DEF NothingAffectedIsForgotten, RightGraph
        <3>5. NothingAffectedIsForgotten' <=>
                  (Got("graph")' /\ DepthCoversAll' => RightGraph(answer'.value, Reached', [a \in Reached' |-> NeedsOf(a)']))
            BY DEF NothingAffectedIsForgotten, RightGraph
        <3>6. [a \in Reached' |-> NeedsOf(a)'] = [a \in Reached |-> NeedsOf(a)]
            BY <3>3
        <3>7. Got("graph")' = Got("graph")
            BY <3>1 DEF Got, Answered
        <3> QED BY <3>1, <3>3, <3>4, <3>5, <3>6, <3>7
    <2> QED BY <2>1, <2>2
<1> QED BY <1>1, <1>2, PTL DEF GraphSpec
===============================================================================
