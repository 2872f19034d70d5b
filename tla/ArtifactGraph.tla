---------------------------- MODULE ArtifactGraph -----------------------------
(***************************************************************************)
(* platform/artifact_graph.cpp: dependencies between workbooks are stored  *)
(* documents; from a root artifact the graph is collected up to a depth    *)
(* and ordered with dependencies first, and from the graph the artifacts   *)
(* that must be verified again after a change.                             *)
(***************************************************************************)
EXTENDS Calls, Integers, Sequences, FiniteSets, Functions

Top(s) == s[Len(s)]
Popped(s) == SubSeq(s, 1, Len(s) - 1)

(* add_artifact_dep: an edge of the same ends and symbol is overwritten.    *)
SameId(d, e) == d.from = e.from /\ d.to = e.to /\ d.symbol = e.symbol
AddDep(deps, e) ==
    IF \E i \in DOMAIN deps : SameId(deps[i], e)
    THEN [i \in DOMAIN deps |-> IF SameId(deps[i], e) THEN e ELSE deps[i]]
    ELSE Append(deps, e)
StoredDeps(calls) ==
    LET deps[k \in Nat] == IF k = 0 THEN <<>> ELSE AddDep(deps[k - 1], calls[k])
    IN  deps[Len(calls)]

-------------------------------------------------------------------------------
(* Mutant: only what was not yet met is put on the list of edges. *)
Expand_NewOnly(s, e, depth) ==
    IF e.to \in s.nodes THEN s
    ELSE [edges |-> Append(s.edges, e), nodes |-> s.nodes \cup {e.to}, q |-> Append(s.q, <<e.to, depth + 1>>)]

Expand(s, e, depth) ==
    IF e.to \in s.nodes THEN [s EXCEPT !.edges = Append(@, e)]
    ELSE [edges |-> Append(s.edges, e), nodes |-> s.nodes \cup {e.to}, q |-> Append(s.q, <<e.to, depth + 1>>)]

(* The list of nodes to expand is taken from its back.                      *)
Expanded(edges, rest, u, depth) ==
    LET r[i \in Nat] == IF i = 0 THEN rest
                        ELSE IF edges[i].from = u THEN Expand(r[i - 1], edges[i], depth)
                        ELSE r[i - 1]
    IN  r
CollectTurn(edges, s, maxDepth) ==
    IF s.q = <<>> THEN s
    ELSE LET cur == Top(s.q)
             rest == [s EXCEPT !.q = Popped(@)]
         IN IF cur[2] >= maxDepth THEN rest ELSE Expanded(edges, rest, cur[1], cur[2])[Len(edges)]
Collect(edges, root, maxDepth) ==
    LET s[k \in Nat] == IF k = 0 THEN [q |-> << <<root, 0>> >>, nodes |-> {root}, edges |-> <<>>]
                        ELSE CollectTurn(edges, s[k - 1], maxDepth)
    IN  s
Collected(edges, root, maxDepth) ==     \* a turn for the root, and one for the end of an edge
    Collect(edges, root, maxDepth)[Len(edges) + 1]

-------------------------------------------------------------------------------
(* The depth first search that orders nodes when they are left.  A call of  *)
(* dfs is a frame: its node and the place of the edge it looks at next.     *)
Calling(n) == [node |-> n, at |-> 1]
Open(s) == {s.stack[i].node : i \in DOMAIN s.stack}

StartTurn(names, nodes, s) ==
    LET n == names[s.next] IN
    [s EXCEPT !.next = @ + 1,
              !.stack = IF n \in nodes /\ n \notin Range(s.order) THEN <<Calling(n)>> ELSE @]
EdgeTurn(e, s) ==
    LET top == Top(s.stack)
        on == Append(Popped(s.stack), [top EXCEPT !.at = @ + 1])
    IN IF e.from # top.node \/ e.to \in Range(s.order) THEN [s EXCEPT !.stack = on]
       ELSE IF e.to \in Open(s) THEN [s EXCEPT !.stack = on, !.cycle = TRUE]
       ELSE [s EXCEPT !.stack = Append(on, Calling(e.to))]
LeaveTurn(s) == [s EXCEPT !.stack = Popped(@), !.order = Append(@, Top(s.stack).node)]

VisitTurn(g, names, s) ==
    IF s.stack = <<>> THEN IF s.next > Len(names) THEN s ELSE StartTurn(names, g.nodes, s)
    ELSE LET at == Top(s.stack).at IN
         IF at > Len(g.edges) THEN LeaveTurn(s) ELSE EdgeTurn(g.edges[at], s)
Visit(g, names) ==
    LET s[k \in Nat] == IF k = 0 THEN [stack |-> <<>>, order |-> <<>>, cycle |-> FALSE, next |-> 1]
                        ELSE VisitTurn(g, names, s[k - 1])
    IN  s
Visited(g, names) ==    \* every name is started once, every node looks at each edge and is left
    Visit(g, names)[Len(names) * (Len(g.edges) + 2)]

BuildArtifactGraph(deps, root, maxDepth, names) ==
    LET found == Collected(deps, root, maxDepth)
        done == Visited(found, names)
    IN [artifacts |-> done.order, edges |-> found.edges, cycle |-> done.cycle]

-------------------------------------------------------------------------------
(* Who imports from the changed artifact, directly or not.                  *)
Import(s, e, u) ==
    IF e.to # u \/ e.from \in s.seen THEN s
    ELSE [seen |-> s.seen \cup {e.from}, stack |-> Append(s.stack, e.from)]
Importing(edges, rest, u) ==
    LET r[i \in Nat] == IF i = 0 THEN rest ELSE Import(r[i - 1], edges[i], u)
    IN  r
AffectTurn(edges, s) ==
    IF s.stack = <<>> THEN s
    ELSE Importing(edges, [s EXCEPT !.stack = Popped(@)], Top(s.stack))[Len(edges)]
Affect(edges, changed) ==
    LET s[k \in Nat] == IF k = 0 THEN [seen |-> {}, stack |-> <<changed>>] ELSE AffectTurn(edges, s[k - 1])
    IN  s
AffectedArtifacts(g, changed) == Affect(g.edges, changed)[Len(g.edges) + 1].seen

GraphStep ==
    /\ Asked("graph")
    /\ LET g == BuildArtifactGraph(StoredDeps(call.deps), call.root, call.depth, call.names)
       IN Return([g |-> g, affected |-> [c \in Range(call.names) |-> AffectedArtifacts(g, c)]])

-------------------------------------------------------------------------------
Edges == {<<call.deps[i].from, call.deps[i].to>> : i \in DOMAIN call.deps}
Artifacts == {call.root} \cup {e[2] : e \in Edges}
ClosedSet(S) == \A e \in Edges : e[1] \in S => e[2] \in S
Reached == {a \in Artifacts : \A S \in SUBSET Artifacts : call.root \in S /\ ClosedSet(S) => a \in S}
NeedsOf(a) ==           \* what a imports from, directly or not
    {b \in Artifacts : \A S \in SUBSET Artifacts :
        (\A e \in Edges : e[1] = a => e[2] \in S) /\ ClosedSet(S) => b \in S}
WalkEnds ==             \* the ends of the walks of n edges from the root
    LET ends[n \in Nat] == IF n = 0 THEN {call.root} ELSE {e[2] : e \in {e \in Edges : e[1] \in ends[n - 1]}}
    IN  ends
DepthCoversAll == call.depth >= Cardinality(Reached) \/ WalkEnds[call.depth + 1] = {}

(* Nothing that depends on a change is forgotten: where the depth covers    *)
(* every path from the root, the affected artifacts are exactly those       *)
(* reachable that import from the changed one, a cycle is reported exactly  *)
(* when there is one, and without one everything is ordered after what it   *)
(* imports.  With a longer path the search can meet a node deep before it   *)
(* meets it near, and does not go on from it: the set may be too small.     *)
NothingAffectedIsForgotten ==
    Got("graph") /\ DepthCoversAll =>
        LET g == answer.value.g
            needs == [a \in Reached |-> NeedsOf(a)]
            at(a) == CHOOSE i \in DOMAIN g.artifacts : g.artifacts[i] = a
        IN /\ \A c \in Reached : answer.value.affected[c] = {a \in Reached : c \in needs[a]}
           /\ Range(g.artifacts) = Reached
           /\ g.cycle = \E a \in Reached : a \in needs[a]
           /\ ~g.cycle => \A a \in Reached : \A b \in needs[a] : at(b) < at(a)
===============================================================================
