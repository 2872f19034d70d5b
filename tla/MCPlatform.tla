------------------------------ MODULE MCPlatform ------------------------------
(***************************************************************************)
(* Four machines around the service that share no state: the server's      *)
(* threads, the cache of evaluations, the SQL client, and the registry.    *)
(* Each behaviour is one of one of them, the others rest where they start. *)
(***************************************************************************)
EXTENDS HttpServer, EvalCache, SqlStore, Registry

VARIABLE machine
pvars == <<machine, hvars, ecvars, svars, rvars>>

-------------------------------------------------------------------------------
(* Clients: three connections of which two workers serve two at a time.     *)
MCConns == 1..3
MCClients ==
    {<<"whole", "whole", "whole">>, <<"whole", "whole", "stalls">>, <<"whole", "options", "silent">>,
     <<"whole", "leaves", "stalls">>, <<"whole", "leaves", "leaves">>, <<"whole", "throws", "leaves">>,
     <<"whole", "silent", "stalls">>}

(* Boxes of which two look the same to the fingerprint. *)
MCBoxes == {[x |-> 0], [x |-> 1], [x |-> 2, y |-> 5]}

(* Three contents, two of them with the same model, under two names.        *)
MCExt == [report |-> "xlsx", table |-> "csv"]
MCOpens == {<<"p", "xlsx">>, <<"q", "xlsx">>, <<"q", "csv">>, <<"s", "csv">>}
MCModelOf == [p |-> "m", q |-> "m", s |-> "n"]
Formula(reasons) == [kind |-> "formula", reasons |-> reasons]
MCCellsOf ==
    [p |-> <<Formula({}), Formula({"external_ref"}), [kind |-> "constant"]>>,
     q |-> <<Formula({"external_ref", "parse_error"}), [kind |-> "text"], [kind |-> "none"]>>,
     s |-> [i \in 1..11 |-> Formula(IF i = 1 THEN {"parse_error"} ELSE {})]]

-------------------------------------------------------------------------------
Is(m) == machine = m
Init ==
    /\ machine \in {"server", "cache", "sql", "registry"}
    /\ Quiet /\ CInit /\ SInit /\ RInit
    /\ up = Is("server")
    /\ kind \in IF Is("server") THEN Clients ELSE {<<"whole", "whole", "whole">>}
    /\ ~Is("cache") => limit = 0
    /\ ~Is("sql") => log = <<>> /\ \A k \in Sessions : wire[k] = Halves(<<Other, Ready>>)
Next ==
    /\ UNCHANGED machine
    /\ \/ Is("server") /\ HNext /\ UNCHANGED <<ecvars, svars, rvars>>
       \/ Is("cache") /\ CNext /\ UNCHANGED <<hvars, svars, rvars>>
       \/ Is("sql") /\ SNext /\ UNCHANGED <<hvars, ecvars, rvars>>
       \/ Is("registry") /\ RNext /\ UNCHANGED <<hvars, ecvars, svars>>
Spec == Init /\ [][Next]_pvars /\ HFairness

===============================================================================
