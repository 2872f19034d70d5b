-------------------------------- MODULE SqlStore ------------------------------
(***************************************************************************)
(* The documents and logs of db/sqlstore.cpp in a PostgreSQL server: every  *)
(* call sends one statement (parse, bind, describe, execute, sync) and      *)
(* reads messages from the socket until the server is ready for the next.   *)
(* Messages arrive in pieces of any size; here each is of two halves.       *)
(*                                                                         *)
(* The server is external: it runs one statement of a connection at a time, *)
(* atomically but for the position an append computes before it inserts,    *)
(* and refuses a position that is taken.                                    *)
(***************************************************************************)
EXTENDS Containers

CONSTANTS
    Sessions,    \* connections
    Ids, Bodies, \* documents
    MaxChunk,   \* halves that arrive together
    MaxOlder,   \* bound on the entries of the log from earlier
    MaxCalls    \* bound on the calls of all connections

ASSUME BoundsAssumption == MaxChunk \in Nat \ {0} /\ {MaxOlder, MaxCalls} \subseteq Nat

VARIABLES
    pc, stmt, calls,    \* the client: where it is, its statement, calls so far
    rows, result,       \* rows read so far, and what the call returned
    buf,                \* buf of exec: halves received and not yet parsed
    wire,               \* halves the server has sent and the client not received
    server,             \* what the server does for a connection
    documents, log,     \* the tables
    sentRows,           \* the rows the server sent for the statement
    clean               \* no call of the connection gave up before its reply was complete

svars == <<pc, stmt, calls, rows, result, buf, wire, server, documents, log, sentRows, clean>>

-------------------------------------------------------------------------------
(* Messages, in halves. *)
Row(v) == [type |-> "D", row |-> v]
Ready == [type |-> "Z"]
Error == [type |-> "E"]
Other == [type |-> "1"]     \* ParseComplete, BindComplete, RowDescription, CommandComplete, ...
Halves(msgs) == [i \in 1..(2 * Len(msgs)) |-> <<msgs[(i + 1) \div 2], 2 - (i % 2)>>]

(* pg_read_msg: the messages that are complete, and how many halves they    *)
(* are of.                                                                  *)
Whole(b) == Len(b) \div 2
Messages(b) == [i \in 1..Whole(b) |-> b[2 * i][1]]
RowsIn(msgs) ==
    LET ds == At(msgs, {i \in DOMAIN msgs : msgs[i].type = "D"}) IN [i \in DOMAIN ds |-> ds[i].row]
UpTo(msgs, type) ==
    LET ends == {i \in DOMAIN msgs : msgs[i].type = type}
    IN  IF ends = {} THEN msgs ELSE SubSeq(msgs, 1, Min(ends))
Has(msgs, type) == \E i \in DOMAIN msgs : msgs[i].type = type

SInit ==
    /\ pc = [k \in Sessions |-> "start"] /\ stmt = [k \in Sessions |-> <<>>]
    /\ calls = [k \in Sessions |-> 0]
    /\ rows = [k \in Sessions |-> <<>>] /\ result = [k \in Sessions |-> <<>>]
    /\ buf = [k \in Sessions |-> <<>>]
    /\ wire \in [Sessions -> {Halves(<<Other, Ready>>), Halves(<<Other, Error>>)}]
    /\ server = [k \in Sessions |-> "idle"]
    /\ documents = <<>> /\ log \in UNION {[0..(n - 1) -> Bodies] : n \in 0..MaxOlder}
    /\ sentRows = [k \in Sessions |-> <<>>] /\ clean = [k \in Sessions |-> TRUE]

Set(f, k, v) == [f EXCEPT ![k] = v]
Chunk(k, n) == SubSeq(wire[k], 1, n)
Received(k, n) == wire' = Set(wire, k, SubSeq(wire[k], n + 1, Len(wire[k])))
Chunks(k) == {n \in 1..MaxChunk : n <= Len(wire[k])}

(* startup reads its buffer from the beginning after every piece.           *)
Startup(k) ==
    /\ pc[k] = "start"
    /\ \E n \in Chunks(k) :
          LET b == buf[k] \o Chunk(k, n)
              msgs == Messages(b)
          IN  /\ Received(k, n)
              /\ pc' = Set(pc, k, IF Has(msgs, "Z") THEN "ready" ELSE IF Has(msgs, "E") THEN "refused" ELSE "start")
              /\ buf' = Set(buf, k, b)
    /\ UNCHANGED <<stmt, calls, rows, result, server, documents, log, sentRows, clean>>

Statements ==
    {[do |-> "put", id |-> i, body |-> b] : i \in Ids, b \in Bodies}
    \cup {[do |-> "get", id |-> i] : i \in Ids}
    \cup {[do |-> "list"], [do |-> "append", body |-> CHOOSE b \in Bodies : TRUE], [do |-> "read_log"]}

(* exec: the statement is sent; the buffer is new.                          *)
Call(k, s) ==
    /\ pc[k] = "ready" /\ MapThenSumSet(LAMBDA j : calls[j], Sessions) < MaxCalls /\ server[k] = "idle"
    /\ stmt' = Set(stmt, k, s) /\ calls' = Set(calls, k, calls[k] + 1)
    /\ rows' = Set(rows, k, <<>>) /\ buf' = Set(buf, k, <<>>)
    /\ pc' = Set(pc, k, "recv") /\ server' = Set(server, k, "asked")
    /\ sentRows' = Set(sentRows, k, <<>>)
    /\ UNCHANGED <<result, wire, documents, log, clean>>

(* Mutant: what was parsed stays in the buffer. *)
Unparsed_All(b) == b

Unparsed(b) == SubSeq(b, 2 * Whole(b) + 1, Len(b))

(* What a call makes of its rows: put and append return true whatever the   *)
(* server said, get looks at the first row, list and read_log at all.       *)
Returned(s, rs) ==
    IF s.do \in {"put", "append"} THEN <<>>
    ELSE IF s.do = "get" /\ rs # <<>> THEN <<rs[1]>>
    ELSE rs

Receive(k) ==
    /\ pc[k] = "recv"
    /\ \E n \in Chunks(k) :
          LET b == buf[k] \o Chunk(k, n)
              msgs == UpTo(Messages(b), "Z")
              got == rows[k] \o RowsIn(msgs)
          IN  /\ Received(k, n)
              /\ rows' = Set(rows, k, got)
              /\ buf' = Set(buf, k, Unparsed(b))
              /\ IF Has(msgs, "Z")
                 THEN pc' = Set(pc, k, "ready") /\ result' = Set(result, k, Returned(stmt[k], got))
                 ELSE UNCHANGED <<pc, result>>
    /\ UNCHANGED <<stmt, calls, server, documents, log, sentRows, clean>>

(* recv fails: the call returns the rows it has, and the rest of the reply  *)
(* stays in the socket.                                                     *)
RecvFails(k) ==
    /\ pc[k] = "recv"
    /\ pc' = Set(pc, k, "ready") /\ result' = Set(result, k, Returned(stmt[k], rows[k]))
    /\ clean' = Set(clean, k, FALSE)
    /\ UNCHANGED <<stmt, calls, rows, buf, wire, server, documents, log, sentRows>>

-------------------------------------------------------------------------------
(* The statements, as the server runs them. *)
Answer(k, rs) ==
    /\ sentRows' = Set(sentRows, k, rs)
    /\ wire' = Set(wire, k, wire[k] \o Halves(<<Other>> \o [i \in DOMAIN rs |-> Row(rs[i])] \o <<Ready>>))
    /\ server' = Set(server, k, "idle")
    /\ UNCHANGED <<pc, stmt, calls, rows, result, buf, clean>>
Refuse(k) ==
    /\ wire' = Set(wire, k, wire[k] \o Halves(<<Error, Ready>>))
    /\ server' = Set(server, k, "idle")
    /\ UNCHANGED <<pc, stmt, calls, rows, result, buf, clean, documents, log, sentRows>>
RunPut(k) ==
    /\ server[k] = "asked" /\ stmt[k].do = "put"
    /\ documents' = Assoc(documents, stmt[k].id, stmt[k].body)
    /\ Answer(k, <<>>) /\ UNCHANGED log
RunQuery(k) ==
    /\ server[k] = "asked" /\ stmt[k].do \in {"get", "list", "read_log"}
    /\ Answer(k, IF stmt[k].do = "list" THEN InOrder(DOMAIN documents)
                 ELSE IF stmt[k].do = "read_log" THEN At(log, DOMAIN log)
                 ELSE IF stmt[k].id \in DOMAIN documents THEN <<documents[stmt[k].id]>> ELSE <<>>)
    /\ UNCHANGED <<documents, log>>

(* COALESCE(MAX(seq), -1) + 1 *)
NextSeq(l) == Max({-1} \cup DOMAIN l) + 1
RunSelectMax(k) ==
    /\ server[k] = "asked" /\ stmt[k].do = "append"
    /\ server' = Set(server, k, "insert")
    /\ stmt' = [stmt EXCEPT ![k] = [do |-> "append", body |-> @.body, seq |-> NextSeq(log)]]
    /\ UNCHANGED <<pc, calls, rows, result, buf, wire, documents, log, sentRows, clean>>
RunInsert(k) ==
    /\ server[k] = "insert"
    /\ IF stmt[k].seq \in DOMAIN log
       THEN Refuse(k)
       ELSE /\ log' = Assoc(log, stmt[k].seq, stmt[k].body)
            /\ Answer(k, <<>>) /\ UNCHANGED documents

ServerStep(k) == RunPut(k) \/ RunQuery(k) \/ RunSelectMax(k) \/ RunInsert(k)
SNext == \E k \in Sessions :
    Startup(k) \/ (\E s \in Statements : Call(k, s)) \/ Receive(k) \/ RecvFails(k) \/ ServerStep(k)
SSpec == SInit /\ [][SNext]_svars

-------------------------------------------------------------------------------
(* The rows of a call are the rows the server sent for its statement, each  *)
(* once and in order, however the messages are cut and joined on the way,   *)
(* on a connection none of whose calls gave up early (sqlstore.cpp:79-95).  *)
(* After one did, the next call may read the rest of the earlier reply.     *)
RowsAreTheAnswer ==
    \A k \in Sessions :
        (clean[k] /\ pc[k] = "ready" /\ calls[k] > 0) =>
            rows[k] = sentRows[k] /\ result[k] = Returned(stmt[k], sentRows[k])

===============================================================================
