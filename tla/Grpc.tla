---------------------------------- MODULE Grpc --------------------------------
(***************************************************************************)
(* A remote call: the client frames a protobuf message, the server takes   *)
(* it apart, calls the service, and frames the reply and a trailer         *)
(* (api/grpc.cpp, api/protobuf.cpp).  Bytes are numbers; a text is a       *)
(* sequence of bytes, and so is a double, cut to DoubleBytes of its eight. *)
(* The client, which writes fields in any order and leaves out defaults,   *)
(* is external, as is the service.                                         *)
(***************************************************************************)
EXTENDS Calls, Integers, Sequences

CONSTANT DoubleBytes
ASSUME DoubleBytesAssumption == DoubleBytes \in Nat

-------------------------------------------------------------------------------
(* PbWriter.  What is written is a sequence of fields.                      *)
Num(n, v) == [field |-> n, wire |-> 0, v |-> v]
Bool(n, b) == Num(n, IF b THEN 1 ELSE 0)
Dbl(n, bits) == [field |-> n, wire |-> 1, v |-> bits]
Str(n, s) == [field |-> n, wire |-> 2, v |-> s]

(* raw_varint: a group of seven bits, unless it is the last.  A number has  *)
(* 64 bits, so there are at most ten groups.                                *)
Emit(s) ==
    IF s.rest < 128 THEN s
    ELSE [out |-> Append(s.out, (s.rest % 128) + 128), rest |-> s.rest \div 128]
Emitted(v) ==
    LET turn[n \in Nat] == IF n = 0 THEN [out |-> <<>>, rest |-> v] ELSE Emit(turn[n - 1]) IN turn

(* Mutant: the rest is halved once too often. *)
RawVarint_Eight(v) == IF v < 128 THEN <<v>> ELSE <<(v % 128) + 128, (v \div 256) % 128>>

RawVarint(v) == LET end == Emitted(v)[9] IN Append(end.out, end.rest)
WriteKey(f) == RawVarint(8 * f.field + f.wire)
LenPrefixed(bytes) == RawVarint(Len(bytes)) \o bytes
WriteField(f) ==
    WriteKey(f) \o (CASE f.wire = 0 -> RawVarint(f.v)
                      [] f.wire \in {1, 5} -> f.v      \* 5 only from clients
                      [] f.wire = 2 -> LenPrefixed(f.v))
Buffer(fields) ==
    LET upto[n \in Nat] == IF n = 0 THEN <<>> ELSE upto[n - 1] \o WriteField(fields[n]) IN upto
Written(fields) == Buffer(fields)[Len(fields)]
Message(n, fields) == Str(n, Written(fields))

(* PbReader: a number ends at a byte without the high bit, at the end of    *)
(* the text, or after ten bytes; what is cut off is taken as it is.         *)
AddGroup(s, bs) ==
    IF s.ended \/ s.next > Len(bs) THEN s
    ELSE [v |-> s.v + s.weight * (bs[s.next] % 128), weight |-> 128 * s.weight,
          next |-> s.next + 1, ended |-> bs[s.next] < 128]
Groups(bs, i) ==
    LET turn[n \in Nat] == IF n = 0 THEN [v |-> 0, weight |-> 1, next |-> i, ended |-> FALSE]
                           ELSE AddGroup(turn[n - 1], bs)
    IN  turn
VarintAt(bs, i) == Groups(bs, i)[10]
UpToEnd(bs, i, n) == IF i + n - 1 > Len(bs) THEN Len(bs) ELSE i + n - 1
NextField(bs, i) ==
    LET k == VarintAt(bs, i)
        n == VarintAt(bs, k.next)
        wire == k.v % 8
        field(v, next) == [more |-> TRUE, field |-> [field |-> k.v \div 8, wire |-> wire, v |-> v], next |-> next]
        taken(from, size) == field(SubSeq(bs, from, UpToEnd(bs, from, size)), UpToEnd(bs, from, size) + 1)
    IN  IF i > Len(bs) \/ wire \notin {0, 1, 2, 5} THEN [more |-> FALSE]
        ELSE CASE wire = 0 -> field(n.v, n.next)
               [] wire = 1 -> taken(k.next, DoubleBytes)
               [] wire = 2 -> taken(n.next, n.v)
               [] wire = 5 -> taken(k.next, 4)

(* The loop of the handlers.  A field takes a byte at least.                *)
Take(s, bs) ==
    LET r == NextField(bs, s.next) IN
    IF s.more /\ r.more THEN [out |-> Append(s.out, r.field), next |-> r.next, more |-> TRUE]
    ELSE [out |-> s.out, next |-> s.next, more |-> FALSE]
Taken(bs) ==
    LET turn[n \in Nat] == IF n = 0 THEN [out |-> <<>>, next |-> 1, more |-> TRUE] ELSE Take(turn[n - 1], bs) IN turn
FieldsIn(bs) ==
    LET turn == Taken(bs) IN turn[CHOOSE n \in 1..(Len(bs) + 1) : ~turn[n].more].out

-------------------------------------------------------------------------------
(* Frames: a flag, four bytes of length, the message.                       *)
PutBe32(n) ==
    LET a == n \div 256
        b == a \div 256
    IN  <<(b \div 256) % 256, b % 256, a % 256, n % 256>>
Be32(bs, at) == ((bs[at] * 256 + bs[at + 1]) * 256 + bs[at + 2]) * 256 + bs[at + 3]
Frame(flag, bytes) == <<flag>> \o PutBe32(Len(bytes)) \o bytes
Unframe(body) ==
    IF Len(body) < 5 \/ 5 + Be32(body, 2) > Len(body) THEN [ok |-> FALSE]
    ELSE [ok |-> TRUE, msg |-> SubSeq(body, 6, 5 + Be32(body, 2))]
Trailer(status) == <<status>>       \* "grpc-status:" and the number
GrpcResponse(reply, status) == Frame(0, reply) \o Frame(128, Trailer(status))

(* The fields of a request by name; the last one written is taken.          *)
Unnamed == <<46>>                   \* "upload.bin"
FivePercent == [k \in 1..DoubleBytes |-> k]
SoFar(fields, n, default) ==
    LET v[k \in Nat] == IF k = 0 THEN default ELSE IF fields[k].field = n THEN fields[k].v ELSE v[k - 1] IN v
Param(fields, n, default) == SoFar(fields, n, default)[Len(fields)]
Params(method, fields) ==
    LET id == Param(fields, 1, <<>>) IN
    CASE method = "Upload" -> [name |-> IF id = <<>> THEN Unnamed ELSE id,
                               mime |-> Param(fields, 2, <<>>), content |-> Param(fields, 3, <<>>)]
      [] method = "Verify" -> [id |-> id, rel |-> Param(fields, 2, FivePercent)]
      [] OTHER -> [id |-> id]

(* write_target *)
TargetFields(t) ==
    <<Str(1, t.cell), Str(2, t.label), Str(3, t.verdict)>>
    \o (IF Len(t.ms) = 2 THEN <<Dbl(4, t.ms[1]), Dbl(5, t.ms[2])>> ELSE <<>>)
    \o <<Str(6, t.method), Num(7, t.holes), Str(8, t.cert), Bool(9, t.valid)>>
NodeFields(n) == <<Str(1, n.id), Str(2, n.label), Bool(3, n.input), Bool(4, n.ambiguous)>>
EdgeFields(e) == <<Str(1, e.from), Str(2, e.to), Str(3, e.origin)>>
LinkFields(e) == <<Str(1, e.from), Str(2, e.to), Str(3, e.rel)>>
EntryFields(e) == <<Num(1, e.seq), Str(2, e.type), Str(3, e.subject), Str(4, e.prev)>>
Each(n, items, Fields(_)) == [i \in 1..Len(items) |-> Message(n, Fields(items[i]))]

(* What the service returned, written by the method; a is Absent when the   *)
(* service knows nothing of the id.                                         *)
Absent == [ok |-> FALSE]
Reply(method, a) ==
    CASE method = "Upload"  -> <<Str(1, a.id), Num(2, a.size)>>
      [] method = "Analyze" ->
            IF ~a.ok THEN <<Bool(1, FALSE)>>
            ELSE <<Bool(1, TRUE), Str(2, a.model), Str(3, a.format), Num(4, a.nodes), Num(5, a.edges),
                   Bool(6, a.consistent), Bool(7, a.obstructed)>>
      [] method = "Verify"  ->
            IF a = Absent THEN <<Bool(1, FALSE)>>
            ELSE <<Bool(1, a.ok), Str(2, a.run)>> \o Each(3, a.targets, TargetFields)
      [] method = "GetCertificate" ->
            IF a = Absent THEN <<>>
            ELSE <<Str(1, a.id), Str(2, a.artifact), Bool(3, a.chainOk)>> \o Each(4, a.targets, TargetFields)
      [] method = "GetArtifact" ->
            IF a = Absent THEN <<>> ELSE <<Str(1, a.id), Str(2, a.name), Str(3, a.hash), Num(4, a.size)>>
      [] method = "GetGraph" ->
            IF ~a.ok THEN <<>>
            ELSE Each(1, a.nodes, NodeFields) \o Each(2, a.edges, EdgeFields)
      [] method = "Provenance" ->
            IF a = Absent THEN <<>>
            ELSE Each(1, a.links, LinkFields)
      [] method = "AuditHistory" ->
            <<Bool(1, a.chainOk)>> \o Each(2, a.entries, EntryFields)
Methods == {"Upload", "Analyze", "Verify", "GetCertificate", "GetArtifact", "GetGraph", "Provenance", "AuditHistory"}

(* The handler of the route and Grpc::dispatch: what the service is asked,  *)
(* and the body that goes back.                                             *)
RpcStep ==
    /\ Asked("rpc")
    /\ LET frame == Unframe(Frame(0, Written(call.fields)))
           known == call.method \in Methods
           fields == FieldsIn(frame.msg)
       IN Return([asked |-> IF known THEN Params(call.method, fields) ELSE <<>>,
                  body |-> IF known THEN GrpcResponse(Written(Reply(call.method, call.returns)), 0)
                           ELSE GrpcResponse(<<>>, 12)])

-------------------------------------------------------------------------------
(* What reaches the service is what the client meant, whatever the order of *)
(* its fields and whatever it wrote that the server does not know, and what *)
(* it returned can be read off the reply, down to the fields of targets,    *)
(* edges and entries, with the status behind it (grpc.cpp:42-204).  A       *)
(* deviation of zero, which a client leaves out, reaches it as 5%.          *)
Meant(method, fields) ==
    LET last(n, default) ==
            LET at == {i \in DOMAIN fields : fields[i].field = n}
            IN  IF at = {} THEN default ELSE fields[CHOOSE i \in at : \A j \in at : j <= i].v
    IN CASE method = "Upload" -> [name |-> IF last(1, <<>>) = <<>> THEN Unnamed ELSE last(1, <<>>),
                                  mime |-> last(2, <<>>), content |-> last(3, <<>>)]
         [] method = "Verify" -> [id |-> last(1, <<>>), rel |-> last(2, FivePercent)]
         [] OTHER -> [id |-> last(1, <<>>)]
MessagesIn(method) ==
    CASE method = "Verify" -> {3}
      [] method = "GetCertificate" -> {4}
      [] method = "GetGraph" -> {1, 2}
      [] method = "Provenance" -> {1}
      [] method = "AuditHistory" -> {2}
      [] OTHER -> {}
RpcSurvives ==
    Got("rpc") =>
        LET body == answer.value.body
            reply == Unframe(body)
            rest == Unframe(SubSeq(body, 6 + Len(reply.msg), Len(body)))
            got == FieldsIn(reply.msg)
        IN  IF call.method \notin Methods THEN reply.msg = <<>> /\ rest.msg = Trailer(12)
            ELSE /\ answer.value.asked = Meant(call.method, call.fields)
                 /\ got = Reply(call.method, call.returns)
                 /\ rest.msg = Trailer(0)
                 /\ \A i \in DOMAIN got :
                      got[i].field \in MessagesIn(call.method) => Written(FieldsIn(got[i].v)) = got[i].v
===============================================================================
