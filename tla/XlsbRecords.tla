------------------------------ MODULE XlsbRecords ------------------------------
(***************************************************************************)
(* The records of a part of a binary workbook (extractor/xlsb): cut from   *)
(* the whole part (read_records) or from a buffer to which it arrives in   *)
(* chunks (RecAsm).  A record is an id of one or two bytes, a size of up   *)
(* to four groups of seven bits, and the data.  Places count from 1.       *)
(***************************************************************************)
EXTENDS Calls, Integers, Sequences

CONSTANT Compact    \* stands for the 2^20 bytes after which RecAsm drops what it has read
ASSUME CompactAssumption == Compact \in Nat

More(b) == b >= 128     \* the bit that says the number goes on
Low(b) == b % 128

(* A byte of the size, unless it has ended or the bytes have.               *)
Group(s, bs, weight) ==
    IF s.ended \/ s.next > Len(bs) THEN s
    ELSE [size |-> s.size + weight * Low(bs[s.next]), next |-> s.next + 1, ended |-> ~More(bs[s.next])]
SizeAt(bs, k) ==
    LET start == [size |-> 0, next |-> k, ended |-> FALSE]
    IN Group(Group(Group(Group(start, bs, 1), bs, 128), bs, 128 * 128), bs, 128 * 128 * 128)

HasId(bs, i) == i <= Len(bs) /\ (More(bs[i]) => i < Len(bs))
IdAt(bs, i) == IF More(bs[i]) THEN Low(bs[i]) + 128 * bs[i + 1] ELSE bs[i]
AfterId(bs, i) == IF More(bs[i]) THEN i + 2 ELSE i + 1
Rec(id, bs, from, size) == [id |-> id, data |-> SubSeq(bs, from, from + size - 1)]

-------------------------------------------------------------------------------
(* One turn of either loop over the records: the one behind the head of the *)
(* buffer is cut off if it is there.  read_records also takes a size of     *)
(* which the end is missing.                                                *)
Cut(a, atOnce) ==
    LET bs == a.buf
        i == a.head + 1
        s == SizeAt(bs, AfterId(bs, i))
    IN  IF HasId(bs, i) /\ (s.ended \/ atOnce) /\ s.next + s.size - 1 <= Len(bs)
        THEN [a EXCEPT !.out = Append(@, Rec(IdAt(bs, i), bs, s.next, s.size)),
                       !.head = s.next + s.size - 1]
        ELSE a

(* A turn that cuts takes a byte at least, and after one that does not      *)
(* nothing changes: there are no more turns that count than bytes.          *)
Turns(a, atOnce) == LET turn[n \in Nat] == IF n = 0 THEN a ELSE Cut(turn[n - 1], atOnce) IN turn
Parsed(a, atOnce) == Turns(a, atOnce)[Len(a.buf)]

Fresh(bs) == [buf |-> bs, head |-> 0, out |-> <<>>]
ReadRecords(bs) == Parsed(Fresh(bs), TRUE).out

(* Mutant: the bytes are dropped but the head stays where it was. *)
Dropped_HeadStays(a) ==
    IF a.head > Compact THEN [a EXCEPT !.buf = SubSeq(@, a.head + 1, Len(@))] ELSE a

Dropped(a) ==
    IF a.head > Compact THEN [a EXCEPT !.buf = SubSeq(@, a.head + 1, Len(@)), !.head = 0] ELSE a
Feed(a, chunk) == Dropped(Parsed([a EXCEPT !.buf = @ \o chunk], FALSE))
Fed(chunks) == LET a[n \in Nat] == IF n = 0 THEN Fresh(<<>>) ELSE Feed(a[n - 1], chunks[n]) IN a
Streamed(chunks) == Fed(chunks)[Len(chunks)].out

(* The first so many parts, joined.                                         *)
Joint(parts) == LET upto[n \in Nat] == IF n = 0 THEN <<>> ELSE upto[n - 1] \o parts[n] IN upto

RecordsStep ==
    /\ Asked("records")
    /\ Return([batch |-> ReadRecords(Joint(call.chunks)[Len(call.chunks)]), stream |-> Streamed(call.chunks)])

-------------------------------------------------------------------------------
(* Whatever the chunks, the stream yields the records that are complete; a  *)
(* part read at once gives the same, and perhaps a last empty record where  *)
(* the part was cut before the end of a size (xlsb.cpp:68-92, 264-310).     *)
EncodeRec(r) == r.id \o r.size \o r.data
Encoded(recs) == [i \in 1..Len(recs) |-> EncodeRec(recs[i])]
Decoded(recs, m) == [i \in 1..m |-> [id |-> IdAt(recs[i].id, 1), data |-> recs[i].data]]

StreamIsWhole ==
    Got("records") =>
        LET upto == Joint(Encoded(call.wrote))
            arrived == Len(Joint(call.chunks)[Len(call.chunks)])
            batch == answer.value.batch
        IN \E m \in 0..Len(call.wrote) :
            /\ Len(upto[m]) <= arrived
            /\ m < Len(call.wrote) => arrived < Len(upto[m + 1])
            /\ answer.value.stream = Decoded(call.wrote, m)
            /\ \/ batch = Decoded(call.wrote, m)
               \/ /\ Len(batch) = m + 1
                  /\ SubSeq(batch, 1, m) = Decoded(call.wrote, m)
                  /\ batch[m + 1].data = <<>>
===============================================================================
