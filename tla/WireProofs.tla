------------------------------ MODULE WireProofs ------------------------------
(***************************************************************************)
(* Proofs about what is written as bytes and read back, in messages of any *)
(* size: the records of a binary workbook, which come in chunks, and the   *)
(* frames and fields of a remote call.                                     *)
(***************************************************************************)
EXTENDS AlgorithmsProofs

-------------------------------------------------------------------------------
(* The loop over records, the stream and the joining of parts.            *)
LEMMA TurnsAre ==
    ASSUME NEW a, NEW atOnce
    PROVE  Turns(a, atOnce)[0] = a /\ \A k \in Nat : Turns(a, atOnce)[k + 1] = Cut(Turns(a, atOnce)[k], atOnce)
<1> DEFINE p == [does |-> "cut", path |-> atOnce]
           f == Turns(a, atOnce)
<1>1. p.does = "cut" /\ p.path = atOnce
    OBVIOUS
<1> HIDE DEF p
<1>2. \A k, x : Turn(p, k, x) = Cut(x, atOnce)
    BY <1>1 DEF Turn
<1>3. f = CHOOSE g : g = [k \in Nat |-> IF k = 0 THEN a ELSE Cut(g[k - 1], atOnce)]
    BY DEF Turns
<1>4. f = CHOOSE g : Recursion(g, p, a)
    BY <1>2, <1>3 DEF Recursion
<1> HIDE DEF f
<1>5. Turned(f, p, a)
    BY <1>4, Chosen
<1> QED BY <1>2, <1>5 DEF Turned, f

(* The buffer after each chunk.                                             *)
LEMMA FedAre ==
    ASSUME NEW chunks
    PROVE  Fed(chunks)[0] = Fresh(<<>>) /\ \A k \in Nat : Fed(chunks)[k + 1] = Feed(Fed(chunks)[k], chunks[k + 1])
<1> DEFINE p == [does |-> "feed", path |-> chunks]
           f == Fed(chunks)
<1>1. p.does = "feed" /\ p.path = chunks
    OBVIOUS
<1> HIDE DEF p
<1>2. \A k, x : Turn(p, k, x) = Feed(x, chunks[k])
    BY <1>1 DEF Turn
<1>3. f = CHOOSE g : g = [k \in Nat |-> IF k = 0 THEN Fresh(<<>>) ELSE Feed(g[k - 1], chunks[k])]
    BY DEF Fed
<1>4. f = CHOOSE g : Recursion(g, p, Fresh(<<>>))
    BY <1>2, <1>3 DEF Recursion
<1> HIDE DEF f
<1>5. Turned(f, p, Fresh(<<>>))
    BY <1>4, Chosen
<1> QED BY <1>2, <1>5 DEF Turned, f

(* The first so many parts, joined.                                         *)
LEMMA JointIs ==
    ASSUME NEW parts
    PROVE  Joint(parts)[0] = <<>> /\ \A k \in Nat : Joint(parts)[k + 1] = Joint(parts)[k] \o parts[k + 1]
<1> DEFINE p == [does |-> "join", path |-> parts]
           f == Joint(parts)
<1>1. p.does = "join" /\ p.path = parts
    OBVIOUS
<1> HIDE DEF p
<1>2. \A k, x : Turn(p, k, x) = Appended(x, parts[k])
    BY <1>1 DEF Turn
<1>3. f = CHOOSE g : g = [k \in Nat |-> IF k = 0 THEN <<>> ELSE Appended(g[k - 1], parts[k])]
    BY DEF Joint, Appended
<1>4. f = CHOOSE g : Recursion(g, p, <<>>)
    BY <1>2, <1>3 DEF Recursion
<1> HIDE DEF f
<1>5. Turned(f, p, <<>>)
    BY <1>4, Chosen
<1> QED BY <1>2, <1>5 DEF Turned, f, Appended

-------------------------------------------------------------------------------
(* A part as its writer wrote it: ids of one or two bytes, sizes of up to   *)
(* four groups, perhaps with leading zeros, and as many bytes of data.      *)
Byte == 0..255
Ids == {id \in Seq(Byte) : \/ Len(id) = 1 /\ ~More(id[1])
                           \/ Len(id) = 2 /\ More(id[1])}
Sizes == {z \in Seq(Byte) : Len(z) \in 1..4 /\ \A q \in 1..Len(z) : More(z[q]) <=> q < Len(z)}
FirstGroups(z, t) ==
    (IF t >= 1 THEN Low(z[1]) ELSE 0) + (IF t >= 2 THEN 128 * Low(z[2]) ELSE 0)
    + (IF t >= 3 THEN (128 * 128) * Low(z[3]) ELSE 0) + (IF t >= 4 THEN (128 * 128 * 128) * Low(z[4]) ELSE 0)
WrittenRec == {r \in [id : Ids, size : Sizes, data : Seq(Byte)] : FirstGroups(r.size, Len(r.size)) = Len(r.data)}

(* The low bits of a byte are a number.                                     *)
LEMMA LowIs == \A b \in Byte : Low(b) \in Nat
BY DEF Byte, Low

(* Products of naturals are naturals.                                       *)
LEMMA TimesIsNat == \A a, b \in Nat : a * b \in Nat
OBVIOUS

(* Each group of a size adds its seven bits at their weight.                *)
LEMMA FirstGroupsAre ==
    ASSUME NEW z \in Sizes
    PROVE  /\ FirstGroups(z, 0) = 0
           /\ FirstGroups(z, 1) = FirstGroups(z, 0) + 1 * Low(z[1])
           /\ Len(z) >= 2 => FirstGroups(z, 2) = FirstGroups(z, 1) + 128 * Low(z[2])
           /\ Len(z) >= 3 => FirstGroups(z, 3) = FirstGroups(z, 2) + (128 * 128) * Low(z[3])
           /\ Len(z) >= 4 => FirstGroups(z, 4) = FirstGroups(z, 3) + (128 * 128 * 128) * Low(z[4])
           /\ \A t \in 0..Len(z) : FirstGroups(z, t) \in Nat
<1>1. Len(z) \in 1..4 /\ \A q \in 1..Len(z) : Low(z[q]) \in Nat
    BY LowIs DEF Sizes
<1>2. Low(z[1]) \in Nat
    BY <1>1
<1>3. Len(z) >= 2 => Low(z[2]) \in Nat
    BY <1>1
<1>4. Len(z) >= 3 => Low(z[3]) \in Nat
    BY <1>1
<1>5. Len(z) >= 4 => Low(z[4]) \in Nat
    BY <1>1
<1>6. FirstGroups(z, 0) = 0 /\ FirstGroups(z, 1) = FirstGroups(z, 0) + 1 * Low(z[1]) /\ FirstGroups(z, 1) \in Nat
    BY <1>2 DEF FirstGroups
<1>7. Len(z) >= 2 => FirstGroups(z, 2) = FirstGroups(z, 1) + 128 * Low(z[2]) /\ FirstGroups(z, 2) \in Nat
    <2>1. FirstGroups(z, 2) = Low(z[1]) + 128 * Low(z[2]) + 0 + 0 /\ FirstGroups(z, 1) = Low(z[1]) + 0 + 0 + 0
        BY DEF FirstGroups
    <2> QED BY <2>1, <1>2, <1>3
<1>8. Len(z) >= 3 => FirstGroups(z, 3) = FirstGroups(z, 2) + (128 * 128) * Low(z[3]) /\ FirstGroups(z, 3) \in Nat
    <2> SUFFICES ASSUME Len(z) >= 3
                 PROVE  FirstGroups(z, 3) = FirstGroups(z, 2) + (128 * 128) * Low(z[3]) /\ FirstGroups(z, 3) \in Nat
        OBVIOUS
    <2> DEFINE x == (128 * 128) * Low(z[3])
    <2>1. FirstGroups(z, 3) = Low(z[1]) + 128 * Low(z[2]) + x + 0 /\ FirstGroups(z, 2) = Low(z[1]) + 128 * Low(z[2]) + 0 + 0
        BY DEF FirstGroups
    <2>2. x \in Nat
        BY <1>4, TimesIsNat
    <2>3. FirstGroups(z, 2) \in Nat
        BY <1>1, <1>7
    <2> HIDE DEF x
    <2>4. FirstGroups(z, 3) = FirstGroups(z, 2) + x
        BY <2>1, <2>2, <1>1, <1>2, <1>3
    <2> QED BY <2>2, <2>3, <2>4 DEF x
<1>9. Len(z) >= 4 => FirstGroups(z, 4) = FirstGroups(z, 3) + (128 * 128 * 128) * Low(z[4]) /\ FirstGroups(z, 4) \in Nat
    <2> SUFFICES ASSUME Len(z) >= 4
                 PROVE  FirstGroups(z, 4) = FirstGroups(z, 3) + (128 * 128 * 128) * Low(z[4]) /\ FirstGroups(z, 4) \in Nat
        OBVIOUS
    <2> DEFINE x == (128 * 128 * 128) * Low(z[4])
               y == Low(z[1]) + 128 * Low(z[2]) + (128 * 128) * Low(z[3])
    <2>1. FirstGroups(z, 4) = y + x /\ FirstGroups(z, 3) = y + 0
        BY DEF FirstGroups
    <2>2. x \in Nat
        <3>1. 128 * 128 * 128 \in Nat
            BY TimesIsNat
        <3> QED BY <3>1, <1>5, TimesIsNat
    <2>3. FirstGroups(z, 3) \in Nat
        BY <1>8
    <2>5. y \in Nat
        <3>1. Low(z[1]) \in Nat /\ 128 * Low(z[2]) \in Nat /\ (128 * 128) * Low(z[3]) \in Nat
            BY <1>1, <1>2, <1>3, <1>4, TimesIsNat
        <3> QED BY <3>1
    <2> HIDE DEF x, y
    <2>4. FirstGroups(z, 4) = FirstGroups(z, 3) + x
        BY <2>1, <2>2, <2>5
    <2> QED BY <2>2, <2>3, <2>4 DEF x
<1>10. ASSUME NEW t \in 0..Len(z) PROVE FirstGroups(z, t) \in Nat
    <2>1. t = 0 \/ t = 1 \/ (t = 2 /\ Len(z) >= 2) \/ (t = 3 /\ Len(z) >= 3) \/ (t = 4 /\ Len(z) >= 4)
        <3> DEFINE n == Len(z)
        <3>1. n \in 1..4 /\ t \in 0..n
            BY <1>1
        <3> HIDE DEF n
        <3>2. t \in Nat /\ t <= n /\ n <= 4 /\ n \in Nat
            BY <3>1
        <3>3. t = 0 \/ t = 1 \/ (t = 2 /\ n >= 2) \/ (t = 3 /\ n >= 3) \/ (t = 4 /\ n >= 4)
            BY <3>2
        <3> QED BY <3>3 DEF n
    <2> QED BY <2>1, <1>6, <1>7, <1>8, <1>9
<1> QED BY <1>6, <1>7, <1>8, <1>9, <1>10

(* A size whose bytes begin at k and may be cut off: what is there is read. *)
LEMMA SizeRead ==
    ASSUME NEW bs \in Seq(Byte), NEW k \in Nat, k > 0, k <= Len(bs) + 1, NEW z \in Sizes,
           \A q \in 1..Len(z) : k + q - 1 <= Len(bs) => bs[k + q - 1] = z[q]
    PROVE  LET s == SizeAt(bs, k) IN
           /\ s.size \in Nat
           /\ k + Len(z) - 1 <= Len(bs) =>
                s.size = FirstGroups(z, Len(z)) /\ s.next = k + Len(z) /\ s.ended = TRUE
           /\ k + Len(z) - 1 > Len(bs) => s.next = Len(bs) + 1 /\ s.ended = FALSE
<1> DEFINE there == Len(bs) - k + 1
           T == IF Len(z) <= there THEN Len(z) ELSE there
           State(t) == [size |-> FirstGroups(z, t), next |-> k + t, ended |-> (t = Len(z))]
           upTo(j) == IF j <= T THEN j ELSE T
<1>1. Len(z) \in 1..4 /\ Len(bs) \in Nat /\ there \in Nat /\ T \in 0..4 /\ T <= Len(z) /\ T <= there
      /\ (T = Len(z) \/ T = there)
    <2>1. Len(z) \in 1..4 /\ Len(bs) \in Nat
        BY DEF Sizes
    <2>2. there \in Nat
        BY <2>1
    <2> HIDE DEF there
    <2>3. T \in Nat /\ T <= Len(z) /\ T <= there /\ (T = Len(z) \/ T = there)
        BY <2>1, <2>2
    <2>4. T \in 0..4
        <3> DEFINE l == Len(z)
        <3>1. T \in Nat /\ T <= l /\ l \in 1..4
            BY <2>1, <2>3
        <3> HIDE DEF T, l
        <3> QED BY <3>1
    <2> QED BY <2>1, <2>2, <2>3, <2>4
<1>2. ASSUME NEW t \in Nat, t < T, NEW w \in Nat, FirstGroups(z, t + 1) = FirstGroups(z, t) + w * Low(z[t + 1])
      PROVE  Group(State(t), bs, w) = State(t + 1)
    <2>7. t # Len(z) /\ k + t <= Len(bs)
        BY <1>1, <1>2
    <2>1. State(t).ended = FALSE /\ State(t).next = k + t /\ k + t <= Len(bs) /\ State(t).size = FirstGroups(z, t)
        BY <2>7
    <2>2. t + 1 \in 1..Len(z) /\ k + (t + 1) - 1 = k + t
        BY <1>1, <1>2
    <2>3. bs[k + t] = z[t + 1]
        BY <2>1, <2>2
    <2>4. ~More(z[t + 1]) <=> t + 1 = Len(z)
        BY <2>2, <1>1 DEF Sizes
    <2>5. (k + t) + 1 = k + (t + 1)
        BY <1>2
    <2>6. State(t + 1) = [size |-> FirstGroups(z, t) + w * Low(z[t + 1]), next |-> (k + t) + 1, ended |-> ~More(z[t + 1])]
        BY <1>2, <2>4, <2>5
    <2> HIDE DEF State
    <2> QED BY <2>1, <2>3, <2>6 DEF Group
<1>3. ASSUME NEW w \in Nat PROVE Group(State(T), bs, w) = State(T)
    <2>1. State(T).ended = (T = Len(z)) /\ State(T).next = k + T
        OBVIOUS
    <2>2. T = Len(z) \/ k + T > Len(bs)
        BY <1>1
    <2> HIDE DEF State
    <2> QED BY <2>1, <2>2, <1>1 DEF Group
<1> HIDE DEF State
<1>13. /\ T >= 1 => upTo(1) = 1
       /\ T >= 2 => upTo(1) = 1 /\ upTo(2) = 2 /\ Len(z) >= 2
       /\ T >= 3 => upTo(2) = 2 /\ upTo(3) = 3 /\ Len(z) >= 3
       /\ T >= 4 => upTo(3) = 3 /\ upTo(4) = 4 /\ Len(z) >= 4
       /\ T < 1 => 0 = T /\ upTo(1) = T
       /\ T < 2 => upTo(1) = T /\ upTo(2) = T
       /\ T < 3 => upTo(2) = T /\ upTo(3) = T
       /\ T < 4 => upTo(3) = T /\ upTo(4) = T
    BY <1>1
<1>14. T >= 1 \/ T < 1
    BY <1>1
<1>15. T >= 2 \/ T < 2
    BY <1>1
<1>16. T >= 3 \/ T < 3
    BY <1>1
<1>17. T >= 4 \/ T < 4
    BY <1>1
<1>18. upTo(4) = T /\ T \in Nat
    <2> HIDE DEF T
    <2> QED BY <1>1
<1> HIDE DEF T, upTo
<1> DEFINE s1 == Group(State(0), bs, 1)
           s2 == Group(s1, bs, 128)
           s3 == Group(s2, bs, (128 * 128))
           s4 == Group(s3, bs, (128 * 128 * 128))
<1>4. s1 = State(upTo(1))
    <2>1. CASE T >= 1
        <3>1. FirstGroups(z, 0 + 1) = FirstGroups(z, 0) + 1 * Low(z[0 + 1])
            BY FirstGroupsAre, <1>13, <2>1
        <3>2. 0 < T /\ 0 + 1 = 1 /\ 1 \in Nat
            BY <2>1, <1>18
        <3>3. Group(State(0), bs, 1) = State(0 + 1)
            BY <1>2, <3>1, <3>2
        <3> QED BY <3>2, <3>3, <1>13, <2>1
    <2>2. CASE T < 1
        <3>1. Group(State(T), bs, 1) = State(T)
            BY <1>3
        <3> QED BY <3>1, <1>13, <2>2
    <2> QED BY <2>1, <2>2, <1>14
<1> HIDE DEF s1
<1>5. s2 = State(upTo(2))
    <2>1. CASE T >= 2
        <3>1. FirstGroups(z, 1 + 1) = FirstGroups(z, 1) + 128 * Low(z[1 + 1])
            BY FirstGroupsAre, <1>13, <2>1
        <3>2. 1 < T /\ 1 + 1 = 2 /\ 128 \in Nat
            BY <2>1, <1>18
        <3>3. Group(State(1), bs, 128) = State(1 + 1)
            BY <1>2, <3>1, <3>2
        <3> QED BY <3>2, <3>3, <1>13, <2>1, <1>4
    <2>2. CASE T < 2
        <3>1. Group(State(T), bs, 128) = State(T)
            BY <1>3
        <3> QED BY <3>1, <1>13, <2>2, <1>4
    <2> QED BY <2>1, <2>2, <1>15
<1> HIDE DEF s2
<1>6. s3 = State(upTo(3))
    <2>1. CASE T >= 3
        <3>1. FirstGroups(z, 2 + 1) = FirstGroups(z, 2) + (128 * 128) * Low(z[2 + 1])
            BY FirstGroupsAre, <1>13, <2>1
        <3>2. 2 < T /\ 2 + 1 = 3 /\ 128 * 128 \in Nat
            BY <2>1, <1>18
        <3>3. Group(State(2), bs, 128 * 128) = State(2 + 1)
            BY <1>2, <3>1, <3>2
        <3> QED BY <3>2, <3>3, <1>13, <2>1, <1>5
    <2>2. CASE T < 3
        <3>1. Group(State(T), bs, 128 * 128) = State(T)
            BY <1>3
        <3> QED BY <3>1, <1>13, <2>2, <1>5
    <2> QED BY <2>1, <2>2, <1>16
<1> HIDE DEF s3
<1>7. s4 = State(upTo(4))
    <2>1. CASE T >= 4
        <3>1. FirstGroups(z, 3 + 1) = FirstGroups(z, 3) + (128 * 128 * 128) * Low(z[3 + 1])
            BY FirstGroupsAre, <1>13, <2>1
        <3>2. 3 < T /\ 3 + 1 = 4 /\ 128 * 128 * 128 \in Nat
            BY <2>1, <1>18
        <3>3. Group(State(3), bs, 128 * 128 * 128) = State(3 + 1)
            BY <1>2, <3>1, <3>2
        <3> QED BY <3>2, <3>3, <1>13, <2>1, <1>6
    <2>2. CASE T < 4
        <3>1. Group(State(T), bs, 128 * 128 * 128) = State(T)
            BY <1>3
        <3> QED BY <3>1, <1>13, <2>2, <1>6
    <2> QED BY <2>1, <2>2, <1>17
<1> HIDE DEF s4
<1>8. SizeAt(bs, k) = State(T)
    <2>1. State(0) = [size |-> 0, next |-> k, ended |-> FALSE]
        <3>1. FirstGroups(z, 0) = 0 /\ k + 0 = k /\ (0 = Len(z)) = FALSE
            BY FirstGroupsAre, <1>1
        <3> QED BY <3>1 DEF State
    <2>2. SizeAt(bs, k) = s4
        BY <2>1 DEF SizeAt, s1, s2, s3, s4
    <2> QED BY <2>2, <1>7, <1>18
<1>9. FirstGroups(z, T) \in Nat
    <2>1. T \in 0..Len(z)
        BY <1>1 DEF T
    <2> QED BY <2>1, FirstGroupsAre
<1>10. SizeAt(bs, k).size = FirstGroups(z, T) /\ SizeAt(bs, k).next = k + T /\ SizeAt(bs, k).ended = (T = Len(z))
    BY <1>8 DEF State
<1>11. /\ k + Len(z) - 1 <= Len(bs) => T = Len(z)
       /\ k + Len(z) - 1 > Len(bs) => T # Len(z) /\ k + T = Len(bs) + 1
    BY <1>1 DEF T
<1> QED BY <1>9, <1>10, <1>11

-------------------------------------------------------------------------------
(* The bytes of two texts joined, of parts joined, and of a written record. *)
LEMMA JoinedIs ==
    ASSUME NEW x \in Seq(Byte), NEW y \in Seq(Byte)
    PROVE  /\ Appended(x, y) \in Seq(Byte)
           /\ Len(Appended(x, y)) = Len(x) + Len(y)
           /\ \A q \in 1..Len(x) : Appended(x, y)[q] = x[q]
           /\ \A q \in 1..Len(y) : Appended(x, y)[Len(x) + q] = y[q]
<1>1. Len(x) \in Nat /\ Len(y) \in Nat
    OBVIOUS
<1>2. x \o y \in Seq(Byte) /\ Len(x \o y) = Len(x) + Len(y)
    OBVIOUS
<1>3. ASSUME NEW q \in 1..Len(x) PROVE (x \o y)[q] = x[q]
    BY <1>1
<1>4. ASSUME NEW q \in 1..Len(y) PROVE (x \o y)[Len(x) + q] = y[q]
    BY <1>1
<1> QED BY <1>2, <1>3, <1>4 DEF Appended

(* Parts of bytes join to bytes, one part after another.                    *)
LEMMA JointBytes ==
    ASSUME NEW parts \in Seq(Seq(Byte))
    PROVE  /\ Joint(parts)[0] = <<>>
           /\ \A n \in Nat : n <= Len(parts) => Joint(parts)[n] \in Seq(Byte)
           /\ \A n \in Nat : n < Len(parts) =>
                /\ Joint(parts)[n + 1] = Appended(Joint(parts)[n], parts[n + 1])
                /\ parts[n + 1] \in Seq(Byte)
<1> DEFINE j == Joint(parts)
           T == {n \in Nat : n <= Len(parts) => j[n] \in Seq(Byte)}
<1>1. j[0] = <<>> /\ \A k \in Nat : j[k + 1] = Appended(j[k], parts[k + 1])
    BY JointIs DEF Appended
<1> HIDE DEF j
<1>2. \A n \in Nat : n < Len(parts) => parts[n + 1] \in Seq(Byte)
    OBVIOUS
<1>6. j[0] \in Seq(Byte)
    BY <1>1, EmptySeq
<1>3. 0 \in T
    BY <1>6
<1>4. ASSUME NEW n \in Nat, n \in T PROVE n + 1 \in T
    <2> SUFFICES ASSUME n + 1 <= Len(parts) PROVE j[n + 1] \in Seq(Byte)
        OBVIOUS
    <2>1. n < Len(parts) /\ j[n] \in Seq(Byte)
        BY <1>4
    <2>2. parts[n + 1] \in Seq(Byte)
        BY <1>2, <2>1
    <2> QED BY <1>1, <2>1, <2>2, JoinedIs
<1> HIDE DEF T
<1>5. \A n \in Nat : n \in T
    BY <1>3, <1>4, Induct
<1> QED BY <1>1, <1>2, <1>5 DEF T, j

(* What was joined first stays where it is.                                 *)
LEMMA JointGrows ==
    ASSUME NEW parts \in Seq(Seq(Byte)), NEW m \in Nat, NEW n \in Nat, m <= n, n <= Len(parts)
    PROVE  /\ Len(Joint(parts)[m]) <= Len(Joint(parts)[n])
           /\ \A q \in 1..Len(Joint(parts)[m]) : Joint(parts)[n][q] = Joint(parts)[m][q]
<1> DEFINE j == Joint(parts)
           Longer(k) == /\ Len(j[m]) <= Len(j[k])
                        /\ \A q \in 1..Len(j[m]) : j[k][q] = j[m][q]
           T == {k \in Nat : m <= k /\ k <= Len(parts) => Longer(k)}
<1>1. \A k \in Nat : k <= Len(parts) => j[k] \in Seq(Byte) /\ Len(j[k]) \in Nat
    BY JointBytes
<1>2. \A k \in Nat : k < Len(parts) => j[k + 1] = Appended(j[k], parts[k + 1]) /\ parts[k + 1] \in Seq(Byte)
    BY JointBytes
<1> HIDE DEF j
<1>3. Longer(m)
    <2>1. Len(j[m]) \in Nat
        BY <1>1
    <2> QED BY <2>1
<1>4. 0 \in T
    <2> SUFFICES ASSUME m <= 0 PROVE Longer(0)
        OBVIOUS
    <2>1. m = 0
        OBVIOUS
    <2> QED BY <1>3, <2>1
<1>5. ASSUME NEW k \in Nat, k \in T PROVE k + 1 \in T
    <2> SUFFICES ASSUME m <= k + 1, k + 1 <= Len(parts) PROVE Longer(k + 1)
        OBVIOUS
    <2>1. CASE m = k + 1
        BY <1>3, <2>1
    <2>2. CASE m # k + 1
        <3>1. m <= k /\ k < Len(parts) /\ k <= Len(parts)
            BY <2>2
        <3>2. Longer(k)
            BY <3>1, <1>5
        <3>3. j[k] \in Seq(Byte) /\ parts[k + 1] \in Seq(Byte) /\ j[k + 1] = Appended(j[k], parts[k + 1])
            BY <3>1, <1>1, <1>2
        <3>4. Len(j[k + 1]) = Len(j[k]) + Len(parts[k + 1]) /\ \A q \in 1..Len(j[k]) : j[k + 1][q] = j[k][q]
            <4> DEFINE x == j[k]
                       y == parts[k + 1]
            <4>1. x \in Seq(Byte) /\ y \in Seq(Byte) /\ j[k + 1] = Appended(x, y)
                BY <3>3
            <4> HIDE DEF x, y
            <4>2. /\ Len(Appended(x, y)) = Len(x) + Len(y)
                  /\ \A q \in 1..Len(x) : Appended(x, y)[q] = x[q]
                BY <4>1, JoinedIs
            <4> QED BY <4>1, <4>2 DEF x, y
        <3>5. Len(j[m]) \in Nat /\ Len(j[k]) \in Nat /\ Len(parts[k + 1]) \in Nat
            BY <3>1, <3>3, <1>1
        <3>6. Len(j[m]) <= Len(j[k + 1])
            <4>1. Len(j[m]) <= Len(j[k]) /\ Len(j[k + 1]) = Len(j[k]) + Len(parts[k + 1])
                BY <3>2, <3>4
            <4> DEFINE a == Len(j[m])
                       b == Len(j[k])
                       c == Len(parts[k + 1])
            <4>2. a \in Nat /\ b \in Nat /\ c \in Nat /\ a <= b /\ Len(j[k + 1]) = b + c
                BY <3>5, <4>1
            <4> HIDE DEF a, b, c
            <4>3. a <= b + c
                BY <4>2
            <4> QED BY <4>2, <4>3 DEF a
        <3>7. ASSUME NEW q \in 1..Len(j[m]) PROVE j[k + 1][q] = j[m][q]
            <4>1. q \in 1..Len(j[k])
                BY <3>2, <3>5
            <4> QED BY <4>1, <3>2, <3>4
        <3> QED BY <3>6, <3>7
    <2> QED BY <2>1, <2>2
<1> HIDE DEF T
<1>6. n \in T
    BY <1>4, <1>5, Induct
<1> QED BY <1>6 DEF T, j

(* Places of either part are places of the whole.                           *)
LEMMA WithinSum ==
    \A a, b \in Nat : (\A q \in 1..a : q \in 1..(a + b)) /\ \A q \in 1..b : a + q \in 1..(a + b)
OBVIOUS

(* A written record is its id, its size and its data, in this order.        *)
LEMMA EncodeRecIs ==
    ASSUME NEW r \in WrittenRec
    PROVE  /\ EncodeRec(r) \in Seq(Byte) /\ r.id \in Ids /\ r.size \in Sizes /\ r.data \in Seq(Byte)
           /\ Len(EncodeRec(r)) = Len(r.id) + Len(r.size) + Len(r.data)
           /\ \A q \in 1..Len(r.id) : EncodeRec(r)[q] = r.id[q]
           /\ \A q \in 1..Len(r.size) : EncodeRec(r)[Len(r.id) + q] = r.size[q]
           /\ \A q \in 1..Len(r.data) : EncodeRec(r)[Len(r.id) + Len(r.size) + q] = r.data[q]
<1> DEFINE x == Appended(r.id, r.size)
           e == Appended(x, r.data)
<1>1. r.id \in Ids /\ r.size \in Sizes /\ r.data \in Seq(Byte) /\ r.id \in Seq(Byte) /\ r.size \in Seq(Byte)
    BY DEF WrittenRec, Ids, Sizes
<1>2. Len(r.id) \in Nat /\ Len(r.size) \in Nat /\ Len(r.data) \in Nat
    BY <1>1
<1>3. /\ x \in Seq(Byte) /\ Len(x) = Len(r.id) + Len(r.size)
      /\ \A q \in 1..Len(r.id) : x[q] = r.id[q]
      /\ \A q \in 1..Len(r.size) : x[Len(r.id) + q] = r.size[q]
    BY <1>1, JoinedIs
<1> HIDE DEF x
<1>4. /\ e \in Seq(Byte) /\ Len(e) = Len(x) + Len(r.data)
      /\ \A q \in 1..Len(x) : e[q] = x[q]
      /\ \A q \in 1..Len(r.data) : e[Len(x) + q] = r.data[q]
    BY <1>1, <1>3, JoinedIs
<1>5. EncodeRec(r) = e
    BY DEF EncodeRec, x, Appended
<1> HIDE DEF e
<1>9. Len(x) = Len(r.id) + Len(r.size)
    BY <1>3
<1>6. \A q \in 1..Len(r.id) : e[q] = r.id[q]
    <2>1. \A q \in 1..Len(r.id) : q \in 1..Len(x)
        BY <1>2, <1>9, WithinSum
    <2> QED BY <2>1, <1>3, <1>4
<1>7. \A q \in 1..Len(r.size) : e[Len(r.id) + q] = r.size[q]
    <2>1. \A q \in 1..Len(r.size) : Len(r.id) + q \in 1..Len(x)
        BY <1>2, <1>9, WithinSum
    <2> QED BY <2>1, <1>3, <1>4
<1>8. \A q \in 1..Len(r.data) : e[Len(r.id) + Len(r.size) + q] = r.data[q]
    BY <1>3, <1>4
<1> QED BY <1>1, <1>3, <1>4, <1>5, <1>6, <1>7, <1>8

(* The records, each as bytes.                                              *)
LEMMA EncodedIs ==
    ASSUME NEW recs \in Seq(WrittenRec)
    PROVE  /\ Encoded(recs) \in Seq(Seq(Byte)) /\ Len(Encoded(recs)) = Len(recs)
           /\ \A i \in 1..Len(recs) : Encoded(recs)[i] = EncodeRec(recs[i]) /\ recs[i] \in WrittenRec
<1>1. \A i \in 1..Len(recs) : recs[i] \in WrittenRec /\ EncodeRec(recs[i]) \in Seq(Byte)
    <2>1. \A i \in 1..Len(recs) : recs[i] \in WrittenRec
        OBVIOUS
    <2>2. \A r \in WrittenRec : EncodeRec(r) \in Seq(Byte)
        BY EncodeRecIs
    <2> QED BY <2>1, <2>2
<1>2. Len(recs) \in Nat
    OBVIOUS
<1>3. Encoded(recs) \in [1..Len(recs) -> Seq(Byte)]
    BY <1>1 DEF Encoded
<1>4. Encoded(recs) \in Seq(Seq(Byte)) /\ Len(Encoded(recs)) = Len(recs)
    BY <1>2, <1>3, SeqDef, LenProperties
<1> QED BY <1>1, <1>4 DEF Encoded

-------------------------------------------------------------------------------
(* The size of the record that begins at i.                                 *)
Found(bs, i) == SizeAt(bs, AfterId(bs, i))

(* The id is found exactly when all its bytes are there.                    *)
LEMMA IdThere ==
    ASSUME NEW bs \in Seq(Byte), NEW h \in Nat, NEW id \in Ids,
           \A q \in 1..Len(id) : h + q <= Len(bs) => bs[h + q] = id[q]
    PROVE  /\ Len(id) \in Nat /\ Len(id) > 0
           /\ HasId(bs, h + 1) <=> h + Len(id) <= Len(bs)
           /\ h + Len(id) <= Len(bs) => /\ AfterId(bs, h + 1) = h + Len(id) + 1
                                        /\ IdAt(bs, h + 1) = IdAt(id, 1)
<1>1. Len(bs) \in Nat
    OBVIOUS
<1>2. CASE Len(id) = 1 /\ ~More(id[1])
    <2>1. h + 1 <= Len(bs) => bs[h + 1] = id[1]
        BY <1>2
    <2> QED BY <1>1, <1>2, <2>1 DEF HasId, AfterId, IdAt
<1>3. CASE Len(id) = 2 /\ More(id[1])
    <2>1. (h + 1 <= Len(bs) => bs[h + 1] = id[1]) /\ (h + 2 <= Len(bs) => bs[h + 2] = id[2])
        BY <1>3
    <2>2. HasId(bs, h + 1) <=> h + 2 <= Len(bs)
        BY <1>1, <1>3, <2>1 DEF HasId
    <2>3. h + 2 <= Len(bs) => h + 1 <= Len(bs) /\ (h + 1) + 1 = h + 2 /\ (h + 1) + 2 = h + 2 + 1
        BY <1>1
    <2>4. h + 2 <= Len(bs) => AfterId(bs, h + 1) = h + 2 + 1
        BY <1>3, <2>1, <2>3 DEF AfterId
    <2>5. h + 2 <= Len(bs) => IdAt(bs, h + 1) = IdAt(id, 1)
        <3>1. 1 + 1 = 2
            OBVIOUS
        <3> QED BY <3>1, <1>3, <2>1, <2>3 DEF IdAt
    <2> QED BY <1>3, <2>2, <2>4, <2>5
<1> QED BY <1>2, <1>3 DEF Ids

(* A record begins behind h, and as much of it is in the buffer as the      *)
(* buffer holds: the loop finds the record, or finds that it is not whole.  *)
LEMMA RecordThere ==
    ASSUME NEW bs \in Seq(Byte), NEW h \in Nat, NEW r \in WrittenRec,
           \A q \in 1..Len(EncodeRec(r)) : h + q <= Len(bs) => bs[h + q] = EncodeRec(r)[q]
    PROVE  LET s == Found(bs, h + 1)
               end == h + Len(EncodeRec(r))
           IN /\ end <= Len(bs) =>
                    /\ HasId(bs, h + 1) /\ s.ended = TRUE /\ s.next + s.size - 1 = end
                    /\ Rec(IdAt(bs, h + 1), bs, s.next, s.size) = [id |-> IdAt(r.id, 1), data |-> r.data]
              /\ end > Len(bs) =>
                    \/ ~HasId(bs, h + 1)
                    \/ s.ended = TRUE /\ s.next + s.size - 1 > Len(bs) /\ s.size \in Nat /\ s.next \in Nat
                    \/ s.ended = FALSE /\ s.next = Len(bs) + 1 /\ s.size \in Nat
<1> DEFINE e == EncodeRec(r)
           I == Len(r.id)
           Z == Len(r.size)
           D == Len(r.data)
           L == Len(bs)
           k == h + I + 1
           s == SizeAt(bs, k)
<1>1. /\ r.id \in Ids /\ r.size \in Sizes /\ r.data \in Seq(Byte) /\ Len(e) = I + Z + D
      /\ \A q \in 1..I : e[q] = r.id[q]
      /\ \A q \in 1..Z : e[I + q] = r.size[q]
      /\ \A q \in 1..D : e[I + Z + q] = r.data[q]
    BY EncodeRecIs
<1>2. D = FirstGroups(r.size, Z)
    BY DEF WrittenRec
<1>3. I \in Nat /\ Z \in Nat /\ Z > 0 /\ D \in Nat /\ L \in Nat
    <2>1. I \in Nat
        BY <1>1 DEF Ids
    <2>2. Z \in Nat /\ Z > 0
        BY <1>1 DEF Sizes
    <2> QED BY <1>1, <2>1, <2>2
<1>4. \A q \in 1..Len(e) : h + q <= L => bs[h + q] = e[q]
    OBVIOUS
<1>13. Len(e) = I + Z + D
    BY <1>1
<1> HIDE DEF e, I, Z, D, L
<1>5. \A q \in 1..I : h + q <= L => bs[h + q] = r.id[q]
    <2>1. \A q \in 1..I : q \in 1..Len(e)
        BY <1>3, <1>13
    <2> QED BY <2>1, <1>1, <1>4
<1>6. \A q \in 1..Z : k + q - 1 <= L => bs[k + q - 1] = r.size[q]
    <2> SUFFICES ASSUME NEW q \in 1..Z, k + q - 1 <= L PROVE bs[k + q - 1] = r.size[q]
        OBVIOUS
    <2>1. I + q \in 1..Len(e) /\ h + (I + q) = k + q - 1
        BY <1>3, <1>13
    <2>2. e[I + q] = r.size[q]
        BY <1>1
    <2> QED BY <2>1, <2>2, <1>4
<1>7. /\ HasId(bs, h + 1) <=> h + I <= L
      /\ h + I <= L => AfterId(bs, h + 1) = k /\ IdAt(bs, h + 1) = IdAt(r.id, 1)
    BY <1>1, <1>5, IdThere DEF I, L
<1>8. h + I <= L =>
        /\ s.size \in Nat
        /\ k + Z - 1 <= L => s.size = D /\ s.next = k + Z /\ s.ended = TRUE
        /\ k + Z - 1 > L => s.next = L + 1 /\ s.ended = FALSE
    <2> SUFFICES ASSUME h + I <= L
                 PROVE  /\ s.size \in Nat
                        /\ k + Z - 1 <= L => s.size = D /\ s.next = k + Z /\ s.ended = TRUE
                        /\ k + Z - 1 > L => s.next = L + 1 /\ s.ended = FALSE
        OBVIOUS
    <2>1. k \in Nat /\ k > 0 /\ k <= L + 1
        BY <1>3
    <2> DEFINE z == r.size
    <2>2. z \in Sizes /\ \A q \in 1..Len(z) : k + q - 1 <= Len(bs) => bs[k + q - 1] = z[q]
        BY <1>1, <1>6 DEF Z, L
    <2> HIDE DEF z, k, s
    <2>3. /\ SizeAt(bs, k).size \in Nat
          /\ k + Len(z) - 1 <= Len(bs) =>
               SizeAt(bs, k).size = FirstGroups(z, Len(z)) /\ SizeAt(bs, k).next = k + Len(z) /\ SizeAt(bs, k).ended = TRUE
          /\ k + Len(z) - 1 > Len(bs) => SizeAt(bs, k).next = Len(bs) + 1 /\ SizeAt(bs, k).ended = FALSE
        BY <2>1, <2>2, SizeRead DEF L
    <2> QED BY <2>3, <1>2 DEF z, Z, L, s
<1>9. h + I <= L => Found(bs, h + 1) = s
    BY <1>7 DEF Found
<1> HIDE DEF s
<1>10. CASE h + Len(e) <= L
    <2>1. h + I <= L /\ k + Z - 1 <= L /\ k + Z + D - 1 = h + Len(e)
        BY <1>3, <1>10, <1>13
    <2>2. Found(bs, h + 1) = s /\ s.size = D /\ s.next = k + Z /\ s.ended = TRUE
        BY <2>1, <1>8, <1>9
    <2> DEFINE from == k + Z
               x == SubSeq(bs, from, from + D - 1)
    <2>3. x = r.data
        <3>0. from \in Nat /\ from > 0 /\ from + D - 1 <= L
            BY <1>3, <1>10, <2>1
        <3>1. \A q \in from..(from + D - 1) : bs[q] \in Byte
            <4>1. \A q \in from..(from + D - 1) : q \in 1..L
                BY <3>0, <1>3
            <4> QED BY <4>1 DEF L
        <3>2. from \in Int /\ from + D - 1 \in Int /\ (from + D - 1) - from + 1 = D
            BY <3>0, <1>3
        <3>3. /\ x \in Seq(Byte)
              /\ Len(x) = IF from <= from + D - 1 THEN (from + D - 1) - from + 1 ELSE 0
              /\ \A q \in 1..((from + D - 1) - from + 1) : x[q] = bs[from + q - 1]
            BY <3>1, <3>2, SubSeqProperties
        <3> HIDE DEF x
        <3>4. Len(x) = D
            BY <3>0, <3>2, <3>3, <1>3
        <3>5. ASSUME NEW q \in 1..D PROVE x[q] = r.data[q]
            <4>1. x[q] = bs[from + q - 1]
                BY <3>2, <3>3
            <4>2. I + Z + q \in 1..Len(e) /\ h + (I + Z + q) = from + q - 1 /\ h + (I + Z + q) <= L
                BY <1>3, <1>10, <1>13
            <4>3. e[I + Z + q] = r.data[q]
                BY <1>1
            <4> QED BY <4>1, <4>2, <4>3, <1>4
        <3>6. Len(r.data) = D /\ r.data \in Seq(Byte)
            BY <1>1 DEF D
        <3> QED BY <3>3, <3>4, <3>5, <3>6, SeqEqual
    <2>4. Rec(IdAt(bs, h + 1), bs, s.next, s.size) = [id |-> IdAt(r.id, 1), data |-> r.data]
        BY <2>1, <2>2, <2>3, <1>7 DEF Rec
    <2>5. s.next + s.size - 1 = h + Len(e)
        BY <2>1, <2>2
    <2> QED BY <1>7, <1>10, <2>1, <2>2, <2>4, <2>5, <1>3, <1>13 DEF e, L
<1>11. CASE h + Len(e) > L
    <2>1. CASE ~(h + I <= L)
        BY <1>7, <1>11, <2>1, <1>3, <1>13 DEF e, L
    <2>2. CASE h + I <= L /\ k + Z - 1 <= L
        <3>1. s.next + s.size - 1 = k + Z + D - 1 /\ k + Z + D - 1 = h + Len(e)
            BY <1>3, <1>13, <1>8, <2>2
        <3>2. s.size \in Nat /\ s.next \in Nat /\ s.ended = TRUE
            BY <1>3, <1>8, <2>2
        <3>3. h + Len(e) > L /\ ~(h + Len(e) <= L)
            BY <1>3, <1>11, <1>13
        <3>4. s.next + s.size - 1 > L
            BY <3>1, <3>3
        <3>5. Found(bs, h + 1) = s
            BY <1>9, <2>2
        <3> HIDE DEF k
        <3> QED BY <3>2, <3>3, <3>4, <3>5 DEF e, L
    <2>3. CASE h + I <= L /\ ~(k + Z - 1 <= L)
        <3>1. k + Z - 1 > L
            BY <2>3, <1>3
        <3>2. s.size \in Nat /\ s.next = L + 1 /\ s.ended = FALSE
            BY <3>1, <1>8, <2>3
        <3>3. Found(bs, h + 1) = s
            BY <1>9, <2>3
        <3>4. ~(h + Len(e) <= L)
            BY <1>3, <1>11, <1>13
        <3> QED BY <3>2, <3>3, <3>4 DEF e, L
    <2> QED BY <2>1, <2>2, <2>3
<1>12. h + Len(e) <= L \/ h + Len(e) > L
    BY <1>3, <1>13
<1> QED BY <1>10, <1>11, <1>12

-------------------------------------------------------------------------------
(* The bytes of the first so many records, where they end, and whether no   *)
(* more records than the first m are complete in n bytes.                   *)
All(recs) == Joint(Encoded(recs))
Ends(recs, m) == Len(All(recs)[m])
Complete(recs, n, m) == m = Len(recs) \/ n < Ends(recs, m + 1)

(* Where records end: each behind the one before, by the bytes it takes.    *)
LEMMA EndsAre ==
    ASSUME NEW recs \in Seq(WrittenRec)
    PROVE  /\ Ends(recs, 0) = 0
           /\ \A m \in Nat : m <= Len(recs) => Ends(recs, m) \in Nat
           /\ \A m, n \in Nat : m <= n /\ n <= Len(recs) => Ends(recs, m) <= Ends(recs, n)
           /\ \A m \in Nat : m < Len(recs) =>
                /\ recs[m + 1] \in WrittenRec /\ Len(EncodeRec(recs[m + 1])) \in Nat
                /\ Len(EncodeRec(recs[m + 1])) > 0
                /\ Ends(recs, m + 1) = Ends(recs, m) + Len(EncodeRec(recs[m + 1]))
                /\ \A q \in 1..Len(EncodeRec(recs[m + 1])) :
                     All(recs)[Len(recs)][Ends(recs, m) + q] = EncodeRec(recs[m + 1])[q]
<1> DEFINE parts == Encoded(recs)
           N == Len(recs)
<1>1. parts \in Seq(Seq(Byte)) /\ Len(parts) = N /\ N \in Nat
    BY EncodedIs
<1>2. \A i \in 1..N : parts[i] = EncodeRec(recs[i]) /\ recs[i] \in WrittenRec
    BY EncodedIs
<1>3. All(recs) = Joint(parts)
    BY DEF All
<1> HIDE DEF parts, N
<1>4. /\ Joint(parts)[0] = <<>>
      /\ \A n \in Nat : n <= N => Joint(parts)[n] \in Seq(Byte)
      /\ \A n \in Nat : n < N => Joint(parts)[n + 1] = Appended(Joint(parts)[n], parts[n + 1])
    BY <1>1, JointBytes
<1>5. \A m \in Nat : m <= N => Ends(recs, m) \in Nat
    BY <1>3, <1>4 DEF Ends
<1>6. Ends(recs, 0) = 0
    BY <1>3, <1>4 DEF Ends
<1>7. ASSUME NEW m \in Nat, NEW n \in Nat, m <= n, n <= N PROVE Ends(recs, m) <= Ends(recs, n)
    BY <1>1, <1>3, <1>7, JointGrows DEF Ends
<1>8. ASSUME NEW m \in Nat, m < N
      PROVE  /\ recs[m + 1] \in WrittenRec /\ Len(EncodeRec(recs[m + 1])) \in Nat
             /\ Len(EncodeRec(recs[m + 1])) > 0
             /\ Ends(recs, m + 1) = Ends(recs, m) + Len(EncodeRec(recs[m + 1]))
             /\ \A q \in 1..Len(EncodeRec(recs[m + 1])) :
                  All(recs)[N][Ends(recs, m) + q] = EncodeRec(recs[m + 1])[q]
    <2> DEFINE r == recs[m + 1]
               e == EncodeRec(r)
               x == Joint(parts)[m]
               y == Joint(parts)[m + 1]
    <2>1. m + 1 \in 1..N /\ m <= N /\ m + 1 <= N /\ m + 1 \in Nat
        BY <1>1, <1>8
    <2>2. r \in WrittenRec /\ parts[m + 1] = e
        BY <1>2, <2>1
    <2>3. x \in Seq(Byte) /\ y = Appended(x, e)
        BY <1>4, <1>8, <2>1, <2>2
    <2>4. e \in Seq(Byte) /\ Len(e) = Len(r.id) + Len(r.size) + Len(r.data)
        BY <2>2, EncodeRecIs
    <2>5. Len(e) \in Nat /\ Len(e) > 0
        <3>1. r.id \in Ids /\ r.size \in Sizes /\ r.data \in Seq(Byte)
            BY <2>2, EncodeRecIs
        <3>2. Len(r.id) \in Nat /\ Len(r.id) > 0
            BY <3>1 DEF Ids
        <3>3. Len(r.size) \in Nat /\ Len(r.data) \in Nat
            BY <3>1 DEF Sizes
        <3> DEFINE i == Len(r.id)
                   z == Len(r.size)
                   l == Len(r.data)
        <3>4. i \in Nat /\ i > 0 /\ z \in Nat /\ l \in Nat /\ Len(e) = i + z + l
            BY <2>4, <3>2, <3>3
        <3> HIDE DEF i, z, l, e
        <3> QED BY <3>4
    <2> HIDE DEF r, e, x, y
    <2>6. Len(y) = Len(x) + Len(e) /\ \A q \in 1..Len(e) : y[Len(x) + q] = e[q]
        BY <2>3, <2>4, JoinedIs
    <2>7. \A q \in 1..Len(y) : All(recs)[N][q] = y[q]
        <3>1. \A q \in 1..Len(Joint(parts)[m + 1]) : Joint(parts)[N][q] = Joint(parts)[m + 1][q]
            <4> DEFINE l == m + 1
            <4>1. l \in Nat /\ N \in Nat /\ l <= N /\ N <= Len(parts)
                BY <1>1, <2>1
            <4> HIDE DEF l
            <4>2. \A q \in 1..Len(Joint(parts)[l]) : Joint(parts)[N][q] = Joint(parts)[l][q]
                BY <1>1, <4>1, JointGrows
            <4> QED BY <4>2 DEF l
        <3> QED BY <3>1, <1>3 DEF y
    <2>8. Len(x) \in Nat /\ Ends(recs, m) = Len(x) /\ Ends(recs, m + 1) = Len(y)
        BY <2>3, <1>3 DEF Ends, x, y
    <2>9. ASSUME NEW q \in 1..Len(e) PROVE All(recs)[N][Ends(recs, m) + q] = e[q]
        <3>1. Len(x) + q \in 1..Len(y)
            BY <2>5, <2>6, <2>8, WithinSum
        <3> QED BY <3>1, <2>6, <2>7, <2>8
    <2> QED BY <2>2, <2>5, <2>6, <2>8, <2>9 DEF r, e
<1> QED BY <1>5, <1>6, <1>7, <1>8 DEF N

(* The buffer holds a stretch of the bytes of the records, d of them after  *)
(* the first, and m records were handed out.                                *)
Tracks(recs, a, d, m) ==
    /\ a.buf \in Seq(Byte) /\ a.head \in Nat /\ a.head <= Len(a.buf)
    /\ a = [buf |-> a.buf, head |-> a.head, out |-> a.out]
    /\ d \in Nat /\ m \in Nat /\ m <= Len(recs)
    /\ d + a.head = Ends(recs, m)
    /\ d + Len(a.buf) <= Ends(recs, Len(recs))
    /\ \A q \in 1..Len(a.buf) : a.buf[q] = All(recs)[Len(recs)][d + q]
    /\ a.out = Decoded(recs, m)

(* A last record of which only the beginning is there, handed out empty.    *)
Extra(a, b) ==
    /\ b.buf = a.buf /\ b.head = Len(a.buf)
    /\ \E r : b.out = Append(a.out, r) /\ r.data = <<>>

(* One more record is one more decoded.                                     *)
LEMMA DecodedNext ==
    ASSUME NEW recs, NEW m \in Nat
    PROVE  Append(Decoded(recs, m), [id |-> IdAt(recs[m + 1].id, 1), data |-> recs[m + 1].data])
           = Decoded(recs, m + 1)
<1> DEFINE F(i) == [id |-> IdAt(recs[i].id, 1), data |-> recs[i].data]
           x == [i \in 1..m |-> F(i)]
           y == [i \in 1..(m + 1) |-> F(i)]
           U == {F(i) : i \in 1..(m + 1)}
<1>1. x = Decoded(recs, m) /\ y = Decoded(recs, m + 1)
    BY DEF Decoded
<1> HIDE DEF F
<1>2. x \in Seq(U) /\ y \in Seq(U) /\ Len(x) = m /\ Len(y) = m + 1
    <2>1. \A i \in 1..m : i \in 1..(m + 1)
        OBVIOUS
    <2>2. x \in [1..m -> U] /\ y \in [1..(m + 1) -> U]
        BY <2>1
    <2>3. m \in Nat /\ m + 1 \in Nat
        OBVIOUS
    <2> HIDE DEF x, y, U
    <2>4. x \in Seq(U) /\ y \in Seq(U)
        BY <2>2, <2>3, SeqDef
    <2>5. Len(x) = m
        BY <2>2, <2>3, <2>4, LenProperties
    <2>6. Len(y) = m + 1
        BY <2>2, <2>3, <2>4, LenProperties
    <2> QED BY <2>4, <2>5, <2>6
<1>3. F(m + 1) \in U
    OBVIOUS
<1> DEFINE z == Append(x, F(m + 1))
<1>4. z \in Seq(U) /\ Len(z) = m + 1 /\ (\A i \in 1..m : z[i] = x[i]) /\ z[m + 1] = F(m + 1)
    <2> HIDE DEF x, U
    <2> QED BY <1>2, <1>3, AppendProperties
<1>5. ASSUME NEW i \in 1..(m + 1) PROVE z[i] = y[i]
    <2>1. CASE i = m + 1
        BY <2>1, <1>4
    <2>2. CASE i # m + 1
        <3>1. i \in 1..m
            BY <2>2
        <3> QED BY <3>1, <1>4
    <2> QED BY <2>1, <2>2
<1> HIDE DEF x, y, z, U
<1>6. z = y
    BY <1>2, <1>4, <1>5, SeqEqual
<1> QED BY <1>1, <1>6 DEF z, F

(* A turn hands out the next record if it is complete; otherwise it does    *)
(* nothing, except that at once a cut off size may pass for one of nothing. *)
LEMMA CutTracks ==
    ASSUME NEW recs \in Seq(WrittenRec), NEW a, NEW d, NEW m, Tracks(recs, a, d, m), NEW atOnce \in BOOLEAN
    PROVE  /\ ~Complete(recs, d + Len(a.buf), m) =>
                 /\ Tracks(recs, Cut(a, atOnce), d, m + 1)
                 /\ Cut(a, atOnce).buf = a.buf /\ Cut(a, atOnce).head > a.head
           /\ Complete(recs, d + Len(a.buf), m) =>
                 Cut(a, atOnce) = a \/ (atOnce /\ Extra(a, Cut(a, atOnce)))
<1> DEFINE bs == a.buf
           h == a.head
           L == Len(bs)
           s == Found(bs, h + 1)
           b == Cut(a, atOnce)
           N == Len(recs)
<1>1. /\ bs \in Seq(Byte) /\ h \in Nat /\ h <= L /\ L \in Nat
      /\ a = [buf |-> bs, head |-> h, out |-> a.out]
      /\ d \in Nat /\ m \in Nat /\ m <= N /\ N \in Nat
      /\ d + h = Ends(recs, m) /\ d + L <= Ends(recs, N)
      /\ \A q \in 1..L : bs[q] = All(recs)[N][d + q]
      /\ a.out = Decoded(recs, m)
    BY DEF Tracks
<1>2. b = IF HasId(bs, h + 1) /\ (s.ended \/ atOnce) /\ s.next + s.size - 1 <= L
          THEN [buf |-> bs, head |-> s.next + s.size - 1,
                out |-> Append(a.out, Rec(IdAt(bs, h + 1), bs, s.next, s.size))]
          ELSE a
    <2> DEFINE r == Rec(IdAt(bs, h + 1), bs, s.next, s.size)
               n == s.next + s.size - 1
    <2>1. [a EXCEPT !.out = Append(@, r), !.head = n] = [buf |-> bs, head |-> n, out |-> Append(a.out, r)]
        <3> DEFINE o == a.out
                   all == Append(o, r)
                   x == [a EXCEPT !.out = all]
        <3>1. a = [buf |-> bs, head |-> h, out |-> o]
            BY <1>1
        <3> HIDE DEF r, n, s, bs, h, L, b, N
        <3>2. [a EXCEPT !.out = Append(@, r), !.head = n] = [[a EXCEPT !.out = Append(@, r)] EXCEPT !.head = n]
            OBVIOUS
        <3>3. [a EXCEPT !.out = Append(@, r)] = x
            OBVIOUS
        <3> HIDE DEF o, all
        <3>4. x = [buf |-> bs, head |-> h, out |-> all]
            BY <3>1
        <3> HIDE DEF x
        <3>5. [x EXCEPT !.head = n] = [buf |-> bs, head |-> n, out |-> all]
            BY <3>4
        <3> QED BY <3>2, <3>3, <3>5 DEF all, o
    <2> HIDE DEF s
    <2> QED BY <2>1 DEF Cut, s, Found
<1> HIDE DEF bs, h, L, s, b, N
<1>3. CASE m < N
    <2> DEFINE r == recs[m + 1]
               e == EncodeRec(r)
    <2>1. /\ r \in WrittenRec /\ Len(e) \in Nat /\ Len(e) > 0
          /\ Ends(recs, m + 1) = Ends(recs, m) + Len(e)
          /\ \A q \in 1..Len(e) : All(recs)[N][Ends(recs, m) + q] = e[q]
        BY <1>1, <1>3, EndsAre DEF N
    <2> HIDE DEF r, e
    <2>2. \A q \in 1..Len(e) : h + q <= L => bs[h + q] = e[q]
        <3> SUFFICES ASSUME NEW q \in 1..Len(e), h + q <= L PROVE bs[h + q] = e[q]
            OBVIOUS
        <3>1. h + q \in 1..L /\ d + (h + q) = Ends(recs, m) + q
            BY <1>1, <2>1
        <3> QED BY <3>1, <1>1, <2>1
    <2>3. /\ h + Len(e) <= L =>
                    /\ HasId(bs, h + 1) /\ s.ended = TRUE /\ s.next + s.size - 1 = h + Len(e)
                    /\ Rec(IdAt(bs, h + 1), bs, s.next, s.size) = [id |-> IdAt(r.id, 1), data |-> r.data]
          /\ h + Len(e) > L =>
                    \/ ~HasId(bs, h + 1)
                    \/ s.ended = TRUE /\ s.next + s.size - 1 > L /\ s.size \in Nat /\ s.next \in Nat
                    \/ s.ended = FALSE /\ s.next = L + 1 /\ s.size \in Nat
        BY <1>1, <2>1, <2>2, RecordThere DEF L, e, s
    <2>4. CASE ~Complete(recs, d + L, m)
        <3>1. h + Len(e) <= L
            <4>1. ~(d + L < Ends(recs, m) + Len(e))
                BY <2>1, <2>4 DEF Complete
            <4> QED BY <4>1, <1>1, <2>1
        <3>2. b = [buf |-> bs, head |-> h + Len(e), out |-> Decoded(recs, m + 1)]
            <4>1. b = [buf |-> bs, head |-> h + Len(e), out |-> Append(a.out, [id |-> IdAt(r.id, 1), data |-> r.data])]
                BY <1>2, <2>3, <3>1
            <4> QED BY <4>1, <1>1, DecodedNext DEF r
        <3>3. b.buf = bs /\ b.head = h + Len(e) /\ b.out = Decoded(recs, m + 1)
            BY <3>2
        <3>4. /\ h + Len(e) \in Nat /\ m + 1 \in Nat /\ m + 1 <= N /\ h + Len(e) > h
              /\ d + (h + Len(e)) = Ends(recs, m + 1)
            BY <1>1, <1>3, <2>1
        <3>5. Tracks(recs, b, d, m + 1)
            BY <1>1, <3>1, <3>2, <3>3, <3>4 DEF Tracks, L, N
        <3> QED BY <2>4, <3>3, <3>4, <3>5 DEF b, bs, h, L
    <2>5. CASE Complete(recs, d + L, m)
        <3>1. h + Len(e) > L
            <4>1. d + L < Ends(recs, m) + Len(e)
                BY <1>3, <2>1, <2>5 DEF Complete, N
            <4> QED BY <4>1, <1>1, <2>1
        <3>2. CASE \/ ~HasId(bs, h + 1)
                   \/ s.ended = TRUE /\ s.next + s.size - 1 > L /\ s.size \in Nat /\ s.next \in Nat
            <4>1. b = a
                <5>1. CASE ~HasId(bs, h + 1)
                    BY <1>2, <5>1
                <5>2. CASE s.next + s.size - 1 > L /\ s.size \in Nat /\ s.next \in Nat
                    <6>1. ~(s.next + s.size - 1 <= L)
                        BY <1>1, <5>2
                    <6> QED BY <1>2, <6>1
                <5> QED BY <3>2, <5>1, <5>2
            <4> QED BY <4>1, <2>5 DEF b, bs, L
        <3>3. CASE HasId(bs, h + 1) /\ s.ended = FALSE /\ s.next = L + 1 /\ s.size \in Nat
            <4>1. CASE atOnce /\ s.size = 0
                <5>1. s.next + s.size - 1 = L
                    BY <1>1, <3>3, <4>1
                <5>2. b = [buf |-> bs, head |-> L, out |-> Append(a.out, Rec(IdAt(bs, h + 1), bs, s.next, s.size))]
                    <6> DEFINE found == Rec(IdAt(bs, h + 1), bs, s.next, s.size)
                    <6> HIDE DEF found
                    <6>1. HasId(bs, h + 1) /\ (s.ended \/ atOnce) /\ s.next + s.size - 1 <= L
                        BY <1>1, <3>3, <4>1, <5>1
                    <6>2. b = [buf |-> bs, head |-> s.next + s.size - 1, out |-> Append(a.out, found)]
                        BY <1>2, <6>1 DEF found
                    <6> QED BY <5>1, <6>2 DEF found
                <5>3. Rec(IdAt(bs, h + 1), bs, s.next, s.size).data = <<>>
                    <6>1. s.next + s.size - 1 < s.next /\ s.next \in Int /\ s.next + s.size - 1 \in Int
                        BY <1>1, <3>3, <4>1
                    <6> QED BY <6>1, SubSeqEmpty DEF Rec
                <5> HIDE DEF s
                <5>4. Extra(a, b)
                    BY <5>2, <5>3 DEF Extra, bs, L
                <5> QED BY <2>5, <4>1, <5>4 DEF b, bs, L
            <4>2. CASE ~(atOnce /\ s.size = 0)
                <5>1. CASE ~atOnce
                    <6>1. ~(s.ended \/ atOnce)
                        BY <3>3, <5>1
                    <6>2. b = a
                        BY <1>2, <6>1
                    <6> QED BY <6>2, <2>5 DEF b, bs, L
                <5>2. CASE s.size # 0
                    <6> DEFINE x == s.size
                               y == s.next
                    <6>1. x \in Nat /\ x # 0 /\ y = L + 1 /\ L \in Nat
                        BY <1>1, <3>3, <5>2
                    <6> HIDE DEF x, y
                    <6>2. ~(y + x - 1 <= L)
                        BY <6>1
                    <6>3. ~(s.next + s.size - 1 <= L)
                        BY <6>2 DEF x, y
                    <6>4. b = a
                        BY <1>2, <6>3
                    <6> QED BY <6>4, <2>5 DEF b, bs, L
                <5> QED BY <4>2, <5>1, <5>2
            <4> QED BY <4>1, <4>2
        <3> QED BY <2>3, <3>1, <3>2, <3>3
    <2> QED BY <2>4, <2>5 DEF bs, L
<1>4. CASE m = N
    <2>1. h >= L
        BY <1>1, <1>4
    <2>2. ~HasId(bs, h + 1)
        BY <1>1, <2>1 DEF HasId, L
    <2>3. b = a
        BY <1>2, <2>2
    <2> QED BY <1>4, <2>3 DEF Complete, b, N
<1> QED BY <1>1, <1>3, <1>4


(* After a record handed out empty there is nothing left to cut.            *)
LEMMA ExtraStays ==
    ASSUME NEW a, NEW b, Extra(a, b), Len(a.buf) \in Nat, NEW atOnce
    PROVE  Cut(b, atOnce) = b
<1>1. b.buf = a.buf /\ b.head = Len(a.buf)
    BY DEF Extra
<1>2. ~HasId(b.buf, b.head + 1)
    BY <1>1 DEF HasId
<1> QED BY <1>2 DEF Cut

(* All the turns hand out the records that are complete.                    *)
LEMMA TurnsTrack ==
    ASSUME NEW recs \in Seq(WrittenRec), NEW a, NEW d, NEW m, Tracks(recs, a, d, m), NEW atOnce \in BOOLEAN
    PROVE  \E m2, b : /\ Tracks(recs, b, d, m2) /\ b.buf = a.buf /\ Complete(recs, d + Len(a.buf), m2)
                      /\ Parsed(a, atOnce) = b \/ (atOnce /\ Extra(b, Parsed(a, atOnce)))
<1> DEFINE turn == Turns(a, atOnce)
           L == Len(a.buf)
           At(n, k, b) == /\ Tracks(recs, b, d, k) /\ b.buf = a.buf
                          /\ Complete(recs, d + L, k) \/ b.head >= n
                          /\ \/ turn[n] = b
                             \/ atOnce /\ Extra(b, turn[n]) /\ Complete(recs, d + L, k)
           T == {n \in Nat : \E k, b : At(n, k, b)}
<1>1. turn[0] = a /\ \A n \in Nat : turn[n + 1] = Cut(turn[n], atOnce)
    BY TurnsAre
<1>2. L \in Nat /\ a.head \in Nat /\ a.head >= 0
    BY DEF Tracks
<1>3. Parsed(a, atOnce) = turn[L]
    BY DEF Parsed
<1> HIDE DEF turn, L
<1>4. 0 \in T
    <2>1. a.head >= 0 /\ turn[0] = a
        BY <1>1, <1>2
    <2>2. At(0, m, a)
        BY <2>1
    <2> QED BY <2>2
<1>5. ASSUME NEW n \in Nat, n \in T PROVE n + 1 \in T
    <2>1. PICK k, b : At(n, k, b)
        BY <1>5
    <2>2. turn[n + 1] = Cut(turn[n], atOnce)
        BY <1>1
    <2>3. Tracks(recs, b, d, k) /\ Len(b.buf) = L /\ b.buf = a.buf /\ k \in Nat /\ b.head \in Nat
        BY <2>1 DEF Tracks, L
    <2>4. /\ ~Complete(recs, d + L, k) =>
                 /\ Tracks(recs, Cut(b, atOnce), d, k + 1)
                 /\ Cut(b, atOnce).buf = b.buf /\ Cut(b, atOnce).head > b.head
          /\ Complete(recs, d + L, k) => Cut(b, atOnce) = b \/ (atOnce /\ Extra(b, Cut(b, atOnce)))
        BY <2>3, CutTracks
    <2>5. CASE turn[n] = b /\ ~Complete(recs, d + L, k)
        <3> DEFINE c == Cut(b, atOnce)
        <3>1. Tracks(recs, c, d, k + 1) /\ c.buf = a.buf /\ c.head > b.head /\ c.head \in Nat
            BY <2>3, <2>4, <2>5 DEF Tracks
        <3>2. b.head >= n
            BY <2>1, <2>5
        <3>3. c.head >= n + 1
            BY <3>1, <3>2, <2>3
        <3>4. turn[n + 1] = c
            BY <2>2, <2>5
        <3> HIDE DEF c
        <3>5. At(n + 1, k + 1, c)
            BY <3>1, <3>3, <3>4
        <3> QED BY <3>5
    <2>6. CASE turn[n] = b /\ Complete(recs, d + L, k)
        <3>1. At(n + 1, k, b)
            BY <2>2, <2>3, <2>4, <2>6
        <3> QED BY <3>1
    <2>7. CASE atOnce /\ Extra(b, turn[n]) /\ Complete(recs, d + L, k)
        <3>1. turn[n + 1] = turn[n]
            BY <2>2, <2>3, <2>7, <1>2, ExtraStays
        <3>2. At(n + 1, k, b)
            BY <3>1, <2>3, <2>7
        <3> QED BY <3>2
    <2> QED BY <2>1, <2>5, <2>6, <2>7
<1> HIDE DEF T
<1>6. L \in T
    BY <1>2, <1>4, <1>5, Induct
<1>7. PICK k, b : At(L, k, b)
    BY <1>6 DEF T
<1>8. Complete(recs, d + L, k)
    <2> SUFFICES ASSUME b.head >= L, k # Len(recs) PROVE d + L < Ends(recs, k + 1)
        BY <1>7 DEF Complete
    <2>1. /\ b.head \in Nat /\ b.head <= L /\ d \in Nat /\ k \in Nat /\ k <= Len(recs) /\ d + b.head = Ends(recs, k)
        BY <1>7 DEF Tracks, L
    <2>2. k < Len(recs) /\ b.head = L
        BY <1>2, <2>1
    <2> DEFINE e == Len(EncodeRec(recs[k + 1]))
    <2>3. e \in Nat /\ e > 0 /\ Ends(recs, k + 1) = Ends(recs, k) + e
        BY <2>1, <2>2, EndsAre
    <2> HIDE DEF e
    <2> QED BY <1>2, <2>1, <2>2, <2>3
<1> QED BY <1>3, <1>7, <1>8 DEF L

-------------------------------------------------------------------------------
(* Dropping what was read moves the stretch, not what was handed out.       *)
LEMMA DroppedTracks ==
    ASSUME NEW recs \in Seq(WrittenRec), NEW a, NEW d, NEW m, Tracks(recs, a, d, m)
    PROVE  \E d2 : Tracks(recs, Dropped(a), d2, m) /\ d2 + Len(Dropped(a).buf) = d + Len(a.buf)
<1> DEFINE L == Len(a.buf)
           h == a.head
           N == Len(recs)
           x == SubSeq(a.buf, h + 1, L)
<1>1. /\ a.buf \in Seq(Byte) /\ h \in Nat /\ h <= L /\ L \in Nat
      /\ a = [buf |-> a.buf, head |-> h, out |-> a.out]
      /\ d \in Nat /\ m \in Nat /\ m <= N
      /\ d + h = Ends(recs, m) /\ d + L <= Ends(recs, N)
      /\ \A q \in 1..L : a.buf[q] = All(recs)[N][d + q]
      /\ a.out = Decoded(recs, m)
    BY DEF Tracks
<1>4. h \in Nat /\ h <= L /\ L \in Nat /\ d \in Nat
    BY <1>1
<1>2. CASE h > Compact
    <2>1. Dropped(a) = [buf |-> x, head |-> 0, out |-> a.out]
        <3> DEFINE o == a.out
                   B == a.buf
                   y == [a EXCEPT !.buf = x]
        <3>1. Dropped(a) = [a EXCEPT !.buf = x, !.head = 0]
            BY <1>2 DEF Dropped
        <3>2. a = [buf |-> B, head |-> h, out |-> o]
            BY <1>1
        <3> HIDE DEF x, h
        <3>3. [a EXCEPT !.buf = x, !.head = 0] = [[a EXCEPT !.buf = x] EXCEPT !.head = 0]
            OBVIOUS
        <3> HIDE DEF o, B
        <3>4. y = [buf |-> x, head |-> h, out |-> o]
            BY <3>2
        <3>5. [[a EXCEPT !.buf = x] EXCEPT !.head = 0] = [y EXCEPT !.head = 0]
            OBVIOUS
        <3> HIDE DEF y
        <3>6. [y EXCEPT !.head = 0] = [buf |-> x, head |-> 0, out |-> o]
            BY <3>4
        <3> QED BY <3>1, <3>3, <3>5, <3>6 DEF o
    <2>2. x \in Seq(Byte) /\ Len(x) = L - h /\ \A q \in 1..(L - h) : x[q] = a.buf[h + q]
        <3> DEFINE B == a.buf
                   f == h + 1
        <3>1. B \in Seq(Byte) /\ f \in Int /\ L \in Int /\ L = Len(B) /\ L - f + 1 = L - h
              /\ \A q \in 1..(L - h) : f + q - 1 = h + q
            BY <1>1
        <3>2. \A q \in f..L : B[q] \in Byte
            <4>1. \A q \in f..L : q \in 1..L
                BY <1>1
            <4> QED BY <4>1, <1>1
        <3>3. L - h = IF f <= L THEN L - f + 1 ELSE 0
            <4> HIDE DEF L, h
            <4> QED BY <1>4
        <3> HIDE DEF B, f, L, h
        <3>4. /\ SubSeq(B, f, L) \in Seq(Byte)
              /\ Len(SubSeq(B, f, L)) = IF f <= L THEN L - f + 1 ELSE 0
              /\ \A q \in 1..(L - f + 1) : SubSeq(B, f, L)[q] = B[f + q - 1]
            BY <3>1, <3>2, SubSeqProperties
        <3> QED BY <3>1, <3>3, <3>4 DEF f, B, x
    <2> HIDE DEF x, L, N, h
    <2>8. d + h = Ends(recs, m) /\ d + L <= Ends(recs, N)
        BY <1>1
    <2>3. /\ d + h \in Nat /\ (d + h) + 0 = Ends(recs, m) /\ (d + h) + (L - h) = d + L
          /\ 0 <= L - h /\ (d + h) + (L - h) <= Ends(recs, N) /\ 0 \in Nat
          /\ \A q \in 1..(L - h) : h + q \in 1..L /\ (d + h) + q = d + (h + q)
        BY <1>4, <2>8
    <2>4. \A q \in 1..Len(x) : x[q] = All(recs)[N][(d + h) + q]
        BY <1>1, <2>2, <2>3
    <2> DEFINE b == [buf |-> x, head |-> 0, out |-> a.out]
    <2>5. b.buf = x /\ b.head = 0 /\ b.out = a.out /\ b = [buf |-> b.buf, head |-> b.head, out |-> b.out]
        OBVIOUS
    <2>6. Dropped(a) = b
        BY <2>1
    <2> HIDE DEF b
    <2>9. m \in Nat /\ m <= N /\ a.out = Decoded(recs, m) /\ x \in Seq(Byte) /\ Len(x) = L - h
        BY <1>1, <2>2
    <2> DEFINE D == d + h
    <2>10. D \in Nat /\ D + 0 = Ends(recs, m) /\ D + Len(x) <= Ends(recs, N) /\ 0 <= Len(x) /\ 0 \in Nat
        BY <2>3, <2>9
    <2>11. \A q \in 1..Len(x) : x[q] = All(recs)[N][D + q]
        BY <2>4
    <2> HIDE DEF D
    <2>12. Tracks(recs, b, D, m)
        BY <2>5, <2>9, <2>10, <2>11 DEF Tracks, N
    <2>7. Tracks(recs, b, d + h, m)
        BY <2>12 DEF D
    <2> QED BY <2>2, <2>3, <2>5, <2>6, <2>7 DEF L
<1>3. CASE ~(h > Compact)
    BY <1>3 DEF Dropped
<1> QED BY <1>2, <1>3

Arrived(a, chunk) == [a EXCEPT !.buf = @ \o chunk]

(* A chunk that goes on where the buffer ends keeps the buffer a stretch of *)
(* the records.                                                             *)
LEMMA ArrivedTracks ==
    ASSUME NEW recs \in Seq(WrittenRec), NEW a, NEW d, NEW m, Tracks(recs, a, d, m), NEW chunk \in Seq(Byte),
           d + Len(a.buf) + Len(chunk) <= Ends(recs, Len(recs)),
           \A q \in 1..Len(chunk) : chunk[q] = All(recs)[Len(recs)][d + Len(a.buf) + q]
    PROVE  /\ Tracks(recs, Arrived(a, chunk), d, m)
           /\ Len(Arrived(a, chunk).buf) = Len(a.buf) + Len(chunk)
<1> DEFINE L == Len(a.buf)
           C == Len(chunk)
           h == a.head
           N == Len(recs)
           x == Appended(a.buf, chunk)
           b == Arrived(a, chunk)
<1>1. /\ a.buf \in Seq(Byte) /\ h \in Nat /\ h <= L /\ L \in Nat /\ C \in Nat
      /\ a = [buf |-> a.buf, head |-> h, out |-> a.out]
      /\ d \in Nat /\ m \in Nat /\ m <= N
      /\ d + h = Ends(recs, m)
      /\ \A q \in 1..L : a.buf[q] = All(recs)[N][d + q]
      /\ a.out = Decoded(recs, m)
    BY DEF Tracks
<1>2. /\ x \in Seq(Byte) /\ Len(x) = L + C
      /\ \A q \in 1..L : x[q] = a.buf[q]
      /\ \A q \in 1..C : x[L + q] = chunk[q]
    BY <1>1, JoinedIs
<1>3. b = [buf |-> x, head |-> h, out |-> a.out]
    <2> DEFINE o == a.out
               B == a.buf
    <2>1. a = [buf |-> B, head |-> h, out |-> o]
        BY <1>1
    <2>2. b = [a EXCEPT !.buf = x]
        BY DEF Appended, Arrived
    <2> HIDE DEF x, h, o, B, b
    <2>3. [a EXCEPT !.buf = x] = [buf |-> x, head |-> h, out |-> o]
        BY <2>1
    <2> QED BY <2>2, <2>3 DEF o
<1>4. d + L + C <= Ends(recs, N) /\ \A q \in 1..C : chunk[q] = All(recs)[N][d + L + q]
    OBVIOUS
<1> HIDE DEF L, C, h, N, x, b
<1>5. b.buf = x /\ b.head = h /\ b.out = a.out
    BY <1>3
<1>6. \A q \in 1..Len(x) : x[q] = All(recs)[N][d + q]
    <2> SUFFICES ASSUME NEW q \in 1..Len(x) PROVE x[q] = All(recs)[N][d + q]
        OBVIOUS
    <2>0. Len(x) = L + C
        BY <1>2
    <2>1. CASE q <= L
        <3>1. q \in 1..L
            BY <2>0, <2>1, <1>1
        <3> QED BY <3>1, <1>1, <1>2
    <2>2. CASE q > L
        <3> DEFINE p == q - L
        <3>1. p \in 1..C /\ q = L + p /\ d + L + p = d + q
            <4>1. L \in Nat /\ C \in Nat /\ d \in Nat /\ q \in Nat /\ q <= L + C
                BY <1>1, <2>0
            <4>2. p \in Int /\ p >= 1 /\ p <= C
                BY <4>1, <2>2
            <4> QED BY <4>1, <4>2
        <3> HIDE DEF p
        <3> QED BY <3>1, <1>2, <1>4
    <2> QED BY <2>0, <2>1, <2>2, <1>1
<1>7. h <= Len(x) /\ d + Len(x) <= Ends(recs, N)
    <2>1. Len(x) = L + C
        BY <1>2
    <2> QED BY <2>1, <1>1, <1>4
<1>8. Tracks(recs, b, d, m)
    BY <1>1, <1>2, <1>3, <1>5, <1>6, <1>7 DEF Tracks, N
<1>9. Len(b.buf) = Len(a.buf) + Len(chunk)
    BY <1>2, <1>5 DEF L, C
<1> QED BY <1>8, <1>9 DEF b

(* Chunks of which the bytes, joined, are the first bytes of the records.   *)
Beginning(chunks, recs) ==
    /\ Len(Joint(chunks)[Len(chunks)]) <= Ends(recs, Len(recs))
    /\ \A q \in 1..Len(Joint(chunks)[Len(chunks)]) :
          Joint(chunks)[Len(chunks)][q] = All(recs)[Len(recs)][q]

(* Nothing was handed out yet.                                              *)
LEMMA FreshTracks ==
    ASSUME NEW recs \in Seq(WrittenRec), NEW bs \in Seq(Byte), Len(bs) <= Ends(recs, Len(recs)),
           \A q \in 1..Len(bs) : bs[q] = All(recs)[Len(recs)][q]
    PROVE  Tracks(recs, Fresh(bs), 0, 0) /\ Fresh(bs).buf = bs
<1> DEFINE b == Fresh(bs)
           N == Len(recs)
<1>1. b = [buf |-> bs, head |-> 0, out |-> <<>>]
    BY DEF Fresh
<1>2. Ends(recs, 0) = 0 /\ N \in Nat /\ Len(bs) \in Nat
    BY EndsAre
<1>3. Decoded(recs, 0) = <<>>
    <2>1. 1..0 = {}
        OBVIOUS
    <2> QED BY <2>1 DEF Decoded
<1> HIDE DEF b
<1>4. b.buf = bs /\ b.head = 0 /\ b.out = <<>> /\ b = [buf |-> b.buf, head |-> b.head, out |-> b.out]
    BY <1>1
<1>5. /\ 0 \in Nat /\ 0 <= Len(bs) /\ 0 <= N /\ 0 + 0 = Ends(recs, 0) /\ 0 + Len(bs) <= Ends(recs, N)
      /\ \A q \in 1..Len(bs) : 0 + q = q
    BY <1>2 DEF N
<1>6. \A q \in 1..Len(bs) : bs[q] = All(recs)[N][0 + q]
    BY <1>5 DEF N
<1> HIDE DEF N
<1>7. Tracks(recs, b, 0, 0)
    BY <1>3, <1>4, <1>5, <1>6 DEF Tracks, N
<1> QED BY <1>4, <1>7 DEF b

(* After every chunk the complete records of what has arrived were handed out. *)
LEMMA FedTrack ==
    ASSUME NEW recs \in Seq(WrittenRec), NEW chunks \in Seq(Seq(Byte)), Beginning(chunks, recs)
    PROVE  \E d, m : /\ Tracks(recs, Fed(chunks)[Len(chunks)], d, m)
                     /\ d + Len(Fed(chunks)[Len(chunks)].buf) = Len(Joint(chunks)[Len(chunks)])
                     /\ Complete(recs, Len(Joint(chunks)[Len(chunks)]), m)
<1> DEFINE K == Len(chunks)
           N == Len(recs)
           fed == Fed(chunks)
           size(n) == Len(Joint(chunks)[n])
           At(n, d, m) == Tracks(recs, fed[n], d, m) /\ d + Len(fed[n].buf) = size(n) /\ Complete(recs, size(n), m)
           T == {n \in Nat : n <= K => \E d, m : At(n, d, m)}
<1>1. fed[0] = Fresh(<<>>) /\ \A n \in Nat : fed[n + 1] = Feed(fed[n], chunks[n + 1])
    BY FedAre
<1>2. K \in Nat /\ N \in Nat
    OBVIOUS
<1>3. /\ Joint(chunks)[0] = <<>>
      /\ \A n \in Nat : n <= K => Joint(chunks)[n] \in Seq(Byte)
      /\ \A n \in Nat : n < K => Joint(chunks)[n + 1] = Appended(Joint(chunks)[n], chunks[n + 1]) /\ chunks[n + 1] \in Seq(Byte)
    BY JointBytes
<1>4. \A n \in Nat : n <= K => size(n) \in Nat
    BY <1>3
<1>5. \A n \in Nat : n <= K => size(n) <= size(K) /\ \A q \in 1..size(n) : Joint(chunks)[K][q] = Joint(chunks)[n][q]
    <2> SUFFICES ASSUME NEW n \in Nat, n <= K
                 PROVE  size(n) <= size(K) /\ \A q \in 1..size(n) : Joint(chunks)[K][q] = Joint(chunks)[n][q]
        OBVIOUS
    <2>1. K <= Len(chunks)
        BY <1>2
    <2> HIDE DEF K
    <2> QED BY <1>2, <2>1, JointGrows
<1>6. size(K) <= Ends(recs, N) /\ \A q \in 1..size(K) : Joint(chunks)[K][q] = All(recs)[N][q]
    BY DEF Beginning
<1>7. Ends(recs, N) \in Nat
    BY <1>2, EndsAre
<1> HIDE DEF K, N, fed
<1>8. 0 \in T
    <2>1. size(0) = 0
        BY <1>3
    <2>2. Tracks(recs, Fresh(<<>>), 0, 0) /\ Fresh(<<>>).buf = <<>>
        <3> DEFINE bs == <<>>
        <3>1. bs \in Seq(Byte) /\ Len(bs) = 0
            BY EmptySeq
        <3>2. Len(bs) <= Ends(recs, N) /\ \A q \in 1..Len(bs) : bs[q] = All(recs)[N][q]
            BY <1>7, <3>1
        <3> HIDE DEF bs
        <3> QED BY <3>1, <3>2, FreshTracks DEF N, bs
    <2>3. Complete(recs, 0, 0)
        <3> SUFFICES ASSUME N # 0 PROVE 0 < Ends(recs, 0 + 1)
            BY DEF Complete, N
        <3> DEFINE e == Len(EncodeRec(recs[0 + 1]))
        <3>1. Ends(recs, 0 + 1) = Ends(recs, 0) + e /\ e \in Nat /\ e > 0 /\ Ends(recs, 0) = 0
            BY <1>2, EndsAre DEF N
        <3> HIDE DEF e
        <3> QED BY <3>1
    <2>4. 0 + Len(fed[0].buf) = size(0)
        BY <1>1, <2>1, <2>2
    <2> HIDE DEF size
    <2>5. At(0, 0, 0)
        BY <1>1, <2>1, <2>2, <2>3, <2>4
    <2> QED BY <2>5
<1>9. ASSUME NEW n \in Nat, n \in T PROVE n + 1 \in T
    <2> SUFFICES ASSUME n + 1 <= K PROVE \E d, m : At(n + 1, d, m)
        OBVIOUS
    <2>1. n <= K /\ n < K /\ n + 1 \in Nat
        BY <1>2
    <2>2. PICK d, m : At(n, d, m)
        BY <1>9, <2>1
    <2> DEFINE a == fed[n]
               c == chunks[n + 1]
               x == Arrived(a, c)
               S == size(n + 1)
    <2>3. Tracks(recs, a, d, m) /\ c \in Seq(Byte) /\ d + Len(a.buf) = size(n) /\ size(n) \in Nat
        BY <1>3, <1>4, <2>1, <2>2
    <2>4. S = size(n) + Len(c) /\ \A q \in 1..Len(c) : Joint(chunks)[n + 1][size(n) + q] = c[q]
        <3> DEFINE u == Joint(chunks)[n]
        <3>1. u \in Seq(Byte) /\ c \in Seq(Byte) /\ Joint(chunks)[n + 1] = Appended(u, c)
            BY <1>3, <2>1
        <3> HIDE DEF u, c
        <3>2. Len(Appended(u, c)) = Len(u) + Len(c) /\ \A q \in 1..Len(c) : Appended(u, c)[Len(u) + q] = c[q]
            BY <3>1, JoinedIs
        <3> QED BY <3>1, <3>2 DEF u
    <2>5. S <= size(K) /\ S \in Nat /\ \A q \in 1..S : Joint(chunks)[K][q] = Joint(chunks)[n + 1][q]
        BY <1>4, <1>5, <2>1
    <2>6. Len(c) \in Nat
        BY <2>3
    <2>7. d + Len(a.buf) + Len(c) <= Ends(recs, N)
        <3>1. size(K) \in Nat
            BY <1>2, <1>4
        <3> HIDE DEF size, S, a, c
        <3>2. d + Len(a.buf) + Len(c) = S
            BY <2>3, <2>4
        <3> QED BY <3>1, <3>2, <2>5, <1>6, <1>7
    <2>8. ASSUME NEW q \in 1..Len(c) PROVE c[q] = All(recs)[N][d + Len(a.buf) + q]
        <3> HIDE DEF size, S, a, c
        <3>1. size(n) + q \in 1..S /\ d + Len(a.buf) + q = size(n) + q
            BY <2>3, <2>4, <2>6, WithinSum
        <3>2. size(n) + q \in 1..size(K)
            <4>1. size(K) \in Nat
                BY <1>2, <1>4 DEF size
            <4> QED BY <4>1, <3>1, <2>5
        <3> QED BY <3>1, <3>2, <2>4, <2>5, <1>6 DEF size, S
    <2>9. Tracks(recs, x, d, m) /\ Len(x.buf) = Len(a.buf) + Len(c)
        <3> HIDE DEF a, c, size
        <3> QED BY <2>3, <2>7, <2>8, ArrivedTracks DEF N
    <2>10. fed[n + 1] = Dropped(Parsed(x, FALSE))
        BY <1>1 DEF Feed, Arrived
    <2> HIDE DEF x, a, c, S, size
    <2>11. d + Len(x.buf) = S
        <3>1. d \in Nat /\ Len(a.buf) \in Nat
            BY <2>3 DEF Tracks
        <3> QED BY <3>1, <2>3, <2>4, <2>6, <2>9
    <2>12. PICK m2, b : /\ Tracks(recs, b, d, m2) /\ b.buf = x.buf /\ Complete(recs, d + Len(x.buf), m2)
                        /\ Parsed(x, FALSE) = b
        BY <2>9, TurnsTrack
    <2>13. PICK d2 : Tracks(recs, Dropped(b), d2, m2) /\ d2 + Len(Dropped(b).buf) = d + Len(b.buf)
        BY <2>12, DroppedTracks
    <2>14. fed[n + 1] = Dropped(b)
        BY <2>10, <2>12
    <2>15. At(n + 1, d2, m2)
        BY <2>11, <2>12, <2>13, <2>14 DEF S
    <2> QED BY <2>15
<1> HIDE DEF T
<1>10. K \in T
    BY <1>2, <1>8, <1>9, Induct
<1>11. PICK d, m : At(K, d, m)
    BY <1>2, <1>10 DEF T
<1> QED BY <1>11 DEF K, fed

(* There is one number of complete records.                                 *)
LEMMA OneNumber ==
    ASSUME NEW recs \in Seq(WrittenRec), NEW n \in Nat, NEW m \in Nat, NEW k \in Nat,
           m <= Len(recs), k <= Len(recs), Ends(recs, m) <= n, Ends(recs, k) <= n,
           Complete(recs, n, m), Complete(recs, n, k)
    PROVE  m = k
<1>1. ASSUME NEW i \in Nat, NEW j \in Nat, i < j, j <= Len(recs), Ends(recs, j) <= n, Complete(recs, n, i)
      PROVE  FALSE
    <2>1. i # Len(recs) /\ i + 1 <= j /\ i + 1 \in Nat /\ i + 1 <= Len(recs)
        BY <1>1
    <2>2. n < Ends(recs, i + 1)
        BY <1>1, <2>1 DEF Complete
    <2>3. Ends(recs, i + 1) <= Ends(recs, j) /\ Ends(recs, i + 1) \in Nat /\ Ends(recs, j) \in Nat
        BY <1>1, <2>1, EndsAre
    <2> QED BY <1>1, <2>2, <2>3
<1>2. ~(m < k)
    BY <1>1
<1>3. ~(k < m)
    BY <1>1
<1> QED BY <1>2, <1>3

(* What the stream yields of such chunks, and what the whole gives at once. *)
LEMMA RecordsAreRead ==
    ASSUME NEW recs \in Seq(WrittenRec), NEW chunks \in Seq(Seq(Byte)), Beginning(chunks, recs)
    PROVE  LET whole == Joint(chunks)[Len(chunks)]
               batch == ReadRecords(whole)
           IN \E m \in 0..Len(recs) :
                /\ Ends(recs, m) <= Len(whole)
                /\ m < Len(recs) => Len(whole) < Ends(recs, m + 1)
                /\ Streamed(chunks) = Decoded(recs, m)
                /\ \/ batch = Decoded(recs, m)
                   \/ Len(batch) = m + 1 /\ SubSeq(batch, 1, m) = Decoded(recs, m) /\ batch[m + 1].data = <<>>
<1> DEFINE K == Len(chunks)
           N == Len(recs)
           whole == Joint(chunks)[K]
           batch == ReadRecords(whole)
           fed == Fed(chunks)[K]
           Same(m) == \/ batch = Decoded(recs, m)
                      \/ Len(batch) = m + 1 /\ SubSeq(batch, 1, m) = Decoded(recs, m) /\ batch[m + 1].data = <<>>
<1> SUFFICES \E m \in 0..N : /\ Ends(recs, m) <= Len(whole)
                             /\ m < N => Len(whole) < Ends(recs, m + 1)
                             /\ Streamed(chunks) = Decoded(recs, m)
                             /\ Same(m)
    OBVIOUS
<1>1. K \in Nat /\ N \in Nat /\ whole \in Seq(Byte) /\ Len(whole) \in Nat
    <2>1. K \in Nat /\ N \in Nat /\ K <= K
        OBVIOUS
    <2>2. whole \in Seq(Byte)
        BY <2>1, JointBytes
    <2> QED BY <2>1, <2>2
<1>2. Len(whole) <= Ends(recs, N) /\ \A q \in 1..Len(whole) : whole[q] = All(recs)[N][q]
    BY DEF Beginning
<1>3. PICK d, m : Tracks(recs, fed, d, m) /\ d + Len(fed.buf) = Len(whole) /\ Complete(recs, Len(whole), m)
    BY FedTrack
<1>4. Streamed(chunks) = fed.out
    BY DEF Streamed
<1>5. ReadRecords(whole) = Parsed(Fresh(whole), TRUE).out
    BY DEF ReadRecords
<1>6. Tracks(recs, Fresh(whole), 0, 0) /\ Fresh(whole).buf = whole
    <2> HIDE DEF whole, N
    <2> QED BY <1>1, <1>2, FreshTracks DEF N
<1> HIDE DEF K, N, whole, fed
<1>7. /\ d \in Nat /\ m \in Nat /\ m <= N /\ fed.out = Decoded(recs, m)
      /\ Ends(recs, m) <= Len(whole)
    <2>1. /\ d \in Nat /\ m \in Nat /\ m <= N /\ fed.out = Decoded(recs, m)
          /\ fed.head \in Nat /\ fed.head <= Len(fed.buf) /\ d + fed.head = Ends(recs, m) /\ fed.buf \in Seq(Byte)
        BY <1>3 DEF Tracks, N
    <2>2. Len(fed.buf) \in Nat
        BY <2>1
    <2> QED BY <1>3, <2>1, <2>2
<1> DEFINE start == Fresh(whole)
           got == Parsed(start, TRUE)
<1> HIDE DEF start
<1>8. PICK k, b : /\ Tracks(recs, b, 0, k) /\ b.buf = start.buf /\ Complete(recs, 0 + Len(start.buf), k)
                  /\ got = b \/ Extra(b, got)
    BY <1>6, TurnsTrack DEF start
<1>9. start.buf = whole /\ 0 + Len(start.buf) = Len(whole)
    BY <1>1, <1>6 DEF start
<1>10. k \in Nat /\ k <= N /\ b.out = Decoded(recs, k) /\ Ends(recs, k) <= Len(whole) /\ Complete(recs, Len(whole), k)
    <2>1. /\ k \in Nat /\ k <= N /\ b.out = Decoded(recs, k)
          /\ b.head \in Nat /\ b.head <= Len(b.buf) /\ 0 + b.head = Ends(recs, k)
        BY <1>8 DEF Tracks, N
    <2>2. Len(b.buf) = Len(whole)
        BY <1>8, <1>9
    <2>3. Complete(recs, Len(whole), k)
        BY <1>8, <1>9
    <2> QED BY <1>1, <2>1, <2>2, <2>3
<1>11. k = m
    BY <1>1, <1>3, <1>7, <1>10, OneNumber DEF N
<1>12. batch = got.out
    BY <1>5 DEF start
<1>13. ASSUME got = b PROVE Same(m)
    <2>1. batch = Decoded(recs, m)
        BY <1>10, <1>11, <1>12, <1>13
    <2> QED BY <2>1
<1>14. ASSUME Extra(b, got) PROVE Same(m)
    <2>1. PICK r : got.out = Append(b.out, r) /\ r.data = <<>>
        BY <1>14 DEF Extra
    <2> DEFINE x == Decoded(recs, m)
               F(i) == [id |-> IdAt(recs[i].id, 1), data |-> recs[i].data]
               U == {F(i) : i \in 1..m} \cup {r}
    <2>2. x \in Seq(U) /\ Len(x) = m
        <3>1. x \in [1..m -> U]
            BY DEF Decoded
        <3> HIDE DEF U, x
        <3>2. x \in Seq(U)
            BY <1>7, <3>1, SeqDef
        <3> QED BY <1>7, <3>1, <3>2, LenProperties
    <2>3. r \in U
        OBVIOUS
    <2> HIDE DEF U, x
    <2>4. batch = Append(x, r)
        BY <1>10, <1>11, <1>12, <2>1 DEF x
    <2>5. batch \in Seq(U) /\ Len(batch) = m + 1 /\ (\A i \in 1..m : batch[i] = x[i]) /\ batch[m + 1] = r
        <3>1. /\ Append(x, r) \in Seq(U) /\ Len(Append(x, r)) = Len(x) + 1
              /\ (\A i \in 1..Len(x) : Append(x, r)[i] = x[i]) /\ Append(x, r)[Len(x) + 1] = r
            BY <2>2, <2>3, AppendProperties
        <3> QED BY <3>1, <2>2, <2>4
    <2> DEFINE y == SubSeq(batch, 1, m)
    <2> HIDE DEF batch
    <2>6. y \in Seq(U) /\ Len(y) = m /\ \A i \in 1..m : y[i] = batch[i]
        <3>1. 1 \in Int /\ m \in Int /\ m - 1 + 1 = m /\ (m = IF 1 <= m THEN m - 1 + 1 ELSE 0)
              /\ \A i \in 1..m : 1 + i - 1 = i
            BY <1>7
        <3>2. \A i \in 1..m : batch[i] \in U
            <4>1. \A i \in 1..m : i \in 1..(m + 1)
                BY <1>7
            <4> QED BY <4>1, <2>5
        <3>3. /\ SubSeq(batch, 1, m) \in Seq(U)
              /\ Len(SubSeq(batch, 1, m)) = IF 1 <= m THEN m - 1 + 1 ELSE 0
              /\ \A i \in 1..(m - 1 + 1) : SubSeq(batch, 1, m)[i] = batch[1 + i - 1]
            BY <3>1, <3>2, SubSeqProperties
        <3> QED BY <3>1, <3>3
    <2> HIDE DEF y
    <2>7. y = x
        BY <2>2, <2>5, <2>6, SeqEqual
    <2>8. Len(batch) = m + 1 /\ SubSeq(batch, 1, m) = Decoded(recs, m) /\ batch[m + 1].data = <<>>
        BY <2>1, <2>5, <2>7 DEF x, y
    <2> QED BY <2>8
<1>15. Same(m)
    BY <1>8, <1>13, <1>14
<1>16. m \in 0..N /\ (m < N => Len(whole) < Ends(recs, m + 1))
    BY <1>1, <1>3, <1>7 DEF Complete, N
<1> HIDE DEF Same
<1> QED BY <1>4, <1>7, <1>15, <1>16

-------------------------------------------------------------------------------
(* A part as it was written, of which any number of bytes arrive in any     *)
(* number of chunks of any size.                                            *)
RecordsInit ==
    /\ \E recs \in Seq(WrittenRec), chunks \in Seq(Seq(Byte)) :
          Beginning(chunks, recs) /\ call = [fn |-> "records", wrote |-> recs, chunks |-> chunks]
    /\ answer = Pending
RecordsSpec == RecordsInit /\ [][RecordsStep]_cvars

(* Whatever was written and however it arrives: the stream yields the       *)
(* records that are complete, once and in order, also where it drops what   *)
(* it has read; the part read at once gives the same, and perhaps a last    *)
(* empty record (xlsb.cpp:68-92, 264-310).                                  *)
THEOREM StreamIsWholeHolds == RecordsSpec => []StreamIsWhole
<1> DEFINE Asks(recs, chunks) ==
               /\ recs \in Seq(WrittenRec) /\ chunks \in Seq(Seq(Byte)) /\ Beginning(chunks, recs)
               /\ call = [fn |-> "records", wrote |-> recs, chunks |-> chunks]
           Inv == (\E recs, chunks : Asks(recs, chunks)) /\ StreamIsWhole
<1>1. RecordsInit => Inv
    <2> SUFFICES ASSUME RecordsInit PROVE Inv
        OBVIOUS
    <2>1. \E recs, chunks : Asks(recs, chunks)
        BY DEF RecordsInit
    <2>2. StreamIsWhole
        BY DEF RecordsInit, StreamIsWhole, Got, Answered, Pending
    <2> QED BY <2>1, <2>2
<1>2. Inv /\ [RecordsStep]_cvars => Inv'
    <2> SUFFICES ASSUME Inv, [RecordsStep]_cvars PROVE Inv'
        OBVIOUS
    <2>1. PICK recs, chunks : Asks(recs, chunks)
        OBVIOUS
    <2>2. CASE RecordsStep
        <3>1. call' = call /\ call.wrote = recs /\ call.chunks = chunks
            BY <2>1, <2>2 DEF RecordsStep, Return
        <3> DEFINE whole == Joint(chunks)[Len(chunks)]
                   got == [batch |-> ReadRecords(whole), stream |-> Streamed(chunks)]
        <3>2. answer'.value = got
            BY <2>2, <3>1 DEF RecordsStep, Return
        <3>3. got.batch = ReadRecords(whole) /\ got.stream = Streamed(chunks)
            OBVIOUS
        <3> HIDE DEF got
        <3>4. StreamIsWhole'
            <4> DEFINE batch == ReadRecords(whole)
            <4>1. PICK m \in 0..Len(recs) :
                    /\ Ends(recs, m) <= Len(whole)
                    /\ m < Len(recs) => Len(whole) < Ends(recs, m + 1)
                    /\ Streamed(chunks) = Decoded(recs, m)
                    /\ \/ batch = Decoded(recs, m)
                       \/ Len(batch) = m + 1 /\ SubSeq(batch, 1, m) = Decoded(recs, m) /\ batch[m + 1].data = <<>>
                BY <2>1, RecordsAreRead
            <4>2. call'.wrote = recs /\ call'.chunks = chunks /\ answer'.value.stream = Streamed(chunks)
                  /\ answer'.value.batch = batch
                BY <3>1, <3>2, <3>3
            <4> HIDE DEF batch, whole
            <4> QED BY <4>1, <4>2 DEF StreamIsWhole, Ends, All, whole
        <3> QED BY <2>1, <3>1, <3>4
    <2>3. CASE UNCHANGED cvars
        BY <2>1, <2>3 DEF StreamIsWhole, cvars, Got, Answered
    <2> QED BY <2>2, <2>3
<1> QED BY <1>1, <1>2, PTL DEF RecordsSpec

-------------------------------------------------------------------------------
(* The loops of the protobuf writer and reader, of the handlers, and the    *)
(* value a parameter has after so many fields.                              *)
LEMMA EmittedIs ==
    ASSUME NEW v
    PROVE  /\ Emitted(v)[0] = [out |-> <<>>, rest |-> v]
           /\ \A k \in Nat : Emitted(v)[k + 1] = Emit(Emitted(v)[k])
<1> DEFINE p == [does |-> "emit"]
           s == [out |-> <<>>, rest |-> v]
           f == Emitted(v)
<1>1. p.does = "emit"
    OBVIOUS
<1> HIDE DEF p
<1>2. \A k, x : Turn(p, k, x) = Emit(x)
    BY <1>1 DEF Turn
<1>3. f = CHOOSE g : g = [k \in Nat |-> IF k = 0 THEN s ELSE Emit(g[k - 1])]
    BY DEF Emitted
<1> HIDE DEF s
<1>4. f = CHOOSE g : Recursion(g, p, s)
    BY <1>2, <1>3 DEF Recursion
<1> HIDE DEF f
<1>5. Turned(f, p, s)
    BY <1>4, Chosen
<1> QED BY <1>2, <1>5 DEF Turned, f, s

LEMMA GroupsAre ==
    ASSUME NEW bs, NEW i
    PROVE  /\ Groups(bs, i)[0] = [v |-> 0, weight |-> 1, next |-> i, ended |-> FALSE]
           /\ \A k \in Nat : Groups(bs, i)[k + 1] = AddGroup(Groups(bs, i)[k], bs)
<1> DEFINE p == [does |-> "groups", path |-> bs]
           s == [v |-> 0, weight |-> 1, next |-> i, ended |-> FALSE]
           f == Groups(bs, i)
<1>1. p.does = "groups" /\ p.path = bs
    OBVIOUS
<1> HIDE DEF p
<1>2. \A k, x : Turn(p, k, x) = AddGroup(x, bs)
    BY <1>1 DEF Turn
<1>3. f = CHOOSE g : g = [k \in Nat |-> IF k = 0 THEN s ELSE AddGroup(g[k - 1], bs)]
    BY DEF Groups
<1> HIDE DEF s
<1>4. f = CHOOSE g : Recursion(g, p, s)
    BY <1>2, <1>3 DEF Recursion
<1> HIDE DEF f
<1>5. Turned(f, p, s)
    BY <1>4, Chosen
<1> QED BY <1>2, <1>5 DEF Turned, f, s

LEMMA BufferIs ==
    ASSUME NEW fields
    PROVE  /\ Buffer(fields)[0] = <<>>
           /\ \A k \in Nat : Buffer(fields)[k + 1] = Appended(Buffer(fields)[k], WriteField(fields[k + 1]))
<1> DEFINE p == [does |-> "write", path |-> fields]
           f == Buffer(fields)
<1>1. p.does = "write" /\ p.path = fields
    OBVIOUS
<1> HIDE DEF p
<1>2. \A k, x : Turn(p, k, x) = Appended(x, WriteField(fields[k]))
    BY <1>1 DEF Turn
<1>3. f = CHOOSE g : g = [k \in Nat |-> IF k = 0 THEN <<>> ELSE Appended(g[k - 1], WriteField(fields[k]))]
    BY DEF Buffer, Appended
<1>4. f = CHOOSE g : Recursion(g, p, <<>>)
    BY <1>2, <1>3 DEF Recursion
<1> HIDE DEF f
<1>5. Turned(f, p, <<>>)
    BY <1>4, Chosen
<1> QED BY <1>2, <1>5 DEF Turned, f

LEMMA TakenIs ==
    ASSUME NEW bs
    PROVE  /\ Taken(bs)[0] = [out |-> <<>>, next |-> 1, more |-> TRUE]
           /\ \A k \in Nat : Taken(bs)[k + 1] = Take(Taken(bs)[k], bs)
<1> DEFINE p == [does |-> "take", path |-> bs]
           s == [out |-> <<>>, next |-> 1, more |-> TRUE]
           f == Taken(bs)
<1>1. p.does = "take" /\ p.path = bs
    OBVIOUS
<1> HIDE DEF p
<1>2. \A k, x : Turn(p, k, x) = Take(x, bs)
    BY <1>1 DEF Turn
<1>3. f = CHOOSE g : g = [k \in Nat |-> IF k = 0 THEN s ELSE Take(g[k - 1], bs)]
    BY DEF Taken
<1> HIDE DEF s
<1>4. f = CHOOSE g : Recursion(g, p, s)
    BY <1>2, <1>3 DEF Recursion
<1> HIDE DEF f
<1>5. Turned(f, p, s)
    BY <1>4, Chosen
<1> QED BY <1>2, <1>5 DEF Turned, f, s

Passed(v, fields, n, default) ==
    /\ v[0] = default
    /\ \A k \in Nat : v[k + 1] = IF fields[k + 1].field = n THEN fields[k + 1].v ELSE v[k]

LEMMA SoFarIs ==
    ASSUME NEW fields, NEW n, NEW default
    PROVE  Passed(SoFar(fields, n, default), fields, n, default)
<1> DEFINE p == [does |-> "param", path |-> fields, node |-> n]
           f == SoFar(fields, n, default)
<1>1. p.does = "param" /\ p.path = fields /\ p.node = n
    OBVIOUS
<1> HIDE DEF p
<1>2. \A k, x : Turn(p, k, x) = IF fields[k].field = n THEN fields[k].v ELSE x
    BY <1>1 DEF Turn
<1>3. f = CHOOSE g : g = [k \in Nat |-> IF k = 0 THEN default
                              ELSE IF fields[k].field = n THEN fields[k].v ELSE g[k - 1]]
    BY DEF SoFar
<1>4. f = CHOOSE g : Recursion(g, p, default)
    BY <1>2, <1>3 DEF Recursion
<1> HIDE DEF f
<1>5. Turned(f, p, default)
    BY <1>4, Chosen
<1> QED BY <1>2, <1>5 DEF Turned, Passed, f

-------------------------------------------------------------------------------
(* The numbers of 64 bits, and those of 32.                                 *)
Word == {v \in Nat : v < 128 * (128 * (128 * (128 * (128 * (128 * (128 * (128 * (128 * 2))))))))}
ShortWord == {v \in Nat : v < 256 * (256 * (256 * 256))}

LEMMA ShortIsWord == ShortWord \subseteq Word
<1> DEFINE b == 256 * 256
           c == 128 * (128 * (128 * 2))
<1>1. \A x, y \in Nat : x <= y => 256 * x \in Nat /\ 128 * (128 * y) \in Nat /\ 256 * x <= 128 * (128 * y)
    OBVIOUS
<1>2. \A y \in Nat : 128 * (128 * y) \in Nat /\ y <= 128 * (128 * y)
    OBVIOUS
<1>3. b \in Nat /\ c \in Nat /\ b <= c
    OBVIOUS
<1>4. ShortWord = {v \in Nat : v < 256 * (256 * b)}
    BY DEF ShortWord
<1>5. Word = {v \in Nat : v < 128 * (128 * (128 * (128 * (128 * (128 * c)))))}
    BY DEF Word
<1> HIDE DEF b, c
<1> DEFINE b3 == 256 * b
           b4 == 256 * b3
           c5 == 128 * (128 * c)
           c7 == 128 * (128 * c5)
           c9 == 128 * (128 * c7)
<1>6. b3 \in Nat /\ c5 \in Nat /\ b3 <= c5
    BY <1>1, <1>3
<1>9. ShortWord = {v \in Nat : v < b4} /\ Word = {v \in Nat : v < c9}
    BY <1>4, <1>5
<1> HIDE DEF b3, c5
<1>7. b4 \in Nat /\ c7 \in Nat /\ b4 <= c7
    BY <1>1, <1>6
<1> HIDE DEF b4, c7
<1>8. c9 \in Nat /\ c7 <= c9
    BY <1>2, <1>7
<1> HIDE DEF c9
<1> QED BY <1>7, <1>8, <1>9

(* A group less is a number less wide.                                      *)
LEMMA Narrower ==
    \A x, c \in Nat : x < 128 * c => x \div 128 \in Nat /\ x \div 128 < c
OBVIOUS

LEMMA GroupOf ==
    \A x \in Nat : /\ x % 128 \in 0..127 /\ x \div 128 \in Nat /\ x = 128 * (x \div 128) + (x % 128)
                   /\ ((x % 128) + 128) % 128 = x % 128
                   /\ x < 128 => x % 128 = x
OBVIOUS

(* A turn that emits, and one that does not.                                *)
LEMMA EmitIs ==
    ASSUME NEW out, NEW rest \in Nat, NEW s, s = [out |-> out, rest |-> rest]
    PROVE  /\ rest < 128 => Emit(s) = s
           /\ rest >= 128 => Emit(s) = [out |-> Append(out, (rest % 128) + 128), rest |-> rest \div 128]
BY DEF Emit

(* The rest is a number throughout, and what is emitted are numbers.        *)
LEMMA EmittedNumbers ==
    ASSUME NEW v \in Nat
    PROVE  \A n \in Nat : LET s == Emitted(v)[n] IN
               s = [out |-> s.out, rest |-> s.rest] /\ s.out \in Seq(Nat) /\ s.rest \in Nat
<1> DEFINE s(n) == Emitted(v)[n]
           Good(t) == t = [out |-> t.out, rest |-> t.rest] /\ t.out \in Seq(Nat) /\ t.rest \in Nat
           T == {n \in Nat : Good(s(n))}
<1>0. s(0) = [out |-> <<>>, rest |-> v] /\ \A k \in Nat : s(k + 1) = Emit(s(k))
    BY EmittedIs
<1> HIDE DEF s
<1>1. 0 \in T
    <2>1. <<>> \in Seq(Nat)
        BY EmptySeq
    <2>2. s(0).out = <<>> /\ s(0).rest = v
        BY <1>0
    <2> QED BY <1>0, <2>1, <2>2
<1>2. ASSUME NEW n \in Nat, n \in T PROVE n + 1 \in T
    <2> DEFINE t == s(n)
               r == t.rest
    <2>1. t = [out |-> t.out, rest |-> r] /\ t.out \in Seq(Nat) /\ r \in Nat
        BY <1>2
    <2>2. s(n + 1) = Emit(t)
        BY <1>0
    <2> HIDE DEF t, r
    <2>3. Good(Emit(t))
        <3>1. CASE r < 128
            <4>1. Emit(t) = t
                BY <2>1, <3>1, EmitIs
            <4> QED BY <4>1, <2>1 DEF r
        <3>2. CASE r >= 128
            <4> DEFINE o == Append(t.out, (r % 128) + 128)
            <4>1. Emit(t) = [out |-> o, rest |-> r \div 128]
                BY <2>1, <3>2, EmitIs
            <4>2. (r % 128) + 128 \in Nat /\ r \div 128 \in Nat
                BY <2>1, GroupOf
            <4>3. o \in Seq(Nat)
                BY <4>2, <2>1
            <4> HIDE DEF o
            <4> QED BY <4>1, <4>2, <4>3
        <3> QED BY <3>1, <3>2, <2>1
    <2> HIDE DEF Good
    <2> QED BY <2>2, <2>3
<1> HIDE DEF T
<1>3. \A n \in Nat : n \in T
    BY <1>1, <1>2, Induct
<1> QED BY <1>3 DEF T, s

(* After nine turns of a number of 64 bits the rest is the last group.      *)
LEMMA NineTurns ==
    ASSUME NEW v \in Word
    PROVE  Emitted(v)[9].rest < 128
<1> DEFINE r(n) == Emitted(v)[n].rest
           c1 == 128 * 2
           c2 == 128 * c1
           c3 == 128 * c2
           c4 == 128 * c3
           c5 == 128 * c4
           c6 == 128 * c5
           c7 == 128 * c6
           c8 == 128 * c7
<1>0. v \in Nat /\ v < 128 * c8
    BY DEF Word
<1>1. \A n \in Nat : r(n) \in Nat
    BY <1>0, EmittedNumbers
<1>2. r(0) = v
    <2>1. Emitted(v)[0] = [out |-> <<>>, rest |-> v]
        BY EmittedIs
    <2> QED BY <2>1
<1>3. ASSUME NEW n \in Nat, NEW c \in Nat, r(n) < 128 \/ r(n) < 128 * c
      PROVE  r(n + 1) < 128 \/ r(n + 1) < c
    <2> DEFINE s == Emitted(v)[n]
    <2>1. s = [out |-> s.out, rest |-> s.rest] /\ s.rest \in Nat /\ s.rest = r(n)
        BY <1>0, EmittedNumbers
    <2>2. Emitted(v)[n + 1] = Emit(s)
        BY EmittedIs
    <2>5. r(n + 1) = Emit(s).rest
        BY <2>2
    <2> HIDE DEF s, r
    <2>3. r(n) < 128 => Emit(s) = s
        BY <2>1, EmitIs
    <2>4. r(n) >= 128 => Emit(s).rest = r(n) \div 128
        <3> DEFINE o == Append(s.out, (s.rest % 128) + 128)
        <3>1. r(n) >= 128 => Emit(s) = [out |-> o, rest |-> s.rest \div 128]
            BY <2>1, EmitIs
        <3> HIDE DEF o
        <3> QED BY <2>1, <3>1
    <2>6. CASE r(n) < 128
        BY <2>1, <2>3, <2>5, <2>6
    <2>7. CASE r(n) >= 128
        <3>1. r(n) < 128 * c
            BY <1>1, <1>3, <2>7
        <3>2. r(n) \div 128 < c
            BY <1>1, <3>1, Narrower
        <3> QED BY <2>4, <2>5, <2>7, <3>2
    <2> QED BY <2>6, <2>7, <1>1
<1>4. c1 \in Nat /\ c2 \in Nat /\ c3 \in Nat /\ c4 \in Nat /\ c5 \in Nat /\ c6 \in Nat /\ c7 \in Nat /\ c8 \in Nat
    OBVIOUS
<1>5. r(0) < 128 \/ r(0) < 128 * c8
    BY <1>0, <1>2
<1> HIDE DEF r
<1>6. 0 + 1 = 1 /\ 1 + 1 = 2 /\ 2 + 1 = 3 /\ 3 + 1 = 4 /\ 4 + 1 = 5 /\ 5 + 1 = 6 /\ 6 + 1 = 7 /\ 7 + 1 = 8 /\ 8 + 1 = 9
    OBVIOUS
<1> HIDE DEF c8
<1>11. r(1) < 128 \/ r(1) < c8
    BY <1>3, <1>4, <1>5, <1>6
<1> HIDE DEF c7
<1>12. r(2) < 128 \/ r(2) < c7
    BY <1>3, <1>4, <1>11, <1>6 DEF c8
<1> HIDE DEF c6
<1>13. r(3) < 128 \/ r(3) < c6
    BY <1>3, <1>4, <1>12, <1>6 DEF c7
<1> HIDE DEF c5
<1>14. r(4) < 128 \/ r(4) < c5
    BY <1>3, <1>4, <1>13, <1>6 DEF c6
<1> HIDE DEF c4
<1>15. r(5) < 128 \/ r(5) < c4
    BY <1>3, <1>4, <1>14, <1>6 DEF c5
<1> HIDE DEF c3
<1>16. r(6) < 128 \/ r(6) < c3
    BY <1>3, <1>4, <1>15, <1>6 DEF c4
<1> HIDE DEF c2
<1>17. r(7) < 128 \/ r(7) < c2
    BY <1>3, <1>4, <1>16, <1>6 DEF c3
<1> HIDE DEF c1
<1>18. r(8) < 128 \/ r(8) < c1
    BY <1>3, <1>4, <1>17, <1>6 DEF c2
<1>19. r(9) < 128 \/ r(9) < 2
    BY <1>3, <1>4, <1>18, <1>6 DEF c1
<1>20. r(9) \in Nat
    BY <1>1
<1>21. r(9) < 128
    BY <1>19, <1>20
<1> QED BY <1>21 DEF r

(* What a number of 64 bits is written as: all its groups but the last with *)
(* the high bit.                                                            *)
LEMMA RawVarintIs ==
    ASSUME NEW v \in Word
    PROVE  \E m \in 0..9 :
             /\ RawVarint(v) \in Seq(Byte) /\ Len(RawVarint(v)) = m + 1
             /\ \A n \in Nat : n < m =>
                  /\ RawVarint(v)[n + 1] = (Emitted(v)[n].rest % 128) + 128
                  /\ Emitted(v)[n + 1].rest = Emitted(v)[n].rest \div 128
             /\ Emitted(v)[m].rest < 128
             /\ RawVarint(v)[m + 1] = Emitted(v)[m].rest
<1> DEFINE s(n) == Emitted(v)[n]
           r(n) == s(n).rest
           Small == {n \in Nat : r(n) < 128}
<1>1. v \in Nat
    BY DEF Word
<1>2. \A n \in Nat : s(n) = [out |-> s(n).out, rest |-> r(n)] /\ r(n) \in Nat
    BY <1>1, EmittedNumbers
<1>3. s(0) = [out |-> <<>>, rest |-> v] /\ \A k \in Nat : s(k + 1) = Emit(s(k))
    BY EmittedIs
<1>4. r(9) < 128
    BY NineTurns
<1>5. PICK m \in Small : \A k \in Small : m <= k
    <2>1. 9 \in Small /\ Small \subseteq Nat
        BY <1>4
    <2> HIDE DEF Small
    <2> QED BY <2>1, Least
<1>6. m \in 0..9 /\ r(m) < 128 /\ \A k \in Nat : k < m => r(k) >= 128
    <2>1. 9 \in Small /\ m \in Nat
        BY <1>4, <1>5
    <2>2. m <= 9
        BY <2>1, <1>5
    <2>3. r(m) < 128
        BY <1>5
    <2>4. \A k \in Nat : k < m => ~(r(k) < 128)
        BY <1>5, <2>1
    <2>5. \A k \in Nat : r(k) \in Nat
        BY <1>2
    <2> HIDE DEF r
    <2> QED BY <2>1, <2>2, <2>3, <2>4, <2>5
<1> HIDE DEF s
<1>7. \A n \in Nat : /\ r(n) < 128 => s(n + 1) = s(n)
                     /\ r(n) >= 128 => s(n + 1) = [out |-> Append(s(n).out, (r(n) % 128) + 128), rest |-> r(n) \div 128]
    <2> TAKE n \in Nat
    <2> DEFINE t == s(n)
               x == r(n)
    <2>1. t = [out |-> t.out, rest |-> x] /\ x \in Nat /\ s(n + 1) = Emit(t)
        BY <1>2, <1>3
    <2> HIDE DEF t, x
    <2>2. /\ x < 128 => Emit(t) = t
          /\ x >= 128 => Emit(t) = [out |-> Append(t.out, (x % 128) + 128), rest |-> x \div 128]
        BY <2>1, EmitIs
    <2> QED BY <2>1, <2>2 DEF t, x
<1> DEFINE Good(n) == /\ s(n).out \in Seq(Byte) /\ Len(s(n).out) = n
                      /\ \A q \in Nat : q < n => s(n).out[q + 1] = (r(q) % 128) + 128
           T == {n \in Nat : n <= m => Good(n)}
<1>8. 0 \in T
    <2>1. s(0).out = <<>>
        BY <1>3
    <2>2. <<>> \in Seq(Byte) /\ Len(<<>>) = 0
        BY EmptySeq
    <2>3. \A q \in Nat : ~(q < 0)
        OBVIOUS
    <2>4. Good(0)
        BY <2>1, <2>2, <2>3
    <2> QED BY <2>4
<1>9. ASSUME NEW n \in Nat, n \in T PROVE n + 1 \in T
    <2> SUFFICES ASSUME n + 1 <= m PROVE Good(n + 1)
        OBVIOUS
    <2>1. n < m /\ n <= m
        BY <1>6
    <2>2. s(n).out \in Seq(Byte) /\ Len(s(n).out) = n
        BY <1>9, <2>1
    <2>3. \A q \in Nat : q < n => s(n).out[q + 1] = (r(q) % 128) + 128
        BY <1>9, <2>1
    <2> DEFINE b == (r(n) % 128) + 128
               o == s(n).out
    <2>4. b \in Byte
        <3>1. r(n) \in Nat
            BY <1>2
        <3>2. r(n) % 128 \in 0..127
            BY <3>1, GroupOf
        <3> QED BY <3>2 DEF Byte
    <2>5. s(n + 1).out = Append(o, b)
        <3>1. r(n) >= 128
            BY <1>6, <2>1
        <3>2. s(n + 1) = [out |-> Append(o, b), rest |-> r(n) \div 128]
            BY <1>7, <3>1
        <3> HIDE DEF b, o, r
        <3> QED BY <3>2
    <2>6. /\ Append(o, b) \in Seq(Byte) /\ Len(Append(o, b)) = Len(o) + 1
          /\ \A q \in 1..Len(o) : Append(o, b)[q] = o[q]
          /\ Append(o, b)[Len(o) + 1] = b
        <3>1. o \in Seq(Byte)
            BY <2>2
        <3> HIDE DEF o, b
        <3> QED BY <3>1, <2>4, AppendProperties
    <2>7. s(n + 1).out \in Seq(Byte) /\ Len(s(n + 1).out) = n + 1
        BY <2>2, <2>5, <2>6
    <2>8. ASSUME NEW q \in Nat, q < n + 1 PROVE s(n + 1).out[q + 1] = (r(q) % 128) + 128
        <3>1. CASE q = n
            BY <3>1, <2>2, <2>5, <2>6
        <3>2. CASE q # n
            <4>1. q < n /\ q + 1 \in 1..n
                BY <2>8, <3>2
            <4>2. Append(o, b)[q + 1] = o[q + 1]
                BY <4>1, <2>2, <2>6
            <4> QED BY <4>1, <4>2, <2>3, <2>5
        <3> QED BY <3>1, <3>2
    <2> QED BY <2>7, <2>8
<1> HIDE DEF T
<1>10. \A n \in Nat : n \in T
    BY <1>8, <1>9, Induct
<1>11. Good(m)
    BY <1>6, <1>10 DEF T
<1> DEFINE U == {n \in Nat : n >= m => s(n) = s(m)}
<1>12. \A n \in Nat : n \in U
    <2>1. 0 \in U
        BY <1>6
    <2>2. ASSUME NEW n \in Nat, n \in U PROVE n + 1 \in U
        <3> SUFFICES ASSUME n + 1 >= m PROVE s(n + 1) = s(m)
            OBVIOUS
        <3>1. CASE n + 1 = m
            BY <3>1
        <3>2. CASE n + 1 # m
            <4>1. n >= m
                BY <3>2, <1>6
            <4>2. s(n) = s(m)
                BY <2>2, <4>1
            <4>3. r(n) < 128
                BY <4>2, <1>6
            <4> QED BY <1>7, <4>2, <4>3
        <3> QED BY <3>1, <3>2
    <2> HIDE DEF U
    <2> QED BY <2>1, <2>2, Induct
<1>13. s(9) = s(m)
    BY <1>6, <1>12
<1> DEFINE o == s(m).out
           b == r(m)
<1>14. RawVarint(v) = Append(o, b)
    BY <1>13 DEF RawVarint, s
<1>15. o \in Seq(Byte) /\ Len(o) = m /\ \A q \in Nat : q < m => o[q + 1] = (r(q) % 128) + 128
    BY <1>11
<1>16. b \in Byte
    BY <1>2, <1>6 DEF Byte
<1>17. \A n \in Nat : n < m => r(n + 1) = r(n) \div 128
    <2> SUFFICES ASSUME NEW n \in Nat, n < m PROVE r(n + 1) = r(n) \div 128
        OBVIOUS
    <2> DEFINE x == r(n) \div 128
               y == Append(s(n).out, (r(n) % 128) + 128)
    <2>1. s(n + 1) = [out |-> y, rest |-> x]
        BY <1>6, <1>7
    <2> HIDE DEF x, y
    <2>2. s(n + 1).rest = x
        BY <2>1
    <2> QED BY <2>2 DEF x
<1> HIDE DEF o, b, Good
<1>18. /\ Append(o, b) \in Seq(Byte) /\ Len(Append(o, b)) = Len(o) + 1
       /\ \A q \in 1..Len(o) : Append(o, b)[q] = o[q]
       /\ Append(o, b)[Len(o) + 1] = b
    BY <1>15, <1>16, AppendProperties
<1>19. \A n \in Nat : n < m => Append(o, b)[n + 1] = (r(n) % 128) + 128
    <2> SUFFICES ASSUME NEW n \in Nat, n < m PROVE Append(o, b)[n + 1] = (r(n) % 128) + 128
        OBVIOUS
    <2>1. n + 1 \in 1..Len(o)
        BY <1>6, <1>15
    <2>2. Append(o, b)[n + 1] = o[n + 1]
        BY <2>1, <1>18
    <2> QED BY <1>15, <2>2
<1>20. /\ RawVarint(v) \in Seq(Byte) /\ Len(RawVarint(v)) = m + 1
       /\ RawVarint(v)[m + 1] = r(m)
    BY <1>14, <1>15, <1>18 DEF b
<1> HIDE DEF r
<1>21. \A n \in Nat : n < m => RawVarint(v)[n + 1] = (r(n) % 128) + 128 /\ r(n + 1) = r(n) \div 128
    BY <1>14, <1>17, <1>19
<1> QED BY <1>6, <1>20, <1>21 DEF r, s

-------------------------------------------------------------------------------
(* A text lies in another from place i.                                     *)
Lies(e, bs, i) == \A q \in 1..Len(e) : i + q - 1 <= Len(bs) /\ bs[i + q - 1] = e[q]

(* So do both parts of a text.                                              *)
LEMMA PartsLie ==
    ASSUME NEW x \in Seq(Byte), NEW y \in Seq(Byte), NEW bs, NEW i \in Nat, Lies(Appended(x, y), bs, i)
    PROVE  Lies(x, bs, i) /\ Lies(y, bs, i + Len(x))
<1> DEFINE e == Appended(x, y)
           a == Len(x)
           b == Len(y)
<1>1. /\ Len(e) = a + b /\ a \in Nat /\ b \in Nat
      /\ \A q \in 1..a : e[q] = x[q]
      /\ \A q \in 1..b : e[a + q] = y[q]
    <2>1. a \in Nat /\ b \in Nat
        OBVIOUS
    <2> HIDE DEF e
    <2> QED BY <2>1, JoinedIs DEF e
<1> HIDE DEF e, a, b
<1>2. \A q \in 1..(a + b) : i + q - 1 <= Len(bs) /\ bs[i + q - 1] = e[q]
    BY <1>1 DEF Lies, e
<1>3. ASSUME NEW q \in 1..a PROVE i + q - 1 <= Len(bs) /\ bs[i + q - 1] = x[q]
    BY <1>1, <1>2, WithinSum
<1>4. ASSUME NEW q \in 1..b PROVE (i + a) + q - 1 <= Len(bs) /\ bs[(i + a) + q - 1] = y[q]
    <2>1. a + q \in 1..(a + b) /\ i + (a + q) - 1 = (i + a) + q - 1
        BY <1>1, WithinSum
    <2> QED BY <1>1, <1>2, <2>1
<1> QED BY <1>3, <1>4 DEF Lies, a, b

(* A text that lies in another is a stretch of it.                          *)
LEMMA LyingIs ==
    ASSUME NEW e \in Seq(Byte), NEW bs \in Seq(Byte), NEW i \in Nat \ {0}, Lies(e, bs, i)
    PROVE  /\ SubSeq(bs, i, i + Len(e) - 1) = e
           /\ Len(e) > 0 => i + Len(e) - 1 <= Len(bs)
<1> DEFINE n == Len(e)
           last == i + n - 1
           t == SubSeq(bs, i, last)
<1>1. n \in Nat /\ Len(bs) \in Nat /\ last \in Int /\ last - i + 1 = n /\ (i <= last <=> n > 0)
    OBVIOUS
<1>2. \A q \in 1..n : i + q - 1 <= Len(bs) /\ bs[i + q - 1] = e[q]
    BY DEF Lies
<1>3. \A j \in i..last : bs[j] \in Byte
    <2> TAKE j \in i..last
    <2> DEFINE q == j - i + 1
    <2>1. q \in 1..n /\ i + q - 1 = j
        BY <1>1
    <2> HIDE DEF q
    <2>2. bs[j] = e[q]
        BY <1>2, <2>1
    <2> QED BY <2>1, <2>2, ElementOfSeq DEF n
<1>4. n > 0 => last <= Len(bs)
    BY <1>1, <1>2
<1> HIDE DEF last, n
<1>5. /\ t \in Seq(Byte) /\ Len(t) = IF i <= last THEN last - i + 1 ELSE 0
      /\ \A q \in 1..(last - i + 1) : t[q] = bs[i + q - 1]
    BY <1>1, <1>3, SubSeqProperties
<1>6. Len(t) = n
    BY <1>1, <1>5
<1>7. \A q \in 1..n : t[q] = e[q]
    BY <1>1, <1>2, <1>5
<1> HIDE DEF t
<1>8. t = e
    BY <1>5, <1>6, <1>7, SeqEqual DEF n
<1> QED BY <1>4, <1>8 DEF t, last, n

(* A group taken off the rest is added to what was read.                    *)
LEMMA Regrouped ==
    \A s, w, q, b \in Nat : /\ s + w * b \in Nat /\ 128 * w \in Nat
                            /\ s + (128 * q + b) * w = (s + w * b) + q * (128 * w)
<1> SUFFICES ASSUME NEW s \in Nat, NEW w \in Nat, NEW q \in Nat, NEW b \in Nat
             PROVE  /\ s + w * b \in Nat /\ 128 * w \in Nat
                    /\ s + (128 * q + b) * w = (s + w * b) + q * (128 * w)
    OBVIOUS
<1> DEFINE x == q * w
           y == w * b
<1>1. x \in Nat /\ y \in Nat
    BY TimesIsNat
<1>2. (128 * q + b) * w = 128 * x + y
    OBVIOUS
<1>3. q * (128 * w) = 128 * x
    OBVIOUS
<1> HIDE DEF x
<1>4. 128 * w \in Nat /\ 128 * x \in Nat
    BY <1>1
<1>5. s + y \in Nat
    BY <1>1
<1> HIDE DEF y
<1>6. s + (128 * x + y) = (s + y) + 128 * x
    BY <1>1
<1> QED BY <1>2, <1>3, <1>4, <1>5, <1>6 DEF y

(* A turn of the reader at a byte that is there, and after the last one.    *)
LEMMA GroupAdded ==
    ASSUME NEW v, NEW w, NEW j \in Int, NEW bs, j <= Len(bs), Len(bs) \in Nat
    PROVE  AddGroup([v |-> v, weight |-> w, next |-> j, ended |-> FALSE], bs) =
               [v |-> v + w * (bs[j] % 128), weight |-> 128 * w, next |-> j + 1, ended |-> bs[j] < 128]
<1> DEFINE t == [v |-> v, weight |-> w, next |-> j, ended |-> FALSE]
<1>1. t.ended = FALSE /\ t.next = j /\ t.v = v /\ t.weight = w
    OBVIOUS
<1>2. ~(t.ended \/ t.next > Len(bs))
    BY <1>1
<1> HIDE DEF t
<1>3. AddGroup(t, bs) = [v |-> v + w * (bs[j] % 128), weight |-> 128 * w, next |-> j + 1, ended |-> bs[j] < 128]
    BY <1>1, <1>2 DEF AddGroup
<1> QED BY <1>3 DEF t

LEMMA GroupsEnd ==
    ASSUME NEW t, NEW bs, t.ended = TRUE
    PROVE  AddGroup(t, bs) = t
BY DEF AddGroup

(* The reader reads the number where it was written.                        *)
LEMMA NumberRead ==
    ASSUME NEW v \in Word, NEW bs \in Seq(Byte), NEW i \in Nat \ {0}, Lies(RawVarint(v), bs, i)
    PROVE  /\ RawVarint(v) \in Seq(Byte) /\ Len(RawVarint(v)) \in Nat \ {0}
           /\ VarintAt(bs, i).v = v /\ VarintAt(bs, i).next = i + Len(RawVarint(v))
           /\ VarintAt(bs, i).next - 1 <= Len(bs)
<1> DEFINE e == RawVarint(v)
           r(n) == Emitted(v)[n].rest
           g(n) == Groups(bs, i)[n]
<1>1. PICK m \in 0..9 :
        /\ e \in Seq(Byte) /\ Len(e) = m + 1
        /\ \A n \in Nat : n < m => e[n + 1] = (r(n) % 128) + 128 /\ r(n + 1) = r(n) \div 128
        /\ r(m) < 128
        /\ e[m + 1] = r(m)
    BY RawVarintIs
<1>2. r(0) = v /\ v \in Nat
    <2>1. Emitted(v)[0] = [out |-> <<>>, rest |-> v]
        BY EmittedIs
    <2>2. v \in Nat
        BY DEF Word
    <2> QED BY <2>1, <2>2
<1>3. \A n \in Nat : r(n) \in Nat
    BY <1>2, EmittedNumbers
<1>4. /\ g(0) = [v |-> 0, weight |-> 1, next |-> i, ended |-> FALSE]
      /\ \A k \in Nat : g(k + 1) = AddGroup(g(k), bs)
    BY GroupsAre
<1> HIDE DEF r, g
<1>5. \A n \in Nat : n <= m => i + n <= Len(bs) /\ bs[i + n] = e[n + 1] /\ i + n \in Int
    <2> SUFFICES ASSUME NEW n \in Nat, n <= m PROVE i + n <= Len(bs) /\ bs[i + n] = e[n + 1] /\ i + n \in Int
        OBVIOUS
    <2>1. n + 1 \in 1..(m + 1) /\ i + (n + 1) - 1 = i + n /\ i + n \in Int
        OBVIOUS
    <2>2. n + 1 \in 1..Len(e)
        BY <1>1, <2>1
    <2> HIDE DEF e
    <2>3. i + (n + 1) - 1 <= Len(bs) /\ bs[i + (n + 1) - 1] = e[n + 1]
        BY <2>2 DEF Lies, e
    <2> QED BY <2>1, <2>3
<1> HIDE DEF e
<1> DEFINE State(n, s, w) == g(n) = [v |-> s, weight |-> w, next |-> i + n, ended |-> FALSE]
           Read(n) == \E s, w \in Nat : State(n, s, w) /\ v = s + r(n) * w
           T == {n \in Nat : n <= m => Read(n)}
<1>6. 0 \in T
    <2>1. State(0, 0, 1)
        BY <1>4
    <2>2. v = 0 + r(0) * 1
        BY <1>2
    <2> HIDE DEF State
    <2>3. Read(0)
        BY <2>1, <2>2
    <2> QED BY <2>3
<1>7. ASSUME NEW n \in Nat, n \in T PROVE n + 1 \in T
    <2> HIDE DEF Read
    <2> SUFFICES ASSUME n + 1 <= m PROVE Read(n + 1)
        OBVIOUS
    <2>1. n < m /\ n <= m
        BY <1>1
    <2>2. PICK s \in Nat, w \in Nat : State(n, s, w) /\ v = s + r(n) * w
        BY <1>7, <2>1 DEF Read
    <2> DEFINE b == r(n) % 128
               q == r(n) \div 128
               j == i + n
    <2>3. b \in 0..127 /\ q \in Nat /\ r(n) = 128 * q + b /\ (b + 128) % 128 = b
        <3> DEFINE x == r(n)
        <3>1. x \in Nat
            BY <1>3
        <3> HIDE DEF x
        <3>2. /\ x % 128 \in 0..127 /\ x \div 128 \in Nat /\ x = 128 * (x \div 128) + (x % 128)
              /\ ((x % 128) + 128) % 128 = x % 128
            BY <3>1, GroupOf
        <3> QED BY <3>2 DEF x
    <2>4. j \in Int /\ j <= Len(bs) /\ bs[j] = b + 128 /\ r(n + 1) = q /\ Len(bs) \in Nat
        BY <1>1, <1>5, <2>1
    <2>5. g(n + 1) = AddGroup(g(n), bs)
        BY <1>4
    <2>6. g(n) = [v |-> s, weight |-> w, next |-> j, ended |-> FALSE]
        BY <2>2
    <2> HIDE DEF b, q, j
    <2>13. AddGroup([v |-> s, weight |-> w, next |-> j, ended |-> FALSE], bs) =
               [v |-> s + w * (bs[j] % 128), weight |-> 128 * w, next |-> j + 1, ended |-> bs[j] < 128]
        BY <2>4, GroupAdded
    <2>7. g(n + 1) = [v |-> s + w * (bs[j] % 128), weight |-> 128 * w, next |-> j + 1, ended |-> bs[j] < 128]
        BY <2>5, <2>6, <2>13
    <2>8. bs[j] % 128 = b /\ (bs[j] < 128) = FALSE
        BY <2>3, <2>4
    <2>9. j + 1 = i + (n + 1)
        BY DEF j
    <2>10. State(n + 1, s + w * b, 128 * w)
        BY <2>7, <2>8, <2>9
    <2>11. /\ s + w * b \in Nat /\ 128 * w \in Nat
           /\ s + (128 * q + b) * w = (s + w * b) + q * (128 * w)
        <3>1. b \in Nat
            BY <2>3
        <3> QED BY <3>1, <2>3, Regrouped
    <2>12. v = (s + w * b) + r(n + 1) * (128 * w)
        BY <2>2, <2>3, <2>4, <2>11
    <2> HIDE DEF State
    <2> QED BY <2>10, <2>11, <2>12 DEF Read
<1> HIDE DEF Read
<1> HIDE DEF T
<1>8. \A n \in Nat : n \in T
    BY <1>6, <1>7, Induct
<1>9. PICK s \in Nat, w \in Nat : State(m, s, w) /\ v = s + r(m) * w
    BY <1>8 DEF T, Read
<1> DEFINE j == i + m
<1>10. g(m + 1).v = v /\ g(m + 1).next = i + Len(e) /\ g(m + 1).ended = TRUE
    <2>1. g(m) = [v |-> s, weight |-> w, next |-> j, ended |-> FALSE]
        BY <1>9
    <2>2. j \in Int /\ j <= Len(bs) /\ bs[j] = r(m) /\ Len(bs) \in Nat
        BY <1>1, <1>5
    <2>3. g(m + 1) = AddGroup(g(m), bs)
        BY <1>4
    <2>4. j + 1 = i + Len(e)
        BY <1>1
    <2> HIDE DEF j
    <2>9. AddGroup([v |-> s, weight |-> w, next |-> j, ended |-> FALSE], bs) =
              [v |-> s + w * (bs[j] % 128), weight |-> 128 * w, next |-> j + 1, ended |-> bs[j] < 128]
        BY <2>2, GroupAdded
    <2>5. g(m + 1) = [v |-> s + w * (bs[j] % 128), weight |-> 128 * w, next |-> j + 1, ended |-> bs[j] < 128]
        BY <2>1, <2>3, <2>9
    <2>6. bs[j] % 128 = r(m) /\ (bs[j] < 128) = TRUE
        <3>1. m \in Nat
            OBVIOUS
        <3>2. r(m) \in Nat
            BY <3>1, <1>3
        <3>3. r(m) < 128
            BY <1>1
        <3> QED BY <3>2, <3>3, <2>2, GroupOf
    <2>7. w * r(m) = r(m) * w
        <3>1. r(m) \in Nat
            BY <1>3
        <3> QED BY <3>1
    <2>8. g(m + 1).v = s + w * r(m) /\ g(m + 1).next = j + 1 /\ g(m + 1).ended = TRUE
        <3>1. g(m + 1) = [v |-> s + w * r(m), weight |-> 128 * w, next |-> j + 1, ended |-> TRUE]
            BY <2>5, <2>6
        <3> DEFINE x == s + w * r(m)
                   y == 128 * w
                   z == j + 1
        <3>2. g(m + 1) = [v |-> x, weight |-> y, next |-> z, ended |-> TRUE]
            BY <3>1
        <3> HIDE DEF x, y, z
        <3>3. g(m + 1).v = x /\ g(m + 1).next = z /\ g(m + 1).ended = TRUE
            BY <3>2
        <3> QED BY <3>3 DEF x, z
    <2> QED BY <1>9, <2>4, <2>7, <2>8
<1> DEFINE U == {n \in Nat : n >= m + 1 => g(n) = g(m + 1)}
<1>11. \A n \in Nat : n \in U
    <2>1. 0 \in U
        OBVIOUS
    <2>2. ASSUME NEW n \in Nat, n \in U PROVE n + 1 \in U
        <3> SUFFICES ASSUME n + 1 >= m + 1 PROVE g(n + 1) = g(m + 1)
            OBVIOUS
        <3>1. CASE n = m
            BY <3>1
        <3>2. CASE n # m
            <4>1. n >= m + 1
                BY <3>2
            <4>2. g(n) = g(m + 1)
                BY <2>2, <4>1
            <4>3. g(n + 1) = AddGroup(g(n), bs)
                BY <1>4
            <4> QED BY <4>2, <4>3, <1>10, GroupsEnd
        <3> QED BY <3>1, <3>2
    <2> HIDE DEF U
    <2> QED BY <2>1, <2>2, Induct
<1>12. g(10) = g(m + 1)
    <2>1. 10 \in Nat /\ 10 >= m + 1
        OBVIOUS
    <2> QED BY <1>11, <2>1
<1>13. VarintAt(bs, i) = g(10)
    BY DEF VarintAt, g
<1>14. e \in Seq(Byte) /\ Len(e) \in Nat \ {0}
    BY <1>1
<1>15. (i + Len(e)) - 1 <= Len(bs)
    <2>1. Len(e) > 0 => i + Len(e) - 1 <= Len(bs)
        BY <1>14, LyingIs DEF e
    <2> QED BY <2>1, <1>14
<1> QED BY <1>10, <1>12, <1>13, <1>14, <1>15 DEF e

-------------------------------------------------------------------------------
(* The fields that are written: keys of 32 bits, numbers of 64, texts that  *)
(* a number of 64 bits can count.                                           *)
FieldNos == {n \in Nat : 8 * n + 7 \in ShortWord}
Texts == {s \in Seq(Byte) : Len(s) \in Word}
Doubles == {s \in Seq(Byte) : Len(s) = DoubleBytes}
Floats == {s \in Seq(Byte) : Len(s) = 4}
Sendable ==
    {Num(n, v) : n \in FieldNos, v \in Word} \cup {Dbl(n, b) : n \in FieldNos, b \in Doubles}
    \cup {Str(n, s) : n \in FieldNos, s \in Texts} \cup {[field |-> n, wire |-> 5, v |-> b] : n \in FieldNos, b \in Floats}

(* A key gives back its field and its wire type.                            *)
LEMMA KeyIs ==
    ASSUME NEW n \in FieldNos, NEW w \in {0, 1, 2, 5}
    PROVE  8 * n + w \in Word /\ (8 * n + w) \div 8 = n /\ (8 * n + w) % 8 = w
<1>1. n \in Nat /\ 8 * n + 7 \in ShortWord
    BY DEF FieldNos
<1>2. \A k, b \in Nat : k <= 7 /\ 8 * n + 7 < b => 8 * n + k \in Nat /\ 8 * n + k < b
    BY <1>1
<1> DEFINE b == 256 * (256 * (256 * 256))
<1>3. b \in Nat /\ ShortWord = {v \in Nat : v < b}
    BY DEF ShortWord
<1> HIDE DEF b
<1>4. 8 * n + 7 < b
    BY <1>1, <1>3
<1>5. w \in Nat /\ w <= 7
    OBVIOUS
<1>6. 8 * n + w \in ShortWord
    BY <1>2, <1>3, <1>4, <1>5
<1>7. (8 * n + w) \div 8 = n /\ (8 * n + w) % 8 = w
    BY <1>1, <1>5
<1> QED BY <1>6, <1>7, ShortIsWord

(* What follows the key of a field.                                         *)
Content(f) == IF f.wire = 0 THEN RawVarint(f.v) ELSE IF f.wire = 2 THEN LenPrefixed(f.v) ELSE f.v

LEMMA FieldWritten ==
    ASSUME NEW n, NEW w \in {0, 1, 2, 5}, NEW v, NEW f, f = [field |-> n, wire |-> w, v |-> v]
    PROVE  /\ f.field = n /\ f.wire = w /\ f.v = v
           /\ WriteField(f) = Appended(RawVarint(8 * n + w), Content(f))
<1>1. f.field = n /\ f.wire = w /\ f.v = v
    OBVIOUS
<1>2. WriteField(f) = WriteKey(f) \o Content(f)
    BY <1>1 DEF WriteField, Content
<1> QED BY <1>1, <1>2 DEF WriteKey, Appended

(* Of a stretch that is there nothing is cut off.                           *)
StretchIs(x, bs, i, n) == SubSeq(bs, i, UpToEnd(bs, i, n)) = x /\ UpToEnd(bs, i, n) + 1 = i + n

LEMMA StretchRead ==
    ASSUME NEW bs \in Seq(Byte), NEW i \in Nat \ {0}, i - 1 <= Len(bs), NEW x \in Seq(Byte), Lies(x, bs, i),
           NEW n \in Nat, n = Len(x)
    PROVE  StretchIs(x, bs, i, n)
<1>1. n \in Nat /\ Len(bs) \in Nat
    OBVIOUS
<1>2. SubSeq(bs, i, i + n - 1) = x /\ (n > 0 => i + n - 1 <= Len(bs))
    BY LyingIs
<1>3. i + n - 1 <= Len(bs)
    BY <1>1, <1>2
<1>4. UpToEnd(bs, i, n) = i + n - 1
    BY <1>1, <1>3 DEF UpToEnd
<1>5. (i + n - 1) + 1 = i + n
    BY <1>1
<1> QED BY <1>2, <1>4, <1>5 DEF StretchIs

(* What the reader makes of a key that is there, by its wire type.          *)
LEMMA FieldFound ==
    ASSUME NEW bs, NEW i, NEW n, NEW w, NEW k, NEW c, k = VarintAt(bs, i), c = VarintAt(bs, k.next),
           ~(i > Len(bs)), k.v \div 8 = n, k.v % 8 = w
    PROVE  LET field(v, next) == [more |-> TRUE, field |-> [field |-> n, wire |-> w, v |-> v], next |-> next]
               taken(from, size) == field(SubSeq(bs, from, UpToEnd(bs, from, size)), UpToEnd(bs, from, size) + 1)
           IN /\ w = 0 => NextField(bs, i) = field(c.v, c.next)
              /\ w = 1 => NextField(bs, i) = taken(k.next, DoubleBytes)
              /\ w = 2 => NextField(bs, i) = taken(c.next, c.v)
              /\ w = 5 => NextField(bs, i) = taken(k.next, 4)
<1> DEFINE field(v, next) == [more |-> TRUE, field |-> [field |-> n, wire |-> w, v |-> v], next |-> next]
           a == field(c.v, c.next)
           b1 == SubSeq(bs, k.next, UpToEnd(bs, k.next, DoubleBytes))
           e1 == UpToEnd(bs, k.next, DoubleBytes) + 1
           b2 == SubSeq(bs, c.next, UpToEnd(bs, c.next, c.v))
           e2 == UpToEnd(bs, c.next, c.v) + 1
           b5 == SubSeq(bs, k.next, UpToEnd(bs, k.next, 4))
           e5 == UpToEnd(bs, k.next, 4) + 1
<1>1. NextField(bs, i) =
        IF i > Len(bs) \/ w \notin {0, 1, 2, 5} THEN [more |-> FALSE]
        ELSE CASE w = 0 -> a [] w = 1 -> field(b1, e1) [] w = 2 -> field(b2, e2) [] w = 5 -> field(b5, e5)
    <2> DEFINE num == VarintAt(bs, i).v \div 8
               wire == VarintAt(bs, i).v % 8
               kn == VarintAt(bs, i).next
               cv == VarintAt(bs, kn).v
               cn == VarintAt(bs, kn).next
               the(v, next) == [more |-> TRUE, field |-> [field |-> num, wire |-> wire, v |-> v], next |-> next]
    <2>1. NextField(bs, i) =
            IF i > Len(bs) \/ wire \notin {0, 1, 2, 5} THEN [more |-> FALSE]
            ELSE CASE wire = 0 -> the(cv, cn)
                   [] wire = 1 -> the(SubSeq(bs, kn, UpToEnd(bs, kn, DoubleBytes)), UpToEnd(bs, kn, DoubleBytes) + 1)
                   [] wire = 2 -> the(SubSeq(bs, cn, UpToEnd(bs, cn, cv)), UpToEnd(bs, cn, cv) + 1)
                   [] wire = 5 -> the(SubSeq(bs, kn, UpToEnd(bs, kn, 4)), UpToEnd(bs, kn, 4) + 1)
        BY Zenon DEF NextField
    <2>2. num = n /\ wire = w /\ kn = k.next /\ cv = c.v /\ cn = c.next
        OBVIOUS
    <2> HIDE DEF num, wire, kn, cv, cn
    <2> QED BY <2>1, <2>2
<1> HIDE DEF a, b1, e1, b2, e2, b5, e5
<1>2. /\ w = 0 => NextField(bs, i) = a
      /\ w = 1 => NextField(bs, i) = field(b1, e1)
      /\ w = 2 => NextField(bs, i) = field(b2, e2)
      /\ w = 5 => NextField(bs, i) = field(b5, e5)
    BY <1>1
<1> QED BY <1>2 DEF a, b1, e1, b2, e2, b5, e5

(* A number is written in bytes, one at least.                              *)
LEMMA WordBytes ==
    ASSUME NEW v \in Word
    PROVE  RawVarint(v) \in Seq(Byte) /\ Len(RawVarint(v)) \in Nat \ {0}
<1>1. PICK m \in 0..9 : RawVarint(v) \in Seq(Byte) /\ Len(RawVarint(v)) = m + 1
    BY RawVarintIs
<1> QED BY <1>1

(* A field lies where it was written: its key is read, and behind it lies   *)
(* the rest.                                                                *)
KeyAt(bs, i, n, w, x, e) ==
    /\ ~(i > Len(bs)) /\ VarintAt(bs, i).v \div 8 = n /\ VarintAt(bs, i).v % 8 = w
    /\ VarintAt(bs, i).next \in Nat \ {0} /\ VarintAt(bs, i).next + Len(x) = i + Len(e)
    /\ VarintAt(bs, i).next - 1 <= Len(bs)
    /\ Lies(x, bs, VarintAt(bs, i).next)

LEMMA KeyThere ==
    ASSUME NEW n \in FieldNos, NEW w \in {0, 1, 2, 5}, NEW x \in Seq(Byte), NEW e,
           e = Appended(RawVarint(8 * n + w), x)
    PROVE  /\ e \in Seq(Byte) /\ Len(e) \in Nat \ {0}
           /\ \A bs \in Seq(Byte), i \in Nat \ {0} : Lies(e, bs, i) => KeyAt(bs, i, n, w, x, e)
<1> DEFINE k == 8 * n + w
           r == RawVarint(k)
<1>1. k \in Word /\ k \div 8 = n /\ k % 8 = w
    BY KeyIs
<1> HIDE DEF k
<1>2. r \in Seq(Byte) /\ Len(r) \in Nat \ {0}
    BY <1>1, WordBytes
<1>3. e = Appended(r, x)
    BY DEF k
<1>4. e \in Seq(Byte) /\ Len(e) = Len(r) + Len(x) /\ Len(x) \in Nat
    <2>1. Len(x) \in Nat
        OBVIOUS
    <2> HIDE DEF r
    <2> QED BY <2>1, <1>2, <1>3, JoinedIs
<1>5. ASSUME NEW bs \in Seq(Byte), NEW i \in Nat \ {0}, Lies(e, bs, i)
      PROVE  KeyAt(bs, i, n, w, x, e)
    <2> HIDE DEF r
    <2>1. Lies(r, bs, i) /\ Lies(x, bs, i + Len(r))
        <3>1. Lies(Appended(r, x), bs, i)
            BY <1>3, <1>5
        <3> QED BY <3>1, <1>2, PartsLie
    <2>2. VarintAt(bs, i).v = k /\ VarintAt(bs, i).next = i + Len(r) /\ VarintAt(bs, i).next - 1 <= Len(bs)
        BY <1>1, <2>1, NumberRead DEF r
    <2>3. i + 1 - 1 <= Len(bs)
        <3>1. 1 \in 1..Len(r)
            BY <1>2
        <3> QED BY <3>1, <2>1 DEF Lies
    <2>4. ~(i > Len(bs))
        <3>1. Len(bs) \in Nat
            OBVIOUS
        <3> QED BY <2>3, <3>1
    <2>5. i + Len(r) \in Nat \ {0} /\ (i + Len(r)) + Len(x) = i + Len(e)
        <3> DEFINE a == Len(r)
                   b == Len(x)
        <3>1. a \in Nat /\ b \in Nat /\ Len(e) = a + b
            BY <1>2, <1>4
        <3> HIDE DEF a, b
        <3>2. i + a \in Nat \ {0} /\ (i + a) + b = i + (a + b)
            BY <3>1
        <3> QED BY <3>1, <3>2 DEF a, b
    <2> QED BY <1>1, <2>1, <2>2, <2>4, <2>5 DEF KeyAt
<1>6. Len(e) \in Nat \ {0}
    <2> DEFINE a == Len(r)
               b == Len(x)
    <2>1. a \in Nat \ {0} /\ b \in Nat /\ Len(e) = a + b
        BY <1>2, <1>4
    <2> HIDE DEF a, b
    <2> QED BY <2>1
<1> QED BY <1>4, <1>5, <1>6

(* The reader finds the field where it was written, and its end.            *)
IsRead(f, e) ==
    /\ e \in Seq(Byte) /\ Len(e) \in Nat \ {0}
    /\ \A bs \in Seq(Byte), i \in Nat \ {0} : Lies(e, bs, i) =>
         NextField(bs, i) = [more |-> TRUE, field |-> f, next |-> i + Len(e)]

LEMMA NumRead ==
    ASSUME NEW n \in FieldNos, NEW v \in Word
    PROVE  IsRead(Num(n, v), WriteField(Num(n, v)))
<1> DEFINE f == Num(n, v)
           e == WriteField(f)
           x == RawVarint(v)
<1>1. f = [field |-> n, wire |-> 0, v |-> v] /\ f.wire = 0 /\ f.v = v
    BY DEF Num
<1> HIDE DEF f
<1>2. e = Appended(RawVarint(8 * n + 0), x)
    BY <1>1, FieldWritten DEF Content
<1> HIDE DEF e
<1>3. x \in Seq(Byte)
    BY WordBytes
<1>4. e \in Seq(Byte) /\ Len(e) \in Nat \ {0}
    <2> HIDE DEF x
    <2> QED BY <1>2, <1>3, KeyThere
<1>5. ASSUME NEW bs \in Seq(Byte), NEW i \in Nat \ {0}, Lies(e, bs, i)
      PROVE  NextField(bs, i) = [more |-> TRUE, field |-> f, next |-> i + Len(e)]
    <2> DEFINE k == VarintAt(bs, i)
               c == VarintAt(bs, k.next)
    <2>1. /\ ~(i > Len(bs)) /\ k.v \div 8 = n /\ k.v % 8 = 0
          /\ k.next \in Nat \ {0} /\ k.next + Len(x) = i + Len(e) /\ Lies(x, bs, k.next)
        <3> HIDE DEF x
        <3>1. KeyAt(bs, i, n, 0, x, e)
            BY <1>2, <1>3, <1>5, KeyThere
        <3> QED BY <3>1 DEF KeyAt
    <2> HIDE DEF k
    <2>2. c.v = v /\ c.next = k.next + Len(x)
        BY <2>1, NumberRead
    <2>3. NextField(bs, i) = [more |-> TRUE, field |-> [field |-> n, wire |-> 0, v |-> c.v], next |-> c.next]
        <3> DEFINE d == c
        <3> HIDE DEF c
        <3> QED BY <2>1, FieldFound DEF k, c
    <2> QED BY <1>1, <2>1, <2>2, <2>3
<1> QED BY <1>4, <1>5 DEF IsRead, e, f

(* A text of a known length behind its key, or behind its size.             *)
LEMMA FixedRead ==
    ASSUME NEW n \in FieldNos, NEW w \in {1, 5}, NEW v \in Seq(Byte), Len(v) = IF w = 1 THEN DoubleBytes ELSE 4,
           NEW f, f = [field |-> n, wire |-> w, v |-> v]
    PROVE  IsRead(f, WriteField(f))
<1> DEFINE e == WriteField(f)
           size == Len(v)
<1>1. f.wire = w /\ f.v = v /\ w # 0 /\ w # 2 /\ w \in {0, 1, 2, 5} /\ size \in Nat
    OBVIOUS
<1>2. e = Appended(RawVarint(8 * n + w), v)
    BY <1>1, FieldWritten DEF Content
<1> HIDE DEF e
<1>4. e \in Seq(Byte) /\ Len(e) \in Nat \ {0}
    BY <1>1, <1>2, KeyThere
<1>5. ASSUME NEW bs \in Seq(Byte), NEW i \in Nat \ {0}, Lies(e, bs, i)
      PROVE  NextField(bs, i) = [more |-> TRUE, field |-> f, next |-> i + Len(e)]
    <2> DEFINE k == VarintAt(bs, i)
               from == k.next
               end == UpToEnd(bs, from, size)
    <2>1. /\ ~(i > Len(bs)) /\ k.v \div 8 = n /\ k.v % 8 = w
          /\ from \in Nat \ {0} /\ from + Len(v) = i + Len(e) /\ from - 1 <= Len(bs) /\ Lies(v, bs, from)
        <3>1. KeyAt(bs, i, n, w, v, e)
            BY <1>1, <1>2, <1>5, KeyThere
        <3> QED BY <3>1 DEF KeyAt
    <2>2. NextField(bs, i) = [more |-> TRUE, field |-> [field |-> n, wire |-> w, v |-> SubSeq(bs, from, end)], next |-> end + 1]
        <3> HIDE DEF k
        <3> QED BY <2>1, FieldFound DEF k
    <2> HIDE DEF from
    <2>3. SubSeq(bs, from, end) = v /\ end + 1 = from + size
        <3>1. from \in Nat \ {0} /\ from - 1 <= Len(bs) /\ Lies(v, bs, from) /\ size = Len(v)
            BY <2>1
        <3>2. size \in Nat
            OBVIOUS
        <3> HIDE DEF size
        <3>3. StretchIs(v, bs, from, size)
            BY <3>1, <3>2, StretchRead
        <3> QED BY <3>3 DEF StretchIs
    <2> HIDE DEF end
    <2> QED BY <2>1, <2>2, <2>3
<1> QED BY <1>4, <1>5 DEF IsRead, e

LEMMA StrRead ==
    ASSUME NEW n \in FieldNos, NEW v \in Texts
    PROVE  IsRead(Str(n, v), WriteField(Str(n, v)))
<1> DEFINE f == Str(n, v)
           e == WriteField(f)
           m == Len(v)
           r == RawVarint(m)
           x == Appended(r, v)
<1>1. f = [field |-> n, wire |-> 2, v |-> v] /\ f.wire = 2 /\ f.v = v
    BY DEF Str
<1>2. v \in Seq(Byte) /\ m \in Word
    BY DEF Texts
<1> HIDE DEF f
<1>3. e = Appended(RawVarint(8 * n + 2), x)
    <2>1. Content(f) = x
        BY <1>1 DEF Content, LenPrefixed, Appended
    <2> QED BY <1>1, <2>1, FieldWritten
<1> HIDE DEF e, m
<1>4. r \in Seq(Byte)
    BY <1>2, WordBytes
<1>5. x \in Seq(Byte) /\ Len(x) = Len(r) + m /\ Len(r) \in Nat /\ m \in Nat
    <2>1. Len(r) \in Nat /\ m \in Nat
        BY <1>2, <1>4 DEF m
    <2> HIDE DEF r
    <2> QED BY <2>1, <1>2, <1>4, JoinedIs DEF m
<1>6. e \in Seq(Byte) /\ Len(e) \in Nat \ {0}
    <2> HIDE DEF x
    <2> QED BY <1>3, <1>5, KeyThere
<1>7. ASSUME NEW bs \in Seq(Byte), NEW i \in Nat \ {0}, Lies(e, bs, i)
      PROVE  NextField(bs, i) = [more |-> TRUE, field |-> f, next |-> i + Len(e)]
    <2> DEFINE k == VarintAt(bs, i)
               c == VarintAt(bs, k.next)
               from == c.next
               end == UpToEnd(bs, from, m)
    <2>1. /\ ~(i > Len(bs)) /\ k.v \div 8 = n /\ k.v % 8 = 2
          /\ k.next \in Nat \ {0} /\ k.next + Len(x) = i + Len(e) /\ Lies(x, bs, k.next)
        <3> HIDE DEF x
        <3>1. KeyAt(bs, i, n, 2, x, e)
            BY <1>3, <1>5, <1>7, KeyThere
        <3> QED BY <3>1 DEF KeyAt
    <2> HIDE DEF k
    <2>2. Lies(r, bs, k.next) /\ Lies(v, bs, k.next + Len(r))
        <3> HIDE DEF r
        <3> QED BY <1>2, <1>4, <2>1, PartsLie
    <2>3. c.v = m /\ from = k.next + Len(r) /\ from - 1 <= Len(bs)
        BY <1>2, <2>1, <2>2, NumberRead
    <2>4. NextField(bs, i) = [more |-> TRUE, field |-> [field |-> n, wire |-> 2, v |-> SubSeq(bs, from, end)], next |-> end + 1]
        <3>1. NextField(bs, i) = [more |-> TRUE, field |-> [field |-> n, wire |-> 2, v |-> SubSeq(bs, from, UpToEnd(bs, from, c.v))],
                                  next |-> UpToEnd(bs, from, c.v) + 1]
            <4> HIDE DEF c
            <4> QED BY <2>1, FieldFound DEF k, c
        <3> QED BY <2>3, <3>1
    <2> HIDE DEF from, c
    <2>5. from \in Nat \ {0} /\ from + m = i + Len(e)
        <3> DEFINE a == Len(r)
                   b == Len(x)
                   y == Len(e)
                   z == k.next
        <3>1. a \in Nat /\ m \in Nat /\ y \in Nat /\ z \in Nat \ {0} /\ b = a + m /\ z + b = i + y /\ from = z + a
            BY <1>5, <1>6, <2>1, <2>3
        <3> HIDE DEF a, b, y, z
        <3> QED BY <3>1 DEF y
    <2>6. SubSeq(bs, from, end) = v /\ end + 1 = from + m
        <3>1. Lies(v, bs, from)
            BY <2>2, <2>3
        <3>2. m = Len(v)
            BY DEF m
        <3>3. v \in Seq(Byte) /\ from \in Nat \ {0} /\ from - 1 <= Len(bs)
            BY <1>2, <2>3, <2>5
        <3> HIDE DEF m
        <3>4. m \in Nat
            BY <3>2, <3>3
        <3>5. StretchIs(v, bs, from, m)
            BY <3>1, <3>2, <3>3, <3>4, StretchRead
        <3> QED BY <3>5 DEF StretchIs
    <2> HIDE DEF end
    <2> QED BY <1>1, <2>4, <2>5, <2>6
<1> QED BY <1>6, <1>7 DEF IsRead, e, f

LEMMA FieldRead ==
    ASSUME NEW f \in Sendable
    PROVE  IsRead(f, WriteField(f))
<1>1. CASE \E n \in FieldNos, v \in Word : f = Num(n, v)
    BY <1>1, NumRead
<1>2. CASE \E n \in FieldNos, b \in Doubles : f = Dbl(n, b)
    <2>1. PICK n \in FieldNos, b \in Doubles : f = Dbl(n, b)
        BY <1>2
    <2>2. b \in Seq(Byte) /\ Len(b) = DoubleBytes
        BY DEF Doubles
    <2>3. f = [field |-> n, wire |-> 1, v |-> b]
        BY <2>1 DEF Dbl
    <2>4. 1 \in {1, 5} /\ Len(b) = IF 1 = 1 THEN DoubleBytes ELSE 4
        BY <2>2
    <2> HIDE DEF Doubles
    <2> QED BY <2>2, <2>3, <2>4, FixedRead
<1>3. CASE \E n \in FieldNos, s \in Texts : f = Str(n, s)
    BY <1>3, StrRead
<1>4. CASE \E n \in FieldNos, b \in Floats : f = [field |-> n, wire |-> 5, v |-> b]
    <2>1. PICK n \in FieldNos, b \in Floats : f = [field |-> n, wire |-> 5, v |-> b]
        BY <1>4
    <2>2. b \in Seq(Byte) /\ Len(b) = 4
        BY DEF Floats
    <2>3. 5 \in {1, 5} /\ Len(b) = IF 5 = 1 THEN DoubleBytes ELSE 4
        BY <2>2
    <2> QED BY <2>1, <2>2, <2>3, FixedRead
<1> QED BY <1>1, <1>2, <1>3, <1>4 DEF Sendable

-------------------------------------------------------------------------------
(* A turn of the loop over the fields: one more, or none.                   *)
LEMMA TakeMore ==
    ASSUME NEW o, NEW j, NEW bs, NEW f, NEW k, NextField(bs, j) = [more |-> TRUE, field |-> f, next |-> k]
    PROVE  Take([out |-> o, next |-> j, more |-> TRUE], bs) = [out |-> Append(o, f), next |-> k, more |-> TRUE]
<1> DEFINE r == NextField(bs, j)
           t == [out |-> o, next |-> j, more |-> TRUE]
<1>1. r.more = TRUE /\ r.field = f /\ r.next = k
    OBVIOUS
<1>2. t.more = TRUE /\ t.out = o /\ t.next = j
    OBVIOUS
<1> HIDE DEF r, t
<1>3. Take(t, bs) = [out |-> Append(o, f), next |-> k, more |-> TRUE]
    BY <1>1, <1>2 DEF Take, r
<1> QED BY <1>3 DEF t

LEMMA TakeNone ==
    ASSUME NEW o, NEW j, NEW bs, NEW m \in BOOLEAN, m = FALSE \/ NextField(bs, j).more = FALSE
    PROVE  Take([out |-> o, next |-> j, more |-> m], bs) = [out |-> o, next |-> j, more |-> FALSE]
<1> DEFINE t == [out |-> o, next |-> j, more |-> m]
<1>1. t.more = m /\ t.next = j /\ t.out = o
    OBVIOUS
<1> HIDE DEF t
<1>2. Take(t, bs) = [out |-> o, next |-> j, more |-> FALSE]
    BY <1>1 DEF Take
<1> QED BY <1>2 DEF t

(* Behind the end there is no field.                                        *)
LEMMA NoneBehind ==
    ASSUME NEW bs, NEW i, i > Len(bs)
    PROVE  NextField(bs, i).more = FALSE
<1>1. NextField(bs, i) = [more |-> FALSE]
    BY Zenon DEF NextField
<1> QED BY <1>1

(* The fields written, each as bytes; what is written of the first of them. *)
Pieces(fields) == [i \in 1..Len(fields) |-> WriteField(fields[i])]
Bytes(fields, n) == Joint(Pieces(fields))[n]

LEMMA PiecesAre ==
    ASSUME NEW fields \in Seq(Sendable)
    PROVE  /\ Pieces(fields) \in Seq(Seq(Byte)) /\ Len(Pieces(fields)) = Len(fields)
           /\ \A i \in 1..Len(fields) : Pieces(fields)[i] = WriteField(fields[i]) /\ fields[i] \in Sendable
<1>1. \A i \in 1..Len(fields) : fields[i] \in Sendable /\ WriteField(fields[i]) \in Seq(Byte)
    <2>1. \A i \in 1..Len(fields) : fields[i] \in Sendable
        BY ElementOfSeq
    <2>2. \A f \in Sendable : WriteField(f) \in Seq(Byte)
        BY FieldRead DEF IsRead
    <2> QED BY <2>1, <2>2
<1>2. Len(fields) \in Nat
    OBVIOUS
<1>3. Pieces(fields) \in [1..Len(fields) -> Seq(Byte)]
    BY <1>1 DEF Pieces
<1>4. Pieces(fields) \in Seq(Seq(Byte)) /\ Len(Pieces(fields)) = Len(fields)
    BY <1>2, <1>3, SeqDef, LenProperties
<1> QED BY <1>1, <1>4 DEF Pieces

LEMMA WrittenIs ==
    ASSUME NEW fields \in Seq(Sendable)
    PROVE  Written(fields) = Bytes(fields, Len(fields))
<1> DEFINE N == Len(fields)
           T == {n \in Nat : n <= N => Buffer(fields)[n] = Bytes(fields, n)}
<1>0. N \in Nat
    OBVIOUS
<1>1. /\ Buffer(fields)[0] = <<>>
      /\ \A k \in Nat : Buffer(fields)[k + 1] = Appended(Buffer(fields)[k], WriteField(fields[k + 1]))
    BY BufferIs
<1>2. /\ Bytes(fields, 0) = <<>>
      /\ \A k \in Nat : Bytes(fields, k + 1) = Appended(Bytes(fields, k), Pieces(fields)[k + 1])
    BY JointIs DEF Bytes, Appended
<1>3. 0 \in T
    BY <1>1, <1>2
<1>4. ASSUME NEW n \in Nat, n \in T PROVE n + 1 \in T
    <2> SUFFICES ASSUME n + 1 <= N PROVE Buffer(fields)[n + 1] = Bytes(fields, n + 1)
        OBVIOUS
    <2>1. n <= N /\ n + 1 \in 1..N
        BY <1>0
    <2>2. Pieces(fields)[n + 1] = WriteField(fields[n + 1])
        BY <2>1, PiecesAre
    <2>3. Buffer(fields)[n] = Bytes(fields, n)
        BY <1>4, <2>1
    <2> QED BY <1>1, <1>2, <2>2, <2>3
<1> HIDE DEF T
<1>5. N \in T
    BY <1>0, <1>3, <1>4, Induct
<1>6. Buffer(fields)[N] = Bytes(fields, N)
    BY <1>0, <1>5 DEF T
<1> QED BY <1>6 DEF Written

(* The next field lies behind the bytes of those before it.                 *)
LEMMA NextLies ==
    ASSUME NEW fields \in Seq(Sendable)
    PROVE  /\ Bytes(fields, 0) = <<>>
           /\ \A n \in Nat : n <= Len(fields) => Bytes(fields, n) \in Seq(Byte)
           /\ \A n \in Nat : n < Len(fields) =>
                /\ fields[n + 1] \in Sendable
                /\ Len(Bytes(fields, n + 1)) = Len(Bytes(fields, n)) + Len(WriteField(fields[n + 1]))
                /\ Lies(WriteField(fields[n + 1]), Bytes(fields, Len(fields)), Len(Bytes(fields, n)) + 1)
<1> DEFINE N == Len(fields)
           b(n) == Bytes(fields, n)
           parts == Pieces(fields)
<1>1. N \in Nat /\ parts \in Seq(Seq(Byte)) /\ Len(parts) = N
    BY PiecesAre
<1>2. \A i \in 1..N : parts[i] = WriteField(fields[i]) /\ fields[i] \in Sendable
    BY PiecesAre
<1> HIDE DEF N, parts
<1>3. b(0) = <<>>
    BY <1>1, JointBytes DEF Bytes, parts
<1>4. \A n \in Nat : n <= N => b(n) \in Seq(Byte)
    BY <1>1, JointBytes DEF Bytes, parts
<1>5. \A n \in Nat : n < N => b(n + 1) = Appended(b(n), parts[n + 1]) /\ parts[n + 1] \in Seq(Byte)
    BY <1>1, JointBytes DEF Bytes, parts
<1> HIDE DEF b
<1>6. ASSUME NEW n \in Nat, n < N
      PROVE  /\ fields[n + 1] \in Sendable
             /\ Len(b(n + 1)) = Len(b(n)) + Len(WriteField(fields[n + 1]))
             /\ Lies(WriteField(fields[n + 1]), b(N), Len(b(n)) + 1)
    <2> DEFINE x == b(n)
               y == WriteField(fields[n + 1])
               whole == b(N)
    <2>1. n + 1 \in 1..N /\ n <= N /\ n + 1 <= N /\ n + 1 \in Nat
        BY <1>1, <1>6
    <2>2. fields[n + 1] \in Sendable /\ parts[n + 1] = y
        BY <1>2, <2>1
    <2>3. x \in Seq(Byte) /\ y \in Seq(Byte) /\ b(n + 1) = Appended(x, y) /\ whole \in Seq(Byte)
        BY <1>1, <1>4, <1>5, <1>6, <2>1, <2>2
    <2>4. /\ Len(b(n + 1)) <= Len(whole)
          /\ \A q \in 1..Len(b(n + 1)) : whole[q] = b(n + 1)[q]
        <3>1. /\ Len(Joint(parts)[n + 1]) <= Len(Joint(parts)[N])
              /\ \A q \in 1..Len(Joint(parts)[n + 1]) : Joint(parts)[N][q] = Joint(parts)[n + 1][q]
            <4>1. n + 1 \in Nat /\ N \in Nat /\ n + 1 <= N /\ N <= Len(parts)
                BY <1>1, <2>1
            <4> DEFINE m == n + 1
            <4> HIDE DEF m
            <4>2. m \in Nat /\ m <= N
                BY <4>1 DEF m
            <4>3. /\ Len(Joint(parts)[m]) <= Len(Joint(parts)[N])
                  /\ \A q \in 1..Len(Joint(parts)[m]) : Joint(parts)[N][q] = Joint(parts)[m][q]
                BY <1>1, <4>1, <4>2, JointGrows
            <4> QED BY <4>3 DEF m
        <3> QED BY <3>1 DEF b, Bytes, parts
    <2> HIDE DEF x, y, whole
    <2>5. Len(b(n + 1)) = Len(x) + Len(y) /\ Len(x) \in Nat
        <3>1. Len(Appended(x, y)) = Len(x) + Len(y)
            BY <2>3, JoinedIs
        <3> QED BY <2>3, <3>1
    <2>6. Lies(b(n + 1), whole, 1)
        <3>1. Len(whole) \in Nat /\ Len(b(n + 1)) \in Nat
            BY <1>4, <2>1, <2>3
        <3>2. ASSUME NEW q \in 1..Len(b(n + 1)) PROVE 1 + q - 1 <= Len(whole) /\ whole[1 + q - 1] = b(n + 1)[q]
            <4>1. 1 + q - 1 = q /\ q <= Len(whole)
                BY <2>4, <3>1
            <4> QED BY <2>4, <4>1
        <3> QED BY <3>2 DEF Lies
    <2>7. Lies(y, whole, 1 + Len(x))
        BY <2>3, <2>6, PartsLie
    <2>8. 1 + Len(x) = Len(x) + 1
        BY <2>5
    <2> QED BY <2>2, <2>5, <2>7, <2>8 DEF x, y, whole
<1> QED BY <1>3, <1>4, <1>6 DEF N, b

(* What is written is read: every field, in order, and no more.             *)
LEMMA FieldsAreRead ==
    ASSUME NEW fields \in Seq(Sendable)
    PROVE  Written(fields) \in Seq(Byte) /\ FieldsIn(Written(fields)) = fields
<1> DEFINE N == Len(fields)
           w == Written(fields)
           b(n) == Bytes(fields, n)
           t(n) == Taken(w)[n]
<1>1. N \in Nat /\ w = b(N)
    BY WrittenIs
<1>2. b(0) = <<>> /\ \A n \in Nat : n <= N => b(n) \in Seq(Byte)
    BY NextLies
<1>3. \A n \in Nat : n < N =>
        /\ fields[n + 1] \in Sendable
        /\ Len(b(n + 1)) = Len(b(n)) + Len(WriteField(fields[n + 1]))
        /\ Lies(WriteField(fields[n + 1]), w, Len(b(n)) + 1)
    BY <1>1, NextLies
<1>4. t(0) = [out |-> <<>>, next |-> 1, more |-> TRUE] /\ \A k \in Nat : t(k + 1) = Take(t(k), w)
    BY TakenIs
<1>5. w \in Seq(Byte)
    BY <1>1, <1>2
<1> HIDE DEF N, w, b, t
<1>6. \A n \in Nat : n <= N => Len(b(n)) \in Nat
    BY <1>2
<1> DEFINE State(n, o) == t(n) = [out |-> o, next |-> Len(b(n)) + 1, more |-> TRUE]
           First(o, n) == o \in Seq(Sendable) /\ Len(o) = n /\ \A q \in 1..n : o[q] = fields[q]
           Read(n) == (\E o : State(n, o) /\ First(o, n)) /\ Len(b(n)) >= n
           T == {n \in Nat : n <= N => Read(n)}
<1>7. Read(0)
    <2>1. Len(b(0)) = 0
        BY <1>2, EmptySeq
    <2>2. State(0, <<>>)
        <3>1. Len(b(0)) + 1 = 1
            BY <2>1
        <3> QED BY <1>4, <3>1
    <2>3. First(<<>>, 0)
        <3>1. <<>> \in Seq(Sendable) /\ Len(<<>>) = 0
            BY EmptySeq
        <3>2. 1..0 = {}
            OBVIOUS
        <3> QED BY <3>1, <3>2
    <2>4. Len(b(0)) >= 0
        BY <2>1
    <2> HIDE DEF State, First
    <2> QED BY <2>2, <2>3, <2>4
<1>8. ASSUME NEW n \in Nat, n < N, Read(n) PROVE Read(n + 1)
    <2> DEFINE f == fields[n + 1]
               e == WriteField(f)
               j == Len(b(n)) + 1
               k == j + Len(e)
    <2>1. PICK o : State(n, o) /\ First(o, n)
        BY <1>8
    <2>2. f \in Sendable /\ Len(b(n + 1)) = Len(b(n)) + Len(e) /\ Lies(e, w, j)
        BY <1>3, <1>8
    <2>3. e \in Seq(Byte) /\ Len(e) \in Nat \ {0}
        BY <2>2, FieldRead DEF IsRead
    <2>4. Len(b(n)) \in Nat /\ Len(b(n)) >= n
        <3>1. n <= N
            BY <1>1, <1>8
        <3> QED BY <3>1, <1>6, <1>8
    <2>5. j \in Nat \ {0}
        BY <2>4
    <2> HIDE DEF f, e
    <2>6. NextField(w, j) = [more |-> TRUE, field |-> f, next |-> k]
        <3>1. IsRead(f, e)
            BY <2>2, FieldRead DEF e
        <3> HIDE DEF j
        <3> QED BY <3>1, <1>5, <2>2, <2>5 DEF IsRead
    <2>7. k = Len(b(n + 1)) + 1 /\ Len(b(n + 1)) >= n + 1
        <3> DEFINE x == Len(b(n))
                   y == Len(e)
                   z == Len(b(n + 1))
        <3>1. x \in Nat /\ y \in Nat \ {0} /\ z = x + y /\ x >= n
            BY <2>2, <2>3, <2>4
        <3> HIDE DEF x, y, z
        <3>2. (x + 1) + y = z + 1 /\ z >= n + 1
            BY <3>1
        <3> QED BY <3>2 DEF x, y, z
    <2>8. t(n + 1) = [out |-> Append(o, f), next |-> k, more |-> TRUE]
        <3>1. t(n) = [out |-> o, next |-> j, more |-> TRUE] /\ t(n + 1) = Take(t(n), w)
            BY <1>4, <2>1
        <3> HIDE DEF j, k
        <3>2. Take([out |-> o, next |-> j, more |-> TRUE], w) = [out |-> Append(o, f), next |-> k, more |-> TRUE]
            BY <2>6, TakeMore
        <3> QED BY <3>1, <3>2
    <2>9. First(Append(o, f), n + 1)
        <3>1. o \in Seq(Sendable) /\ Len(o) = n /\ \A q \in 1..n : o[q] = fields[q]
            BY <2>1
        <3>2. /\ Append(o, f) \in Seq(Sendable) /\ Len(Append(o, f)) = n + 1
              /\ \A q \in 1..n : Append(o, f)[q] = o[q]
              /\ Append(o, f)[n + 1] = f
            BY <2>2, <3>1, AppendProperties
        <3>3. ASSUME NEW q \in 1..(n + 1) PROVE Append(o, f)[q] = fields[q]
            <4>1. CASE q = n + 1
                BY <3>2, <4>1 DEF f
            <4>2. CASE q # n + 1
                <5>1. q \in 1..n
                    BY <4>2
                <5> QED BY <3>1, <3>2, <5>1
            <4> QED BY <4>1, <4>2
        <3> QED BY <3>2, <3>3
    <2> HIDE DEF k, First
    <2>10. State(n + 1, Append(o, f))
        BY <2>7, <2>8
    <2> HIDE DEF State
    <2> QED BY <2>7, <2>9, <2>10
<1>9. Read(N)
    <2>1. 0 \in T
        BY <1>7
    <2> HIDE DEF Read
    <2>2. ASSUME NEW n \in Nat, n \in T PROVE n + 1 \in T
        <3> SUFFICES ASSUME n + 1 <= N PROVE Read(n + 1)
            OBVIOUS
        <3>1. n < N /\ n <= N
            BY <1>1
        <3>2. Read(n)
            BY <2>2, <3>1
        <3> QED BY <1>8, <3>1, <3>2
    <2> HIDE DEF T
    <2>3. N \in T
        BY <1>1, <2>1, <2>2, Induct
    <2> QED BY <1>1, <2>3 DEF T
<1>10. \A n \in Nat : n <= N => t(n).more = TRUE
    <2>1. 0 \in T
        BY <1>7
    <2>2. ASSUME NEW n \in Nat, n \in T PROVE n + 1 \in T
        <3> HIDE DEF Read
        <3> SUFFICES ASSUME n + 1 <= N PROVE Read(n + 1)
            OBVIOUS
        <3>1. n < N /\ n <= N
            BY <1>1
        <3>2. Read(n)
            BY <2>2, <3>1
        <3> QED BY <1>8, <3>1, <3>2
    <2> HIDE DEF T
    <2>3. \A n \in Nat : n \in T
        BY <2>1, <2>2, Induct
    <2> TAKE n \in Nat
    <2> HAVE n <= N
    <2> HIDE DEF State, First
    <2>4. PICK o : State(n, o)
        BY <2>3 DEF T
    <2> QED BY <2>4 DEF State
<1>11. PICK o : State(N, o) /\ First(o, N)
    BY <1>9
<1>12. o = fields
    <2>1. o \in Seq(Sendable) /\ Len(o) = N /\ \A q \in 1..N : o[q] = fields[q]
        BY <1>11
    <2> QED BY <2>1, SeqEqual DEF N
<1> DEFINE Done(n) == t(n) = [out |-> fields, next |-> Len(w) + 1, more |-> FALSE]
           U == {n \in Nat : n >= N + 1 => Done(n)}
<1>13. Done(N + 1)
    <2> DEFINE j == Len(w) + 1
    <2>1. t(N) = [out |-> fields, next |-> j, more |-> TRUE] /\ t(N + 1) = Take(t(N), w)
        BY <1>1, <1>4, <1>11, <1>12
    <2>2. NextField(w, j).more = FALSE
        <3>1. j > Len(w)
            BY <1>5
        <3> HIDE DEF j
        <3> QED BY <3>1, NoneBehind
    <2> HIDE DEF j
    <2>3. Take([out |-> fields, next |-> j, more |-> TRUE], w) = [out |-> fields, next |-> j, more |-> FALSE]
        BY <2>2, TakeNone
    <2> QED BY <2>1, <2>3 DEF j
<1>14. \A n \in Nat : n \in U
    <2>1. 0 \in U
        BY <1>1
    <2>2. ASSUME NEW n \in Nat, n \in U PROVE n + 1 \in U
        <3> HIDE DEF Done
        <3> SUFFICES ASSUME n + 1 >= N + 1 PROVE Done(n + 1)
            OBVIOUS
        <3>1. CASE n = N
            BY <1>13, <3>1
        <3>2. CASE n # N
            <4>1. n >= N + 1
                BY <1>1, <3>2
            <4>2. Done(n)
                BY <2>2, <4>1
            <4> DEFINE j == Len(w) + 1
            <4>3. t(n) = [out |-> fields, next |-> j, more |-> FALSE] /\ t(n + 1) = Take(t(n), w)
                BY <1>4, <4>2 DEF Done
            <4> HIDE DEF j
            <4>4. Take([out |-> fields, next |-> j, more |-> FALSE], w) = [out |-> fields, next |-> j, more |-> FALSE]
                BY TakeNone
            <4> QED BY <4>3, <4>4 DEF Done, j
        <3> QED BY <3>1, <3>2
    <2> HIDE DEF U
    <2> QED BY <2>1, <2>2, Induct
<1>15. N + 1 \in 1..(Len(w) + 1) /\ Len(w) \in Nat
    <2>1. Len(w) \in Nat
        BY <1>5
    <2>2. Len(w) >= N
        BY <1>1, <1>9
    <2> QED BY <1>1, <2>1, <2>2
<1> DEFINE n == CHOOSE k \in 1..(Len(w) + 1) : ~t(k).more
<1>16. n \in 1..(Len(w) + 1) /\ ~t(n).more
    <2>1. t(N + 1).more = FALSE
        BY <1>13
    <2> QED BY <1>15, <2>1
<1> HIDE DEF n
<1>17. t(n).out = fields
    <2>1. n \in Nat
        BY <1>15, <1>16
    <2>2. n >= N + 1
        BY <1>1, <1>10, <1>16, <2>1
    <2>3. Done(n)
        BY <1>14, <2>1, <2>2
    <2> QED BY <2>3
<1>18. FieldsIn(w) = t(n).out
    BY DEF FieldsIn, t, n
<1> QED BY <1>5, <1>17, <1>18 DEF w

-------------------------------------------------------------------------------
(* Four bytes of a number of 32 bits give it back.                          *)
LEMMA ByteLess ==
    \A x, c \in Nat : x < 256 * c => x \div 256 \in Nat /\ x \div 256 < c
OBVIOUS

LEMMA ByteOf ==
    \A x \in Nat : /\ x % 256 \in Byte /\ x \div 256 \in Nat /\ (x \div 256) * 256 + (x % 256) = x
                   /\ x < 256 => x % 256 = x
BY DEF Byte

LEMMA PutIs ==
    ASSUME NEW n \in ShortWord
    PROVE  LET p == PutBe32(n) IN
           /\ p \in Seq(Byte) /\ Len(p) = 4
           /\ ((p[1] * 256 + p[2]) * 256 + p[3]) * 256 + p[4] = n
<1> DEFINE a == n \div 256
           b == a \div 256
           c == b \div 256
           k1 == 256 * 256
           k2 == 256 * k1
<1>1. n \in Nat /\ n < 256 * k2
    BY DEF ShortWord
<1>2. k1 \in Nat /\ k2 \in Nat
    OBVIOUS
<1>3. PutBe32(n) = <<c % 256, b % 256, a % 256, n % 256>>
    BY DEF PutBe32
<1>4. a \in Nat /\ n % 256 \in Byte /\ a * 256 + (n % 256) = n
    BY <1>1, ByteOf
<1>5. a < k2
    <2> HIDE DEF k2
    <2> QED BY <1>1, <1>2, ByteLess
<1> HIDE DEF a
<1>6. b \in Nat /\ a % 256 \in Byte /\ b * 256 + (a % 256) = a
    BY <1>4, ByteOf
<1>7. b < k1
    <2> HIDE DEF k1
    <2> QED BY <1>2, <1>4, <1>5, ByteLess
<1> HIDE DEF b
<1>8. c \in Nat /\ b % 256 \in Byte /\ c * 256 + (b % 256) = b
    BY <1>6, ByteOf
<1>9. c < 256
    BY <1>6, <1>7, ByteLess
<1> HIDE DEF c
<1>10. c % 256 = c /\ c % 256 \in Byte
    BY <1>8, <1>9, ByteOf
<1> DEFINE w == c % 256
           x == b % 256
           y == a % 256
           z == n % 256
<1>11. w = c /\ w \in Byte /\ x \in Byte /\ y \in Byte /\ z \in Byte
    BY <1>4, <1>6, <1>8, <1>10
<1>12. w * 256 + x = b
    BY <1>8, <1>11
<1>13. b * 256 + y = a /\ a * 256 + z = n
    BY <1>4, <1>6
<1> HIDE DEF w, x, y, z
<1>14. ((w * 256 + x) * 256 + y) * 256 + z = n
    BY <1>12, <1>13
<1>15. <<w, x, y, z>> \in Seq(Byte) /\ Len(<<w, x, y, z>>) = 4
    BY <1>11
<1> DEFINE p == <<w, x, y, z>>
<1>16. p[1] = w /\ p[2] = x /\ p[3] = y /\ p[4] = z
    OBVIOUS
<1>17. PutBe32(n) = p
    BY <1>3 DEF w, x, y, z
<1> HIDE DEF p
<1>18. p \in Seq(Byte) /\ Len(p) = 4
    BY <1>15 DEF p
<1> QED BY <1>14, <1>16, <1>17, <1>18

(* A text lies in itself.                                                   *)
LEMMA LiesInItself ==
    ASSUME NEW x \in Seq(Byte)
    PROVE  Lies(x, x, 1)
<1>1. Len(x) \in Nat
    OBVIOUS
<1>2. \A q \in 1..Len(x) : 1 + q - 1 = q /\ q <= Len(x)
    BY <1>1
<1> QED BY <1>2 DEF Lies

LEMMA FrameBytes ==
    ASSUME NEW flag \in Byte, NEW x \in Seq(Byte), Len(x) \in ShortWord
    PROVE  /\ Frame(flag, x) \in Seq(Byte) /\ Len(Frame(flag, x)) = 5 + Len(x)
           /\ Frame(flag, x) = Appended(Appended(<<flag>>, PutBe32(Len(x))), x)
<1> DEFINE f == <<flag>>
           p == PutBe32(Len(x))
           y == Appended(f, p)
           z == Appended(y, x)
<1>1. f \in Seq(Byte) /\ Len(f) = 1
    OBVIOUS
<1>2. p \in Seq(Byte) /\ Len(p) = 4
    BY PutIs
<1>3. Frame(flag, x) = z
    BY DEF Frame, Appended
<1> HIDE DEF f, p
<1>4. y \in Seq(Byte) /\ Len(y) = Len(f) + Len(p)
    BY <1>1, <1>2, JoinedIs
<1> HIDE DEF y
<1>5. z \in Seq(Byte) /\ Len(z) = Len(y) + Len(x)
    BY <1>4, JoinedIs
<1>6. Len(y) = 5
    BY <1>1, <1>2, <1>4
<1> QED BY <1>3, <1>5, <1>6 DEF y, f, p

(* A frame is taken apart, whatever follows it.                             *)
LEMMA FrameRead ==
    ASSUME NEW flag \in Byte, NEW x \in Seq(Byte), Len(x) \in ShortWord, NEW rest \in Seq(Byte),
           NEW body, body = Appended(Frame(flag, x), rest)
    PROVE  /\ body \in Seq(Byte)
           /\ Unframe(body) = [ok |-> TRUE, msg |-> x]
           /\ SubSeq(body, 6 + Len(x), Len(body)) = rest
<1> DEFINE n == Len(x)
           f == <<flag>>
           p == PutBe32(n)
           y == Appended(f, p)
           z == Frame(flag, x)
<1>1. n \in Nat /\ f \in Seq(Byte) /\ Len(f) = 1
    OBVIOUS
<1>2. p \in Seq(Byte) /\ Len(p) = 4 /\ ((p[1] * 256 + p[2]) * 256 + p[3]) * 256 + p[4] = n
    BY PutIs
<1>3. z \in Seq(Byte) /\ Len(z) = 5 + n /\ z = Appended(y, x)
    BY FrameBytes
<1> HIDE DEF f, p, z, n
<1>4. y \in Seq(Byte) /\ Len(y) = 5
    <2>1. y \in Seq(Byte) /\ Len(y) = Len(f) + Len(p)
        BY <1>1, <1>2, JoinedIs
    <2> QED BY <1>1, <1>2, <2>1
<1>5. body \in Seq(Byte) /\ Len(body) = Len(z) + Len(rest)
    BY <1>3, JoinedIs DEF z
<1>6. Lies(z, body, 1) /\ Lies(rest, body, 1 + Len(z))
    <2>1. Lies(Appended(z, rest), body, 1)
        BY <1>5, LiesInItself DEF z
    <2> QED BY <2>1, <1>3, PartsLie
<1>7. Lies(y, body, 1) /\ Lies(x, body, 1 + Len(y))
    <2> HIDE DEF y
    <2> QED BY <1>3, <1>4, <1>6, PartsLie
<1>8. Lies(p, body, 1 + Len(f))
    BY <1>1, <1>2, <1>7, PartsLie
<1> HIDE DEF y
<1>9. body[2] = p[1] /\ body[3] = p[2] /\ body[4] = p[3] /\ body[5] = p[4]
    <2>1. \A q \in 1..4 : body[2 + q - 1] = p[q]
        BY <1>1, <1>2, <1>8 DEF Lies
    <2>2. 2 + 1 - 1 = 2 /\ 2 + 2 - 1 = 3 /\ 2 + 3 - 1 = 4 /\ 2 + 4 - 1 = 5
        OBVIOUS
    <2>3. 1 \in 1..4 /\ 2 \in 1..4 /\ 3 \in 1..4 /\ 4 \in 1..4
        OBVIOUS
    <2> QED BY <2>1, <2>2, <2>3
<1>10. Be32(body, 2) = n
    <2>1. 2 + 1 = 3 /\ 2 + 2 = 4 /\ 2 + 3 = 5
        OBVIOUS
    <2>2. Be32(body, 2) = ((body[2] * 256 + body[3]) * 256 + body[4]) * 256 + body[5]
        BY <2>1 DEF Be32
    <2> QED BY <1>2, <1>9, <2>2
<1>11. Len(rest) \in Nat /\ Len(body) = (5 + n) + Len(rest)
    BY <1>3, <1>5
<1>12. ~(Len(body) < 5) /\ ~(5 + n > Len(body))
    BY <1>1, <1>11
<1>13. SubSeq(body, 6, 5 + n) = x
    <2> DEFINE i == 6
    <2>1. Lies(x, body, i) /\ i \in Nat \ {0} /\ i + n - 1 = 5 + n
        BY <1>1, <1>4, <1>7
    <2> HIDE DEF i
    <2>2. SubSeq(body, i, i + Len(x) - 1) = x
        BY <1>5, <2>1, LyingIs
    <2> QED BY <2>1, <2>2 DEF n, i
<1>14. Unframe(body) = [ok |-> TRUE, msg |-> x]
    BY <1>10, <1>12, <1>13 DEF Unframe
<1>15. SubSeq(body, 6 + n, Len(body)) = rest
    <2> DEFINE i == 6 + n
    <2>1. i \in Nat \ {0} /\ i = 1 + Len(z) /\ i + Len(rest) - 1 = Len(body)
        BY <1>1, <1>3, <1>11
    <2> HIDE DEF i
    <2>2. SubSeq(body, i, i + Len(rest) - 1) = rest
        BY <1>5, <1>6, <2>1, LyingIs
    <2> QED BY <2>1, <2>2 DEF i
<1> QED BY <1>5, <1>14, <1>15 DEF n

(* A frame with nothing behind it.                                          *)
LEMMA FrameAlone ==
    ASSUME NEW flag \in Byte, NEW x \in Seq(Byte), Len(x) \in ShortWord
    PROVE  Unframe(Frame(flag, x)) = [ok |-> TRUE, msg |-> x]
<1> DEFINE z == Frame(flag, x)
<1>1. z \in Seq(Byte)
    BY FrameBytes
<1> HIDE DEF z
<1>2. z = Appended(z, <<>>) /\ <<>> \in Seq(Byte)
    BY <1>1, ConcatEmptySeq, EmptySeq DEF Appended
<1> QED BY <1>2, FrameRead DEF z

(* Short texts are as long as a number of 32 bits.                          *)
LEMMA ShortLengths == 0 \in ShortWord /\ 1 \in ShortWord
<1> DEFINE k == 256 * (256 * 256)
<1>1. k \in Nat /\ k > 0
    OBVIOUS
<1>2. ShortWord = {v \in Nat : v < 256 * k}
    BY DEF ShortWord
<1> HIDE DEF k
<1> QED BY <1>1, <1>2

(* The reply and the trailer behind it.                                     *)
LEMMA ResponseRead ==
    ASSUME NEW x \in Seq(Byte), Len(x) \in ShortWord, NEW status \in Byte
    PROVE  LET body == GrpcResponse(x, status) IN
           /\ Unframe(body).msg = x
           /\ Unframe(SubSeq(body, 6 + Len(x), Len(body))).msg = Trailer(status)
<1> DEFINE rest == Frame(128, Trailer(status))
           body == GrpcResponse(x, status)
<1>1. Trailer(status) \in Seq(Byte) /\ Len(Trailer(status)) \in ShortWord
    BY ShortLengths DEF Trailer
<1>2. 128 \in Byte /\ 0 \in Byte
    BY DEF Byte
<1>3. rest \in Seq(Byte) /\ Unframe(rest) = [ok |-> TRUE, msg |-> Trailer(status)]
    BY <1>1, <1>2, FrameBytes, FrameAlone
<1>4. body = Appended(Frame(0, x), rest)
    BY DEF GrpcResponse, Appended
<1> HIDE DEF rest, body
<1>5. Unframe(body) = [ok |-> TRUE, msg |-> x] /\ SubSeq(body, 6 + Len(x), Len(body)) = rest
    BY <1>2, <1>3, <1>4, FrameRead
<1>6. Unframe(body).msg = x
    BY <1>5
<1>7. Unframe(SubSeq(body, 6 + Len(x), Len(body))).msg = Trailer(status)
    <2> DEFINE t == Trailer(status)
    <2>1. Unframe(rest) = [ok |-> TRUE, msg |-> t]
        BY <1>3
    <2> HIDE DEF t
    <2>2. Unframe(rest).msg = t
        BY <2>1
    <2> QED BY <1>5, <2>2 DEF t
<1> QED BY <1>6, <1>7 DEF body

-------------------------------------------------------------------------------
(* A parameter is the last field of its number, or the default.             *)
LEMMA ParamIs ==
    ASSUME NEW fields \in Seq(Sendable), NEW n, NEW default
    PROVE  LET at == {i \in DOMAIN fields : fields[i].field = n} IN
           Param(fields, n, default) =
               IF at = {} THEN default ELSE fields[CHOOSE i \in at : \A j \in at : j <= i].v
<1> DEFINE N == Len(fields)
           s(k) == SoFar(fields, n, default)[k]
           Is(i) == fields[i].field = n
           None(k) == s(k) = default /\ \A i \in 1..k : ~Is(i)
           LastIs(i, k) == i \in 1..k /\ Is(i) /\ s(k) = fields[i].v /\ \A j \in 1..k : Is(j) => j <= i
           Good(k) == None(k) \/ \E i : LastIs(i, k)
           T == {k \in Nat : Good(k)}
<1>1. N \in Nat /\ DOMAIN fields = 1..N
    OBVIOUS
<1>2. s(0) = default /\ \A k \in Nat : s(k + 1) = IF Is(k + 1) THEN fields[k + 1].v ELSE s(k)
    <2> DEFINE v == SoFar(fields, n, default)
    <2>0. Passed(v, fields, n, default)
        BY SoFarIs
    <2> HIDE DEF v
    <2>1. v[0] = default /\ \A k \in Nat : v[k + 1] = IF fields[k + 1].field = n THEN fields[k + 1].v ELSE v[k]
        BY <2>0 DEF Passed
    <2>2. \A k : s(k) = v[k]
        BY DEF v
    <2>3. \A i : Is(i) <=> fields[i].field = n
        OBVIOUS
    <2> HIDE DEF s, Is
    <2> QED BY <2>1, <2>2, <2>3
<1> HIDE DEF s, Is, N
<1>3. 0 \in T
    <2>1. None(0)
        BY <1>2
    <2> QED BY <2>1
<1>4. ASSUME NEW k \in Nat, k \in T PROVE k + 1 \in T
    <2>1. s(k + 1) = IF Is(k + 1) THEN fields[k + 1].v ELSE s(k)
        BY <1>2
    <2>2. \A i \in 1..(k + 1) : i = k + 1 \/ i \in 1..k
        OBVIOUS
    <2>3. \A i \in 1..k : i \in 1..(k + 1) /\ i <= k + 1
        OBVIOUS
    <2>4. k + 1 \in 1..(k + 1) /\ k + 1 <= k + 1 /\ k + 1 \in Nat
        OBVIOUS
    <2>5. CASE Is(k + 1)
        <3>1. \A j \in 1..(k + 1) : j <= k + 1
            OBVIOUS
        <3>2. LastIs(k + 1, k + 1)
            BY <2>1, <2>4, <2>5, <3>1
        <3> QED BY <2>4, <3>2
    <2>6. CASE ~Is(k + 1)
        <3>0. Good(k) /\ s(k + 1) = s(k)
            BY <1>4, <2>1, <2>6
        <3>1. CASE None(k)
            <4>1. None(k + 1)
                BY <3>0, <3>1, <2>2, <2>6
            <4> QED BY <2>4, <4>1
        <3>2. CASE \E i : LastIs(i, k)
            <4>1. PICK i : LastIs(i, k)
                BY <3>2
            <4>2. LastIs(i, k + 1)
                BY <3>0, <4>1, <2>2, <2>3, <2>6
            <4> QED BY <2>4, <4>2
        <3> QED BY <3>0, <3>1, <3>2
    <2> QED BY <2>5, <2>6
<1> HIDE DEF T
<1>5. \A k \in Nat : k \in T
    BY <1>3, <1>4, Induct
<1>6. Good(N)
    BY <1>1, <1>5 DEF T
<1> DEFINE at == {i \in 1..N : Is(i)}
<1>7. CASE None(N)
    <2>1. at = {} /\ s(N) = default
        BY <1>7
    <2> QED BY <1>1, <2>1 DEF Param, s, N, Is
<1>8. CASE \E i : LastIs(i, N)
    <2>1. PICK i : LastIs(i, N)
        BY <1>8
    <2> DEFINE last == CHOOSE k \in at : \A j \in at : j <= k
    <2>2. i \in at /\ \A j \in at : j <= i
        BY <2>1
    <2>3. last \in at /\ \A j \in at : j <= last
        BY <2>2
    <2>4. at \subseteq Nat
        OBVIOUS
    <2> HIDE DEF last, at
    <2>5. i <= last /\ last <= i /\ i \in Nat /\ last \in Nat
        BY <2>2, <2>3, <2>4
    <2>6. last = i
        BY <2>5
    <2>7. at # {} /\ s(N) = fields[last].v
        BY <2>1, <2>2, <2>6
    <2> QED BY <1>1, <2>7 DEF Param, s, N, Is, at, last
<1> QED BY <1>6, <1>7, <1>8

(* So what the service is asked is what was meant.                          *)
LEMMA AskedAsMeant ==
    ASSUME NEW method, NEW fields \in Seq(Sendable)
    PROVE  Params(method, fields) = Meant(method, fields)
<1> DEFINE last(n, default) ==
               LET at == {i \in DOMAIN fields : fields[i].field = n}
               IN  IF at = {} THEN default ELSE fields[CHOOSE i \in at : \A j \in at : j <= i].v
<1>1. \A n, default : Param(fields, n, default) = last(n, default)
    BY ParamIs
<1>2. Meant(method, fields) =
        CASE method = "Upload" -> [name |-> IF last(1, <<>>) = <<>> THEN Unnamed ELSE last(1, <<>>),
                                   mime |-> last(2, <<>>), content |-> last(3, <<>>)]
          [] method = "Verify" -> [id |-> last(1, <<>>), rel |-> last(2, FivePercent)]
          [] OTHER -> [id |-> last(1, <<>>)]
    BY Zenon DEF Meant
<1> HIDE DEF last
<1> QED BY <1>1, <1>2, Zenon DEF Params

-------------------------------------------------------------------------------
(* What the service returns: texts, numbers and messages that a number of   *)
(* 64 bits can count.                                                       *)
TargetRecs ==
    {t \in [cell : Texts, label : Texts, verdict : Texts, ms : {<<>>} \cup {<<x, y>> : x \in Doubles, y \in Doubles},
            method : Texts, holes : Word, cert : Texts, valid : BOOLEAN] : Len(Written(TargetFields(t))) \in Word}
NodeRecs ==
    {n \in [id : Texts, label : Texts, input : BOOLEAN, ambiguous : BOOLEAN] : Len(Written(NodeFields(n))) \in Word}
EdgeRecs == {e \in [from : Texts, to : Texts, origin : Texts] : Len(Written(EdgeFields(e))) \in Word}
LinkRecs == {e \in [from : Texts, to : Texts, rel : Texts] : Len(Written(LinkFields(e))) \in Word}
EntryRecs ==
    {e \in [seq : Word, type : Texts, subject : Texts, prev : Texts] : Len(Written(EntryFields(e))) \in Word}
Analyses ==
    [ok : {TRUE}, model : Texts, format : Texts, nodes : Word, edges : Word, consistent : BOOLEAN, obstructed : BOOLEAN]
Returned(method) ==
    CASE method = "Upload" -> [id : Texts, size : Word]
      [] method = "Analyze" -> {Absent} \cup Analyses
      [] method = "Verify" -> {Absent} \cup [ok : BOOLEAN, run : Texts, targets : Seq(TargetRecs)]
      [] method = "GetCertificate" ->
            {Absent} \cup [ok : {TRUE}, id : Texts, artifact : Texts, chainOk : BOOLEAN, targets : Seq(TargetRecs)]
      [] method = "GetArtifact" -> {Absent} \cup [ok : {TRUE}, id : Texts, name : Texts, hash : Texts, size : Word]
      [] method = "GetGraph" -> {Absent} \cup [ok : {TRUE}, nodes : Seq(NodeRecs), edges : Seq(EdgeRecs)]
      [] method = "Provenance" -> {Absent} \cup [ok : {TRUE}, links : Seq(LinkRecs)]
      [] method = "AuditHistory" -> [chainOk : BOOLEAN, entries : Seq(EntryRecs)]

(* The fields of replies are among those that can be sent.                  *)
LEMMA SmallNos == 1..9 \subseteq FieldNos
<1> DEFINE k == 256 * (256 * 256)
<1>1. k \in Nat /\ k > 0
    OBVIOUS
<1>2. ShortWord = {v \in Nat : v < 256 * k}
    BY DEF ShortWord
<1> HIDE DEF k
<1>3. \A n \in 1..9 : n \in Nat /\ 8 * n + 7 \in Nat /\ 8 * n + 7 < 256 * k
    BY <1>1
<1> QED BY <1>2, <1>3 DEF FieldNos

LEMMA BitsAreWords == 0 \in Word /\ 1 \in Word
BY ShortLengths, ShortIsWord

LEMMA FieldsSent ==
    ASSUME NEW n \in 1..9
    PROVE  /\ \A v \in Word : Num(n, v) \in Sendable /\ Num(n, v).field = n
           /\ \A b \in BOOLEAN : Bool(n, b) \in Sendable /\ Bool(n, b).field = n
           /\ \A b \in Doubles : Dbl(n, b) \in Sendable /\ Dbl(n, b).field = n
           /\ \A s \in Texts : Str(n, s) \in Sendable /\ Str(n, s).field = n /\ Str(n, s).v = s
<1>1. n \in FieldNos
    BY SmallNos
<1>2. \A v \in Word : Num(n, v) \in Sendable
    BY <1>1 DEF Sendable
<1>3. \A b \in Doubles : Dbl(n, b) \in Sendable
    BY <1>1 DEF Sendable
<1>4. \A s \in Texts : Str(n, s) \in Sendable
    BY <1>1 DEF Sendable
<1>5. \A b \in BOOLEAN : Bool(n, b) \in Sendable
    BY <1>2, BitsAreWords DEF Bool
<1>6. /\ \A v : Num(n, v).field = n
      /\ \A b : Dbl(n, b).field = n
      /\ \A s : Str(n, s).field = n /\ Str(n, s).v = s
    BY DEF Num, Dbl, Str
<1>7. \A b : Bool(n, b).field = n
    BY <1>6 DEF Bool
<1> QED BY <1>2, <1>3, <1>4, <1>5, <1>6, <1>7

(* Fields that can be sent, those numbered in S being messages.             *)
Good(fields, S) ==
    /\ fields \in Seq(Sendable)
    /\ \A i \in 1..Len(fields) : fields[i].field \in S => \E fs \in Seq(Sendable) : fields[i].v = Written(fs)

LEMMA GoodJoined ==
    ASSUME NEW S, NEW x, NEW y, Good(x, S), Good(y, S)
    PROVE  Good(x \o y, S)
<1> DEFINE z == x \o y
           a == Len(x)
           b == Len(y)
           Well(f) == f.field \in S => \E fs \in Seq(Sendable) : f.v = Written(fs)
<1>1. x \in Seq(Sendable) /\ y \in Seq(Sendable) /\ a \in Nat /\ b \in Nat
    BY DEF Good
<1>2. (\A i \in 1..a : Well(x[i])) /\ \A i \in 1..b : Well(y[i])
    BY DEF Good
<1>3. /\ z \in Seq(Sendable) /\ Len(z) = a + b
      /\ \A i \in 1..(a + b) : z[i] = IF i <= a THEN x[i] ELSE y[i - a]
    BY <1>1, ConcatProperties
<1> HIDE DEF z, a, b, Well
<1>4. ASSUME NEW i \in 1..(a + b) PROVE Well(z[i])
    <2>1. CASE i <= a
        <3>1. i \in 1..a
            BY <1>1, <2>1
        <3> QED BY <1>2, <1>3, <2>1, <3>1
    <2>2. CASE ~(i <= a)
        <3>1. i - a \in 1..b
            BY <1>1, <2>2
        <3>2. z[i] = y[i - a]
            BY <1>3, <2>2
        <3> QED BY <1>2, <3>1, <3>2
    <2> QED BY <2>1, <2>2
<1> QED BY <1>3, <1>4 DEF Good, z, Well

LEMMA GoodFields ==
    ASSUME NEW S, NEW fields \in Seq(Sendable), \A i \in 1..Len(fields) : fields[i].field \notin S
    PROVE  Good(fields, S)
BY DEF Good

(* One message for each of the texts.                                       *)
LEMMA GoodMessages ==
    ASSUME NEW S, NEW n \in 1..9, NEW m \in Nat, NEW ms, NEW es,
           \A i \in 1..m : ms[i] \in Seq(Sendable) /\ Len(Written(ms[i])) \in Word,
           es = [i \in 1..m |-> Message(n, ms[i])]
    PROVE  Good(es, S)
<1>1. ASSUME NEW i \in 1..m PROVE es[i] \in Sendable /\ es[i].v = Written(ms[i])
    <2> DEFINE w == Written(ms[i])
    <2>1. w \in Seq(Byte) /\ Len(w) \in Word
        BY FieldsAreRead
    <2> HIDE DEF w
    <2>2. w \in Texts
        BY <2>1 DEF Texts
    <2>3. Str(n, w) \in Sendable /\ Str(n, w).v = w
        BY <2>2, FieldsSent
    <2>4. es[i] = Str(n, w)
        BY DEF Message, w
    <2> QED BY <2>3, <2>4 DEF w
<1>2. es \in [1..m -> Sendable]
    BY <1>1
<1>3. es \in Seq(Sendable) /\ Len(es) = m
    BY <1>2, SeqDef, LenProperties
<1> QED BY <1>1, <1>3 DEF Good

-------------------------------------------------------------------------------
(* Fields of numbers outside S.                                             *)
Plain(S) == {f \in Sendable : f.field \notin S}

LEMMA GoodPlain ==
    ASSUME NEW S, NEW fields \in Seq(Plain(S))
    PROVE  Good(fields, S)
<1>1. \A i \in 1..Len(fields) : fields[i] \in Sendable /\ fields[i].field \notin S
    BY DEF Plain
<1>2. fields \in Seq(Sendable)
    BY <1>1, SeqDef, LenProperties
<1> QED BY <1>1, <1>2, GoodFields

LEMMA PlainFields ==
    ASSUME NEW S, NEW n \in 1..9, n \notin S
    PROVE  /\ \A v \in Word : Num(n, v) \in Plain(S)
           /\ \A b \in BOOLEAN : Bool(n, b) \in Plain(S)
           /\ \A b \in Doubles : Dbl(n, b) \in Plain(S)
           /\ \A s \in Texts : Str(n, s) \in Plain(S)
BY FieldsSent DEF Plain

(* A reply that says no, and one that says nothing.                         *)
LEMMA GoodNo ==
    ASSUME NEW S, 1 \notin S
    PROVE  Good(<<Bool(1, FALSE)>>, S)
<1> DEFINE f == Num(1, 0)
<1>1. Bool(1, FALSE) = f
    BY Zenon DEF Bool
<1>2. f \in Plain(S)
    BY PlainFields, BitsAreWords
<1> HIDE DEF f
<1>3. <<f>> \in Seq(Plain(S))
    BY <1>2
<1>4. Good(<<f>>, S)
    BY <1>3, GoodPlain
<1> QED BY <1>1, <1>4

LEMMA GoodNone == \A S : Good(<<>>, S)
BY DEF Good

LEMMA TargetSent ==
    ASSUME NEW t \in TargetRecs
    PROVE  TargetFields(t) \in Seq(Sendable) /\ Len(Written(TargetFields(t))) \in Word
<1>1. /\ t.cell \in Texts /\ t.label \in Texts /\ t.verdict \in Texts /\ t.method \in Texts
      /\ t.holes \in Word /\ t.cert \in Texts /\ t.valid \in BOOLEAN
    BY DEF TargetRecs
<1>2. t.ms = <<>> \/ \E x, y \in Doubles : t.ms = <<x, y>>
    BY DEF TargetRecs
<1> DEFINE a == <<Str(1, t.cell), Str(2, t.label), Str(3, t.verdict)>>
           b == IF Len(t.ms) = 2 THEN <<Dbl(4, t.ms[1]), Dbl(5, t.ms[2])>> ELSE <<>>
           c == <<Str(6, t.method), Num(7, t.holes), Str(8, t.cert), Bool(9, t.valid)>>
<1>3. a \in Seq(Sendable)
    <2>1. Str(1, t.cell) \in Sendable /\ Str(2, t.label) \in Sendable /\ Str(3, t.verdict) \in Sendable
        BY <1>1, FieldsSent
    <2> QED BY <2>1
<1>4. b \in Seq(Sendable)
    <2>1. CASE t.ms = <<>>
        BY <2>1
    <2>2. CASE \E x, y \in Doubles : t.ms = <<x, y>>
        <3>1. PICK x \in Doubles, y \in Doubles : t.ms = <<x, y>>
            BY <2>2
        <3>2. Dbl(4, x) \in Sendable /\ Dbl(5, y) \in Sendable
            BY FieldsSent
        <3>3. Len(t.ms) = 2 /\ t.ms[1] = x /\ t.ms[2] = y
            BY <3>1
        <3>4. b = <<Dbl(4, x), Dbl(5, y)>>
            BY <3>3
        <3> QED BY <3>2, <3>4
    <2> QED BY <1>2, <2>1, <2>2
<1>5. c \in Seq(Sendable)
    <2>1. /\ Str(6, t.method) \in Sendable /\ Num(7, t.holes) \in Sendable
          /\ Str(8, t.cert) \in Sendable /\ Bool(9, t.valid) \in Sendable
        BY <1>1, FieldsSent
    <2> QED BY <2>1
<1>6. TargetFields(t) = (a \o b) \o c
    BY DEF TargetFields
<1> HIDE DEF a, b, c
<1>7. (a \o b) \o c \in Seq(Sendable)
    BY <1>3, <1>4, <1>5, ConcatProperties
<1>8. Len(Written(TargetFields(t))) \in Word
    BY DEF TargetRecs
<1> QED BY <1>6, <1>7, <1>8

LEMMA NodeSent ==
    ASSUME NEW n \in NodeRecs
    PROVE  NodeFields(n) \in Seq(Sendable) /\ Len(Written(NodeFields(n))) \in Word
<1>1. n.id \in Texts /\ n.label \in Texts /\ n.input \in BOOLEAN /\ n.ambiguous \in BOOLEAN
    BY DEF NodeRecs
<1>2. /\ Str(1, n.id) \in Sendable /\ Str(2, n.label) \in Sendable
      /\ Bool(3, n.input) \in Sendable /\ Bool(4, n.ambiguous) \in Sendable
    BY <1>1, FieldsSent
<1>3. NodeFields(n) \in Seq(Sendable)
    BY <1>2 DEF NodeFields
<1> QED BY <1>3 DEF NodeRecs

LEMMA EdgeSent ==
    ASSUME NEW e \in EdgeRecs
    PROVE  EdgeFields(e) \in Seq(Sendable) /\ Len(Written(EdgeFields(e))) \in Word
<1>1. e.from \in Texts /\ e.to \in Texts /\ e.origin \in Texts
    BY DEF EdgeRecs
<1>2. Str(1, e.from) \in Sendable /\ Str(2, e.to) \in Sendable /\ Str(3, e.origin) \in Sendable
    BY <1>1, FieldsSent
<1>3. EdgeFields(e) \in Seq(Sendable)
    BY <1>2 DEF EdgeFields
<1> QED BY <1>3 DEF EdgeRecs

LEMMA LinkSent ==
    ASSUME NEW e \in LinkRecs
    PROVE  LinkFields(e) \in Seq(Sendable) /\ Len(Written(LinkFields(e))) \in Word
<1>1. e.from \in Texts /\ e.to \in Texts /\ e.rel \in Texts
    BY DEF LinkRecs
<1>2. Str(1, e.from) \in Sendable /\ Str(2, e.to) \in Sendable /\ Str(3, e.rel) \in Sendable
    BY <1>1, FieldsSent
<1>3. LinkFields(e) \in Seq(Sendable)
    BY <1>2 DEF LinkFields
<1> QED BY <1>3 DEF LinkRecs

LEMMA EntrySent ==
    ASSUME NEW e \in EntryRecs
    PROVE  EntryFields(e) \in Seq(Sendable) /\ Len(Written(EntryFields(e))) \in Word
<1>1. e.seq \in Word /\ e.type \in Texts /\ e.subject \in Texts /\ e.prev \in Texts
    BY DEF EntryRecs
<1>2. /\ Num(1, e.seq) \in Sendable /\ Str(2, e.type) \in Sendable
      /\ Str(3, e.subject) \in Sendable /\ Str(4, e.prev) \in Sendable
    BY <1>1, FieldsSent
<1>3. EntryFields(e) \in Seq(Sendable)
    BY <1>2 DEF EntryFields
<1> QED BY <1>3 DEF EntryRecs

(* The messages of a reply, one for each of the things returned.            *)
SentTargets(n, items) == Each(n, items, TargetFields)
SentNodes(n, items) == Each(n, items, NodeFields)
SentEdges(n, items) == Each(n, items, EdgeFields)
SentLinks(n, items) == Each(n, items, LinkFields)
SentEntries(n, items) == Each(n, items, EntryFields)

LEMMA GoodTargets ==
    ASSUME NEW S, NEW n \in 1..9, NEW items \in Seq(TargetRecs)
    PROVE  Good(SentTargets(n, items), S)
<1> DEFINE m == Len(items)
           ms == [i \in 1..m |-> TargetFields(items[i])]
           es == SentTargets(n, items)
<1>1. m \in Nat /\ \A i \in 1..m : items[i] \in TargetRecs
    OBVIOUS
<1>2. \A i \in 1..m : ms[i] = TargetFields(items[i])
    OBVIOUS
<1>3. es = [i \in 1..m |-> Message(n, TargetFields(items[i]))]
    BY Zenon DEF SentTargets, Each
<1> HIDE DEF m, ms, es
<1>4. es = [i \in 1..m |-> Message(n, ms[i])]
    BY <1>2, <1>3
<1>5. \A i \in 1..m : ms[i] \in Seq(Sendable) /\ Len(Written(ms[i])) \in Word
    BY <1>1, <1>2, TargetSent
<1>6. Good(es, S)
    BY <1>1, <1>4, <1>5, GoodMessages
<1> QED BY <1>6 DEF es

LEMMA GoodNodes ==
    ASSUME NEW S, NEW n \in 1..9, NEW items \in Seq(NodeRecs)
    PROVE  Good(SentNodes(n, items), S)
<1> DEFINE m == Len(items)
           ms == [i \in 1..m |-> NodeFields(items[i])]
           es == SentNodes(n, items)
<1>1. m \in Nat /\ \A i \in 1..m : items[i] \in NodeRecs
    OBVIOUS
<1>2. \A i \in 1..m : ms[i] = NodeFields(items[i])
    OBVIOUS
<1>3. es = [i \in 1..m |-> Message(n, NodeFields(items[i]))]
    BY Zenon DEF SentNodes, Each
<1> HIDE DEF m, ms, es
<1>4. es = [i \in 1..m |-> Message(n, ms[i])]
    BY <1>2, <1>3
<1>5. \A i \in 1..m : ms[i] \in Seq(Sendable) /\ Len(Written(ms[i])) \in Word
    BY <1>1, <1>2, NodeSent
<1>6. Good(es, S)
    BY <1>1, <1>4, <1>5, GoodMessages
<1> QED BY <1>6 DEF es

LEMMA GoodEdges ==
    ASSUME NEW S, NEW n \in 1..9, NEW items \in Seq(EdgeRecs)
    PROVE  Good(SentEdges(n, items), S)
<1> DEFINE m == Len(items)
           ms == [i \in 1..m |-> EdgeFields(items[i])]
           es == SentEdges(n, items)
<1>1. m \in Nat /\ \A i \in 1..m : items[i] \in EdgeRecs
    OBVIOUS
<1>2. \A i \in 1..m : ms[i] = EdgeFields(items[i])
    OBVIOUS
<1>3. es = [i \in 1..m |-> Message(n, EdgeFields(items[i]))]
    BY Zenon DEF SentEdges, Each
<1> HIDE DEF m, ms, es
<1>4. es = [i \in 1..m |-> Message(n, ms[i])]
    BY <1>2, <1>3
<1>5. \A i \in 1..m : ms[i] \in Seq(Sendable) /\ Len(Written(ms[i])) \in Word
    BY <1>1, <1>2, EdgeSent
<1>6. Good(es, S)
    BY <1>1, <1>4, <1>5, GoodMessages
<1> QED BY <1>6 DEF es

LEMMA GoodLinks ==
    ASSUME NEW S, NEW n \in 1..9, NEW items \in Seq(LinkRecs)
    PROVE  Good(SentLinks(n, items), S)
<1> DEFINE m == Len(items)
           ms == [i \in 1..m |-> LinkFields(items[i])]
           es == SentLinks(n, items)
<1>1. m \in Nat /\ \A i \in 1..m : items[i] \in LinkRecs
    OBVIOUS
<1>2. \A i \in 1..m : ms[i] = LinkFields(items[i])
    OBVIOUS
<1>3. es = [i \in 1..m |-> Message(n, LinkFields(items[i]))]
    BY Zenon DEF SentLinks, Each
<1> HIDE DEF m, ms, es
<1>4. es = [i \in 1..m |-> Message(n, ms[i])]
    BY <1>2, <1>3
<1>5. \A i \in 1..m : ms[i] \in Seq(Sendable) /\ Len(Written(ms[i])) \in Word
    BY <1>1, <1>2, LinkSent
<1>6. Good(es, S)
    BY <1>1, <1>4, <1>5, GoodMessages
<1> QED BY <1>6 DEF es

LEMMA GoodEntries ==
    ASSUME NEW S, NEW n \in 1..9, NEW items \in Seq(EntryRecs)
    PROVE  Good(SentEntries(n, items), S)
<1> DEFINE m == Len(items)
           ms == [i \in 1..m |-> EntryFields(items[i])]
           es == SentEntries(n, items)
<1>1. m \in Nat /\ \A i \in 1..m : items[i] \in EntryRecs
    OBVIOUS
<1>2. \A i \in 1..m : ms[i] = EntryFields(items[i])
    OBVIOUS
<1>3. es = [i \in 1..m |-> Message(n, EntryFields(items[i]))]
    BY Zenon DEF SentEntries, Each
<1> HIDE DEF m, ms, es
<1>4. es = [i \in 1..m |-> Message(n, ms[i])]
    BY <1>2, <1>3
<1>5. \A i \in 1..m : ms[i] \in Seq(Sendable) /\ Len(Written(ms[i])) \in Word
    BY <1>1, <1>2, EntrySent
<1>6. Good(es, S)
    BY <1>1, <1>4, <1>5, GoodMessages
<1> QED BY <1>6 DEF es

(* Every reply is of such fields, and what a method means as messages is.   *)
LEMMA ReplyIsGood ==
    ASSUME NEW method \in Methods, NEW a \in Returned(method)
    PROVE  Good(Reply(method, a), MessagesIn(method))
<1> DEFINE S == MessagesIn(method)
<1> SUFFICES Good(Reply(method, a), S)
    OBVIOUS
<1> HIDE DEF S
<1>1. CASE method = "Upload"
    <2>1. a.id \in Texts /\ a.size \in Word
        BY <1>1 DEF Returned
    <2>2. Reply(method, a) = <<Str(1, a.id), Num(2, a.size)>>
        BY <1>1 DEF Reply
    <2>3. 1 \notin S /\ 2 \notin S
        BY <1>1 DEF MessagesIn, S
    <2>4. Str(1, a.id) \in Plain(S) /\ Num(2, a.size) \in Plain(S)
        BY <2>1, <2>3, PlainFields
    <2>5. <<Str(1, a.id), Num(2, a.size)>> \in Seq(Plain(S))
        BY <2>4
    <2> QED BY <2>2, <2>3, <2>5, GoodPlain
<1>2. CASE method = "Analyze"
    <2>1. a = Absent \/ a \in Analyses
        BY <1>2 DEF Returned
    <2>2. Reply(method, a) =
            IF ~a.ok THEN <<Bool(1, FALSE)>>
            ELSE <<Bool(1, TRUE), Str(2, a.model), Str(3, a.format), Num(4, a.nodes), Num(5, a.edges),
                   Bool(6, a.consistent), Bool(7, a.obstructed)>>
        BY <1>2 DEF Reply
    <2>3. 1 \notin S /\ 2 \notin S /\ 3 \notin S /\ 4 \notin S /\ 5 \notin S /\ 6 \notin S /\ 7 \notin S
        BY <1>2 DEF MessagesIn, S
    <2>4. CASE a = Absent
        <3>1. ~a.ok
            BY <2>4 DEF Absent
        <3>2. Good(<<Bool(1, FALSE)>>, S)
            BY <2>3, GoodNo
        <3> QED BY <2>2, <2>3, <3>1, <3>2
    <2>5. CASE a \in Analyses
        <3> DEFINE yes == Bool(1, TRUE)
                   all == <<yes, Str(2, a.model), Str(3, a.format), Num(4, a.nodes), Num(5, a.edges),
                            Bool(6, a.consistent), Bool(7, a.obstructed)>>
        <3>1. /\ a.ok /\ a.model \in Texts /\ a.format \in Texts /\ a.nodes \in Word /\ a.edges \in Word
              /\ a.consistent \in BOOLEAN /\ a.obstructed \in BOOLEAN
            BY <2>5 DEF Analyses
        <3>2. yes \in Plain(S)
            <4>1. yes = Num(1, 1)
                BY Zenon DEF Bool
            <4>2. \A v \in Word : Num(1, v) \in Plain(S)
                BY <2>3, PlainFields
            <4> QED BY <4>1, <4>2, BitsAreWords
        <3>3. Reply(method, a) = all
            BY <2>2, <3>1
        <3> HIDE DEF yes
        <3>4. /\ Str(2, a.model) \in Plain(S) /\ Str(3, a.format) \in Plain(S)
              /\ Num(4, a.nodes) \in Plain(S) /\ Num(5, a.edges) \in Plain(S)
              /\ Bool(6, a.consistent) \in Plain(S) /\ Bool(7, a.obstructed) \in Plain(S)
            BY <2>3, <3>1, PlainFields
        <3>5. all \in Seq(Plain(S))
            BY <3>2, <3>4
        <3> HIDE DEF all
        <3> QED BY <2>3, <3>3, <3>5, GoodPlain
    <2> QED BY <2>1, <2>4, <2>5
<1>3. CASE method = "Verify"
    <2> DEFINE V == [ok : BOOLEAN, run : Texts, targets : Seq(TargetRecs)]
               head == <<Bool(1, a.ok), Str(2, a.run)>>
               tail == SentTargets(3, a.targets)
    <2>1. a = Absent \/ a \in V
        BY <1>3 DEF Returned
    <2>2. Reply(method, a) = IF a = Absent THEN <<Bool(1, FALSE)>> ELSE head \o tail
        BY <1>3 DEF Reply, SentTargets
    <2>3. 1 \notin S /\ 2 \notin S
        BY <1>3 DEF MessagesIn, S
    <2>4. CASE a = Absent
        <3>1. Good(<<Bool(1, FALSE)>>, S)
            BY <2>3, GoodNo
        <3> QED BY <2>2, <2>3, <2>4, <3>1
    <2>5. CASE a # Absent
        <3>1. a.ok \in BOOLEAN /\ a.run \in Texts /\ a.targets \in Seq(TargetRecs)
            BY <2>1, <2>5
        <3>2. Bool(1, a.ok) \in Plain(S) /\ Str(2, a.run) \in Plain(S)
            BY <2>3, <3>1, PlainFields
        <3>3. head \in Seq(Plain(S))
            BY <3>2
        <3>4. Good(tail, S)
            <4>1. \A n \in 1..9, items \in Seq(TargetRecs) : Good(SentTargets(n, items), S)
                BY GoodTargets
            <4> QED BY <3>1, <4>1
        <3> HIDE DEF head, tail
        <3> QED BY <2>2, <2>3, <2>5, <3>3, <3>4, GoodPlain, GoodJoined
    <2> QED BY <2>4, <2>5
<1>4. CASE method = "GetCertificate"
    <2> DEFINE V == [ok : {TRUE}, id : Texts, artifact : Texts, chainOk : BOOLEAN, targets : Seq(TargetRecs)]
               head == <<Str(1, a.id), Str(2, a.artifact), Bool(3, a.chainOk)>>
               tail == SentTargets(4, a.targets)
    <2>1. a = Absent \/ a \in V
        BY <1>4 DEF Returned
    <2>2. Reply(method, a) = IF a = Absent THEN <<>> ELSE head \o tail
        BY <1>4 DEF Reply, SentTargets
    <2>3. 1 \notin S /\ 2 \notin S /\ 3 \notin S
        BY <1>4 DEF MessagesIn, S
    <2>4. CASE a = Absent
        BY <2>2, <2>3, <2>4, GoodNone
    <2>5. CASE a # Absent
        <3>1. a.id \in Texts /\ a.artifact \in Texts /\ a.chainOk \in BOOLEAN /\ a.targets \in Seq(TargetRecs)
            BY <2>1, <2>5
        <3>2. Str(1, a.id) \in Plain(S) /\ Str(2, a.artifact) \in Plain(S) /\ Bool(3, a.chainOk) \in Plain(S)
            BY <2>3, <3>1, PlainFields
        <3>3. head \in Seq(Plain(S))
            BY <3>2
        <3>4. Good(tail, S)
            <4>1. \A n \in 1..9, items \in Seq(TargetRecs) : Good(SentTargets(n, items), S)
                BY GoodTargets
            <4> QED BY <3>1, <4>1
        <3> HIDE DEF head, tail
        <3> QED BY <2>2, <2>3, <2>5, <3>3, <3>4, GoodPlain, GoodJoined
    <2> QED BY <2>4, <2>5
<1>5. CASE method = "GetArtifact"
    <2> DEFINE V == [ok : {TRUE}, id : Texts, name : Texts, hash : Texts, size : Word]
               all == <<Str(1, a.id), Str(2, a.name), Str(3, a.hash), Num(4, a.size)>>
    <2>1. a = Absent \/ a \in V
        BY <1>5 DEF Returned
    <2>2. Reply(method, a) = IF a = Absent THEN <<>> ELSE all
        BY <1>5 DEF Reply
    <2>3. 1 \notin S /\ 2 \notin S /\ 3 \notin S /\ 4 \notin S
        BY <1>5 DEF MessagesIn, S
    <2>4. CASE a = Absent
        BY <2>2, <2>3, <2>4, GoodNone
    <2>5. CASE a # Absent
        <3>1. a.id \in Texts /\ a.name \in Texts /\ a.hash \in Texts /\ a.size \in Word
            BY <2>1, <2>5
        <3>2. /\ Str(1, a.id) \in Plain(S) /\ Str(2, a.name) \in Plain(S)
              /\ Str(3, a.hash) \in Plain(S) /\ Num(4, a.size) \in Plain(S)
            BY <2>3, <3>1, PlainFields
        <3>3. all \in Seq(Plain(S))
            BY <3>2
        <3> HIDE DEF all
        <3> QED BY <2>2, <2>3, <2>5, <3>3, GoodPlain
    <2> QED BY <2>4, <2>5
<1>6. CASE method = "GetGraph"
    <2> DEFINE V == [ok : {TRUE}, nodes : Seq(NodeRecs), edges : Seq(EdgeRecs)]
               head == SentNodes(1, a.nodes)
               tail == SentEdges(2, a.edges)
    <2>1. a = Absent \/ a \in V
        BY <1>6 DEF Returned
    <2>2. Reply(method, a) = IF ~a.ok THEN <<>> ELSE head \o tail
        BY <1>6 DEF Reply, SentNodes, SentEdges
    <2>4. CASE a = Absent
        <3>1. ~a.ok
            BY <2>4 DEF Absent
        <3> QED BY <2>2, <3>1, GoodNone
    <2>5. CASE a \in V
        <3>1. a.ok /\ a.nodes \in Seq(NodeRecs) /\ a.edges \in Seq(EdgeRecs)
            BY <2>5
        <3>2. Good(head, S) /\ Good(tail, S)
            <4>1. \A n \in 1..9, items \in Seq(NodeRecs) : Good(SentNodes(n, items), S)
                BY GoodNodes
            <4>2. \A n \in 1..9, items \in Seq(EdgeRecs) : Good(SentEdges(n, items), S)
                BY GoodEdges
            <4> QED BY <3>1, <4>1, <4>2
        <3> HIDE DEF head, tail
        <3> QED BY <2>2, <3>1, <3>2, GoodJoined
    <2> QED BY <2>1, <2>4, <2>5
<1>7. CASE method = "Provenance"
    <2> DEFINE V == [ok : {TRUE}, links : Seq(LinkRecs)]
               all == SentLinks(1, a.links)
    <2>1. a = Absent \/ a \in V
        BY <1>7 DEF Returned
    <2>2. Reply(method, a) = IF a = Absent THEN <<>> ELSE all
        BY <1>7 DEF Reply, SentLinks
    <2>4. CASE a = Absent
        BY <2>2, <2>4, GoodNone
    <2>5. CASE a # Absent
        <3>1. a.links \in Seq(LinkRecs)
            BY <2>1, <2>5
        <3>2. Good(all, S)
            <4>1. \A n \in 1..9, items \in Seq(LinkRecs) : Good(SentLinks(n, items), S)
                BY GoodLinks
            <4> QED BY <3>1, <4>1
        <3> HIDE DEF all
        <3> QED BY <2>2, <2>5, <3>2
    <2> QED BY <2>4, <2>5
<1>8. CASE method = "AuditHistory"
    <2> DEFINE head == <<Bool(1, a.chainOk)>>
               tail == SentEntries(2, a.entries)
    <2>1. a.chainOk \in BOOLEAN /\ a.entries \in Seq(EntryRecs)
        BY <1>8 DEF Returned
    <2>2. Reply(method, a) = head \o tail
        BY <1>8 DEF Reply, SentEntries
    <2>3. 1 \notin S
        BY <1>8 DEF MessagesIn, S
    <2>4. Bool(1, a.chainOk) \in Plain(S)
        BY <2>1, <2>3, PlainFields
    <2>5. head \in Seq(Plain(S))
        BY <2>4
    <2>6. Good(tail, S)
        <3>1. \A n \in 1..9, items \in Seq(EntryRecs) : Good(SentEntries(n, items), S)
            BY GoodEntries
        <3> QED BY <2>1, <3>1
    <2> HIDE DEF head, tail
    <2> QED BY <2>2, <2>3, <2>5, <2>6, GoodPlain, GoodJoined
<1> QED BY <1>1, <1>2, <1>3, <1>4, <1>5, <1>6, <1>7, <1>8 DEF Methods

-------------------------------------------------------------------------------
(* A client gives a parameter the type it has in the schema; other fields   *)
(* may have any.  A frame has four bytes for its length.                    *)
ParamsTyped(method, fields) ==
    \A i \in 1..Len(fields) :
        /\ fields[i].field = 1 => fields[i].wire = 2
        /\ method = "Upload" /\ fields[i].field \in {2, 3} => fields[i].wire = 2
        /\ method = "Verify" /\ fields[i].field = 2 => fields[i].wire = 1
RpcAsks(method, fields, a) ==
    /\ fields \in Seq(Sendable) /\ ParamsTyped(method, fields) /\ Len(Written(fields)) \in ShortWord
    /\ method \in Methods => a \in Returned(method) /\ Len(Written(Reply(method, a))) \in ShortWord
    /\ call = [fn |-> "rpc", method |-> method, fields |-> fields, returns |-> a]
RpcInit == (\E method, fields, a : RpcAsks(method, fields, a)) /\ answer = Pending
RpcSpec == RpcInit /\ [][RpcStep]_cvars

(* What the property asks of what came back.                                *)
CameBack(method, fields, a, asked, body) ==
    LET reply == Unframe(body)
        rest == Unframe(SubSeq(body, 6 + Len(reply.msg), Len(body)))
        got == FieldsIn(reply.msg)
    IN  IF method \notin Methods THEN reply.msg = <<>> /\ rest.msg = Trailer(12)
        ELSE /\ asked = Meant(method, fields)
             /\ got = Reply(method, a)
             /\ rest.msg = Trailer(0)
             /\ \A i \in DOMAIN got :
                  got[i].field \in MessagesIn(method) => Written(FieldsIn(got[i].v)) = got[i].v

LEMMA KnownComesBack ==
    ASSUME NEW method \in Methods, NEW fields \in Seq(Sendable), NEW a \in Returned(method),
           Len(Written(Reply(method, a))) \in ShortWord
    PROVE  CameBack(method, fields, a, Params(method, fields), GrpcResponse(Written(Reply(method, a)), 0))
<1> DEFINE z == Reply(method, a)
           M == MessagesIn(method)
           y == Written(z)
           body == GrpcResponse(y, 0)
           asked == Params(method, fields)
<1>1. z \in Seq(Sendable) /\ \A i \in 1..Len(z) : z[i].field \in M => \E fs \in Seq(Sendable) : z[i].v = Written(fs)
    <2>1. Good(z, M)
        BY ReplyIsGood
    <2> HIDE DEF z, M
    <2> QED BY <2>1 DEF Good
<1>2. asked = Meant(method, fields)
    BY AskedAsMeant
<1>3. Len(y) \in ShortWord
    OBVIOUS
<1> HIDE DEF z, M, asked
<1>4. y \in Seq(Byte) /\ FieldsIn(y) = z
    BY <1>1, FieldsAreRead
<1> HIDE DEF y
<1>5. 0 \in Byte
    BY DEF Byte
<1>6. Unframe(body).msg = y /\ Unframe(SubSeq(body, 6 + Len(y), Len(body))).msg = Trailer(0)
    BY <1>3, <1>4, <1>5, ResponseRead
<1>7. ASSUME NEW i \in DOMAIN z, z[i].field \in M PROVE Written(FieldsIn(z[i].v)) = z[i].v
    <2>1. i \in 1..Len(z)
        BY <1>1
    <2>2. PICK fs \in Seq(Sendable) : z[i].v = Written(fs)
        BY <1>1, <1>7, <2>1
    <2>3. FieldsIn(Written(fs)) = fs
        BY FieldsAreRead
    <2> QED BY <2>2, <2>3
<1> HIDE DEF body
<1>8. CameBack(method, fields, a, asked, body) <=>
        /\ asked = Meant(method, fields)
        /\ FieldsIn(Unframe(body).msg) = z
        /\ Unframe(SubSeq(body, 6 + Len(Unframe(body).msg), Len(body))).msg = Trailer(0)
        /\ \A i \in DOMAIN FieldsIn(Unframe(body).msg) :
             FieldsIn(Unframe(body).msg)[i].field \in M =>
                 Written(FieldsIn(FieldsIn(Unframe(body).msg)[i].v)) = FieldsIn(Unframe(body).msg)[i].v
    BY Zenon DEF CameBack, z, M
<1>9. CameBack(method, fields, a, asked, body)
    BY <1>2, <1>4, <1>6, <1>7, <1>8
<1> QED BY <1>9 DEF asked, body, y, z

LEMMA UnknownComesBack ==
    ASSUME NEW method, method \notin Methods, NEW fields, NEW a, NEW asked
    PROVE  CameBack(method, fields, a, asked, GrpcResponse(<<>>, 12))
<1> DEFINE x == <<>>
           status == 12
           body == GrpcResponse(x, status)
<1>1. x \in Seq(Byte) /\ Len(x) \in ShortWord
    BY ShortLengths
<1>2. status \in Byte
    BY DEF Byte
<1> HIDE DEF x, status
<1>3. Unframe(body).msg = x /\ Unframe(SubSeq(body, 6 + Len(x), Len(body))).msg = Trailer(status)
    BY <1>1, <1>2, ResponseRead
<1> HIDE DEF body
<1>4. CameBack(method, fields, a, asked, body) <=>
        /\ Unframe(body).msg = x
        /\ Unframe(SubSeq(body, 6 + Len(Unframe(body).msg), Len(body))).msg = Trailer(status)
    BY Zenon DEF CameBack, x, status
<1>5. CameBack(method, fields, a, asked, body)
    BY <1>3, <1>4
<1> QED BY <1>5 DEF body, x, status

(* Whatever fields a client sends, in any order, whichever of them the      *)
(* server knows, and whatever the service returns: it is asked what the     *)
(* client meant, the client reads off the reply what was returned, down to  *)
(* the messages within it, and behind it the status; a method that is not   *)
(* there is answered with status 12 (grpc.cpp:42-204, protobuf.cpp:6-84).   *)
THEOREM RpcSurvivesHolds == RpcSpec => []RpcSurvives
<1> DEFINE Inv == (\E method, fields, a : RpcAsks(method, fields, a)) /\ RpcSurvives
<1>1. RpcInit => Inv
    <2> SUFFICES ASSUME RpcInit PROVE Inv
        OBVIOUS
    <2>1. \E method, fields, a : RpcAsks(method, fields, a)
        BY DEF RpcInit
    <2>2. RpcSurvives
        BY DEF RpcInit, RpcSurvives, Got, Answered, Pending
    <2> QED BY <2>1, <2>2
<1>2. Inv /\ [RpcStep]_cvars => Inv'
    <2> SUFFICES ASSUME Inv, [RpcStep]_cvars PROVE Inv'
        OBVIOUS
    <2>1. PICK method, fields, a : RpcAsks(method, fields, a)
        OBVIOUS
    <2>2. CASE RpcStep
        <3>1. call' = call
            BY <2>2 DEF RpcStep, Return
        <3>2. call.method = method /\ call.fields = fields /\ call.returns = a
            BY <2>1 DEF RpcAsks
        <3> DEFINE x == Written(fields)
                   frame == Frame(0, x)
                   back == [asked |-> IF method \in Methods THEN Params(method, fields) ELSE <<>>,
                            body |-> IF method \in Methods THEN GrpcResponse(Written(Reply(method, a)), 0)
                                     ELSE GrpcResponse(<<>>, 12)]
        <3>3. FieldsIn(Unframe(frame).msg) = fields
            <4>1. x \in Seq(Byte) /\ FieldsIn(x) = fields /\ Len(x) \in ShortWord
                BY <2>1, FieldsAreRead DEF RpcAsks
            <4>2. 0 \in Byte
                BY DEF Byte
            <4> HIDE DEF x
            <4>3. Unframe(frame).msg = x
                BY <4>1, <4>2, FrameAlone
            <4> QED BY <4>1, <4>3
        <3>4. answer'.value =
                [asked |-> IF method \in Methods THEN Params(method, FieldsIn(Unframe(frame).msg)) ELSE <<>>,
                 body |-> IF method \in Methods THEN GrpcResponse(Written(Reply(method, a)), 0)
                          ELSE GrpcResponse(<<>>, 12)]
            BY <2>2, <3>2, Zenon DEF RpcStep, Return
        <3>5. answer'.value = back
            BY <3>3, <3>4
        <3>6. CameBack(method, fields, a, back.asked, back.body)
            <4>1. CASE method \in Methods
                <5>1. CameBack(method, fields, a, Params(method, fields), GrpcResponse(Written(Reply(method, a)), 0))
                    BY <2>1, <4>1, KnownComesBack DEF RpcAsks
                <5> QED BY <4>1, <5>1
            <4>2. CASE method \notin Methods
                <5>1. CameBack(method, fields, a, <<>>, GrpcResponse(<<>>, 12))
                    BY <4>2, UnknownComesBack
                <5> QED BY <4>2, <5>1
            <4> QED BY <4>1, <4>2
        <3> HIDE DEF back
        <3>7. CameBack(call'.method, call'.fields, call'.returns, answer'.value.asked, answer'.value.body)
            BY <3>1, <3>2, <3>5, <3>6
        <3>8. RpcSurvives' <=>
                (Got("rpc")' => CameBack(call'.method, call'.fields, call'.returns, answer'.value.asked, answer'.value.body))
            BY Zenon DEF RpcSurvives, CameBack
        <3>9. \E m, f, r : RpcAsks(m, f, r)'
            BY <2>1, <3>1 DEF RpcAsks
        <3> QED BY <3>7, <3>8, <3>9
    <2>3. CASE UNCHANGED cvars
        <3>1. call' = call /\ answer' = answer
            BY <2>3 DEF cvars
        <3>2. RpcSurvives' <=> RpcSurvives
            BY <3>1 DEF RpcSurvives, Got, Answered
        <3>3. \E m, f, r : RpcAsks(m, f, r)'
            BY <2>1, <3>1 DEF RpcAsks
        <3> QED BY <3>2, <3>3
    <2> QED BY <2>2, <2>3
<1>3. Inv => RpcSurvives
    OBVIOUS
<1> QED BY <1>1, <1>2, <1>3, PTL DEF RpcSpec
===============================================================================
