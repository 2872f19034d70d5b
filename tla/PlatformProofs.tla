---------------------------- MODULE PlatformProofs ----------------------------
(***************************************************************************)
(* Proofs about what the service stands on.  A session of the SQL store    *)
(* reads the rows of its answer however the bytes arrive, and the cache of *)
(* evaluations is a cache of bounded size that forgets what was used       *)
(* longest ago; both rest on the same facts about positions in a list.     *)
(* The threads of the server hand every connection on, for any number of   *)
(* connections, workers and kinds of clients.                              *)
(***************************************************************************)
EXTENDS SqlStore, EvalCache, HttpServer, FiniteSetTheorems, TLAPS

-------------------------------------------------------------------------------
(* Positions.  In a finite set of numbers each place from the first to the   *)
(* last is that of one number, and InOrder finds it.                         *)
LEMMA CountBefore ==
    ASSUME NEW S \in SUBSET Int, IsFiniteSet(S), NEW p \in S
    PROVE  Cardinality(Before(S, p)) \in 0..(Cardinality(S) - 1) /\ IsFiniteSet(Before(S, p))
<1>1. Before(S, p) \in SUBSET S /\ p \notin Before(S, p)
    BY DEF Before
<1>2. IsFiniteSet(Before(S, p)) /\ Cardinality(Before(S, p)) <= Cardinality(S)
      /\ Cardinality(Before(S, p)) # Cardinality(S)
    BY <1>1, FS_Subset
<1> QED BY <1>2, FS_CardinalityType

LEMMA MoreBefore ==
    ASSUME NEW S \in SUBSET Int, IsFiniteSet(S), NEW p \in S, NEW q \in S, p < q
    PROVE  Cardinality(Before(S, p)) < Cardinality(Before(S, q))
<1>1. Before(S, p) \in SUBSET Before(S, q)
    <2>1. p \in Int /\ q \in Int /\ \A x \in S : x \in Int
        OBVIOUS
    <2> SUFFICES ASSUME NEW x \in S, x < p PROVE x < q
        BY DEF Before
    <2> QED BY <2>1
<1>2. p \in Before(S, q) /\ p \notin Before(S, p)
    BY DEF Before
<1>3. IsFiniteSet(Before(S, q)) /\ IsFiniteSet(Before(S, p))
    BY CountBefore
<1>4. /\ Cardinality(Before(S, p)) <= Cardinality(Before(S, q))
      /\ Cardinality(Before(S, p)) # Cardinality(Before(S, q))
    BY <1>1, <1>2, <1>3, FS_Subset
<1> QED BY <1>3, <1>4, FS_CardinalityType

LEMMA EveryPlaceTaken ==
    ASSUME NEW S \in SUBSET Int, IsFiniteSet(S), NEW i \in 1..Cardinality(S)
    PROVE  \E p \in S : Cardinality(Before(S, p)) = i - 1
<1> SUFFICES ASSUME \A p \in S : Cardinality(Before(S, p)) # i - 1 PROVE FALSE
    OBVIOUS
<1> DEFINE n == Cardinality(S)
           T == (0..(n - 1)) \ {i - 1}
           f == [p \in S |-> Cardinality(Before(S, p))]
<1>1. n \in Nat
    BY FS_CardinalityType
<1>2. f \in [S -> T]
    BY CountBefore
<1>3. IsFiniteSet(T) /\ Cardinality(T) = n - 1
    <2>1. i - 1 \in 0..(n - 1)
        BY <1>1
    <2> HIDE DEF n
    <2>2. 0 \in Int /\ n - 1 \in Int
        BY <1>1
    <2>3. IsFiniteSet(0..(n - 1)) /\ Cardinality(0..(n - 1)) = IF 0 > n - 1 THEN 0 ELSE (n - 1) - 0 + 1
        BY <2>2, FS_Interval
    <2>4. Cardinality(0..(n - 1)) = n
        BY <1>1, <2>3
    <2>5. IsFiniteSet((0..(n - 1)) \ {i - 1}) /\ Cardinality((0..(n - 1)) \ {i - 1}) = Cardinality(0..(n - 1)) - 1
        <3> DEFINE U == 0..(n - 1)
        <3>1. IsFiniteSet(U) /\ i - 1 \in U
            BY <2>1, <2>3
        <3> HIDE DEF U
        <3>2. IsFiniteSet(U \ {i - 1}) /\ Cardinality(U \ {i - 1}) = Cardinality(U) - 1
            BY <3>1, FS_RemoveElement
        <3> QED BY <3>2 DEF U
    <2> QED BY <2>4, <2>5
<1>4. PICK p \in S, q \in S : p # q /\ f[p] = f[q]
    <2>1. Cardinality(T) < Cardinality(S)
        BY <1>1, <1>3
    <2> HIDE DEF T, f
    <2> QED BY <1>2, <1>3, <2>1, FS_PigeonHole
<1>5. Cardinality(Before(S, p)) = Cardinality(Before(S, q)) /\ p \in Int /\ q \in Int
    BY <1>4
<1>6. Cardinality(Before(S, p)) \in Int
    BY CountBefore
<1>7. CASE p < q
    BY <1>5, <1>6, <1>7, MoreBefore
<1>8. CASE q < p
    BY <1>5, <1>6, <1>8, MoreBefore
<1> QED BY <1>4, <1>5, <1>7, <1>8

LEMMA InOrderIs ==
    ASSUME NEW S \in SUBSET Int, IsFiniteSet(S)
    PROVE  /\ InOrder(S) \in [1..Cardinality(S) -> S]
           /\ \A i \in 1..Cardinality(S) : Cardinality(Before(S, InOrder(S)[i])) = i - 1
           /\ \A i, j \in 1..Cardinality(S) : InOrder(S)[i] = InOrder(S)[j] => i = j
           /\ \A p \in S : \E i \in 1..Cardinality(S) : InOrder(S)[i] = p
<1>1. Cardinality(S) \in Nat
    BY FS_CardinalityType
<1>2. ASSUME NEW i \in 1..Cardinality(S)
      PROVE  InOrder(S)[i] \in S /\ Cardinality(Before(S, InOrder(S)[i])) = i - 1
    BY EveryPlaceTaken DEF InOrder
<1>3. InOrder(S) \in [1..Cardinality(S) -> S]
    BY <1>2 DEF InOrder
<1>4. ASSUME NEW p \in S PROVE \E i \in 1..Cardinality(S) : InOrder(S)[i] = p
    <2> DEFINE i == Cardinality(Before(S, p)) + 1
    <2>1. i \in 1..Cardinality(S) /\ Cardinality(Before(S, p)) = i - 1
        BY CountBefore, <1>1
    <2> HIDE DEF i
    <2>2. InOrder(S)[i] \in S /\ Cardinality(Before(S, InOrder(S)[i])) = i - 1
        BY <1>2, <2>1
    <2> DEFINE q == InOrder(S)[i]
    <2> HIDE DEF q
    <2>5. q \in S /\ q \in Int /\ p \in Int
        BY <2>2 DEF q
    <2>6. Cardinality(Before(S, q)) = Cardinality(Before(S, p))
        BY <2>1, <2>2 DEF q
    <2>7. Cardinality(Before(S, p)) \in Int
        BY CountBefore
    <2>3. ~(q < p) /\ ~(p < q)
        BY <2>5, <2>6, <2>7, MoreBefore
    <2>4. InOrder(S)[i] = p
        BY <2>5, <2>3 DEF q
    <2> QED BY <2>1, <2>4
<1> QED BY <1>2, <1>3, <1>4

(* The numbers from a to b in order. *)
LEMMA InOrderOfInterval ==
    ASSUME NEW a \in Int, NEW b \in Int, a <= b + 1
    PROVE  Cardinality(a..b) = b - a + 1 /\ IsFiniteSet(a..b)
           /\ \A i \in 1..(b - a + 1) : InOrder(a..b)[i] = a + i - 1
<1>1. IsFiniteSet(a..b) /\ Cardinality(a..b) = b - a + 1
    BY FS_Interval
<1>2. ASSUME NEW i \in 1..(b - a + 1) PROVE InOrder(a..b)[i] = a + i - 1
    <2> DEFINE p == InOrder(a..b)[i]
    <2>1. p \in a..b /\ Cardinality(Before(a..b, p)) = i - 1
        <3> DEFINE S == a..b
        <3>1. S \in SUBSET Int /\ IsFiniteSet(S) /\ i \in 1..Cardinality(S)
            BY <1>1
        <3> HIDE DEF S
        <3>2. /\ InOrder(S) \in [1..Cardinality(S) -> S]
              /\ \A k \in 1..Cardinality(S) : Cardinality(Before(S, InOrder(S)[k])) = k - 1
            BY <3>1, InOrderIs
        <3>3. InOrder(S)[i] \in S /\ Cardinality(Before(S, InOrder(S)[i])) = i - 1
            BY <3>1, <3>2
        <3> QED BY <3>3 DEF S
    <2>2. Before(a..b, p) = a..(p - 1)
        BY <2>1 DEF Before
    <2>3. Cardinality(a..(p - 1)) = p - a
        <3>1. p - 1 \in Int /\ p \in Int /\ p >= a
            BY <2>1
        <3>2. Cardinality(a..(p - 1)) = IF a > p - 1 THEN 0 ELSE (p - 1) - a + 1
            BY <3>1, FS_Interval
        <3> QED BY <3>1, <3>2
    <2> QED BY <2>1, <2>2, <2>3
<1> QED BY <1>1, <1>2

-------------------------------------------------------------------------------
(* Sequences of anything. *)
Listing(s) == s \in Seq({s[i] : i \in DOMAIN s})

LEMMA ListingOf ==
    ASSUME NEW n \in Nat, NEW s, s = [i \in 1..n |-> s[i]]
    PROVE  Listing(s) /\ Len(s) = n /\ DOMAIN s = 1..n
<1> DEFINE V == {s[i] : i \in DOMAIN s}
<1>1. DOMAIN s = 1..n
    OBVIOUS
<1>2. s \in [1..n -> V]
    BY <1>1
<1> HIDE DEF V
<1>3. s \in Seq(V) /\ Len(s) = n
    BY <1>2
<1> QED BY <1>1, <1>3 DEF Listing, V

LEMMA ListingIs ==
    ASSUME NEW s, Listing(s)
    PROVE  Len(s) \in Nat /\ DOMAIN s = 1..Len(s) /\ s = [i \in 1..Len(s) |-> s[i]]
<1> DEFINE V == {s[i] : i \in DOMAIN s}
<1>1. s \in Seq(V)
    BY DEF Listing
<1> HIDE DEF V
<1> QED BY <1>1

Joint(s, t, u) ==
    /\ Listing(u) /\ Len(u) = Len(s) + Len(t)
    /\ \A i \in 1..Len(s) : u[i] = s[i]
    /\ \A i \in 1..Len(t) : u[Len(s) + i] = t[i]
LEMMA Joined ==
    ASSUME NEW s, NEW t, Listing(s), Listing(t)
    PROVE  Joint(s, t, s \o t)
<1> DEFINE V == {s[i] : i \in DOMAIN s} \cup {t[i] : i \in DOMAIN t}
<1>1. s \in Seq(V) /\ t \in Seq(V)
    <2>1. Len(s) \in Nat /\ s \in [1..Len(s) -> V]
        BY ListingIs
    <2>2. Len(t) \in Nat /\ t \in [1..Len(t) -> V]
        BY ListingIs
    <2> HIDE DEF V
    <2> QED BY <2>1, <2>2
<1> HIDE DEF V
<1>2. s \o t \in Seq(V) /\ Len(s \o t) = Len(s) + Len(t) /\ Len(s \o t) \in Nat
    BY <1>1
<1> DEFINE u == s \o t
           n == Len(u)
<1>3. u \in Seq(V) /\ n \in Nat
    BY <1>2
<1>4. /\ \A i \in 1..Len(s) : u[i] = s[i]
      /\ \A i \in 1..Len(t) : u[Len(s) + i] = t[i]
    BY <1>1
<1> HIDE DEF u
<1>5. u = [i \in 1..n |-> u[i]]
    BY <1>3
<1> HIDE DEF n
<1>6. Listing(u)
    BY <1>3, <1>5, ListingOf
<1>7. Joint(s, t, u)
    BY <1>2, <1>4, <1>6 DEF Joint, u
<1> QED BY <1>7 DEF u

LEMMA Cuts ==
    ASSUME NEW s, Listing(s), NEW m \in Nat, NEW n \in Nat, 1 <= m, m <= n + 1, n <= Len(s)
    PROVE  /\ Listing(SubSeq(s, m, n)) /\ Len(SubSeq(s, m, n)) = n - m + 1
           /\ \A i \in 1..(n - m + 1) : SubSeq(s, m, n)[i] = s[m + i - 1]
<1> DEFINE V == {s[i] : i \in DOMAIN s}
<1>1. s \in Seq(V)
    BY DEF Listing
<1> HIDE DEF V
<1>2. SubSeq(s, m, n) = [i \in 1..(n - m + 1) |-> s[m + i - 1]]
    BY <1>1
<1>3. SubSeq(s, m, n) = [i \in 1..(n - m + 1) |-> SubSeq(s, m, n)[i]]
    BY <1>2
<1>4. n - m + 1 \in Nat
    OBVIOUS
<1> QED BY <1>2, <1>3, <1>4, ListingOf

LEMMA SameListing ==
    ASSUME NEW s, NEW t, Listing(s), Listing(t), Len(s) = Len(t), \A i \in 1..Len(s) : s[i] = t[i]
    PROVE  s = t
BY ListingIs

LEMMA NothingListed == Listing(<<>>) /\ Len(<<>>) = 0 /\ \A s : Listing(s) /\ Len(s) = 0 => s = <<>>
<1>1. <<>> = [i \in 1..0 |-> <<>>[i]]
    OBVIOUS
<1>2. Listing(<<>>) /\ Len(<<>>) = 0
    BY <1>1, ListingOf
<1> QED BY <1>2, SameListing

-------------------------------------------------------------------------------
(* The reply to a statement: rows between a message that carries none and    *)
(* the readiness for the next.  Halves of it are in the buffer and on the    *)
(* wire, after those of the messages that were read.                         *)
ReplyOf(first, rs) ==
    [i \in 1..(Len(rs) + 2) |-> IF i = 1 THEN first ELSE IF i = Len(rs) + 2 THEN Ready ELSE Row(rs[i - 1])]
PartOf(b, h, d) == Listing(b) /\ Len(b) <= Len(h) - d /\ \A i \in 1..Len(b) : b[i] = h[d + i]
Parted(b, w, h, d) ==
    PartOf(b, h, d) /\ PartOf(w, h, d + Len(b)) /\ Len(b) + Len(w) = Len(h) - d
RowsOfFirst(rs, c) == IF c = 0 THEN 0 ELSE IF c - 1 > Len(rs) THEN Len(rs) ELSE c - 1
FirstRows(got, rs, c) ==
    Listing(got) /\ Len(got) = RowsOfFirst(rs, c) /\ \A i \in 1..Len(got) : got[i] = rs[i]

LEMMA HalvesOfReply ==
    ASSUME NEW msgs, Listing(msgs)
    PROVE  /\ Listing(Halves(msgs)) /\ Len(Halves(msgs)) = 2 * Len(msgs)
           /\ \A i \in 1..Len(msgs) : Halves(msgs)[2 * i] = <<msgs[i], 2>>
<1> DEFINE n == 2 * Len(msgs)
           h == Halves(msgs)
<1>1. Len(msgs) \in Nat /\ n \in Nat
    BY ListingIs
<1>2. h = [i \in 1..n |-> h[i]]
    BY DEF Halves
<1>3. ASSUME NEW i \in 1..Len(msgs) PROVE h[2 * i] = <<msgs[i], 2>>
    <2>1. 2 * i \in 1..n /\ (2 * i + 1) \div 2 = i /\ (2 * i) % 2 = 0
        BY <1>1
    <2> QED BY <2>1 DEF Halves
<1> HIDE DEF h, n
<1>4. Listing(h) /\ Len(h) = n
    BY <1>1, <1>2, ListingOf
<1> QED BY <1>3, <1>4 DEF h, n

LEMMA ReplyIs ==
    ASSUME NEW rs, Listing(rs), NEW first
    PROVE  /\ Listing(ReplyOf(first, rs)) /\ Len(ReplyOf(first, rs)) = Len(rs) + 2
           /\ ReplyOf(first, rs)[1] = first /\ ReplyOf(first, rs)[Len(rs) + 2] = Ready
           /\ \A i \in 2..(Len(rs) + 1) : ReplyOf(first, rs)[i] = Row(rs[i - 1])
<1>1. Len(rs) \in Nat
    BY ListingIs
<1> DEFINE p == ReplyOf(first, rs)
           n == Len(rs) + 2
<1>2. p = [i \in 1..n |-> p[i]] /\ n \in Nat
    BY <1>1 DEF ReplyOf
<1>3. /\ p[1] = first /\ p[Len(rs) + 2] = Ready
      /\ \A i \in 2..(Len(rs) + 1) : p[i] = Row(rs[i - 1])
    BY <1>1 DEF ReplyOf
<1> HIDE DEF p, n
<1>4. Listing(p) /\ Len(p) = n
    BY <1>2, ListingOf
<1> QED BY <1>3, <1>4 DEF p, n

(* The messages that are complete in a part of the reply. *)
LEMMA MessagesOfPart ==
    ASSUME NEW rs, Listing(rs), NEW first, NEW c \in 0..(Len(rs) + 1), NEW b,
           PartOf(b, Halves(ReplyOf(first, rs)), 2 * c)
    PROVE  /\ Whole(b) \in Nat /\ Len(b) \in {2 * Whole(b), 2 * Whole(b) + 1} /\ c + Whole(b) <= Len(rs) + 2
           /\ Listing(Messages(b)) /\ Len(Messages(b)) = Whole(b)
           /\ \A i \in 1..Whole(b) : Messages(b)[i] = ReplyOf(first, rs)[c + i]
<1> DEFINE p == ReplyOf(first, rs)
           h == Halves(p)
           w == Whole(b)
           msgs == Messages(b)
<1>1. Listing(p) /\ Len(p) = Len(rs) + 2 /\ Len(rs) \in Nat
    BY ReplyIs, ListingIs
<1>2. Len(h) = 2 * (Len(rs) + 2) /\ \A i \in 1..(Len(rs) + 2) : h[2 * i] = <<p[i], 2>>
    <2> HIDE DEF p
    <2> QED BY <1>1, HalvesOfReply
<1>3. Len(b) \in Nat /\ Len(b) <= Len(h) - 2 * c /\ \A i \in 1..Len(b) : b[i] = h[2 * c + i]
    BY ListingIs DEF PartOf
<1> HIDE DEF p, h
<1>4. w \in Nat /\ Len(b) \in {2 * w, 2 * w + 1}
    BY <1>3 DEF Whole
<1>5. c + w <= Len(rs) + 2
    <2> DEFINE n == Len(rs)
               l == Len(b)
    <2>1. l <= 2 * (n + 2) - 2 * c /\ l \in Nat
        BY <1>2, <1>3
    <2>2. n \in Nat /\ w \in Nat /\ c \in Nat /\ l \in {2 * w, 2 * w + 1}
        BY <1>1, <1>4
    <2> HIDE DEF n, l, w
    <2>3. 2 * w <= l
        BY <2>2
    <2>4. 2 * w <= 2 * (n + 2) - 2 * c
        BY <2>1, <2>2, <2>3
    <2>5. c + w <= n + 2
        BY <2>2, <2>4
    <2> QED BY <2>5 DEF n
<1>6. msgs = [i \in 1..w |-> msgs[i]]
    BY DEF Messages
<1>7. ASSUME NEW i \in 1..w PROVE msgs[i] = p[c + i]
    <2>1. msgs[i] = b[2 * i][1]
        BY DEF Messages
    <2>2. 2 * i \in 1..Len(b) /\ 2 * c + 2 * i = 2 * (c + i) /\ c + i \in 1..(Len(rs) + 2)
        <3>1. i \in Nat /\ 1 <= i /\ i <= w /\ w \in Nat /\ c \in Nat
            BY <1>4
        <3>2. 2 * i \in 1..Len(b)
            BY <1>3, <1>4, <3>1
        <3>3. c + i \in 1..(Len(rs) + 2)
            BY <1>1, <1>5, <3>1
        <3> QED BY <3>1, <3>2, <3>3
    <2>3. b[2 * i] = <<p[c + i], 2>>
        BY <1>2, <1>3, <2>2
    <2> QED BY <2>1, <2>3
<1> HIDE DEF w, msgs
<1>8. Listing(msgs) /\ Len(msgs) = w
    BY <1>4, <1>6, ListingOf
<1> QED BY <1>4, <1>5, <1>7, <1>8 DEF w, msgs, p

(* The first message says how it went, the last that the server is ready. *)
LEMMA KindOfMessage ==
    ASSUME NEW rs, Listing(rs), NEW first \in {Other, Error}, NEW k \in 1..(Len(rs) + 2),
           NEW msg, msg = ReplyOf(first, rs)[k]
    PROVE  /\ msg.type = "Z" <=> k = Len(rs) + 2
           /\ msg.type = "D" <=> k \in 2..(Len(rs) + 1)
           /\ k \in 2..(Len(rs) + 1) => msg.row = rs[k - 1]
<1>1. Len(rs) \in Nat
    BY ListingIs
<1>2. CASE k = 1
    <2>1. msg = first
        BY <1>2, ReplyIs
    <2>2. msg.type # "Z" /\ msg.type # "D"
        BY <2>1 DEF Other, Error
    <2> QED BY <1>1, <1>2, <2>2
<1>3. CASE k = Len(rs) + 2
    <2>1. msg = Ready
        BY <1>3, ReplyIs
    <2>2. msg.type = "Z"
        BY <2>1 DEF Ready
    <2> QED BY <1>1, <1>3, <2>2
<1>4. CASE k \in 2..(Len(rs) + 1)
    <2>1. msg = Row(rs[k - 1])
        BY <1>4, ReplyIs
    <2>2. msg.type = "D" /\ msg.row = rs[k - 1]
        BY <2>1 DEF Row
    <2> QED BY <1>1, <1>4, <2>2
<1> QED BY <1>1, <1>2, <1>3, <1>4

(* The last of them may be the end of the reply, and no other.               *)
LEMMA EndOfReply ==
    ASSUME NEW rs, Listing(rs), NEW first \in {Other, Error}, NEW c \in 0..(Len(rs) + 1), NEW b,
           PartOf(b, Halves(ReplyOf(first, rs)), 2 * c)
    PROVE  /\ Has(Messages(b), "Z") <=> c + Whole(b) = Len(rs) + 2
           /\ UpTo(Messages(b), "Z") = Messages(b)
<1> DEFINE w == Whole(b)
           msgs == Messages(b)
           n == Len(rs)
           ends == {i \in DOMAIN msgs : msgs[i].type = "Z"}
<1>1. /\ w \in Nat /\ c + w <= n + 2 /\ Listing(msgs) /\ Len(msgs) = w /\ n \in Nat /\ c \in 0..(n + 1)
      /\ \A i \in 1..w : msgs[i] = ReplyOf(first, rs)[c + i]
    BY MessagesOfPart, ListingIs
<1>2. DOMAIN msgs = 1..w
    BY <1>1, ListingIs
<1>3. ASSUME NEW i \in 1..w PROVE msgs[i].type = "Z" <=> c + i = n + 2
    <2>1. c + i \in 1..(Len(rs) + 2) /\ msgs[i] = ReplyOf(first, rs)[c + i]
        BY <1>1
    <2> HIDE DEF msgs, w
    <2> QED BY <2>1, KindOfMessage
<1> HIDE DEF w, msgs, n
<1>4. Has(msgs, "Z") <=> c + w = n + 2
    BY <1>1, <1>2, <1>3 DEF Has
<1>5. CASE c + w = n + 2
    <2>1. ends = {w} /\ w \in Int
        BY <1>1, <1>2, <1>3, <1>5
    <2>2. Min(ends) = w
        BY <2>1 DEF Min
    <2>3. SubSeq(msgs, 1, w) = msgs
        <3>1. /\ Listing(SubSeq(msgs, 1, w)) /\ Len(SubSeq(msgs, 1, w)) = w
              /\ \A i \in 1..w : SubSeq(msgs, 1, w)[i] = msgs[i]
            BY <1>1, Cuts
        <3> QED BY <1>1, <3>1, SameListing
    <2> QED BY <1>4, <2>1, <2>2, <2>3 DEF UpTo, w, msgs, n
<1>6. CASE c + w # n + 2
    <2>1. ends = {}
        BY <1>1, <1>2, <1>3, <1>6
    <2> QED BY <1>4, <2>1 DEF UpTo, w, msgs, n
<1> QED BY <1>5, <1>6

(* The rows in them follow those read before. *)
LEMMA RowsOfPart ==
    ASSUME NEW rs, Listing(rs), NEW first \in {Other, Error}, NEW c \in 0..(Len(rs) + 1), NEW b,
           PartOf(b, Halves(ReplyOf(first, rs)), 2 * c), NEW got, FirstRows(got, rs, c)
    PROVE  FirstRows(got \o RowsIn(Messages(b)), rs, c + Whole(b))
<1> DEFINE w == Whole(b)
           msgs == Messages(b)
           n == Len(rs)
           p == ReplyOf(first, rs)
           D == {i \in DOMAIN msgs : msgs[i].type = "D"}
           lo == IF c = 0 THEN 2 ELSE 1
           hi == IF c + w > n + 1 THEN n + 1 - c ELSE w
           more == RowsIn(msgs)
<1>1. /\ w \in Nat /\ c + w <= n + 2 /\ Listing(msgs) /\ Len(msgs) = w /\ n \in Nat /\ c \in 0..(n + 1)
      /\ \A i \in 1..w : msgs[i] = p[c + i]
    BY MessagesOfPart, ListingIs
<1>2. DOMAIN msgs = 1..w
    BY <1>1, ListingIs
<1>3. ASSUME NEW i \in 1..w
      PROVE  /\ msgs[i].type = "D" <=> c + i \in 2..(n + 1)
             /\ c + i \in 2..(n + 1) => msgs[i].row = rs[c + i - 1]
    <2>1. c + i \in 1..(Len(rs) + 2) /\ msgs[i] = ReplyOf(first, rs)[c + i]
        BY <1>1
    <2> HIDE DEF msgs, w
    <2> QED BY <2>1, KindOfMessage
<1>4. more = [j \in 1..Cardinality(D) |-> msgs[InOrder(D)[j]].row]
    BY DEF RowsIn, At
<1>5. FirstRows(got, rs, c)
    OBVIOUS
<1> HIDE DEF w, msgs, p, n, more
<1> DEFINE m == IF w = 0 THEN 0 ELSE hi - lo + 1
<1>6. m \in Nat /\ Cardinality(D) = m /\ \A j \in 1..m : InOrder(D)[j] = lo + j - 1
    <2>1. CASE w = 0
        BY <1>2, <2>1, FS_EmptySet
    <2>2. CASE w # 0
        <3>1. lo \in Int /\ hi \in Int /\ lo <= hi + 1
            BY <1>1, <2>2
        <3>2. D = lo..hi
            BY <1>1, <1>2, <1>3, <2>2
        <3>3. m = hi - lo + 1 /\ m \in Nat
            BY <2>2, <3>1
        <3> HIDE DEF lo, hi, D, m
        <3>4. /\ Cardinality(lo..hi) = hi - lo + 1
              /\ \A j \in 1..(hi - lo + 1) : InOrder(lo..hi)[j] = lo + j - 1
            BY <3>1, InOrderOfInterval
        <3> QED BY <3>2, <3>3, <3>4
    <2> QED BY <2>1, <2>2
<1>7. ASSUME NEW j \in 1..m
      PROVE  lo + j - 1 \in 1..w /\ c + (lo + j - 1) \in 2..(n + 1)
    <2>1. w \in Nat /\ n \in Nat /\ c \in Nat /\ c <= n + 1 /\ c + w <= n + 2
        BY <1>1
    <2>2. w # 0 /\ j \in Int /\ 1 <= j /\ j <= hi - lo + 1
        BY <2>1
    <2>3. CASE c = 0
        BY <2>1, <2>2, <2>3
    <2>4. CASE c # 0
        BY <2>1, <2>2, <2>4
    <2> QED BY <2>3, <2>4
<1>8. more = [j \in 1..m |-> msgs[lo + j - 1].row]
    <2> HIDE DEF D, m, lo
    <2>1. more = [j \in 1..m |-> msgs[InOrder(D)[j]].row]
        BY <1>4, <1>6
    <2>2. \A j \in 1..m : InOrder(D)[j] = lo + j - 1
        BY <1>6
    <2> QED BY <2>1, <2>2
<1>9. ASSUME NEW j \in 1..m PROVE more[j] = rs[c + (lo + j - 1) - 1]
    <2> HIDE DEF m, lo
    <2>1. more[j] = msgs[lo + j - 1].row
        BY <1>8
    <2>2. lo + j - 1 \in 1..w /\ c + (lo + j - 1) \in 2..(n + 1)
        BY <1>7
    <2> QED BY <1>3, <2>1, <2>2
<1>10. Listing(more) /\ Len(more) = m
    <2>1. more = [j \in 1..m |-> more[j]]
        BY <1>8
    <2> HIDE DEF m
    <2> QED BY <1>6, <2>1, ListingOf
<1>11. Listing(got) /\ Len(got) = RowsOfFirst(rs, c) /\ \A i \in 1..Len(got) : got[i] = rs[i]
    BY <1>5 DEF FirstRows
<1>12. Len(got) = IF c = 0 THEN 0 ELSE c - 1
    BY <1>1, <1>11 DEF RowsOfFirst, n
<1> HIDE DEF m
<1> DEFINE all == got \o more
<1>13. /\ Listing(all) /\ Len(all) = Len(got) + Len(more)
       /\ \A i \in 1..Len(got) : all[i] = got[i]
       /\ \A j \in 1..Len(more) : all[Len(got) + j] = more[j]
    <2>1. Joint(got, more, got \o more)
        BY <1>10, <1>11, Joined
    <2>2. Joint(got, more, all)
        BY <2>1
    <2> HIDE DEF all
    <2> QED BY <2>2 DEF Joint
<1> HIDE DEF all
<1>17. Len(all) = Len(got) + m /\ \A j \in 1..m : all[Len(got) + j] = more[j]
    BY <1>10, <1>13
<1>16. Len(got) \in Nat /\ Len(got) + m \in Nat
    BY <1>1, <1>6, <1>12
<1>14. Len(got) + m = RowsOfFirst(rs, c + w)
    <2>1. Len(got) + m = IF c + w = 0 THEN 0 ELSE IF c + w - 1 > n THEN n ELSE c + w - 1
        BY <1>1, <1>12 DEF m
    <2>2. RowsOfFirst(rs, c + w) = IF c + w = 0 THEN 0 ELSE IF c + w - 1 > n THEN n ELSE c + w - 1
        <3>1. n = Len(rs)
            BY DEF n
        <3> QED BY <1>1, <3>1 DEF RowsOfFirst
    <2> QED BY <2>1, <2>2
<1>15. ASSUME NEW i \in 1..(Len(got) + m) PROVE all[i] = rs[i]
    <2>1. CASE i <= Len(got)
        BY <1>1, <1>11, <1>12, <1>13, <2>1
    <2>2. CASE i > Len(got)
        <3>1. PICK j \in 1..m : i = Len(got) + j
            <4>1. i - Len(got) \in 1..m /\ i = Len(got) + (i - Len(got))
                BY <1>1, <1>6, <1>12, <2>2
            <4> QED BY <4>1
        <3>2. all[i] = rs[c + (lo + j - 1) - 1]
            BY <1>9, <1>17, <3>1
        <3>3. c + (lo + j - 1) - 1 = i
            BY <1>1, <1>12, <3>1
        <3> QED BY <3>2, <3>3
    <2>3. i \in Int /\ Len(got) \in Int
        BY <1>16
    <2> QED BY <2>1, <2>2, <2>3
<1> QED BY <1>13, <1>14, <1>15, <1>17 DEF FirstRows, w, msgs, more, all

(* What was received moves from the wire to the buffer; what was parsed      *)
(* leaves the buffer.                                                        *)
LEMMA Arrived ==
    ASSUME NEW h, Listing(h), NEW d \in Nat, NEW b, NEW w, Parted(b, w, h, d), NEW n \in 1..Len(w)
    PROVE  /\ Parted(b \o SubSeq(w, 1, n), SubSeq(w, n + 1, Len(w)), h, d)
           /\ Len(b \o SubSeq(w, 1, n)) = Len(b) + n
<1> DEFINE c == SubSeq(w, 1, n)
           v == SubSeq(w, n + 1, Len(w))
           a == b \o c
<1>1. /\ Listing(b) /\ Listing(w) /\ Len(b) \in Nat /\ Len(w) \in Nat /\ Len(h) \in Nat
      /\ Len(b) + Len(w) = Len(h) - d
      /\ \A i \in 1..Len(b) : b[i] = h[d + i]
      /\ \A i \in 1..Len(w) : w[i] = h[d + Len(b) + i]
    BY ListingIs DEF Parted, PartOf
<1>2. n \in Nat /\ n <= Len(w) /\ n >= 1
    BY <1>1
<1>3. Listing(c) /\ Len(c) = n /\ \A i \in 1..n : c[i] = w[i]
    BY <1>1, <1>2, Cuts
<1>4. Listing(v) /\ Len(v) = Len(w) - n /\ \A i \in 1..(Len(w) - n) : v[i] = w[n + i]
    <2>1. /\ Listing(v) /\ Len(v) = Len(w) - (n + 1) + 1
          /\ \A i \in 1..(Len(w) - (n + 1) + 1) : v[i] = w[(n + 1) + i - 1]
        BY <1>1, <1>2, Cuts
    <2>2. Len(w) - (n + 1) + 1 = Len(w) - n
        BY <1>1, <1>2
    <2> HIDE DEF v
    <2>3. \A i \in 1..(Len(w) - n) : (n + 1) + i - 1 = n + i
        BY <1>1, <1>2
    <2> QED BY <2>1, <2>2, <2>3
<1> HIDE DEF c, v
<1>5. /\ Listing(a) /\ Len(a) = Len(b) + Len(c)
      /\ \A i \in 1..Len(b) : a[i] = b[i]
      /\ \A i \in 1..Len(c) : a[Len(b) + i] = c[i]
    <2>1. Joint(b, c, b \o c)
        BY <1>1, <1>3, Joined
    <2>2. Joint(b, c, a)
        BY <2>1
    <2> HIDE DEF a
    <2> QED BY <2>2 DEF Joint
<1> HIDE DEF a
<1>6. ASSUME NEW i \in 1..Len(a) PROVE a[i] = h[d + i]
    <2>1. CASE i \in 1..Len(b)
        BY <1>1, <1>5, <2>1
    <2>2. CASE i \notin 1..Len(b)
        <3>1. i - Len(b) \in 1..n /\ i - Len(b) \in 1..Len(w) /\ Len(b) + (i - Len(b)) = i
              /\ d + Len(b) + (i - Len(b)) = d + i
            BY <1>1, <1>2, <1>3, <1>5, <2>2
        <3>2. a[Len(b) + (i - Len(b))] = h[d + Len(b) + (i - Len(b))]
            BY <1>1, <1>3, <1>5, <3>1
        <3> QED BY <3>1, <3>2
    <2> QED BY <2>1, <2>2
<1>7. ASSUME NEW i \in 1..Len(v) PROVE v[i] = h[d + Len(a) + i]
    <2>1. n + i \in 1..Len(w) /\ d + Len(b) + (n + i) = d + Len(a) + i /\ i \in 1..(Len(w) - n)
        BY <1>1, <1>2, <1>3, <1>4, <1>5
    <2> QED BY <1>1, <1>4, <2>1
<1>8. Len(a) <= Len(h) - d /\ Len(v) <= Len(h) - (d + Len(a)) /\ Len(a) + Len(v) = Len(h) - d
    <2>1. /\ Len(b) \in Nat /\ Len(w) \in Nat /\ Len(h) \in Nat /\ n <= Len(w)
          /\ Len(a) = Len(b) + n /\ Len(v) = Len(w) - n /\ Len(b) + Len(w) = Len(h) - d
        BY <1>1, <1>2, <1>3, <1>4, <1>5
    <2> QED BY <1>2, <2>1
<1> QED BY <1>3, <1>4, <1>5, <1>6, <1>7, <1>8 DEF Parted, PartOf, a, c, v

LEMMA Taken ==
    ASSUME NEW h, Listing(h), NEW d \in Nat, NEW b, NEW w, Parted(b, w, h, d), NEW n \in Nat, n <= Len(b)
    PROVE  Parted(SubSeq(b, n + 1, Len(b)), w, h, d + n)
<1> DEFINE v == SubSeq(b, n + 1, Len(b))
<1>1. /\ Listing(b) /\ Listing(w) /\ Len(b) \in Nat /\ Len(w) \in Nat /\ Len(h) \in Nat
      /\ Len(b) + Len(w) = Len(h) - d
      /\ \A i \in 1..Len(b) : b[i] = h[d + i]
      /\ \A i \in 1..Len(w) : w[i] = h[d + Len(b) + i]
    BY ListingIs DEF Parted, PartOf
<1>2. Listing(v) /\ Len(v) = Len(b) - n /\ \A i \in 1..(Len(b) - n) : v[i] = b[n + i]
    <2>1. /\ Listing(v) /\ Len(v) = Len(b) - (n + 1) + 1
          /\ \A i \in 1..(Len(b) - (n + 1) + 1) : v[i] = b[(n + 1) + i - 1]
        BY <1>1, Cuts
    <2>2. Len(b) - (n + 1) + 1 = Len(b) - n
        BY <1>1
    <2> HIDE DEF v
    <2>3. \A i \in 1..(Len(b) - n) : (n + 1) + i - 1 = n + i
        BY <1>1
    <2> QED BY <2>1, <2>2, <2>3
<1> HIDE DEF v
<1>3. ASSUME NEW i \in 1..Len(v) PROVE v[i] = h[d + n + i]
    <2>1. n + i \in 1..Len(b) /\ d + (n + i) = d + n + i /\ i \in 1..(Len(b) - n)
        BY <1>1, <1>2
    <2> QED BY <1>1, <1>2, <2>1
<1>4. /\ \A i \in 1..Len(w) : w[i] = h[d + n + Len(v) + i]
      /\ Len(v) <= Len(h) - (d + n) /\ Len(w) <= Len(h) - (d + n + Len(v))
      /\ Len(v) + Len(w) = Len(h) - (d + n)
    <2>1. d + n + Len(v) = d + Len(b)
        BY <1>1, <1>2
    <2>2. ASSUME NEW i \in 1..Len(w) PROVE w[i] = h[d + n + Len(v) + i]
        BY <1>1, <2>1
    <2> QED BY <1>1, <1>2, <2>1, <2>2
<1> QED BY <1>1, <1>2, <1>3, <1>4 DEF Parted, PartOf, v

LEMMA Sent ==
    ASSUME NEW h, Listing(h)
    PROVE  Parted(<<>>, <<>> \o h, h, 0)
<1>1. Len(h) \in Nat /\ Listing(<<>>) /\ Len(<<>>) = 0
    BY ListingIs, NothingListed
<1> DEFINE w == <<>> \o h
<1>2. /\ Listing(w) /\ Len(w) = Len(<<>>) + Len(h)
      /\ \A i \in 1..Len(h) : w[Len(<<>>) + i] = h[i]
    <2>1. Joint(<<>>, h, <<>> \o h)
        BY <1>1, Joined
    <2>2. Joint(<<>>, h, w)
        BY <2>1
    <2> HIDE DEF w
    <2> QED BY <2>2 DEF Joint
<1> HIDE DEF w
<1>3. Len(w) = Len(h) /\ \A i \in 1..Len(h) : w[i] = h[i]
    BY <1>1, <1>2
<1> QED BY <1>1, <1>2, <1>3 DEF Parted, PartOf, w

-------------------------------------------------------------------------------
(* What every step keeps, of each connection none of whose calls gave up:    *)
(* before the statement was run nothing is under way; after that, the buffer *)
(* and the wire hold what follows the messages read, and the rows are those  *)
(* in the messages read; and a connection that waits for a call has nothing  *)
(* under way.                                                                *)
SqlTypeOK ==
    /\ DOMAIN pc = Sessions /\ DOMAIN stmt = Sessions /\ DOMAIN rows = Sessions /\ DOMAIN result = Sessions
    /\ DOMAIN buf = Sessions /\ DOMAIN wire = Sessions /\ DOMAIN server = Sessions
    /\ DOMAIN sentRows = Sessions /\ DOMAIN clean = Sessions
    /\ calls \in [Sessions -> Nat]
    /\ IsFiniteSet(DOMAIN documents) /\ IsFiniteSet(DOMAIN log)
Greeted(k) ==
    pc[k] = "start" =>
        calls[k] = 0 /\ \E end \in {Ready, Error} : Parted(buf[k], wire[k], Halves(<<Other, end>>), 0)
NotRun(k) ==
    server[k] # "idle" =>
        pc[k] = "recv" /\ buf[k] = <<>> /\ wire[k] = <<>> /\ rows[k] = <<>> /\ sentRows[k] = <<>>
Replied(k) ==
    (pc[k] = "recv" /\ server[k] = "idle") =>
        /\ Listing(sentRows[k])
        /\ \E first \in {Other, Error}, c \in 0..(Len(sentRows[k]) + 1) :
              /\ Parted(buf[k], wire[k], Halves(ReplyOf(first, sentRows[k])), 2 * c)
              /\ FirstRows(rows[k], sentRows[k], c)
Idle(k) ==
    pc[k] = "ready" =>
        /\ wire[k] = <<>>
        /\ calls[k] > 0 => rows[k] = sentRows[k] /\ result[k] = Returned(stmt[k], sentRows[k])
SqlInv ==
    SqlTypeOK /\ \A k \in Sessions : clean[k] => Greeted(k) /\ NotRun(k) /\ Replied(k) /\ Idle(k)

(* The replies are written as the server sends them. *)
LEMMA GreetingIs ==
    ASSUME NEW end
    PROVE  /\ Listing(Halves(<<Other, end>>)) /\ Len(Halves(<<Other, end>>)) = 4
           /\ Halves(<<Other, end>>)[2] = <<Other, 2>> /\ Halves(<<Other, end>>)[4] = <<end, 2>>
<1> DEFINE m == <<Other, end>>
<1>1. m = [i \in 1..2 |-> m[i]] /\ m[1] = Other /\ m[2] = end
    OBVIOUS
<1> HIDE DEF m
<1>2. Listing(m) /\ Len(m) = 2
    BY <1>1, ListingOf
<1>3. /\ Listing(Halves(m)) /\ Len(Halves(m)) = 2 * 2
      /\ \A i \in 1..2 : Halves(m)[2 * i] = <<m[i], 2>>
    BY <1>2, HalvesOfReply
<1>4. Halves(m)[2 * 1] = <<m[1], 2>> /\ Halves(m)[2 * 2] = <<m[2], 2>>
    BY <1>3
<1> QED BY <1>1, <1>3, <1>4 DEF m

LEMMA AnswerIs ==
    ASSUME NEW rs, Listing(rs)
    PROVE  <<Other>> \o [i \in DOMAIN rs |-> Row(rs[i])] \o <<Ready>> = ReplyOf(Other, rs)
<1> DEFINE n == Len(rs)
           body == [i \in 1..n |-> Row(rs[i])]
           a == <<Other>>
           z == <<Ready>>
           ab == a \o body
           abz == ab \o z
<1>1. n \in Nat /\ DOMAIN rs = 1..n
    BY ListingIs
<1>2. Listing(a) /\ Len(a) = 1 /\ a[1] = Other /\ Listing(z) /\ Len(z) = 1 /\ z[1] = Ready
    <2>1. a = [i \in 1..1 |-> a[i]] /\ a[1] = Other /\ z = [i \in 1..1 |-> z[i]] /\ z[1] = Ready
        OBVIOUS
    <2> HIDE DEF a, z
    <2> QED BY <2>1, ListingOf
<1>3. Listing(body) /\ Len(body) = n /\ \A i \in 1..n : body[i] = Row(rs[i])
    <2>1. body = [i \in 1..n |-> body[i]] /\ \A i \in 1..n : body[i] = Row(rs[i])
        OBVIOUS
    <2> HIDE DEF body
    <2> QED BY <1>1, <2>1, ListingOf
<1> HIDE DEF a, z, body
<1>4. Joint(a, body, ab)
    BY <1>2, <1>3, Joined
<1> HIDE DEF ab
<1>5. Listing(ab)
    BY <1>4 DEF Joint
<1>6. Joint(ab, z, abz)
    BY <1>2, <1>5, Joined
<1> HIDE DEF abz
<1>7. /\ Listing(abz) /\ Len(abz) = n + 2 /\ abz[1] = Other /\ abz[n + 2] = Ready
      /\ \A i \in 2..(n + 1) : abz[i] = Row(rs[i - 1])
    <2>1. Len(ab) = n + 1 /\ ab[1] = Other /\ \A i \in 1..n : ab[1 + i] = Row(rs[i])
        BY <1>1, <1>2, <1>3, <1>4 DEF Joint
    <2>2. /\ Listing(abz) /\ Len(abz) = n + 1 + 1 /\ \A i \in 1..(n + 1) : abz[i] = ab[i]
          /\ abz[n + 1 + 1] = Ready
        BY <1>1, <1>2, <1>6, <2>1 DEF Joint
    <2>3. ASSUME NEW i \in 2..(n + 1) PROVE abz[i] = Row(rs[i - 1])
        <3>1. i - 1 \in 1..n /\ i \in 1..(n + 1) /\ 1 + (i - 1) = i
            BY <1>1
        <3> QED BY <2>1, <2>2, <3>1
    <2>4. 1 \in 1..(n + 1) /\ n + 1 + 1 = n + 2
        BY <1>1
    <2> QED BY <2>1, <2>2, <2>3, <2>4
<1> DEFINE p == ReplyOf(Other, rs)
<1>8. /\ Listing(p) /\ Len(p) = n + 2 /\ p[1] = Other /\ p[n + 2] = Ready
      /\ \A i \in 2..(n + 1) : p[i] = Row(rs[i - 1])
    BY ReplyIs
<1> HIDE DEF p
<1>9. \A i \in 1..(n + 2) : i = 1 \/ i = n + 2 \/ i \in 2..(n + 1)
    BY <1>1
<1>10. abz = p
    BY <1>7, <1>8, <1>9, SameListing
<1> QED BY <1>1, <1>10 DEF abz, ab, a, z, body, p

LEMMA RefusalIs == <<Error, Ready>> = ReplyOf(Error, <<>>)
<1> DEFINE m == <<Error, Ready>>
           p == ReplyOf(Error, <<>>)
<1>1. m = [i \in 1..2 |-> m[i]] /\ m[1] = Error /\ m[2] = Ready
    OBVIOUS
<1> HIDE DEF m
<1>2. Listing(m) /\ Len(m) = 2
    BY <1>1, ListingOf
<1>3. Listing(<<>>) /\ Len(<<>>) = 0
    BY NothingListed
<1>4. Listing(p) /\ Len(p) = 2 /\ p[1] = Error /\ p[2] = Ready
    <2>1. /\ Listing(p) /\ Len(p) = Len(<<>>) + 2 /\ p[1] = Error /\ p[Len(<<>>) + 2] = Ready
        BY <1>3, ReplyIs
    <2> HIDE DEF p
    <2>2. Len(<<>>) + 2 = 2
        OBVIOUS
    <2> QED BY <2>1, <2>2
<1> HIDE DEF p
<1>5. m = p
    BY <1>1, <1>2, <1>4, SameListing
<1> QED BY <1>5 DEF m, p

LEMMA SqlStarts == SInit => SqlInv
<1> SUFFICES ASSUME SInit PROVE SqlInv
    OBVIOUS
<1>1. SqlTypeOK
    <2>1. IsFiniteSet(DOMAIN documents)
        <3>1. DOMAIN documents = {}
            BY DEF SInit
        <3> QED BY <3>1, FS_EmptySet
    <2>2. IsFiniteSet(DOMAIN log)
        <3>1. PICK n \in 0..MaxOlder : log \in [0..(n - 1) -> Bodies]
            BY DEF SInit
        <3>2. DOMAIN log = 0..(n - 1) /\ 0 \in Int /\ n - 1 \in Int
            BY <3>1, BoundsAssumption
        <3> QED BY <3>2, FS_Interval
    <2> QED BY <2>1, <2>2 DEF SInit, SqlTypeOK
<1>2. ASSUME NEW k \in Sessions PROVE Greeted(k) /\ NotRun(k) /\ Replied(k) /\ Idle(k)
    <2>1. /\ pc[k] = "start" /\ server[k] = "idle" /\ calls[k] = 0 /\ buf[k] = <<>>
          /\ wire[k] \in {Halves(<<Other, Ready>>), Halves(<<Other, Error>>)}
        BY DEF SInit
    <2>2. PICK end \in {Ready, Error} : wire[k] = Halves(<<Other, end>>)
        BY <2>1
    <2> DEFINE h == Halves(<<Other, end>>)
    <2>3. Listing(h) /\ Len(h) = 4
        BY GreetingIs
    <2> HIDE DEF h
    <2>4. Parted(<<>>, h, h, 0)
        BY <2>3, NothingListed DEF Parted, PartOf
    <2> QED BY <2>1, <2>2, <2>4 DEF Greeted, NotRun, Replied, Idle, h
<1> QED BY <1>1, <1>2 DEF SqlInv

(* A step of one connection leaves the others as they are. *)
Untouched(j) ==
    /\ pc'[j] = pc[j] /\ stmt'[j] = stmt[j] /\ calls'[j] = calls[j] /\ rows'[j] = rows[j]
    /\ result'[j] = result[j] /\ buf'[j] = buf[j] /\ wire'[j] = wire[j] /\ server'[j] = server[j]
    /\ sentRows'[j] = sentRows[j] /\ clean'[j] = clean[j]
LEMMA OthersKeep ==
    ASSUME NEW j \in Sessions, Untouched(j), clean[j] => Greeted(j) /\ NotRun(j) /\ Replied(j) /\ Idle(j)
    PROVE  clean'[j] => Greeted(j)' /\ NotRun(j)' /\ Replied(j)' /\ Idle(j)'
BY DEF Untouched, Greeted, NotRun, Replied, Idle

LEMMA StartupKeeps ==
    ASSUME SqlInv, NEW k \in Sessions, Startup(k) PROVE SqlInv'
<1> USE DEF Set
<1>1. SqlTypeOK'
    BY DEF SqlInv, SqlTypeOK, Startup, Received
<1>2. ASSUME NEW j \in Sessions, j # k PROVE Untouched(j)
    BY <1>2 DEF SqlInv, SqlTypeOK, Startup, Received, Untouched
<1>3. ASSUME clean'[k] PROVE Greeted(k)' /\ NotRun(k)' /\ Replied(k)' /\ Idle(k)'
    <2>1. PICK n \in Chunks(k) :
              /\ wire' = [wire EXCEPT ![k] = SubSeq(wire[k], n + 1, Len(wire[k]))]
              /\ buf' = [buf EXCEPT ![k] = buf[k] \o SubSeq(wire[k], 1, n)]
              /\ pc' = [pc EXCEPT ![k] =
                    IF Has(Messages(buf[k] \o SubSeq(wire[k], 1, n)), "Z") THEN "ready"
                    ELSE IF Has(Messages(buf[k] \o SubSeq(wire[k], 1, n)), "E") THEN "refused" ELSE "start"]
        BY DEF Startup, Received, Chunk
    <2>2. /\ pc[k] = "start" /\ calls' = calls /\ server' = server /\ clean[k]
          /\ SqlTypeOK /\ Greeted(k) /\ NotRun(k)
        BY <1>3 DEF Startup, SqlInv
    <2>3. server[k] = "idle" /\ calls[k] = 0
        BY <2>2 DEF NotRun, Greeted
    <2>4. PICK end \in {Ready, Error} : Parted(buf[k], wire[k], Halves(<<Other, end>>), 0)
        BY <2>2 DEF Greeted
    <2> DEFINE h == Halves(<<Other, end>>)
               b == buf[k] \o SubSeq(wire[k], 1, n)
               w == SubSeq(wire[k], n + 1, Len(wire[k]))
    <2>5. buf'[k] = b /\ wire'[k] = w /\ calls'[k] = 0 /\ server'[k] = "idle"
          /\ pc'[k] = IF Has(Messages(b), "Z") THEN "ready" ELSE IF Has(Messages(b), "E") THEN "refused" ELSE "start"
        BY <2>1, <2>2, <2>3 DEF SqlTypeOK
    <2>6. Listing(h) /\ Len(h) = 4 /\ h[2] = <<Other, 2>> /\ h[4] = <<end, 2>>
        BY GreetingIs
    <2>7. n \in 1..Len(wire[k])
        <3>1. Listing(wire[k])
            BY <2>4 DEF Parted, PartOf
        <3>2. Len(wire[k]) \in Nat
            BY <3>1, ListingIs
        <3> QED BY <3>2 DEF Chunks
    <2>8. Parted(b, w, h, 0)
        <3> HIDE DEF h
        <3>1. Parted(buf[k], wire[k], h, 0) /\ 0 \in Nat
            BY <2>4 DEF h
        <3> QED BY <2>6, <2>7, <3>1, Arrived
    <2> HIDE DEF b, w, h
    <2>9. /\ Listing(b) /\ Listing(w) /\ Len(b) \in Nat /\ Len(w) \in Nat /\ Len(b) + Len(w) = 4
          /\ \A i \in 1..Len(b) : b[i] = h[i]
        BY <2>6, <2>8, ListingIs DEF Parted, PartOf
    <2>10. ASSUME Has(Messages(b), "Z") PROVE w = <<>>
        <3>1. PICK i \in 1..Whole(b) : Messages(b)[i].type = "Z"
            BY <2>10 DEF Has, Messages
        <3>2. i \in Nat /\ i >= 1 /\ 2 * i <= Len(b) /\ Messages(b)[i] = b[2 * i][1]
            BY <2>9, <3>1 DEF Whole, Messages
        <3>3. i # 1
            <4> SUFFICES ASSUME i = 1 PROVE FALSE
                OBVIOUS
            <4>1. 2 \in 1..Len(b) /\ Messages(b)[i] = b[2][1]
                BY <2>9, <3>2
            <4>2. b[2] = <<Other, 2>>
                BY <2>6, <2>9, <4>1
            <4> QED BY <3>1, <4>1, <4>2 DEF Other
        <3>4. Len(w) = 0
            BY <2>9, <3>2, <3>3
        <3> QED BY <2>9, <3>4, NothingListed
    <2> QED BY <2>5, <2>8, <2>10 DEF Greeted, NotRun, Replied, Idle, h
<1>4. ASSUME NEW j \in Sessions PROVE clean'[j] => Greeted(j)' /\ NotRun(j)' /\ Replied(j)' /\ Idle(j)'
    BY <1>2, <1>3, OthersKeep DEF SqlInv
<1> QED BY <1>1, <1>4 DEF SqlInv

LEMMA CallKeeps ==
    ASSUME SqlInv, NEW k \in Sessions, NEW s, Call(k, s) PROVE SqlInv'
<1> USE DEF Set
<1>1. SqlTypeOK'
    BY DEF SqlInv, SqlTypeOK, Call
<1>2. ASSUME NEW j \in Sessions, j # k PROVE Untouched(j)
    BY <1>2 DEF SqlInv, SqlTypeOK, Call, Untouched
<1>3. ASSUME clean'[k] PROVE Greeted(k)' /\ NotRun(k)' /\ Replied(k)' /\ Idle(k)'
    <2>1. pc[k] = "ready" /\ clean[k] /\ Idle(k)
        BY <1>3 DEF Call, SqlInv
    <2>2. /\ wire'[k] = <<>> /\ buf'[k] = <<>> /\ rows'[k] = <<>> /\ sentRows'[k] = <<>>
          /\ pc'[k] = "recv" /\ server'[k] = "asked"
        BY <2>1 DEF Call, Idle, SqlInv, SqlTypeOK
    <2> QED BY <2>2 DEF Greeted, NotRun, Replied, Idle
<1>4. ASSUME NEW j \in Sessions PROVE clean'[j] => Greeted(j)' /\ NotRun(j)' /\ Replied(j)' /\ Idle(j)'
    BY <1>2, <1>3, OthersKeep DEF SqlInv
<1> QED BY <1>1, <1>4 DEF SqlInv

LEMMA ReceiveKeeps ==
    ASSUME SqlInv, NEW k \in Sessions, Receive(k) PROVE SqlInv'
<1> USE DEF Set
<1>1. SqlTypeOK'
    BY DEF SqlInv, SqlTypeOK, Receive, Received
<1>2. ASSUME NEW j \in Sessions, j # k PROVE Untouched(j)
    BY <1>2 DEF SqlInv, SqlTypeOK, Receive, Received, Untouched
<1>3. ASSUME clean'[k] PROVE Greeted(k)' /\ NotRun(k)' /\ Replied(k)' /\ Idle(k)'
    <2>1. /\ pc[k] = "recv" /\ clean[k] /\ calls' = calls /\ server' = server /\ sentRows' = sentRows /\ stmt' = stmt
          /\ SqlTypeOK /\ NotRun(k) /\ Replied(k)
        BY <1>3 DEF Receive, SqlInv
    <2>2. PICK n \in Chunks(k) :
              LET b == buf[k] \o SubSeq(wire[k], 1, n)
                  msgs == UpTo(Messages(b), "Z")
                  got == rows[k] \o RowsIn(msgs)
              IN  /\ wire' = [wire EXCEPT ![k] = SubSeq(wire[k], n + 1, Len(wire[k]))]
                  /\ rows' = [rows EXCEPT ![k] = got]
                  /\ buf' = [buf EXCEPT ![k] = Unparsed(b)]
                  /\ IF Has(msgs, "Z")
                     THEN pc' = [pc EXCEPT ![k] = "ready"] /\ result' = [result EXCEPT ![k] = Returned(stmt[k], got)]
                     ELSE UNCHANGED <<pc, result>>
        BY DEF Receive, Received, Chunk
    <2>3. server[k] = "idle"
        <3>1. CASE server[k] # "idle"
            <4>1. Len(wire[k]) = 0
                BY <2>1, <3>1, NothingListed DEF NotRun
            <4> QED BY <2>2, <4>1 DEF Chunks
        <3> QED BY <3>1
    <2> DEFINE rs == sentRows[k]
    <2>4. Listing(rs)
        BY <2>1, <2>3 DEF Replied
    <2>5. PICK first \in {Other, Error}, c \in 0..(Len(rs) + 1) :
              /\ Parted(buf[k], wire[k], Halves(ReplyOf(first, rs)), 2 * c)
              /\ FirstRows(rows[k], rs, c)
        BY <2>1, <2>3 DEF Replied
    <2> DEFINE h == Halves(ReplyOf(first, rs))
               b == buf[k] \o SubSeq(wire[k], 1, n)
               w == SubSeq(wire[k], n + 1, Len(wire[k]))
               got == rows[k] \o RowsIn(Messages(b))
               whole == Whole(b)
    <2>6. Len(rs) \in Nat /\ c \in Nat /\ 2 * c \in Nat
        BY <2>4, ListingIs
    <2>7. Listing(h) /\ Len(h) = 2 * (Len(rs) + 2)
        BY <2>4, ReplyIs, HalvesOfReply, SMTT(30)
    <2>8. n \in 1..Len(wire[k])
        <3>1. Listing(wire[k])
            BY <2>5 DEF Parted, PartOf
        <3>2. Len(wire[k]) \in Nat
            BY <3>1, ListingIs
        <3> QED BY <3>2 DEF Chunks
    <2>9. Parted(b, w, h, 2 * c)
        <3> HIDE DEF h
        <3>1. Parted(buf[k], wire[k], h, 2 * c)
            BY <2>5 DEF h
        <3> QED BY <2>6, <2>7, <2>8, <3>1, Arrived
    <2>10. PartOf(b, h, 2 * c)
        BY <2>9 DEF Parted
    <2>11. /\ whole \in Nat /\ Len(b) \in {2 * whole, 2 * whole + 1} /\ c + whole <= Len(rs) + 2
           /\ UpTo(Messages(b), "Z") = Messages(b)
           /\ Has(Messages(b), "Z") <=> c + whole = Len(rs) + 2
           /\ FirstRows(got, rs, c + whole)
        <3> HIDE DEF b, rs
        <3>1. PartOf(b, Halves(ReplyOf(first, rs)), 2 * c)
            BY <2>10
        <3>2. whole \in Nat /\ Len(b) \in {2 * whole, 2 * whole + 1} /\ c + whole <= Len(rs) + 2
            BY <2>4, <3>1, MessagesOfPart
        <3>3. /\ UpTo(Messages(b), "Z") = Messages(b)
              /\ Has(Messages(b), "Z") <=> c + whole = Len(rs) + 2
            BY <2>4, <3>1, EndOfReply
        <3>4. FirstRows(rows[k], rs, c)
            BY <2>5 DEF rs
        <3>5. FirstRows(got, rs, c + whole)
            BY <2>4, <3>1, <3>4, RowsOfPart
        <3> QED BY <3>2, <3>3, <3>5
    <2>12. /\ wire'[k] = w /\ rows'[k] = got /\ buf'[k] = Unparsed(b)
           /\ server'[k] = "idle" /\ sentRows'[k] = rs /\ stmt'[k] = stmt[k]
           /\ IF c + whole = Len(rs) + 2 THEN pc'[k] = "ready" /\ result'[k] = Returned(stmt[k], got)
              ELSE pc'[k] = "recv"
        <3> HIDE DEF whole
        <3> QED BY <2>1, <2>2, <2>3, <2>11 DEF SqlTypeOK
    <2> HIDE DEF h, b, w, got, whole, rs
    <2>13. CASE c + whole = Len(rs) + 2
        <3>1. w = <<>>
            <4>1. /\ Listing(b) /\ Listing(w) /\ Len(b) \in Nat /\ Len(w) \in Nat
                  /\ Len(b) + Len(w) = 2 * (Len(rs) + 2) - 2 * c
                BY <2>7, <2>9, ListingIs DEF Parted, PartOf
            <4>2. Len(w) = 0
                BY <2>6, <2>11, <2>13, <4>1
            <4> QED BY <4>1, <4>2, NothingListed
        <3>2. got = rs
            <4>1. Listing(got) /\ Len(got) = RowsOfFirst(rs, c + whole) /\ \A i \in 1..Len(got) : got[i] = rs[i]
                BY <2>11 DEF FirstRows
            <4>2. Len(got) = Len(rs)
                <5>1. RowsOfFirst(rs, Len(rs) + 2) = Len(rs)
                    BY <2>6 DEF RowsOfFirst
                <5> QED BY <2>13, <4>1, <5>1
            <4> QED BY <2>4, <4>1, <4>2, SameListing
        <3>3. pc'[k] = "ready" /\ wire'[k] = <<>> /\ rows'[k] = sentRows'[k] /\ result'[k] = Returned(stmt'[k], sentRows'[k])
            BY <2>12, <2>13, <3>1, <3>2
        <3> QED BY <2>12, <3>3 DEF Greeted, NotRun, Replied, Idle
    <2>14. CASE c + whole # Len(rs) + 2
        <3>1. c + whole \in 0..(Len(rs) + 1)
            BY <2>6, <2>11, <2>14
        <3>2. Parted(Unparsed(b), w, h, 2 * (c + whole))
            <4>1. 2 * whole \in Nat /\ 2 * whole <= Len(b) /\ 2 * c + 2 * whole = 2 * (c + whole)
                BY <2>6, <2>11
            <4>2. Parted(SubSeq(b, 2 * whole + 1, Len(b)), w, h, 2 * c + 2 * whole)
                BY <2>6, <2>7, <2>9, <4>1, Taken
            <4> QED BY <4>1, <4>2 DEF Unparsed, whole
        <3>3. pc'[k] = "recv" /\ server'[k] = "idle" /\ sentRows'[k] = rs /\ Listing(rs)
            BY <2>4, <2>12, <2>14
        <3>4. \E f \in {Other, Error}, d \in 0..(Len(rs) + 1) :
                 Parted(Unparsed(b), w, Halves(ReplyOf(f, rs)), 2 * d) /\ FirstRows(got, rs, d)
            BY <2>11, <3>1, <3>2 DEF h
        <3> QED BY <2>12, <3>3, <3>4 DEF Greeted, NotRun, Replied, Idle
    <2> QED BY <2>13, <2>14
<1>4. ASSUME NEW j \in Sessions PROVE clean'[j] => Greeted(j)' /\ NotRun(j)' /\ Replied(j)' /\ Idle(j)'
    BY <1>2, <1>3, OthersKeep DEF SqlInv
<1> QED BY <1>1, <1>4 DEF SqlInv

LEMMA RecvFailsKeeps ==
    ASSUME SqlInv, NEW k \in Sessions, RecvFails(k) PROVE SqlInv'
<1> USE DEF Set
<1>1. SqlTypeOK'
    BY DEF SqlInv, SqlTypeOK, RecvFails
<1>2. ASSUME NEW j \in Sessions, j # k PROVE Untouched(j)
    BY <1>2 DEF SqlInv, SqlTypeOK, RecvFails, Untouched
<1>3. ~clean'[k]
    BY DEF RecvFails, SqlInv, SqlTypeOK
<1>4. ASSUME NEW j \in Sessions PROVE clean'[j] => Greeted(j)' /\ NotRun(j)' /\ Replied(j)' /\ Idle(j)'
    BY <1>2, <1>3, OthersKeep DEF SqlInv
<1> QED BY <1>1, <1>4 DEF SqlInv

(* The server answers or refuses a statement. *)
LEMMA AnswerKeeps ==
    ASSUME SqlInv, NEW k \in Sessions, server[k] # "idle", NEW rs, Listing(rs), Answer(k, rs),
           IsFiniteSet(DOMAIN documents'), IsFiniteSet(DOMAIN log')
    PROVE  SqlInv'
<1> USE DEF Set
<1>1. SqlTypeOK'
    BY DEF SqlInv, SqlTypeOK, Answer
<1>2. ASSUME NEW j \in Sessions, j # k PROVE Untouched(j)
    BY <1>2 DEF SqlInv, SqlTypeOK, Answer, Untouched
<1>3. ASSUME clean'[k] PROVE Greeted(k)' /\ NotRun(k)' /\ Replied(k)' /\ Idle(k)'
    <2>1. clean[k] /\ pc[k] = "recv" /\ buf[k] = <<>> /\ wire[k] = <<>> /\ rows[k] = <<>> /\ SqlTypeOK
        BY <1>3 DEF Answer, SqlInv, NotRun
    <2> DEFINE h == Halves(ReplyOf(Other, rs))
    <2>2. /\ pc'[k] = "recv" /\ buf'[k] = <<>> /\ rows'[k] = <<>> /\ sentRows'[k] = rs /\ server'[k] = "idle"
          /\ wire'[k] = <<>> \o h
        BY <2>1, AnswerIs DEF Answer, SqlTypeOK
    <2>3. Listing(h) /\ Len(rs) \in Nat
        BY ReplyIs, HalvesOfReply, ListingIs
    <2>4. Parted(<<>>, <<>> \o h, h, 2 * 0)
        <3> HIDE DEF h
        <3>1. Parted(<<>>, <<>> \o h, h, 0)
            BY <2>3, Sent
        <3> QED BY <3>1
    <2>5. FirstRows(<<>>, rs, 0)
        BY NothingListed DEF FirstRows, RowsOfFirst
    <2>6. \E f \in {Other, Error}, d \in 0..(Len(rs) + 1) :
             Parted(buf'[k], wire'[k], Halves(ReplyOf(f, rs)), 2 * d) /\ FirstRows(rows'[k], rs, d)
        <3>1. 0 \in 0..(Len(rs) + 1)
            BY <2>3
        <3> QED BY <2>2, <2>4, <2>5, <3>1
    <2> QED BY <2>2, <2>6 DEF Greeted, NotRun, Replied, Idle
<1>4. ASSUME NEW j \in Sessions PROVE clean'[j] => Greeted(j)' /\ NotRun(j)' /\ Replied(j)' /\ Idle(j)'
    BY <1>2, <1>3, OthersKeep DEF SqlInv
<1> QED BY <1>1, <1>4 DEF SqlInv

LEMMA RefuseKeeps ==
    ASSUME SqlInv, NEW k \in Sessions, server[k] # "idle", Refuse(k)
    PROVE  SqlInv'
<1> USE DEF Set
<1>1. SqlTypeOK'
    BY DEF SqlInv, SqlTypeOK, Refuse
<1>2. ASSUME NEW j \in Sessions, j # k PROVE Untouched(j)
    BY <1>2 DEF SqlInv, SqlTypeOK, Refuse, Untouched
<1>3. ASSUME clean'[k] PROVE Greeted(k)' /\ NotRun(k)' /\ Replied(k)' /\ Idle(k)'
    <2>1. /\ clean[k] /\ pc[k] = "recv" /\ buf[k] = <<>> /\ wire[k] = <<>> /\ rows[k] = <<>>
          /\ sentRows[k] = <<>> /\ SqlTypeOK
        BY <1>3 DEF Refuse, SqlInv, NotRun
    <2> DEFINE h == Halves(ReplyOf(Error, <<>>))
    <2>2. /\ pc'[k] = "recv" /\ buf'[k] = <<>> /\ rows'[k] = <<>> /\ sentRows'[k] = <<>> /\ server'[k] = "idle"
          /\ wire'[k] = <<>> \o h
        BY <2>1, RefusalIs DEF Refuse, SqlTypeOK
    <2>3. Listing(h) /\ Listing(<<>>) /\ Len(<<>>) = 0
        BY ReplyIs, HalvesOfReply, NothingListed
    <2>4. Parted(<<>>, <<>> \o h, h, 2 * 0)
        <3> HIDE DEF h
        <3>1. Parted(<<>>, <<>> \o h, h, 0)
            BY <2>3, Sent
        <3> QED BY <3>1
    <2>5. FirstRows(<<>>, <<>>, 0)
        BY NothingListed DEF FirstRows, RowsOfFirst
    <2>6. \E f \in {Other, Error}, d \in 0..(Len(<<>>) + 1) :
             Parted(buf'[k], wire'[k], Halves(ReplyOf(f, <<>>)), 2 * d) /\ FirstRows(rows'[k], <<>>, d)
        <3>1. 0 \in 0..(Len(<<>>) + 1)
            BY <2>3
        <3> QED BY <2>2, <2>4, <2>5, <3>1
    <2> QED BY <2>2, <2>3, <2>6 DEF Greeted, NotRun, Replied, Idle
<1>4. ASSUME NEW j \in Sessions PROVE clean'[j] => Greeted(j)' /\ NotRun(j)' /\ Replied(j)' /\ Idle(j)'
    BY <1>2, <1>3, OthersKeep DEF SqlInv
<1> QED BY <1>1, <1>4 DEF SqlInv

LEMMA ServerKeeps ==
    ASSUME SqlInv, NEW k \in Sessions, ServerStep(k)
    PROVE  SqlInv'
<1>1. IsFiniteSet(DOMAIN documents) /\ IsFiniteSet(DOMAIN log)
    BY DEF SqlInv, SqlTypeOK
<1>2. CASE RunPut(k)
    <2>1. DOMAIN documents' = DOMAIN documents \cup {stmt[k].id}
        BY <1>2 DEF RunPut, Assoc
    <2>2. IsFiniteSet(DOMAIN documents') /\ log' = log
        BY <1>1, <1>2, <2>1, FS_AddElement DEF RunPut
    <2>3. Answer(k, <<>>) /\ server[k] # "idle"
        BY <1>2 DEF RunPut
    <2> QED BY <1>1, <2>2, <2>3, NothingListed, AnswerKeeps
<1>3. CASE RunQuery(k)
    <2>1. PICK rs : /\ Answer(k, rs)
                    /\ \/ rs = InOrder(DOMAIN documents) \/ rs = At(log, DOMAIN log)
                       \/ rs = <<documents[stmt[k].id]>> \/ rs = <<>>
        BY <1>3 DEF RunQuery
    <2>2. Listing(rs)
        <3>1. CASE rs = InOrder(DOMAIN documents)
            <4>1. Cardinality(DOMAIN documents) \in Nat
                BY <1>1, FS_CardinalityType
            <4>2. rs = [i \in 1..Cardinality(DOMAIN documents) |-> rs[i]]
                BY <3>1 DEF InOrder
            <4> QED BY <4>1, <4>2, ListingOf
        <3>2. CASE rs = At(log, DOMAIN log)
            <4>1. Cardinality(DOMAIN log) \in Nat
                BY <1>1, FS_CardinalityType
            <4>2. rs = [i \in 1..Cardinality(DOMAIN log) |-> rs[i]]
                BY <3>2 DEF At
            <4> QED BY <4>1, <4>2, ListingOf
        <3>3. CASE rs = <<documents[stmt[k].id]>>
            <4>1. rs = [i \in 1..1 |-> rs[i]]
                BY <3>3
            <4> QED BY <4>1, ListingOf
        <3> QED BY <2>1, <3>1, <3>2, <3>3, NothingListed
    <2>3. server[k] # "idle" /\ documents' = documents /\ log' = log
        BY <1>3 DEF RunQuery
    <2> QED BY <1>1, <2>1, <2>2, <2>3, AnswerKeeps
<1>4. CASE RunSelectMax(k)
    <2>1. SqlTypeOK'
        BY <1>4 DEF SqlInv, SqlTypeOK, RunSelectMax, Set
    <2>2. ASSUME NEW j \in Sessions, j # k PROVE Untouched(j)
        BY <1>4, <2>2 DEF SqlInv, SqlTypeOK, RunSelectMax, Untouched, Set
    <2>3. ASSUME clean'[k] PROVE Greeted(k)' /\ NotRun(k)' /\ Replied(k)' /\ Idle(k)'
        <3>1. clean[k] /\ NotRun(k) /\ server[k] # "idle"
            BY <1>4, <2>3 DEF RunSelectMax, SqlInv
        <3>2. /\ pc[k] = "recv" /\ buf[k] = <<>> /\ wire[k] = <<>> /\ rows[k] = <<>> /\ sentRows[k] = <<>>
            BY <3>1 DEF NotRun
        <3>3. /\ pc'[k] = "recv" /\ buf'[k] = <<>> /\ wire'[k] = <<>> /\ rows'[k] = <<>> /\ sentRows'[k] = <<>>
              /\ server'[k] = "insert"
            BY <1>4, <3>2 DEF RunSelectMax, SqlInv, SqlTypeOK, Set
        <3> QED BY <3>3 DEF Greeted, NotRun, Replied, Idle
    <2>4. ASSUME NEW j \in Sessions PROVE clean'[j] => Greeted(j)' /\ NotRun(j)' /\ Replied(j)' /\ Idle(j)'
        BY <2>2, <2>3, OthersKeep DEF SqlInv
    <2> QED BY <2>1, <2>4 DEF SqlInv
<1>5. CASE RunInsert(k)
    <2>1. server[k] # "idle"
        BY <1>5 DEF RunInsert
    <2>2. CASE stmt[k].seq \in DOMAIN log
        <3>1. Refuse(k)
            BY <1>5, <2>2 DEF RunInsert
        <3> QED BY <2>1, <3>1, RefuseKeeps
    <2>3. CASE stmt[k].seq \notin DOMAIN log
        <3>1. Answer(k, <<>>) /\ documents' = documents /\ DOMAIN log' = DOMAIN log \cup {stmt[k].seq}
            BY <1>5, <2>3 DEF RunInsert, Assoc
        <3>2. IsFiniteSet(DOMAIN log')
            BY <1>1, <3>1, FS_AddElement
        <3> QED BY <1>1, <2>1, <3>1, <3>2, NothingListed, AnswerKeeps
    <2> QED BY <2>2, <2>3
<1> QED BY <1>2, <1>3, <1>4, <1>5 DEF ServerStep

LEMMA SqlStep == SqlInv /\ [SNext]_svars => SqlInv'
<1> SUFFICES ASSUME SqlInv, [SNext]_svars PROVE SqlInv'
    OBVIOUS
<1>1. CASE UNCHANGED svars
    <2>1. SqlTypeOK'
        BY <1>1 DEF svars, SqlInv, SqlTypeOK
    <2>2. ASSUME NEW j \in Sessions PROVE Untouched(j)
        BY <1>1 DEF svars, Untouched
    <2>3. ASSUME NEW j \in Sessions PROVE clean'[j] => Greeted(j)' /\ NotRun(j)' /\ Replied(j)' /\ Idle(j)'
        BY <2>2, OthersKeep DEF SqlInv
    <2> QED BY <2>1, <2>3 DEF SqlInv
<1>2. CASE SNext
    <2>1. PICK k \in Sessions :
              Startup(k) \/ (\E s \in Statements : Call(k, s)) \/ Receive(k) \/ RecvFails(k) \/ ServerStep(k)
        BY <1>2 DEF SNext
    <2> QED BY <2>1, StartupKeeps, CallKeeps, ReceiveKeeps, RecvFailsKeeps, ServerKeeps
<1> QED BY <1>1, <1>2

(* Whatever the pieces in which replies arrive, and however the calls of the *)
(* connections and the work of the server interleave, the rows of a call are *)
(* those the server sent for it, on a connection no call of which gave up    *)
(* (sqlstore.cpp:79-95).                                                     *)
THEOREM RowsAreTheAnswerHolds == SSpec => []RowsAreTheAnswer
<1>1. SqlInv => RowsAreTheAnswer
    BY DEF SqlInv, RowsAreTheAnswer, Idle
<1> QED BY <1>1, SqlStarts, SqlStep, PTL DEF SSpec

-------------------------------------------------------------------------------
(* The cache.  What every call keeps: the list holds the keys of the map,    *)
(* each once.  The entries of the promise are the listed keys with what the  *)
(* map has under them.                                                       *)
Once(s) == \A i, j \in 1..Len(s) : s[i] = s[j] => i = j
Listed(s) == {s[i] : i \in 1..Len(s)}
Agree(c, s) == Listing(s) /\ Once(s) /\ DOMAIN c = Listed(s) /\ c = [k \in DOMAIN c |-> c[k]]
Entries(c, s) == [i \in DOMAIN s |-> [key |-> s[i], result |-> c[s[i]].result]]
Keys == {KeyOf(ph, box) : ph \in Progs, box \in Boxes}
CacheInv == Agree(cache, lru) /\ limit \in Nat /\ DOMAIN cache \subseteq Keys

(* The part of a list at some of its positions. *)
LEMMA AtIs ==
    ASSUME NEW s, Listing(s), NEW ps \in SUBSET (1..Len(s))
    PROVE  /\ Listing(At(s, ps)) /\ Len(At(s, ps)) = Cardinality(ps) /\ ps \in SUBSET Int /\ IsFiniteSet(ps)
           /\ \A i \in 1..Cardinality(ps) : At(s, ps)[i] = s[InOrder(ps)[i]] /\ InOrder(ps)[i] \in ps
<1>1. Len(s) \in Nat
    BY ListingIs
<1>2. ps \in SUBSET Int /\ IsFiniteSet(ps)
    <2> DEFINE S == 1..Len(s)
    <2>1. IsFiniteSet(S) /\ ps \in SUBSET S /\ S \in SUBSET Int
        BY <1>1, FS_Interval
    <2> HIDE DEF S
    <2>2. IsFiniteSet(ps)
        BY <2>1, FS_Subset
    <2> QED BY <2>1, <2>2
<1>3. Cardinality(ps) \in Nat
    BY <1>2, FS_CardinalityType
<1> DEFINE a == At(s, ps)
           n == Cardinality(ps)
<1>4. a = [i \in 1..n |-> a[i]] /\ \A i \in 1..n : a[i] = s[InOrder(ps)[i]]
    BY DEF At
<1>5. \A i \in 1..n : InOrder(ps)[i] \in ps
    BY <1>2, InOrderIs
<1> HIDE DEF a, n
<1>6. Listing(a) /\ Len(a) = n
    BY <1>3, <1>4, ListingOf DEF n
<1> QED BY <1>2, <1>4, <1>5, <1>6 DEF a, n

LEMMA RemovedIs ==
    ASSUME NEW s, Listing(s), Once(s), NEW K
    PROVE  /\ Listing(Removed(K, s)) /\ Once(Removed(K, s))
           /\ Listed(Removed(K, s)) = Listed(s) \ K
<1> DEFINE ps == {i \in DOMAIN s : s[i] \notin K}
           r == Removed(K, s)
           n == Cardinality(ps)
<1>1. DOMAIN s = 1..Len(s) /\ ps \in SUBSET (1..Len(s))
    BY ListingIs
<1>2. r = At(s, ps)
    BY DEF Removed
<1>8. \A i \in 1..Len(s) : i \in ps <=> s[i] \notin K
    BY <1>1
<1> HIDE DEF ps, r
<1>3. /\ Listing(r) /\ Len(r) = n /\ ps \in SUBSET Int /\ IsFiniteSet(ps)
      /\ \A i \in 1..n : r[i] = s[InOrder(ps)[i]] /\ InOrder(ps)[i] \in ps
    BY <1>1, <1>2, AtIs
<1>4. /\ \A i, j \in 1..n : InOrder(ps)[i] = InOrder(ps)[j] => i = j
      /\ \A p \in ps : \E i \in 1..n : InOrder(ps)[i] = p
    BY <1>3, InOrderIs
<1> HIDE DEF n
<1>5. Once(r)
    <2> SUFFICES ASSUME NEW i \in 1..n, NEW j \in 1..n, r[i] = r[j] PROVE i = j
        BY <1>3 DEF Once
    <2>1. InOrder(ps)[i] \in 1..Len(s) /\ InOrder(ps)[j] \in 1..Len(s)
        BY <1>1, <1>3
    <2>2. s[InOrder(ps)[i]] = s[InOrder(ps)[j]]
        BY <1>3
    <2>3. InOrder(ps)[i] = InOrder(ps)[j]
        BY <2>1, <2>2 DEF Once
    <2> QED BY <1>4, <2>3
<1>6. ASSUME NEW x \in Listed(r) PROVE x \in Listed(s) \ K
    <2>1. PICK i \in 1..n : x = r[i]
        BY <1>3, <1>6 DEF Listed
    <2>2. InOrder(ps)[i] \in 1..Len(s) /\ x = s[InOrder(ps)[i]] /\ InOrder(ps)[i] \in ps
        BY <1>1, <1>3, <2>1
    <2> QED BY <1>8, <2>2 DEF Listed
<1>7. ASSUME NEW x \in Listed(s), x \notin K PROVE x \in Listed(r)
    <2>1. PICK p \in 1..Len(s) : x = s[p]
        BY DEF Listed
    <2>2. p \in ps
        BY <1>8, <1>7, <2>1
    <2>3. PICK i \in 1..n : InOrder(ps)[i] = p
        BY <1>4, <2>2
    <2>4. r[i] = x
        BY <1>3, <2>1, <2>3
    <2> QED BY <1>3, <2>4 DEF Listed
<1> QED BY <1>3, <1>5, <1>6, <1>7 DEF r

(* Nothing is removed from a list without what is to be removed. *)
LEMMA RemovedNothing ==
    ASSUME NEW s, Listing(s), NEW K, \A i \in 1..Len(s) : s[i] \notin K
    PROVE  Removed(K, s) = s
<1> DEFINE r == Removed(K, s)
           n == Len(s)
<1>1. n \in Nat /\ DOMAIN s = 1..n
    BY ListingIs
<1>2. {i \in DOMAIN s : s[i] \notin K} = 1..n
    BY <1>1
<1>3. r = At(s, 1..n)
    BY <1>2 DEF Removed
<1> HIDE DEF r
<1>4. /\ Listing(r) /\ Len(r) = Cardinality(1..n) /\ \A i \in 1..Cardinality(1..n) : r[i] = s[InOrder(1..n)[i]]
    BY <1>3, AtIs
<1> HIDE DEF n
<1>5. Cardinality(1..n) = n /\ \A i \in 1..n : InOrder(1..n)[i] = i
    <2>1. 1 \in Int /\ n \in Int /\ 1 <= n + 1 /\ n - 1 + 1 = n
        BY <1>1
    <2>2. Cardinality(1..n) = n - 1 + 1 /\ \A i \in 1..(n - 1 + 1) : InOrder(1..n)[i] = 1 + i - 1
        BY <2>1, InOrderOfInterval
    <2>3. \A i \in 1..n : 1 + i - 1 = i
        BY <1>1
    <2> QED BY <2>1, <2>2, <2>3
<1>6. Len(r) = n /\ \A i \in 1..n : r[i] = s[i]
    BY <1>4, <1>5
<1>7. r = s
    BY <1>4, <1>6, SameListing DEF n
<1> QED BY <1>7 DEF r

-------------------------------------------------------------------------------
(* The entries of what the calls make of the list. *)
RestOf(e, K) == At(e, {i \in DOMAIN e : e[i].key \notin K})

LEMMA EntriesIs ==
    ASSUME NEW c, NEW s, Listing(s)
    PROVE  /\ Listing(Entries(c, s)) /\ Len(Entries(c, s)) = Len(s)
           /\ \A i \in 1..Len(s) : Entries(c, s)[i] = [key |-> s[i], result |-> c[s[i]].result]
<1> DEFINE e == Entries(c, s)
           n == Len(s)
<1>1. DOMAIN s = 1..n /\ n \in Nat
    BY ListingIs
<1>2. e = [i \in 1..n |-> e[i]] /\ \A i \in 1..n : e[i] = [key |-> s[i], result |-> c[s[i]].result]
    BY <1>1 DEF Entries
<1> HIDE DEF e, n
<1>3. Listing(e) /\ Len(e) = n
    BY <1>1, <1>2, ListingOf
<1> QED BY <1>2, <1>3 DEF e, n

(* Same entries in the same order are the same entries.                      *)
LEMMA SameEntries ==
    ASSUME NEW c, NEW d, NEW s, Listing(s), \A k \in Listed(s) : c[k].result = d[k].result
    PROVE  Entries(c, s) = Entries(d, s)
<1> DEFINE e == Entries(c, s)
           f == Entries(d, s)
<1>1. /\ Listing(e) /\ Len(e) = Len(s) /\ Listing(f) /\ Len(f) = Len(s)
      /\ \A i \in 1..Len(s) : e[i] = [key |-> s[i], result |-> c[s[i]].result]
      /\ \A i \in 1..Len(s) : f[i] = [key |-> s[i], result |-> d[s[i]].result]
    BY EntriesIs
<1>2. \A i \in 1..Len(s) : c[s[i]].result = d[s[i]].result
    BY DEF Listed
<1> HIDE DEF e, f
<1>3. ASSUME NEW i \in 1..Len(s) PROVE e[i] = f[i]
    <2>1. e[i] = [key |-> s[i], result |-> c[s[i]].result]
        BY <1>1
    <2>2. f[i] = [key |-> s[i], result |-> d[s[i]].result]
        BY <1>1
    <2>3. c[s[i]].result = d[s[i]].result
        BY <1>2
    <2> QED BY <2>1, <2>2, <2>3
<1>4. e = f
    BY <1>1, <1>3, SameListing
<1> QED BY <1>4 DEF e, f

LEMMA EntriesRemoved ==
    ASSUME NEW c, NEW s, Listing(s), NEW K
    PROVE  Entries(c, Removed(K, s)) = RestOf(Entries(c, s), K)
<1> DEFINE e == Entries(c, s)
           ps == {i \in DOMAIN s : s[i] \notin K}
           r == Removed(K, s)
           f == Entries(c, r)
           g == RestOf(e, K)
           n == Cardinality(ps)
<1>1. DOMAIN s = 1..Len(s) /\ ps \in SUBSET (1..Len(s))
    BY ListingIs
<1>2. Listing(e) /\ Len(e) = Len(s) /\ \A i \in 1..Len(s) : e[i] = [key |-> s[i], result |-> c[s[i]].result]
    BY EntriesIs
<1>3. r = At(s, ps)
    BY DEF Removed
<1>4. g = At(e, ps)
    <2>1. DOMAIN e = 1..Len(s)
        BY DEF Entries, Listing, ListingIs
    <2> HIDE DEF e
    <2>2. {i \in DOMAIN e : e[i].key \notin K} = ps
        BY <1>1, <1>2, <2>1
    <2> HIDE DEF ps
    <2> QED BY <2>2 DEF RestOf
<1> HIDE DEF e, ps, r, g
<1>5. /\ Listing(r) /\ Len(r) = n
      /\ \A i \in 1..n : r[i] = s[InOrder(ps)[i]] /\ InOrder(ps)[i] \in ps
    BY <1>1, <1>3, AtIs
<1>6. Listing(g) /\ Len(g) = n /\ \A i \in 1..n : g[i] = e[InOrder(ps)[i]]
    <2>1. ps \in SUBSET (1..Len(e)) /\ Listing(e)
        BY <1>1, <1>2
    <2>2. /\ Listing(At(e, ps)) /\ Len(At(e, ps)) = Cardinality(ps)
          /\ \A i \in 1..Cardinality(ps) : At(e, ps)[i] = e[InOrder(ps)[i]]
        BY <2>1, AtIs
    <2> QED BY <1>4, <2>2
<1>7. Listing(f) /\ Len(f) = n /\ \A i \in 1..n : f[i] = [key |-> r[i], result |-> c[r[i]].result]
    BY <1>5, EntriesIs
<1> HIDE DEF f, n
<1>8. \A i \in 1..n : f[i] = g[i]
    <2> TAKE i \in 1..n
    <2>1. InOrder(ps)[i] \in 1..Len(s) /\ r[i] = s[InOrder(ps)[i]]
        BY <1>1, <1>5
    <2> QED BY <1>2, <1>6, <1>7, <2>1
<1>9. f = g
    BY <1>6, <1>7, <1>8, SameListing
<1> QED BY <1>9 DEF f, g, e, r

LEMMA EntriesCut ==
    ASSUME NEW c, NEW s, Listing(s), NEW n \in Nat, n <= Len(s)
    PROVE  Entries(c, SubSeq(s, 1, n)) = SubSeq(Entries(c, s), 1, n)
<1> DEFINE e == Entries(c, s)
           t == SubSeq(s, 1, n)
           f == Entries(c, t)
           g == SubSeq(e, 1, n)
<1>1. n - 1 + 1 = n /\ \A i \in 1..n : 1 + i - 1 = i /\ i \in 1..Len(s)
    BY ListingIs
<1>2. Listing(e) /\ Len(e) = Len(s) /\ \A i \in 1..Len(s) : e[i] = [key |-> s[i], result |-> c[s[i]].result]
    BY EntriesIs
<1> HIDE DEF e
<1>3. Listing(t) /\ Len(t) = n - 1 + 1 /\ \A i \in 1..(n - 1 + 1) : t[i] = s[1 + i - 1]
    BY Cuts
<1>4. Listing(g) /\ Len(g) = n - 1 + 1 /\ \A i \in 1..(n - 1 + 1) : g[i] = e[1 + i - 1]
    BY <1>2, Cuts
<1> HIDE DEF t, g
<1>5. Listing(t) /\ Len(t) = n /\ \A i \in 1..n : t[i] = s[i] /\ g[i] = e[i]
    BY <1>1, <1>3, <1>4
<1>6. Listing(f) /\ Len(f) = n /\ \A i \in 1..n : f[i] = [key |-> t[i], result |-> c[t[i]].result]
    BY <1>5, EntriesIs
<1> HIDE DEF f
<1>7. \A i \in 1..n : f[i] = g[i]
    BY <1>1, <1>2, <1>5, <1>6
<1>8. f = g
    BY <1>1, <1>4, <1>6, <1>7, SameListing
<1> QED BY <1>8 DEF f, g, e, t

LEMMA Single ==
    ASSUME NEW x
    PROVE  Listing(<<x>>) /\ Len(<<x>>) = 1 /\ <<x>>[1] = x
<1> DEFINE s == <<x>>
<1>1. s = [i \in 1..1 |-> s[i]] /\ s[1] = x
    OBVIOUS
<1> HIDE DEF s
<1>2. Listing(s) /\ Len(s) = 1
    BY <1>1, ListingOf
<1> QED BY <1>1, <1>2 DEF s

LEMMA EntriesFront ==
    ASSUME NEW c, NEW s, Listing(s), NEW k
    PROVE  Entries(c, <<k>> \o s) = <<[key |-> k, result |-> c[k].result]>> \o Entries(c, s)
<1> DEFINE e == Entries(c, s)
           x == [key |-> k, result |-> c[k].result]
           t == <<k>> \o s
           f == Entries(c, t)
           a == <<x>>
           b == <<k>>
           g == a \o e
           n == Len(s)
<1>1. n \in Nat
    BY ListingIs
<1>2. Listing(e) /\ Len(e) = n /\ \A i \in 1..n : e[i] = [key |-> s[i], result |-> c[s[i]].result]
    BY EntriesIs
<1>3. Listing(a) /\ Len(a) = 1 /\ a[1] = x /\ Listing(b) /\ Len(b) = 1 /\ b[1] = k
    BY Single
<1> HIDE DEF a, b, e
<1>4. Joint(a, e, g) /\ Joint(b, s, t)
    <2>1. Joint(b, s, b \o s)
        BY <1>3, Joined
    <2>2. b \o s = t
        BY DEF b
    <2>3. Joint(a, e, g)
        BY <1>2, <1>3, Joined
    <2> QED BY <2>1, <2>2, <2>3
<1> HIDE DEF g, t
<1>5. /\ Listing(g) /\ Len(g) = n + 1 /\ g[1] = x /\ \A i \in 1..n : g[1 + i] = e[i]
      /\ Listing(t) /\ Len(t) = n + 1 /\ t[1] = k /\ \A i \in 1..n : t[1 + i] = s[i]
    BY <1>1, <1>2, <1>3, <1>4 DEF Joint
<1>6. Listing(f) /\ Len(f) = n + 1 /\ \A i \in 1..(n + 1) : f[i] = [key |-> t[i], result |-> c[t[i]].result]
    BY <1>5, EntriesIs
<1> HIDE DEF f, n
<1>7. ASSUME NEW i \in 1..(n + 1) PROVE f[i] = g[i]
    <2>1. CASE i = 1
        BY <1>1, <1>5, <1>6, <2>1
    <2>2. CASE i # 1
        <3>1. i - 1 \in 1..n /\ 1 + (i - 1) = i
            BY <1>1, <2>2
        <3> QED BY <1>2, <1>5, <1>6, <3>1
    <2> QED BY <2>1, <2>2
<1>8. f = g
    BY <1>5, <1>6, <1>7, SameListing
<1> QED BY <1>8 DEF f, g, e, t, a

-------------------------------------------------------------------------------
(* The calls on a map and a list that agree. *)
LEMMA FrontAgrees ==
    ASSUME NEW s, Listing(s), Once(s), NEW k, k \notin Listed(s)
    PROVE  Listing(<<k>> \o s) /\ Once(<<k>> \o s) /\ Listed(<<k>> \o s) = Listed(s) \cup {k}
<1> DEFINE b == <<k>>
           t == <<k>> \o s
           n == Len(s)
<1>1. n \in Nat
    BY ListingIs
<1>2. Listing(b) /\ Len(b) = 1 /\ b[1] = k
    BY Single
<1> HIDE DEF b
<1>3. Joint(b, s, t)
    <2>1. Joint(b, s, b \o s)
        BY <1>2, Joined
    <2> QED BY <2>1 DEF b
<1> HIDE DEF t
<1>4. Listing(t) /\ Len(t) = n + 1 /\ t[1] = k /\ \A i \in 1..n : t[1 + i] = s[i]
    BY <1>1, <1>2, <1>3 DEF Joint
<1>5. \A i \in 1..(n + 1) : i = 1 \/ (i - 1 \in 1..n /\ t[i] = s[i - 1])
    <2> TAKE i \in 1..(n + 1)
    <2>1. i = 1 \/ (i - 1 \in 1..n /\ 1 + (i - 1) = i)
        BY <1>1
    <2> QED BY <1>4, <2>1
<1>6. \A i \in 1..n : s[i] # k
    BY DEF Listed
<1>7. Once(t)
    <2> SUFFICES ASSUME NEW i \in 1..(n + 1), NEW j \in 1..(n + 1), t[i] = t[j] PROVE i = j
        BY <1>4 DEF Once
    <2>1. CASE i = 1 /\ j = 1
        BY <2>1
    <2>2. CASE i = 1 /\ j # 1
        BY <1>4, <1>5, <1>6, <2>2
    <2>3. CASE i # 1 /\ j = 1
        BY <1>4, <1>5, <1>6, <2>3
    <2>4. CASE i # 1 /\ j # 1
        <3>1. i - 1 \in 1..n /\ j - 1 \in 1..n /\ s[i - 1] = s[j - 1]
            BY <1>5, <2>4
        <3>2. i - 1 = j - 1
            BY <3>1 DEF Once
        <3> QED BY <1>1, <3>2
    <2> QED BY <2>1, <2>2, <2>3, <2>4
<1>8. ASSUME NEW x \in Listed(t) PROVE x \in Listed(s) \cup {k}
    <2>1. PICK i \in 1..(n + 1) : x = t[i]
        BY <1>4 DEF Listed
    <2> QED BY <1>4, <1>5, <2>1 DEF Listed
<1>9. ASSUME NEW x \in Listed(s) \cup {k} PROVE x \in Listed(t)
    <2>1. CASE x = k
        BY <1>1, <1>4, <2>1 DEF Listed
    <2>2. CASE x # k
        <3>1. PICK i \in 1..n : x = s[i]
            BY <2>2 DEF Listed
        <3>2. 1 + i \in 1..(n + 1)
            BY <1>1
        <3> QED BY <1>4, <3>1, <3>2 DEF Listed
    <2> QED BY <2>1, <2>2
<1> QED BY <1>4, <1>7, <1>8, <1>9 DEF t

LEMMA ForgetAgrees ==
    ASSUME NEW c, NEW s, Agree(c, s), NEW K
    PROVE  /\ Agree(Erased(K, c), Removed(K, s)) /\ DOMAIN Erased(K, c) \subseteq DOMAIN c
           /\ Entries(Erased(K, c), Removed(K, s)) = RestOf(Entries(c, s), K)
<1>1. /\ Listing(Removed(K, s)) /\ Once(Removed(K, s))
      /\ Listed(Removed(K, s)) = Listed(s) \ K
    BY RemovedIs DEF Agree
<1>2. DOMAIN Erased(K, c) = DOMAIN c \ K /\ \A k \in DOMAIN c \ K : Erased(K, c)[k] = c[k]
    BY DEF Erased
<1>5. Erased(K, c) = [k \in DOMAIN Erased(K, c) |-> Erased(K, c)[k]]
    BY DEF Erased
<1>3. Entries(Erased(K, c), Removed(K, s)) = Entries(c, Removed(K, s))
    <2>1. \A k \in Listed(Removed(K, s)) : Erased(K, c)[k].result = c[k].result
        BY <1>1, <1>2 DEF Agree
    <2> QED BY <1>1, <2>1, SameEntries
<1>4. Entries(c, Removed(K, s)) = RestOf(Entries(c, s), K)
    BY EntriesRemoved DEF Agree
<1>6. Agree(Erased(K, c), Removed(K, s))
    <2> DEFINE d == Erased(K, c)
               r == Removed(K, s)
    <2> HIDE DEF d, r
    <2>1. Listing(r) /\ Once(r) /\ DOMAIN d = Listed(r)
        BY <1>1, <1>2 DEF d, r, Agree
    <2>2. d = [k \in DOMAIN d |-> d[k]]
        BY <1>5 DEF d
    <2> QED BY <2>1, <2>2 DEF Agree, d, r
<1> QED BY <1>2, <1>3, <1>4, <1>6

(* As many keys in the map as in the list. *)
LEMMA AsMany ==
    ASSUME NEW c, NEW s, Agree(c, s)
    PROVE  Cardinality(DOMAIN c) = Len(s)
<1> DEFINE n == Len(s)
           S == 1..n
           T == DOMAIN c
           f == [i \in S |-> s[i]]
<1>1. n \in Nat /\ 1 \in Int /\ n \in Int
    BY ListingIs DEF Agree
<1>2. IsFiniteSet(S) /\ Cardinality(S) = n
    <2> HIDE DEF n
    <2>1. IsFiniteSet(1..n) /\ Cardinality(1..n) = IF 1 > n THEN 0 ELSE n - 1 + 1
        BY <1>1, FS_Interval
    <2>2. (IF 1 > n THEN 0 ELSE n - 1 + 1) = n
        BY <1>1
    <2> QED BY <2>1, <2>2
<1>3. f \in Bijection(S, T)
    <2>1. f \in [S -> T] /\ \A y \in T : \E i \in S : f[i] = y
        BY DEF Agree, Listed
    <2>2. \A i, j \in S : f[i] = f[j] => i = j
        BY DEF Agree, Once
    <2> HIDE DEF f, S, T
    <2> QED BY <2>1, <2>2 DEF Bijection, Injection, Surjection, IsInjective
<1>4. ExistsBijection(S, T)
    BY <1>3 DEF ExistsBijection
<1> HIDE DEF S, T
<1>5. Cardinality(T) = Cardinality(S)
    BY <1>2, <1>4, FS_Bijection
<1> QED BY <1>2, <1>5 DEF T

Over(c, n) == IF Cardinality(DOMAIN c) > n THEN Cardinality(DOMAIN c) - n ELSE 0
Victims(c, s, n) == ToSet(SubSeq(s, Len(s) - Over(c, n) + 1, Len(s)))
LEMMA EvictAgrees ==
    ASSUME NEW c, NEW s, Agree(c, s), NEW n \in Nat
    PROVE  LET d == Erased(Victims(c, s, n), c)
               t == SubSeq(s, 1, Len(s) - Over(c, n))
           IN  /\ Agree(d, t) /\ DOMAIN d \subseteq DOMAIN c
               /\ Entries(d, t) = IF Len(Entries(c, s)) > n THEN SubSeq(Entries(c, s), 1, n)
                                                            ELSE Entries(c, s)
<1> DEFINE V == Victims(c, s, n)
           m == Len(s)
           o == Over(c, n)
           l == m - o
           u == SubSeq(s, m - o + 1, m)
           t == SubSeq(s, 1, l)
           d == Erased(V, c)
<1>1. m \in Nat /\ Cardinality(DOMAIN c) = m /\ Listing(s)
    BY ListingIs, AsMany DEF Agree
<1>2. o = (IF m > n THEN m - n ELSE 0) /\ o \in Nat /\ l \in Nat /\ l <= m
    BY <1>1 DEF Over
<1> HIDE DEF o, m
<1>3. l = (IF m > n THEN n ELSE m) /\ l + 1 \in Nat /\ l - 1 + 1 = l /\ m - (l + 1) + 1 = m - l
    BY <1>1, <1>2
<1>4. l \in Nat /\ l <= m
    BY <1>2
<1>5. V = ToSet(u)
    BY DEF Victims, o, m
<1> HIDE DEF l, V, t, d
<1>6. Listing(u) /\ Len(u) = m - l /\ \A i \in 1..(m - l) : u[i] = s[l + 1 + i - 1]
    <2>1. m - o + 1 = l + 1
        BY DEF l
    <2>2. u = SubSeq(s, l + 1, m)
        BY <2>1
    <2> HIDE DEF u
    <2>3. 1 <= l + 1 /\ l + 1 <= m + 1 /\ m <= m
        BY <1>1, <1>4
    <2>4. /\ Listing(SubSeq(s, l + 1, m)) /\ Len(SubSeq(s, l + 1, m)) = m - (l + 1) + 1
          /\ \A i \in 1..(m - (l + 1) + 1) : SubSeq(s, l + 1, m)[i] = s[l + 1 + i - 1]
        <3> DEFINE a == l + 1
        <3>1. m = Len(s)
            BY DEF m
        <3>2. a \in Nat /\ 1 <= a /\ a <= m + 1
            BY <1>3, <2>3
        <3> HIDE DEF a
        <3>3. /\ Listing(SubSeq(s, a, m)) /\ Len(SubSeq(s, a, m)) = m - a + 1
              /\ \A i \in 1..(m - a + 1) : SubSeq(s, a, m)[i] = s[a + i - 1]
            BY <1>1, <2>3, <3>1, <3>2, Cuts
        <3> QED BY <3>3 DEF a
    <2> QED BY <1>3, <2>2, <2>4
<1> HIDE DEF u
<1>7. V = {s[i] : i \in (l + 1)..m}
    <2>1. ToSet(u) = {u[i] : i \in 1..(m - l)}
        BY <1>6, ListingIs DEF ToSet
    <2>2. ASSUME NEW i \in 1..(m - l) PROVE u[i] \in {s[j] : j \in (l + 1)..m}
        <3>1. l + 1 + i - 1 \in (l + 1)..m
            BY <1>1, <1>4
        <3> QED BY <1>6, <3>1
    <2>3. ASSUME NEW j \in (l + 1)..m PROVE \E i \in 1..(m - l) : u[i] = s[j]
        <3>1. j - l \in 1..(m - l) /\ l + 1 + (j - l) - 1 = j
            BY <1>1, <1>4
        <3> QED BY <1>6, <3>1
    <2> QED BY <1>5, <2>1, <2>2, <2>3
<1>8. Listing(t) /\ Len(t) = l /\ \A i \in 1..l : t[i] = s[i]
    <2>1. 1 <= l + 1 /\ 1 \in Nat /\ \A i \in 1..l : 1 + i - 1 = i
        BY <1>4
    <2>2. /\ Listing(SubSeq(s, 1, l)) /\ Len(SubSeq(s, 1, l)) = l - 1 + 1
          /\ \A i \in 1..(l - 1 + 1) : SubSeq(s, 1, l)[i] = s[1 + i - 1]
        BY <1>1, <1>4, <2>1, Cuts DEF m
    <2> QED BY <1>3, <2>1, <2>2 DEF t
<1>9. \A i \in 1..l : i \in 1..m
    BY <1>1, <1>4
<1>10. Once(t)
    BY <1>8, <1>9 DEF Once, Agree, m
<1>11. Listed(t) = Listed(s) \ V
    <2>1. ASSUME NEW x \in Listed(t) PROVE x \in Listed(s) \ V
        <3>1. PICK i \in 1..l : x = s[i]
            BY <1>8, <2>1 DEF Listed
        <3>2. ASSUME NEW j \in (l + 1)..m, s[j] = x PROVE FALSE
            <4>1. j \in 1..m /\ i \in 1..m /\ i # j
                BY <1>1, <1>4
            <4> QED BY <3>1, <3>2, <4>1 DEF Agree, Once, m
        <3> QED BY <1>7, <1>9, <3>1, <3>2 DEF Listed, m
    <2>2. ASSUME NEW x \in Listed(s) \ V PROVE x \in Listed(t)
        <3>1. PICK i \in 1..m : x = s[i]
            BY <2>2 DEF Listed, m
        <3>2. i \notin (l + 1)..m
            BY <1>7, <2>2, <3>1
        <3>3. i \in 1..l
            BY <1>1, <1>4, <3>2
        <3> QED BY <1>8, <3>1, <3>3 DEF Listed
    <2> QED BY <2>1, <2>2
<1>12. DOMAIN d = DOMAIN c \ V /\ \A k \in DOMAIN c \ V : d[k] = c[k]
    BY DEF d, Erased
<1>17. d = [k \in DOMAIN d |-> d[k]]
    BY DEF d, Erased
<1>18. DOMAIN c = Listed(s)
    BY DEF Agree
<1>19. DOMAIN d = Listed(t)
    BY <1>11, <1>12, <1>18
<1>13. Agree(d, t)
    BY <1>8, <1>10, <1>17, <1>19 DEF Agree
<1>14. Entries(d, t) = Entries(c, t)
    <2>1. \A k \in Listed(t) : d[k].result = c[k].result
        BY <1>11, <1>12 DEF Agree
    <2> QED BY <1>8, <2>1, SameEntries
<1>15. Entries(c, t) = SubSeq(Entries(c, s), 1, l)
    BY <1>1, <1>4, EntriesCut DEF t, m
<1>16. Entries(c, t) = IF Len(Entries(c, s)) > n THEN SubSeq(Entries(c, s), 1, n) ELSE Entries(c, s)
    <2>1. Len(Entries(c, s)) = m
        BY <1>1, EntriesIs DEF m
    <2>2. CASE m > n
        BY <1>3, <1>15, <2>1, <2>2
    <2>3. CASE ~(m > n)
        <3>1. t = s
            BY <1>1, <1>3, <1>8, <2>3, SameListing DEF m
        <3> QED BY <2>1, <2>3, <3>1
    <2> QED BY <2>2, <2>3
<1> QED BY <1>12, <1>13, <1>14, <1>16 DEF d, t, V, l, o, m

(* A key used or put comes to the front. *)
ResultOf(v) == v.result
FirstUsed(k, r, e) == <<[key |-> k, result |-> r]>> \o RestOf(e, {k})
LEMMA UseAgrees ==
    ASSUME NEW c, NEW s, Agree(c, s), NEW k, NEW v
    PROVE  /\ Agree(Assoc(c, k, v), <<k>> \o Removed({k}, s)) /\ DOMAIN Assoc(c, k, v) = DOMAIN c \cup {k}
           /\ Entries(Assoc(c, k, v), <<k>> \o Removed({k}, s)) = FirstUsed(k, ResultOf(v), Entries(c, s))
<1> DEFINE d == Assoc(c, k, v)
           q == Removed({k}, s)
           t == <<k>> \o q
<1>1. Listing(q) /\ Once(q) /\ Listed(q) = Listed(s) \ {k}
    BY RemovedIs DEF Agree
<1>2. DOMAIN d = DOMAIN c \cup {k} /\ d[k] = v /\ \A x \in DOMAIN c : x # k => d[x] = c[x]
    BY DEF Assoc
<1>8. d = [x \in DOMAIN d |-> d[x]]
    BY DEF Assoc
<1>9. DOMAIN c = Listed(s)
    BY DEF Agree
<1> HIDE DEF d, q
<1>3. Listing(t) /\ Once(t) /\ Listed(t) = Listed(q) \cup {k}
    BY <1>1, FrontAgrees
<1>4. Entries(d, t) = <<[key |-> k, result |-> d[k].result]>> \o Entries(d, q)
    BY <1>1, EntriesFront
<1>5. Entries(d, q) = Entries(c, q)
    <2>1. \A x \in Listed(q) : d[x].result = c[x].result
        BY <1>1, <1>2, <1>9
    <2> QED BY <1>1, <2>1, SameEntries
<1>6. Entries(c, q) = RestOf(Entries(c, s), {k})
    BY EntriesRemoved DEF Agree, q
<1> HIDE DEF t
<1>10. DOMAIN d = Listed(t)
    BY <1>1, <1>2, <1>3, <1>9
<1>7. Agree(d, t)
    BY <1>3, <1>8, <1>10 DEF Agree
<1> QED BY <1>2, <1>4, <1>5, <1>6, <1>7 DEF d, q, t, FirstUsed, ResultOf

LEMMA KeptAgrees ==
    ASSUME NEW c, NEW s, Agree(c, s), NEW k, k \in DOMAIN c
    PROVE  /\ Agree(c, <<k>> \o Removed({k}, s))
           /\ Entries(c, <<k>> \o Removed({k}, s)) = FirstUsed(k, c[k].result, Entries(c, s))
<1>1. Assoc(c, k, c[k]) = c
    BY DEF Assoc, Agree
<1> DEFINE v == c[k]
<1> HIDE DEF v
<1>2. /\ Agree(Assoc(c, k, v), <<k>> \o Removed({k}, s))
      /\ Entries(Assoc(c, k, v), <<k>> \o Removed({k}, s)) = FirstUsed(k, ResultOf(v), Entries(c, s))
    BY UseAgrees
<1> QED BY <1>1, <1>2 DEF v, ResultOf

-------------------------------------------------------------------------------
(* Every call keeps the agreement and is a call of the promised cache.       *)
LEMMA CacheStarts == CInit => CacheInv /\ Promise!LInit
<1> SUFFICES ASSUME CInit PROVE CacheInv /\ Promise!LInit
    OBVIOUS
<1>1. cache = <<>> /\ lru = <<>> /\ limit \in Limits /\ told = Miss
    BY DEF CInit
<1>2. DOMAIN cache = {} /\ DOMAIN lru = {} /\ Len(lru) = 0 /\ Listing(lru)
    BY <1>1, NothingListed
<1>3. Listed(lru) = {} /\ Once(lru)
    BY <1>2 DEF Listed, Once
<1>4. limit \in Nat
    BY <1>1, GrainAssumption
<1>5. Entries(cache, lru) = <<>>
    BY <1>2, EntriesIs, NothingListed
<1> QED BY <1>1, <1>2, <1>3, <1>4, <1>5 DEF CacheInv, Agree, Promise!LInit, Promise!Miss, Miss, Entries

LEMMA SameCardinality == \A S : Promise!Cardinality(S) = Cardinality(S)
BY DEF Promise!Cardinality, Cardinality

LEMMA RestIs == \A e, K : Promise!Without(e, K) = RestOf(e, K)
<1>1. \A S, p : Promise!Before(S, p) = Before(S, p)
    BY DEF Promise!Before, Before
<1>2. ASSUME NEW S PROVE Promise!InOrder(S) = InOrder(S)
    BY <1>1, SameCardinality DEF Promise!InOrder, InOrder
<1>3. ASSUME NEW s, NEW S PROVE Promise!At(s, S) = At(s, S)
    BY <1>2, SameCardinality DEF Promise!At, At
<1> QED BY <1>3 DEF Promise!Without, RestOf

LEMMA GetIsLookup ==
    ASSUME CacheInv, NEW ph \in Progs, NEW box \in Boxes, Get(ph, box)
    PROVE  CacheInv' /\ Promise!Lookup(KeyOf(ph, box))
<1> DEFINE k == KeyOf(ph, box)
           e == Entries(cache, lru)
<1>1. cache' = cache /\ limit' = limit
    BY DEF Get
<1>2. /\ Agree(cache, lru) /\ Listing(lru) /\ DOMAIN cache = Listed(lru) /\ limit \in Nat
      /\ DOMAIN cache \subseteq Keys /\ DOMAIN e = 1..Len(lru)
      /\ \A i \in 1..Len(lru) : e[i] = [key |-> lru[i], result |-> cache[lru[i]].result]
    BY ListingIs DEF CacheInv, Agree, Entries
<1> HIDE DEF k
<1>3. CASE k \in DOMAIN cache
    <2>1. told' = [found |-> TRUE, result |-> cache[k].result] /\ lru' = <<k>> \o Removed({k}, lru)
        BY <1>3 DEF Get, k
    <2>2. Agree(cache, lru)
        BY <1>2
    <2>3. /\ Agree(cache, <<k>> \o Removed({k}, lru))
          /\ Entries(cache, <<k>> \o Removed({k}, lru)) = FirstUsed(k, cache[k].result, e)
        BY <1>3, <2>2, KeptAgrees
    <2>4. CacheInv'
        BY <1>1, <1>2, <2>1, <2>3 DEF CacheInv
    <2>5. PICK i \in 1..Len(lru) : k = lru[i]
        BY <1>2, <1>3 DEF Listed
    <2> DEFINE x == [key |-> k, result |-> cache[k].result]
    <2>6. i \in DOMAIN e /\ e[i] = x /\ x.key = k /\ x.result = cache[k].result
        BY <1>2, <2>5
    <2>7. Entries(cache', lru') = <<x>> \o RestOf(e, {k})
        BY <1>1, <2>1, <2>3 DEF FirstUsed
    <2>8. /\ x \in {e[j] : j \in DOMAIN e} /\ x.key = k
          /\ told' = [found |-> TRUE, result |-> x.result]
          /\ Entries(cache', lru') = <<x>> \o Promise!Without(e, {k})
        BY <2>1, <2>6, <2>7, RestIs
    <2> HIDE DEF x
    <2>9. Promise!Lookup(k)
        BY <1>1, <2>8 DEF Promise!Lookup, Entries
    <2> QED BY <2>4, <2>9 DEF k
<1>4. CASE k \notin DOMAIN cache
    <2>1. told' = Miss /\ lru' = lru
        BY <1>4 DEF Get, k
    <2>2. \A i \in DOMAIN e : e[i].key # k
        BY <1>2, <1>4 DEF Listed
    <2>3. Entries(cache', lru') = e
        BY <1>1, <2>1
    <2>4. Promise!Lookup(k)
        BY <1>1, <2>1, <2>2, <2>3 DEF Promise!Lookup, Promise!Miss, Miss, Entries
    <2> QED BY <1>1, <2>1, <2>4 DEF CacheInv, k
<1> QED BY <1>3, <1>4

LEMMA EvictIs ==
    ASSUME NEW c, NEW s, Agree(c, s), NEW n \in Nat, Evict(c, s, n)
    PROVE  /\ Agree(cache', lru') /\ DOMAIN cache' \subseteq DOMAIN c
           /\ Entries(cache', lru') = Promise!Truncated(Entries(c, s), n)
<1>1. cache' = Erased(Victims(c, s, n), c) /\ lru' = SubSeq(s, 1, Len(s) - Over(c, n))
    BY DEF Evict, Victims, Over
<1> QED BY <1>1, EvictAgrees DEF Promise!Truncated

LEMMA PutIsInsert ==
    ASSUME CacheInv, NEW ph \in Progs, NEW box \in Boxes, NEW r \in Results, Put(ph, box, r)
    PROVE  CacheInv' /\ Promise!Insert(KeyOf(ph, box), r)
<1> DEFINE k == KeyOf(ph, box)
           e == Entries(cache, lru)
           slot == [result |-> r, prog |-> ph, syms |-> DOMAIN box]
           c == Assoc(cache, k, slot)
           s == <<k>> \o Removed({k}, lru)
<1>1. Agree(cache, lru) /\ Listing(lru) /\ limit \in Nat /\ DOMAIN cache \subseteq Keys /\ k \in Keys
    BY DEF CacheInv, Agree, Keys
<1>2. Refreshed(k) = s
    <2>1. ASSUME k \notin DOMAIN cache PROVE Removed({k}, lru) = lru
        <3>1. \A i \in 1..Len(lru) : lru[i] \notin {k}
            BY <1>1, <2>1 DEF Agree, Listed
        <3> QED BY <1>1, <3>1, RemovedNothing
    <2> QED BY <2>1 DEF Refreshed
<1>3. Evict(c, s, limit) /\ told' = Miss /\ limit' = limit
    BY <1>2 DEF Put
<1>4. ResultOf(slot) = r
    BY DEF ResultOf
<1> HIDE DEF k, slot
<1>5. /\ Agree(c, s) /\ DOMAIN c = DOMAIN cache \cup {k}
      /\ Entries(c, s) = FirstUsed(k, r, Entries(cache, lru))
    <2>1. Agree(cache, lru)
        BY <1>1
    <2> QED BY <1>4, <2>1, UseAgrees
<1> HIDE DEF c, s
<1>6. /\ Agree(cache', lru') /\ DOMAIN cache' \subseteq DOMAIN c
      /\ Entries(cache', lru') = Promise!Truncated(Entries(c, s), limit)
    BY <1>1, <1>3, <1>5, EvictIs
<1>7. CacheInv'
    BY <1>1, <1>3, <1>5, <1>6 DEF CacheInv
<1>8. Entries(cache', lru') = Promise!Truncated(<<[key |-> k, result |-> r]>> \o Promise!Without(e, {k}), limit)
    BY <1>5, <1>6, RestIs DEF FirstUsed
<1>9. Promise!Insert(k, r)
    BY <1>3, <1>8 DEF Promise!Insert, Promise!Miss, Miss, Entries
<1> QED BY <1>7, <1>9 DEF k

LEMMA ForgetIsDrop ==
    ASSUME CacheInv, NEW K \in SUBSET Keys, Forget(K)
    PROVE  CacheInv' /\ Promise!Drop(K)
<1> DEFINE e == Entries(cache, lru)
<1>1. Agree(cache, lru) /\ limit \in Nat /\ DOMAIN cache \subseteq Keys
    BY DEF CacheInv
<1>2. cache' = Erased(K, cache) /\ lru' = Removed(K, lru) /\ told' = Miss /\ limit' = limit
    BY DEF Forget
<1>3. /\ Agree(cache', lru') /\ DOMAIN cache' \subseteq DOMAIN cache
      /\ Entries(cache', lru') = Promise!Without(e, K)
    BY <1>1, <1>2, ForgetAgrees, RestIs
<1>4. CacheInv'
    BY <1>1, <1>2, <1>3 DEF CacheInv
<1>5. Promise!Drop(K)
    BY <1>2, <1>3 DEF Promise!Drop, Promise!Miss, Miss, Entries
<1> QED BY <1>4, <1>5

LEMMA SetLimitIsRebound ==
    ASSUME CacheInv, NEW n \in Limits, SetLimit(n)
    PROVE  CacheInv' /\ Promise!Rebound(n)
<1>1. Agree(cache, lru) /\ n \in Nat /\ DOMAIN cache \subseteq Keys
    BY GrainAssumption DEF CacheInv
<1>2. Evict(cache, lru, n) /\ told' = Miss /\ limit' = n
    BY DEF SetLimit
<1>3. /\ Agree(cache', lru') /\ DOMAIN cache' \subseteq DOMAIN cache
      /\ Entries(cache', lru') = Promise!Truncated(Entries(cache, lru), n)
    BY <1>1, <1>2, EvictIs
<1>4. CacheInv'
    BY <1>1, <1>2, <1>3 DEF CacheInv
<1>5. Promise!Rebound(n)
    BY <1>2, <1>3 DEF Promise!Rebound, Promise!Miss, Miss, Entries
<1> QED BY <1>4, <1>5

LEMMA SizeIsCount ==
    ASSUME CacheInv, Size
    PROVE  CacheInv' /\ Promise!Count
<1>1. cache' = cache /\ lru' = lru /\ limit' = limit
      /\ told' = [found |-> TRUE, result |-> Cardinality(DOMAIN cache)]
    BY DEF Size
<1>2. Cardinality(DOMAIN cache) = Len(lru) /\ Len(Entries(cache, lru)) = Len(lru)
    BY AsMany, EntriesIs DEF CacheInv, Agree
<1>3. told' = [found |-> TRUE, result |-> Len(Entries(cache, lru))]
    BY <1>1, <1>2
<1>4. CacheInv'
    BY <1>1 DEF CacheInv
<1>5. Promise!Count
    BY <1>1, <1>3 DEF Promise!Count, Entries
<1> QED BY <1>4, <1>5

LEMMA CacheStep == CacheInv /\ [CNext]_ecvars => CacheInv' /\ [Promise!LNext]_(Promise!lvars)
<1> SUFFICES ASSUME CacheInv, [CNext]_ecvars PROVE CacheInv' /\ [Promise!LNext]_(Promise!lvars)
    OBVIOUS
<1>1. ASSUME NEW ph \in Progs, NEW box \in Boxes, Get(ph, box) PROVE CacheInv' /\ Promise!LNext
    <2>1. CacheInv' /\ Promise!Lookup(KeyOf(ph, box))
        BY <1>1, GetIsLookup
    <2> QED BY <2>1 DEF Promise!LNext
<1>2. ASSUME NEW ph \in Progs, NEW box \in Boxes, NEW r \in Results, Put(ph, box, r)
      PROVE  CacheInv' /\ Promise!LNext
    <2>1. CacheInv' /\ Promise!Insert(KeyOf(ph, box), r)
        BY <1>2, PutIsInsert
    <2> QED BY <2>1 DEF Promise!LNext
<1>3. ASSUME NEW K, K \subseteq DOMAIN cache, Forget(K) PROVE CacheInv' /\ Promise!LNext
    <2>1. K \in SUBSET Keys
        BY <1>3 DEF CacheInv
    <2>2. CacheInv' /\ Promise!Drop(K)
        BY <1>3, <2>1, ForgetIsDrop
    <2> QED BY <2>1, <2>2 DEF Promise!LNext, Keys
<1>4. ASSUME NEW n \in Limits, SetLimit(n) PROVE CacheInv' /\ Promise!LNext
    <2>1. CacheInv' /\ Promise!Rebound(n)
        BY <1>4, SetLimitIsRebound
    <2> QED BY <2>1 DEF Promise!LNext
<1>5. ASSUME Size PROVE CacheInv' /\ Promise!LNext
    <2>1. CacheInv' /\ Promise!Count
        BY <1>5, SizeIsCount
    <2> QED BY <2>1 DEF Promise!LNext
<1>6. ASSUME UNCHANGED ecvars PROVE CacheInv' /\ UNCHANGED Promise!lvars
    BY <1>6 DEF ecvars, CacheInv, Promise!lvars
<1>7. ASSUME NEW ph \in Progs, Invalidate(ph) PROVE CacheInv' /\ Promise!LNext
    BY <1>3, <1>7 DEF Invalidate
<1>8. ASSUME NEW sym, InvalidateBySymbol(sym) PROVE CacheInv' /\ Promise!LNext
    BY <1>3, <1>8 DEF InvalidateBySymbol
<1> QED BY <1>1, <1>2, <1>4, <1>5, <1>6, <1>7, <1>8 DEF CNext

(* The map and the list of incremental.cpp are one cache of bounded size: a  *)
(* lookup counts as a use, what does not fit is what was used longest ago,   *)
(* an invalidation takes out of both what it takes out of one (:23-79).      *)
THEOREM CacheImplementsLruCache == CSpec => ImplementsLruCache
<1>1. CInit => CacheInv /\ Promise!LInit
    BY CacheStarts
<1>2. CacheInv /\ [CNext]_ecvars => CacheInv' /\ [Promise!LNext]_(Promise!lvars)
    BY CacheStep
<1> QED BY <1>1, <1>2, PTL DEF CSpec, ImplementsLruCache, Promise!LSpec

-------------------------------------------------------------------------------
(* The invariant.  A thread has a connection exactly while it handles one;  *)
(* no connection is in two places; whoever asked is somewhere or answered.  *)
HTypeOK ==
    /\ kind \in [Conns -> Kinds] /\ sent \in [Conns -> Nat] /\ left \in [Conns -> BOOLEAN]
    /\ backlog \in Seq(Conns) /\ queue \in Seq(Conns)
    /\ main \in [next : {"accept", "push", "notify"}, conn : Conns \cup {None}]
    /\ at \in [Workers -> {"check", "wait", "head", "body", "reply"}]
    /\ serving \in [Workers -> Conns \cup {None}]
    /\ replies \in [Conns -> Seq(Nat)] /\ up \in BOOLEAN
    /\ main.conn # None <=> main.next = "push"
    /\ \A w \in Workers : serving[w] # None <=> at[w] \in {"head", "body", "reply"}

OnceEach ==
    /\ \A i, j \in 1..Len(backlog) : backlog[i] = backlog[j] => i = j
    /\ \A i, j \in 1..Len(queue) : queue[i] = queue[j] => i = j
    /\ \A v, w \in Workers : (serving[v] = serving[w] /\ serving[v] # None) => v = w
    /\ \A c \in Conns : Len(replies[c]) <= 1
Apart ==
    /\ \A i \in 1..Len(backlog), j \in 1..Len(queue) : backlog[i] # queue[j]
    /\ \A i \in 1..Len(backlog) : backlog[i] # main.conn
    /\ \A i \in 1..Len(backlog), w \in Workers : backlog[i] # serving[w]
    /\ \A j \in 1..Len(queue) : queue[j] # main.conn
    /\ \A j \in 1..Len(queue), w \in Workers : queue[j] # serving[w]
    /\ \A w \in Workers : serving[w] # None => serving[w] # main.conn
Held(c) ==
    \/ \E i \in 1..Len(backlog) : backlog[i] = c
    \/ main.conn = c
    \/ \E j \in 1..Len(queue) : queue[j] = c
    \/ \E w \in Workers : serving[w] = c
NotAnswered == \A c \in Conns : Held(c) => replies[c] = <<>>
Kept == \A c \in Conns : Wants(c) => Held(c) \/ replies[c] # <<>>
HInv == HTypeOK /\ OnceEach /\ Apart /\ NotAnswered /\ Kept

(* Connected is where a connection is held. *)
LEMMA ConnectedIsHeld ==
    ASSUME HTypeOK, NEW c \in Conns
    PROVE  c \in Connected <=> Held(c)
<1>1. ToSet(backlog) = {backlog[i] : i \in 1..Len(backlog)}
    BY DEF HTypeOK, ToSet
<1>2. ToSet(queue) = {queue[i] : i \in 1..Len(queue)}
    BY DEF HTypeOK, ToSet
<1> QED
    BY <1>1, <1>2 DEF Connected, Held

LEMMA InitHInv == HInit => HInv
<1> SUFFICES ASSUME HInit PROVE HInv
    OBVIOUS
<1> USE DEF HInit, Quiet
<1>1. HTypeOK
    BY ClientsAssumption DEF HTypeOK, None
<1>2. OnceEach /\ Apart
    BY DEF OnceEach, Apart
<1>3. NotAnswered
    BY DEF NotAnswered
<1>4. Kept
    BY DEF Kept, Wants
<1> QED
    BY <1>1, <1>2, <1>3, <1>4 DEF HInv

-------------------------------------------------------------------------------
(* One step at a time. *)
LEMMA ConnectKeeps ==
    ASSUME HInv, NEW c \in Conns, Connect(c)
    PROVE  HInv'
<1> USE DEF HInv
<1>1. ~Held(c)
    BY ConnectedIsHeld DEF Connect
<1>2. /\ Len(backlog') = Len(backlog) + 1 /\ backlog'[Len(backlog) + 1] = c
      /\ \A i \in 1..Len(backlog) : backlog'[i] = backlog[i]
      /\ Len(backlog) \in Nat
    BY DEF HTypeOK, Connect
<1>3. \A i \in 1..Len(backlog') : i = Len(backlog) + 1 \/ i \in 1..Len(backlog)
    BY <1>2
<1>4. UNCHANGED <<kind, sent, main, queue, serving, replies, up>>
    BY DEF Connect
<1>5. /\ \A i \in 1..Len(backlog) : backlog[i] # c
      /\ \A j \in 1..Len(queue) : queue[j] # c
      /\ main.conn # c /\ \A w \in Workers : serving[w] # c
      /\ replies[c] = <<>>
    BY <1>1 DEF Held, Connect
<1>6. HTypeOK'
    BY DEF HTypeOK, Connect
<1>7. OnceEach'
    <2>1. ASSUME NEW i \in 1..Len(backlog'), NEW j \in 1..Len(backlog'), backlog'[i] = backlog'[j]
          PROVE  i = j
        BY <2>1, <1>2, <1>3, <1>5 DEF OnceEach
    <2> QED
        BY <2>1, <1>4 DEF OnceEach
<1>8. Apart'
    <2>1. ASSUME NEW i \in 1..Len(backlog')
          PROVE  /\ \A j \in 1..Len(queue) : backlog'[i] # queue[j]
                 /\ backlog'[i] # main.conn
                 /\ \A w \in Workers : backlog'[i] # serving[w]
        BY <1>2, <1>3, <1>5 DEF Apart
    <2> QED
        BY <2>1, <1>4 DEF Apart
<1>9. \A d \in Conns : Held(d)' <=> Held(d) \/ d = c
    <2>1. \A d \in Conns : (\E i \in 1..Len(backlog') : backlog'[i] = d)
                               <=> d = c \/ \E i \in 1..Len(backlog) : backlog[i] = d
        BY <1>2, <1>3
    <2> QED
        BY <2>1, <1>4 DEF Held
<1> QED
    <2>1. NotAnswered' /\ Kept'
        BY <1>4, <1>5, <1>9 DEF NotAnswered, Kept, Wants
    <2> QED
        BY <1>6, <1>7, <1>8, <2>1

LEMMA ClientKeeps ==
    ASSUME HInv, NEW c \in Conns, ClientStep(c)
    PROVE  HInv'
<1> USE DEF HInv
<1>1. CASE Send(c)
    <2>1. Held(c)
        BY <1>1, ConnectedIsHeld DEF Send
    <2>2. HTypeOK'
        BY <1>1 DEF HTypeOK, Send
    <2>3. OnceEach' /\ Apart' /\ NotAnswered'
        BY <1>1 DEF OnceEach, Apart, NotAnswered, Held, Send
    <2>4. Kept'
        BY <1>1, <2>1 DEF HTypeOK, Kept, Wants, Held, Send
    <2> QED
        BY <2>2, <2>3, <2>4
<1>2. CASE Leave(c)
    <2>1. UNCHANGED <<kind, sent, backlog, main, queue, at, serving, replies, up>>
        BY <1>2 DEF Leave
    <2>2. HTypeOK'
        BY <1>2, <2>1 DEF HTypeOK, Leave
    <2>3. OnceEach' /\ Apart'
        BY <2>1 DEF OnceEach, Apart
    <2>4. NotAnswered' /\ Kept'
        BY <2>1 DEF NotAnswered, Kept, Wants, Held
    <2> QED
        BY <2>2, <2>3, <2>4
<1> QED
    BY <1>1, <1>2 DEF ClientStep

LEMMA AcceptKeeps ==
    ASSUME HInv, Accept
    PROVE  HInv'
<1> USE DEF HInv
<1>1. /\ Len(backlog) \in Nat /\ Len(backlog') = Len(backlog) - 1 /\ main'.conn = backlog[1]
      /\ \A i \in 1..Len(backlog') : backlog'[i] = backlog[i + 1]
      /\ backlog[1] \in Conns /\ Len(backlog) > 0
    BY DEF HTypeOK, Accept
<1>2. main.conn = None
    BY DEF HTypeOK, Accept
<1>3. HTypeOK'
    BY ClientsAssumption DEF HTypeOK, Accept, None
<1>4. OnceEach'
    BY <1>1 DEF OnceEach, Accept
<1>5. Apart'
    BY <1>1, ClientsAssumption, SMTT(30) DEF HTypeOK, OnceEach, Apart, Accept, None
<1>6. \A c \in Conns : Held(c)' <=> Held(c)
    <2> SUFFICES ASSUME NEW c \in Conns PROVE Held(c)' <=> Held(c)
        OBVIOUS
    <2>1. (\E i \in 1..Len(backlog) : backlog[i] = c)
              <=> (backlog[1] = c \/ \E i \in 1..Len(backlog') : backlog'[i] = c)
        <3>1. ASSUME NEW i \in 1..Len(backlog), backlog[i] = c
              PROVE  backlog[1] = c \/ \E j \in 1..Len(backlog') : backlog'[j] = c
            <4>1. CASE i = 1
                BY <4>1, <3>1
            <4>2. CASE i # 1
                <5>1. i - 1 \in 1..Len(backlog') /\ backlog'[i - 1] = backlog[i]
                    BY <4>2, <1>1
                <5> QED
                    BY <5>1, <3>1
            <4> QED
                BY <4>1, <4>2
        <3>2. ASSUME NEW i \in 1..Len(backlog'), backlog'[i] = c
              PROVE  \E j \in 1..Len(backlog) : backlog[j] = c
            <4>1. i + 1 \in 1..Len(backlog) /\ backlog[i + 1] = c
                BY <3>2, <1>1
            <4> QED
                BY <4>1
        <3>3. 1 \in 1..Len(backlog)
            BY <1>1
        <3> QED
            BY <3>1, <3>2, <3>3
    <2>2. main.conn # c
        BY <1>2, ClientsAssumption DEF None
    <2> QED
        BY <1>1, <2>1, <2>2 DEF Held, Accept
<1>7. NotAnswered' /\ Kept'
    BY <1>6 DEF NotAnswered, Kept, Wants, Accept
<1> QED
    BY <1>3, <1>4, <1>5, <1>7

LEMMA PushKeeps ==
    ASSUME HInv, Push
    PROVE  HInv'
<1> USE DEF HInv
<1>1. /\ Len(queue) \in Nat /\ Len(queue') = Len(queue) + 1 /\ queue'[Len(queue) + 1] = main.conn
      /\ \A j \in 1..Len(queue) : queue'[j] = queue[j]
      /\ main.conn \in Conns /\ main'.conn = None
    BY DEF HTypeOK, Push
<1>2. HTypeOK'
    BY <1>1 DEF HTypeOK, Push
<1>3. OnceEach'
    BY <1>1 DEF OnceEach, Apart, Push
<1>4. Apart'
    <2>0. UNCHANGED <<backlog, serving>>
        BY DEF Push
    <2>1. None \notin Conns
        BY ClientsAssumption DEF None
    <2>2. \A j \in 1..Len(queue') : queue'[j] = main.conn \/ \E i \in 1..Len(queue) : queue'[j] = queue[i]
        BY <1>1
    <2>3. backlog \in Seq(Conns) /\ queue' \in Seq(Conns)
        BY <1>2, <2>0 DEF HTypeOK
    <2>4. /\ \A i \in 1..Len(backlog), j \in 1..Len(queue') : backlog[i] # queue'[j]
          /\ \A i \in 1..Len(backlog), w \in Workers : backlog[i] # serving[w]
        BY <2>2 DEF Apart
    <2>5. /\ \A i \in 1..Len(backlog) : backlog[i] # None
          /\ \A j \in 1..Len(queue') : queue'[j] # None
        BY <2>1, <2>3
    <2>6. ASSUME NEW j \in 1..Len(queue'), NEW w \in Workers PROVE queue'[j] # serving[w]
        <3>1. CASE queue'[j] = main.conn
            <4>1. main.conn # None
                BY <1>1, <2>1
            <4>2. serving[w] # None => serving[w] # main.conn
                BY DEF Apart
            <4> QED BY <3>1, <4>1, <4>2
        <3>2. CASE \E i \in 1..Len(queue) : queue'[j] = queue[i]
            BY <3>2 DEF Apart
        <3> QED BY <2>2, <3>1, <3>2
    <2> QED
        BY <1>1, <2>0, <2>4, <2>5, <2>6 DEF Apart
<1>5. \A c \in Conns : Held(c)' <=> Held(c)
    BY <1>1, ClientsAssumption DEF Held, Push, None
<1>6. NotAnswered' /\ Kept'
    BY <1>5 DEF NotAnswered, Kept, Wants, Push
<1> QED
    BY <1>2, <1>3, <1>4, <1>6

(* Waking a thread moves no connection. *)
LEMMA WakingKeeps ==
    ASSUME HInv, NotifyOne \/ \E w \in Workers : Spurious(w)
    PROVE  HInv'
<1> USE DEF HInv
<1>1. at' = at \/ \E w \in Workers : at[w] = "wait" /\ at' = [at EXCEPT ![w] = "check"]
    BY DEF NotifyOne, Spurious, Waiting, Wake
<1>2. /\ main'.conn = main.conn
      /\ main' \in [next : {"accept", "push", "notify"}, conn : Conns \cup {None}]
      /\ main'.conn # None <=> main'.next = "push"
    BY DEF HTypeOK, NotifyOne, Spurious
<1>3. UNCHANGED <<kind, sent, left, backlog, queue, serving, replies, up>>
    BY DEF NotifyOne, Spurious
<1>4. HTypeOK'
    BY <1>1, <1>2, <1>3 DEF HTypeOK
<1>5. OnceEach' /\ Apart' /\ NotAnswered' /\ Kept'
    BY <1>2, <1>3 DEF OnceEach, Apart, NotAnswered, Kept, Wants, Held
<1> QED
    BY <1>4, <1>5

LEMMA TakeKeeps ==
    ASSUME HInv, NEW w \in Workers, Take(w)
    PROVE  HInv'
<1> USE DEF HInv
<1>1. CASE queue = <<>>
    <2>1. /\ at[w] = "check" /\ at' = [at EXCEPT ![w] = "wait"]
          /\ UNCHANGED <<kind, sent, left, backlog, main, queue, serving, replies, up>>
        BY <1>1 DEF Take
    <2>2. HTypeOK'
        BY <2>1 DEF HTypeOK
    <2>3. OnceEach' /\ Apart' /\ NotAnswered' /\ Kept'
        BY <2>1 DEF OnceEach, Apart, NotAnswered, Kept, Wants, Held
    <2> QED
        BY <2>2, <2>3
<1>2. CASE queue # <<>>
    <2>1. /\ at[w] = "check" /\ at' = [at EXCEPT ![w] = "head"]
          /\ serving' = [serving EXCEPT ![w] = queue[1]]
          /\ UNCHANGED <<kind, sent, left, backlog, main, replies, up>>
        BY <1>2 DEF Take
    <2>2. /\ Len(queue) \in Nat /\ Len(queue') = Len(queue) - 1 /\ Len(queue) > 0
          /\ \A j \in 1..Len(queue') : queue'[j] = queue[j + 1]
          /\ queue[1] \in Conns /\ queue' \in Seq(Conns)
        <3>1. queue' = Tail(queue) /\ queue \in Seq(Conns)
            BY <1>2 DEF HTypeOK, Take, Rest
        <3> QED
            BY <1>2, <3>1
    <2>3. serving[w] = None /\ serving'[w] = queue[1]
        BY <2>1 DEF HTypeOK
    <2>4. HTypeOK'
        BY <2>1, <2>2, ClientsAssumption DEF HTypeOK, None
    <2>5. \A j \in 1..Len(queue') : j + 1 \in 1..Len(queue) /\ j + 1 # 1
        BY <2>2
    <2>6. 1 \in 1..Len(queue)
        BY <2>2
    <2>7. \A v \in Workers : v # w => serving'[v] = serving[v]
        BY <2>1 DEF HTypeOK
    <2>8. OnceEach'
        <3>1. ASSUME NEW i \in 1..Len(queue'), NEW j \in 1..Len(queue'), queue'[i] = queue'[j]
              PROVE  i = j
            <4>1. i + 1 = j + 1
                BY <3>1, <2>2, <2>5, SMTT(30) DEF OnceEach
            <4> QED
                BY <4>1, <2>2
        <3>2. ASSUME NEW u \in Workers, NEW v \in Workers, serving'[u] = serving'[v], serving'[u] # None
              PROVE  u = v
            BY <3>2, <2>3, <2>6, <2>7 DEF OnceEach, Apart
        <3> QED
            BY <3>1, <3>2, <2>1 DEF OnceEach
    <2>9. Apart'
        <3>1. ASSUME NEW j \in 1..Len(queue')
              PROVE  /\ \A i \in 1..Len(backlog) : backlog[i] # queue'[j]
                     /\ queue'[j] # main.conn
                     /\ \A v \in Workers : queue'[j] # serving'[v]
            <4>1. queue'[j] = queue[j + 1] /\ queue[j + 1] # queue[1]
                BY <2>2, <2>5, <2>6 DEF OnceEach
            <4> QED
                BY <4>1, <2>3, <2>5, <2>7 DEF Apart
        <3>2. ASSUME NEW v \in Workers
              PROVE  /\ \A i \in 1..Len(backlog) : backlog[i] # serving'[v]
                     /\ serving'[v] # None => serving'[v] # main.conn
            BY <2>3, <2>6, <2>7 DEF Apart
        <3> QED
            BY <3>1, <3>2, <2>1 DEF Apart
    <2>10. \A c \in Conns : Held(c)' <=> Held(c)
        <3> SUFFICES ASSUME NEW c \in Conns PROVE Held(c)' <=> Held(c)
            OBVIOUS
        <3>1. (\E j \in 1..Len(queue) : queue[j] = c)
                  <=> queue[1] = c \/ \E j \in 1..Len(queue') : queue'[j] = c
            <4>1. ASSUME NEW j \in 1..Len(queue), queue[j] = c
                  PROVE  queue[1] = c \/ \E i \in 1..Len(queue') : queue'[i] = c
                <5>1. CASE j = 1
                    BY <5>1, <4>1
                <5>2. CASE j # 1
                    <6>1. j - 1 \in 1..Len(queue') /\ queue'[j - 1] = queue[j]
                        BY <5>2, <2>2
                    <6> QED
                        BY <6>1, <4>1
                <5> QED
                    BY <5>1, <5>2
            <4> QED
                BY <4>1, <2>2, <2>5, <2>6
        <3>2. (\E v \in Workers : serving'[v] = c) <=> queue[1] = c \/ \E v \in Workers : serving[v] = c
            <4>1. c # None
                BY ClientsAssumption DEF None
            <4> QED
                BY <4>1, <2>3, <2>7
        <3> QED
            BY <3>1, <3>2, <2>1 DEF Held
    <2>11. NotAnswered' /\ Kept'
        BY <2>1, <2>10 DEF NotAnswered, Kept, Wants
    <2> QED
        BY <2>4, <2>8, <2>9, <2>11
<1> QED
    BY <1>1, <1>2

(* A connection that is closed unanswered had asked for nothing. *)
LEMMA ReadHeadKeeps ==
    ASSUME HInv, NEW w \in Workers, ReadHead(w)
    PROVE  HInv'
<1> USE DEF HInv
<1>1. CASE /\ at[w] = "head" /\ at' \in {[at EXCEPT ![w] = "body"], [at EXCEPT ![w] = "reply"]}
           /\ UNCHANGED <<kind, sent, left, backlog, main, queue, serving, replies, up>>
    <2>1. HTypeOK'
        BY <1>1 DEF HTypeOK
    <2> QED
        BY <1>1, <2>1, SMTT(30) DEF OnceEach, Apart, NotAnswered, Kept, Wants, Held
<1>2. CASE at[w] = "head" /\ sent[serving[w]] = 0 /\ Close(w) /\ UNCHANGED replies
    <2>1. serving[w] \in Conns
        BY <1>2 DEF HTypeOK
    <2>2. /\ serving' = [serving EXCEPT ![w] = None] /\ at' = [at EXCEPT ![w] = "check"]
          /\ UNCHANGED <<kind, sent, left, backlog, main, queue, replies, up>>
        BY <1>2 DEF Close, AfterServing
    <2>3. HTypeOK'
        BY <2>2 DEF HTypeOK
    <2>4. \A v \in Workers : serving'[v] = IF v = w THEN None ELSE serving[v]
        BY <2>2 DEF HTypeOK
    <2>5. OnceEach' /\ Apart'
        BY <2>2, <2>4, ClientsAssumption, SMTT(30) DEF HTypeOK, OnceEach, Apart, None
    <2>6. \A c \in Conns : Held(c)' => Held(c)
        BY <2>2, <2>4, ClientsAssumption DEF Held, None
    <2>7. \A c \in Conns : Held(c) => Held(c)' \/ c = serving[w]
        BY <2>2, <2>4 DEF Held
    <2>8. NotAnswered' /\ Kept'
        BY <2>2, <2>6, <2>7, <1>2 DEF HTypeOK, NotAnswered, Kept, Wants
    <2> QED
        BY <2>3, <2>5, <2>8
<1>3. CASE up' = FALSE /\ UNCHANGED <<kind, sent, left, backlog, main, queue, at, serving, replies>>
    <2>1. HTypeOK'
        BY <1>3 DEF HTypeOK
    <2>2. OnceEach' /\ Apart'
        BY <1>3 DEF OnceEach, Apart
    <2>3. NotAnswered' /\ Kept'
        BY <1>3 DEF NotAnswered, Kept, Wants, Held
    <2> QED
        BY <2>1, <2>2, <2>3
<1> QED
    BY <1>1, <1>2, <1>3 DEF ReadHead

LEMMA ReadBodyKeeps ==
    ASSUME HInv, NEW w \in Workers, ReadBody(w)
    PROVE  HInv'
<1> USE DEF HInv
<1>1. HTypeOK'
    BY DEF HTypeOK, ReadBody
<1> QED
    BY <1>1 DEF OnceEach, Apart, NotAnswered, Kept, Wants, Held, ReadBody

(* The connection moves from its worker to the answered. *)
LEMMA ReplyKeeps ==
    ASSUME HInv, NEW w \in Workers, Reply(w)
    PROVE  HInv'
<1> USE DEF HInv
<1>0. serving[w] \in Conns
    BY DEF HTypeOK, Reply
<1> PICK c \in Conns : c = serving[w]
    BY <1>0
<1>1. replies[c] = <<>>
    BY DEF HTypeOK, NotAnswered, Held, Reply
<1>2. /\ serving' = [serving EXCEPT ![w] = None] /\ at' = [at EXCEPT ![w] = "check"]
      /\ UNCHANGED <<kind, sent, left, backlog, main, queue, up>>
    BY DEF Reply, Close, AfterServing
<1>3. replies' = [replies EXCEPT ![c] = <<sent[c]>>]
    BY <1>1 DEF HTypeOK, Reply
<1>4. HTypeOK'
    <2>1. <<sent[c]>> \in Seq(Nat)
        BY <1>1 DEF HTypeOK
    <2> QED
        BY <1>2, <1>3, <2>1 DEF HTypeOK, Reply
<1>5. \A v \in Workers : serving'[v] = IF v = w THEN None ELSE serving[v]
    BY <1>2 DEF HTypeOK
<1>6. \A d \in Conns : replies'[d] = IF d = c THEN <<sent[c]>> ELSE replies[d]
    BY <1>3 DEF HTypeOK
<1>7. OnceEach' /\ Apart'
    <2>1. \A d \in Conns : Len(replies'[d]) <= 1
        <3> SUFFICES ASSUME NEW d \in Conns PROVE Len(replies'[d]) <= 1
            OBVIOUS
        <3>1. Len(<<sent[c]>>) = 1
            OBVIOUS
        <3>2. CASE d = c
            <4>1. replies'[d] = <<sent[c]>>
                BY <3>2, <1>6
            <4>2. Len(replies'[d]) = 1
                BY <3>1, <4>1
            <4> QED
                BY <4>2
        <3>3. CASE d # c
            BY <3>3, <1>6 DEF OnceEach
        <3> QED
            BY <3>2, <3>3
    <2>2. OnceEach'
        <3>1. \A v \in Workers : serving'[v] # None => v # w /\ serving'[v] = serving[v]
            BY <1>5
        <3>2. ASSUME NEW u \in Workers, NEW v \in Workers, serving'[u] = serving'[v], serving'[u] # None
              PROVE  u = v
            BY <3>1, <3>2 DEF OnceEach
        <3> QED
            BY <1>2, <2>1, <3>2 DEF OnceEach
    <2>3. Apart'
        BY <1>2, <1>5, ClientsAssumption, SMTT(30) DEF HTypeOK, Apart, None
    <2> QED
        BY <2>2, <2>3
<1>8. ~Held(c)'
    <2>1. main.conn # c /\ \A v \in Workers : v # w => serving[v] # c
        BY ClientsAssumption DEF OnceEach, Apart, None
    <2>2. /\ \A i \in 1..Len(backlog) : backlog[i] # c
          /\ \A j \in 1..Len(queue) : queue[j] # c
        BY DEF Apart
    <2> QED
        BY <1>2, <1>5, <2>1, <2>2, ClientsAssumption DEF Held, None
<1>9. \A d \in Conns : d # c => (Held(d)' <=> Held(d))
    BY <1>2, <1>5, ClientsAssumption DEF Held, None
<1>10. <<sent[c]>> # <<>>
    OBVIOUS
<1>11. NotAnswered' /\ Kept'
    <2> QED
        BY <1>2, <1>6, <1>8, <1>9, <1>10 DEF NotAnswered, Kept, Wants
<1> QED
    BY <1>4, <1>7, <1>11

-------------------------------------------------------------------------------
LEMMA HStepKeeps == HInv /\ [HNext]_hvars => HInv'
<1> SUFFICES ASSUME HInv, [HNext]_hvars PROVE HInv'
    OBVIOUS
<1>1. CASE \E c \in Conns : Connect(c) \/ ClientStep(c)
    BY <1>1, ConnectKeeps, ClientKeeps
<1>2. CASE AcceptStep
    BY <1>2, AcceptKeeps, PushKeeps, WakingKeeps DEF AcceptStep
<1>3. CASE \E w \in Workers : WorkerStep(w) \/ Spurious(w)
    BY <1>3, TakeKeeps, ReadHeadKeeps, ReadBodyKeeps, ReplyKeeps, WakingKeeps DEF WorkerStep
<1>4. CASE UNCHANGED hvars
    BY <1>4 DEF hvars, HInv, HTypeOK, OnceEach, Apart, NotAnswered, Kept, Wants, Held
<1> QED
    BY <1>1, <1>2, <1>3, <1>4 DEF HNext

(* What is apart by the invariant has one slot at most. *)
LEMMA HInvGivesOnePlace == HInv => InOnePlace
<1> SUFFICES ASSUME HInv, NEW c \in Conns
             PROVE  (\A p, q \in Slots(c) : p = q) /\ (Wants(c) => Slots(c) # {})
    BY DEF InOnePlace
<1> USE DEF HInv
<1>1. c # None
    BY ClientsAssumption DEF None
<1>2. \A p \in Slots(c) :
        \/ \E i \in 1..Len(backlog) : p = <<"backlog", i>> /\ backlog[i] = c
        \/ p = <<"main", 1>> /\ main.conn = c
        \/ \E i \in 1..Len(queue) : p = <<"queue", i>> /\ queue[i] = c
        \/ \E w \in Workers : p = <<"worker", w>> /\ serving[w] = c
        \/ p = <<"answered", 1>> /\ replies[c] # <<>>
    <2>1. DOMAIN backlog = 1..Len(backlog) /\ DOMAIN queue = 1..Len(queue)
        BY DEF HTypeOK
    <2>2. \A i \in DOMAIN replies[c] : i = 1 /\ replies[c] # <<>>
        BY DEF HTypeOK, OnceEach
    <2> QED
        BY <2>1, <2>2 DEF Slots
<1>3. \A p, q \in Slots(c) : p = q
    BY <1>1, <1>2, SMTT(30) DEF OnceEach, Apart, NotAnswered, Held
<1>4. Held(c) => Slots(c) # {}
    <2>1. DOMAIN backlog = 1..Len(backlog) /\ DOMAIN queue = 1..Len(queue)
        BY DEF HTypeOK
    <2> QED
        BY <2>1, ZenonT(30) DEF Held, Slots
<1>5. replies[c] # <<>> => Slots(c) # {}
    <2>1. replies[c] # <<>> => 1 \in DOMAIN replies[c]
        BY DEF HTypeOK
    <2> QED
        BY <2>1 DEF Slots
<1> QED
    BY <1>3, <1>4, <1>5 DEF Kept

(* No connection is in two places or answered twice, and none that asked is *)
(* lost, for any number of connections and threads and however the threads  *)
(* are woken (http.cpp:219-251).                                            *)
THEOREM InOnePlaceHolds == HSpec => []InOnePlace
<1>1. HSpec => []HInv
    BY InitHInv, HStepKeeps, PTL DEF HSpec
<1> QED
    BY <1>1, HInvGivesOnePlace, PTL
===============================================================================
