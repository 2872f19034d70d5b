---------------------------- MODULE RegistryProofs ----------------------------
(***************************************************************************)
(* Proofs about the registry, for any contents, names and models, and       *)
(* crashes between any two writes: the versions of uploads and models, and *)
(* what an end of the process can leave behind.                            *)
(***************************************************************************)
EXTENDS Registry, FiniteSetTheorems, SequenceTheorems, WellFoundedInduction, TLAPS

-------------------------------------------------------------------------------
(* A versioned document that can be read. *)
Live(k) == k \in DOMAIN docs /\ k[1] \in Versioned /\ docs[k] # Void
Numbered == \A k \in DOMAIN docs : Live(k) => docs[k].version \in Nat
Bounded == \E b \in Nat : \A k \in DOMAIN docs : Live(k) => docs[k].version <= b

(* What is about to be written at a versioned document is newer than all    *)
(* other documents under its key; nothing versioned is written later on.    *)
Newer(e, ds) ==
    e.at[1] \in Versioned =>
        /\ e.doc.version \in Nat
        /\ \A k \in DOMAIN ds :
              (k # e.at /\ k[1] = e.at[1] /\ ds[k] # Void /\ ds[k].key = e.doc.key)
                  => ds[k].version < e.doc.version
FirstIsNewer == (todo # <<>> /\ Head(todo).do \in {"put", "fill"}) => Newer(Head(todo), docs)
Plain(e) == e.do # "fill" /\ (e.do = "put" => e.at[1] \notin Versioned)
RestIsPlain == \A i \in 2..Len(todo) : Plain(todo[i])
Listed == \E S : todo \in Seq(S)
RInv == Numbered /\ Bounded /\ VersionsDiffer /\ FirstIsNewer /\ RestIsPlain /\ Listed

(* A set of numbers below some bound has a greatest one. *)
LEMMA GreatestExists ==
    ASSUME NEW V \in SUBSET Nat, V # {}, NEW b \in Nat, \A v \in V : v <= b
    PROVE  \E m \in V : \A v \in V : v <= m
<1> DEFINE Tops == {x \in Nat : \A v \in V : v <= x}
<1>1. Tops \subseteq Nat /\ Tops # {}
    OBVIOUS
<1>2. PICK x \in Tops : \A y \in Tops : ~ (<<y, x>> \in OpToRel(<, Nat))
    <2> HIDE DEF Tops
    <2> QED BY <1>1, NatLessThanWellFounded, WFMin
<1>3. \A y \in Tops : ~ (y < x)
    <2>1. SUFFICES ASSUME NEW y \in Tops, y < x PROVE FALSE
        OBVIOUS
    <2>2. <<y, x>> \in Nat \X Nat
        BY <1>1
    <2> HIDE DEF Tops
    <2>3. <<y, x>> \in OpToRel(<, Nat)
        BY <2>1, <2>2, Zenon DEF OpToRel
    <2> QED BY <2>3, <1>2, Zenon
<1>4. x \in V
    <2> SUFFICES ASSUME x \notin V PROVE FALSE
        OBVIOUS
    <2>1. \A v \in V : v < x
        <3>1. x \in Nat /\ \A v \in V : v <= x
            BY <1>2
        <3>2. \A v \in V : v # x /\ v \in Nat
            OBVIOUS
        <3> QED BY <3>1, <3>2
    <2>2. PICK w \in V : w \in Nat
        OBVIOUS
    <2>3. x \in Nat /\ w < x
        BY <1>2, <2>1
    <2>4. x - 1 \in Nat
        BY <2>2, <2>3
    <2>5. \A v \in V : v <= x - 1
        BY <2>1, <2>3
    <2>6. x - 1 \in Tops /\ x - 1 < x
        BY <2>3, <2>4, <2>5
    <2> QED BY <2>6, <1>3
<1> QED BY <1>4, <1>1

(* The version is above those of all documents under the key. *)
LEMMA VersionOfIsGreatest ==
    ASSUME Numbered, Bounded, NEW kind \in Versioned, ~Damaged(kind), NEW key
    PROVE  /\ VersionOf(kind, key) \in Nat
           /\ \A k \in Of(kind) : docs[k].key = key => docs[k].version <= VersionOf(kind, key)
<1>1. \A k \in Of(kind) : Live(k)
    BY DEF Of, Damaged, Live
<1>2. Versions(kind, key) \subseteq Nat /\ 0 \in Versions(kind, key)
    BY <1>1 DEF Versions, Numbered, Live
<1>3. PICK b \in Nat : \A k \in DOMAIN docs : Live(k) => docs[k].version <= b
    BY DEF Bounded
<1>4. \A v \in Versions(kind, key) : v <= b
    BY <1>1, <1>3 DEF Versions, Live
<1>5. \E m \in Versions(kind, key) : \A v \in Versions(kind, key) : v <= m
    BY <1>2, <1>4, GreatestExists
<1>6. /\ VersionOf(kind, key) \in Versions(kind, key)
      /\ \A v \in Versions(kind, key) : v <= VersionOf(kind, key)
    BY <1>5 DEF VersionOf
<1> QED BY <1>6, <1>2 DEF Versions

-------------------------------------------------------------------------------
(* The counts of an analysis are a sequence of counts. *)
LEMMA CountsAreCounts ==
    ASSUME NEW c \in Contents
    PROVE  \E n \in Nat : \E S : /\ Counts(c) \in [1..n -> S]
                                 /\ \A i \in 1..n : Counts(c)[i].do = "count"
                                 /\ \A r \in Reasons(c) : \E i \in 1..n : Counts(c)[i].reason = r
<1> DEFINE n == Cardinality(Reasons(c))
           Orders == [1..n -> Reasons(c)]
           All(s) == \A r \in Reasons(c) : \E i \in DOMAIN s : s[i] = r
           order == CHOOSE s \in Orders : All(s)
           S == {Counts(c)[i] : i \in 1..n}
<1>1. n \in Nat /\ ExistsBijection(1..n, Reasons(c))
    BY ReasonsAssumption, FS_CardinalityType
<1>2. \E s \in Orders : All(s)
    BY <1>1 DEF ExistsBijection, Bijection, Injection, Surjection, IsInjective
<1>3. order \in Orders /\ All(order)
    <2> HIDE DEF Orders, All
    <2> QED BY <1>2
<1>4. Counts(c) = [i \in DOMAIN order |-> Count(order[i], HolesFor(c, order[i]))]
    BY DEF Counts
<1>5. DOMAIN order = 1..n /\ \A r \in Reasons(c) : \E i \in 1..n : order[i] = r
    BY <1>3
<1> HIDE DEF order, n
<1>6. /\ DOMAIN Counts(c) = 1..n
      /\ Counts(c) = [i \in 1..n |-> Counts(c)[i]]
      /\ \A i \in 1..n : Counts(c)[i].do = "count" /\ Counts(c)[i].reason = order[i]
    BY <1>4, <1>5 DEF Count
<1>7. Counts(c) \in [1..n -> S]
    BY <1>6
<1>8. \A r \in Reasons(c) : \E i \in 1..n : Counts(c)[i].reason = r
    BY <1>5, <1>6
<1> HIDE DEF S
<1>9. \E m \in Nat : \E U : /\ Counts(c) \in [1..m -> U]
                            /\ \A i \in 1..m : Counts(c)[i].do = "count"
                            /\ \A r \in Reasons(c) : \E i \in 1..m : Counts(c)[i].reason = r
    <2> DEFINE t == Counts(c)
    <2> HIDE DEF t
    <2>1. /\ t \in [1..n -> S] /\ \A i \in 1..n : t[i].do = "count"
          /\ \A r \in Reasons(c) : \E i \in 1..n : t[i].reason = r
        BY <1>6, <1>7, <1>8 DEF t
    <2>2. \E U : /\ t \in [1..n -> U] /\ \A i \in 1..n : t[i].do = "count"
                 /\ \A r \in Reasons(c) : \E i \in 1..n : t[i].reason = r
        BY <2>1
    <2> QED BY <1>1, <2>2 DEF t
<1> QED BY <1>9

-------------------------------------------------------------------------------
LEMMA InitRInv == RInit => RInv
<1> SUFFICES ASSUME RInit PROVE RInv
    OBVIOUS
<1>1. DOMAIN docs = {} /\ Len(todo) = 0 /\ todo \in Seq({})
    BY DEF RInit
<1>2. Numbered /\ VersionsDiffer /\ FirstIsNewer
    BY <1>1 DEF RInit, Numbered, VersionsDiffer, FirstIsNewer
<1>3. Bounded /\ RestIsPlain /\ Listed
    BY <1>1 DEF Bounded, RestIsPlain, Listed
<1> QED BY <1>2, <1>3 DEF RInv

(* The documents stay: what is to be written decides. *)
LEMMA WritesKeep ==
    ASSUME RInv, docs' = docs, FirstIsNewer', RestIsPlain', Listed'
    PROVE  RInv'
<1>1. Numbered' /\ Bounded' /\ VersionsDiffer'
    BY DEF RInv, Numbered, Bounded, VersionsDiffer, Live
<1> QED BY <1>1 DEF RInv

LEMMA NothingToWrite ==
    ASSUME RInv, docs' = docs, todo' = <<>>
    PROVE  RInv'
<1>1. Len(todo') = 0 /\ todo' \in Seq({})
    OBVIOUS
<1>2. FirstIsNewer' /\ RestIsPlain' /\ Listed'
    BY <1>1 DEF FirstIsNewer, RestIsPlain, Listed
<1> QED BY <1>2, WritesKeep

(* After the first write only plain ones are left. *)
LEMMA TailIsPlain ==
    ASSUME RestIsPlain, Listed, todo # <<>>
    PROVE  /\ Len(Tail(todo)) \in Nat
           /\ \A i \in 1..Len(Tail(todo)) : Plain(Tail(todo)[i])
           /\ \E S : Tail(todo) \in Seq(S)
<1>1. PICK S : todo \in Seq(S)
    BY DEF Listed
<1>2. /\ Tail(todo) \in Seq(S) /\ Len(todo) \in Nat /\ Len(Tail(todo)) = Len(todo) - 1
      /\ \A i \in 1..Len(Tail(todo)) : Tail(todo)[i] = todo[i + 1]
    BY <1>1
<1>3. \A i \in 1..Len(Tail(todo)) : i + 1 \in 2..Len(todo)
    BY <1>2
<1> QED BY <1>2, <1>3 DEF RestIsPlain

LEMMA PlainWrites ==
    ASSUME NEW s, s = todo', NEW S, s \in Seq(S), \A i \in 1..Len(s) : Plain(s[i])
    PROVE  FirstIsNewer' /\ RestIsPlain' /\ Listed'
<1>1. Len(s) \in Nat /\ (s # <<>> => 1 \in 1..Len(s) /\ Head(s) = s[1])
    OBVIOUS
<1>2. FirstIsNewer'
    BY <1>1 DEF FirstIsNewer, Newer, Plain
<1>3. RestIsPlain'
    BY <1>1 DEF RestIsPlain, Plain
<1>4. Listed'
    BY DEF Listed
<1> QED BY <1>2, <1>3, <1>4

(* One write put before plain ones. *)
LEMMA OneBeforePlain ==
    ASSUME NEW e, NEW s, NEW S, s \in Seq(S), \A i \in 1..Len(s) : Plain(s[i]),
           todo' = <<e>> \o s, Newer(e, docs')
    PROVE  FirstIsNewer' /\ RestIsPlain' /\ Listed'
<1> DEFINE U == S \cup {e}
           t == <<e>> \o s
<1>1. <<e>> \in Seq(U) /\ s \in Seq(U) /\ Len(<<e>>) = 1 /\ Len(s) \in Nat
    OBVIOUS
<1>2. t \in Seq(U) /\ Len(t) = Len(s) + 1 /\ t[1] = e /\ t # <<>> /\ Head(t) = e
    BY <1>1
<1>3. \A i \in 2..Len(t) : t[i] = s[i - 1] /\ i - 1 \in 1..Len(s)
    BY <1>1, <1>2
<1>4. todo' = t
    OBVIOUS
<1> HIDE DEF t, U
<1>5. FirstIsNewer'
    BY <1>2, <1>4 DEF FirstIsNewer
<1>6. RestIsPlain'
    BY <1>3, <1>4 DEF RestIsPlain, Plain
<1>7. Listed'
    BY <1>2, <1>4 DEF Listed
<1> QED BY <1>5, <1>6, <1>7

-------------------------------------------------------------------------------
LEMMA IngestKeeps ==
    ASSUME RInv, NEW n \in Names, NEW c \in Contents, Ingest(n, c)
    PROVE  RInv'
<1>1. CASE Damaged("artifacts")
    BY <1>1, NothingToWrite DEF Ingest, End
<1>2. CASE ~Damaged("artifacts")
    <2> DEFINE doc == [key |-> n, version |-> VersionOf("artifacts", n) + 1]
               e == WriteDoc(Document("artifacts", c), doc)
               s == WriteBlob(c, n)
    <2>1. todo' = <<e>> \o s /\ docs' = docs
        BY <1>2 DEF Ingest, Begins, IngestWrites
    <2>2. s \in Seq({s[1]}) /\ Len(s) = 1 /\ s[1] = WriteDoc(Blob(c, n), [content |-> c])
        BY DEF WriteBlob
    <2>3. \A i \in 1..Len(s) : Plain(s[i])
        BY <2>2 DEF Plain, WriteDoc, Blob, Versioned
    <2>4. /\ VersionOf("artifacts", n) \in Nat
          /\ \A k \in Of("artifacts") : docs[k].key = n => docs[k].version <= VersionOf("artifacts", n)
        BY <1>2, VersionOfIsGreatest DEF RInv, Versioned
    <2>5. e.at[1] = "artifacts" /\ e.doc.key = n /\ e.doc.version = VersionOf("artifacts", n) + 1
        BY DEF WriteDoc, Document
    <2> HIDE DEF e, s
    <2>6. \A k \in Of("artifacts") : k \in DOMAIN docs /\ docs[k] # Void
        BY <1>2 DEF Of, Damaged
    <2>7. \A k \in Of("artifacts") : docs[k].version \in Nat
        BY <2>6 DEF RInv, Numbered, Live, Versioned, Of
    <2>8. Newer(e, docs')
        BY <2>1, <2>4, <2>5, <2>7 DEF Newer, Of
    <2> QED BY <2>1, <2>2, <2>3, <2>8, OneBeforePlain, WritesKeep
<1> QED BY <1>1, <1>2

LEMMA AnalyzeKeeps ==
    ASSUME RInv, NEW c \in Contents, Analyze(c)
    PROVE  RInv'
<1>1. CASE docs' = docs /\ todo' = <<>>
    BY <1>1, NothingToWrite
<1>2. CASE ~Damaged("models") /\ docs' = docs /\ todo' = AnalyzeWrites(c)
    <2> DEFINE doc == [key |-> c, version |-> VersionOf("models", c) + 1]
               e == WriteDoc(Document("models", ModelOf[c]), doc)
               l == Link(c, ModelOf[c])
               w == WriteDoc(Document("coverage_ledger", c), ComputeCoverage(c))
               t == Counts(c)
               s == <<l, w>> \o t
    <2>1. PICK n \in Nat : \E S : t \in [1..n -> S] /\ \A i \in 1..n : t[i].do = "count"
        BY CountsAreCounts
    <2>2. PICK S : t \in [1..n -> S] /\ \A i \in 1..n : t[i].do = "count"
        BY <2>1
    <2>3. l.do = "link" /\ w.do = "put" /\ w.at[1] = "coverage_ledger" /\ e.at[1] = "models"
          /\ e.doc.key = c /\ e.doc.version = VersionOf("models", c) + 1
        BY DEF Link, WriteDoc, Document
    <2>0. AnalyzeWrites(c) = <<e, l, w>> \o t
        BY DEF AnalyzeWrites
    <2> HIDE DEF e, l, w, t
    <2> DEFINE U == S \cup {e, l, w}
    <2>4. <<l, w>> \in Seq(U) /\ <<e, l, w>> \in Seq(U) /\ <<e>> \in Seq(U) /\ t \in Seq(U) /\ Len(t) = n
        BY <2>2
    <2>5. s \in Seq(U) /\ Len(s) = 2 + n /\ s[1] = l /\ s[2] = w /\ \A i \in 3..Len(s) : s[i] = t[i - 2]
        BY <2>4
    <2>6. \A i \in 1..Len(s) : Plain(s[i])
        <3> SUFFICES ASSUME NEW i \in 1..Len(s) PROVE Plain(s[i])
            OBVIOUS
        <3>1. i = 1 \/ i = 2 \/ (i \in 3..Len(s) /\ i - 2 \in 1..n)
            BY <2>5
        <3> QED BY <3>1, <2>5, <2>3, <2>2 DEF Plain, Versioned
    <2>7. <<e, l, w>> \o t = <<e>> \o s
        <3>1. <<e, l, w>> = <<e>> \o <<l, w>>
            OBVIOUS
        <3> DEFINE x == <<e>>
                   y == <<l, w>>
        <3>2. x \in Seq(U) /\ y \in Seq(U) /\ t \in Seq(U)
            BY <2>4
        <3> HIDE DEF x, y, U
        <3>3. (x \o y) \o t = x \o (y \o t)
            BY <3>2, ConcatAssociative, SMTT(30)
        <3> QED BY <3>1, <3>3 DEF x, y
    <2>8. /\ VersionOf("models", c) \in Nat
          /\ \A k \in Of("models") : docs[k].key = c => docs[k].version <= VersionOf("models", c)
        BY <1>2, VersionOfIsGreatest DEF RInv, Versioned
    <2>9. \A k \in Of("models") : docs[k].version \in Nat
        BY <1>2 DEF RInv, Numbered, Live, Versioned, Of, Damaged
    <2>10. Newer(e, docs')
        BY <1>2, <2>3, <2>8, <2>9 DEF Newer, Of
    <2> HIDE DEF s, U
    <2> QED BY <1>2, <2>0, <2>5, <2>6, <2>7, <2>10, OneBeforePlain, WritesKeep
<1> QED BY <1>1, <1>2 DEF Analyze, End, Begins

-------------------------------------------------------------------------------
LEMMA TruncateKeeps == ASSUME RInv, Truncate PROVE RInv'
<1> DEFINE e == [do |-> "fill", at |-> Next1.at, doc |-> Next1.doc]
<1>1. todo # <<>> /\ todo' = <<e>> \o Tail(todo) /\ Next1 = Head(todo) /\ Head(todo).do = "put"
    BY DEF Truncate, Does, Next1
<1>2. /\ DOMAIN docs' = DOMAIN docs \cup {Next1.at}
      /\ docs'[Next1.at] = Void
      /\ \A k \in DOMAIN docs : k # Next1.at => docs'[k] = docs[k]
    BY DEF Truncate, With
<1>3. \A k \in DOMAIN docs' : docs'[k] # Void => k \in DOMAIN docs /\ docs'[k] = docs[k]
    BY <1>2
<1>4. Newer(Next1, docs)
    BY <1>1 DEF RInv, FirstIsNewer
<1>5. e.at = Next1.at /\ e.doc = Next1.doc
    OBVIOUS
<1> HIDE DEF e
<1>6. Newer(e, docs')
    BY <1>3, <1>4, <1>5 DEF Newer
<1>7. PICK S : Tail(todo) \in Seq(S) /\ \A i \in 1..Len(Tail(todo)) : Plain(Tail(todo)[i])
    BY <1>1, TailIsPlain DEF RInv
<1>8. FirstIsNewer' /\ RestIsPlain' /\ Listed'
    BY <1>1, <1>6, <1>7, OneBeforePlain
<1>9. Numbered' /\ Bounded' /\ VersionsDiffer'
    BY <1>3 DEF RInv, Numbered, Bounded, VersionsDiffer, Live
<1> QED BY <1>8, <1>9 DEF RInv

LEMMA TailKeeps ==
    ASSUME RInv, todo # <<>>, todo' = Tail(todo)
    PROVE  FirstIsNewer' /\ RestIsPlain' /\ Listed'
<1>1. PICK S : Tail(todo) \in Seq(S) /\ \A i \in 1..Len(Tail(todo)) : Plain(Tail(todo)[i])
    BY TailIsPlain DEF RInv
<1> QED BY <1>1, PlainWrites

LEMMA FillKeeps == ASSUME RInv, Fill PROVE RInv'
<1>1. todo # <<>> /\ todo' = Tail(todo) /\ Next1 = Head(todo) /\ Head(todo).do = "fill"
    BY DEF Fill, Does, Next1
<1>2. /\ DOMAIN docs' = DOMAIN docs \cup {Next1.at}
      /\ docs'[Next1.at] = Next1.doc
      /\ \A k \in DOMAIN docs : k # Next1.at => docs'[k] = docs[k]
    BY DEF Fill, With
<1>3. \A k \in DOMAIN docs' : k # Next1.at => k \in DOMAIN docs /\ docs'[k] = docs[k]
    BY <1>2
<1>4. Newer(Next1, docs)
    BY <1>1 DEF RInv, FirstIsNewer
<1>5. FirstIsNewer' /\ RestIsPlain' /\ Listed'
    BY <1>1, TailKeeps
<1>6. Numbered'
    BY <1>2, <1>3, <1>4 DEF RInv, Numbered, Live, Newer
<1>7. Bounded'
    <2>1. PICK b \in Nat : \A k \in DOMAIN docs : Live(k) => docs[k].version <= b
        BY DEF RInv, Bounded
    <2>2. CASE Next1.at[1] \notin Versioned
        BY <2>1, <2>2, <1>3 DEF Bounded, Live
    <2>3. CASE Next1.at[1] \in Versioned
        <3>1. PICK m \in Nat : b <= m /\ Next1.doc.version <= m
            <4>1. Next1.doc.version \in Nat
                BY <2>3, <1>4 DEF Newer
            <4> QED BY <4>1
        <3>2. \A k \in DOMAIN docs' : Live(k)' => docs'[k].version <= m
            BY <2>1, <3>1, <2>3, <1>2, <1>3, <1>4 DEF Live, Newer, RInv, Numbered
        <3> QED BY <3>2 DEF Bounded
    <2> QED BY <2>2, <2>3
<1>8. VersionsDiffer'
    <2> SUFFICES ASSUME NEW j \in DOMAIN docs', NEW k \in DOMAIN docs',
                        j # k, j[1] = k[1], j[1] \in Versioned,
                        docs'[j] # Void, docs'[k] # Void, docs'[j].key = docs'[k].key
                 PROVE  docs'[j].version # docs'[k].version
        BY DEF VersionsDiffer
    <2>0. \A i \in DOMAIN docs : Live(i) => docs[i].version \in Nat
        BY DEF RInv, Numbered
    <2>1. CASE j = Next1.at
        BY <2>1, <2>0, <1>2, <1>3, <1>4 DEF Newer, Live
    <2>2. CASE k = Next1.at
        BY <2>2, <2>0, <1>2, <1>3, <1>4 DEF Newer, Live
    <2>3. CASE j # Next1.at /\ k # Next1.at
        BY <2>3, <1>3 DEF RInv, VersionsDiffer
    <2> QED BY <2>1, <2>2, <2>3
<1> QED BY <1>5, <1>6, <1>7, <1>8 DEF RInv

LEMMA AddToCounterKeeps == ASSUME RInv, AddToCounter PROVE RInv'
<1>1. CASE docs' = docs /\ todo' = <<>>
    BY <1>1, NothingToWrite
<1>2. CASE todo # <<>> /\ docs' = docs
           /\ todo' = <<WriteDoc(Counter(Next1.reason), Higher(Next1.reason, Next1.cells))>> \o Tail(todo)
    <2> DEFINE e == WriteDoc(Counter(Next1.reason), Higher(Next1.reason, Next1.cells))
    <2>1. PICK S : Tail(todo) \in Seq(S) /\ \A i \in 1..Len(Tail(todo)) : Plain(Tail(todo)[i])
        BY <1>2, TailIsPlain DEF RInv
    <2>2. e.at[1] = "unsupported_constructs"
        BY DEF WriteDoc, Counter, Document
    <2>3. todo' = <<e>> \o Tail(todo)
        BY <1>2
    <2> HIDE DEF e
    <2>4. Newer(e, docs')
        BY <2>2 DEF Newer, Versioned
    <2>5. FirstIsNewer' /\ RestIsPlain' /\ Listed'
        BY <2>1, <2>3, <2>4, OneBeforePlain
    <2> QED BY <1>2, <2>5, WritesKeep
<1> QED BY <1>1, <1>2 DEF AddToCounter, End, Does

LEMMA NextRInv == ASSUME RInv, [RNext]_rvars PROVE RInv'
<1>1. CASE UNCHANGED rvars
    BY <1>1 DEF rvars, RInv, Numbered, Bounded, VersionsDiffer, FirstIsNewer, RestIsPlain, Listed, Newer, Live
<1>2. ASSUME NEW c \in Contents, Analyze(c) PROVE RInv'
    BY <1>2, AnalyzeKeeps
<1>3. ASSUME NEW c \in Contents, NEW n \in Names, Ingest(n, c) PROVE RInv'
    BY <1>3, IngestKeeps
<1>4. CASE AppendLink
    <2>1. docs' = docs /\ todo # <<>> /\ todo' = Tail(todo)
        BY <1>4 DEF AppendLink, Does
    <2> QED BY <2>1, TailKeeps, WritesKeep
<1>5. ASSUME NEW k, ReadAll(k) PROVE RInv'
    BY <1>5, NothingToWrite DEF ReadAll, End
<1>6. CASE Crash
    BY <1>6, NothingToWrite DEF Crash, End
<1>7. CASE Restart
    BY <1>7 DEF Restart, RInv, Numbered, Bounded, VersionsDiffer, FirstIsNewer, RestIsPlain, Listed, Newer, Live
<1> QED BY <1>1, <1>2, <1>3, <1>4, <1>5, <1>6, <1>7, TruncateKeeps, FillKeeps, AddToCounterKeeps DEF RNext

(* Documents under one key never have the same version, whatever is uploaded *)
(* and analysed, under any names, and wherever the process ends             *)
(* (registry.cpp:29-80, store.cpp:25-32).                                   *)
THEOREM VersionsDifferHolds == RSpec => []VersionsDiffer
<1>1. RInv => VersionsDiffer
    BY DEF RInv
<1> QED BY InitRInv, NextRInv, <1>1, PTL DEF RSpec
-------------------------------------------------------------------------------
(* What the request that holds the mutex still owes.  A write leaves a gap   *)
(* at its own document, and a file or a link fills the gap of the document   *)
(* written before it.                                                        *)
Writes(e, family) == e.do \in {"put", "fill"} /\ e.at[1] = family
Proper(e) ==
    /\ e.do \in {"put", "fill", "link", "count"}
    /\ e.do \in {"put", "fill"} =>
          e.doc # Void /\ (e.at[1] # "blobs" => e.at = Document(e.at[1], e.at[2]))
    /\ Writes(e, "unsupported_constructs") => e.doc.files \in Nat
Completes(e, f) ==
    /\ Writes(f, "blobs") <=> Writes(e, "artifacts")
    /\ Writes(e, "artifacts") => f.at = Blob(e.at[2], e.doc.key)
    /\ f.do = "link" <=> Writes(e, "models")
    /\ Writes(e, "models") => f.edge = <<e.doc.key, e.at[2]>>
Counting(e) ==
    e.do = "count" \/ Writes(e, "coverage_ledger") \/ Writes(e, "unsupported_constructs")
Ordered(s) ==
    /\ \A i \in 1..Len(s) : Proper(s[i])
    /\ \A i \in 1..Len(s) : Writes(s[i], "artifacts") \/ Writes(s[i], "models") => i < Len(s)
    /\ \A i \in 1..Len(s) : i < Len(s) => Completes(s[i], s[i + 1])
    /\ \A i \in 1..Len(s) : Writes(s[i], "unsupported_constructs") => i = 1
    /\ \A i, j \in 1..Len(s) : i < j /\ Counting(s[i]) => s[j].do = "count"
    /\ \A i \in 1..Len(s) : Writes(s[i], "coverage_ledger") =>
          \A r \in DOMAIN s[i].doc.reasons : \E j \in 1..Len(s) : s[j].do = "count" /\ s[j].reason = r

(* The document that is whole only when the first write is done.            *)
Pending ==
    IF todo = <<>> \/ Head(todo).do = "count" THEN {}
    ELSE IF Head(todo).do = "link" THEN {Document("models", Head(todo).edge[2])}
    ELSE IF Head(todo).at[1] = "blobs" THEN {Document("artifacts", Head(todo).at[2])}
    ELSE {Head(todo).at}
Begun ==
    /\ todo # <<>> /\ Writes(Head(todo), "blobs") =>
          LET a == Document("artifacts", Head(todo).at[2])
          IN  Stored(a) /\ Head(todo).at = Blob(Head(todo).at[2], docs[a].key)
    /\ todo # <<>> /\ Head(todo).do = "link" =>
          LET m == Document("models", Head(todo).edge[2])
          IN  Stored(m) /\ Head(todo).edge = <<docs[m].key, Head(todo).edge[2]>>
Shaped ==
    /\ IsFiniteSet(DOMAIN docs) /\ ends \in Nat /\ \E S : links \in Seq(S)
    /\ \A k \in DOMAIN docs : k[1] # "blobs" => k = Document(k[1], k[2])
    /\ \A k \in Of("unsupported_constructs") : docs[k] # Void => docs[k].files \in Nat
Accounted == Cardinality(Gaps \ Pending) <= ends

(* A ledger that is written, and not yet its counter.                       *)
Files(r) == IF Counter(r) \in DOMAIN docs THEN docs[Counter(r)].files ELSE 0
Owed(r) ==
    /\ \A i \in 1..Len(todo) : ~Writes(todo[i], "coverage_ledger")
    /\ \E i \in 1..Len(todo) : \/ todo[i].do = "count" /\ todo[i].reason = r
                               \/ todo[i].do = "put" /\ todo[i].at = Counter(r)
Slack(r) == IF Owed(r) THEN ends + 1 ELSE ends
Even(r) ==
    (Counter(r) \in DOMAIN docs => docs[Counter(r)] # Void) =>
        Cardinality(LedgersWith(r)) <= Files(r) + Slack(r)
Ahead(r) ==
    (todo # <<>> /\ Writes(Head(todo), "unsupported_constructs") /\ Head(todo).at = Counter(r)) =>
        Cardinality(LedgersWith(r)) <= Head(todo).doc.files + ends
Tallied == \A r : Even(r) /\ Ahead(r)
GapInv == Listed /\ Ordered(todo) /\ Begun /\ Shaped /\ Accounted /\ Tallied

(* A document with no field of an empty one is not empty. *)
LEMMA NotVoid == \A d : "void" \notin DOMAIN d => d # Void
<1>1. "void" \in DOMAIN Void
    BY DEF Void
<1> QED BY <1>1

LEMMA PropertyOfFirst ==
    ASSUME NEW S, NEW s \in Seq(S), s # <<>>
    PROVE  /\ Head(s) = s[1] /\ 1 \in 1..Len(s) /\ Len(s) \in Nat
           /\ Len(Tail(s)) = Len(s) - 1 /\ Tail(s) \in Seq(S)
           /\ \A i \in 1..Len(Tail(s)) : Tail(s)[i] = s[i + 1] /\ i + 1 \in 1..Len(s) /\ i + 1 > 1
           /\ (Tail(s) # <<>> => Len(s) > 1 /\ Head(Tail(s)) = s[2] /\ 2 \in 1..Len(s))
OBVIOUS

LEMMA TailIsOrdered ==
    ASSUME NEW S, NEW s \in Seq(S), s # <<>>, Ordered(s)
    PROVE  Ordered(Tail(s))
<1> DEFINE t == Tail(s)
<1>1. /\ Len(t) = Len(s) - 1 /\ Len(s) \in Nat
      /\ \A i \in 1..Len(t) : t[i] = s[i + 1] /\ i + 1 \in 1..Len(s) /\ i + 1 > 1
    BY PropertyOfFirst
<1> HIDE DEF t
<1>2. \A i \in 1..Len(t) : Proper(t[i])
    BY <1>1 DEF Ordered
<1>3. \A i \in 1..Len(t) : Writes(t[i], "artifacts") \/ Writes(t[i], "models") => i < Len(t)
    <2> TAKE i \in 1..Len(t)
    <2>1. Writes(s[i + 1], "artifacts") \/ Writes(s[i + 1], "models") => i + 1 < Len(s)
        BY <1>1 DEF Ordered
    <2> QED BY <1>1, <2>1
<1>4. \A i \in 1..Len(t) : i < Len(t) => Completes(t[i], t[i + 1])
    <2> SUFFICES ASSUME NEW i \in 1..Len(t), i < Len(t) PROVE Completes(t[i], t[i + 1])
        OBVIOUS
    <2>1. t[i] = s[i + 1] /\ t[i + 1] = s[(i + 1) + 1] /\ i + 1 \in 1..Len(s) /\ i + 1 < Len(s)
        BY <1>1
    <2>2. Completes(s[i + 1], s[(i + 1) + 1])
        BY <2>1 DEF Ordered
    <2> QED BY <2>1, <2>2
<1>5. \A i, j \in 1..Len(t) : i < j /\ Counting(t[i]) => t[j].do = "count"
    <2> SUFFICES ASSUME NEW i \in 1..Len(t), NEW j \in 1..Len(t), i < j, Counting(t[i])
                 PROVE  t[j].do = "count"
        OBVIOUS
    <2>1. /\ t[i] = s[i + 1] /\ t[j] = s[j + 1] /\ i + 1 < j + 1
          /\ i + 1 \in 1..Len(s) /\ j + 1 \in 1..Len(s)
        BY <1>1
    <2> QED BY <2>1 DEF Ordered
<1>6. \A i \in 1..Len(t) : Writes(t[i], "coverage_ledger") =>
          \A r \in DOMAIN t[i].doc.reasons : \E j \in 1..Len(t) : t[j].do = "count" /\ t[j].reason = r
    <2> SUFFICES ASSUME NEW i \in 1..Len(t), Writes(t[i], "coverage_ledger"),
                        NEW r \in DOMAIN t[i].doc.reasons
                 PROVE  \E j \in 1..Len(t) : t[j].do = "count" /\ t[j].reason = r
        OBVIOUS
    <2>1. t[i] = s[i + 1] /\ i + 1 \in 1..Len(s) /\ i + 1 > 1
        BY <1>1
    <2>2. PICK j \in 1..Len(s) : s[j].do = "count" /\ s[j].reason = r
        BY <2>1 DEF Ordered
    <2>3. s[i + 1].do \in {"put", "fill"}
        BY <2>1 DEF Writes
    <2>4. j # 1
        <3> SUFFICES ASSUME j = 1 PROVE FALSE
            OBVIOUS
        <3>1. Counting(s[1]) /\ 1 \in 1..Len(s)
            BY <2>2 DEF Counting
        <3>2. s[i + 1].do = "count"
            BY <2>1, <3>1 DEF Ordered
        <3> QED BY <3>2, <2>3
    <2>5. j - 1 \in 1..Len(t) /\ t[j - 1] = s[j]
        <3>1. j - 1 \in 1..Len(t) /\ (j - 1) + 1 = j
            BY <2>4, <1>1
        <3> QED BY <3>1, <1>1
    <2> QED BY <2>2, <2>5
<1>7. \A i \in 1..Len(t) : Writes(t[i], "unsupported_constructs") => i = 1
    <2> SUFFICES ASSUME NEW i \in 1..Len(t), Writes(t[i], "unsupported_constructs") PROVE FALSE
        OBVIOUS
    <2>1. Writes(s[i + 1], "unsupported_constructs") /\ i + 1 \in 1..Len(s) /\ i + 1 > 1
        BY <1>1
    <2> QED BY <2>1 DEF Ordered
<1>8. Ordered(t)
    BY <1>1, <1>2, <1>3, <1>4, <1>5, <1>6, <1>7 DEF Ordered
<1> QED BY <1>8 DEF t

(* A first write that is truncated is still to be filled. *)
LEMMA FillIsOrdered ==
    ASSUME NEW S, NEW s \in Seq(S), s # <<>>, Ordered(s), Head(s).do = "put",
           NEW e, e = [do |-> "fill", at |-> Head(s).at, doc |-> Head(s).doc]
    PROVE  Ordered(<<e>> \o Tail(s))
<1> DEFINE t == <<e>> \o Tail(s)
<1>1. /\ Len(t) = Len(s) /\ Len(s) \in Nat /\ 1 \in 1..Len(s) /\ t[1] = e /\ Head(s) = s[1]
      /\ \A i \in 1..Len(s) : i # 1 => t[i] = s[i]
    <2>1. Tail(s) \in Seq(S \cup {e}) /\ <<e>> \in Seq(S \cup {e}) /\ Len(<<e>>) = 1
        BY PropertyOfFirst
    <2> QED BY <2>1
<1>2. e.do = "fill" /\ e.at = s[1].at /\ e.doc = s[1].doc /\ s[1].do = "put"
    BY <1>1
<1> HIDE DEF t
<1>3. \A family : \A i \in 1..Len(s) : Writes(t[i], family) <=> Writes(s[i], family)
    BY <1>1, <1>2 DEF Writes
<1>4. \A i \in 1..Len(s) : Proper(t[i])
    <2>1. Proper(s[1]) /\ \A i \in 1..Len(s) : Proper(s[i])
        BY <1>1 DEF Ordered
    <2>2. Proper(e)
        BY <2>1, <1>2 DEF Proper, Writes
    <2> QED BY <2>1, <2>2, <1>1
<1>5. \A i \in 1..Len(s) : Writes(t[i], "artifacts") \/ Writes(t[i], "models") => i < Len(s)
    BY <1>3 DEF Ordered
<1>6. \A i \in 1..Len(s) : i < Len(s) => Completes(t[i], t[i + 1])
    <2> SUFFICES ASSUME NEW i \in 1..Len(s), i < Len(s) PROVE Completes(t[i], t[i + 1])
        OBVIOUS
    <2>1. Completes(s[i], s[i + 1]) /\ i + 1 \in 1..Len(s) /\ t[i + 1] = s[i + 1]
        BY <1>1 DEF Ordered
    <2>2. Writes(t[i], "artifacts") \/ Writes(t[i], "models") => t[i].at = s[i].at /\ t[i].doc = s[i].doc
        BY <1>1, <1>2
    <2> QED BY <2>1, <2>2, <1>3 DEF Completes
<1>7. \A i \in 1..Len(s) : (t[i].do = "count" <=> s[i].do = "count")
                           /\ (t[i].do = "count" => t[i].reason = s[i].reason)
                           /\ (Counting(t[i]) <=> Counting(s[i]))
    BY <1>1, <1>2, <1>3 DEF Counting
<1>8. \A i, j \in 1..Len(s) : i < j /\ Counting(t[i]) => t[j].do = "count"
    BY <1>7 DEF Ordered
<1>9. \A i \in 1..Len(s) : Writes(t[i], "coverage_ledger") =>
          \A r \in DOMAIN t[i].doc.reasons : \E j \in 1..Len(s) : t[j].do = "count" /\ t[j].reason = r
    <2> SUFFICES ASSUME NEW i \in 1..Len(s), Writes(t[i], "coverage_ledger"),
                        NEW r \in DOMAIN t[i].doc.reasons
                 PROVE  \E j \in 1..Len(s) : t[j].do = "count" /\ t[j].reason = r
        OBVIOUS
    <2>1. t[i].doc = s[i].doc /\ Writes(s[i], "coverage_ledger")
        BY <1>1, <1>2, <1>3
    <2>2. PICK j \in 1..Len(s) : s[j].do = "count" /\ s[j].reason = r
        BY <2>1 DEF Ordered
    <2>3. t[j] = s[j]
        BY <2>2, <1>1, <1>2
    <2> QED BY <2>2, <2>3
<1>10. \A i \in 1..Len(s) : Writes(t[i], "unsupported_constructs") => i = 1
    BY <1>3 DEF Ordered
<1> QED BY <1>1, <1>4, <1>5, <1>6, <1>8, <1>9, <1>10, SMTT(30) DEF Ordered

(* A counter that is written before counts. *)
LEMMA CounterIsOrdered ==
    ASSUME NEW S, NEW s \in Seq(S), Ordered(s), \A i \in 1..Len(s) : s[i].do = "count",
           NEW e, Proper(e), Writes(e, "unsupported_constructs")
    PROVE  Ordered(<<e>> \o s)
<1> DEFINE t == <<e>> \o s
<1>1. /\ Len(t) = Len(s) + 1 /\ Len(s) \in Nat /\ t[1] = e
      /\ \A i \in 1..Len(t) : i # 1 => i - 1 \in 1..Len(s) /\ t[i] = s[i - 1] /\ t[i].do = "count"
    <2>1. s \in Seq(S \cup {e}) /\ <<e>> \in Seq(S \cup {e}) /\ Len(<<e>>) = 1
        OBVIOUS
    <2> QED BY <2>1
<1> HIDE DEF t
<1>2. ~Writes(e, "artifacts") /\ ~Writes(e, "models") /\ ~Writes(e, "coverage_ledger") /\ ~Writes(e, "blobs")
      /\ e.do # "link"
    BY DEF Writes
<1>3. \A family : \A i \in 1..Len(t) : i # 1 => ~Writes(t[i], family)
    BY <1>1 DEF Writes
<1>4. \A i \in 1..Len(t) : Proper(t[i])
    BY <1>1 DEF Ordered
<1>5. \A i \in 1..Len(t) : i < Len(t) => Completes(t[i], t[i + 1])
    <2> SUFFICES ASSUME NEW i \in 1..Len(t), i < Len(t) PROVE Completes(t[i], t[i + 1])
        OBVIOUS
    <2>1. i + 1 \in 1..Len(t) /\ i + 1 # 1
        BY <1>1
    <2>2. t[i + 1].do = "count" /\ ~Writes(t[i + 1], "blobs")
        BY <2>1, <1>1, <1>3
    <2>3. ~Writes(t[i], "artifacts") /\ ~Writes(t[i], "models")
        BY <1>1, <1>2, <1>3
    <2> QED BY <2>2, <2>3 DEF Completes
<1>6. \A i, j \in 1..Len(t) : i < j /\ Counting(t[i]) => t[j].do = "count"
    BY <1>1
<1>7. 1 \in 1..Len(t) /\ \A i \in 1..Len(t) : ~Writes(t[i], "artifacts") /\ ~Writes(t[i], "models") /\ ~Writes(t[i], "coverage_ledger")
    BY <1>1, <1>2, <1>3
<1>8. Ordered(t)
    BY <1>3, <1>4, <1>5, <1>6, <1>7 DEF Ordered
<1> QED BY <1>8 DEF t

LEMMA EmptyIsOrdered == Ordered(<<>>)
BY DEF Ordered

-------------------------------------------------------------------------------
LEMMA FiniteParts ==
    ASSUME Shaped
    PROVE  /\ IsFiniteSet(Gaps) /\ IsFiniteSet(Gaps \ Pending)
           /\ Cardinality(Gaps) \in Nat /\ Cardinality(Gaps \ Pending) \in Nat
           /\ \A r : IsFiniteSet(LedgersWith(r)) /\ Cardinality(LedgersWith(r)) \in Nat
<1>1. Gaps \subseteq DOMAIN docs /\ Gaps \ Pending \subseteq DOMAIN docs
    BY DEF Gaps, Of
<1>2. \A r : LedgersWith(r) \subseteq DOMAIN docs
    BY DEF LedgersWith, Of
<1>3. IsFiniteSet(DOMAIN docs)
    BY DEF Shaped
<1> QED BY <1>1, <1>2, <1>3, FS_Subset, FS_CardinalityType

(* No step adds a gap but to what is pending, and none loses count of one.  *)
LEMMA FewerGaps ==
    ASSUME Shaped, Accounted, Gaps' \ Pending' \subseteq Gaps \ Pending, ends' = ends
    PROVE  Accounted'
<1>1. Cardinality(Gaps' \ Pending') <= Cardinality(Gaps \ Pending) /\ Cardinality(Gaps' \ Pending') \in Nat
    BY FiniteParts, FS_Subset, FS_CardinalityType
<1>2. Cardinality(Gaps \ Pending) \in Nat /\ ends \in Nat
    BY FiniteParts DEF Shaped
<1> QED BY <1>1, <1>2 DEF Accounted

LEMMA FilesAreNumbers ==
    ASSUME Shaped, NEW r, Counter(r) \in DOMAIN docs => docs[Counter(r)] # Void
    PROVE  Files(r) \in Nat
<1>1. Counter(r)[1] = "unsupported_constructs"
    BY DEF Counter, Document
<1> QED BY <1>1 DEF Files, Shaped, Of

LEMMA FewerLedgers ==
    ASSUME Shaped, NEW r, LedgersWith(r)' \subseteq LedgersWith(r)
    PROVE  Cardinality(LedgersWith(r)') <= Cardinality(LedgersWith(r)) /\ Cardinality(LedgersWith(r)') \in Nat
           /\ Cardinality(LedgersWith(r)) \in Nat
BY FiniteParts, FS_Subset, FS_CardinalityType

(* A ledger less and a counter no other way: the tally holds on.            *)
LEMMA StaysEven ==
    ASSUME Shaped, NEW r, Even(r), LedgersWith(r)' \subseteq LedgersWith(r), ends' = ends,
           Counter(r) \in DOMAIN docs' <=> Counter(r) \in DOMAIN docs,
           Counter(r) \in DOMAIN docs => docs'[Counter(r)] = docs[Counter(r)],
           Owed(r) => Owed(r)'
    PROVE  Even(r)'
<1> SUFFICES ASSUME Counter(r) \in DOMAIN docs' => docs'[Counter(r)] # Void
             PROVE  Cardinality(LedgersWith(r)') <= Files(r)' + Slack(r)'
    BY DEF Even
<1>1. Files(r)' = Files(r) /\ Files(r) \in Nat
    BY FilesAreNumbers DEF Files
<1>2. Slack(r) \in Nat /\ Slack(r)' \in Nat /\ Slack(r) <= Slack(r)'
    BY DEF Slack, Shaped
<1>3. Cardinality(LedgersWith(r)) <= Files(r) + Slack(r)
    BY DEF Even
<1> QED BY <1>1, <1>2, <1>3, FewerLedgers

LEMMA StaysAhead ==
    ASSUME Shaped, NEW r, LedgersWith(r)' \subseteq LedgersWith(r), NEW n \in Nat,
           Cardinality(LedgersWith(r)) <= n + ends, ends' = ends
    PROVE  Cardinality(LedgersWith(r)') <= n + ends'
<1>1. ends \in Nat
    BY DEF Shaped
<1> QED BY <1>1, FewerLedgers

-------------------------------------------------------------------------------
LEMMA InitGapInv == RInit => GapInv
<1> SUFFICES ASSUME RInit PROVE GapInv
    OBVIOUS
<1>1. docs = <<>> /\ todo = <<>> /\ ends = 0 /\ DOMAIN docs = {} /\ todo \in Seq({})
    BY DEF RInit
<1>2. Listed /\ Ordered(todo) /\ Begun /\ Shaped
    <2>1. links \in Seq({})
        BY DEF RInit
    <2> QED BY <2>1, <1>1, EmptyIsOrdered, FS_EmptySet DEF Listed, Begun, Shaped, Of
<1>3. Gaps \ Pending = {} /\ \A r : LedgersWith(r) = {}
    BY <1>1 DEF Gaps, LedgersWith, Of
<1>4. Accounted
    BY <1>1, <1>3, FS_EmptySet DEF Accounted
<1>5. \A r : Files(r) = 0 /\ Slack(r) \in Nat
    BY <1>1 DEF Files, Slack
<1>6. Tallied
    BY <1>1, <1>3, <1>5, FS_EmptySet DEF Tallied, Even, Ahead
<1> QED BY <1>2, <1>4, <1>6 DEF GapInv

(* What was pending is the gap that is left behind, or the one file that is *)
(* not counted.                                                             *)
LEMMA EndAccounts ==
    ASSUME GapInv, docs' = docs, links' = links, todo' = <<>>, ends' = ends + 1
    PROVE  GapInv'
<1> USE DEF GapInv
<1>1. Listed' /\ Ordered(todo)' /\ Begun' /\ Shaped'
    <2>1. todo' \in Seq({})
        OBVIOUS
    <2>2. Listed' /\ Begun' /\ Shaped'
        BY <2>1 DEF Listed, Begun, Shaped, Of
    <2> QED BY <2>2, EmptyIsOrdered
<1>2. Accounted'
    <2>1. Pending' = {} /\ Gaps' = Gaps
        BY DEF Pending, Gaps, Of, Stored
    <2>2. PICK x : Pending \subseteq {x}
        BY DEF Pending
    <2>3. Gaps \subseteq (Gaps \ Pending) \cup {x}
        BY <2>2
    <2>4. /\ IsFiniteSet((Gaps \ Pending) \cup {x})
          /\ Cardinality((Gaps \ Pending) \cup {x}) <= Cardinality(Gaps \ Pending) + 1
        <3>1. Cardinality(Gaps \ Pending) \in Nat /\ IsFiniteSet(Gaps \ Pending)
            BY FiniteParts
        <3> HIDE DEF GapInv
        <3>2. /\ IsFiniteSet((Gaps \ Pending) \cup {x})
              /\ \/ Cardinality((Gaps \ Pending) \cup {x}) = Cardinality(Gaps \ Pending)
                 \/ Cardinality((Gaps \ Pending) \cup {x}) = Cardinality(Gaps \ Pending) + 1
            BY <3>1, FS_AddElement
        <3> QED BY <3>1, <3>2
    <2>5. /\ Cardinality(Gaps) <= Cardinality((Gaps \ Pending) \cup {x})
          /\ Cardinality((Gaps \ Pending) \cup {x}) \in Nat
        BY <2>3, <2>4, FS_Subset, FS_CardinalityType
    <2>6. Cardinality(Gaps) <= ends + 1
        <3>1. Cardinality(Gaps) \in Nat /\ Cardinality(Gaps \ Pending) \in Nat /\ ends \in Nat
              /\ Cardinality(Gaps \ Pending) <= ends
            BY FiniteParts DEF Shaped, Accounted
        <3> QED BY <3>1, <2>4, <2>5
    <2>7. Gaps' \ Pending' = Gaps
        BY <2>1
    <2> QED BY <2>6, <2>7 DEF Accounted
<1>3. Tallied'
    <2> SUFFICES ASSUME NEW r PROVE Even(r)' /\ Ahead(r)'
        BY DEF Tallied
    <2>1. Ahead(r)'
        BY DEF Ahead
    <2>2. SUFFICES ASSUME Counter(r) \in DOMAIN docs => docs[Counter(r)] # Void
                   PROVE  Cardinality(LedgersWith(r)') <= Files(r)' + Slack(r)'
        BY <2>1 DEF Even
    <2>3. Files(r)' = Files(r) /\ LedgersWith(r)' = LedgersWith(r)
        BY DEF Files, LedgersWith, Of
    <2>4. Files(r) \in Nat /\ Cardinality(LedgersWith(r)) \in Nat
        BY <2>2, FilesAreNumbers, FiniteParts
    <2>5. Slack(r)' = ends + 1
        BY DEF Slack, Owed
    <2>6. Slack(r) \in Nat /\ Slack(r) <= ends + 1
        BY DEF Slack, Shaped
    <2>7. Cardinality(LedgersWith(r)) <= Files(r) + Slack(r)
        BY <2>2 DEF Tallied, Even
    <2>8. Cardinality(LedgersWith(r)) <= Files(r) + (ends + 1)
        <3>1. ends \in Nat
            BY DEF Shaped
        <3> QED BY <3>1, <2>4, <2>6, <2>7
    <2> QED BY <2>3, <2>5, <2>8
<1> QED BY <1>1, <1>2, <1>3

(* A request begins: nothing is written yet, and so nothing is owed.        *)
LEMMA BeginAccounts ==
    ASSUME GapInv, todo = <<>>, docs' = docs, links' = links, ends' = ends,
           NEW S, todo' \in Seq(S), Ordered(todo'),
           todo' # <<>> => Writes(Head(todo'), "artifacts") \/ Writes(Head(todo'), "models")
    PROVE  GapInv'
<1> USE DEF GapInv
<1>1. Listed' /\ Ordered(todo)' /\ Shaped'
    BY DEF Listed, Shaped, Of
<1>2. Begun'
    BY DEF Begun, Writes
<1>3. Accounted'
    <2>1. Pending = {} /\ Gaps' = Gaps
        BY DEF Pending, Gaps, Of, Stored
    <2> QED BY <2>1, FewerGaps
<1>4. Tallied'
    <2> SUFFICES ASSUME NEW r PROVE Even(r)' /\ Ahead(r)'
        BY DEF Tallied
    <2>1. Ahead(r)'
        BY DEF Ahead, Writes
    <2>2. LedgersWith(r)' \subseteq LedgersWith(r)
        BY DEF LedgersWith, Of
    <2>3. ~Owed(r)
        BY DEF Owed
    <2>4. Even(r)
        BY DEF Tallied
    <2> QED BY <2>1, <2>2, <2>3, <2>4, StaysEven
<1> QED BY <1>1, <1>2, <1>3, <1>4

LEMMA IngestAccounts ==
    ASSUME GapInv, NEW n \in Names, NEW c \in Contents, Ingest(n, c)
    PROVE  GapInv'
<1>1. CASE Damaged("artifacts")
    BY <1>1, EndAccounts DEF Ingest, End, Enter
<1>2. CASE ~Damaged("artifacts")
    <2> DEFINE doc == [key |-> n, version |-> VersionOf("artifacts", n) + 1]
               a == WriteDoc(Document("artifacts", c), doc)
               b == WriteDoc(Blob(c, n), [content |-> c])
               s == <<a, b>>
    <2>1. todo = <<>> /\ todo' = s /\ docs' = docs /\ links' = links /\ ends' = ends
        BY <1>2 DEF Ingest, Enter, Begins, IngestWrites, WriteBlob
    <2>2. /\ a.do = "put" /\ a.at = Document("artifacts", c) /\ a.at[1] = "artifacts" /\ a.at[2] = c
          /\ a.doc = doc /\ doc.key = n /\ "void" \notin DOMAIN doc
          /\ b.do = "put" /\ b.at = Blob(c, n) /\ b.at[1] = "blobs" /\ "void" \notin DOMAIN b.doc
        BY DEF WriteDoc, Document, Blob
    <2>3. s \in Seq({a, b}) /\ Len(s) = 2 /\ s[1] = a /\ s[2] = b /\ Head(s) = a
        OBVIOUS
    <2> HIDE DEF a, b, s, doc
    <2>4. Proper(a) /\ Proper(b)
        BY <2>2, NotVoid DEF Proper, Writes
    <2>5. Completes(a, b)
        BY <2>2 DEF Completes, Writes
    <2>6. Writes(a, "artifacts") /\ ~Writes(b, "artifacts") /\ ~Writes(b, "models") /\ ~Counting(a)
          /\ ~Writes(a, "coverage_ledger") /\ ~Writes(b, "coverage_ledger")
          /\ ~Writes(a, "unsupported_constructs") /\ ~Writes(b, "unsupported_constructs")
        BY <2>2 DEF Writes, Counting
    <2>7. 1..Len(s) = {1, 2}
        BY <2>3
    <2>8. Ordered(s)
        <3>1. \A i \in 1..Len(s) : Proper(s[i]) /\ (i < Len(s) => i = 1)
            BY <2>3, <2>4, <2>7
        <3>2. \A i, j \in 1..Len(s) : i < j => i = 1
            BY <2>7
        <3>3. 1 < Len(s) /\ 1 + 1 = 2
            BY <2>3
        <3> QED BY <2>3, <2>5, <2>6, <2>7, <3>1, <3>2, <3>3 DEF Ordered
    <2> QED BY <2>1, <2>3, <2>6, <2>8, BeginAccounts
<1> QED BY <1>1, <1>2

(* What an analysis writes: a model, its link, its ledger, and a count for  *)
(* each reason of the ledger.                                               *)
LEMMA AnalyzeIsOrdered ==
    ASSUME NEW c \in Contents
    PROVE  /\ Ordered(AnalyzeWrites(c))
           /\ \E S : AnalyzeWrites(c) \in Seq(S)
           /\ Writes(Head(AnalyzeWrites(c)), "models")
<1> DEFINE doc == [key |-> c, version |-> VersionOf("models", c) + 1]
           m == WriteDoc(Document("models", ModelOf[c]), doc)
           l == Link(c, ModelOf[c])
           w == WriteDoc(Document("coverage_ledger", c), ComputeCoverage(c))
           t == Counts(c)
           s == <<m, l, w>> \o t
<1>0. PICK S : \E n \in Nat : /\ t \in [1..n -> S]
                              /\ \A i \in 1..n : t[i].do = "count"
                              /\ \A r \in Reasons(c) : \E i \in 1..n : t[i].reason = r
    BY CountsAreCounts
<1>1. PICK n \in Nat : /\ t \in [1..n -> S]
                       /\ \A i \in 1..n : t[i].do = "count"
                       /\ \A r \in Reasons(c) : \E i \in 1..n : t[i].reason = r
    BY <1>0
<1>2. /\ m.do = "put" /\ m.at = Document("models", ModelOf[c]) /\ m.at[1] = "models" /\ m.at[2] = ModelOf[c]
      /\ m.doc = doc /\ doc.key = c /\ "void" \notin DOMAIN doc
      /\ l.do = "link" /\ l.edge = <<c, ModelOf[c]>>
      /\ w.do = "put" /\ w.at = Document("coverage_ledger", c) /\ w.at[1] = "coverage_ledger" /\ w.at[2] = c
    BY DEF WriteDoc, Document, Link
<1>3. "void" \notin DOMAIN w.doc /\ DOMAIN w.doc.reasons = Reasons(c)
    <2>1. w.doc = ComputeCoverage(c)
        BY DEF WriteDoc
    <2> QED BY <2>1 DEF ComputeCoverage
<1>4. AnalyzeWrites(c) = s
    BY DEF AnalyzeWrites
<1> HIDE DEF doc, m, l, w, t
<1>5. /\ s \in Seq(S \cup {m, l, w}) /\ Len(s) = 3 + n /\ s[1] = m /\ s[2] = l /\ s[3] = w /\ Head(s) = m
      /\ \A i \in 4..(3 + n) : s[i] = t[i - 3]
    <2>1. t \in Seq(S \cup {m, l, w}) /\ <<m, l, w>> \in Seq(S \cup {m, l, w}) /\ Len(t) = n
        BY <1>1
    <2> QED BY <2>1
<1>6. \A i \in 4..(3 + n) : s[i].do = "count"
    <2> TAKE i \in 4..(3 + n)
    <2>1. i - 3 \in 1..n
        OBVIOUS
    <2> QED BY <2>1, <1>1, <1>5
<1>7. \A i \in 1..Len(s) : i = 1 \/ i = 2 \/ i = 3 \/ i \in 4..(3 + n)
    BY <1>5
<1> HIDE DEF s
<1>8. Proper(m) /\ Proper(l) /\ Proper(w) /\ Completes(m, l) /\ Completes(l, w)
    BY <1>2, <1>3, NotVoid DEF Proper, Completes, Writes
<1>9. \A e : e.do = "count" => Proper(e) /\ Completes(w, e) /\ \A f : f.do = "count" => Completes(f, e)
    BY <1>2 DEF Proper, Completes, Writes
<1>10. \A i \in 1..Len(s) : Proper(s[i])
    BY <1>5, <1>6, <1>7, <1>8, <1>9
<1>11. \A i \in 1..Len(s) : i < Len(s) => Completes(s[i], s[i + 1])
    <2> SUFFICES ASSUME NEW i \in 1..Len(s), i < Len(s) PROVE Completes(s[i], s[i + 1])
        OBVIOUS
    <2>1. CASE i = 1
        BY <2>1, <1>5, <1>8
    <2>2. CASE i = 2
        BY <2>2, <1>5, <1>8
    <2>3. CASE i = 3
        <3>1. i + 1 \in 4..(3 + n)
            BY <2>3, <1>5
        <3> QED BY <2>3, <3>1, <1>5, <1>6, <1>9
    <2>4. CASE i \in 4..(3 + n)
        <3>1. i + 1 \in 4..(3 + n)
            BY <2>4, <1>5
        <3> QED BY <2>4, <3>1, <1>6, <1>9
    <2> QED BY <2>1, <2>2, <2>3, <2>4, <1>7
<1>12. ~Writes(l, "artifacts") /\ ~Writes(l, "models") /\ ~Writes(w, "artifacts") /\ ~Writes(w, "models")
       /\ Writes(m, "models") /\ ~Writes(m, "coverage_ledger") /\ ~Writes(l, "coverage_ledger")
       /\ ~Counting(m) /\ ~Counting(l) /\ ~Writes(m, "unsupported_constructs")
       /\ ~Writes(l, "unsupported_constructs") /\ ~Writes(w, "unsupported_constructs")
    BY <1>2 DEF Writes, Counting
<1>13. \A e, family : e.do = "count" => ~Writes(e, family)
    BY DEF Writes
<1>14. \A i \in 1..Len(s) : Writes(s[i], "artifacts") \/ Writes(s[i], "models") => i < Len(s)
    BY <1>5, <1>6, <1>7, <1>12, <1>13
<1>15. \A i, j \in 1..Len(s) : i < j /\ Counting(s[i]) => s[j].do = "count"
    <2> SUFFICES ASSUME NEW i \in 1..Len(s), NEW j \in 1..Len(s), i < j, Counting(s[i])
                 PROVE  s[j].do = "count"
        OBVIOUS
    <2>1. i \notin {1, 2}
        BY <1>5, <1>12
    <2>2. j \in 4..(3 + n)
        BY <2>1, <1>5
    <2> QED BY <2>2, <1>6
<1>16. \A i \in 1..Len(s) : Writes(s[i], "coverage_ledger") =>
          \A r \in DOMAIN s[i].doc.reasons : \E j \in 1..Len(s) : s[j].do = "count" /\ s[j].reason = r
    <2> SUFFICES ASSUME NEW i \in 1..Len(s), Writes(s[i], "coverage_ledger"),
                        NEW r \in DOMAIN s[i].doc.reasons
                 PROVE  \E j \in 1..Len(s) : s[j].do = "count" /\ s[j].reason = r
        OBVIOUS
    <2>1. i = 3 /\ s[i] = w
        BY <1>5, <1>6, <1>7, <1>12, <1>13
    <2>2. PICK j \in 1..n : t[j].reason = r
        BY <2>1, <1>1, <1>3
    <2>3. j + 3 \in 4..(3 + n) /\ (j + 3) - 3 = j
        OBVIOUS
    <2>4. j + 3 \in 1..Len(s) /\ s[j + 3] = t[j] /\ s[j + 3].do = "count"
        BY <2>3, <1>5, <1>6
    <2> QED BY <2>2, <2>4
<1>17. \A i \in 1..Len(s) : ~Writes(s[i], "unsupported_constructs")
    BY <1>5, <1>6, <1>7, <1>12, <1>13
<1>18. Ordered(s)
    BY <1>10, <1>11, <1>14, <1>15, <1>16, <1>17 DEF Ordered
<1> QED BY <1>4, <1>5, <1>12, <1>18

LEMMA AnalyzeAccounts ==
    ASSUME GapInv, NEW c \in Contents, Analyze(c)
    PROVE  GapInv'
<1>1. todo = <<>>
    BY DEF Analyze, Enter
<1>2. CASE docs' = docs /\ links' = links /\ todo' = <<>> /\ ends' = ends + 1
    BY <1>2, EndAccounts
<1>3. CASE docs' = docs /\ links' = links /\ todo' = <<>> /\ ends' = ends
    <2>1. todo' \in Seq({})
        BY <1>3
    <2> QED BY <1>1, <1>3, <2>1, EmptyIsOrdered, BeginAccounts
<1>4. CASE docs' = docs /\ links' = links /\ todo' = AnalyzeWrites(c) /\ ends' = ends
    BY <1>1, <1>4, AnalyzeIsOrdered, BeginAccounts
<1> QED BY <1>2, <1>3, <1>4 DEF Analyze, End, Begins

-------------------------------------------------------------------------------
(* The steps of a request. *)
Gap(k) ==
    /\ k \in DOMAIN docs
    /\ \/ k[1] # "blobs" /\ docs[k] = Void
       \/ k[1] = "artifacts" /\ docs[k] # Void /\ ~Stored(Blob(k[2], docs[k].key))
       \/ k[1] = "models" /\ docs[k] # Void /\ \A i \in DOMAIN links : links[i] # <<docs[k].key, k[2]>>

LEMMA GapsAreGaps == \A k : (k \in Gaps <=> Gap(k)) /\ (k \in Gaps' <=> Gap(k)')
BY DEF Gaps, Gap, Of

LEMMA BlobsAreBlobs == \A c, n : Blob(c, n)[1] = "blobs" /\ Blob(c, n)[2] = c
BY DEF Blob

LEMMA DocumentsAreDocuments == \A c, what : Document(what, c)[1] = what /\ Document(what, c)[2] = c
BY DEF Document

(* The first write is well formed, and what follows it completes it.        *)
LEMMA FirstOfTodo ==
    ASSUME GapInv, todo # <<>>
    PROVE  /\ Proper(Head(todo)) /\ Ordered(Tail(todo)) /\ \E S : Tail(todo) \in Seq(S)
           /\ Tail(todo) # <<>> => /\ Completes(Head(todo), Head(Tail(todo)))
                                   /\ ~Writes(Head(Tail(todo)), "unsupported_constructs")
           /\ Writes(Head(todo), "artifacts") \/ Writes(Head(todo), "models") => Tail(todo) # <<>>
           /\ Counting(Head(todo)) => \A i \in 1..Len(Tail(todo)) : Tail(todo)[i].do = "count"
           /\ Writes(Head(todo), "coverage_ledger") =>
                  \A r \in DOMAIN Head(todo).doc.reasons :
                      \E i \in 1..Len(Tail(todo)) : Tail(todo)[i].do = "count" /\ Tail(todo)[i].reason = r
<1>1. PICK S : todo \in Seq(S)
    BY DEF GapInv, Listed
<1> DEFINE s == todo
           t == Tail(todo)
<1>2. /\ Head(s) = s[1] /\ 1 \in 1..Len(s) /\ Len(s) \in Nat /\ Len(t) = Len(s) - 1 /\ t \in Seq(S)
      /\ \A i \in 1..Len(t) : t[i] = s[i + 1] /\ i + 1 \in 1..Len(s) /\ i + 1 > 1
      /\ (t # <<>> => Len(s) > 1 /\ Head(t) = s[2] /\ 2 \in 1..Len(s))
    BY <1>1, PropertyOfFirst
<1>3. Ordered(s) /\ Ordered(t)
    BY <1>1, TailIsOrdered DEF GapInv
<1> HIDE DEF s, t
<1>5. Proper(Head(s))
    BY <1>2, <1>3 DEF Ordered
<1>6. t # <<>> => Completes(s[1], s[1 + 1]) /\ ~Writes(s[2], "unsupported_constructs")
    BY <1>2, <1>3 DEF Ordered
<1>7. Writes(Head(s), "artifacts") \/ Writes(Head(s), "models") => t # <<>>
    <2> SUFFICES ASSUME Writes(s[1], "artifacts") \/ Writes(s[1], "models") PROVE t # <<>>
        BY <1>2
    <2>1. 1 < Len(s)
        BY <1>2, <1>3 DEF Ordered
    <2>2. Len(t) # 0
        BY <2>1, <1>2
    <2> QED BY <2>2
<1>8. Counting(Head(s)) => \A i \in 1..Len(t) : t[i].do = "count"
    BY <1>2, <1>3 DEF Ordered
<1>9. Writes(Head(s), "coverage_ledger") =>
          \A r \in DOMAIN Head(s).doc.reasons : \E i \in 1..Len(t) : t[i].do = "count" /\ t[i].reason = r
    <2> SUFFICES ASSUME Writes(s[1], "coverage_ledger"), NEW r \in DOMAIN s[1].doc.reasons
                 PROVE  \E i \in 1..Len(t) : t[i].do = "count" /\ t[i].reason = r
        BY <1>2
    <2>1. PICK j \in 1..Len(s) : s[j].do = "count" /\ s[j].reason = r
        BY <1>2, <1>3 DEF Ordered
    <2>2. j # 1
        BY <2>1 DEF Writes
    <2>3. j - 1 \in 1..Len(t) /\ (j - 1) + 1 = j
        BY <2>2, <1>2
    <2>4. t[j - 1] = s[j]
        BY <2>3, <1>2
    <2> QED BY <2>1, <2>3, <2>4
<1> QED BY <1>2, <1>3, <1>5, <1>6, <1>7, <1>8, <1>9 DEF s, t

(* A document is written, empty or whole. *)
LEMMA ShapedByWrite ==
    ASSUME Shaped, NEW at, NEW doc, With(at, doc), ends' = ends, links' = links,
           at[1] # "blobs" => at = Document(at[1], at[2]),
           at[1] = "unsupported_constructs" /\ doc # Void => doc.files \in Nat
    PROVE  Shaped'
<1>1. /\ DOMAIN docs' = DOMAIN docs \cup {at} /\ docs'[at] = doc
      /\ \A k \in DOMAIN docs : k # at => docs'[k] = docs[k]
    BY DEF With
<1>2. IsFiniteSet(DOMAIN docs')
    BY <1>1, FS_AddElement DEF Shaped
<1> QED BY <1>1, <1>2 DEF Shaped, Of

LEMMA TruncateAccounts == ASSUME GapInv, Truncate PROVE GapInv'
<1> DEFINE h == Head(todo)
           e == [do |-> "fill", at |-> h.at, doc |-> h.doc]
<1>1. todo # <<>> /\ todo' = <<e>> \o Tail(todo) /\ h.do = "put" /\ With(h.at, Void)
      /\ ends' = ends /\ links' = links
    BY DEF Truncate, Does, Next1
<1>2. PICK S : todo \in Seq(S)
    BY DEF GapInv, Listed
<1>3. Ordered(todo)'
    BY <1>1, <1>2, FillIsOrdered DEF GapInv
<1>4. e.do = "fill" /\ e.at = h.at /\ e.doc = h.doc /\ Proper(h)
    BY <1>1, FirstOfTodo
<1> HIDE DEF e
<1>5. /\ todo' # <<>> /\ Head(todo') = e /\ Len(todo') = Len(todo) /\ h = todo[1] /\ todo'[1] = e
      /\ \A i \in 1..Len(todo) : i # 1 => todo'[i] = todo[i]
      /\ \E U : todo' \in Seq(U)
    <2>1. todo \in Seq(S \cup {e}) /\ Tail(todo) \in Seq(S \cup {e}) /\ <<e>> \in Seq(S \cup {e}) /\ Len(<<e>>) = 1
        BY <1>1, <1>2
    <2> QED BY <2>1, <1>1
<1> HIDE DEF h
<1>6. /\ DOMAIN docs' = DOMAIN docs \cup {h.at} /\ docs'[h.at] = Void
      /\ \A k \in DOMAIN docs : k # h.at => docs'[k] = docs[k]
    BY <1>1 DEF With
<1>7. Listed' /\ Shaped'
    BY <1>1, <1>4, <1>5, ShapedByWrite DEF Listed, GapInv, Proper, h
<1>8. \A k : Stored(k) /\ k # h.at => Stored(k)' /\ docs'[k] = docs[k]
    BY <1>6 DEF Stored
<1>9. Begun'
    <2> DEFINE a == Document("artifacts", h.at[2])
    <2>1. ASSUME Writes(e, "blobs")
          PROVE  a \in DOMAIN docs' /\ docs'[a] # Void /\ h.at = Blob(h.at[2], docs'[a].key)
        <3>1. Writes(h, "blobs")
            BY <2>1, <1>1, <1>4 DEF Writes
        <3>2. a \in DOMAIN docs /\ docs[a] # Void /\ h.at = Blob(h.at[2], docs[a].key)
            BY <3>1, <1>1 DEF GapInv, Begun, Stored, h
        <3>3. a # h.at
            BY <3>1, DocumentsAreDocuments DEF Writes
        <3> QED BY <3>2, <3>3, <1>6
    <2> QED BY <2>1, <1>4, <1>5 DEF Begun, Stored
<1>10. Accounted'
    <2>1. Pending' = Pending /\ Pending = IF h.at[1] = "blobs" THEN {Document("artifacts", h.at[2])} ELSE {h.at}
        BY <1>1, <1>4, <1>5 DEF Pending, h
    <2> SUFFICES ASSUME NEW k, k \in Gaps', k \notin Pending PROVE k \in Gaps
        BY <2>1, <1>1, FewerGaps DEF GapInv
    <2>2. Gap(k)' /\ k[1] # "blobs"
        BY GapsAreGaps DEF Gap
    <2>3. k # h.at
        BY <2>1, <2>2
    <2>4. k \in DOMAIN docs /\ docs'[k] = docs[k] /\ k = Document(k[1], k[2])
        BY <2>2, <2>3, <1>6 DEF Gap, GapInv, Shaped
    <2>5. ASSUME k[1] = "artifacts", Stored(Blob(k[2], docs[k].key)) PROVE Stored(Blob(k[2], docs[k].key))'
        <3>1. Blob(k[2], docs[k].key) # h.at
            <4> SUFFICES ASSUME Blob(k[2], docs[k].key) = h.at PROVE FALSE
                OBVIOUS
            <4>1. h.at[1] = "blobs" /\ h.at[2] = k[2]
                BY BlobsAreBlobs
            <4> QED BY <4>1, <2>1, <2>4, <2>5
        <3>2. \A b : Stored(b) /\ b # h.at => Stored(b)'
            BY <1>8
        <3> QED BY <3>1, <2>4, <2>5, <1>6 DEF Stored, Blob
    <2>6. Gap(k)
        BY <2>2, <2>4, <2>5, <1>1 DEF Gap
    <2> QED BY <2>6, GapsAreGaps
<1>11. Tallied'
    <2> SUFFICES ASSUME NEW r PROVE Even(r)' /\ Ahead(r)'
        BY DEF Tallied
    <2>1. LedgersWith(r)' \subseteq LedgersWith(r)
        BY <1>6 DEF LedgersWith, Of
    <2>2. Even(r) /\ Ahead(r) /\ Shaped
        BY DEF GapInv, Tallied
    <2>3. Ahead(r)'
        <3> SUFFICES ASSUME Writes(e, "unsupported_constructs"), e.at = Counter(r)
                     PROVE  Cardinality(LedgersWith(r)') <= e.doc.files + ends'
            BY <1>5 DEF Ahead
        <3>1. Writes(h, "unsupported_constructs")
            BY <1>1, <1>4 DEF Writes
        <3>2. h.doc.files \in Nat /\ Cardinality(LedgersWith(r)) <= h.doc.files + ends
            BY <3>1, <2>2, <1>1, <1>4 DEF Ahead, Proper, h
        <3> QED BY <3>2, <2>1, <2>2, <1>1, <1>4, StaysAhead
    <2>4. CASE h.at = Counter(r)
        BY <2>3, <2>4, <1>6 DEF Even
    <2>5. CASE h.at # Counter(r)
        <3>1. \A family : \A i \in 1..Len(todo) : Writes(todo'[i], family) <=> Writes(todo[i], family)
            BY <1>1, <1>4, <1>5 DEF Writes, h
        <3>2. ASSUME Owed(r) PROVE Owed(r)'
            <4>1. PICK i \in 1..Len(todo) : \/ todo[i].do = "count" /\ todo[i].reason = r
                                            \/ todo[i].do = "put" /\ todo[i].at = Counter(r)
                BY <3>2 DEF Owed
            <4>2. i # 1
                BY <4>1, <2>5, <1>1, <1>5
            <4>3. todo'[i] = todo[i]
                BY <4>2, <1>5
            <4> QED BY <4>1, <4>3, <3>1, <3>2, <1>5 DEF Owed
        <3>3. /\ Counter(r) \in DOMAIN docs' <=> Counter(r) \in DOMAIN docs
              /\ Counter(r) \in DOMAIN docs => docs'[Counter(r)] = docs[Counter(r)]
            BY <2>5, <1>6
        <3> QED BY <2>1, <2>2, <2>3, <3>2, <3>3, <1>1, StaysEven
    <2> QED BY <2>4, <2>5
<1> QED BY <1>3, <1>7, <1>9, <1>10, <1>11 DEF GapInv

(* After the first write come the others. *)
LEMMA TailAccounts ==
    ASSUME GapInv, todo # <<>>, todo' = Tail(todo)
    PROVE  /\ Listed' /\ Ordered(todo)' /\ \A r : Ahead(r)'
           /\ \A r : Owed(r) /\ ~(Head(todo).do = "count" /\ Head(todo).reason = r)
                             /\ ~(Head(todo).do = "put" /\ Head(todo).at = Counter(r)) => Owed(r)'
<1>1. PICK S : todo \in Seq(S)
    BY DEF GapInv, Listed
<1>2. /\ Head(todo) = todo[1] /\ 1 \in 1..Len(todo) /\ Len(todo) \in Nat /\ Len(todo') = Len(todo) - 1
      /\ \A i \in 1..Len(todo') : todo'[i] = todo[i + 1] /\ i + 1 \in 1..Len(todo)
    BY <1>1, PropertyOfFirst
<1>3. Listed' /\ Ordered(todo)' /\ \A r : Ahead(r)'
    BY FirstOfTodo DEF Listed, Ahead
<1>4. ASSUME NEW r, Owed(r), ~(Head(todo).do = "count" /\ Head(todo).reason = r),
             ~(Head(todo).do = "put" /\ Head(todo).at = Counter(r))
      PROVE  Owed(r)'
    <2>1. PICK i \in 1..Len(todo) : \/ todo[i].do = "count" /\ todo[i].reason = r
                                    \/ todo[i].do = "put" /\ todo[i].at = Counter(r)
        BY <1>4 DEF Owed
    <2>2. i # 1
        BY <2>1, <1>2, <1>4
    <2>3. i - 1 \in 1..Len(todo') /\ (i - 1) + 1 = i
        BY <2>2, <1>2
    <2>4. todo'[i - 1] = todo[i]
        BY <2>3, <1>2
    <2>5. \A j \in 1..Len(todo') : ~Writes(todo'[j], "coverage_ledger")
        BY <1>2, <1>4 DEF Owed
    <2> QED BY <2>1, <2>3, <2>4, <2>5 DEF Owed
<1> QED BY <1>3, <1>4

LEMMA FillAccounts == ASSUME GapInv, Fill PROVE GapInv'
<1>1. PICK at, doc : at = Head(todo).at /\ doc = Head(todo).doc
    OBVIOUS
<1>2. /\ todo # <<>> /\ todo' = Tail(todo) /\ Head(todo).do = "fill" /\ With(at, doc)
      /\ ends' = ends /\ links' = links
    BY <1>1 DEF Fill, Does, Next1
<1>3. /\ doc # Void /\ (at[1] # "blobs" => at = Document(at[1], at[2]))
      /\ (at[1] = "unsupported_constructs" => doc.files \in Nat)
      /\ \A family : Writes(Head(todo), family) <=> at[1] = family
    BY <1>1, <1>2, FirstOfTodo DEF Proper, Writes
<1>4. /\ DOMAIN docs' = DOMAIN docs \cup {at} /\ docs'[at] = doc
      /\ \A k \in DOMAIN docs : k # at => docs'[k] = docs[k]
    BY <1>2 DEF With
<1>5. Listed' /\ Ordered(todo)' /\ Shaped' /\ \A r : Ahead(r)'
    BY <1>2, <1>3, TailAccounts, ShapedByWrite DEF GapInv
<1>6. PICK f : f = Head(Tail(todo))
    OBVIOUS
<1>7. /\ todo' # <<>> =>
            /\ Writes(f, "blobs") <=> at[1] = "artifacts"
            /\ at[1] = "artifacts" => f.at = Blob(at[2], doc.key)
            /\ f.do = "link" <=> at[1] = "models"
            /\ at[1] = "models" => f.edge = <<doc.key, at[2]>>
      /\ at[1] \in {"artifacts", "models"} => todo' # <<>>
    <2>1. at[1] \in {"artifacts", "models"} => todo' # <<>>
        BY <1>2, <1>3, FirstOfTodo
    <2>2. todo' # <<>> => Completes(Head(todo), f)
        BY <1>2, <1>6, FirstOfTodo
    <2> QED BY <2>1, <2>2, <1>1, <1>3 DEF Completes
<1>8. Begun'
    <2>1. ASSUME todo' # <<>>, Writes(f, "blobs")
          PROVE  LET a == Document("artifacts", f.at[2])
                 IN  a \in DOMAIN docs' /\ docs'[a] # Void /\ f.at = Blob(f.at[2], docs'[a].key)
        <3>1. at = Document("artifacts", f.at[2]) /\ f.at = Blob(at[2], doc.key) /\ f.at[2] = at[2]
            BY <2>1, <1>3, <1>7, BlobsAreBlobs
        <3> QED BY <3>1, <1>3, <1>4
    <2>2. ASSUME todo' # <<>>, f.do = "link"
          PROVE  LET m == Document("models", f.edge[2])
                 IN  m \in DOMAIN docs' /\ docs'[m] # Void /\ f.edge = <<docs'[m].key, f.edge[2]>>
        BY <2>2, <1>3, <1>4, <1>7
    <2> QED BY <2>1, <2>2, <1>2, <1>6 DEF Begun, Stored
<1>9. Accounted'
    <2> SUFFICES ASSUME NEW k, k \in Gaps', k \notin Pending' PROVE k \in Gaps /\ k \notin Pending
        BY <1>2, FewerGaps DEF GapInv
    <2>1. Gap(k)' /\ k[1] # "blobs"
        BY GapsAreGaps DEF Gap
    <2>2. Pending = IF at[1] = "blobs" THEN {Document("artifacts", at[2])} ELSE {at}
        BY <1>1, <1>2 DEF Pending
    <2>3. k # at
        <3> SUFFICES ASSUME k = at PROVE FALSE
            OBVIOUS
        <3>1. at[1] \in {"artifacts", "models"}
            BY <2>1, <1>3, <1>4 DEF Gap
        <3>2. todo' # <<>> /\ Head(todo') = f
            BY <3>1, <1>2, <1>6, <1>7
        <3>3. CASE at[1] = "artifacts"
            <4>1. f.do \in {"put", "fill"} /\ f.at[1] = "blobs" /\ f.at[2] = at[2]
                BY <3>2, <3>3, <1>7, BlobsAreBlobs DEF Writes
            <4>2. Pending' = {Document("artifacts", at[2])}
                BY <3>2, <4>1 DEF Pending
            <4> QED BY <4>2, <3>3, <1>3
        <3>4. CASE at[1] = "models"
            <4>1. f.do = "link" /\ f.edge[2] = at[2]
                BY <3>2, <3>4, <1>7
            <4>2. Pending' = {Document("models", at[2])}
                BY <3>2, <4>1 DEF Pending
            <4> QED BY <4>2, <3>4, <1>3
        <3> QED BY <3>1, <3>3, <3>4
    <2>4. k \in DOMAIN docs /\ docs'[k] = docs[k] /\ k = Document(k[1], k[2])
        BY <2>1, <2>3, <1>4 DEF Gap, GapInv, Shaped
    <2>5. \A b : b \in DOMAIN docs /\ docs[b] # Void => b \in DOMAIN docs' /\ docs'[b] # Void
        BY <1>3, <1>4
    <2>6. Gap(k)
        BY <2>1, <2>4, <2>5, <1>2 DEF Gap, Stored
    <2>7. k \notin Pending
        <3> SUFFICES ASSUME at[1] = "blobs", k = Document("artifacts", at[2]) PROVE FALSE
            BY <2>2, <2>3
        <3>1. docs[k] # Void /\ at = Blob(at[2], docs[k].key)
            BY <1>1, <1>2, <1>3 DEF GapInv, Begun, Stored
        <3>2. k[1] = "artifacts" /\ k[2] = at[2]
            BY DocumentsAreDocuments
        <3>3. ~(Blob(k[2], docs[k].key) \in DOMAIN docs' /\ docs'[Blob(k[2], docs[k].key)] # Void)
            BY <2>1, <2>4, <3>1, <3>2 DEF Gap, Stored
        <3> QED BY <3>1, <3>2, <3>3, <1>3, <1>4
    <2> QED BY <2>6, <2>7, GapsAreGaps
<1>10. Tallied'
    <2> SUFFICES ASSUME NEW r PROVE Even(r)'
        BY <1>5 DEF Tallied
    <2>1. Even(r) /\ Ahead(r) /\ Shaped
        BY DEF GapInv, Tallied
    <2>2. CASE at = Counter(r)
        <3>1. at[1] = "unsupported_constructs"
            BY <2>2, DocumentsAreDocuments DEF Counter
        <3>2. LedgersWith(r)' \subseteq LedgersWith(r)
            BY <3>1, <1>4 DEF LedgersWith, Of
        <3>3. doc.files \in Nat /\ Cardinality(LedgersWith(r)) <= doc.files + ends
            BY <3>1, <2>1, <2>2, <1>1, <1>2, <1>3 DEF Ahead
        <3>4. Cardinality(LedgersWith(r)') <= doc.files + ends'
            BY <3>2, <3>3, <2>1, <1>2, StaysAhead
        <3>5. Files(r)' = doc.files
            BY <2>2, <1>4 DEF Files
        <3>6. Slack(r)' \in Nat /\ ends' <= Slack(r)' /\ ends' \in Nat
            BY <2>1, <1>2 DEF Slack, Shaped
        <3>7. Cardinality(LedgersWith(r)') \in Nat
            BY <3>2, <2>1, FewerLedgers
        <3>8. Cardinality(LedgersWith(r)') <= Files(r)' + Slack(r)'
            BY <3>3, <3>4, <3>5, <3>6, <3>7
        <3> QED BY <3>8 DEF Even
    <2>3. CASE at # Counter(r)
        <3>1. /\ Counter(r) \in DOMAIN docs' <=> Counter(r) \in DOMAIN docs
              /\ Counter(r) \in DOMAIN docs => docs'[Counter(r)] = docs[Counter(r)]
            BY <2>3, <1>4
        <3>2. Owed(r) => Owed(r)'
            BY <1>2, TailAccounts
        <3>3. CASE LedgersWith(r)' \subseteq LedgersWith(r)
            BY <3>1, <3>2, <3>3, <2>1, <1>2, StaysEven
        <3>4. CASE ~(LedgersWith(r)' \subseteq LedgersWith(r))
            <4>1. at[1] = "coverage_ledger" /\ r \in DOMAIN doc.reasons /\ LedgersWith(r)' \subseteq LedgersWith(r) \cup {at}
                BY <3>4, <1>4 DEF LedgersWith, Of
            <4>2. Owed(r)'
                <5>1. Writes(Head(todo), "coverage_ledger") /\ Counting(Head(todo))
                    BY <4>1, <1>3 DEF Counting
                <5>2. \A i \in 1..Len(todo') : todo'[i].do = "count"
                    BY <5>1, <1>2, FirstOfTodo
                <5>3. \E i \in 1..Len(todo') : todo'[i].do = "count" /\ todo'[i].reason = r
                    BY <5>1, <4>1, <1>1, <1>2, FirstOfTodo
                <5> QED BY <5>2, <5>3 DEF Owed, Writes
            <4>3. ~Owed(r)
                <5>1. PICK S : todo \in Seq(S)
                    BY DEF GapInv, Listed
                <5>2. Head(todo) = todo[1] /\ 1 \in 1..Len(todo)
                    BY <5>1, <1>2, PropertyOfFirst
                <5> QED BY <5>2, <4>1, <1>3 DEF Owed
            <4>4. Slack(r) = ends /\ Slack(r)' = ends + 1 /\ ends \in Nat
                BY <4>2, <4>3, <2>1, <1>2 DEF Slack, Shaped
            <4> SUFFICES ASSUME Counter(r) \in DOMAIN docs' => docs'[Counter(r)] # Void
                         PROVE  Cardinality(LedgersWith(r)') <= Files(r)' + Slack(r)'
                BY DEF Even
            <4>5. Files(r)' = Files(r) /\ Files(r) \in Nat
                BY <3>1, <2>1, FilesAreNumbers DEF Files
            <4>6. Cardinality(LedgersWith(r)) <= Files(r) + ends
                BY <3>1, <2>1, <4>4 DEF Even
            <4>7. /\ IsFiniteSet(LedgersWith(r) \cup {at}) /\ Cardinality(LedgersWith(r)) \in Nat
                  /\ Cardinality(LedgersWith(r) \cup {at}) <= Cardinality(LedgersWith(r)) + 1
                <5>1. IsFiniteSet(LedgersWith(r)) /\ Cardinality(LedgersWith(r)) \in Nat
                    BY <2>1, FiniteParts
                <5>2. /\ IsFiniteSet(LedgersWith(r) \cup {at})
                      /\ \/ Cardinality(LedgersWith(r) \cup {at}) = Cardinality(LedgersWith(r))
                         \/ Cardinality(LedgersWith(r) \cup {at}) = Cardinality(LedgersWith(r)) + 1
                    BY <5>1, FS_AddElement
                <5> QED BY <5>1, <5>2
            <4>8. /\ Cardinality(LedgersWith(r)') <= Cardinality(LedgersWith(r) \cup {at})
                  /\ Cardinality(LedgersWith(r)') \in Nat /\ Cardinality(LedgersWith(r) \cup {at}) \in Nat
                BY <4>1, <4>7, FS_Subset, FS_CardinalityType
            <4> QED BY <4>4, <4>5, <4>6, <4>7, <4>8
        <3> QED BY <3>3, <3>4
    <2> QED BY <2>2, <2>3
<1> QED BY <1>5, <1>8, <1>9, <1>10 DEF GapInv

(* A link leads to its model, and with it the model is whole. *)
LEMMA AppendLinkAccounts == ASSUME GapInv, AppendLink PROVE GapInv'
<1>1. PICK edge : edge = Head(todo).edge
    OBVIOUS
<1>2. /\ todo # <<>> /\ todo' = Tail(todo) /\ Head(todo).do = "link" /\ links' = Append(links, edge)
      /\ docs' = docs /\ ends' = ends
    BY <1>1 DEF AppendLink, Does, Next1
<1>3. PICK S : links \in Seq(S)
    BY DEF GapInv, Shaped
<1>4. /\ links' \in Seq(S \cup {edge}) /\ DOMAIN links \subseteq DOMAIN links'
      /\ \A i \in DOMAIN links : links'[i] = links[i]
      /\ \E i \in DOMAIN links' : links'[i] = edge
    <2>1. links \in Seq(S \cup {edge}) /\ links' = Append(links, edge)
        BY <1>2, <1>3
    <2> QED BY <2>1
<1>5. Listed' /\ Ordered(todo)' /\ \A r : Ahead(r)'
    BY <1>2, TailAccounts
<1>6. Shaped'
    BY <1>2, <1>4 DEF GapInv, Shaped, Of
<1>7. Begun'
    <2>1. Completes(Head(todo), Head(Tail(todo))) \/ todo' = <<>>
        BY <1>2, FirstOfTodo
    <2> QED BY <2>1, <1>2 DEF Begun, Completes, Writes
<1>8. Accounted'
    <2> SUFFICES ASSUME NEW k, k \in Gaps' PROVE k \in Gaps /\ k \notin Pending
        BY <1>2, FewerGaps DEF GapInv
    <2>1. Gap(k)'
        BY GapsAreGaps
    <2>2. Gap(k)
        BY <2>1, <1>2, <1>4 DEF Gap, Stored
    <2>3. Pending = {Document("models", edge[2])}
        BY <1>1, <1>2 DEF Pending
    <2>4. k # Document("models", edge[2])
        <3> SUFFICES ASSUME k = Document("models", edge[2]) PROVE FALSE
            OBVIOUS
        <3>1. docs[k] # Void /\ edge = <<docs[k].key, edge[2]>> /\ k[1] = "models" /\ k[2] = edge[2]
            BY <1>1, <1>2, DocumentsAreDocuments DEF GapInv, Begun, Stored
        <3> QED BY <3>1, <2>1, <1>2, <1>4 DEF Gap
    <2> QED BY <2>2, <2>3, <2>4, GapsAreGaps
<1>9. Tallied'
    <2> SUFFICES ASSUME NEW r PROVE Even(r)'
        BY <1>5 DEF Tallied
    <2>1. Even(r) /\ Shaped
        BY DEF GapInv, Tallied
    <2>2. LedgersWith(r)' \subseteq LedgersWith(r)
        BY <1>2 DEF LedgersWith, Of
    <2>3. Owed(r) => Owed(r)'
        BY <1>2, TailAccounts
    <2> QED BY <2>1, <2>2, <2>3, <1>2, StaysEven
<1> QED BY <1>5, <1>6, <1>7, <1>8, <1>9 DEF GapInv

LEMMA AddToCounterAccounts == ASSUME GapInv, AddToCounter PROVE GapInv'
<1>1. PICK r, cells : r = Head(todo).reason /\ cells = Head(todo).cells
    OBVIOUS
<1>2. todo # <<>> /\ Head(todo).do = "count"
    BY DEF AddToCounter, Does, Next1
<1>3. CASE docs' = docs /\ links' = links /\ todo' = <<>> /\ ends' = ends + 1
    BY <1>3, EndAccounts
<1>4. CASE /\ Counter(r) \in DOMAIN docs => docs[Counter(r)] # Void
           /\ todo' = <<WriteDoc(Counter(r), Higher(r, cells))>> \o Tail(todo)
           /\ docs' = docs /\ links' = links /\ ends' = ends
    <2>1. PICK w : w = WriteDoc(Counter(r), Higher(r, cells))
        OBVIOUS
    <2>2. PICK t, S : t = Tail(todo) /\ t \in Seq(S)
        BY <1>2, FirstOfTodo
    <2>3. Ordered(t) /\ \A i \in 1..Len(t) : t[i].do = "count"
        BY <1>2, <2>2, FirstOfTodo DEF Counting
    <2>4. /\ w.do = "put" /\ w.at = Counter(r) /\ "void" \notin DOMAIN w.doc /\ w.doc.files = Files(r) + 1
        BY <2>1 DEF WriteDoc, Higher, Files
    <2>5. Files(r) \in Nat
        BY <1>4, FilesAreNumbers DEF GapInv
    <2>6. Proper(w) /\ Writes(w, "unsupported_constructs")
        BY <2>4, <2>5, NotVoid, DocumentsAreDocuments DEF Proper, Writes, Counter
    <2>7. todo' = <<w>> \o t
        BY <1>4, <2>1, <2>2
    <2>8. /\ todo' # <<>> /\ Head(todo') = w /\ todo'[1] = w /\ 1 \in 1..Len(todo')
          /\ Len(todo') = Len(t) + 1 /\ Len(t) \in Nat
          /\ \A i \in 1..Len(t) : todo'[i + 1] = t[i] /\ i + 1 \in 1..Len(todo')
          /\ \A i \in 1..Len(todo') : i # 1 => todo'[i].do = "count"
          /\ \E U : todo' \in Seq(U)
        <3>1. t \in Seq(S \cup {w}) /\ <<w>> \in Seq(S \cup {w}) /\ Len(<<w>>) = 1
            BY <2>2
        <3>2. /\ todo' \in Seq(S \cup {w}) /\ todo'[1] = w /\ Len(todo') = Len(t) + 1 /\ Len(t) \in Nat
              /\ \A i \in 1..Len(t) : todo'[i + 1] = t[i]
              /\ \A i \in 1..Len(todo') : i # 1 => i - 1 \in 1..Len(t) /\ todo'[i] = t[i - 1]
            BY <3>1, <2>7
        <3>3. todo' # <<>> /\ Head(todo') = w /\ 1 \in 1..Len(todo')
            BY <3>2
        <3>4. \A i \in 1..Len(t) : i + 1 \in 1..Len(todo')
            BY <3>2
        <3>5. \A i \in 1..Len(todo') : i # 1 => todo'[i].do = "count"
            BY <3>2, <2>3
        <3> HIDE <2>7
        <3> QED BY <3>2, <3>3, <3>4, <3>5
    <2>9. Listed' /\ Ordered(todo)' /\ Shaped' /\ Begun'
        <3>1. Ordered(<<w>> \o t)
            BY <2>2, <2>3, <2>6, CounterIsOrdered
        <3>2. ~Writes(w, "blobs") /\ w.do # "link"
            BY <2>6, <2>4 DEF Writes
        <3>3. Begun'
            BY <3>2, <2>8 DEF Begun
        <3> QED BY <3>1, <3>3, <2>7, <2>8, <1>4 DEF Listed, GapInv, Shaped, Of
    <2>10. Accounted'
        <3>1. Pending = {} /\ Gaps' = Gaps
            BY <1>2, <1>4 DEF Pending, Gaps, Of, Stored
        <3> QED BY <3>1, <1>4, FewerGaps DEF GapInv
    <2>11. Tallied'
        <3> SUFFICES ASSUME NEW q PROVE Even(q)' /\ Ahead(q)'
            BY DEF Tallied
        <3>1. Even(q) /\ Even(r) /\ Shaped
            BY DEF GapInv, Tallied
        <3>2. LedgersWith(q)' \subseteq LedgersWith(q)
            BY <1>4 DEF LedgersWith, Of
        <3>3. ASSUME Owed(q) PROVE Owed(q)'
            <4>1. \A i \in 1..Len(todo') : ~Writes(todo'[i], "coverage_ledger")
                BY <2>4, <2>6, <2>8 DEF Writes
            <4>2. CASE q = r
                BY <4>1, <4>2, <2>4, <2>8 DEF Owed
            <4>3. CASE q # r
                <5>1. PICK U : todo \in Seq(U)
                    BY DEF GapInv, Listed
                <5>2. PICK i \in 1..Len(todo) : \/ todo[i].do = "count" /\ todo[i].reason = q
                                                \/ todo[i].do = "put" /\ todo[i].at = Counter(q)
                    BY <3>3 DEF Owed
                <5>3. i # 1
                    BY <5>1, <5>2, <4>3, <1>1, <1>2, PropertyOfFirst
                <5>4. i - 1 \in 1..Len(t) /\ (i - 1) + 1 = i
                    BY <5>1, <5>3, <1>2, <2>2, PropertyOfFirst
                <5>5. t[i - 1] = todo[i]
                    BY <5>1, <5>4, <1>2, <2>2, PropertyOfFirst
                <5>6. i \in 1..Len(todo') /\ todo'[i] = todo[i]
                    BY <5>4, <5>5, <2>8
                <5> QED BY <4>1, <5>2, <5>6 DEF Owed
            <4> QED BY <4>2, <4>3
        <3>4. Even(q)'
            BY <3>1, <3>2, <3>3, <1>4, StaysEven
        <3>5. ASSUME q = r PROVE Cardinality(LedgersWith(q)') <= w.doc.files + ends'
            <4>1. Cardinality(LedgersWith(r)) <= Files(r) + Slack(r)
                BY <3>1, <1>4 DEF Even
            <4>2. Slack(r) \in Nat /\ Slack(r) <= ends + 1 /\ ends \in Nat
                BY <3>1 DEF Slack, Shaped
            <4>3. Cardinality(LedgersWith(r)) \in Nat
                BY <3>1, FiniteParts
            <4>4. Cardinality(LedgersWith(r)) <= (Files(r) + 1) + ends
                BY <4>1, <4>2, <4>3, <2>5
            <4>5. w.doc.files \in Nat /\ Cardinality(LedgersWith(q)) <= w.doc.files + ends
                BY <4>4, <3>5, <2>4, <2>5
            <4> QED BY <4>5, <3>1, <3>2, <1>4, StaysAhead
        <3>6. Counter(q) = Counter(r) => q = r
            BY DocumentsAreDocuments DEF Counter
        <3> QED BY <3>4, <3>5, <3>6, <2>4, <2>8 DEF Ahead
    <2> QED BY <2>9, <2>10, <2>11 DEF GapInv
<1> QED BY <1>1, <1>3, <1>4 DEF AddToCounter, End, Next1

LEMMA NextGapInv == ASSUME GapInv, [RNext]_rvars PROVE GapInv'
<1>1. CASE docs' = docs /\ links' = links /\ todo' = todo /\ ends' = ends
    <2>1. Listed' /\ Ordered(todo)' /\ Begun' /\ Shaped'
        BY <1>1 DEF GapInv, Listed, Begun, Shaped, Of, Stored
    <2>2. Accounted'
        BY <1>1 DEF GapInv, Accounted, Gaps, Pending, Of, Stored
    <2>3. \A r : /\ LedgersWith(r)' = LedgersWith(r) /\ Files(r)' = Files(r)
                /\ Slack(r)' = Slack(r)
        BY <1>1 DEF LedgersWith, Files, Slack, Owed, Of
    <2>4. Tallied'
        BY <1>1, <2>3 DEF GapInv, Tallied, Even, Ahead
    <2> QED BY <2>1, <2>2, <2>4 DEF GapInv
<1>2. ASSUME NEW c \in Contents, Analyze(c) PROVE GapInv'
    BY <1>2, AnalyzeAccounts
<1>3. ASSUME NEW c \in Contents, NEW n \in Names, Ingest(n, c) PROVE GapInv'
    BY <1>3, IngestAccounts
<1>4. ASSUME NEW k, ReadAll(k) PROVE GapInv'
    BY <1>4, EndAccounts DEF ReadAll, End
<1>5. CASE Crash
    BY <1>5, EndAccounts DEF Crash, End
<1>6. CASE Restart
    BY <1>1, <1>6 DEF Restart
<1>7. CASE UNCHANGED rvars
    BY <1>1, <1>7 DEF rvars
<1> QED BY <1>2, <1>3, <1>4, <1>5, <1>6, <1>7, TruncateAccounts, FillAccounts, AppendLinkAccounts,
           AddToCounterAccounts DEF RNext

(* However the uploads and analyses are interleaved with the ends of the    *)
(* process, and whichever documents it damages, there is at most one gap    *)
(* for each end, and a counter that can be read is behind its ledgers by no *)
(* more (service.cpp:82-144, coverage.cpp:77-115, store.cpp:25-32).         *)
THEOREM OneGapPerEndHolds == RSpec => []OneGapPerEnd
<1>1. ASSUME GapInv PROVE OneGapPerEnd
    <2> SUFFICES ASSUME todo = <<>>
                 PROVE  Cardinality(Gaps) <= ends /\ \A k \in Of("unsupported_constructs") : Counted(k)
        BY DEF OneGapPerEnd
    <2>1. Gaps \ Pending = Gaps
        BY DEF Pending
    <2>2. Cardinality(Gaps) <= ends
        BY <1>1, <2>1 DEF GapInv, Accounted
    <2>3. ASSUME NEW k \in Of("unsupported_constructs"), Stored(k)
          PROVE  Cardinality(LedgersWith(k[2])) <= docs[k].files + ends
        <3>1. k = Counter(k[2])
            BY <1>1 DEF GapInv, Shaped, Of, Counter
        <3>2. ~Owed(k[2])
            BY DEF Owed
        <3>3. Even(k[2])
            BY <1>1 DEF GapInv, Tallied
        <3> QED BY <3>1, <3>2, <3>3, <2>3 DEF Even, Slack, Files, Stored
    <2> QED BY <2>2, <2>3 DEF Counted
<1> QED BY InitGapInv, NextGapInv, <1>1, PTL DEF RSpec
===============================================================================
