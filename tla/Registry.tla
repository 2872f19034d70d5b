------------------------------- MODULE Registry -------------------------------
(***************************************************************************)
(* Uploaded workbooks and what is learnt of them: the artifacts and models *)
(* of registry/registry.cpp, the files of uploads, and the ledgers and     *)
(* counters of platform/coverage.cpp, all documents of one store.          *)
(*                                                                         *)
(* A document is truncated and then written (db/store.cpp), so a process   *)
(* that ends in between leaves an empty one; reading that throws, and what *)
(* is thrown ends the process.  An upload and an analysis hold the mutex   *)
(* of the service until all they write is written; readers of coverage     *)
(* hold only that of the store, for one document at a time.                *)
(*                                                                         *)
(* The write after the truncation is one step here, as it is of what fits  *)
(* a page.  A kill inside the write of something larger leaves a beginning, *)
(* and one that parse() accepts is no document of this module; nor is a    *)
(* line of the log of provenance ever cut here (README, section 6).        *)
(***************************************************************************)
EXTENDS Naturals, Sequences, FiniteSets

CONSTANTS
    Names,      \* names of files
    Ext,        \* the extension of each name
    Contents,   \* what is uploaded; an artifact's id is the hash of it
    Opens,      \* the contents that extraction can read, by extension
    ModelOf,    \* the model found in a content: its id is the hash of it
    CellsOf,    \* the cells of a content, a sequence
    MaxOps, MaxCrashes  \* bounds on requests and crashes

VARIABLES
    docs,       \* the documents, by kind, id and extension
    links,      \* the log of provenance
    todo,       \* what the request that holds the mutex has yet to write
    running,         \* the process runs
    ops, crashes, ends  \* requests, crashes, and ends of the process for any reason

rvars == <<docs, links, todo, running, ops, crashes, ends>>

Void == [void |-> TRUE]     \* an empty document
Document(kind, id) == <<kind, id, "json">>
Blob(c, n) == <<"blobs", c, Ext[n]>>
Stored(k) == k \in DOMAIN docs /\ docs[k] # Void
Of(kind) == {k \in DOMAIN docs : k[1] = kind}
Damaged(kind) == \E k \in Of(kind) : docs[k] = Void

(* Mutant: the documents of the key are counted. *)
VersionOf_Count(kind, key) == Cardinality({k \in Of(kind) : docs[k].key = key})

(* version_of: the greatest version under the key, zero without one. *)
Versions(kind, key) == {0} \cup {docs[k].version : k \in {k \in Of(kind) : docs[k].key = key}}
VersionOf(kind, key) == CHOOSE v \in Versions(kind, key) : \A w \in Versions(kind, key) : w <= v

-------------------------------------------------------------------------------
(* Coverage: cells with a formula, and the reasons its formula is a hole.   *)
CellsWith(c, P(_)) == {i \in DOMAIN CellsOf[c] : P(CellsOf[c][i])}
Formulas(c) == CellsWith(c, LAMBDA x : x.kind = "formula")
Holes(c) == {i \in Formulas(c) : CellsOf[c][i].reasons # {}}
Reasons(c) == UNION {CellsOf[c][i].reasons : i \in Formulas(c)}

(* Only so many things go wrong in one file. *)
ASSUME ReasonsAssumption == \A c \in Contents : IsFiniteSet(Reasons(c))

HolesFor(c, r) == Cardinality({i \in Formulas(c) : r \in CellsOf[c][i].reasons})
Confidence(holes, formulas) ==
    CASE formulas = 0 \/ 50 * holes < formulas -> "high"
      [] 10 * holes < formulas -> "medium"
      [] OTHER -> "low"
ComputeCoverage(c) ==
    LET confidence == Confidence(Cardinality(Holes(c)), Cardinality(Formulas(c))) IN
    [total |-> Cardinality(CellsWith(c, LAMBDA x : x.kind # "none")),
     formulas |-> Cardinality(Formulas(c)),
     constants |-> Cardinality(CellsWith(c, LAMBDA x : x.kind = "constant")),
     holes |-> Cardinality(Holes(c)),
     reasons |-> [r \in Reasons(c) |-> HolesFor(c, r)],
     confidence |-> confidence,
     flags |-> {f \in {"high_uncovered_ratio", "external_refs_present"} :
                    \/ f = "high_uncovered_ratio" /\ confidence = "low"
                    \/ f = "external_refs_present" /\ "external_ref" \in Reasons(c)}]

-------------------------------------------------------------------------------
(* What a request writes, in order. *)
WriteDoc(at, doc) == [do |-> "put", at |-> at, doc |-> doc]
Link(from, to) == [do |-> "link", edge |-> <<from, to>>]
Count(r, cells) == [do |-> "count", reason |-> r, cells |-> cells]

(* Mutant: only new content is written to a file. *)
WriteBlob_New(c, n) == IF Stored(Document("artifacts", c)) THEN <<>> ELSE <<WriteDoc(Blob(c, n), [content |-> c])>>

WriteBlob(c, n) == <<WriteDoc(Blob(c, n), [content |-> c])>>
IngestWrites(n, c) ==
    <<WriteDoc(Document("artifacts", c), [key |-> n, version |-> VersionOf("artifacts", n) + 1])>> \o WriteBlob(c, n)

(* The reasons in the order of the map. *)
Counts(c) ==
    LET order == CHOOSE s \in [1..Cardinality(Reasons(c)) -> Reasons(c)] :
                    \A r \in Reasons(c) : \E i \in DOMAIN s : s[i] = r
    IN  [i \in DOMAIN order |-> Count(order[i], HolesFor(c, order[i]))]
AnalyzeWrites(c) ==
    <<WriteDoc(Document("models", ModelOf[c]), [key |-> c, version |-> VersionOf("models", c) + 1]),
      Link(c, ModelOf[c]),
      WriteDoc(Document("coverage_ledger", c), ComputeCoverage(c))>>
    \o Counts(c)

RInit ==
    /\ docs = <<>> /\ links = <<>> /\ todo = <<>> /\ running = TRUE
    /\ ops = 0 /\ crashes = 0 /\ ends = 0

(* The process ends; what it had yet to write is lost. *)
End == running' = FALSE /\ todo' = <<>> /\ ends' = ends + 1 /\ UNCHANGED <<docs, links>>
Crash == running /\ crashes < MaxCrashes /\ crashes' = crashes + 1 /\ End /\ UNCHANGED ops
Restart == ~running /\ running' = TRUE /\ UNCHANGED <<docs, links, todo, ops, crashes, ends>>

Begins(writes) == todo' = writes /\ UNCHANGED <<docs, links, running, ends>>
Enter == running /\ todo = <<>> /\ ops < MaxOps /\ ops' = ops + 1 /\ UNCHANGED crashes

Ingest(n, c) ==
    /\ Enter
    /\ IF Damaged("artifacts") THEN End ELSE Begins(IngestWrites(n, c))

(* Without the artifact, or a file that can be read, nothing is written.    *)
Artifact(c) == docs[Document("artifacts", c)]
Readable(c) == Stored(Blob(c, Artifact(c).key)) /\ <<c, Ext[Artifact(c).key]>> \in Opens
Analyze(c) ==
    /\ Enter
    /\ Document("artifacts", c) \in DOMAIN docs
    /\ CASE Artifact(c) = Void -> End
         [] Artifact(c) # Void /\ ~Readable(c) -> Begins(<<>>)
         [] Artifact(c) # Void /\ Readable(c) ->
                IF Damaged("models") THEN End ELSE Begins(AnalyzeWrites(c))

-------------------------------------------------------------------------------
(* The steps of the request that holds the mutex. *)
Next1 == Head(todo)
Does(what) == running /\ todo # <<>> /\ Next1.do = what
With(at, doc) == docs' = [k \in DOMAIN docs \cup {at} |-> IF k = at THEN doc ELSE docs[k]]
Truncate ==
    /\ Does("put") /\ With(Next1.at, Void)
    /\ todo' = <<[do |-> "fill", at |-> Next1.at, doc |-> Next1.doc]>> \o Tail(todo)
    /\ UNCHANGED <<links, running, ops, crashes, ends>>
Fill ==
    /\ Does("fill") /\ With(Next1.at, Next1.doc)
    /\ todo' = Tail(todo)
    /\ UNCHANGED <<links, running, ops, crashes, ends>>
AppendLink ==
    /\ Does("link") /\ links' = Append(links, Next1.edge)
    /\ todo' = Tail(todo)
    /\ UNCHANGED <<docs, running, ops, crashes, ends>>

(* A counter is read and written anew, one file and some cells higher.      *)
Counter(r) == Document("unsupported_constructs", r)
Higher(r, cells) ==
    IF Counter(r) \in DOMAIN docs
    THEN [files |-> docs[Counter(r)].files + 1, cells |-> docs[Counter(r)].cells + cells]
    ELSE [files |-> 1, cells |-> cells]
AddToCounter ==
    /\ Does("count")
    /\ IF Counter(Next1.reason) \in DOMAIN docs /\ docs[Counter(Next1.reason)] = Void
       THEN End
       ELSE /\ todo' = <<WriteDoc(Counter(Next1.reason), Higher(Next1.reason, Next1.cells))>> \o Tail(todo)
            /\ UNCHANGED <<docs, links, running, ends>>
    /\ UNCHANGED <<ops, crashes>>

(* unsupported_heatmap, coverage_sample, artifacts: every document of a     *)
(* kind is read, none of them while it is written.                          *)
ReadAll(kind) ==
    /\ running /\ ~Does("fill") /\ Damaged(kind)
    /\ ops < MaxOps /\ ops' = ops + 1
    /\ End /\ UNCHANGED crashes

RNext ==
    \/ \E c \in Contents : Analyze(c) \/ \E n \in Names : Ingest(n, c)
    \/ Truncate \/ Fill \/ AppendLink \/ AddToCounter
    \/ \E kind \in {"artifacts", "coverage_ledger", "unsupported_constructs"} : ReadAll(kind)
    \/ Crash \/ Restart
RSpec == RInit /\ [][RNext]_rvars

-------------------------------------------------------------------------------
(* Uploads of one name have different versions, and so have the models of   *)
(* one artifact, though the id is the hash of the content and a document is *)
(* replaced, name and version, when its content comes again (registry.cpp:  *)
(* 29-80).                                                                  *)
Versioned == {"artifacts", "models"}
VersionsDiffer ==
    \A j, k \in DOMAIN docs :
        (/\ j # k /\ j[1] = k[1] /\ j[1] \in Versioned
         /\ docs[j] # Void /\ docs[k] # Void /\ docs[j].key = docs[k].key)
            => docs[j].version # docs[k].version

(* Every end of the process leaves at most one gap behind: an empty         *)
(* document, an artifact without its file, or a model that no link leads    *)
(* to; and it loses at most one file of the count of a construct            *)
(* (service.cpp:82-144, coverage.cpp:77-115, store.cpp:25-32).              *)
Gaps ==
    {k \in DOMAIN docs : k[1] # "blobs" /\ docs[k] = Void}
    \cup {k \in Of("artifacts") : docs[k] # Void /\ ~Stored(Blob(k[2], docs[k].key))}
    \cup {k \in Of("models") : docs[k] # Void /\ \A i \in DOMAIN links : links[i] # <<docs[k].key, k[2]>>}
LedgersWith(r) == {k \in Of("coverage_ledger") : docs[k] # Void /\ r \in DOMAIN docs[k].reasons}
Counted(k) == Stored(k) => Cardinality(LedgersWith(k[2])) <= docs[k].files + ends
OneGapPerEnd ==
    todo = <<>> => Cardinality(Gaps) <= ends /\ \A k \in Of("unsupported_constructs") : Counted(k)

===============================================================================
