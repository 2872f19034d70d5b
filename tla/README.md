# FVE: TLA+ specifications and proofs

FVE reads engineering spreadsheets, computes a rigorous enclosure of every safety margin in
them, answers SAFE, FAIL or ABSTAIN, and keeps certificates, an audit trail, change control
and production events around these verdicts. The specifications in this directory model the
parts in which an interleaving, a crash, an order or an unlucky number decides whether these
promises hold. `src/` is the code; all paths below are relative to it.

- [1. The system](#1-the-system)
- [2. What is modelled](#2-what-is-modelled)
- [3. Model checking](#3-model-checking)
- [4. Where code and documents disagree](#4-where-code-and-documents-disagree)
- [5. Proofs](#5-proofs)
- [6. What is not modelled](#6-what-is-not-modelled)
- [7. Plan](#7-plan)

## 1. The system

One process (`cmd/fve-run` or `cmd/server`) holds one `Service` over a directory of JSON
documents. Its threads are: the pool of the HTTP server, the pool of crawl workers during the
first crawl, the backup thread, and the main thread, which polls the folder for ever.

| part | state | operations | who calls it |
|---|---|---|---|
| `db/store` | one file per document, append-only logs; `Store::mu_` makes each access atomic | put, get, list, append, read_log | everybody |
| `audit/audit`, `core/merkle` | the log `audit` on disk; a hash chain in memory (no lock of its own) | record, rebuild at start, verify, history | every operation of `Service` |
| `platform/service` | `Service::mu_`, taken by ingest, analyze, verify, crawl; not by handle_event, approve_fix, sign, resolve_* | the operations of the product | HTTP threads, workers, main |
| `casebase/casebase` | collections cases, fixes, case_fix_links | record_fix, approve_fix, query, try_transfer, record_outcome | handle_event, approve_fix, resolve_* |
| `platform/identity` | users, signatures | create_user, has_role, sign | change control |
| `l0/*` | catalog of the folder, collection file_registry, the watcher's last digests | crawl, resolve_heads, migrate, poll_once | fve-run |
| `platform/backup` | archives with a sidecar each | run_backup | backup thread |
| `core/interval`, `core/enclosure`, `core/holes` | none: pure over a program and a box | eval | engine, handle_event, case base |
| `core/verifier`, `core/proof`, `core/criticality` | none | decide, build_cert, validate, criticality | engine, handle_event |
| `registry/registry` | content-addressed artifacts, models, runs with versions | put_*, get, version_of | ingest, analyze, verify |
| `oracle/*`, `model/*`, `wrapper`, `semantic` | memo of cell values; derived graphs | value, set, reset, lower_target, probe, glue | analyze, verify |
| `extractor/*` | none | extract_file | ingest paths |
| `platform/incremental`, `artifact_graph`, `coverage`, `audit/diff` | an LRU cache; counters | get/put/invalidate, build, persist, diff_runs | API |
| `api/*`, `db/pgwire`, `db/sqlstore` | sockets and queues | listen, serve_conn, query | clients |

Hard behaviours, and what makes the parts correct:

- **Concurrency.** The audit record that closes an unlocked operation races with everybody
  else's. Correct: no line lost or doubled, links intact, sections of a locked operation
  together. Change control reads, signs, reads again and writes while others write.
  Correct: what is approved was signed; what is transferred was approved and certified.
- **Crash and restart.** Any two accesses to the store may be separated by a kill; a line may
  be cut. Correct: the chain continues, events never dangle, files still get verified.
- **Time between look and use.** Files change between walk, hash, verification and poll.
  Correct: one head per configuration, every change the watcher can see gets verified.
- **Numbers.** Rounding, overflow, infinities and NaN. Correct: the enclosure contains the
  number of the sheet, the verdict is true, certified and routed to the right priority.
- **Two readings of one sheet.** The oracle computes what the sheet shows, the lowering makes
  the program that is certified, the extractor makes both from bytes. Correct: what the sheet
  shows is among the values of the program, and no output escapes certification.
- **Sockets.** Connections that stall, replies in pieces, fields that default when absent.
  Correct: everybody who can be is answered once; what one side writes the other reads.

`PROJECT.json` lists every component, and every hazard at its line with the properties that
would catch it.

## 2. What is modelled

### Evidence and processes

**AuditTrail** (`audit/audit.cpp`, `db/store.cpp` append and read_log, the chain of
`core/merkle/merkle.cpp`). An operation is a sequence of sections, each with or without
`mu_`; a record is five steps, because the code touches four pieces of shared state one
after the other: `ReadSize` (seq), `ReadPrev` (head), `AppendLog` (disk), `LoadChain` and
`StoreChain` (memory). `Boot` rebuilds the chain from the log. Faults: `Crash`,
`TearingCrash`, and an `append` that cannot open its file, whose result the code ignores; torn
lines and failed opens are counted in `faults`. A line torn while it is written leaves the file
with one of the `Tails`, by what `parse` makes of its end: the newline alone is missing, or the
value is settled (`ragged`); the cut is inside a string, which `parse` takes as it is
(`open`); or `parse` throws (`garbled`). The next record stands on the same line behind it, and
of the two `read_log` sees one value. Behind a ragged end that is the old one. Behind an open end
the string goes on over the brace of the new record to its first quotation mark, so the cut line
gets another value and another digest: its `cut` counts how often.
The unlocked accesses to `head_` and `e_` are a data race: a reader that overlaps a writer
gets the old head or a mix (`Torn`). Digests are the sequences of what was hashed, that is,
SHA-256 is taken to be injective. **ChainLog** is the promise: a log that grows by one correctly
linked record at a time. **AuditRefinement** maps the trail to it (`lines <- log`).
**AuditEvidence** adds `Audit::verify`, the three steps of a backup round, and one edit of the
file from outside.

**ChangeControl** (`service.cpp` handle_event, resolve_work_order, resolve_hole,
approve_fix, sign, create_user; `casebase.cpp`; `identity.cpp`). Each access to the store is
an action of the request `o`, `pc[o]` says where it is, `fixRead`, `orderRead`, `hits`,
`chosen` are its locals. The evaluation of the event's program is data: `MakesSafe` says
which patch yields a validated SAFE certificate for which event, `Near` and `Dist` which
cases the query finds. Criticality P4 or not is a free choice. The first "resolved" link of
a case enters the store as the operators and tests do it, by `record_outcome` (`Linked0`):
handle_event itself only renews links that exist.

**FolderWatch** (`cmd/fve-run.cpp`, `l0/crawler.cpp`, `l0/registry.cpp`, `l0/watcher.cpp`,
`Service::crawl`, `verify_registered`, `verify`). The main thread's place is `pc`; `at[t]` is
where a thread is inside `verify_registered`. A crawl walks, then hashes each file, then
puts row by row; a file may change or vanish in between (`ChangeFile`), an unreadable file has
the digest of the empty file as in `sha256_file`. Revision, depth and path order are given
(`Order`).

### Numbers

**Interval** (`core/interval/ival.cpp`): the arithmetic over a floating point with the finite
numbers -M..M. Every result is rounded in the direction of the mode set by the code, a
quotient truly so, and overflow gives the largest number or infinity as IEEE does. NaN and
infinities behave in comparisons as in C++, so `min`/`max` may drop a NaN here where the code
does. **Enclosure** (`enclosure.cpp`, `holes.cpp`, `verifier.cpp`, `proof.cpp`,
`criticality.cpp`, `engine.cpp`): `rec` as a stack machine, so that the runs cover *every*
program up to a size rather than chosen ones. Beside the interval of a node stands the number
the node really has, an exact fraction, for one input in the box and one value of each
hole. `clean` is false once an operation met a NaN that a comparison may drop, or an
exponent that is not constant: there the enclosure is known not to hold (section 4).
Residuals are doubled to stay integers and do not overflow.

**Sivia** (`core/sivia/sivia.cpp`, `Service::admissible_region`) cuts boxes over `Interval`
until each part is decided, too narrow, or the iterations are used up.

### From workbook to certified program

**Oracle** (`oracle/oracle.cpp`, `runtime.cpp`, `model/intervene`): cells are computed on
demand and remembered; inputs are set and reset, `Runtime::run` computes all formulas under
its limits, `induce_deps` changes one input after the other. A deep chain and a cycle give NaN.
**Lowering** extends it: `build_sdg`, the choice of margin targets in `extractor/pipeline.cpp`,
and `lower_target` with its holes, ranges, names, aggregates and disjunctions. A lowered
program denotes the set of numbers it can have, which `Enclosure` encloses interval by interval;
together the two say that the certificate covers what the sheet shows.

### Functions without state

**Calls** is their common shape: one state holds a call, the next its answer. The modules add
a step each and a reference definition that does not follow the code's algorithm.

| module | code | compared with |
|---|---|---|
| `CertDiff` | `audit/diff.cpp`, `Service::run_history` | each other: the two summaries of the same runs |
| `Glue` | `semantic/glue.cpp`, `glue` | what all sections allow |
| `Cocycles` | `semantic/glue.cpp`, `cohomology` | the existence of a potential |
| `Dim` | `model/dim/dim.cpp` (Smith normal form) | all integer solutions within a bound |
| `Merkle` | `core/merkle/merkle.cpp` tree and proofs | the leaves with the copies that pairing odd nodes makes, run after run |
| `ArtifactGraph` | `platform/artifact_graph.cpp` | reachability as the least closed set |
| `Formula` | `extractor/formula/formula.cpp`, column names of `workbook.cpp` | the grammar as a relation between token sequences and trees |
| `XlsbRecords` | `extractor/xlsb/xlsb.cpp` `read_records`, `RecAsm` | the records that were written |
| `Xlsb` | the same file, `decode_rpn`, sheets | the trees and cells that were written |
| `Grpc` | `api/grpc.cpp`, `api/protobuf.cpp` | what the client put into the request and what the service returned |

### Sockets, caches, documents

**HttpServer** (`api/http.cpp`): the accepting thread, queue, mutex and condition variable, the
pool, a request from its first byte to the closed connection; clients that stall, leave, or send
what throws. **EvalCache** (`platform/incremental.cpp`) is the list and the map as they are
stored; **LruCache** is its promise, a sequence of entries in the order of their use;
**Containers** holds the maps and lists that it and the next share.
**SqlStore** (`db/sqlstore.cpp`, `db/pgwire.cpp`): each connection's statements, messages that
arrive in halves, `append` with its position computed before the insert. The PostgreSQL server
is external. **Registry** (`registry/registry.cpp`, `platform/coverage.cpp`, ingest and analyze
of `service.cpp`): the documents of artifacts, models, ledgers and counters, each truncated and
then written, with the process ending between any two; a reader of an empty document throws.

## 3. Model checking

`tlc -workers 2 -config X.cfg M`; the longest run takes about three minutes.

| run | module | what it asks | states |
|---|---|---|---|
| `audit_locked` | MCAuditRefinement | `EveryOpEnds`, `ImplementsChainLog` | 3 thousand |
| `audit_mixed` | MCAuditTrail | `LinkedWhileGuarded`, `HeadMatchesLog`, `RecordedOnce`, `SeqNeverAhead`, `AppendOnly` | 136 thousand |
| `evidence` | MCAuditEvidence | `SidecarIsOfArchive`, `LinksAloneShowAnEdit` | 16 thousand |
| `production` | MCChangeControl | `SignedPatchApproved`, `TransferIsCertified`, `EventsKeepApart`, `ResolvedForGood` | 5.2 million |
| `folder` | MCFolderWatch | `OneHeadPerConfig`, `EveryHeadTried`, `ChangeIsVerified`, `RunGoesOn` | 300 thousand |
| `enclosure` | MCEnclosure | `Encloses`, `DecidedIsCertified` | 675 thousand |
| `workbook` | MCWorkbook | `AnswerIsFresh`, `LoweringEncloses`, `ResponseIsWritten`, `EveryOutputIsCertified` | 85 thousand |
| `algorithms` | MCAlgorithms | one property per function of the table above, and `PavingCovers` | 389 thousand |
| `platform` | MCPlatform | `InOnePlace`, `EveryoneIsServed`, `RowsAreTheAnswer`, `VersionsDiffer`, `OneGapPerEnd`, `ImplementsLruCache` | 281 thousand |

What they show, and why the bounds suffice:

- `audit_locked`: three operations, one of which records twice, and two crashes. Two crashes
  put one in the middle of a record and one after a rebuild. Everything else in the trail is
  determined by the log and the lock, so a third operation adds only order.
- `audit_mixed`: `analyze` (locked) against `handle_event` (a locked ingest, then a record
  without the lock), with torn lines, failed opens and two crashes, so that a line that continues
  a cut one can be cut itself. Links may break here, and the invariants say exactly until when
  they hold and what holds regardless: no line is dropped and none changes but a cut one that ends
  inside a string, no record is doubled and at most one is lost per fault, and no record claims a
  position ahead of its own.
- `evidence`: two backups, so that the second replaces the first. `LinksAloneShowAnEdit`
  relates an edit of any line to the stored `prev` fields, which would reveal it, and to
  `Audit::verify`, which does not look at them.
- `production`: a user is created, a fix proposed again with a bad patch, approved, two equal
  events handled, an order resolved, one second passes and one crash happens, in every
  interleaving. Properties that need it are conditional on `~overlapped`: no two requests in
  flight at once; the overlapping case is section 4. Two cases share one fix and `TopK` is 1,
  so the cut of the matches matters.
- `folder`: two revisions of one workbook of which one appears later, a notes file the watcher
  ignores, a content that cannot be extracted, two workers, two edits anywhere, one crash
  anywhere. One edit suffices to fall between any two steps; two undo each other.
- `enclosure`: M = 4 lets sums, products, squares and quotients of the leaves 0, 2, 3, the
  boxes [1,2], [-2,1] and none, and holes [0,4] and unbounded round and overflow within five
  nodes. Numbers beyond `MaxReal` (1000), and powers of bases beyond 9, are not tracked: within
  five nodes these are few.
- `workbook`: every workbook of two cells on one sheet and one on another, each blank, a
  number, text, unparsable or one of sixteen formulas: so every cycle of up to three cells, empty
  and text operands, ranges written backwards, names and missing names, division by zero, and
  with `MaxDepth` = 2 (256 in the code) chains that are too deep. `LoweringEncloses` is the
  soundness README.md:7 promises relative to the oracle. It excludes (`ReadAlike`) the two
  constructs the code reads in two ways, section 4.
- `algorithms`: every argument of the sets in MCAlgorithms. Each set holds the boundary that
  matters to its function: numbers of leaves up to five; sections that
  meet in a range, in one number of `Points` (0 to 6) or not at all; regions met in every order and
  overlaps met twice, with potentials up to 3, for a tree has at most three offsets of 0 or 1; formulas of four operands, where precedence and associativity of two
  neighbours are decided; columns Z, AA, ZZ and AAA; records of one- and two-byte ids and sizes
  cut into three chunks anywhere; iteration limits 0, 1, 2, 5 and enough; varints around
  127 and 128.
- `platform`: four machines that share no state, each in behaviours of its own (`machine`),
  in one run because they are small. Three connections at two workers, of which up to two
  stall, leave or throw; a cache with limits 0 to 3 and boxes two of which have one
  fingerprint; two database connections with two calls each, chunks of two halves; four
  uploads or analyses of three contents under two names, and one crash.

Every property has a mutant in `PROJECT.json`: a plausible slip in the code (a lock forgotten,
`trunc` for `app`, an id without the count, a counter that is no atomic, like ends
subtracted, an odd node left unpaired, a version taken from a count) under which TLC
refutes the property.

Deadlock checking is off where the system may stop: requests are finite, and a process whose
log is garbled stays down.

**Fairness.** `AuditTrail`: weak fairness of `Boot` (the service manager restarts the process)
and of each operation's next step. `mu_` is a `std::mutex`; weak fairness of a waiter
suffices, because finitely many operations are requested and each lets go of it after finitely
many steps. `FolderWatch`: weak fairness of the main thread's and each worker's next step;
none for edits and crashes, which are bounded. `HttpServer`: weak fairness of the accepting
thread and of each worker (threads the system schedules), and of each client that has begun,
up to what its kind sends; a connection that keeps a worker in `read()` is a kind of client,
so nothing is assumed of it. Nothing is assumed strongly fair.

## 4. Where code and documents disagree

Each is a run with one property that TLC refutes.

| run | property | document | what happens |
|---|---|---|---|
| `fixes_race` | `ApprovesWhatIsSigned` | docs/PRODUCTION_READY_STAGES.md:12-13, proposed until a reviewer signs and approves it | the fix is proposed again between signature and approval; the approval then covers a patch nobody signed |
| `folder_restart` | `HeadsGetVerified` | docs/AUTONOMOUS_MODE.md:9-10, resumes where it left off | after a crash in the pool the registry is not empty, so the remaining heads are never verified |
| `false_safe` | `NoFalseSafe` | README.md:8-12, a false SAFE is structurally impossible | a power takes the lower end of its exponent: 3 - 2^x over [1,2] is SAFE, and is -1 at x = 2 |

Seen while modelling, not in a run of their own.

Trail and change control:

- a line cut inside a string is continued by the next record (store.cpp:64-71): it takes the
  brace of that record, so its value changes, and after a rebuild its digest; that record is
  lost, although its operation was answered;
- a line cut inside a number makes `std::stod` throw in the constructor at every start, although
  docs/AUTONOMOUS_MODE.md:9-10 calls restarting at any point safe;
- `Audit::verify` rebuilds a chain from the present lines and checks that one, so it accepts
  every edited log; docs/COMPLIANCE_REPORT.md:95 and ARCHITECTURE_SUMMARY.md:135-136 claim
  tamper evidence;
- two equal events at once get the same id and the second replaces the first
  (service.cpp:438); `EventsKeepApart` holds without overlap only;
- a crash between order and event (service.cpp:469) leaves an order without its event, which the
  count of events does not cover: when such an order is resolved, the next event of its key gets
  its id and opens it again; `ResolvedForGood` excepts these orphans only;
- a record made without `mu_` may repeat the seq and prev of another (audit.cpp:13-24);
- signatures are named with a resolution of one second (identity.cpp:53), and the id of a run
  truncates `rel_dev` to an integer (service.cpp:244), so runs with different deviations can share one.

Folder:

- a file changed after its verification and before the baseline is swallowed by it
  (fve-run.cpp:166 says that the initial crawl already verified these);
- the watcher compares digests only (watcher.cpp:23), so a file that is changed and put back
  within one interval is not verified; `ChangeIsVerified` lets a replaced content go;
- rows of files that are gone are never removed, so a configuration may keep two heads;
  `OneHeadPerConfig` is conditional on it.

Numbers and sheets:

- zero times infinity is NaN, and `std::min`/`std::max` drop it: [0,inf]*[0,inf] = [0,0]
  (ival.cpp:95-99), so an even power that overflows can enclose nothing; `clean` excludes it;
- a name without a sheet is sheet 0 to the oracle and the present sheet to the lowering
  (oracle.cpp:40-46, lower.cpp:94-97), and an IF whose condition is a range is read in two ways
  (oracle.cpp:147-153, lower.cpp:162-166);
- outputs on a cycle are never margin targets; a chain deeper than 256 gives NaN or not
  depending on what was computed before;
- `^` is right-associative here (formula.cpp:205) and left-associative in Excel;
- the wrapper path (service.cpp:254-289) turns ABSTAIN into SAFE on probes of the oracle, while
  the certificate of the target still says ABSTAIN; inputs that occur only in conditions are not
  in the certified box; a box widened for inputs of zero (service.cpp:336) is the key under
  which a narrower result is cached (service.cpp:344; the service never reads the cache);
- `decode_rpn` does not pop the argument of a function of fixed arity (token 0x21), so a
  formula with ABS or NOT is given up and its cell becomes the cached constant, with no hole;
  docs/UNRESOLVED.md:52-54 says no missing capability can give a false SAFE. PI() after an
  operand takes it as an argument; constants keep six digits (`%g`).

Documents, sockets, summaries:

- a crash between the truncation and the write of a document leaves an empty one, on which
  every later list over its collection throws (store.cpp:28); `OneGapPerEnd` bounds how many
  gaps ends of the process leave, and does not say that the process can go on;
- the same content under another name takes over name and version, so the old name can issue
  its version again later; `VersionsDiffer` is about the documents that exist;
- a second analysis counts the constructs of a file again; COUNT, INT and MOD are no gap
  to the coverage and holes to the lowering;
- no read has a time limit and nothing catches in `api/`: as many silent connections as
  threads stop the server, and an exception ends it (http.cpp:132, 170); a body cut short is
  handled as whole;
- a proto3 client leaves out `rel_dev` = 0, which is then verified with 5 % (grpc.cpp:101-112);
- `SqlStore` ignores an error reply and a failed send, so `put` and `append` answer true with
  nothing stored; a reply that ends early is taken as complete, and the next call can read
  its rest; two appends of different connections can compute one position, and the second is lost;
- the comparison of runs does not count targets that vanished, nor new ones that FAIL; a run
  without targets is SAFE in the history;
- the conflict of ranges that gluing reports names the first section, not the one that
  narrowed the range; `infer_dims` without constraints reads outside its matrix;
  `artifact_graph.cpp:40` speaks of breadth first and takes the last node.

## 5. Proofs

`tlapm M.tla`. Everything below holds for all values of the constants that meet the assumptions
named in the modules; TLC evaluates these on every run.

**AuditTrailProofs**: any set of operations, any sections, any number of crashes, with and
without file faults.

- `TypeCorrect`: the type invariant, the ground of the others.
- `LogIsAppendOnly`: `AppendOnly`. No step shortens the log or changes a line that was written
  whole; a cut line changes only while it is the last and ends inside a string, by the brace it
  takes. It needs that an open end is that of a cut line (`OpenIsCut`): a whole line whose newline
  is missing ends in its closing brace.
- `SeqNeverAheadHolds`: `SeqNeverAhead`. Inductive with: the length an operation has read is
  at most the length of the log now.
- `LinksHold` and `HeadHolds`: `LinkedWhileGuarded` and `HeadMatchesLog`. Neither is inductive
  alone. While `Guarded`, every operation between `Enter` and its last `StoreChain` owns
  `mu_`; the owner's `seqRead` and `prevRead` still describe the log when it appends; between
  the two appends the log is exactly one line ahead of the chain, and `mark` describes the
  chain. The conjunction of these is the invariant, preserved action by action. That
  `Guarded` can only become false is a lemma of its own (sections once entered stay entered).
- `RecordedOnceHolds`: `RecordedOnce`. That at most one record is lost per fault is not inductive:
  a torn line is a fault when it is torn, and costs its record only when another continues it. So
  `OnceInv` counts a file that does not end in a newline as one record more (`Pending`). A step
  either leaves the lines and what should be in them alone (`QuietStep`, which covers the crash:
  the record stays), or is the append of a record that had no line, or loses that one
  (`OneMoreLost`), by a fault of its own or the one that was pending.
- `ServiceImplementsChainLog`: where all sections are locked and no file fails, the trail
  implements `ChainLog`: `AppendLog` maps to `Record`, every other step, crash and restart
  to a stutter.

**ChangeControlProofs**: any requests, users, fixes, patches, cases and keys, any number of
crashes. All four rest on `CInv`: types, `InPlace` (what a request's locals hold at each of
its places), and `Alone` (while `~overlapped`, at most one request runs).

- `SignedPatchApprovedHolds`: `SignedPatchApproved`, with `ReadIsCurrent` (without overlap, what
  was read of a fix is still what is stored) and `ReadIsSigned` (once past the signature, it is
  what the signature names).
- `TransferIsCertifiedHolds`: `TransferIsCertified`. It needs nothing about overlaps: every
  approved fix has a signed approval and keeps it (`FixesSigned`), the collected hits are
  resolved links of near cases (`Collected`), and what was chosen among them has a SAFE
  certificate (`ChosenIsGood`).
- `EventsKeepApartHolds`: `EventsKeepApart`. The id is a count of stored events, so the invariant
  says that each stored event has a request of its own (`OnePerRequest`) and a number below
  the count (`Numbered`); a new number is then unused. The number of requests bounds the count,
  by an injection.
- `ResolvedForGoodHolds`: `ResolvedForGood`. `OrderInv` says that every stored order belongs to a
  stored event or to the one request that is about to store that event, so its number is not the
  next one, and a new event never writes over an order. After a crash that is so of the orders whose
  event is stored: the number of any stored event is below the count. The others are the orphans
  that a crash kept from getting their event, and of these the theorem says nothing.

Of **AuditEvidence**, in the same module, for any sections, crashes and digests that are
injective. `EInv` is the type invariant with `BeforeEdit` (the chain's stored links, and root
and sidecar as digests of a beginning of the log and of the archive) and `AfterEdit` (the link
that the edit broke).

- `SidecarIsOfArchiveHolds`: `SidecarIsOfArchive`. The log only grows, so a digest of its beginning
  stays one (`BeginningStays`), and the archive is such a beginning.
- `LinksAloneShowAnEditHolds`: `LinksAloneShowAnEdit`. `VerifyAcceptsEveryLog` says that
  `Audit::verify` accepts any lines at all, since it recomputes both sides from the log; the
  broken link is between two stored lines, and no later step changes either.

**FolderWatchProofs**

- `EveryHeadTriedHolds`: `EveryHeadTried`, for every number of files, workers and crashes and as
  long as no file changes. `FInv` says where each thread is (`Whereabouts`), that every row is of
  a present file, that the heads below the shared counter are linked, unreadable or held by a
  worker (`PoolTakesAll`), and that after the pool a poll finds nothing new (`NothingNew`).
- `OneHeadPerConfigHolds`: `OneHeadPerConfig`, also when files change. `HeadInv` says that a row
  already put tells whether its file is the head of this crawl. That there is exactly one is
  `RanksAreTotal` (the order of `resolve_heads` is total, by the path in the end) and
  `OneIsHighest` (a finite set that had no highest file would have a smallest such subset; take
  one file out of it).

**RegistryProofs**

- `VersionsDifferHolds`: `VersionsDiffer`, over any contents, names, uploads and ends of the
  process. A version is one more than the greatest of its key, so the versions that exist must be
  bounded (`Bounded`), and the next document to be written must have one above all of its key
  (`FirstIsNewer`), also when the process ends between truncating and filling it; the rest of
  what an operation still has to write has no version (`RestIsPlain`).
- `OneGapPerEndHolds`: `OneGapPerEnd`, which speaks of the moments between requests only.
  `GapInv` carries it through a request: but for the document the first write of `todo` will make
  whole (`Pending`), there are no more gaps than ends (`Accounted`), and a counter is behind its
  ledgers by no more than the ends and the one count the request still owes (`Owed`, `Even`,
  `Ahead`). That the writes come in an order in which each completes the one before (`Ordered`)
  is proved of what `ingest` and `analyze` issue. When the process ends, what was pending is the
  new gap, or what was owed the new lag, and never both (`EndAccounts`).

**EnclosureProofs**: every floating point (largest number, slack of libm), program and box.

- `EveryNodeIsEnclosed`: `Encloses`, that the interval of every node contains the number the node
  has in the sheet, so that a SAFE margin is positive and a FAIL margin negative. `EncInv` says
  so of every node on the stack while `clean`. Under it lie one lemma for each operation of
  `Interval`: sums, products and quotients by cases on the signs and on what overflows; abs, min,
  max and hull; and powers. Numbers are exact fractions, so the lemmas are about products of
  integers. `PowNat`'s repeated squaring is a recursive function; its loop invariant (the
  accumulator times the base to the rest is the power, in interval and fraction alike) is carried
  by `Iteration`, an induction over the steps of a loop.
- `DecidedIsAlwaysCertified`: `DecidedIsCertified`. The invariant says that the certificate is
  the one `build_cert` makes of some interval and residual, and the priority one the same two
  give; `decide`'s guards then yield the conditions of `validate`.

**PlatformProofs**

- `RowsAreTheAnswerHolds`: `RowsAreTheAnswer`, for any number of sessions, ids, texts and chunks.
  For a session with no cut answer, `SqlInv` says what each place of `pc` means: while the reply
  arrives, buffer and wire together are what is left of it after `c` whole messages, and the rows
  taken so far are those of these messages (`Replied`). `Arrived` (a chunk moves from wire to
  buffer) and `Taken` (whole messages leave the buffer, half a message stays) carry it; `EndOfReply`
  says that the loop ends exactly when the last message is whole. An empty wire between
  statements (`Idle`) is what keeps a reply out of the next one.
- `CacheImplementsLruCache`: `ImplementsLruCache`, for every limit. The promised entries are the
  listed keys with what the map has under them (`Entries`). `CacheInv` says that list and map hold
  the same keys, each once (`Agree`); with it as many keys leave the map as leave the end of the
  list (`EvictAgrees`), and each call is one of the promise: `Get` a `Lookup`, `Put` an `Insert`,
  the invalidations a `Drop`, `SetLimit` a `Rebound`, `Size` a `Count`.
- These two rest on the lemmas about `Containers`: each position in a finite set of numbers is that of
  one number (`EveryPlaceTaken`), and what part, prefix and join of a list are.
- `InOnePlaceHolds`: `InOnePlace`, for any number of connections and threads. `HInv` says that
  backlog, queue, accepting thread and workers hold disjoint connections (`Apart`), each once
  (`OnceEach`), that a held connection has no answer (`NotAnswered`), and that one that asked
  is held or answered (`Kept`).

**AlgorithmsProofs**: functions without state, for arguments of any size. A specification
`...Spec` here is one call of the function and the answer to it.

- `DiffAgreesWithHistoryHolds`: `DiffAgreesWithHistory`, for runs of any length whose cells are
  distinct, as the targets of a graph are. No target regressed, so each is SAFE and at most five
  hundredths above its old score (`NotRegressed`); the rest is the maximum over finitely many
  (`GreatestOfMany`).
- `ProofsBindHolds`: `ProofsBind`, for two sequences of leaves of any length and content. A digest
  is the term it was computed from, which is the assumption that SHA-256 has no collisions and
  that the prefixes keep leaves and nodes apart. The levels, the way up and the copies are
  recursive functions, whose equations `Chosen` gives (there is a function that repeats a turn,
  `Turning`). The levels shrink to one node (`TopIs`); the leaves under a node, copies included,
  are those under its two (`LeavesUnder`), so nodes of one level are equal when their leaves are
  (`NodesAreTheirLeaves`) and of different levels never (`LevelsApart`). A proof of leaf `i`
  climbs along the nodes over it (`OwnClimbs`); and whatever climbs by it to a node of any
  tree is the leaf in that place under that node (`Descends`).
- `GluedIsTheLimitHolds`: `GluedIsTheLimit`, for any number of sections, names, dimensions and
  integers that ranges end at. After each section (`NextSection`) either nothing clashed and each
  name has the tightest range and the only dimension given so far (`Tight`), or two of the
  sections clash (`Clashes`) and no assignment restricts to both. That two suffice, although the
  code compares a section with what is merged of many, is `ClashOfTwo`: the ends of a merged
  range are ends that some section gave.
- `ObstructionIsRealHolds`: `ObstructionIsReal`, for any number of regions, symbols and overlaps in
  any order, with integer offsets and any integer as a potential (`Heights = Int`). `Forest` says
  that the union-find is one: every region has a root and a height above it, and something falls
  along the parents, so the recursion of `find` ends (`FromTheRoots` is the induction along it).
  A look-up with its compression keeps roots and heights (`FindKeeps`), an attachment raises one
  tree as a whole (`AttachKeeps`). `Fits` is the invariant over the overlaps joined so far: those
  that joined two trees hold exactly, and every potential that meets them is the forest's, up to
  its value at each root. A back edge is then explained by some potential exactly when the forest
  explains it, which is what its discrepancy is.
- `NothingAffectedIsForgottenHolds`: `NothingAffectedIsForgotten`, for any sequence of stored
  dependencies, cycles included, any depth and any order of the names, as long as every artifact
  has a name. Reachability is the least closed set (`ReachedIs`, `NeedsIs`), and each of the three
  loops has an invariant and a clock. Collecting (`Searched`): whatever was met waits or has all
  its edges listed, and a node that waits at depth `d` was found along `d` artifacts that were all
  new, so at the greatest depth either everything is met already or no edge leaves it
  (`TooDeep`, which is where `DepthCoversAll` enters). Ordering (`Walking`): of the open calls each
  is needed by those under it, so an edge back to one closes a real cycle; an edge that was
  looked at leads to what is ordered or to the call above; so what is left stands after what it
  imports. Asking backwards (`AffectedSoFar`): whatever was met is on the stack or has all its
  importers met; the rest is then closed and without the changed artifact. The clocks count a
  turn each: nodes met less nodes waiting (`Balanced`, `Weighed`), and names begun plus pairs of
  an artifact and an edge it has looked at (`Clocked`), which are at most as many as the turns
  the module makes (`CollectedGraph`, `WorkEnds`, `AffectedAll`), so the loops have ended.

**WireProofs**: what is written as bytes and read back, at any size. It goes on from
`AlgorithmsProofs`, whose lemmas about repeated turns it uses.

- `StreamIsWholeHolds`: `StreamIsWhole`, for records of any number and size (up to the four groups
  of seven bits), any chunks and any `Compact`, the bytes after which `RecAsm` drops what it has
  read (2^20 in the code). The writer's records are `WrittenRec`; what has arrived is any number of
  their first bytes (`Beginning`). `Tracks` is the invariant: the buffer is a stretch of the bytes,
  the head stands at the end of a record, and what was handed out is the records up to there. A
  turn keeps it (`CutTracks`, from `RecordThere`: of a record that is there all is found, of one
  that is not the loop sees so, except that reading at once takes a cut off size for what there
  is of it), and so do a chunk (`ArrivedTracks`) and dropping (`DroppedTracks`).
- `RpcSurvivesHolds`: `RpcSurvives`, for any fields of a request in any order, repeated, absent or
  unknown, for anything the service returns (`Returned`: texts, doubles, numbers of 64 bits, any
  number of targets, nodes, edges and entries), and for methods that do not exist. A client gives
  a parameter the type it has in the schema (`ParamsTyped`), and a message is shorter than 2^32,
  as its frame has four bytes for the length. A number of 64 bits is written in ten groups at
  most (`NineTurns`), each of which but the last has the high bit (`RawVarintIs`), and the reader adds
  them up to it wherever they stand in a text (`NumberRead`: after `n` groups what is read and what
  is left, times the weight, is the number). So a key gives back its field and wire type (`KeyThere`),
  a field is read as it was written and the next one begins where it ends (`FieldRead`), and the
  fields of a message are read one after the other until none is left (`FieldsAreRead`). Framing
  is `FrameRead`, for the message and for the trailer behind it; the last field of a number is the
  parameter (`ParamIs`), and what a method returns is written in such fields, those that are
  messages in messages of such fields (`ReplyIsGood`).

Only model-checked: liveness (`EveryOpEnds`, `ChangeIsVerified`, `RunGoesOn`,
`EveryoneIsServed`), which the prover does not do; and what compares a `RECURSIVE` definition
with its reference, which it does not accept: the runs `workbook` (evaluation and lowering recurse
over expressions) and `algorithms` except the seven properties above (elimination, parsers,
paving).

## 6. What is not modelled

- Conversions of bytes without state: the zip directory and inflate, XML and xlsx sheets, csv,
  the tokenizer of formulas, JSON, revisions and fingerprints of files, image recognition.
- Numerical code about reals: transcendental functions (whose enclosures rest on the slack
  given to libm), affine forms, the least squares of the wrapper synthesis.
- SHA-256's compression function: digests are injective names.
- Text functions, functions of libm and the maps of one function to one node in the lowering;
  labels and section bundles, which regroup cells.
- Routes, connecting to PostgreSQL, the logger, command lines and the user interface.
- Of the audit trail, `lineage()` and `certificates()`, which filter the log; of change
  control, `CaseBase::record`, the parser of events and the traffic lights; of the folder, the
  bootstrap of the admin, the store's migrations and the size limits of the crawler.
- The write of a document after its truncation is one step in `Registry`, and so is a line of the
  log of provenance. A kill inside the write of a document larger than a page leaves a beginning of
  it. If `parse` throws on that, it is as the empty document; if not, nobody notices: an artifact
  has its data before everything else, so its beginning has no name and version 0; a model keeps
  its key and has version 0 or the first digits of its own; a ledger loses samples and totals; a csv
  is read as a shorter one. `VersionsDiffer` and `OneGapPerEnd` do not speak of such documents.
  The provenance log is torn as the audit trail is, and a cut link can take the next one with it.
- The sections of `AuditTrail` are flat: that no operation takes `mu_` again while it holds it, which
  would block it for ever, is read off the code (ingest and verify are called by operations that do
  not hold it). An exception that a worker of fve-run catches (fve-run.cpp:107) ends a section
  early and releases the lock, as a section with fewer records does.
- `verify_registered` is one step after another in `FolderWatch`, and its writes to the registry
  are not interleaved with those of `Registry`, whose operations hold `mu_`.

## 7. Plan

What could follow, in order:

1. The paving of `Sivia` by recursive functions, as `Merkle`, `Glue`, `XlsbRecords` and `Grpc` are,
   and `PavingCovers` as a theorem.
2. Composition: `verify_registered` and unlocked readers over the documents of `Registry`; the
   workers of `HttpServer` as the requests of `ChangeControl`.
3. Beginnings of documents in `Registry`, and cut links, with `OneGapPerEnd` weakened by the links
   that a torn one takes with it.
4. The wrapper path of `Service::verify` as a decision over samples, and a floating point
   with exponents in `Interval`, where subnormals and the slack of libm would show.
