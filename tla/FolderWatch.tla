----------------------------- MODULE FolderWatch -----------------------------
(***************************************************************************)
(* The autonomous run over a folder: cmd/fve-run.cpp with the crawler, the *)
(* file registry and the watcher of l0/ and Service::verify_registered.    *)
(*                                                                         *)
(* The main thread crawls, lets a pool of workers verify the head files of *)
(* an empty registry, seeds the watcher and then polls the folder for      *)
(* ever.  Files change at any time, in between any two steps, and the      *)
(* process may be killed and is started again over the same store.         *)
(*                                                                         *)
(* The analyze() that follows a verification derives documents of the same *)
(* artifact and fails like verify(); it is part of VerifyRun.              *)
(*                                                                         *)
(* A file is its path below the root.  Content is named by its SHA-256; a  *)
(* file that cannot be read has the digest of the empty file.              *)
(***************************************************************************)
EXTENDS Naturals, Sequences, FiniteSets, SequencesExt

CONSTANTS
    Files,
    Config,     \* Config[f]: config_key, the name without its revision
    Order,      \* Order[f]: <<rank, depth, place>>: the revision, the depth of
                \* the folder and the place among the paths in order
    Watched,    \* the files with an extension the watcher looks at
    Shas,       \* the contents of files
    Empty,      \* the digest of what cannot be read (or is empty)
    Corrupt,    \* contents whose extraction fails
    Mtimes,     \* modification times (seconds)
    Disk0,      \* the folder at first
    Workers, Main,  \* the pool and the main thread
    MaxEdits, MaxCrashes,
    None

Stat == [sha : Shas \cup {Empty}, mtime : Mtimes]
Threads == Workers \cup {Main}

ASSUME FileAssumption ==
    /\ IsFiniteSet(Files) /\ Watched \subseteq Files
    /\ Order \in [Files -> Nat \X Nat \X Nat] /\ Mtimes \subseteq Nat
    /\ \A f, g \in Files : f # g => Order[f][3] # Order[g][3]
    /\ DOMAIN Config = Files /\ Disk0 \in [Files -> Stat \cup {None}]
    /\ Empty \notin Shas /\ Corrupt \subseteq Shas
ASSUME RowAssumption == None \notin [sha : Shas \cup {Empty}, mtime : Mtimes, head : BOOLEAN]
ASSUME ThreadAssumption == IsFiniteSet(Workers) /\ Workers # {} /\ Main \notin Workers
ASSUME WatchBoundAssumption == MaxEdits \in Nat /\ MaxCrashes \in Nat

VARIABLES
    disk,       \* the folder
    rows,       \* collection "file_registry"
    links,      \* provenance "registered_as": file and content
    runs,       \* contents with a document in "runs"
    pc,         \* where the main thread is
    watching,   \* is the main thread past the baseline?
    wasEmpty,   \* registry_empty() at boot
    todo,       \* what the loop at hand has still to visit
    walked,     \* the crawl's file list: times of modification
    got,        \* the crawl's digests
    ids, idx,   \* the heads to verify and the counter of the pool
    at, job, read,  \* per thread in verify_registered: place, file, content
    seen,       \* FolderWatcher::seen_
    changed,    \* what the poll found and is not verified yet
    edits, crashes

crawlVars == <<walked, got>>
poolVars == <<ids, idx>>
threadVars == <<at, job, read>>
store == <<rows, links, runs>>
vars == <<disk, rows, links, runs, pc, watching, wasEmpty, todo, walked, got, ids, idx,
          at, job, read, seen, changed, edits, crashes>>

Init ==
    /\ disk = Disk0
    /\ rows = [f \in Files |-> None] /\ links = {} /\ runs = {}
    /\ pc = "boot" /\ watching = FALSE /\ wasEmpty = FALSE
    /\ todo = {}
    /\ walked = [f \in Files |-> None] /\ got = [f \in Files |-> Empty]
    /\ ids = <<>> /\ idx = 0
    /\ at = [t \in Threads |-> "take"] /\ job = [t \in Threads |-> None]
    /\ read = [t \in Threads |-> Empty]
    /\ seen = [f \in Files |-> None] /\ changed = {}
    /\ edits = 0 /\ crashes = 0

Present == {f \in Files : disk[f] # None}
ShaOf(f) == IF disk[f] = None THEN Empty ELSE disk[f].sha
Listed == {f \in Files : walked[f] # None}

-------------------------------------------------------------------------------
(* Boot: was_empty is read before the crawl fills the registry.             *)
Boot ==
    /\ pc = "boot"
    /\ wasEmpty' = (\A f \in Files : rows[f] = None)
    /\ pc' = "walk"
    /\ UNCHANGED <<disk, store, watching, todo, crawlVars, poolVars, threadVars, seen, changed,
                   edits, crashes>>

(* Service::crawl, build_registry: first the tree is walked, ...            *)
CrawlWalk ==
    /\ pc = "walk"
    /\ walked' = [f \in Files |-> IF f \in Present THEN disk[f].mtime ELSE None]
    /\ todo' = Present
    /\ pc' = "hash"
    /\ UNCHANGED <<disk, store, watching, wasEmpty, got, poolVars, threadVars, seen, changed,
                   edits, crashes>>

(* ... then every file listed is read.  It may be gone or changed by then.  *)
CrawlHash(f) ==
    /\ pc = "hash" /\ f \in todo
    /\ got' = [got EXCEPT ![f] = ShaOf(f)]
    /\ todo' = todo \ {f}
    /\ UNCHANGED <<disk, store, pc, watching, wasEmpty, walked, poolVars, threadVars, seen,
                   changed, edits, crashes>>

(* resolve_heads: by rank, time of modification, depth and path. *)
Outranks(f, g) ==
    \/ Order[f][1] > Order[g][1]
    \/ /\ Order[f][1] = Order[g][1]
       /\ \/ walked[f] > walked[g]
          \/ /\ walked[f] = walked[g]
             /\ \/ Order[f][2] > Order[g][2]
                \/ Order[f][2] = Order[g][2] /\ Order[f][3] > Order[g][3]

IsHead(f) == \A g \in Listed \ {f} : Config[g] = Config[f] => ~Outranks(g, f)

MigrateStart ==
    /\ pc = "hash" /\ todo = {}
    /\ pc' = "put" /\ todo' = Listed
    /\ UNCHANGED <<disk, store, watching, wasEmpty, crawlVars, poolVars, threadVars, seen,
                   changed, edits, crashes>>

(* Mutant: a row that is there already stays as it is. *)
PutRow_Insert(f) ==
    /\ pc = "put" /\ f \in todo
    /\ rows' = [rows EXCEPT ![f] =
                  IF @ # None THEN @ ELSE [sha |-> got[f], mtime |-> walked[f], head |-> IsHead(f)]]
    /\ todo' = todo \ {f}
    /\ UNCHANGED <<disk, links, runs, pc, watching, wasEmpty, crawlVars, poolVars, threadVars,
                   seen, changed, edits, crashes>>

(* migrate puts one row after the other and removes none. *)
PutRow(f) ==
    /\ pc = "put" /\ f \in todo
    /\ rows' = [rows EXCEPT ![f] = [sha |-> got[f], mtime |-> walked[f], head |-> IsHead(f)]]
    /\ todo' = todo \ {f}
    /\ UNCHANGED <<disk, links, runs, pc, watching, wasEmpty, crawlVars, poolVars, threadVars,
                   seen, changed, edits, crashes>>

(* After the crawl: verify what the poll found; or, at boot, let the pool   *)
(* verify the heads where the registry was empty; or go on to the baseline. *)
HeadIds == {f \in Files : rows[f] # None /\ rows[f].head}
CrawlDone ==
    /\ pc = "put" /\ todo = {}
    /\ IF watching
       THEN pc' = "verify" /\ UNCHANGED <<poolVars, at>>
       ELSE IF wasEmpty
       THEN /\ pc' = "pool"
            /\ ids' \in SetToSeqs(HeadIds) /\ idx' = 0
            /\ at' = [t \in Threads |-> "take"]
       ELSE pc' = "poll_walk" /\ UNCHANGED <<poolVars, at>>
    /\ UNCHANGED <<disk, store, watching, wasEmpty, todo, crawlVars, job, read, seen, changed,
                   edits, crashes>>

-------------------------------------------------------------------------------
(* Mutant: the last head is left out. *)
Take_OffByOne(w) ==
    /\ pc = "pool" /\ at[w] = "take"
    /\ idx' = idx + 1
    /\ IF idx + 1 < Len(ids)
       THEN at' = [at EXCEPT ![w] = "open"] /\ job' = [job EXCEPT ![w] = ids[idx + 1]]
       ELSE at' = [at EXCEPT ![w] = "done"] /\ UNCHANGED job
    /\ UNCHANGED <<disk, store, pc, watching, wasEmpty, todo, crawlVars, ids, read, seen,
                   changed, edits, crashes>>

(* A worker takes the next head: i = idx.fetch_add(1). *)
Take(w) ==
    /\ pc = "pool" /\ at[w] = "take"
    /\ idx' = idx + 1
    /\ IF idx < Len(ids)
       THEN at' = [at EXCEPT ![w] = "open"] /\ job' = [job EXCEPT ![w] = ids[idx + 1]]
       ELSE at' = [at EXCEPT ![w] = "done"] /\ UNCHANGED job
    /\ UNCHANGED <<disk, store, pc, watching, wasEmpty, todo, crawlVars, ids, read, seen,
                   changed, edits, crashes>>

(* verify_registered: the row gives the path; the file is read as it is     *)
(* now.  Without a row, or where nothing can be read, that is all.          *)
Open(t) ==
    /\ at[t] = "open"
    /\ IF rows[job[t]] = None \/ ShaOf(job[t]) = Empty
       THEN at' = [at EXCEPT ![t] = "take"] /\ UNCHANGED read
       ELSE /\ at' = [at EXCEPT ![t] = "link"]
            /\ read' = [read EXCEPT ![t] = ShaOf(job[t])]
    /\ UNCHANGED <<disk, store, pc, watching, wasEmpty, todo, crawlVars, poolVars, job, seen,
                   changed, edits, crashes>>

(* ... ingest() stores the content, and the file is linked to it ...        *)
LinkFile(t) ==
    /\ at[t] = "link"
    /\ links' = links \cup {<<job[t], read[t]>>}
    /\ at' = [at EXCEPT ![t] = "run"]
    /\ UNCHANGED <<disk, rows, runs, pc, watching, wasEmpty, todo, crawlVars, poolVars, job, read,
                   seen, changed, edits, crashes>>

(* Mutant: an exception leaves the worker. *)
VerifyRun_Throws(t) ==
    /\ at[t] = "run"
    /\ runs' = IF read[t] \in Corrupt THEN runs ELSE runs \cup {read[t]}
    /\ at' = [at EXCEPT ![t] = IF read[t] \in Corrupt THEN "lost" ELSE "take"]
    /\ UNCHANGED <<disk, rows, links, pc, watching, wasEmpty, todo, crawlVars, poolVars, job, read,
                   seen, changed, edits, crashes>>

(* ... and verify() stores a run, unless the content cannot be extracted.   *)
(* An exception is caught and counted: the thread goes on to the next file. *)
VerifyRun(t) ==
    /\ at[t] = "run"
    /\ runs' = IF read[t] \in Corrupt THEN runs ELSE runs \cup {read[t]}
    /\ at' = [at EXCEPT ![t] = "take"]
    /\ UNCHANGED <<disk, rows, links, pc, watching, wasEmpty, todo, crawlVars, poolVars, job, read,
                   seen, changed, edits, crashes>>

Join ==
    /\ pc = "pool" /\ \A w \in Workers : at[w] = "done"
    /\ pc' = "poll_walk"
    /\ UNCHANGED <<disk, store, watching, wasEmpty, todo, crawlVars, poolVars, threadVars, seen,
                   changed, edits, crashes>>

-------------------------------------------------------------------------------
(* FolderWatcher::poll_once: the spreadsheets are listed, ...               *)
PollWalk ==
    /\ pc = "poll_walk"
    /\ todo' = Present \cap Watched
    /\ pc' = "poll_hash"
    /\ UNCHANGED <<disk, store, watching, wasEmpty, crawlVars, poolVars, threadVars, seen, changed,
                   edits, crashes>>

(* Mutant: only files that were never seen count as changed. *)
PollHash_NewOnly(f) ==
    /\ pc = "poll_hash" /\ f \in todo
    /\ changed' = IF seen[f] = None THEN changed \cup {f} ELSE changed
    /\ seen' = [seen EXCEPT ![f] = ShaOf(f)]
    /\ todo' = todo \ {f}
    /\ UNCHANGED <<disk, store, pc, watching, wasEmpty, crawlVars, poolVars, threadVars, edits,
                   crashes>>

(* ... and each is compared with the digest seen last.                      *)
PollHash(f) ==
    /\ pc = "poll_hash" /\ f \in todo
    /\ changed' = IF seen[f] # ShaOf(f) THEN changed \cup {f} ELSE changed
    /\ seen' = [seen EXCEPT ![f] = ShaOf(f)]
    /\ todo' = todo \ {f}
    /\ UNCHANGED <<disk, store, pc, watching, wasEmpty, crawlVars, poolVars, threadVars, edits,
                   crashes>>

(* The first poll is the baseline and its findings are dropped.  Afterwards *)
(* anything found leads to a crawl.                                         *)
PollDone ==
    /\ pc = "poll_hash" /\ todo = {}
    /\ watching' = TRUE
    /\ IF ~watching
       THEN pc' = "poll_walk" /\ changed' = {}
       ELSE pc' = (IF changed = {} THEN "poll_walk" ELSE "walk") /\ UNCHANGED changed
    /\ UNCHANGED <<disk, store, wasEmpty, todo, crawlVars, poolVars, threadVars, seen, edits,
                   crashes>>

(* The main thread verifies the changed files one by one and polls again.   *)
NextChanged ==
    /\ pc = "verify" /\ at[Main] = "take"
    /\ \/ \E f \in changed :
            /\ changed' = changed \ {f}
            /\ job' = [job EXCEPT ![Main] = f]
            /\ at' = [at EXCEPT ![Main] = "open"]
            /\ UNCHANGED pc
       \/ changed = {} /\ pc' = "poll_walk" /\ UNCHANGED <<at, job, changed>>
    /\ UNCHANGED <<disk, store, watching, wasEmpty, todo, crawlVars, poolVars, read, seen, edits,
                   crashes>>

-------------------------------------------------------------------------------
(* Somebody creates, replaces or removes a file. *)
ChangeFile(f) ==
    /\ edits < MaxEdits /\ edits' = edits + 1
    /\ \E c \in Stat \cup {None} : c # disk[f] /\ disk' = [disk EXCEPT ![f] = c]
    /\ UNCHANGED <<store, pc, watching, wasEmpty, todo, crawlVars, poolVars, threadVars, seen,
                   changed, crashes>>

(* The process is killed and started again: only the store survives.        *)
Crash ==
    /\ crashes < MaxCrashes /\ crashes' = crashes + 1 /\ pc # "boot"
    /\ pc' = "boot" /\ watching' = FALSE /\ wasEmpty' = FALSE
    /\ todo' = {} /\ changed' = {}
    /\ walked' = [f \in Files |-> None] /\ got' = [f \in Files |-> Empty]
    /\ ids' = <<>> /\ idx' = 0
    /\ at' = [t \in Threads |-> "take"] /\ job' = [t \in Threads |-> None]
    /\ read' = [t \in Threads |-> Empty]
    /\ seen' = [f \in Files |-> None]
    /\ UNCHANGED <<disk, store, edits>>

Crawl == CrawlWalk \/ MigrateStart \/ CrawlDone \/ \E f \in Files : CrawlHash(f) \/ PutRow(f)
Poll == PollWalk \/ PollDone \/ \E f \in Files : PollHash(f)
VerifyRegistered(t) == Open(t) \/ LinkFile(t) \/ VerifyRun(t)
MainStep == Boot \/ Crawl \/ Join \/ Poll \/ NextChanged \/ VerifyRegistered(Main)
WorkerStep(w) == Take(w) \/ VerifyRegistered(w)

Next ==
    \/ MainStep
    \/ \E w \in Workers : WorkerStep(w)
    \/ \E f \in Files : ChangeFile(f)
    \/ Crash

Spec == Init /\ [][Next]_vars

(* The threads run, and the service manager starts the process again.       *)
FairSpec == Spec /\ WF_vars(MainStep) /\ \A w \in Workers : WF_vars(WorkerStep(w))

-------------------------------------------------------------------------------

(* A crawl that has ended, whatever half of a migration a crash left behind *)
(* and whatever changed meanwhile, leaves exactly one head per config among *)
(* the rows, unless rows of files that are gone are left (migrate removes   *)
(* none; registry.cpp:73-96, 138-142).                                      *)
Settled == pc \in {"pool", "verify", "poll_walk", "poll_hash"}
OneHeadPerConfig ==
    (Settled /\ \A f \in Files : rows[f] # None => f \in Listed) =>
        \A f \in Listed : Cardinality({g \in HeadIds : Config[g] = Config[f]}) = 1

(* Once the pool of an empty registry is joined, every head was taken up:   *)
(* it is linked, or nothing could be read when its turn came                *)
(* (fve-run.cpp:94-121).                                                    *)
EveryHeadTried ==
    (wasEmpty /\ edits = 0 /\ pc \in {"poll_walk", "poll_hash"}) =>
        \A f \in HeadIds : disk[f].sha # Empty => <<f, disk[f].sha>> \in links

(* A content that differs from what the watcher saw last is verified, or it *)
(* is replaced before, or the process dies: wherever the change falls among *)
(* the steps of a cycle (watcher.cpp:17-27, fve-run.cpp:170-198).           *)
Handled(f, d) == <<f, d>> \in links /\ (d \in Corrupt \/ d \in runs)
Fresh(f, d) == watching /\ ShaOf(f) = d /\ seen[f] # d
ChangeIsVerified ==
    \A f \in Watched, d \in Shas :
        Fresh(f, d) ~> (Handled(f, d) \/ ShaOf(f) # d \/ ~watching)

(* AUTONOMOUS_MODE, step 5: one bad file never stops the run.  The main     *)
(* thread gets to the watch loop, and back to it, again and again.          *)
RunGoesOn == []<>(watching /\ pc = "poll_walk")

(* AUTONOMOUS_MODE, Principles: restarting at any point is safe and resumes *)
(* where it left off.  A head in the registry is verified at last.          *)
HeadsGetVerified ==
    \A f \in Files : (f \in HeadIds) ~> (\E d \in Shas : Handled(f, d))

===============================================================================
