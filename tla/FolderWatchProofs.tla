--------------------------- MODULE FolderWatchProofs ---------------------------
(***************************************************************************)
(* Proofs about the autonomous run, for any folder, number of workers,      *)
(* edits and restarts.                                                     *)
(***************************************************************************)
EXTENDS FolderWatch, FiniteSetTheorems, WellFoundedInduction, TLAPS

-------------------------------------------------------------------------------
(* Types, and where threads may be while the main thread is somewhere.      *)
FType ==
    /\ pc \in {"boot", "walk", "hash", "put", "pool", "verify", "poll_walk", "poll_hash"}
    /\ watching \in BOOLEAN /\ wasEmpty \in BOOLEAN
    /\ idx \in Nat /\ edits \in Nat /\ ids \in Seq(Files) /\ todo \subseteq Files
    /\ at \in [Threads -> {"take", "open", "link", "run", "done"}]
    /\ job = [t \in Threads |-> job[t]] /\ read = [t \in Threads |-> read[t]]
    /\ rows = [f \in Files |-> rows[f]] /\ seen = [f \in Files |-> seen[f]]
Busy == {"open", "link", "run"}
Whereabouts ==
    /\ \A w \in Workers : at[w] \in Busy => pc = "pool"
    /\ at[Main] \in Busy => pc = "verify"
    /\ pc = "pool" => ~watching
    /\ pc = "verify" => watching

(* What holds as long as nobody changes the folder.                          *)
Tried(f) == ShaOf(f) # Empty => <<f, ShaOf(f)>> \in links
Held(f) == \E w \in Workers : job[w] = f /\ (at[w] = "open" \/ (at[w] = "link" /\ read[w] = ShaOf(f)))
RowsArePresent ==
    /\ wasEmpty => \A f \in Files : rows[f] # None => f \in Present
    /\ pc \in {"hash", "put"} => Listed \subseteq Present
    /\ pc = "put" => todo \subseteq Listed
PoolTakesAll ==
    pc = "pool" =>
        /\ \A f \in HeadIds : \E i \in 1..Len(ids) : ids[i] = f
        /\ \A i \in 1..Len(ids) : ids[i] \in HeadIds
        /\ \A i \in 1..Len(ids) : i <= idx => Tried(ids[i]) \/ Held(ids[i])
        /\ \A w \in Workers : at[w] = "done" => idx >= Len(ids)
AllTried == (wasEmpty /\ pc \in {"poll_walk", "poll_hash"}) => \A f \in HeadIds : Tried(f)
NothingNew ==
    /\ watching => /\ pc \in {"poll_walk", "poll_hash"} /\ changed = {}
                   /\ \A f \in Present \cap Watched : seen[f] = ShaOf(f)
    /\ pc = "poll_hash" => /\ todo \subseteq Present \cap Watched
                           /\ \A f \in (Present \cap Watched) \ todo : seen[f] = ShaOf(f)
Untouched == edits = 0 => RowsArePresent /\ PoolTakesAll /\ AllTried /\ NothingNew
FInv == FType /\ Whereabouts /\ Untouched

LEMMA MainIsNoWorker == Main \in Threads /\ Workers \subseteq Threads /\ \A w \in Workers : w # Main
BY ThreadAssumption DEF Threads

LEMMA InitFInv == Init => FInv
<1> SUFFICES ASSUME Init PROVE FInv
    OBVIOUS
<1> USE DEF Init
<1>1. FType
    <2>1. <<>> \in Seq(Files)
        OBVIOUS
    <2> QED BY <2>1, WatchBoundAssumption DEF FType
<1>2. Whereabouts
    BY MainIsNoWorker DEF Whereabouts, Busy
<1>3. Untouched
    BY DEF Untouched, RowsArePresent, PoolTakesAll, AllTried, NothingNew
<1> QED BY <1>1, <1>2, <1>3 DEF FInv

-------------------------------------------------------------------------------
(* What the pool goes through is a sequence of all the heads.                *)
LEMMA SequencesOfASet ==
    ASSUME NEW S, IsFiniteSet(S), NEW s \in SetToSeqs(S)
    PROVE  /\ s \in Seq(S) /\ Len(s) \in Nat
           /\ \A i \in 1..Len(s) : s[i] \in S
           /\ \A x \in S : \E i \in 1..Len(s) : s[i] = x
<1> DEFINE n == Cardinality(S)
<1>1. n \in Nat
    BY FS_CardinalityType
<1>2. s \in [1..n -> S] /\ \A i, j \in 1..n : i # j => s[i] # s[j]
    BY DEF SetToSeqs
<1>3. s \in Injection(1..n, S)
    BY <1>2 DEF Injection, IsInjective
<1>4. Cardinality(1..n) = n
    BY <1>1, FS_Interval
<1> HIDE DEF n
<1>5. Cardinality(1..n) = Cardinality(S)
    BY <1>4 DEF n
<1>6. s \in Surjection(1..n, S)
    BY <1>3, <1>5, FS_Injection
<1>7. s \in Seq(S) /\ Len(s) = n
    BY <1>1, <1>2
<1> QED BY <1>1, <1>2, <1>6, <1>7 DEF Surjection

(* The types and the whereabouts, action by action. *)
LEMMA TypeKept ==
    ASSUME FInv, [Next]_vars
    PROVE  FType' /\ Whereabouts'
<1> USE MainIsNoWorker DEF FInv, FType, Whereabouts, Busy
<1>1. CASE Boot
    <2>1. (\A f \in Files : rows[f] = None) \in BOOLEAN
        OBVIOUS
    <2>2. wasEmpty' \in BOOLEAN
        BY <1>1, <2>1, Zenon DEF Boot
    <2> QED BY <1>1, <2>2 DEF Boot, store, crawlVars, poolVars, threadVars
<1>2. CASE CrawlWalk \/ MigrateStart
    BY <1>2 DEF CrawlWalk, MigrateStart, Present, Listed, store, crawlVars, poolVars, threadVars
<1>3. ASSUME NEW f \in Files, CrawlHash(f) \/ PutRow(f) PROVE FType' /\ Whereabouts'
    BY <1>3 DEF CrawlHash, PutRow, store, crawlVars, poolVars, threadVars
<1>4. CASE CrawlDone
    <2>1. CASE watching
        BY <1>4, <2>1 DEF CrawlDone, store, crawlVars, poolVars
    <2>2. CASE ~watching /\ wasEmpty
        <3>1. HeadIds \subseteq Files
            BY DEF HeadIds
        <3>2. ids' \in Seq(Files)
            <4>1. IsFiniteSet(HeadIds)
                BY <3>1, FileAssumption, FS_Subset
            <4>2. ids' \in SetToSeqs(HeadIds)
                BY <1>4, <2>2 DEF CrawlDone
            <4>3. ids' \in Seq(HeadIds)
                BY <4>1, <4>2, SequencesOfASet
            <4> QED BY <4>3, <3>1
        <3> QED BY <1>4, <2>2, <3>2 DEF CrawlDone, store, crawlVars
    <2>3. CASE ~watching /\ ~wasEmpty
        BY <1>4, <2>3 DEF CrawlDone, store, crawlVars, poolVars
    <2> QED BY <2>1, <2>2, <2>3
<1>5. ASSUME NEW w \in Workers, Take(w) PROVE FType' /\ Whereabouts'
    BY <1>5 DEF Take, store, crawlVars
<1>6. ASSUME NEW t \in Threads, Open(t) PROVE FType' /\ Whereabouts'
    BY <1>6 DEF Open, store, crawlVars, poolVars
<1>7. ASSUME NEW t \in Threads, LinkFile(t) PROVE FType' /\ Whereabouts'
    BY <1>7 DEF LinkFile, store, crawlVars, poolVars
<1>8. ASSUME NEW t \in Threads, VerifyRun(t) PROVE FType' /\ Whereabouts'
    BY <1>8 DEF VerifyRun, store, crawlVars, poolVars
<1>9. CASE Join
    BY <1>9 DEF Join, store, crawlVars, poolVars, threadVars
<1>10. CASE PollWalk \/ PollDone
    <2>1. CASE PollWalk
        BY <2>1 DEF PollWalk, Present, store, crawlVars, poolVars, threadVars
    <2>2. CASE PollDone
        BY <2>2 DEF PollDone, store, crawlVars, poolVars, threadVars
    <2> QED BY <1>10, <2>1, <2>2
<1>11. ASSUME NEW f \in Files, PollHash(f) PROVE FType' /\ Whereabouts'
    BY <1>11 DEF PollHash, store, crawlVars, poolVars, threadVars
<1>12. CASE NextChanged
    BY <1>12 DEF NextChanged, store, crawlVars, poolVars
<1>13. ASSUME NEW f \in Files, ChangeFile(f) PROVE FType' /\ Whereabouts'
    BY <1>13 DEF ChangeFile, store, crawlVars, poolVars, threadVars
<1>14. CASE Crash
    <2>1. <<>> \in Seq(Files)
        OBVIOUS
    <2> QED BY <1>14, <2>1 DEF Crash, store
<1>15. CASE UNCHANGED vars
    BY <1>15 DEF vars
<1> QED BY <1>1, <1>2, <1>3, <1>4, <1>5, <1>6, <1>7, <1>8, <1>9, <1>10, <1>11, <1>12, <1>13, <1>14, <1>15
    DEF Next, MainStep, Crawl, Poll, VerifyRegistered, WorkerStep

-------------------------------------------------------------------------------
(* As long as the folder is as it was, its files are, and what is tried stays *)
(* tried.                                                                    *)
LEMMA SameFolder ==
    ASSUME disk' = disk
    PROVE  /\ Present' = Present
           /\ \A f : ShaOf(f)' = ShaOf(f)
           /\ links \subseteq links' => \A f : Tried(f) => Tried(f)'
BY DEF Present, ShaOf, Tried

(* Only what is in the registry, in the folder and seen by the poll counts   *)
(* outside of the pool.                                                      *)
LEMMA RowsStay ==
    ASSUME FInv, edits = 0, disk' = disk, links' = links, UNCHANGED <<rows, walked, wasEmpty>>,
           pc' \in {"hash", "put"} => pc \in {"hash", "put"},
           pc' = "put" => todo' \subseteq Listed
    PROVE  RowsArePresent' /\ HeadIds' = HeadIds
<1>1. Present' = Present /\ Listed' = Listed /\ HeadIds' = HeadIds
    BY SameFolder DEF Listed, HeadIds
<1> QED BY <1>1 DEF FInv, Untouched, RowsArePresent

LEMMA PollStays ==
    ASSUME FInv, edits = 0, disk' = disk, UNCHANGED <<seen, changed, watching>>,
           pc' = "poll_hash" => pc = "poll_hash" /\ todo' = todo, watching => pc' \in {"poll_walk", "poll_hash"}
    PROVE  NothingNew'
<1>1. Present' = Present /\ \A f : ShaOf(f)' = ShaOf(f)
    BY SameFolder
<1> QED BY <1>1 DEF FInv, Untouched, NothingNew

LEMMA CrawlKeeps ==
    ASSUME FInv, edits = 0,
           Boot \/ CrawlWalk \/ MigrateStart \/ \E f \in Files : CrawlHash(f) \/ PutRow(f)
    PROVE  Untouched'
<1> USE DEF FInv, FType, store, crawlVars, poolVars, threadVars
<1>0. /\ UNCHANGED <<disk, links, seen, changed, watching, edits>>
      /\ pc' \in {"walk", "hash", "put"} /\ pc \in {"boot", "walk", "hash", "put"} /\ ~watching
    BY DEF Boot, CrawlWalk, MigrateStart, CrawlHash, PutRow, Untouched, NothingNew
<1>1. PoolTakesAll' /\ AllTried'
    BY <1>0 DEF PoolTakesAll, AllTried
<1>2. NothingNew'
    BY <1>0, PollStays
<1>3. RowsArePresent'
    <2>1. CASE Boot
        BY <2>1, <1>0, Zenon DEF Boot, RowsArePresent
    <2>2. CASE CrawlWalk
        <3>1. Listed' \subseteq Present' /\ rows' = rows /\ Present' = Present /\ wasEmpty' = wasEmpty
            BY <2>2 DEF CrawlWalk, Listed, Present
        <3> QED BY <2>2, <3>1 DEF CrawlWalk, Untouched, RowsArePresent
    <2>3. CASE MigrateStart
        BY <2>3, <1>0, RowsStay DEF MigrateStart
    <2>4. ASSUME NEW f \in Files, CrawlHash(f) PROVE RowsArePresent'
        BY <2>4, <1>0, RowsStay DEF CrawlHash
    <2>5. ASSUME NEW f \in Files, PutRow(f) PROVE RowsArePresent'
        <3>1. /\ f \in Present /\ pc = "put" /\ pc' = pc /\ todo' \subseteq todo
              /\ UNCHANGED <<walked, wasEmpty>> /\ \A g \in Files : g # f => rows'[g] = rows[g]
            BY <2>5 DEF PutRow, Untouched, RowsArePresent
        <3>2. Present' = Present /\ Listed' = Listed
            BY <3>1, <1>0 DEF Present, Listed
        <3> QED BY <3>1, <3>2 DEF Untouched, RowsArePresent
    <2> QED BY <2>1, <2>2, <2>3, <2>4, <2>5
<1> QED BY <1>1, <1>2, <1>3 DEF Untouched

LEMMA CrawlDoneKeeps ==
    ASSUME FInv, edits = 0, CrawlDone
    PROVE  Untouched'
<1> USE DEF FInv, FType, store, crawlVars, poolVars, threadVars
<1>0. /\ UNCHANGED <<disk, rows, links, seen, changed, watching, walked, wasEmpty, edits, todo>>
      /\ pc = "put" /\ ~watching /\ pc' \in {"pool", "poll_walk"}
    BY DEF CrawlDone, Untouched, NothingNew
<1>1. RowsArePresent' /\ HeadIds' = HeadIds
    BY <1>0, RowsStay
<1>2. NothingNew'
    BY <1>0, PollStays
<1>3. AllTried'
    BY <1>0 DEF CrawlDone, AllTried
<1>4. PoolTakesAll'
    <2> SUFFICES ASSUME pc' = "pool" PROVE PoolTakesAll'
        BY DEF PoolTakesAll
    <2>1. wasEmpty /\ ids' \in SetToSeqs(HeadIds) /\ idx' = 0 /\ \A t \in Threads : at'[t] = "take"
        BY <1>0 DEF CrawlDone
    <2>2. IsFiniteSet(HeadIds)
        BY FileAssumption, FS_Subset DEF HeadIds
    <2>3. /\ \A x \in HeadIds : \E i \in 1..Len(ids') : ids'[i] = x
          /\ \A i \in 1..Len(ids') : ids'[i] \in HeadIds
        BY <2>1, <2>2, SequencesOfASet
    <2> QED BY <1>1, <2>1, <2>3, MainIsNoWorker DEF PoolTakesAll
<1> QED BY <1>1, <1>2, <1>3, <1>4 DEF Untouched

(* Steps that change nothing but the threads, the pool and the links.         *)
LEMMA ThreadsMove ==
    ASSUME FInv, edits = 0, UNCHANGED <<disk, rows, pc, watching, wasEmpty, todo, walked, seen, changed, edits>>,
           links \subseteq links', PoolTakesAll'
    PROVE  Untouched'
<1>1. /\ Present' = Present /\ Listed' = Listed /\ HeadIds' = HeadIds
      /\ \A f : ShaOf(f)' = ShaOf(f)
      /\ \A f : Tried(f) => Tried(f)'
    BY SameFolder DEF Listed, HeadIds
<1>2. RowsArePresent' /\ NothingNew'
    BY <1>1 DEF FInv, Untouched, RowsArePresent, NothingNew
<1>3. AllTried'
    BY <1>1 DEF FInv, Untouched, AllTried
<1> QED BY <1>2, <1>3 DEF Untouched

LEMMA TakeKeeps ==
    ASSUME FInv, edits = 0, NEW w \in Workers, Take(w)
    PROVE  Untouched'
<1> USE MainIsNoWorker DEF FInv, FType, store, crawlVars
<1>0. /\ UNCHANGED <<disk, rows, links, pc, watching, wasEmpty, todo, walked, seen, changed, edits, ids, read>>
      /\ pc = "pool" /\ at[w] = "take" /\ idx' = idx + 1
    BY DEF Take
<1>1. \A v \in Workers : v # w => at'[v] = at[v] /\ job'[v] = job[v]
    BY DEF Take
<1>2. idx < Len(ids) => at'[w] = "open" /\ job'[w] = ids[idx + 1]
    BY DEF Take
<1>3. ~(idx < Len(ids)) => at'[w] = "done"
    BY DEF Take
<1>4. /\ HeadIds' = HeadIds /\ Len(ids) \in Nat
      /\ \A f : ShaOf(f)' = ShaOf(f)
      /\ \A f : Tried(f) => Tried(f)'
    BY <1>0, SameFolder DEF HeadIds
<1>5. \A f : Held(f) => Held(f)'
    BY <1>0, <1>1, <1>4 DEF Held
<1>6. \A i \in 1..Len(ids) : i <= idx + 1 => Tried(ids[i])' \/ Held(ids[i])'
    <2> SUFFICES ASSUME NEW i \in 1..Len(ids), i <= idx + 1 PROVE Tried(ids[i])' \/ Held(ids[i])'
        OBVIOUS
    <2>1. CASE i <= idx
        BY <2>1, <1>0, <1>4, <1>5 DEF Untouched, PoolTakesAll
    <2>2. CASE i = idx + 1
        <3>1. at'[w] = "open" /\ job'[w] = ids[i]
            BY <2>2, <1>2, <1>4
        <3> QED BY <3>1, <1>0 DEF Held
    <2> QED BY <2>1, <2>2
<1>7. \A v \in Workers : at'[v] = "done" => idx + 1 >= Len(ids)
    <2> SUFFICES ASSUME NEW v \in Workers, at'[v] = "done" PROVE idx + 1 >= Len(ids)
        OBVIOUS
    <2>1. CASE v = w
        BY <2>1, <1>2, <1>4
    <2>2. CASE v # w
        <3>1. idx >= Len(ids)
            BY <2>2, <1>0, <1>1 DEF Untouched, PoolTakesAll
        <3> QED BY <3>1, <1>4
    <2> QED BY <2>1, <2>2
<1>8. PoolTakesAll'
    BY <1>0, <1>4, <1>6, <1>7 DEF Untouched, PoolTakesAll
<1> QED BY <1>0, <1>8, ThreadsMove

LEMMA OpenKeeps ==
    ASSUME FInv, edits = 0, NEW t \in Threads, Open(t)
    PROVE  Untouched'
<1> USE MainIsNoWorker DEF FInv, FType, store, crawlVars, poolVars
<1>0. /\ UNCHANGED <<disk, rows, links, pc, watching, wasEmpty, todo, walked, seen, changed, edits, ids, idx, job>>
      /\ at[t] = "open" /\ \A v \in Threads : v # t => at'[v] = at[v] /\ read'[v] = read[v]
    BY DEF Open
<1>1. /\ HeadIds' = HeadIds
      /\ \A f : ShaOf(f)' = ShaOf(f)
      /\ \A f : Tried(f) => Tried(f)'
    BY <1>0, SameFolder DEF HeadIds
<1>2. \/ at'[t] = "take" /\ (rows[job[t]] = None \/ ShaOf(job[t]) = Empty)
      \/ at'[t] = "link" /\ read'[t] = ShaOf(job[t])
    BY DEF Open
<1>3. \A f \in HeadIds : Held(f) => Tried(f)' \/ Held(f)'
    <2> SUFFICES ASSUME NEW f \in HeadIds, Held(f) PROVE Tried(f)' \/ Held(f)'
        OBVIOUS
    <2>1. PICK w \in Workers : job[w] = f /\ (at[w] = "open" \/ (at[w] = "link" /\ read[w] = ShaOf(f)))
        BY DEF Held
    <2>2. CASE w # t
        BY <2>1, <2>2, <1>0, <1>1 DEF Held
    <2>3. CASE w = t
        <3>1. rows[f] # None
            BY DEF HeadIds
        <3>2. CASE at'[t] = "take"
            <4>1. ShaOf(f)' = Empty
                BY <2>1, <2>3, <3>1, <3>2, <1>1, <1>2
            <4> QED BY <4>1 DEF Tried
        <3>3. CASE at'[t] = "link"
            BY <2>1, <2>3, <3>3, <1>0, <1>1, <1>2 DEF Held
        <3> QED BY <3>2, <3>3, <1>2
    <2> QED BY <2>2, <2>3
<1>4. PoolTakesAll'
    <2> SUFFICES ASSUME pc = "pool" PROVE PoolTakesAll'
        BY <1>0 DEF PoolTakesAll
    <2>1. \A i \in 1..Len(ids) : i <= idx => Tried(ids[i])' \/ Held(ids[i])'
        <3> SUFFICES ASSUME NEW i \in 1..Len(ids), i <= idx PROVE Tried(ids[i])' \/ Held(ids[i])'
            OBVIOUS
        <3>1. ids[i] \in HeadIds /\ (Tried(ids[i]) \/ Held(ids[i]))
            BY DEF Untouched, PoolTakesAll
        <3>2. ASSUME NEW f \in HeadIds, Tried(f) \/ Held(f) PROVE Tried(f)' \/ Held(f)'
            BY <3>2, <1>1, <1>3
        <3>3. ids' = ids
            BY <1>0
        <3> QED BY <3>1, <3>2, <3>3
    <2>2. \A w \in Workers : at'[w] = "done" => at[w] = "done"
        BY <1>0, <1>2
    <2> QED BY <2>1, <2>2, <1>0, <1>1 DEF Untouched, PoolTakesAll
<1> QED BY <1>0, <1>4, ThreadsMove

LEMMA LinkFileKeeps ==
    ASSUME FInv, edits = 0, NEW t \in Threads, LinkFile(t)
    PROVE  Untouched'
<1> USE MainIsNoWorker DEF FInv, FType, store, crawlVars, poolVars
<1>0. /\ UNCHANGED <<disk, rows, pc, watching, wasEmpty, todo, walked, seen, changed, edits, ids, idx, job, read>>
      /\ at[t] = "link" /\ at'[t] = "run" /\ \A v \in Threads : v # t => at'[v] = at[v]
      /\ links \subseteq links' /\ <<job[t], read[t]>> \in links'
    BY DEF LinkFile
<1>1. /\ HeadIds' = HeadIds
      /\ \A f : ShaOf(f)' = ShaOf(f)
      /\ \A f : Tried(f) => Tried(f)'
    BY <1>0, SameFolder DEF HeadIds
<1>2. \A f : Held(f) => Tried(f)' \/ Held(f)'
    <2> SUFFICES ASSUME NEW f, Held(f) PROVE Tried(f)' \/ Held(f)'
        OBVIOUS
    <2>1. PICK w \in Workers : job[w] = f /\ (at[w] = "open" \/ (at[w] = "link" /\ read[w] = ShaOf(f)))
        BY DEF Held
    <2>2. CASE w # t
        BY <2>1, <2>2, <1>0, <1>1 DEF Held
    <2>3. CASE w = t
        BY <2>1, <2>3, <1>0, <1>1 DEF Tried
    <2> QED BY <2>2, <2>3
<1>3. PoolTakesAll'
    <2> SUFFICES ASSUME pc = "pool" PROVE PoolTakesAll'
        BY <1>0 DEF PoolTakesAll
    <2>1. \A i \in 1..Len(ids) : i <= idx => Tried(ids[i])' \/ Held(ids[i])'
        <3> SUFFICES ASSUME NEW i \in 1..Len(ids), i <= idx PROVE Tried(ids[i])' \/ Held(ids[i])'
            OBVIOUS
        <3>1. ids[i] \in HeadIds /\ (Tried(ids[i]) \/ Held(ids[i]))
            BY DEF Untouched, PoolTakesAll
        <3>2. ASSUME NEW f \in HeadIds, Tried(f) \/ Held(f) PROVE Tried(f)' \/ Held(f)'
            BY <3>2, <1>1, <1>2
        <3>3. ids' = ids
            BY <1>0
        <3> QED BY <3>1, <3>2, <3>3
    <2>2. \A w \in Workers : at'[w] = "done" => at[w] = "done"
        BY <1>0
    <2> QED BY <2>1, <2>2, <1>0, <1>1 DEF Untouched, PoolTakesAll
<1> QED BY <1>0, <1>3, ThreadsMove

LEMMA VerifyRunKeeps ==
    ASSUME FInv, edits = 0, NEW t \in Threads, VerifyRun(t)
    PROVE  Untouched'
<1> USE MainIsNoWorker DEF FInv, FType, store, crawlVars, poolVars
<1>0. /\ UNCHANGED <<disk, rows, links, pc, watching, wasEmpty, todo, walked, seen, changed, edits, ids, idx, job, read>>
      /\ at[t] = "run" /\ at'[t] = "take" /\ \A v \in Threads : v # t => at'[v] = at[v]
    BY DEF VerifyRun
<1>1. /\ HeadIds' = HeadIds
      /\ \A f : ShaOf(f)' = ShaOf(f)
      /\ \A f : Tried(f) => Tried(f)'
    BY <1>0, SameFolder DEF HeadIds
<1>2. \A f : Held(f) => Held(f)'
    BY <1>0, <1>1 DEF Held
<1>3. PoolTakesAll'
    BY <1>0, <1>1, <1>2 DEF Untouched, PoolTakesAll
<1> QED BY <1>0, <1>3, ThreadsMove

LEMMA JoinKeeps ==
    ASSUME FInv, edits = 0, Join
    PROVE  Untouched'
<1> USE MainIsNoWorker DEF FInv, FType, store, crawlVars, poolVars, threadVars
<1>0. /\ UNCHANGED <<disk, rows, links, watching, wasEmpty, todo, walked, seen, changed, edits, ids, idx>>
      /\ pc = "pool" /\ pc' = "poll_walk" /\ \A w \in Workers : at[w] = "done"
    BY DEF Join
<1>1. RowsArePresent' /\ HeadIds' = HeadIds /\ \A f : Tried(f) => Tried(f)'
    BY <1>0, RowsStay, SameFolder
<1>2. NothingNew'
    BY <1>0, PollStays
<1>3. idx >= Len(ids)
    BY <1>0, ThreadAssumption DEF Untouched, PoolTakesAll
<1>4. \A f : ~Held(f)
    BY <1>0 DEF Held
<1>5. \A f \in HeadIds : Tried(f)
    <2> SUFFICES ASSUME NEW f \in HeadIds PROVE Tried(f)
        OBVIOUS
    <2>1. PICK i \in 1..Len(ids) : ids[i] = f
        BY <1>0 DEF Untouched, PoolTakesAll
    <2>2. i <= idx
        BY <1>3
    <2>3. Tried(ids[i]) \/ Held(ids[i])
        BY <2>2, <1>0 DEF Untouched, PoolTakesAll
    <2> QED BY <2>1, <2>3, <1>4
<1>6. AllTried'
    BY <1>1, <1>5 DEF AllTried
<1>7. PoolTakesAll'
    BY <1>0 DEF PoolTakesAll
<1> QED BY <1>1, <1>2, <1>6, <1>7 DEF Untouched

LEMMA PollKeeps ==
    ASSUME FInv, edits = 0, PollWalk \/ PollDone \/ (\E f \in Files : PollHash(f))
    PROVE  Untouched'
<1> USE DEF FInv, FType, store, crawlVars, poolVars, threadVars
<1>0. /\ UNCHANGED <<disk, rows, links, wasEmpty, walked, edits, ids, idx>>
      /\ pc \in {"poll_walk", "poll_hash"}
    BY DEF PollWalk, PollDone, PollHash
<1>1. /\ Present' = Present /\ HeadIds' = HeadIds
      /\ \A f : ShaOf(f)' = ShaOf(f)
      /\ \A f : Tried(f) => Tried(f)'
    BY <1>0, SameFolder DEF HeadIds
<1>2. pc' \in {"poll_walk", "poll_hash"} /\ NothingNew'
    <2>1. CASE PollWalk
        <3>1. /\ todo' = Present \cap Watched /\ UNCHANGED <<seen, changed, watching>> /\ pc' = "poll_hash"
            BY <2>1 DEF PollWalk
        <3> QED BY <3>1, <1>1, <1>0 DEF Untouched, NothingNew
    <2>2. CASE PollDone
        <3>1. \A f \in Present \cap Watched : seen[f] = ShaOf(f)
            BY <2>2 DEF PollDone, Untouched, NothingNew
        <3>2. UNCHANGED seen /\ pc' = "poll_walk" /\ changed' = {}
            BY <2>2 DEF PollDone, Untouched, NothingNew
        <3> QED BY <3>1, <3>2, <1>1 DEF NothingNew
    <2>3. ASSUME NEW f \in Files, PollHash(f) PROVE pc' \in {"poll_walk", "poll_hash"} /\ NothingNew'
        <3>1. /\ pc = "poll_hash" /\ pc' = pc /\ f \in todo /\ todo' = todo \ {f} /\ watching' = watching
              /\ seen'[f] = ShaOf(f) /\ \A g \in Files : g # f => seen'[g] = seen[g]
              /\ changed' = IF seen[f] # ShaOf(f) THEN changed \cup {f} ELSE changed
            BY <2>3 DEF PollHash
        <3>2. todo \subseteq Present \cap Watched
              /\ \A g \in (Present \cap Watched) \ todo : seen[g] = ShaOf(g)
            BY <3>1 DEF Untouched, NothingNew
        <3>3. watching => changed' = {}
            BY <3>1, <3>2 DEF Untouched, NothingNew
        <3>4. \A g \in Present \cap Watched : g \in Files
            BY DEF Present
        <3>5. \A g \in Files : ShaOf(g)' = ShaOf(g)
            BY <1>1
        <3>6. \A g \in (Present \cap Watched) \ todo' : seen'[g] = ShaOf(g)'
            BY <3>1, <3>2, <3>4, <3>5
        <3>7. watching => \A g \in Present \cap Watched : seen'[g] = ShaOf(g)'
            BY <3>1, <3>2, <3>4, <3>5 DEF Untouched, NothingNew
        <3> QED BY <3>1, <3>2, <3>3, <3>6, <3>7, <1>1 DEF NothingNew
    <2> QED BY <2>1, <2>2, <2>3
<1>3. RowsArePresent' /\ PoolTakesAll'
    BY <1>0, <1>1, <1>2 DEF Untouched, RowsArePresent, PoolTakesAll
<1>4. AllTried'
    BY <1>0, <1>1 DEF Untouched, AllTried
<1> QED BY <1>2, <1>3, <1>4 DEF Untouched

LEMMA NextFInv == ASSUME FInv, [Next]_vars PROVE FInv'
<1>1. FType' /\ Whereabouts'
    BY TypeKept
<1>2. ASSUME edits' = 0 PROVE Untouched'
    <2>1. edits = 0 \/ \E f \in Files : ChangeFile(f)
        BY <1>2 DEF Next, MainStep, Crawl, Poll, VerifyRegistered, WorkerStep, Boot, CrawlWalk, MigrateStart,
            CrawlHash, PutRow, CrawlDone, Take, Open, LinkFile, VerifyRun, Join, PollWalk, PollDone, PollHash,
            NextChanged, Crash, vars, store
    <2>2. edits = 0
        BY <2>1, <1>2 DEF ChangeFile, FInv, FType
    <2>3. CASE Crawl
        BY <2>2, <2>3, CrawlKeeps, CrawlDoneKeeps DEF Crawl
    <2>4. CASE Poll
        BY <2>2, <2>4, PollKeeps DEF Poll
    <2>5. ASSUME NEW t \in Threads, VerifyRegistered(t) PROVE Untouched'
        BY <2>2, <2>5, OpenKeeps, LinkFileKeeps, VerifyRunKeeps DEF VerifyRegistered
    <2>6. ASSUME NEW w \in Workers, Take(w) PROVE Untouched'
        BY <2>2, <2>6, TakeKeeps
    <2>7. CASE NextChanged
        BY <2>2, <2>7 DEF NextChanged, FInv, Whereabouts, Untouched, NothingNew
    <2>8. CASE Crash
        BY <2>8 DEF Crash, Untouched, RowsArePresent, PoolTakesAll, AllTried, NothingNew
    <2>9. CASE UNCHANGED vars
        <3>1. /\ Present' = Present /\ Listed' = Listed /\ HeadIds' = HeadIds
              /\ \A f : ShaOf(f)' = ShaOf(f) /\ Tried(f)' = Tried(f) /\ Held(f)' = Held(f)
            BY <2>9 DEF vars, Present, Listed, HeadIds, ShaOf, Tried, Held
        <3> QED BY <2>2, <2>9, <3>1 DEF vars, FInv, Untouched, RowsArePresent, PoolTakesAll, AllTried, NothingNew
    <2>10. ASSUME NEW f \in Files, ChangeFile(f) PROVE Untouched'
        BY <2>10, <1>2 DEF ChangeFile, FInv, FType
    <2> QED BY <2>2, <2>3, <2>4, <2>5, <2>6, <2>7, <2>8, <2>9, <2>10, JoinKeeps, CrawlKeeps, MainIsNoWorker
        DEF Next, MainStep, WorkerStep
<1> QED BY <1>1, <1>2 DEF FInv, Untouched

(* However many workers share the counter, and however often the process     *)
(* died before, none of the heads of an empty registry is left out           *)
(* (fve-run.cpp:94-121).                                                     *)
THEOREM EveryHeadTriedHolds == Spec => []EveryHeadTried
<1>1. FInv => EveryHeadTried
    <2> SUFFICES ASSUME FInv, wasEmpty, edits = 0, pc \in {"poll_walk", "poll_hash"},
                        NEW f \in HeadIds, disk[f].sha # Empty
                 PROVE  <<f, disk[f].sha>> \in links
        BY DEF EveryHeadTried
    <2>1. f \in Present
        BY DEF FInv, Untouched, RowsArePresent, HeadIds
    <2>2. ShaOf(f) = disk[f].sha
        BY <2>1 DEF Present, ShaOf
    <2> QED BY <2>2 DEF FInv, Untouched, AllTried, Tried
<1> QED BY InitFInv, NextFInv, <1>1, PTL DEF Spec

-------------------------------------------------------------------------------
(* Among finitely many files one is outranked by no other. *)
Timed == \A f \in Listed : walked[f] \in Mtimes

LEMMA RanksAreTotal ==
    ASSUME Timed
    PROVE  /\ \A f, g \in Listed : f # g => Outranks(f, g) \/ Outranks(g, f)
           /\ \A f, g \in Listed : ~(Outranks(f, g) /\ Outranks(g, f))
           /\ \A f, g, h \in Listed : Outranks(f, g) /\ Outranks(g, h) => Outranks(f, h)
<1>1. Listed \subseteq Files
    BY DEF Listed
<1>2. \A f \in Listed : /\ Order[f] \in Nat \X Nat \X Nat
                        /\ walked[f] \in Nat
    BY <1>1, FileAssumption DEF Timed
<1>3. \A f \in Listed : Order[f][1] \in Nat /\ Order[f][2] \in Nat /\ Order[f][3] \in Nat
    BY <1>2
<1>4. \A f, g \in Listed : f # g => Order[f][3] # Order[g][3]
    BY <1>1, FileAssumption
<1>5. \A f, g \in Listed : f # g => Outranks(f, g) \/ Outranks(g, f)
    BY <1>2, <1>3, <1>4 DEF Outranks
<1>6. \A f, g \in Listed : ~(Outranks(f, g) /\ Outranks(g, f))
    BY <1>2, <1>3 DEF Outranks
<1>7. \A f, g, h \in Listed : Outranks(f, g) /\ Outranks(g, h) => Outranks(f, h)
    BY <1>2, <1>3, SMTT(60) DEF Outranks
<1> QED BY <1>5, <1>6, <1>7

LEMMA OneIsHighest ==
    ASSUME Timed, NEW S \in SUBSET Listed, S # {}
    PROVE  \E f \in S : \A g \in S : ~Outranks(g, f)
<1> DEFINE Topped(U) == \E f \in U : \A g \in U : ~Outranks(g, f)
           Bad == {U \in SUBSET S : U # {} /\ ~Topped(U)}
<1> SUFFICES ASSUME Bad # {} PROVE FALSE
    OBVIOUS
<1>1. IsFiniteSet(S)
    BY FileAssumption, FS_Subset DEF Listed
<1>2. Bad \subseteq FiniteSubsetsOf(S)
    BY <1>1, FS_FiniteSubsetsOfFinite
<1>3. PICK U \in Bad : \A V \in Bad : ~ (<<V, U>> \in StrictSubsetOrdering(S))
    <2> HIDE DEF Bad
    <2> QED BY <1>2, FS_StrictSubsetOrderingWellFounded, WFMin
<1>4. U \subseteq S /\ U # {} /\ ~Topped(U)
    OBVIOUS
<1>5. PICK x \in U : TRUE
    BY <1>4
<1>6. U \ {x} \notin Bad
    <2>1. <<U \ {x}, U>> \in StrictSubsetOrdering(S)
        BY <1>4, <1>5 DEF StrictSubsetOrdering
    <2> HIDE DEF Bad
    <2> QED BY <2>1, <1>3
<1>7. \A f \in S : f \in Listed /\ ~Outranks(f, f)
    BY RanksAreTotal
<1>8. CASE U \ {x} = {}
    <2>1. \A g \in U : g = x
        BY <1>8
    <2>2. Topped(U)
        BY <2>1, <1>4, <1>5, <1>7
    <2> QED BY <2>2, <1>4
<1>9. CASE U \ {x} # {}
    <2>1. Topped(U \ {x})
        BY <1>4, <1>6, <1>9
    <2>2. PICK m \in U \ {x} : \A g \in U \ {x} : ~Outranks(g, m)
        BY <2>1
    <2>3. m \in Listed /\ x \in Listed /\ \A g \in U : g \in Listed
        BY <1>4, <1>5
    <2>4. CASE Outranks(x, m)
        <3>1. \A g \in U : ~Outranks(g, x)
            BY <2>2, <2>3, <2>4, <1>4, <1>7, RanksAreTotal
        <3> QED BY <3>1, <1>4, <1>5
    <2>5. CASE ~Outranks(x, m)
        <3>1. \A g \in U : ~Outranks(g, m)
            BY <2>2, <2>5
        <3> QED BY <3>1, <1>4
    <2> QED BY <2>4, <2>5
<1> QED BY <1>8, <1>9

(* Once a row is put it tells whether its file is the head of this crawl.    *)
Migrated(f) == rows[f] # None /\ rows[f].head = IsHead(f)
CrawlTyped ==
    /\ disk \in [Files -> Stat \cup {None}]
    /\ got \in [Files -> Shas \cup {Empty}]
    /\ Timed
RowsFollow ==
    /\ pc = "put" => \A f \in Listed \ todo : Migrated(f)
    /\ Settled => \A f \in Listed : Migrated(f)
HeadInv == CrawlTyped /\ RowsFollow

LEMMA InitHeadInv == Init => HeadInv
BY FileAssumption DEF Init, HeadInv, CrawlTyped, RowsFollow, Timed, Listed, Settled

LEMMA ShaIsASha == ASSUME CrawlTyped, NEW f \in Files PROVE ShaOf(f) \in Shas \cup {Empty}
BY DEF CrawlTyped, ShaOf, Stat

(* Steps that leave the crawl's list and the rows alone. *)
LEMMA RowsAgree ==
    ASSUME HeadInv, UNCHANGED <<walked, rows>>, CrawlTyped',
           Settled' => Settled \/ (pc = "put" /\ todo = {}),
           pc' = "put" => (pc = "put" /\ todo' = todo) \/ todo' = Listed
    PROVE  HeadInv'
<1>1. Listed' = Listed /\ \A f : IsHead(f)' = IsHead(f) /\ Migrated(f)' = Migrated(f)
    BY DEF Listed, IsHead, Outranks, Migrated
<1>2. CASE Settled'
    BY <1>1, <1>2 DEF HeadInv, RowsFollow, Settled
<1>3. CASE ~Settled'
    BY <1>1, <1>3 DEF HeadInv, RowsFollow
<1> QED BY <1>2, <1>3

LEMMA HeadsKept ==
    ASSUME FInv, HeadInv, [Next]_vars
    PROVE  HeadInv'
<1> USE DEF HeadInv
<1>1. CASE CrawlWalk
    <2>1. Timed'
        BY <1>1 DEF CrawlWalk, Timed, Listed, Present, CrawlTyped, Stat
    <2> QED BY <1>1, <2>1 DEF CrawlWalk, CrawlTyped, RowsFollow, Settled
<1>2. ASSUME NEW f \in Files, CrawlHash(f) PROVE HeadInv'
    <2>1. CrawlTyped'
        BY <1>2, ShaIsASha DEF CrawlHash, CrawlTyped, Timed, Listed
    <2> QED BY <1>2, <2>1 DEF CrawlHash, RowsFollow, Settled
<1>3. CASE MigrateStart
    <2>1. CrawlTyped'
        BY <1>3 DEF MigrateStart, crawlVars, CrawlTyped, Timed, Listed
    <2> QED BY <1>3, <2>1, RowsAgree DEF MigrateStart, crawlVars, store, Settled
<1>4. ASSUME NEW f \in Files, PutRow(f) PROVE HeadInv'
    <2>1. CrawlTyped'
        BY <1>4 DEF PutRow, crawlVars, CrawlTyped, Timed, Listed
    <2>2. Listed' = Listed /\ \A g : IsHead(g)' = IsHead(g)
        BY <1>4 DEF PutRow, crawlVars, Listed, IsHead, Outranks
    <2>3. ASSUME NEW g \in Listed, g \notin todo' PROVE Migrated(g)'
        <3>1. g \in Files
            BY DEF Listed
        <3>2. rows' = [rows EXCEPT ![f] = [sha |-> got[f], mtime |-> walked[f], head |-> IsHead(f)]]
            BY <1>4 DEF PutRow
        <3>3. CASE g = f
            <4>1. rows'[g] = [sha |-> got[g], mtime |-> walked[g], head |-> IsHead(g)]
                BY <3>1, <3>2, <3>3 DEF FInv, FType
            <4>2. IsHead(g) \in BOOLEAN
                BY DEF IsHead
            <4>3. got[g] \in Shas \cup {Empty} /\ walked[g] \in Mtimes
                BY <3>1 DEF CrawlTyped, Timed
            <4>4. rows'[g] \in [sha : Shas \cup {Empty}, mtime : Mtimes, head : BOOLEAN]
                BY <4>1, <4>2, <4>3
            <4>5. rows'[g] # None
                BY <4>4, RowAssumption
            <4>6. rows'[g].head = IsHead(g)
                BY <4>1
            <4> QED BY <4>5, <4>6, <2>2 DEF Migrated
        <3>4. CASE g # f
            <4>1. rows'[g] = rows[g]
                BY <3>1, <3>2, <3>4 DEF FInv, FType
            <4>2. g \notin todo /\ pc = "put"
                BY <1>4, <2>3, <3>4 DEF PutRow
            <4> QED BY <4>1, <4>2, <2>2 DEF Migrated, RowsFollow
        <3> QED BY <3>3, <3>4
    <2>4. pc' = "put"
        BY <1>4 DEF PutRow
    <2> QED BY <2>1, <2>2, <2>3, <2>4 DEF RowsFollow, Settled
<1>5. CASE CrawlDone
    <2>1. CrawlTyped'
        BY <1>5 DEF CrawlDone, crawlVars, CrawlTyped, Timed, Listed
    <2> QED BY <1>5, <2>1, RowsAgree DEF CrawlDone, crawlVars, store
<1>6. ASSUME NEW f \in Files, ChangeFile(f) PROVE HeadInv'
    <2>1. disk' \in [Files -> Stat \cup {None}]
        BY <1>6 DEF ChangeFile, CrawlTyped
    <2>2. CrawlTyped'
        BY <1>6, <2>1 DEF ChangeFile, crawlVars, CrawlTyped, Timed, Listed
    <2> QED BY <1>6, <2>2, RowsAgree DEF ChangeFile, crawlVars, store, Settled
<1>7. CASE Crash
    <2>1. CrawlTyped'
        BY <1>7 DEF Crash, CrawlTyped, Timed, Listed
    <2> QED BY <1>7, <2>1 DEF Crash, RowsFollow, Settled
<1>8. ASSUME UNCHANGED <<disk, rows, walked, got>>,
             Settled' => Settled, pc' # "put" \/ (pc' = pc /\ todo' = todo)
      PROVE  HeadInv'
    <2>1. CrawlTyped'
        BY <1>8 DEF CrawlTyped, Timed, Listed
    <2> QED BY <1>8, <2>1, RowsAgree
<1>9. CASE Boot \/ Join \/ PollWalk \/ PollDone \/ NextChanged
    BY <1>8, <1>9 DEF Boot, Join, PollWalk, PollDone, NextChanged, store, crawlVars, Settled
<1>10. ASSUME NEW f \in Files, PollHash(f) PROVE HeadInv'
    BY <1>8, <1>10 DEF PollHash, store, crawlVars, Settled
<1>11. ASSUME NEW t \in Threads, Take(t) \/ VerifyRegistered(t) PROVE HeadInv'
    BY <1>8, <1>11 DEF Take, VerifyRegistered, Open, LinkFile, VerifyRun, store, crawlVars, Settled
<1>12. CASE UNCHANGED vars
    BY <1>8, <1>12 DEF vars, Settled
<1> QED BY <1>1, <1>2, <1>3, <1>4, <1>5, <1>6, <1>7, <1>9, <1>10, <1>11, <1>12, MainIsNoWorker
    DEF Next, MainStep, WorkerStep, Crawl, Poll

(* Of the rows of one config exactly one is the head after a crawl, also of  *)
(* a crawl that met the half of another, and whatever changed meanwhile      *)
(* (registry.cpp:73-96, 138-142).                                            *)
THEOREM OneHeadPerConfigHolds == Spec => []OneHeadPerConfig
<1>1. HeadInv => OneHeadPerConfig
    <2> SUFFICES ASSUME HeadInv, Settled, \A f \in Files : rows[f] # None => f \in Listed, NEW f \in Listed
                 PROVE  Cardinality({g \in HeadIds : Config[g] = Config[f]}) = 1
        BY DEF OneHeadPerConfig
    <2> DEFINE S == {g \in Listed : Config[g] = Config[f]}
    <2>1. Timed /\ \A g \in Listed : Migrated(g)
        BY DEF HeadInv, CrawlTyped, RowsFollow
    <2>2. PICK m \in S : \A g \in S : ~Outranks(g, m)
        <3>1. S \in SUBSET Listed /\ S # {}
            OBVIOUS
        <3> HIDE DEF S
        <3> QED BY <2>1, <3>1, OneIsHighest
    <2>3. \A g \in S : IsHead(g) <=> g = m
        <3>1. IsHead(m)
            BY <2>2 DEF IsHead
        <3>2. ASSUME NEW g \in S, g # m PROVE ~IsHead(g)
            <4>1. Outranks(m, g)
                BY <2>1, <2>2, <3>2, RanksAreTotal
            <4> QED BY <4>1, <3>2 DEF IsHead
        <3> QED BY <3>1, <3>2
    <2>4. \A g \in Files : g \in HeadIds <=> g \in Listed /\ IsHead(g)
        BY <2>1 DEF HeadIds, Migrated, Listed
    <2>5. {g \in HeadIds : Config[g] = Config[f]} = {m}
        BY <2>2, <2>3, <2>4 DEF HeadIds, Listed
    <2> QED BY <2>5, FS_Singleton
<1>2. FInv /\ HeadInv /\ [Next]_vars => FInv' /\ HeadInv'
    BY NextFInv, HeadsKept
<1> QED BY InitFInv, InitHeadInv, <1>1, <1>2, PTL DEF Spec
===============================================================================
