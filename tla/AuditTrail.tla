------------------------------ MODULE AuditTrail ------------------------------
(***************************************************************************)
(* The audit trail of the service: audit/audit.cpp over the append-only    *)
(* log of db/store.cpp and the hash chain of core/merkle/merkle.cpp.       *)
(*                                                                         *)
(* Every Service operation leaves a trail of audit records.  An operation  *)
(* is a sequence of sections; a section either runs under Service::mu_     *)
(* (ingest, analyze, verify, crawl, ...) or does not (the record that      *)
(* closes handle_event, resolve_work_order, approve_fix, sign, ...).       *)
(* Audit::record has no lock of its own: it reads the length of the log,   *)
(* reads the head of the chain, appends to the log (Store::mu_ makes each  *)
(* of these file accesses atomic) and then appends to the chain.           *)
(*                                                                         *)
(* A record is named by its Event, <<operation, section, number>>.  Each   *)
(* event is recorded at most once, so it stands for the text of its line,  *)
(* and a digest is the sequence of what the hash absorbed.                 *)
(***************************************************************************)
EXTENDS Naturals, Sequences, FiniteSets

CONSTANTS
    Ops,            \* the operations requested of the service in a run
    NoOp,           \* nobody (owner of a free mutex)
    Sections,       \* Sections[o]: the sections of operation o, in order
    MaxCrashes,     \* bound on crashes of the process
    MayTear,        \* can a crash cut the line being appended to the log?
    MayFailOpen     \* can opening the log for append fail (Store::append = false)?

Section == [locked : BOOLEAN, records : Nat \ {0}]

ASSUME SectionsAssumption ==
    /\ Sections \in [Ops -> Seq(Section)]
    /\ \A o \in Ops : Len(Sections[o]) > 0

ASSUME NoOpAssumption == NoOp \notin Ops

ASSUME FaultAssumption ==
    MaxCrashes \in Nat /\ MayTear \in BOOLEAN /\ MayFailOpen \in BOOLEAN

VARIABLES
    log,        \* the lines of _logs/audit.ndjson, as read_log parses them
    tail,       \* how the file ends: see Tails
    head,       \* Audit::chain_.head_
    size,       \* Audit::chain_.e_.size()
    up,         \* is the process running (Service constructed)?
    mu,         \* owner of Service::mu_
    pc,         \* where each operation is: see Places
    sec, nth,   \* its current section and the number of the record in it
    seqRead,    \* the log length its record() read
    prevRead,   \* the chain head its record() read
    mark,       \* the chain state its chain_.append read
    crashes,
    faults      \* how many lines were torn and how many opens failed

disk == <<log, tail, faults>>
chain == <<head, size>>
locals == <<sec, nth, seqRead, prevRead, mark>>
vars ==
    <<log, tail, faults, head, size, up, mu, pc, sec, nth, seqRead, prevRead, mark, crashes>>

-------------------------------------------------------------------------------
(* Events, lines and digests. *)

Event == (Ops \cup {NoOp}) \X Nat \X Nat
(* How often the text of a line was tampered with by crashes: 0 is a whole  *)
(* line, 1 a cut one, and each text that continues a cut string adds one.   *)
Cut == Nat
LineId == Event \X Cut
Digest == Seq(Nat \X LineId)
Line == [seq : Nat, prev : Digest, ev : Event, cut : Cut]

Genesis == <<>>
Torn == << <<0, <<<<NoOp, 0, 0>>, 1>>>> >>  \* a mix of the bytes of two digests

(* Mutant: the hash of an entry leaves its payload out. *)
EntryHash_NoPayload(n, id) == <<n, <<<<NoOp, 0, 0>>, 0>>>>

EntryHash(n, id) == <<n, id>>
Absorb(h, n, id) == Append(h, EntryHash(n, id))
IdOf(line) == <<line.ev, line.cut>>

(* What a fresh chain holds after absorbing the lines in order. *)
DigestOf(lines) == [i \in 1..Len(lines) |-> EntryHash(i - 1, IdOf(lines[i]))]

(* The file ends in a newline; in a line without one that parses, whatever  *)
(* follows; in one that parses but ends inside a string, which whatever     *)
(* follows continues; or in a piece of a line on which parse() throws.      *)
Tails == {"clean", "ragged", "open", "garbled"}

Places == {"ready", "size", "prev", "append", "load", "store", "done", "dead"}
Recording == {"size", "prev", "append", "load", "store"}

(* The records that the operations of a run make. *)
Recordable ==
    UNION {UNION {{<<o, s, n>> : n \in 1..Sections[o][s].records}
                    : s \in 1..Len(Sections[o])} : o \in Ops}

EventOf(o) == <<o, sec[o], nth[o]>>
SectionOf(o) == Sections[o][sec[o]]
Locked(o) == SectionOf(o).locked

-------------------------------------------------------------------------------
Init ==
    /\ log = <<>> /\ tail = "clean"
    /\ head = Genesis /\ size = 0
    /\ up = FALSE /\ mu = NoOp
    /\ pc = [o \in Ops |-> "ready"]
    /\ sec = [o \in Ops |-> 1] /\ nth = [o \in Ops |-> 1]
    /\ seqRead = [o \in Ops |-> 0] /\ prevRead = [o \in Ops |-> Genesis]
    /\ mark = [o \in Ops |-> [size |-> 0, head |-> Genesis]]
    /\ crashes = 0 /\ faults = 0

(* Mutant: the chain starts from the genesis digest after a restart. *)
Boot_NoRebuild ==
    /\ ~up /\ tail # "garbled"
    /\ up' = TRUE
    /\ UNCHANGED <<disk, chain, mu, pc, locals, crashes>>

(* The constructor rebuilds the chain from the log.  On a garbled last line *)
(* parse() throws out of the constructor and the process cannot start.      *)
Boot ==
    /\ ~up /\ tail # "garbled"
    /\ up' = TRUE
    /\ head' = DigestOf(log) /\ size' = Len(log)
    /\ UNCHANGED <<disk, mu, pc, locals, crashes>>

(* Mutant: the lock_guard is missing. *)
Enter_NoLock(o) ==
    /\ up /\ pc[o] = "ready"
    /\ pc' = [pc EXCEPT ![o] = "size"]
    /\ UNCHANGED <<disk, chain, up, mu, locals, crashes>>

(* A section starts: lock_guard on mu_ where the operation has one. *)
Enter(o) ==
    /\ up /\ pc[o] = "ready"
    /\ IF Locked(o) THEN mu = NoOp /\ mu' = o ELSE UNCHANGED mu
    /\ pc' = [pc EXCEPT ![o] = "size"]
    /\ UNCHANGED <<disk, chain, up, locals, crashes>>

(* Mutant: seq counts from one. *)
ReadSize_FromOne(o) ==
    /\ pc[o] = "size"
    /\ seqRead' = [seqRead EXCEPT ![o] = Len(log) + 1]
    /\ pc' = [pc EXCEPT ![o] = "prev"]
    /\ UNCHANGED <<disk, chain, up, mu, sec, nth, prevRead, mark, crashes>>

(* record(): seq = store_.read_log("audit").size() *)
ReadSize(o) ==
    /\ pc[o] = "size"
    /\ seqRead' = [seqRead EXCEPT ![o] = Len(log)]
    /\ pc' = [pc EXCEPT ![o] = "prev"]
    /\ UNCHANGED <<disk, chain, up, mu, sec, nth, prevRead, mark, crashes>>

(* Somebody else is writing head_ and e_: an access of o races with it. *)
Racing(o) == \E q \in Ops \ {o} : pc[q] = "store"
HeadsSeenBy(o) == {head} \cup (IF Racing(o) THEN {Torn} ELSE {})

(* record(): prev = hex(chain_.head()) *)
ReadPrev(o) ==
    /\ pc[o] = "prev"
    /\ \E h \in HeadsSeenBy(o) : prevRead' = [prevRead EXCEPT ![o] = h]
    /\ pc' = [pc EXCEPT ![o] = "append"]
    /\ UNCHANGED <<disk, chain, up, mu, sec, nth, seqRead, mark, crashes>>

LineOf(o) == [seq |-> seqRead[o], prev |-> prevRead[o], ev |-> EventOf(o), cut |-> 0]

(* Mutant: what stands behind the last newline is taken for a cut line and  *)
(* written over.                                                            *)
WriteLine_Repair(line) ==
    /\ log' = IF tail = "clean" THEN Append(log, line) ELSE [log EXCEPT ![Len(log)] = line]
    /\ tail' = "clean"

(* The text {"actor":... goes on where a string was cut: the string takes   *)
(* the brace and ends at the quotation mark behind it, and parse() stops    *)
(* before the letters that follow (json.cpp:167-189).                       *)
Continued == [log EXCEPT ![Len(log)].cut = @ + 1]

(* Store::append opens the file for append and writes the line.  Where the  *)
(* last line has no newline the new text continues it, and the new record   *)
(* is not read back: a ragged line keeps the value that parse() has found   *)
(* by its end, an open one changes it.                                      *)
WriteLine(line) ==
    /\ log' = CASE tail = "clean" -> Append(log, line)
                 [] tail = "open" -> Continued
                 [] OTHER -> log
    /\ tail' = "clean"

(* Mutant: append rewrites the log it read before. *)
AppendLog_Rewrite(o) ==
    /\ pc[o] = "append"
    /\ log' = Append(SubSeq(log, 1, seqRead[o]), LineOf(o))
    /\ pc' = [pc EXCEPT ![o] = "load"]
    /\ UNCHANGED <<tail, faults, chain, up, mu, locals, crashes>>

(* record(): store_.append("audit", e); its result is not looked at. *)
AppendLog(o) ==
    /\ pc[o] = "append"
    /\ \/ WriteLine(LineOf(o)) /\ UNCHANGED faults
       \/ MayFailOpen /\ faults' = faults + 1 /\ UNCHANGED <<log, tail>>
    /\ pc' = [pc EXCEPT ![o] = "load"]
    /\ UNCHANGED <<chain, up, mu, locals, crashes>>

(* chain_.append: seq = e_.size(), and head_ goes into the entry's hash. *)
LoadChain(o) ==
    /\ pc[o] = "load"
    /\ \E h \in HeadsSeenBy(o) : mark' = [mark EXCEPT ![o] = [size |-> size, head |-> h]]
    /\ pc' = [pc EXCEPT ![o] = "store"]
    /\ UNCHANGED <<disk, chain, up, mu, sec, nth, seqRead, prevRead, crashes>>

(* Mutant: mu_ is not released at the end of a section. *)
Advance_KeepLock(o) ==
    IF nth[o] < SectionOf(o).records
    THEN /\ pc' = [pc EXCEPT ![o] = "size"]
         /\ nth' = [nth EXCEPT ![o] = @ + 1]
         /\ UNCHANGED <<sec, mu>>
    ELSE pc' = [pc EXCEPT ![o] = "done"] /\ UNCHANGED <<sec, nth, mu>>

(* After a record: the next one of the section, the next section, or the    *)
(* end.  Leaving a locked section releases mu_.                             *)
Advance(o) ==
    IF nth[o] < SectionOf(o).records
    THEN /\ pc' = [pc EXCEPT ![o] = "size"]
         /\ nth' = [nth EXCEPT ![o] = @ + 1]
         /\ UNCHANGED <<sec, mu>>
    ELSE /\ mu' = IF Locked(o) THEN NoOp ELSE mu
         /\ IF sec[o] < Len(Sections[o])
            THEN /\ pc' = [pc EXCEPT ![o] = "ready"]
                 /\ sec' = [sec EXCEPT ![o] = @ + 1]
                 /\ nth' = [nth EXCEPT ![o] = 1]
            ELSE pc' = [pc EXCEPT ![o] = "done"] /\ UNCHANGED <<sec, nth>>

(* chain_.append: push_back and head_ = h.  Two writers at once may lose a  *)
(* push_back and mix the bytes of their heads.                              *)
StoreChain(o) ==
    /\ pc[o] = "store"
    /\ \E h \in {Absorb(mark[o].head, mark[o].size, <<EventOf(o), 0>>)}
                  \cup (IF Racing(o) THEN {Torn} ELSE {}) : head' = h
    /\ \E n \in {size} \cup (IF Racing(o) THEN {mark[o].size} ELSE {}) : size' = n + 1
    /\ Advance(o)
    /\ UNCHANGED <<disk, up, seqRead, prevRead, mark, crashes>>

(* The process dies: memory and the running operations are gone.  An        *)
(* operation that was not requested yet can still be requested later.       *)
Started(o) == pc[o] \in Recording \/ (pc[o] = "ready" /\ sec[o] > 1)

Die ==
    /\ up /\ crashes < MaxCrashes
    /\ crashes' = crashes + 1
    /\ up' = FALSE /\ mu' = NoOp
    /\ head' = Genesis /\ size' = 0
    /\ pc' = [o \in Ops |-> IF Started(o) THEN "dead" ELSE pc[o]]
    /\ UNCHANGED locals

Crash == Die /\ UNCHANGED disk

(* What is left of seq in a cut line: nothing, which reads as 0, or its     *)
(* first digits.                                                            *)
SeqsOfCut(n) == {m \in 0..n : \E k \in 0..n : m = n \div (10^k)}

(* The text of o ends in the middle: only its newline is missing, or more;  *)
(* or it continues an open string and ends before or behind the quotation   *)
(* mark.  The beginning of a text that continues a ragged line leaves       *)
(* everything as it is, which is the plain crash.  A cut line may lack prev *)
(* or have a part of it; the links are asked for only where none was cut.   *)
TornLine(o, t) ==
    \/ t = "ragged" /\ log' = Append(log, LineOf(o))
    \/ t \in {"ragged", "open", "garbled"} /\ \E n \in SeqsOfCut(seqRead[o]) :
            log' = Append(log, [LineOf(o) EXCEPT !.seq = n, !.cut = 1])

TearingCrash(o) ==
    /\ MayTear /\ pc[o] = "append"
    /\ Die
    /\ \/ tail = "clean" /\ tail' \in Tails /\ TornLine(o, tail')
       \/ tail = "open" /\ tail' \in {"open", "ragged"} /\ log' = Continued
    /\ faults' = faults + 1

Step(o) ==
    \/ Enter(o) \/ ReadSize(o) \/ ReadPrev(o)
    \/ AppendLog(o) \/ LoadChain(o) \/ StoreChain(o)

Next ==
    \/ Boot
    \/ \E o \in Ops : Step(o)
    \/ Crash
    \/ \E o \in Ops : TearingCrash(o)

Spec == Init /\ [][Next]_vars

(* The scheduler runs every thread, and mu_ is handed to one of finitely    *)
(* many waiters; the service manager restarts the process.                  *)
Fairness == WF_vars(Boot) /\ \A o \in Ops : WF_vars(Step(o))
FairSpec == Spec /\ Fairness

-------------------------------------------------------------------------------
TypeOK ==
    /\ log \in Seq(Line) /\ tail \in Tails
    /\ head \in Digest /\ size \in Nat
    /\ up \in BOOLEAN /\ mu \in Ops \cup {NoOp}
    /\ pc \in [Ops -> Places]
    /\ sec \in [Ops -> Nat \ {0}] /\ nth \in [Ops -> Nat \ {0}]
    /\ seqRead \in [Ops -> Nat] /\ prevRead \in [Ops -> Digest]
    /\ mark \in [Ops -> [size : Nat, head : Digest]]
    /\ crashes \in 0..MaxCrashes /\ faults \in Nat

(* Has an operation run past the start of a section that takes no lock? *)
UnguardedStarted ==
    \E o \in Ops : \E s \in 1..sec[o] :
        ~Sections[o][s].locked /\ (s < sec[o] \/ pc[o] # "ready")

Guarded == ~UnguardedStarted /\ faults = 0

(* audit.cpp:16-22: line i carries its own position and the digest of the   *)
(* lines before it.                                                         *)
LinkedAt(i) ==
    /\ log[i].seq = i - 1
    /\ log[i].prev = DigestOf(SubSeq(log, 1, i - 1))
Linked == \A i \in 1..Len(log) : LinkedAt(i)

(* Every line links to its predecessors as long as every record so far was  *)
(* made under mu_, across any interleaving, crash and restart               *)
(* (audit.cpp:13-24 under service.cpp's lock_guards).                       *)
LinkedWhileGuarded == Guarded => Linked

(* Whenever nobody is between the append to the log and the append to the   *)
(* chain, the head in memory is the digest of the log on disk.              *)
HeadMatchesLog ==
    (Guarded /\ up /\ \A o \in Ops : pc[o] \notin {"load", "store"})
        => head = DigestOf(log) /\ size = Len(log)

(* A record never claims a position beyond its own, whoever runs without    *)
(* the lock: seq is a length the log had before (audit.cpp:16).             *)
SeqNeverAhead == \A i \in 1..Len(log) : log[i].seq < i

(* How often record n of section s of o may be in the log: an operation that *)
(* died during that very record may have written it or not.                 *)
TimesInLog(o, s, n) ==
    CASE s < sec[o] \/ (s = sec[o] /\ n < nth[o]) -> {1}
      [] s = sec[o] /\ n = nth[o] /\ pc[o] \in {"load", "store", "done"} -> {1}
      [] s = sec[o] /\ n = nth[o] /\ pc[o] = "dead" -> {0, 1}
      [] OTHER -> {0}

PlacesOf(e) == {i \in 1..Len(log) : log[i].ev = e}
Lost == {e \in Recordable : TimesInLog(e[1], e[2], e[3]) = {1} /\ PlacesOf(e) = {}}

(* A record an operation got past is in the log once, and no other is; and  *)
(* only file faults lose any, whichever operations hold the lock and        *)
(* wherever the process dies: an open that failed the one record it was     *)
(* for, a torn line the one that continued it (store.cpp:64-71).            *)
RecordedOnce ==
    /\ \A o \in Ops : \A s \in 1..Len(Sections[o]) : \A n \in 1..Sections[o][s].records :
            Cardinality(PlacesOf(<<o, s, n>>)) \in TimesInLog(o, s, n) \cup {0}
    /\ Cardinality(Lost) <= faults

AllLocked == \A o \in Ops : \A s \in 1..Len(Sections[o]) : Sections[o][s].locked

(* A line that was written whole is never changed or dropped, by no step,   *)
(* crash or restart.  Neither is a line that a crash cut, but for one: as   *)
(* long as it is the last and ends inside a string, the next record to be   *)
(* appended adds a brace to it (store.cpp:64-71, json.cpp:167-189).         *)
Unclosed(i) == i = Len(log) /\ log[i].cut > 0 /\ tail = "open"
KeepsLine(i) ==
    \/ log'[i] = log[i]
    \/ Unclosed(i) /\ log'[i] = [log[i] EXCEPT !.cut = @ + 1]
KeepsLines == Len(log) <= Len(log') /\ \A i \in 1..Len(log) : KeepsLine(i)
AppendOnly == [][KeepsLines]_vars

(* Every requested operation ends: the locks are released on every path and *)
(* nobody waits for mu_ for ever (needs MayTear = FALSE: a garbled tail     *)
(* keeps the process from starting).                                        *)
EveryOpEnds == <>(\A o \in Ops : pc[o] \in {"done", "dead"})

===============================================================================
