----------------------------- MODULE AuditEvidence -----------------------------
(***************************************************************************)
(* The evidence taken from the audit trail: GET /api/audit/verify          *)
(* (Audit::verify) and the backup thread of fve-run, which archives the    *)
(* data directory and writes the head of the chain to a sidecar, while the *)
(* service goes on.  A post-hoc edit changes one line of the log on disk.  *)
(***************************************************************************)
EXTENDS AuditTrail

CONSTANTS
    MaxBackups,     \* bound on backup rounds
    MayEdit         \* may somebody edit a line of the log file (at most once)?

ASSUME EvidenceAssumption == MaxBackups \in Nat /\ MayEdit \in BOOLEAN

VARIABLES
    bpc,            \* the backup thread: idle, tar or sidecar
    root,           \* audit_head() as it was passed to run_backup
    archive,        \* the log inside the last archive
    sidecar,        \* the root in the sidecar of that archive, or None
    backups,
    edited          \* was a line edited: "no", "inner", or the "last" one

backupVars == <<bpc, root, archive, sidecar, backups>>
evars == <<vars, backupVars, edited>>

None == << <<1, <<<<NoOp, 0, 0>>, 1>>>> >>   \* no sidecar written

-------------------------------------------------------------------------------
(* Audit::verify builds a fresh chain from the lines of the log and asks    *)
(* that chain whether its own entries link.                                 *)
Chain(lines) ==
    [i \in 1..Len(lines) |->
        [seq |-> i - 1, payload |-> IdOf(lines[i]),
         prev |-> DigestOf(SubSeq(lines, 1, i - 1)),
         hash |-> Absorb(DigestOf(SubSeq(lines, 1, i - 1)), i - 1, IdOf(lines[i]))]]

ChainVerify(entries, chainHead) ==
    LET before(i) == IF i = 1 THEN Genesis ELSE entries[i - 1].hash
    IN  /\ \A i \in 1..Len(entries) :
            /\ entries[i].prev = before(i)
            /\ entries[i].hash = Absorb(entries[i].prev, entries[i].seq, entries[i].payload)
        /\ chainHead = before(Len(entries) + 1)

AuditOk == ChainVerify(Chain(log), DigestOf(log))

-------------------------------------------------------------------------------
EInit ==
    /\ Init
    /\ bpc = "idle" /\ root = Genesis /\ archive = <<>> /\ sidecar = None
    /\ backups = 0 /\ edited = "no"

(* run_backup(args.data, backup_dir, svc.audit_head()): the head is read    *)
(* first, without mu_.                                                      *)
BackupHead ==
    /\ up /\ bpc = "idle" /\ backups < MaxBackups
    /\ \E h \in {head} \cup (IF \E o \in Ops : pc[o] = "store" THEN {Torn} ELSE {}) :
        root' = h
    /\ bpc' = "tar" /\ backups' = backups + 1
    /\ UNCHANGED <<vars, archive, sidecar, edited>>

(* tar copies the log as it is by then; when tar fails the round is over,   *)
(* with an archive that is incomplete and has no sidecar.                   *)
BackupTar ==
    /\ up /\ bpc = "tar"
    /\ sidecar' = None
    /\ \/ archive' = log /\ bpc' = "sidecar"
       \/ archive' = <<>> /\ bpc' = "idle"
    /\ UNCHANGED <<vars, root, backups, edited>>

(* Mutant: the head is read when the sidecar is written. *)
BackupSidecar_Late ==
    /\ up /\ bpc = "sidecar"
    /\ sidecar' = head /\ bpc' = "idle"
    /\ UNCHANGED <<vars, root, archive, backups, edited>>

BackupSidecar ==
    /\ up /\ bpc = "sidecar"
    /\ sidecar' = root /\ bpc' = "idle"
    /\ UNCHANGED <<vars, root, archive, backups, edited>>

(* The text of one line is replaced by another that still parses. *)
PostHocEdit ==
    /\ MayEdit /\ edited = "no"
    /\ \E i \in 1..Len(log) :
        /\ log' = [log EXCEPT ![i].ev = <<NoOp, 0, 0>>]
        /\ edited' = IF i < Len(log) THEN "inner" ELSE "last"
    /\ UNCHANGED <<tail, faults, chain, up, mu, pc, locals, crashes, backupVars>>

ServiceStep ==
    /\ Next
    /\ bpc' = IF up' THEN bpc ELSE "idle"
    /\ UNCHANGED <<root, archive, sidecar, backups, edited>>

ENext == ServiceStep \/ BackupHead \/ BackupTar \/ BackupSidecar \/ PostHocEdit

ESpec == EInit /\ [][ENext]_evars

-------------------------------------------------------------------------------

(* With every record under mu_ and no file fault, the sidecar is the digest *)
(* of a beginning of the archived log, so a restored archive can be checked *)
(* against it line by line, unless the unlocked read of the head met a      *)
(* writer; the archive is never older than its sidecar (fve-run.cpp:153,    *)
(* backup.cpp:25-44).                                                       *)
SidecarIsOfArchive ==
    (Guarded /\ edited = "no" /\ sidecar \notin {None, Torn}) =>
        \E n \in 0..Len(archive) : sidecar = DigestOf(SubSeq(archive, 1, n))

(* Once a line that has a successor is edited, the stored links of the log  *)
(* are broken for good, whatever is recorded, crashes or restarts           *)
(* afterwards; and only they tell: verify(), which never looks at them,     *)
(* accepts the edited log as well (audit.cpp:20, 47-52, merkle.cpp:70-97).  *)
LinksAloneShowAnEdit == (Guarded /\ edited = "inner") => ~Linked /\ AuditOk

===============================================================================
