----------------------------- MODULE ChangeControl -----------------------------
(***************************************************************************)
(* Change control in the production loop: the handlers of service.cpp that *)
(* move fixes, work orders and production events through the store         *)
(* (handle_event, resolve_work_order, resolve_hole, approve_fix, sign),    *)
(* over casebase/casebase.cpp and platform/identity.cpp.                   *)
(*                                                                         *)
(* None of these handlers holds Service::mu_.  Each access to the store is *)
(* atomic (Store::mu_), everything between two accesses is not: requests   *)
(* run in the threads of the HTTP pool and interleave, and the process may *)
(* be killed between two accesses.                                         *)
(***************************************************************************)
EXTENDS Naturals, FiniteSets

CONSTANTS
    Ops,        \* the requests of a run
    Request,    \* Request[o]: what request o asks for
    Users, Fixes, Patches, Cases,
    Keys,       \* what names an event: part, section and defect
    Near,       \* Near[k]: cases of the program within delta of the event's box
    Dist,       \* Dist[k][c]: their distance
    TopK,       \* how many matches query() returns (5 in the code)
    MakesSafe,  \* <<k, p>>: the program of k with patch p validates as SAFE
    Linked0,    \* <<case, fix>> links with outcome "resolved" in the store
    MaxClock,   \* bound on the seconds that pass
    MaxCrashes,
    None

VARIABLES
    fixes,      \* collection "fixes"
    users,      \* collection "users": the role, or None
    orders,     \* collection "work_orders"
    events,     \* collection "production_events"
    links,      \* collection "case_fix_links": the certificate of each link
    sigs,       \* collection "signatures", by id
    sigLog,     \* the log "signatures_log"
    audited,    \* the requests whose closing audit record is written
    clock,      \* std::time
    pc,
    fixRead, orderRead, eid, halt, todo, hits, chosen,  \* locals of a handler
    crashes, overlapped

Roles == {"engineer", "production_operator", "reviewer", "admin"}
Statuses == {"proposed", "approved"}
Approval == "approved_fix"
Meanings == {Approval, "reviewed"}

Eid == Keys \X (0..Cardinality(Ops))
Cert == Keys \X Patches
FixDoc == [patch : Patches, status : Statuses, by : Users \cup {None}]
OrderDoc == [status : {"open", "resolved"}, fix : Fixes \cup {None}]
EventDoc == [op : Ops, action : {"halt", "auto_fix", "work_order"}, fix : Fixes \cup {None}]
SigId == Users \X Fixes \X Meanings \X (0..MaxClock)
Match == [case : Cases, fix : Fixes, patch : Patches]

Requests ==
    [kind : {"event"}, key : Keys]
    \cup [kind : {"resolve"}, order : Eid, fix : Fixes, patch : Patches]
    \cup [kind : {"hole"}, fix : Fixes, patch : Patches]
    \cup [kind : {"approve"}, fix : Fixes, user : Users]
    \cup [kind : {"sign"}, user : Users, fix : Fixes, meaning : Meanings, patch : Patches]
    \cup [kind : {"user"}, user : Users, role : Roles]

ASSUME RequestAssumption == Request \in [Ops -> Requests] /\ IsFiniteSet(Ops)
ASSUME EventAssumption ==
    /\ Near \in [Keys -> SUBSET Cases] /\ Dist \in [Keys -> [Cases -> Nat]]
    /\ MakesSafe \subseteq Cert /\ Linked0 \subseteq Cases \X Fixes
ASSUME BoundAssumption == TopK \in Nat /\ MaxClock \in Nat /\ MaxCrashes \in Nat
ASSUME NoneAssumption ==
    /\ None \notin Users /\ None \notin Fixes /\ None \notin FixDoc /\ None \notin OrderDoc
    /\ None \notin EventDoc /\ None \notin Cert /\ None \notin Patches
    /\ None \notin Match /\ None \notin Roles /\ None \notin Eid

docs == <<fixes, users, orders, events, links, sigs, sigLog, audited>>
locals == <<fixRead, orderRead, eid, halt, todo, hits, chosen>>
vars == <<docs, clock, pc, locals, crashes, overlapped>>

-------------------------------------------------------------------------------
Kind(o) == Request[o].kind
Running(o) == pc[o] \notin {"idle", "done", "refused", "dead"}
KeyOf(o) == Request[o].key

Init ==
    /\ fixes = [f \in Fixes |-> None]
    /\ users = [u \in Users |-> None]
    /\ orders = [e \in Eid |-> None] /\ events = [e \in Eid |-> None]
    /\ links = [l \in Linked0 |-> None]
    /\ sigs = [s \in SigId |-> None] /\ sigLog = {}
    /\ audited = {} /\ clock = 0
    /\ pc = [o \in Ops |-> "idle"]
    /\ fixRead = [o \in Ops |-> None] /\ orderRead = [o \in Ops |-> None]
    /\ eid = [o \in Ops |-> None] /\ chosen = [o \in Ops |-> None]
    /\ halt = [o \in Ops |-> FALSE]
    /\ todo = [o \in Ops |-> {}] /\ hits = [o \in Ops |-> {}]
    /\ crashes = 0 /\ overlapped = FALSE

Goto(o, place) == pc' = [pc EXCEPT ![o] = place]

(* A request arrives in a thread of the pool. *)
First == [event |-> "lookup", resolve |-> "get_order", hole |-> "put_fix",
          approve |-> "check_user", sign |-> "check_user", user |-> "put_user"]
Arrive(o) ==
    /\ pc[o] = "idle"
    /\ Goto(o, First[Kind(o)])
    /\ overlapped' = (overlapped \/ \E q \in Ops : Running(q))
    /\ UNCHANGED <<docs, clock, locals, crashes>>

Audited(o) ==
    /\ pc[o] = "audit"
    /\ audited' = audited \cup {o}
    /\ Goto(o, "done")
    /\ UNCHANGED <<fixes, users, orders, events, links, sigs, sigLog, clock, locals,
                   crashes, overlapped>>

-------------------------------------------------------------------------------
(* create_user: the id is a hash of the names, so asking again overwrites   *)
(* the role; users are always created active.                               *)
PutUser(o) ==
    /\ pc[o] = "put_user"
    /\ users' = [users EXCEPT ![Request[o].user] = Request[o].role]
    /\ Goto(o, "audit")
    /\ UNCHANGED <<fixes, orders, events, links, sigs, sigLog, audited, clock, locals,
                   crashes, overlapped>>

(* resolve_work_order: store_.get("work_orders", wo_id) *)
GetOrder(o) ==
    /\ pc[o] = "get_order"
    /\ orderRead' = [orderRead EXCEPT ![o] = orders[Request[o].order]]
    /\ Goto(o, IF orders[Request[o].order] = None THEN "refused" ELSE "put_fix")
    /\ UNCHANGED <<docs, clock, fixRead, eid, halt, todo, hits, chosen, crashes, overlapped>>

(* Mutant: record_fix leaves the status and the approver as they were. *)
RecordFix_KeepStatus(f, patch) ==
    fixes' = [fixes EXCEPT ![f] =
        IF @ = None THEN [patch |-> patch, status |-> "proposed", by |-> None]
        ELSE [@ EXCEPT !.patch = patch]]

(* CaseBase::record_fix writes a whole new document over the old one. *)
RecordFix(f, patch) ==
    fixes' = [fixes EXCEPT ![f] = [patch |-> patch, status |-> "proposed", by |-> None]]

PutFix(o) ==
    /\ pc[o] = "put_fix"
    /\ RecordFix(Request[o].fix, Request[o].patch)
    /\ Goto(o, IF Kind(o) = "resolve" THEN "put_order" ELSE "audit")
    /\ UNCHANGED <<users, orders, events, links, sigs, sigLog, audited, clock, locals,
                   crashes, overlapped>>

PutOrder(o) ==
    /\ pc[o] = "put_order"
    /\ orders' = [orders EXCEPT ![Request[o].order] =
                    [orderRead[o] EXCEPT !.status = "resolved", !.fix = Request[o].fix]]
    /\ Goto(o, "audit")
    /\ UNCHANGED <<fixes, users, events, links, sigs, sigLog, audited, clock, locals,
                   crashes, overlapped>>

-------------------------------------------------------------------------------
(* approve_fix: has_role(reviewer), where an admin passes too; sign: active *)
CheckUser(o) ==
    /\ pc[o] = "check_user"
    /\ Goto(o, IF Kind(o) = "approve"
               THEN IF users[Request[o].user] \in {"reviewer", "admin"} THEN "get_fix" ELSE "refused"
               ELSE IF users[Request[o].user] # None THEN "put_sig" ELSE "refused")
    /\ UNCHANGED <<docs, clock, locals, crashes, overlapped>>

(* store_.get("fixes", fix_id) *)
GetFix(o) ==
    /\ pc[o] = "get_fix"
    /\ fixRead' = [fixRead EXCEPT ![o] = fixes[Request[o].fix]]
    /\ Goto(o, IF fixes[Request[o].fix] = None THEN "refused" ELSE "put_sig")
    /\ UNCHANGED <<docs, clock, orderRead, eid, halt, todo, hits, chosen, crashes, overlapped>>

MeaningOf(o) == IF Kind(o) = "approve" THEN Approval ELSE Request[o].meaning
PayloadOf(o) == IF Kind(o) = "approve" THEN fixRead[o].patch ELSE Request[o].patch

(* Identity::sign: the id is made of the user, the subject, the meaning and *)
(* the second; the signature goes to the collection, then to the log.       *)
PutSig(o) ==
    /\ pc[o] = "put_sig"
    /\ sigs' = [sigs EXCEPT ![<<Request[o].user, Request[o].fix, MeaningOf(o), clock>>] = PayloadOf(o)]
    /\ Goto(o, "log_sig")
    /\ UNCHANGED <<fixes, users, orders, events, links, sigLog, audited, clock, locals,
                   crashes, overlapped>>

LogSig(o) ==
    /\ pc[o] = "log_sig"
    /\ sigLog' = sigLog \cup {<<Request[o].user, Request[o].fix, MeaningOf(o), PayloadOf(o)>>}
    /\ Goto(o, IF Kind(o) = "approve" THEN "reread" ELSE "audit")
    /\ UNCHANGED <<fixes, users, orders, events, links, sigs, audited, clock, locals,
                   crashes, overlapped>>

(* CaseBase::approve_fix reads the fix once more ... *)
ReRead(o) ==
    /\ pc[o] = "reread"
    /\ fixRead' = [fixRead EXCEPT ![o] = fixes[Request[o].fix]]
    /\ Goto(o, IF fixes[Request[o].fix] = None THEN "audit" ELSE "approve")
    /\ UNCHANGED <<docs, clock, orderRead, eid, halt, todo, hits, chosen, crashes, overlapped>>

(* ... and writes what it read with the new status and the approver. *)
Approve(o) ==
    /\ pc[o] = "approve"
    /\ fixes' = [fixes EXCEPT ![Request[o].fix] =
                    [fixRead[o] EXCEPT !.status = "approved", !.by = Request[o].user]]
    /\ Goto(o, "audit")
    /\ UNCHANGED <<users, orders, events, links, sigs, sigLog, audited, clock, locals,
                   crashes, overlapped>>

-------------------------------------------------------------------------------
(* handle_event: the registry is searched, the file ingested and the        *)
(* margin lowered and evaluated.  Where any of it fails the handler returns *)
(* early and nothing of the event is stored.                                *)
Lookup(o) ==
    /\ pc[o] = "lookup"
    /\ \E place \in {"name_event", "refused"} : Goto(o, place)
    /\ UNCHANGED <<docs, clock, locals, crashes, overlapped>>

Stored(coll) == {e \in Eid : coll[e] # None}

(* Criticality, an outcome of the evaluation, is P4 (the part is halted) or *)
(* less (the case base is asked).                                           *)
Route(o) ==
    \E p4 \in BOOLEAN :
        /\ halt' = [halt EXCEPT ![o] = p4]
        /\ Goto(o, IF p4 THEN "put_event" ELSE "query")

(* Mutant: the id leaves the count of events out. *)
NameEvent_NoCount(o) ==
    /\ pc[o] = "name_event"
    /\ eid' = [eid EXCEPT ![o] = <<KeyOf(o), 0>>]
    /\ todo' = [todo EXCEPT ![o] = {l \in Linked0 : l[1] \in Near[KeyOf(o)]}]
    /\ Route(o)
    /\ UNCHANGED <<docs, clock, fixRead, orderRead, hits, chosen, crashes, overlapped>>

(* Mutant: the events are counted in memory, from zero after a restart.     *)
NameEvent_InMemory(o) ==
    /\ pc[o] = "name_event"
    /\ eid' = [eid EXCEPT ![o] = <<KeyOf(o), Cardinality({e \in Stored(events) : crashes = 0})>>]
    /\ todo' = [todo EXCEPT ![o] = {l \in Linked0 : l[1] \in Near[KeyOf(o)]}]
    /\ Route(o)
    /\ UNCHANGED <<docs, clock, fixRead, orderRead, hits, chosen, crashes, overlapped>>

(* The event id hashes the key and the number of events stored by now.      *)
NameEvent(o) ==
    /\ pc[o] = "name_event"
    /\ eid' = [eid EXCEPT ![o] = <<KeyOf(o), Cardinality(Stored(events))>>]
    /\ todo' = [todo EXCEPT ![o] = {l \in Linked0 : l[1] \in Near[KeyOf(o)]}]
    /\ Route(o)
    /\ UNCHANGED <<docs, clock, fixRead, orderRead, hits, chosen, crashes, overlapped>>

(* Mutant: change control is forgotten, any fix of a link will do. *)
Usable_Any(doc) == doc # None

(* Change control: only an approved fix may be transferred. *)
Usable(doc) == doc # None /\ doc.status = "approved"

(* CaseBase::query: one link after the other (the order of readdir is left  *)
(* open), the first usable fix of a case becomes a match with a copy of the *)
(* patch.                                                                   *)
QueryLink(o) ==
    /\ pc[o] = "query" /\ todo[o] # {}
    /\ \E l \in todo[o] :
        IF Usable(fixes[l[2]])
        THEN /\ hits' = [hits EXCEPT ![o] = @ \cup
                    {[case |-> l[1], fix |-> l[2], patch |-> fixes[l[2]].patch]}]
             /\ todo' = [todo EXCEPT ![o] = {m \in @ : m[1] # l[1]}]
        ELSE /\ todo' = [todo EXCEPT ![o] = @ \ {l}]
             /\ UNCHANGED hits
    /\ UNCHANGED <<docs, clock, pc, fixRead, orderRead, eid, halt, chosen, crashes, overlapped>>

Nearer(o, m) == {h \in hits[o] : Dist[KeyOf(o)][h.case] < Dist[KeyOf(o)][m.case]}
NotFarther(o, m) == {h \in hits[o] : Dist[KeyOf(o)][h.case] <= Dist[KeyOf(o)][m.case]}

(* try_transfer: the patched program is evaluated, certified and validated. *)
Transfers(o, m) == <<KeyOf(o), m.patch>> \in MakesSafe

(* The matches, sorted by distance and cut to TopK, are tried in order.     *)
TryTransfer(o) ==
    /\ pc[o] = "query" /\ todo[o] = {}
    /\ \/ \E m \in hits[o] :
            /\ Transfers(o, m) /\ Cardinality(Nearer(o, m)) < TopK
            /\ \A h \in Nearer(o, m) : ~Transfers(o, h)
            /\ chosen' = [chosen EXCEPT ![o] = m]
            /\ Goto(o, "put_link")
       \/ /\ \A m \in hits[o] : Transfers(o, m) => Cardinality(NotFarther(o, m) \ {m}) >= TopK
          /\ Goto(o, "open_order")
          /\ UNCHANGED chosen
    /\ UNCHANGED <<docs, clock, fixRead, orderRead, eid, halt, todo, hits, crashes, overlapped>>

(* record_outcome(case, fix, "resolved", certificate of the transfer) *)
PutLink(o) ==
    /\ pc[o] = "put_link"
    /\ links' = [links EXCEPT ![<<chosen[o].case, chosen[o].fix>>] = <<KeyOf(o), chosen[o].patch>>]
    /\ Goto(o, "put_event")
    /\ UNCHANGED <<fixes, users, orders, events, sigs, sigLog, audited, clock, locals,
                   crashes, overlapped>>

OpenOrder(o) ==
    /\ pc[o] = "open_order"
    /\ orders' = [orders EXCEPT ![eid[o]] = [status |-> "open", fix |-> None]]
    /\ Goto(o, "put_event")
    /\ UNCHANGED <<fixes, users, events, links, sigs, sigLog, audited, clock, locals,
                   crashes, overlapped>>

ActionOf(o) ==
    IF halt[o] THEN "halt"
    ELSE IF chosen[o] # None THEN "auto_fix" ELSE "work_order"

PutEvent(o) ==
    /\ pc[o] = "put_event"
    /\ events' = [events EXCEPT ![eid[o]] =
                    [op |-> o, action |-> ActionOf(o),
                     fix |-> IF chosen[o] = None THEN None ELSE chosen[o].fix]]
    /\ Goto(o, "audit")
    /\ UNCHANGED <<fixes, users, orders, links, sigs, sigLog, audited, clock, locals,
                   crashes, overlapped>>

-------------------------------------------------------------------------------
Tick ==
    /\ clock < MaxClock /\ clock' = clock + 1
    /\ UNCHANGED <<docs, pc, locals, crashes, overlapped>>

(* The process is killed and started again: the store keeps what was put.   *)
Crash ==
    /\ crashes < MaxCrashes /\ crashes' = crashes + 1
    /\ pc' = [o \in Ops |-> IF Running(o) THEN "dead" ELSE pc[o]]
    /\ UNCHANGED <<docs, clock, locals, overlapped>>

HandleEvent(o) ==
    \/ Lookup(o) \/ NameEvent(o) \/ QueryLink(o) \/ TryTransfer(o)
    \/ PutLink(o) \/ OpenOrder(o) \/ PutEvent(o)
ApproveFix(o) ==
    CheckUser(o) \/ GetFix(o) \/ PutSig(o) \/ LogSig(o) \/ ReRead(o) \/ Approve(o)
Other(o) == PutUser(o) \/ GetOrder(o) \/ PutFix(o) \/ PutOrder(o)

Next ==
    \/ \E o \in Ops : Arrive(o) \/ HandleEvent(o) \/ ApproveFix(o) \/ Other(o) \/ Audited(o)
    \/ Tick
    \/ Crash

Spec == Init /\ [][Next]_vars

-------------------------------------------------------------------------------
Approved(f) == fixes[f] # None /\ fixes[f].status = "approved"

(* As long as no two requests were in flight at once, what was signed is    *)
(* what is approved: the log holds the approver's signature on the very     *)
(* patch of the fix, across crashes, re-proposals and re-approvals          *)
(* (casebase.cpp:80-95, service.cpp:853-869).                               *)
SignedPatchApproved ==
    ~overlapped => \A f \in Fixes : Approved(f) =>
        <<fixes[f].by, f, Approval, fixes[f].patch>> \in sigLog

(* An event answered by a transferred fix: the fix is the one of a resolved *)
(* link of a near case, the link holds a validated certificate and somebody *)
(* signed an approval of the fix, whoever changed the fix meanwhile         *)
(* (service.cpp:445-454, casebase.cpp:108-158).                             *)
TransferIsCertified ==
    \A e \in Stored(events) : events[e].action = "auto_fix" =>
        /\ \E c \in Near[e[1]] :
            /\ <<c, events[e].fix>> \in Linked0
            /\ links[<<c, events[e].fix>>] \in MakesSafe
        /\ \E u \in Users, p \in Patches : <<u, events[e].fix, Approval, p>> \in sigLog

(* Without overlapping requests, every event that was stored keeps its own  *)
(* record, though its id is made from a count (service.cpp:438).            *)
OwnRecord ==
    \A o \in Ops : (Kind(o) = "event" /\ pc[o] \in {"audit", "done"}) =>
        events[eid[o]] # None /\ events[eid[o]].op = o
EventsKeepApart == ~overlapped => OwnRecord

(* Without overlaps no later request reopens a resolved order, though both  *)
(* are named after a count and the process may be killed anywhere.  Only an *)
(* orphan can be reopened: the order of an event that a crash kept from     *)
(* being stored, which the count does not cover (service.cpp:438, 469).     *)
Orphan(e) == crashes > 0 /\ events[e] = None
StaysResolved ==
    \A e \in Eid : (orders[e] # None /\ orders[e].status = "resolved" /\ ~Orphan(e))
        => orders'[e].status = "resolved"
ResolvedForGood == [][~overlapped' => StaysResolved]_vars

(* PRODUCTION_READY_STAGES, section 1: a fix is proposed until a reviewer   *)
(* signs and approves it.  What is approved is what was signed.             *)
ApprovesWhatIsSigned ==
    \A f \in Fixes : Approved(f) =>
        <<fixes[f].by, f, Approval, fixes[f].patch>> \in sigLog

===============================================================================
