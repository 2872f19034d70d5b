-------------------------- MODULE ChangeControlProofs --------------------------
(***************************************************************************)
(* Proofs about change control, for any requests, users, fixes, patches    *)
(* and events, in any order, and crashes between any two accesses.         *)
(***************************************************************************)
EXTENDS ChangeControl, FiniteSetTheorems, TLAPS

-------------------------------------------------------------------------------
(* Types, and the requests that may be at a place. *)
EventPlaces == {"lookup", "name_event", "query", "put_link", "open_order", "put_event"}
Places ==
    EventPlaces \cup {"get_order", "put_order", "put_fix", "get_fix", "reread", "approve", "check_user",
                     "put_sig", "log_sig", "put_user", "idle", "audit", "done", "refused", "dead"}
CType ==
    /\ fixes \in [Fixes -> FixDoc \cup {None}]
    /\ fixRead \in [Ops -> FixDoc \cup {None}]
    /\ pc \in [Ops -> Places]
    /\ overlapped \in BOOLEAN
InPlace ==
    \A o \in Ops :
        /\ pc[o] \in EventPlaces => Kind(o) = "event"
        /\ pc[o] \in {"get_order", "put_order"} => Kind(o) = "resolve"
        /\ pc[o] = "put_fix" => Kind(o) \in {"resolve", "hole"}
        /\ pc[o] = "put_user" => Kind(o) = "user"
        /\ pc[o] \in {"get_fix", "reread", "approve"} => Kind(o) = "approve"
        /\ pc[o] \in {"check_user", "put_sig", "log_sig"} => Kind(o) \in {"approve", "sign"}
        /\ (Kind(o) = "approve" /\ pc[o] \in {"put_sig", "log_sig", "approve"}) => fixRead[o] # None
Alone == ~overlapped => \A o, q \in Ops : (Running(o) /\ Running(q)) => o = q
CInv == CType /\ InPlace /\ Alone

Step(o) == HandleEvent(o) \/ ApproveFix(o) \/ Other(o) \/ Audited(o)

LEMMA RequestShape ==
    ASSUME NEW o \in Ops
    PROVE  /\ Kind(o) \in {"event", "resolve", "hole", "approve", "sign", "user"}
           /\ Kind(o) = "approve" => Request[o].fix \in Fixes /\ Request[o].user \in Users
           /\ Kind(o) \in {"resolve", "hole"} => Request[o].fix \in Fixes /\ Request[o].patch \in Patches
           /\ Kind(o) = "event" => KeyOf(o) \in Keys
<1>1. Request[o] \in Requests
    BY RequestAssumption
<1> QED BY <1>1 DEF Requests, Kind, KeyOf

(* A step of a request moves that request alone, and it was running. *)
LEMMA StepMoves ==
    ASSUME CType, NEW o \in Ops, Step(o)
    PROVE  /\ Running(o) /\ overlapped' = overlapped
           /\ pc' \in [Ops -> Places]
           /\ \A q \in Ops : q # o => pc'[q] = pc[q]
<1> USE DEF CType, Goto, Running, Places, EventPlaces
<1>1. ASSUME NEW place \in Places, pc' = [pc EXCEPT ![o] = place]
      PROVE  pc' \in [Ops -> Places] /\ \A q \in Ops : q # o => pc'[q] = pc[q]
    BY <1>1
<1>2. CASE Lookup(o) \/ NameEvent(o)
    BY <1>2 DEF Lookup, NameEvent, Route
<1>3. CASE QueryLink(o)
    BY <1>3 DEF QueryLink
<1>4. CASE TryTransfer(o)
    BY <1>4 DEF TryTransfer
<1>5. CASE PutLink(o) \/ OpenOrder(o) \/ PutEvent(o)
    BY <1>5 DEF PutLink, OpenOrder, PutEvent
<1>6. CASE CheckUser(o) \/ GetFix(o) \/ PutSig(o)
    BY <1>6 DEF CheckUser, GetFix, PutSig
<1>7. CASE LogSig(o) \/ ReRead(o) \/ Approve(o)
    BY <1>7 DEF LogSig, ReRead, Approve
<1>8. CASE PutUser(o) \/ GetOrder(o) \/ PutFix(o) \/ PutOrder(o) \/ Audited(o)
    BY <1>8 DEF PutUser, GetOrder, PutFix, PutOrder, Audited
<1> QED BY <1>2, <1>3, <1>4, <1>5, <1>6, <1>7, <1>8 DEF Step, HandleEvent, ApproveFix, Other

(* Who arrives changes nothing else; it counts whether somebody runs. *)
LEMMA ArriveMoves ==
    ASSUME CType, NEW o \in Ops, Arrive(o)
    PROVE  /\ pc' \in [Ops -> Places] /\ \A q \in Ops : q # o => pc'[q] = pc[q]
           /\ pc[o] = "idle"
           /\ \/ Kind(o) = "event" /\ pc'[o] = "lookup"
              \/ Kind(o) = "resolve" /\ pc'[o] = "get_order"
              \/ Kind(o) = "hole" /\ pc'[o] = "put_fix"
              \/ Kind(o) \in {"approve", "sign"} /\ pc'[o] = "check_user"
              \/ Kind(o) = "user" /\ pc'[o] = "put_user"
           /\ overlapped' \in BOOLEAN
           /\ ~overlapped' => ~overlapped /\ \A q \in Ops : ~Running(q)
           /\ UNCHANGED <<docs, clock, locals, crashes>>
<1>1. pc' = [pc EXCEPT ![o] = First[Kind(o)]]
    BY DEF Arrive, Goto
<1>2. Kind(o) \in {"event", "resolve", "hole", "approve", "sign", "user"}
    BY RequestShape
<1>3. \/ Kind(o) = "event" /\ First[Kind(o)] = "lookup"
      \/ Kind(o) = "resolve" /\ First[Kind(o)] = "get_order"
      \/ Kind(o) = "hole" /\ First[Kind(o)] = "put_fix"
      \/ Kind(o) \in {"approve", "sign"} /\ First[Kind(o)] = "check_user"
      \/ Kind(o) = "user" /\ First[Kind(o)] = "put_user"
    <2>1. /\ First["event"] = "lookup" /\ First["resolve"] = "get_order" /\ First["hole"] = "put_fix"
          /\ First["approve"] = "check_user" /\ First["sign"] = "check_user" /\ First["user"] = "put_user"
        BY DEF First
    <2> QED BY <1>2, <2>1
<1> HIDE DEF Kind, First
<1>4. overlapped' = (overlapped \/ \E q \in Ops : Running(q))
    BY DEF Arrive
<1>5. (\E q \in Ops : Running(q)) \in BOOLEAN
    OBVIOUS
<1>6. overlapped' \in BOOLEAN
    BY <1>4, <1>5, Zenon
<1>7. ~overlapped' => ~overlapped /\ \A q \in Ops : ~Running(q)
    BY <1>4
<1>8. pc[o] = "idle" /\ UNCHANGED <<docs, clock, locals, crashes>>
    BY DEF Arrive
<1>9. pc' \in [Ops -> Places] /\ pc'[o] = First[Kind(o)] /\ \A q \in Ops : q # o => pc'[q] = pc[q]
    BY <1>1, <1>3 DEF CType, Places, EventPlaces
<1> QED BY <1>3, <1>6, <1>7, <1>8, <1>9

LEMMA CrashEnds ==
    ASSUME CType, Crash
    PROVE  /\ pc' \in [Ops -> Places]
           /\ \A o \in Ops : ~Running(o)' /\ (pc'[o] = "dead" \/ pc'[o] = pc[o])
           /\ UNCHANGED <<docs, clock, locals, overlapped>>
BY DEF Crash, CType, Running, Places

(* What a step writes to fixes and reads of them. *)
LEMMA FixesKept ==
    ASSUME CType, InPlace, NEW o \in Ops, Step(o)
    PROVE  fixes' \in [Fixes -> FixDoc \cup {None}] /\ fixRead' \in [Ops -> FixDoc \cup {None}]
<1> USE DEF CType, docs, locals
<1>1. CASE UNCHANGED <<fixes, fixRead>>
    BY <1>1
<1>2. CASE PutFix(o)
    <2>1. Request[o].fix \in Fixes /\ Request[o].patch \in Patches
        BY <1>2, RequestShape DEF InPlace, PutFix
    <2>2. [patch |-> Request[o].patch, status |-> "proposed", by |-> None] \in FixDoc
        BY <2>1 DEF FixDoc, Statuses
    <2> QED BY <1>2, <2>2 DEF PutFix, RecordFix
<1>3. CASE GetFix(o) \/ ReRead(o)
    <2>1. Request[o].fix \in Fixes
        BY <1>3, RequestShape DEF InPlace, GetFix, ReRead
    <2> QED BY <1>3, <2>1 DEF GetFix, ReRead
<1>4. CASE Approve(o) /\ fixRead[o] # None
    <2>1. Request[o].fix \in Fixes /\ Request[o].user \in Users
        BY <1>4, RequestShape DEF InPlace, Approve
    <2>2. fixRead[o] \in FixDoc
        BY <1>4
    <2>3. [fixRead[o] EXCEPT !.status = "approved", !.by = Request[o].user] \in FixDoc
        BY <2>1, <2>2 DEF FixDoc, Statuses
    <2> QED BY <1>4, <2>3 DEF Approve
<1>5. Approve(o) => fixRead[o] # None
    BY DEF InPlace, Approve
<1> QED BY <1>1, <1>2, <1>3, <1>4, <1>5
    DEF Step, HandleEvent, ApproveFix, Other, Audited, Lookup, NameEvent, QueryLink, TryTransfer, PutLink,
        OpenOrder, PutEvent, CheckUser, PutSig, LogSig, PutUser, GetOrder, PutOrder, Approve

LEMMA InPlaceKept ==
    ASSUME CInv, [Next]_vars
    PROVE  InPlace'
<1> USE DEF CInv
<1>1. ASSUME NEW o \in Ops, Step(o) PROVE InPlace'
    <2>1. \A q \in Ops : q # o => pc'[q] = pc[q] /\ fixRead'[q] = fixRead[q]
        <3>1. \A q \in Ops : q # o => pc'[q] = pc[q]
            BY <1>1, StepMoves
        <3>2. \A q \in Ops : q # o => fixRead'[q] = fixRead[q]
            BY <1>1 DEF Step, HandleEvent, ApproveFix, Other, Audited, Lookup, NameEvent, QueryLink, TryTransfer,
                PutLink, OpenOrder, PutEvent, CheckUser, PutSig, LogSig, PutUser, GetOrder, PutOrder, Approve,
                GetFix, ReRead, PutFix, CType, docs, locals
        <3> QED BY <3>1, <3>2
    <2>2. /\ pc'[o] \in EventPlaces => Kind(o) = "event"
          /\ pc'[o] \in {"get_order", "put_order"} => Kind(o) = "resolve"
          /\ pc'[o] = "put_fix" => Kind(o) \in {"resolve", "hole"}
          /\ pc'[o] = "put_user" => Kind(o) = "user"
          /\ pc'[o] \in {"get_fix", "reread", "approve"} => Kind(o) = "approve"
          /\ pc'[o] \in {"check_user", "put_sig", "log_sig"} => Kind(o) \in {"approve", "sign"}
        <3> USE DEF CType, Goto, InPlace, EventPlaces
        <3>1. CASE Lookup(o) \/ NameEvent(o) \/ QueryLink(o) \/ TryTransfer(o)
            BY <3>1 DEF Lookup, NameEvent, Route, QueryLink, TryTransfer
        <3>2. CASE PutLink(o) \/ OpenOrder(o) \/ PutEvent(o)
            BY <3>2 DEF PutLink, OpenOrder, PutEvent
        <3>3. CASE CheckUser(o) \/ GetFix(o) \/ PutSig(o)
            BY <3>3 DEF CheckUser, GetFix, PutSig
        <3>4. CASE LogSig(o) \/ ReRead(o) \/ Approve(o)
            BY <3>4 DEF LogSig, ReRead, Approve
        <3>5. CASE PutUser(o) \/ GetOrder(o) \/ PutFix(o) \/ PutOrder(o) \/ Audited(o)
            BY <3>5 DEF PutUser, GetOrder, PutFix, PutOrder, Audited
        <3> QED BY <1>1, <3>1, <3>2, <3>3, <3>4, <3>5 DEF Step, HandleEvent, ApproveFix, Other
    <2>3. (Kind(o) = "approve" /\ pc'[o] \in {"put_sig", "log_sig", "approve"}) => fixRead'[o] # None
        <3> USE DEF CType, Goto, InPlace, EventPlaces, docs, locals
        <3>1. CASE Lookup(o) \/ NameEvent(o) \/ QueryLink(o) \/ TryTransfer(o)
            BY <3>1 DEF Lookup, NameEvent, Route, QueryLink, TryTransfer
        <3>2. CASE PutLink(o) \/ OpenOrder(o) \/ PutEvent(o) \/ Approve(o)
            BY <3>2 DEF PutLink, OpenOrder, PutEvent, Approve
        <3>3. CASE GetFix(o) \/ ReRead(o)
            BY <3>3, FixesKept, <1>1 DEF GetFix, ReRead
        <3>4. CASE CheckUser(o) \/ PutSig(o) \/ LogSig(o)
            BY <3>4 DEF CheckUser, PutSig, LogSig
        <3>5. CASE PutUser(o) \/ GetOrder(o) \/ PutFix(o) \/ PutOrder(o) \/ Audited(o)
            BY <3>5 DEF PutUser, GetOrder, PutFix, PutOrder, Audited
        <3> QED BY <1>1, <3>1, <3>2, <3>3, <3>4, <3>5 DEF Step, HandleEvent, ApproveFix, Other
    <2> QED BY <2>1, <2>2, <2>3 DEF InPlace, Kind
<1>2. ASSUME NEW o \in Ops, Arrive(o) PROVE InPlace'
    <2>1. fixRead' = fixRead
        BY <1>2, ArriveMoves DEF locals
    <2> QED BY <1>2, <2>1, ArriveMoves DEF InPlace, EventPlaces, Kind
<1>3. CASE Crash
    BY <1>3, CrashEnds DEF InPlace, EventPlaces, Kind, locals
<1>4. CASE Tick \/ UNCHANGED vars
    BY <1>4 DEF Tick, vars, InPlace, Kind, locals
<1> QED BY <1>1, <1>2, <1>3, <1>4 DEF Next, Step

LEMMA CInvKept ==
    ASSUME CInv, [Next]_vars
    PROVE  CInv'
<1> USE DEF CInv
<1>1. CType'
    <2>1. ASSUME NEW o \in Ops, Step(o) PROVE CType'
        BY <2>1, StepMoves, FixesKept DEF CType
    <2>2. ASSUME NEW o \in Ops, Arrive(o) PROVE CType'
        BY <2>2, ArriveMoves DEF CType, docs, locals
    <2>3. CASE Crash
        BY <2>3, CrashEnds DEF CType, docs, locals
    <2>4. CASE Tick \/ UNCHANGED vars
        BY <2>4 DEF Tick, vars, CType, docs, locals
    <2> QED BY <2>1, <2>2, <2>3, <2>4 DEF Next, Step
<1>2. Alone'
    <2>1. ASSUME NEW o \in Ops, Step(o) PROVE Alone'
        BY <2>1, StepMoves DEF Alone, Running
    <2>2. ASSUME NEW o \in Ops, Arrive(o) PROVE Alone'
        BY <2>2, ArriveMoves DEF Alone, Running
    <2>3. CASE Crash
        BY <2>3, CrashEnds DEF Alone, Running
    <2>4. CASE Tick \/ UNCHANGED vars
        BY <2>4 DEF Tick, vars, Alone, Running
    <2> QED BY <2>1, <2>2, <2>3, <2>4 DEF Next, Step
<1> QED BY <1>1, <1>2, InPlaceKept

LEMMA InitCInv == Init => CInv
BY DEF Init, CInv, CType, InPlace, Alone, Running, Places, EventPlaces

-------------------------------------------------------------------------------
(* Where an approval is under way and nobody interferes, the fix is still    *)
(* the one that was read, and after LogSig the patch read is signed.         *)
Signature(o, patch) == <<Request[o].user, Request[o].fix, Approval, patch>>
ReadIsCurrent ==
    ~overlapped => \A o \in Ops :
        (Kind(o) = "approve" /\ pc[o] \in {"put_sig", "log_sig", "reread", "approve"})
            => fixRead[o] = fixes[Request[o].fix]
ReadIsSigned ==
    ~overlapped => \A o \in Ops :
        pc[o] \in {"reread", "approve"} => Signature(o, fixRead[o].patch) \in sigLog
ApprovalInv == ReadIsCurrent /\ ReadIsSigned /\ SignedPatchApproved

(* What is in the log of signatures stays there. *)
LEMMA SigLogGrows ==
    ASSUME NEW o \in Ops, Step(o)
    PROVE  sigLog \subseteq sigLog'
BY DEF Step, HandleEvent, ApproveFix, Other, Audited, Lookup, NameEvent, QueryLink, TryTransfer, PutLink,
       OpenOrder, PutEvent, CheckUser, PutSig, LogSig, PutUser, GetOrder, PutOrder, Approve, GetFix, ReRead,
       PutFix, docs

(* Steps that leave the fixes, what is read of them and the log alone, and   *)
(* lead to no later place of an approval.                                    *)
LEMMA Bystander ==
    ASSUME CInv, ApprovalInv, NEW o \in Ops, Step(o), UNCHANGED <<fixes, fixRead, sigLog>>,
           \/ pc'[o] \notin {"put_sig", "log_sig", "reread", "approve"} \/ Kind(o) # "approve"
           \/ pc[o] = "put_sig" /\ pc'[o] = "log_sig",
           pc'[o] \notin {"reread", "approve"}
    PROVE  ApprovalInv'
<1>1. overlapped' = overlapped /\ \A q \in Ops : q # o => pc'[q] = pc[q]
    BY StepMoves DEF CInv
<1>2. ReadIsCurrent'
    BY <1>1 DEF ApprovalInv, ReadIsCurrent, Kind
<1>3. ReadIsSigned'
    BY <1>1 DEF ApprovalInv, ReadIsSigned, Signature
<1>4. SignedPatchApproved'
    BY <1>1 DEF ApprovalInv, SignedPatchApproved, Approved
<1> QED BY <1>2, <1>3, <1>4 DEF ApprovalInv

(* Nobody else is at a later place of an approval while o takes a step.      *)
LEMMA OnlyOne ==
    ASSUME CInv, NEW o \in Ops, Step(o), ~overlapped'
    PROVE  /\ ~overlapped
           /\ \A q \in Ops : q # o => pc'[q] \notin {"put_sig", "log_sig", "reread", "approve"}
<1>1. Running(o) /\ ~overlapped /\ \A q \in Ops : q # o => pc'[q] = pc[q]
    BY StepMoves DEF CInv
<1>2. \A q \in Ops : q # o => ~Running(q)
    BY <1>1 DEF CInv, Alone
<1> QED BY <1>1, <1>2 DEF Running

LEMMA StepKeepsApproval ==
    ASSUME CInv, ApprovalInv, NEW o \in Ops, Step(o)
    PROVE  ApprovalInv'
<1> SUFFICES ASSUME ~overlapped' PROVE ApprovalInv'
    BY DEF ApprovalInv, ReadIsCurrent, ReadIsSigned, SignedPatchApproved
<1>1. /\ ~overlapped
      /\ \A q \in Ops : q # o => pc'[q] \notin {"put_sig", "log_sig", "reread", "approve"}
    BY OnlyOne
<1> USE DEF CInv, CType, Goto
<1>2. CASE Lookup(o) \/ NameEvent(o) \/ QueryLink(o) \/ TryTransfer(o)
    <2>1. UNCHANGED <<fixes, fixRead, sigLog>>
        BY <1>2 DEF Lookup, NameEvent, QueryLink, TryTransfer, docs, locals
    <2>2. pc'[o] \in {"refused", "name_event", "put_event", "query", "put_link", "open_order"}
        BY <1>2 DEF Lookup, NameEvent, Route, QueryLink, TryTransfer
    <2> QED BY <2>1, <2>2, Bystander
<1>3. CASE PutLink(o) \/ OpenOrder(o) \/ PutEvent(o)
    BY <1>3, Bystander DEF PutLink, OpenOrder, PutEvent, locals
<1>4. CASE PutUser(o) \/ GetOrder(o) \/ PutOrder(o) \/ Audited(o)
    BY <1>4, Bystander DEF PutUser, GetOrder, PutOrder, Audited, docs, locals
<1>5. CASE CheckUser(o)
    BY <1>5, Bystander DEF CheckUser, docs, locals
<1>6. CASE PutSig(o)
    BY <1>6, Bystander DEF PutSig, locals
<1>7. CASE PutFix(o)
    <2>1. Request[o].fix \in Fixes /\ pc'[o] \notin {"put_sig", "log_sig", "reread", "approve"}
        BY <1>7, RequestShape DEF InPlace, PutFix
    <2>2. /\ fixes'[Request[o].fix].status = "proposed" /\ sigLog' = sigLog
          /\ \A f \in Fixes : f # Request[o].fix => fixes'[f] = fixes[f]
        BY <1>7, <2>1 DEF PutFix, RecordFix
    <2>3. SignedPatchApproved'
        BY <2>2, <1>1 DEF ApprovalInv, SignedPatchApproved, Approved
    <2>4. ReadIsCurrent' /\ ReadIsSigned'
        BY <2>1, <1>1 DEF ReadIsCurrent, ReadIsSigned
    <2> QED BY <2>3, <2>4 DEF ApprovalInv
<1>8. CASE GetFix(o)
    <2>1. /\ UNCHANGED <<fixes, sigLog>> /\ fixRead'[o] = fixes[Request[o].fix]
          /\ pc'[o] \notin {"reread", "approve"}
        BY <1>8 DEF GetFix, docs
    <2> QED BY <2>1, <1>1 DEF ApprovalInv, ReadIsCurrent, ReadIsSigned, SignedPatchApproved, Approved, Kind
<1>9. CASE LogSig(o)
    <2>1. /\ UNCHANGED <<fixes, fixRead>> /\ sigLog \subseteq sigLog'
          /\ pc[o] = "log_sig" /\ pc'[o] = (IF Kind(o) = "approve" THEN "reread" ELSE "audit")
          /\ Kind(o) = "approve" => Signature(o, fixRead[o].patch) \in sigLog'
        BY <1>9 DEF LogSig, locals, Signature, MeaningOf, PayloadOf
    <2>2. ReadIsCurrent'
        BY <2>1, <1>1 DEF ApprovalInv, ReadIsCurrent, Kind
    <2>3. ReadIsSigned'
        BY <2>1, <1>1 DEF ReadIsSigned, Signature, Kind
    <2>4. SignedPatchApproved'
        BY <2>1, <1>1 DEF ApprovalInv, SignedPatchApproved, Approved
    <2> QED BY <2>2, <2>3, <2>4 DEF ApprovalInv
<1>10. CASE ReRead(o)
    <2>1. Kind(o) = "approve" /\ pc[o] = "reread"
        BY <1>10 DEF ReRead, InPlace
    <2>2. fixRead[o] = fixes[Request[o].fix]
        BY <2>1, <1>1 DEF ApprovalInv, ReadIsCurrent
    <2>3. UNCHANGED <<fixes, sigLog>> /\ fixRead' = fixRead
        BY <1>10, <2>2 DEF ReRead, docs
    <2>4. ReadIsCurrent'
        BY <2>1, <2>2, <2>3, <1>1 DEF ReadIsCurrent
    <2>5. ReadIsSigned'
        BY <2>1, <2>3, <1>1 DEF ApprovalInv, ReadIsSigned, Signature
    <2>6. SignedPatchApproved'
        BY <2>3, <1>1 DEF ApprovalInv, SignedPatchApproved, Approved
    <2> QED BY <2>4, <2>5, <2>6 DEF ApprovalInv
<1>11. CASE Approve(o)
    <2>1. Kind(o) = "approve" /\ pc[o] = "approve" /\ fixRead[o] \in FixDoc /\ Request[o].fix \in Fixes
        BY <1>11, RequestShape DEF Approve, InPlace
    <2>2. /\ UNCHANGED <<sigLog, fixRead>> /\ pc'[o] = "audit"
          /\ fixes'[Request[o].fix].patch = fixRead[o].patch /\ fixes'[Request[o].fix].by = Request[o].user
          /\ \A f \in Fixes : f # Request[o].fix => fixes'[f] = fixes[f]
        BY <1>11, <2>1 DEF Approve, locals, FixDoc
    <2>3. Signature(o, fixRead[o].patch) \in sigLog
        BY <2>1, <1>1 DEF ApprovalInv, ReadIsSigned
    <2>4. SignedPatchApproved'
        BY <2>2, <2>3, <1>1 DEF ApprovalInv, SignedPatchApproved, Approved, Signature
    <2>5. ReadIsCurrent' /\ ReadIsSigned'
        BY <2>2, <1>1 DEF ReadIsCurrent, ReadIsSigned
    <2> QED BY <2>4, <2>5 DEF ApprovalInv
<1> QED BY <1>2, <1>3, <1>4, <1>5, <1>6, <1>7, <1>8, <1>9, <1>10, <1>11
    DEF Step, HandleEvent, ApproveFix, Other

LEMMA ApprovalKept ==
    ASSUME CInv, ApprovalInv, [Next]_vars
    PROVE  ApprovalInv'
<1> USE DEF ApprovalInv, ReadIsCurrent, ReadIsSigned, SignedPatchApproved, Approved, Signature, Kind, CInv
<1>1. ASSUME NEW o \in Ops, Step(o) PROVE ApprovalInv'
    BY <1>1, StepKeepsApproval
<1>2. ASSUME NEW o \in Ops, Arrive(o) PROVE ApprovalInv'
    BY <1>2, ArriveMoves DEF docs, locals
<1>3. CASE Crash
    BY <1>3, CrashEnds DEF docs, locals
<1>4. CASE Tick \/ UNCHANGED vars
    BY <1>4 DEF Tick, vars, docs, locals
<1> QED BY <1>1, <1>2, <1>3, <1>4 DEF Next, Step

(* What is approved is what its approver signed, as long as no two requests  *)
(* were in flight at once: however often a fix is proposed and approved anew *)
(* and wherever the process dies (casebase.cpp:80-95, service.cpp:853-869).  *)
THEOREM SignedPatchApprovedHolds == Spec => []SignedPatchApproved
<1>1. Init => CInv /\ ApprovalInv
    <2> SUFFICES ASSUME Init PROVE CInv /\ ApprovalInv
        OBVIOUS
    <2>1. ApprovalInv
        BY DEF Init, ApprovalInv, ReadIsCurrent, ReadIsSigned, SignedPatchApproved, Approved
    <2> QED BY <2>1, InitCInv
<1>2. CInv /\ ApprovalInv /\ [Next]_vars => (CInv /\ ApprovalInv)'
    BY CInvKept, ApprovalKept
<1>3. ApprovalInv => SignedPatchApproved
    BY DEF ApprovalInv
<1> QED BY <1>1, <1>2, <1>3, PTL DEF Spec

-------------------------------------------------------------------------------
(* Whatever overlaps: an approved fix was signed by somebody, and what a     *)
(* transfer collects on its way stays true.                                  *)
SignedFix(f) == \E u \in Users, p \in Patches : <<u, f, Approval, p>> \in sigLog
FixesSigned ==
    /\ \A f \in Fixes : Approved(f) => SignedFix(f)
    /\ \A o \in Ops : pc[o] \in {"reread", "approve"} => SignedFix(Request[o].fix)
Good(o, m) == m.case \in Near[KeyOf(o)] /\ <<m.case, m.fix>> \in Linked0 /\ SignedFix(m.fix)
Collected ==
    /\ links \in [Linked0 -> MakesSafe \cup {None}]
    /\ todo \in [Ops -> SUBSET Linked0] /\ hits \in [Ops -> SUBSET Match]
    /\ chosen \in [Ops -> Match \cup {None}]
    /\ \A o \in Ops : \A l \in todo[o] : l[1] \in Near[KeyOf(o)]
    /\ \A o \in Ops : \A m \in hits[o] : Good(o, m)
ChosenIsGood ==
    \A o \in Ops :
        /\ chosen[o] # None => Good(o, chosen[o]) /\ Transfers(o, chosen[o])
        /\ pc[o] \in {"idle", "lookup", "name_event", "query", "open_order"} => chosen[o] = None
        /\ pc[o] = "put_link" => chosen[o] # None
        /\ (pc[o] = "put_event" /\ chosen[o] # None) => links[<<chosen[o].case, chosen[o].fix>>] \in MakesSafe
Named ==
    /\ eid = [o \in Ops |-> eid[o]]
    /\ \A o \in Ops : pc[o] \in {"query", "put_link", "open_order", "put_event"} => eid[o][1] = KeyOf(o)
EventsTyped == events \in [Eid -> EventDoc \cup {None}]
TransferInv == FixesSigned /\ Collected /\ ChosenIsGood /\ Named /\ EventsTyped /\ TransferIsCertified

(* The log of signatures only grows, so who signed has signed for good.      *)
LEMMA SignedStays ==
    ASSUME sigLog \subseteq sigLog'
    PROVE  /\ \A f : SignedFix(f) => SignedFix(f)'
           /\ \A o, m : Good(o, m) => Good(o, m)'
BY DEF SignedFix, Good, KeyOf

(* A step that keeps all this state, and comes to a place for which it is    *)
(* fit.                                                                      *)
LEMMA FitStep ==
    ASSUME CInv, TransferInv, NEW o \in Ops, Step(o),
           UNCHANGED <<fixes, links, hits, todo, chosen, eid, events>>,
           pc'[o] \in {"reread", "approve"} => SignedFix(Request[o].fix)',
           pc'[o] \in {"idle", "lookup", "name_event", "query", "open_order", "put_event"} => chosen[o] = None,
           pc'[o] # "put_link",
           pc'[o] \in {"query", "open_order", "put_event"} => eid[o][1] = KeyOf(o)
    PROVE  TransferInv'
<1>1. sigLog \subseteq sigLog' /\ \A q \in Ops : q # o => pc'[q] = pc[q]
    BY SigLogGrows, StepMoves DEF CInv
<1>2. \A f : SignedFix(f) => SignedFix(f)'
    BY <1>1, SignedStays
<1>3. \A q, m : Good(q, m) => Good(q, m)'
    BY <1>1, SignedStays
<1>4. FixesSigned'
    BY <1>1, <1>2 DEF TransferInv, FixesSigned, Approved
<1>5. Collected'
    BY <1>3 DEF TransferInv, Collected, KeyOf
<1>6. ChosenIsGood'
    BY <1>1, <1>3 DEF TransferInv, ChosenIsGood, Transfers, KeyOf
<1>7. Named' /\ EventsTyped'
    BY <1>1 DEF TransferInv, Named, EventsTyped, KeyOf
<1>8. TransferIsCertified'
    BY <1>2 DEF TransferInv, TransferIsCertified, Stored, SignedFix
<1> QED BY <1>4, <1>5, <1>6, <1>7, <1>8 DEF TransferInv

(* A step that writes a fix. *)
LEMMA FixStep ==
    ASSUME CInv, TransferInv, NEW o \in Ops, Step(o),
           UNCHANGED <<sigLog, links, hits, todo, chosen, eid, events>>,
           pc'[o] \in {"put_order", "audit"},
           \A f \in Fixes : Approved(f)' => Approved(f) \/ SignedFix(f)
    PROVE  TransferInv'
<1>1. \A q \in Ops : q # o => pc'[q] = pc[q]
    BY StepMoves DEF CInv
<1>2. FixesSigned'
    BY <1>1 DEF TransferInv, FixesSigned, SignedFix
<1>3. Collected' /\ ChosenIsGood'
    BY <1>1 DEF TransferInv, Collected, ChosenIsGood, Good, SignedFix, Transfers, KeyOf
<1>4. Named' /\ EventsTyped' /\ TransferIsCertified'
    BY <1>1 DEF TransferInv, Named, EventsTyped, TransferIsCertified, Stored, KeyOf
<1> QED BY <1>2, <1>3, <1>4 DEF TransferInv

LEMMA StepKeepsTransfer ==
    ASSUME CInv, TransferInv, NEW o \in Ops, Step(o)
    PROVE  TransferInv'
<1> USE DEF CInv, CType, Goto
<1>0. sigLog \subseteq sigLog' /\ \A q \in Ops : q # o => pc'[q] = pc[q]
    BY SigLogGrows, StepMoves
<1>1. CASE PutUser(o) \/ GetOrder(o) \/ PutOrder(o) \/ Audited(o)
    BY <1>1, FitStep DEF PutUser, GetOrder, PutOrder, Audited, docs, locals
<1>2. CASE CheckUser(o) \/ GetFix(o) \/ PutSig(o)
    BY <1>2, FitStep DEF CheckUser, GetFix, PutSig, docs, locals
<1>3. CASE LogSig(o)
    <2>1. pc[o] = "log_sig" /\ pc'[o] = (IF Kind(o) = "approve" THEN "reread" ELSE "audit")
        BY <1>3 DEF LogSig
    <2>2. Kind(o) = "approve" => SignedFix(Request[o].fix)'
        <3> SUFFICES ASSUME Kind(o) = "approve" PROVE SignedFix(Request[o].fix)'
            OBVIOUS
        <3>1. Request[o].user \in Users /\ fixRead[o] \in FixDoc
            BY <2>1, RequestShape DEF InPlace
        <3>2. fixRead[o].patch \in Patches
            BY <3>1 DEF FixDoc
        <3> QED BY <1>3, <3>1, <3>2 DEF LogSig, SignedFix, MeaningOf, PayloadOf
    <2> QED BY <1>3, <2>1, <2>2, FitStep DEF LogSig, locals
<1>4. CASE ReRead(o)
    <2>1. pc'[o] \in {"audit", "approve"} /\ UNCHANGED <<docs, eid, hits, todo, chosen>>
        BY <1>4 DEF ReRead
    <2>2. SignedFix(Request[o].fix)'
        BY <1>4, <1>0, SignedStays DEF ReRead, TransferInv, FixesSigned
    <2> QED BY <2>1, <2>2, FitStep DEF docs
<1>5. CASE PutFix(o)
    <2>1. /\ UNCHANGED <<sigLog, links, hits, todo, chosen, eid, events>>
          /\ pc'[o] \in {"put_order", "audit"}
        BY <1>5 DEF PutFix, locals
    <2>2. Request[o].fix \in Fixes
        BY <1>5, RequestShape DEF InPlace, PutFix
    <2>3. \A f \in Fixes : Approved(f)' => Approved(f)
        BY <1>5, <2>2 DEF PutFix, RecordFix, Approved
    <2> QED BY <2>1, <2>3, FixStep
<1>6. CASE Approve(o)
    <2>1. /\ UNCHANGED <<sigLog, links, hits, todo, chosen, eid, events>>
          /\ pc'[o] = "audit"
        BY <1>6 DEF Approve, locals
    <2>2. SignedFix(Request[o].fix)
        BY <1>6 DEF Approve, TransferInv, FixesSigned
    <2>3. \A f \in Fixes : f # Request[o].fix => fixes'[f] = fixes[f]
        BY <1>6 DEF Approve
    <2>4. \A f \in Fixes : Approved(f)' => Approved(f) \/ SignedFix(f)
        BY <2>2, <2>3 DEF Approved
    <2> QED BY <2>1, <2>4, FixStep
<1>7. CASE Lookup(o)
    BY <1>7, FitStep DEF Lookup, docs, locals, TransferInv, ChosenIsGood
<1>8. CASE OpenOrder(o)
    BY <1>8, FitStep DEF OpenOrder, docs, locals, TransferInv, ChosenIsGood, Named
<1>9. CASE NameEvent(o)
    <2> DEFINE near == {l \in Linked0 : l[1] \in Near[KeyOf(o)]}
    <2>1. /\ UNCHANGED <<docs, hits, chosen>> /\ pc[o] = "name_event"
          /\ pc'[o] \in {"put_event", "query"}
          /\ eid' = [eid EXCEPT ![o] = <<KeyOf(o), Cardinality(Stored(events))>>]
          /\ todo' = [todo EXCEPT ![o] = near]
        BY <1>9 DEF NameEvent, Route
    <2>2. eid'[o][1] = KeyOf(o) /\ (\A q \in Ops : q # o => eid'[q] = eid[q])
          /\ eid' = [q \in Ops |-> eid'[q]]
        BY <2>1 DEF TransferInv, Named
    <2>3. todo' \in [Ops -> SUBSET Linked0] /\ \A q \in Ops : todo'[q] = (IF q = o THEN near ELSE todo[q])
        BY <2>1 DEF TransferInv, Collected
    <2>4. Collected'
        BY <2>1, <2>3 DEF TransferInv, Collected, Good, SignedFix, KeyOf, docs
    <2>5. Named'
        BY <2>2, <1>0 DEF TransferInv, Named, KeyOf
    <2>6. ChosenIsGood'
        BY <2>1, <1>0 DEF TransferInv, ChosenIsGood, Good, SignedFix, Transfers, KeyOf, docs
    <2>7. FixesSigned' /\ EventsTyped' /\ TransferIsCertified'
        BY <2>1, <1>0 DEF TransferInv, FixesSigned, EventsTyped, TransferIsCertified, Approved, SignedFix, Stored, docs
    <2> QED BY <2>4, <2>5, <2>6, <2>7 DEF TransferInv
<1>10. CASE QueryLink(o)
    <2>1. UNCHANGED <<docs, pc, eid, chosen>>
        BY <1>10 DEF QueryLink
    <2>0. \A q \in Ops : \A m : Good(q, m) => Good(q, m)'
        BY <1>0, SignedStays
    <2>2. PICK l \in todo[o] :
            IF Usable(fixes[l[2]])
            THEN /\ hits' = [hits EXCEPT ![o] = @ \cup
                        {[case |-> l[1], fix |-> l[2], patch |-> fixes[l[2]].patch]}]
                 /\ todo' = [todo EXCEPT ![o] = {m \in @ : m[1] # l[1]}]
            ELSE todo' = [todo EXCEPT ![o] = @ \ {l}] /\ UNCHANGED hits
        BY <1>10 DEF QueryLink
    <2> DEFINE new == [case |-> l[1], fix |-> l[2], patch |-> fixes[l[2]].patch]
    <2>3. l \in Linked0 /\ l \in Cases \X Fixes /\ l[1] \in Near[KeyOf(o)]
        BY EventAssumption DEF TransferInv, Collected
    <2>4. todo' \in [Ops -> SUBSET Linked0] /\ \A q \in Ops : todo'[q] \subseteq todo[q]
        BY <2>2 DEF TransferInv, Collected
    <2>5. ASSUME Usable(fixes[l[2]])
          PROVE  hits' \in [Ops -> SUBSET Match] /\ \A q \in Ops : \A m \in hits'[q] : Good(q, m)'
        <3>1. l[2] \in Fixes /\ Approved(l[2]) /\ fixes[l[2]] \in FixDoc /\ <<l[1], l[2]>> = l
            BY <2>3, <2>5 DEF Usable, Approved
        <3>2. new \in Match /\ Good(o, new)
            <4>1. fixes[l[2]].patch \in Patches /\ SignedFix(l[2])
                BY <3>1 DEF FixDoc, TransferInv, FixesSigned
            <4> QED BY <2>3, <3>1, <4>1 DEF Match, Good
        <3> HIDE DEF new
        <3>3. hits' \in [Ops -> SUBSET Match] /\ \A q \in Ops : \A m \in hits'[q] : Good(q, m)
            BY <2>2, <2>5, <3>2 DEF TransferInv, Collected, new
        <3>4. \A q \in Ops : \A m \in hits'[q] : Good(q, m)'
            BY <2>0, <3>3
        <3> QED BY <3>3, <3>4
    <2>6. ASSUME ~Usable(fixes[l[2]])
          PROVE  hits' \in [Ops -> SUBSET Match] /\ \A q \in Ops : \A m \in hits'[q] : Good(q, m)'
        <3>1. hits' = hits
            BY <2>2, <2>6
        <3> QED BY <2>0, <3>1 DEF TransferInv, Collected
    <2>7. Collected'
        <3>1. \A q \in Ops : \A l2 \in todo'[q] : l2[1] \in Near[KeyOf(q)]
            BY <2>4 DEF TransferInv, Collected
        <3>2. UNCHANGED <<links, chosen>>
            BY <2>1 DEF docs
        <3> QED BY <2>4, <2>5, <2>6, <3>1, <3>2 DEF TransferInv, Collected, KeyOf
    <2>8. FixesSigned' /\ ChosenIsGood' /\ Named' /\ EventsTyped' /\ TransferIsCertified'
        BY <2>1 DEF TransferInv, FixesSigned, ChosenIsGood, Named, EventsTyped, TransferIsCertified, Approved,
                    SignedFix, Good, Transfers, Stored, KeyOf, docs
    <2> QED BY <2>7, <2>8 DEF TransferInv
<1>11. CASE TryTransfer(o)
    <2>1. UNCHANGED <<docs, eid, todo, hits>> /\ pc[o] = "query"
        BY <1>11 DEF TryTransfer
    <2>2. CASE chosen' = chosen /\ pc'[o] = "open_order"
        BY <2>1, <2>2, FitStep DEF docs, TransferInv, ChosenIsGood, Named
    <2>3. ASSUME NEW m \in hits[o], Transfers(o, m), chosen' = [chosen EXCEPT ![o] = m], pc'[o] = "put_link"
          PROVE  TransferInv'
        <3>1. m \in Match /\ Good(o, m)
            BY DEF TransferInv, Collected
        <3>2. /\ chosen' \in [Ops -> Match \cup {None}] /\ chosen'[o] = m
              /\ \A q \in Ops : q # o => chosen'[q] = chosen[q]
            BY <2>3, <3>1 DEF TransferInv, Collected
        <3>3. Collected'
            BY <2>1, <3>2 DEF TransferInv, Collected, Good, SignedFix, KeyOf, docs
        <3>4. ChosenIsGood'
            <4>1. m # None /\ sigLog' = sigLog
                BY <3>1, <2>1, NoneAssumption DEF docs
            <4>2. \A q \in Ops : chosen'[q] # None => Good(q, chosen'[q]) /\ Transfers(q, chosen'[q])
                <5>1. \A q \in Ops : chosen[q] # None => Good(q, chosen[q]) /\ Transfers(q, chosen[q])
                    BY DEF TransferInv, ChosenIsGood
                <5> QED BY <5>1, <2>3, <3>1, <3>2
            <4>4. \A q \in Ops : chosen'[q] # None =>
                    /\ chosen'[q].case \in Near[KeyOf(q)] /\ <<chosen'[q].case, chosen'[q].fix>> \in Linked0
                    /\ \E u \in Users, p \in Patches : <<u, chosen'[q].fix, Approval, p>> \in sigLog'
                BY <4>1, <4>2 DEF Good, SignedFix
            <4>3. \A q \in Ops :
                    /\ pc'[q] \in {"idle", "lookup", "name_event", "query", "open_order"} => chosen'[q] = None
                    /\ pc'[q] = "put_link" => chosen'[q] # None
                    /\ (pc'[q] = "put_event" /\ chosen'[q] # None)
                            => links'[<<chosen'[q].case, chosen'[q].fix>>] \in MakesSafe
                BY <2>1, <2>3, <3>2, <1>0, <4>1 DEF TransferInv, ChosenIsGood, docs
            <4> QED BY <4>2, <4>3, <4>4 DEF ChosenIsGood, Good, SignedFix, Transfers, KeyOf
        <3>5. FixesSigned' /\ Named' /\ EventsTyped' /\ TransferIsCertified'
            BY <2>1, <2>3, <1>0 DEF TransferInv, FixesSigned, Named, EventsTyped, TransferIsCertified, Approved,
                    SignedFix, Stored, KeyOf, docs
        <3> QED BY <3>3, <3>4, <3>5 DEF TransferInv
    <2>4. \/ chosen' = chosen /\ pc'[o] = "open_order"
          \/ \E m \in hits[o] : Transfers(o, m) /\ chosen' = [chosen EXCEPT ![o] = m] /\ pc'[o] = "put_link"
        BY <1>11 DEF TryTransfer
    <2> QED BY <2>2, <2>3, <2>4
<1>12. CASE PutLink(o)
    <2> DEFINE k == <<chosen[o].case, chosen[o].fix>>
    <2>1. /\ pc[o] = "put_link" /\ pc'[o] = "put_event"
          /\ links' = [links EXCEPT ![k] = <<KeyOf(o), chosen[o].patch>>]
          /\ UNCHANGED <<fixes, events, sigLog, eid, hits, todo, chosen>>
        BY <1>12 DEF PutLink, locals
    <2>2. chosen[o] # None /\ k \in Linked0 /\ <<KeyOf(o), chosen[o].patch>> \in MakesSafe
        BY <2>1 DEF TransferInv, ChosenIsGood, Good, Transfers
    <2> HIDE DEF k
    <2>3. /\ links' \in [Linked0 -> MakesSafe \cup {None}] /\ links'[k] \in MakesSafe
          /\ \A l \in Linked0 : links[l] \in MakesSafe => links'[l] \in MakesSafe
        BY <2>1, <2>2 DEF TransferInv, Collected
    <2>4. Collected'
        BY <2>1, <2>3 DEF TransferInv, Collected, Good, SignedFix, KeyOf
    <2>5. ChosenIsGood'
        <3>0. chosen' = chosen /\ sigLog' = sigLog
            BY <2>1
        <3>1. \A q \in Ops : chosen[q] # None => Good(q, chosen[q]) /\ Transfers(q, chosen[q])
            BY DEF TransferInv, ChosenIsGood
        <3>5. \A q \in Ops : chosen'[q] # None =>
                /\ chosen'[q].case \in Near[KeyOf(q)] /\ <<chosen'[q].case, chosen'[q].fix>> \in Linked0
                /\ \E u \in Users, p \in Patches : <<u, chosen'[q].fix, Approval, p>> \in sigLog'
                /\ <<KeyOf(q), chosen'[q].patch>> \in MakesSafe
            BY <3>0, <3>1 DEF Good, SignedFix, Transfers
        <3>2. ASSUME NEW q \in Ops, pc'[q] \in {"idle", "lookup", "name_event", "query", "open_order"}
              PROVE  chosen'[q] = None
            <4>1. pc[q] = pc'[q]
                BY <2>1, <3>2, <1>0
            <4> QED BY <2>1, <3>2, <4>1 DEF TransferInv, ChosenIsGood
        <3>3. ASSUME NEW q \in Ops, pc'[q] = "put_link"
              PROVE  chosen'[q] # None
            <4>1. pc[q] = pc'[q]
                BY <2>1, <3>3, <1>0
            <4> QED BY <2>1, <3>3, <4>1 DEF TransferInv, ChosenIsGood
        <3>4. ASSUME NEW q \in Ops, pc'[q] = "put_event", chosen'[q] # None
              PROVE  links'[<<chosen'[q].case, chosen'[q].fix>>] \in MakesSafe
            <4>1. CASE q = o
                BY <2>1, <2>3, <4>1 DEF k
            <4>2. CASE q # o
                <5>1. pc[q] = "put_event" /\ chosen[q] # None /\ Good(q, chosen[q])
                    BY <2>1, <3>4, <4>2, <1>0 DEF TransferInv, ChosenIsGood
                <5>2. /\ <<chosen[q].case, chosen[q].fix>> \in Linked0
                      /\ links[<<chosen[q].case, chosen[q].fix>>] \in MakesSafe
                    BY <5>1 DEF TransferInv, ChosenIsGood, Good
                <5> QED BY <2>1, <2>3, <5>2
            <4> QED BY <4>1, <4>2
        <3> QED BY <3>2, <3>3, <3>4, <3>5 DEF ChosenIsGood, Good, SignedFix, Transfers, KeyOf
    <2>6. FixesSigned' /\ Named' /\ EventsTyped'
        BY <2>1, <1>0 DEF TransferInv, FixesSigned, Named, EventsTyped, Approved, SignedFix, KeyOf
    <2>7. TransferIsCertified'
        BY <2>1, <2>3 DEF TransferInv, TransferIsCertified, Stored
    <2> QED BY <2>4, <2>5, <2>6, <2>7 DEF TransferInv
<1>13. CASE PutEvent(o)
    <2> DEFINE ev == [op |-> o, action |-> ActionOf(o),
                      fix |-> IF chosen[o] = None THEN None ELSE chosen[o].fix]
    <2>1. /\ pc[o] = "put_event" /\ pc'[o] = "audit" /\ events' = [events EXCEPT ![eid[o]] = ev]
          /\ UNCHANGED <<fixes, links, sigLog, eid, hits, todo, chosen>>
        BY <1>13 DEF PutEvent, locals
    <2>2. chosen[o] \in Match \cup {None} /\ eid[o][1] = KeyOf(o)
        BY <2>1 DEF TransferInv, Collected, Named
    <2>3. ev \in EventDoc /\ (ev.action = "auto_fix" => chosen[o] # None /\ ev.fix = chosen[o].fix)
        BY <2>2 DEF EventDoc, Match, ActionOf
    <2> HIDE DEF ev
    <2>4. EventsTyped' /\ \A e \in Eid : events'[e] = events[e] \/ (e = eid[o] /\ events'[e] = ev)
        BY <2>1, <2>3 DEF TransferInv, EventsTyped
    <2>5. TransferIsCertified'
        <3> SUFFICES ASSUME NEW e \in Eid, events'[e] # None, events'[e].action = "auto_fix"
                     PROVE  /\ \E c \in Near[e[1]] : /\ <<c, events'[e].fix>> \in Linked0
                                                     /\ links'[<<c, events'[e].fix>>] \in MakesSafe
                            /\ \E u \in Users, p \in Patches : <<u, events'[e].fix, Approval, p>> \in sigLog'
            BY DEF TransferIsCertified, Stored
        <3>1. CASE events'[e] = events[e]
            <4>1. e \in Stored(events) /\ events[e].action = "auto_fix"
                BY <3>1 DEF Stored
            <4>2. /\ \E c \in Near[e[1]] : /\ <<c, events[e].fix>> \in Linked0
                                             /\ links[<<c, events[e].fix>>] \in MakesSafe
                  /\ \E u \in Users, p \in Patches : <<u, events[e].fix, Approval, p>> \in sigLog
                BY <4>1 DEF TransferInv, TransferIsCertified
            <4>3. links' = links /\ sigLog' = sigLog
                BY <2>1
            <4> QED BY <3>1, <4>2, <4>3
        <3>2. CASE e = eid[o] /\ events'[e] = ev
            <4>1. chosen[o] # None /\ ev.fix = chosen[o].fix
                BY <3>2, <2>3
            <4>2. Good(o, chosen[o]) /\ links[<<chosen[o].case, chosen[o].fix>>] \in MakesSafe
                BY <4>1, <2>1 DEF TransferInv, ChosenIsGood
            <4> QED BY <4>1, <4>2, <3>2, <2>1, <2>2 DEF Good, SignedFix
        <3> QED BY <3>1, <3>2, <2>4
    <2>6. FixesSigned' /\ Collected' /\ ChosenIsGood' /\ Named'
        BY <2>1, <1>0 DEF TransferInv, FixesSigned, Collected, ChosenIsGood, Named, Approved, SignedFix, Good,
                          Transfers, KeyOf
    <2> QED BY <2>4, <2>5, <2>6 DEF TransferInv
<1> QED BY <1>1, <1>2, <1>3, <1>4, <1>5, <1>6, <1>7, <1>8, <1>9, <1>10, <1>11, <1>12, <1>13
    DEF Step, HandleEvent, ApproveFix, Other

(* Nothing but places changes, and no request comes to a later one. *)
LEMMA PlacesOnly ==
    ASSUME TransferInv, UNCHANGED <<docs, locals>>,
           \A q \in Ops : \/ pc'[q] = pc[q]
                          \/ pc'[q] \in {"dead", "get_order", "put_fix", "check_user", "put_user"}
                          \/ pc[q] = "idle" /\ pc'[q] = "lookup"
    PROVE  TransferInv'
<1> USE DEF docs, locals
<1>1. FixesSigned' /\ EventsTyped' /\ TransferIsCertified'
    BY DEF TransferInv, FixesSigned, EventsTyped, TransferIsCertified, Approved, SignedFix, Stored
<1>2. Collected'
    BY DEF TransferInv, Collected, Good, SignedFix, KeyOf
<1>3. \A q, m : Good(q, m) => Good(q, m)'
    BY SignedStays
<1>4. ChosenIsGood'
    BY <1>3 DEF TransferInv, ChosenIsGood, Transfers, KeyOf
<1>5. Named'
    BY DEF TransferInv, Named, KeyOf
<1> QED BY <1>1, <1>2, <1>4, <1>5 DEF TransferInv

LEMMA TransferKept ==
    ASSUME CInv, TransferInv, [Next]_vars
    PROVE  TransferInv'
<1>1. ASSUME NEW o \in Ops, Step(o) PROVE TransferInv'
    BY <1>1, StepKeepsTransfer
<1>2. ASSUME NEW o \in Ops, Arrive(o) PROVE TransferInv'
    BY <1>2, ArriveMoves, PlacesOnly DEF CInv
<1>3. CASE Crash
    BY <1>3, CrashEnds, PlacesOnly DEF CInv
<1>4. CASE Tick \/ UNCHANGED vars
    BY <1>4, PlacesOnly DEF Tick, vars
<1> QED BY <1>1, <1>2, <1>3, <1>4 DEF Next, Step

LEMMA InitTransfer == Init => TransferInv
<1> SUFFICES ASSUME Init PROVE TransferInv
    OBVIOUS
<1>1. Collected
    BY DEF Init, Collected
<1>2. FixesSigned /\ ChosenIsGood /\ Named /\ EventsTyped /\ TransferIsCertified
    BY DEF Init, FixesSigned, ChosenIsGood, Named, EventsTyped, TransferIsCertified, Approved, Stored
<1> QED BY <1>1, <1>2 DEF TransferInv

(* A fix that answers an event came from a linked case near it, with a        *)
(* certificate that is SAFE, and somebody signed an approval of it: whatever  *)
(* overlaps and wherever the process dies (service.cpp:445-454,               *)
(* casebase.cpp:108-158).                                                     *)
THEOREM TransferIsCertifiedHolds == Spec => []TransferIsCertified
<1>1. CInv /\ TransferInv /\ [Next]_vars => (CInv /\ TransferInv)'
    BY CInvKept, TransferKept
<1>2. TransferInv => TransferIsCertified
    BY DEF TransferInv
<1> QED BY InitCInv, InitTransfer, <1>1, <1>2, PTL DEF Spec

-------------------------------------------------------------------------------
(* The number in an event's id is the number of events stored before it, so   *)
(* no two are the same while nobody overlaps; and a request stores only one.  *)
Count == Cardinality(Stored(events))
OnePerRequest ==
    /\ \A e \in Stored(events) : pc[events[e].op] \in {"audit", "done", "dead"}
    /\ \A d, e \in Stored(events) : events[d].op = events[e].op => d = e
Numbered ==
    ~overlapped =>
        /\ \A e \in Stored(events) : e[2] \in Nat /\ e[2] < Count
        /\ \A o \in Ops : pc[o] \in {"query", "put_link", "open_order", "put_event"} =>
                eid[o] = <<KeyOf(o), Count>>
        /\ \A o \in Ops : (Kind(o) = "event" /\ pc[o] \in {"audit", "done"}) =>
                eid[o] \in Stored(events) /\ events[eid[o]].op = o
EidTyped == eid = [o \in Ops |-> eid[o]]
EventInv == EventsTyped /\ EidTyped /\ OnePerRequest /\ Numbered

LEMMA CountIsBounded ==
    ASSUME EventsTyped, OnePerRequest
    PROVE  IsFiniteSet(Stored(events)) /\ Count \in 0..Cardinality(Ops)
<1> DEFINE f == [e \in Stored(events) |-> events[e].op]
<1>1. IsFiniteSet(Ops) /\ Cardinality(Ops) \in Nat
    BY RequestAssumption, FS_CardinalityType
<1>2. \A e \in Stored(events) : events[e].op \in Ops
    BY DEF Stored, EventsTyped, EventDoc
<1>3. f \in Injection(Stored(events), Ops)
    BY <1>2 DEF OnePerRequest, Injection, IsInjective
<1>4. IsFiniteSet(Stored(events)) /\ Cardinality(Stored(events)) <= Cardinality(Ops)
    BY <1>1, <1>3, FS_Injection DEF ExistsInjection
<1>5. Cardinality(Stored(events)) \in Nat
    BY <1>4, FS_CardinalityType
<1> QED BY <1>1, <1>4, <1>5 DEF Count

(* A step that stores and names no event. *)
LEMMA NoEventStep ==
    ASSUME CInv, EventInv, NEW o \in Ops, Step(o), UNCHANGED <<events, eid>>,
           pc[o] \notin {"audit", "done", "dead"} \/ pc'[o] \in {"audit", "done", "dead"},
           pc'[o] \in {"query", "put_link", "open_order", "put_event"}
                => pc[o] \in {"query", "put_link", "open_order", "put_event"},
           (Kind(o) = "event" /\ pc'[o] \in {"audit", "done"}) => pc[o] = "audit"
    PROVE  EventInv'
<1>1. overlapped' = overlapped /\ \A q \in Ops : q # o => pc'[q] = pc[q]
    BY StepMoves DEF CInv
<1>2. \A e \in Stored(events) : events[e].op \in Ops
    BY DEF EventInv, Stored, EventsTyped, EventDoc
<1>3. OnePerRequest'
    BY <1>1, <1>2 DEF EventInv, OnePerRequest, Stored
<1>4. Numbered'
    BY <1>1 DEF EventInv, Numbered, Count, Stored, KeyOf, Kind
<1> QED BY <1>3, <1>4 DEF EventInv, EventsTyped, EidTyped

LEMMA StepKeepsEvents ==
    ASSUME CInv, TransferInv, EventInv, NEW o \in Ops, Step(o)
    PROVE  EventInv'
<1> USE DEF CInv, CType, Goto
<1>0. \A q \in Ops : q # o => pc'[q] = pc[q]
    BY StepMoves
<1>1. CASE PutUser(o) \/ GetOrder(o) \/ PutOrder(o) \/ Audited(o) \/ PutFix(o)
    <2>1. CASE PutUser(o)
        <3>1. Kind(o) # "event"
            BY <2>1 DEF PutUser, InPlace
        <3> QED BY <2>1, <3>1, NoEventStep DEF PutUser, locals
    <2>2. CASE GetOrder(o) \/ PutOrder(o) \/ Audited(o)
        BY <2>2, NoEventStep DEF GetOrder, PutOrder, Audited, docs, locals, InPlace
    <2>3. CASE PutFix(o)
        BY <2>3, NoEventStep DEF PutFix, locals, InPlace
    <2> QED BY <1>1, <2>1, <2>2, <2>3
<1>2. CASE CheckUser(o) \/ GetFix(o) \/ PutSig(o)
    BY <1>2, NoEventStep DEF CheckUser, GetFix, PutSig, docs, locals, InPlace
<1>3. CASE LogSig(o) \/ ReRead(o) \/ Approve(o)
    BY <1>3, NoEventStep DEF LogSig, ReRead, Approve, docs, locals, InPlace
<1>4. CASE Lookup(o) \/ QueryLink(o) \/ TryTransfer(o)
    BY <1>4, NoEventStep DEF Lookup, QueryLink, TryTransfer, docs, locals
<1>5. CASE PutLink(o) \/ OpenOrder(o)
    BY <1>5, NoEventStep DEF PutLink, OpenOrder, docs, locals
<1>6. CASE NameEvent(o)
    <2>1. /\ events' = events /\ pc[o] = "name_event" /\ pc'[o] \in {"put_event", "query"}
          /\ eid' = [eid EXCEPT ![o] = <<KeyOf(o), Cardinality(Stored(events))>>]
        BY <1>6 DEF NameEvent, Route, docs
    <2>2. /\ eid'[o] = <<KeyOf(o), Count>> /\ (\A q \in Ops : q # o => eid'[q] = eid[q])
          /\ eid' = [q \in Ops |-> eid'[q]]
        BY <2>1 DEF EventInv, EidTyped, Count
    <2>3. \A e \in Stored(events) : events[e].op \in Ops
        BY DEF EventInv, Stored, EventsTyped, EventDoc
    <2>4. OnePerRequest' /\ EventsTyped'
        BY <2>1, <2>3, <1>0 DEF EventInv, OnePerRequest, Stored, EventsTyped
    <2>5. Numbered'
        <3>1. overlapped' = overlapped /\ Count' = Count /\ Stored(events)' = Stored(events)
            BY <2>1, StepMoves DEF Count, Stored
        <3> QED BY <3>1, <2>1, <2>2, <1>0 DEF EventInv, Numbered, KeyOf, Kind
    <2> QED BY <2>2, <2>4, <2>5 DEF EventInv, EidTyped
<1>7. CASE PutEvent(o)
    <2> DEFINE ev == [op |-> o, action |-> ActionOf(o),
                      fix |-> IF chosen[o] = None THEN None ELSE chosen[o].fix]
    <2>1. /\ pc[o] = "put_event" /\ pc'[o] = "audit" /\ events' = [events EXCEPT ![eid[o]] = ev]
          /\ eid' = eid
        BY <1>7 DEF PutEvent, locals
    <2>2. ev \in EventDoc /\ ev.op = o /\ ev # None
        <3>1. chosen[o] \in Match \cup {None}
            BY DEF TransferInv, Collected
        <3> QED BY <3>1, NoneAssumption DEF EventDoc, Match, ActionOf
    <2> HIDE DEF ev
    <2>3. /\ EventsTyped'
          /\ \A e \in Eid : events'[e] = (IF e = eid[o] THEN ev ELSE events[e])
        BY <2>1, <2>2 DEF EventInv, EventsTyped
    <2>4. /\ \A e \in Stored(events)' : e = eid[o] \/ (e \in Stored(events) /\ events'[e] = events[e])
          /\ \A e \in Stored(events) : e # eid[o] => e \in Stored(events)' /\ events'[e] = events[e]
          /\ eid[o] \in Eid => eid[o] \in Stored(events)' /\ events'[eid[o]] = ev
          /\ Stored(events)' \subseteq Eid
        BY <2>2, <2>3 DEF Stored
    <2>5. \A e \in Stored(events) : events[e].op \in Ops /\ events[e].op # o
        BY <2>1 DEF EventInv, Stored, EventsTyped, EventDoc, OnePerRequest
    <2>6. OnePerRequest'
        <3>1. \A e \in Stored(events)' : pc'[events'[e].op] \in {"audit", "done", "dead"}
            <4> SUFFICES ASSUME NEW e \in Stored(events)' PROVE pc'[events'[e].op] \in {"audit", "done", "dead"}
                OBVIOUS
            <4>1. CASE e = eid[o]
                BY <4>1, <2>1, <2>2, <2>4
            <4>2. CASE e # eid[o]
                BY <4>2, <2>4, <2>5, <1>0 DEF EventInv, OnePerRequest
            <4> QED BY <4>1, <4>2
        <3>2. \A d, e \in Stored(events)' : events'[d].op = events'[e].op => d = e
            BY <2>2, <2>4, <2>5 DEF EventInv, OnePerRequest
        <3> QED BY <3>1, <3>2 DEF OnePerRequest
    <2>7. ASSUME ~overlapped' PROVE Numbered'
        <3>1. ~overlapped /\ \A q \in Ops : q # o => pc'[q] \notin {"query", "put_link", "open_order", "put_event"}
            BY <2>7, StepMoves DEF Alone, Running
        <3>2. IsFiniteSet(Stored(events)) /\ Count \in 0..Cardinality(Ops) /\ Cardinality(Ops) \in Nat
            BY CountIsBounded, RequestAssumption, FS_CardinalityType DEF EventInv
        <3>3. eid[o] = <<KeyOf(o), Count>> /\ KeyOf(o) \in Keys
            BY <3>1, <2>1, RequestShape DEF EventInv, Numbered, InPlace, EventPlaces
        <3>4. eid[o] \in Eid /\ eid[o][2] = Count
            BY <3>2, <3>3 DEF Eid
        <3>5. \A e \in Stored(events) : e[2] \in Nat /\ e[2] < Count
            BY <3>1 DEF EventInv, Numbered
        <3>6. eid[o] \notin Stored(events)
            BY <3>2, <3>4, <3>5
        <3>7. Stored(events)' = Stored(events) \cup {eid[o]}
            BY <2>4, <3>4, <3>6
        <3>8. Count' = Count + 1
            BY <3>2, <3>6, <3>7, FS_AddElement DEF Count
        <3>9. \A e \in Stored(events)' : e[2] \in Nat /\ e[2] < Count'
            BY <3>2, <3>4, <3>5, <3>7, <3>8
        <3>10. \A q \in Ops : (Kind(q) = "event" /\ pc'[q] \in {"audit", "done"}) =>
                    eid'[q] \in Stored(events)' /\ events'[eid'[q]].op = q
            <4> SUFFICES ASSUME NEW q \in Ops, Kind(q) = "event", pc'[q] \in {"audit", "done"}
                         PROVE  eid[q] \in Stored(events)' /\ events'[eid[q]].op = q
                BY <2>1
            <4>1. CASE q = o
                BY <4>1, <2>2, <2>4, <3>4
            <4>2. CASE q # o
                BY <4>2, <1>0, <2>4, <3>1, <3>6 DEF EventInv, Numbered
            <4> QED BY <4>1, <4>2
        <3> QED BY <3>1, <3>9, <3>10, <2>1 DEF Numbered, Kind
    <2>8. Numbered'
        BY <2>7 DEF Numbered
    <2> QED BY <2>1, <2>3, <2>6, <2>8 DEF EventInv, EidTyped
<1> QED BY <1>1, <1>2, <1>3, <1>4, <1>5, <1>6, <1>7 DEF Step, HandleEvent, ApproveFix, Other

LEMMA EventsKept ==
    ASSUME CInv, TransferInv, EventInv, [Next]_vars
    PROVE  EventInv'
<1>0. \A e \in Stored(events) : events[e].op \in Ops
    BY DEF EventInv, Stored, EventsTyped, EventDoc
<1>1. ASSUME NEW o \in Ops, Step(o) PROVE EventInv'
    BY <1>1, StepKeepsEvents
<1>2. ASSUME NEW o \in Ops, Arrive(o) PROVE EventInv'
    <2>1. /\ pc[o] = "idle" /\ pc'[o] \in {"lookup", "get_order", "put_fix", "check_user", "put_user"}
          /\ \A q \in Ops : q # o => pc'[q] = pc[q]
          /\ UNCHANGED <<events, eid>> /\ (~overlapped' => ~overlapped)
        BY <1>2, ArriveMoves DEF CInv, docs, locals
    <2>2. OnePerRequest'
        BY <2>1, <1>0 DEF EventInv, OnePerRequest, Stored
    <2>3. Numbered'
        BY <2>1 DEF EventInv, Numbered, Count, Stored, KeyOf, Kind
    <2> QED BY <2>1, <2>2, <2>3 DEF EventInv, EventsTyped, EidTyped
<1>3. CASE Crash
    <2>1. /\ \A o \in Ops : pc'[o] = "dead" \/ pc'[o] = pc[o]
          /\ UNCHANGED <<events, eid, overlapped>>
        BY <1>3, CrashEnds DEF CInv, docs, locals
    <2>2. OnePerRequest'
        BY <2>1, <1>0 DEF EventInv, OnePerRequest, Stored
    <2>3. Numbered'
        BY <2>1 DEF EventInv, Numbered, Count, Stored, KeyOf, Kind
    <2> QED BY <2>1, <2>2, <2>3 DEF EventInv, EventsTyped, EidTyped
<1>4. CASE Tick \/ UNCHANGED vars
    <2>1. UNCHANGED <<events, eid, overlapped, pc>>
        BY <1>4 DEF Tick, vars, docs, locals
    <2> QED BY <2>1 DEF EventInv, EventsTyped, EidTyped, OnePerRequest, Numbered, Count, Stored, KeyOf, Kind
<1> QED BY <1>1, <1>2, <1>3, <1>4 DEF Next, Step

(* Without overlapping requests an event that was stored keeps its record,    *)
(* though its id is made of a count and crashes leave events unfinished       *)
(* (service.cpp:438).                                                         *)
THEOREM EventsKeepApartHolds == Spec => []EventsKeepApart
<1>1. Init => CInv /\ TransferInv /\ EventInv
    <2> SUFFICES ASSUME Init PROVE CInv /\ TransferInv /\ EventInv
        OBVIOUS
    <2>1. Stored(events) = {}
        BY DEF Init, Stored
    <2>2. EventInv
        BY <2>1 DEF Init, EventInv, EventsTyped, EidTyped, OnePerRequest, Numbered
    <2> QED BY <2>2, InitCInv, InitTransfer
<1>2. CInv /\ TransferInv /\ EventInv /\ [Next]_vars => (CInv /\ TransferInv /\ EventInv)'
    BY CInvKept, TransferKept, EventsKept
<1>3. EventInv => EventsKeepApart
    BY DEF EventInv, Numbered, EventsKeepApart, OwnRecord, Stored
<1> QED BY <1>1, <1>2, <1>3, PTL DEF Spec

-------------------------------------------------------------------------------
(* An order is opened under the id of an event that is about to be stored, so *)
(* while nobody overlaps and nothing crashed every order but the last is of a *)
(* stored event.  The next id is that of no stored event, crashes or not, so  *)
(* the order it opens is a new one, or one of an event that was never stored. *)
OrdersTyped ==
    /\ orders \in [Eid -> OrderDoc \cup {None}] /\ orderRead \in [Ops -> OrderDoc \cup {None}]
    /\ crashes \in Nat
OrderHeld ==
    \A o \in Ops : (Kind(o) = "resolve" /\ pc[o] \in {"put_fix", "put_order"}) =>
        orderRead[o] # None /\ orders[Request[o].order] # None
OrderOfEvent ==
    (~overlapped /\ crashes = 0) => \A e \in Stored(orders) :
        e \in Stored(events) \/ \E o \in Ops : pc[o] = "put_event" /\ eid[o] = e
OrderInv == OrdersTyped /\ OrderHeld /\ OrderOfEvent

(* A stored event stays stored. *)
LEMMA EventsStay ==
    ASSUME CInv, TransferInv, EventInv, NEW o \in Ops, Step(o)
    PROVE  Stored(events) \subseteq Stored(events)'
<1>1. CASE UNCHANGED events
    BY <1>1 DEF Stored
<1>2. CASE PutEvent(o)
    <2> DEFINE ev == [op |-> o, action |-> ActionOf(o),
                      fix |-> IF chosen[o] = None THEN None ELSE chosen[o].fix]
    <2>1. ev \in EventDoc /\ ev # None
        <3>1. chosen[o] \in Match \cup {None}
            BY DEF TransferInv, Collected
        <3> QED BY <3>1, NoneAssumption DEF EventDoc, Match, ActionOf
    <2>2. events' = [events EXCEPT ![eid[o]] = ev]
        BY <1>2 DEF PutEvent
    <2> HIDE DEF ev
    <2> QED BY <2>1, <2>2 DEF EventInv, EventsTyped, Stored
<1> QED BY <1>1, <1>2 DEF Step, HandleEvent, ApproveFix, Other, Lookup, NameEvent, QueryLink, TryTransfer,
        PutLink, OpenOrder, CheckUser, GetFix, PutSig, LogSig, ReRead, Approve, PutUser, GetOrder, PutFix,
        PutOrder, Audited, docs

(* A step that writes and reads no order. *)
LEMMA NoOrderStep ==
    ASSUME CInv, TransferInv, EventInv, OrderInv, NEW o \in Ops, Step(o), UNCHANGED <<orders, orderRead, crashes>>,
           UNCHANGED eid \/ pc[o] # "put_event",
           (pc[o] = "put_event" /\ eid[o] \in Stored(orders)) => eid[o] \in Stored(events)',
           (\A q \in Ops : q # o => eid'[q] = eid[q]),
           (Kind(o) = "resolve" /\ pc'[o] \in {"put_fix", "put_order"}) => pc[o] = "put_fix"
    PROVE  OrderInv'
<1>1. overlapped' = overlapped /\ \A q \in Ops : q # o => pc'[q] = pc[q]
    BY StepMoves DEF CInv
<1>2. OrderHeld'
    BY <1>1 DEF OrderInv, OrderHeld, Kind
<1>3. OrderOfEvent'
    <2> SUFFICES ASSUME ~overlapped', crashes' = 0, NEW e \in Stored(orders)'
                 PROVE  e \in Stored(events)' \/ \E q \in Ops : pc'[q] = "put_event" /\ eid'[q] = e
        BY DEF OrderOfEvent
    <2>1. e \in Stored(orders) /\ Stored(events) \subseteq Stored(events)'
        BY EventsStay DEF Stored
    <2>2. e \in Stored(events) \/ \E q \in Ops : pc[q] = "put_event" /\ eid[q] = e
        BY <1>1, <2>1 DEF OrderInv, OrderOfEvent
    <2> QED BY <1>1, <2>1, <2>2
<1> QED BY <1>2, <1>3 DEF OrderInv, OrdersTyped

LEMMA StepKeepsOrders ==
    ASSUME CInv, TransferInv, EventInv, OrderInv, NEW o \in Ops, Step(o)
    PROVE  OrderInv' /\ (~overlapped' => StaysResolved)
<1> USE DEF CInv, CType, Goto
<1>0. overlapped' = overlapped /\ \A q \in Ops : q # o => pc'[q] = pc[q]
    BY StepMoves
<1>00. UNCHANGED orders => StaysResolved
    BY DEF StaysResolved
<1>1. CASE PutUser(o) \/ Audited(o) \/ PutFix(o)
    BY <1>1, <1>00, NoOrderStep DEF PutUser, Audited, PutFix, docs, locals, InPlace
<1>2. CASE CheckUser(o) \/ GetFix(o) \/ PutSig(o)
    BY <1>2, <1>00, NoOrderStep DEF CheckUser, GetFix, PutSig, docs, locals, InPlace
<1>3. CASE LogSig(o) \/ ReRead(o) \/ Approve(o)
    BY <1>3, <1>00, NoOrderStep DEF LogSig, ReRead, Approve, docs, locals, InPlace
<1>4. CASE Lookup(o) \/ QueryLink(o) \/ TryTransfer(o) \/ PutLink(o)
    BY <1>4, <1>00, NoOrderStep DEF Lookup, QueryLink, TryTransfer, PutLink, docs, locals, InPlace, EventPlaces
<1>5. CASE NameEvent(o)
    <2>1. /\ UNCHANGED <<orders, orderRead, crashes>> /\ pc[o] = "name_event"
          /\ eid' = [eid EXCEPT ![o] = <<KeyOf(o), Cardinality(Stored(events))>>]
        BY <1>5 DEF NameEvent, docs
    <2>2. Kind(o) # "resolve"
        BY <2>1 DEF InPlace, EventPlaces
    <2> QED BY <2>1, <2>2, <1>00, NoOrderStep DEF EventInv, EidTyped
<1>6. CASE GetOrder(o)
    <2>1. /\ pc[o] = "get_order" /\ orderRead' = [orderRead EXCEPT ![o] = orders[Request[o].order]]
          /\ orders[Request[o].order] = None => pc'[o] = "refused"
          /\ orders[Request[o].order] # None => pc'[o] = "put_fix"
          /\ UNCHANGED <<orders, events, eid, crashes>>
        BY <1>6 DEF GetOrder, docs
    <2>2. Kind(o) = "resolve" /\ Request[o].order \in Eid
        <3>1. Kind(o) = "resolve" /\ Request[o] \in Requests
            BY <2>1, RequestAssumption DEF InPlace
        <3> QED BY <3>1 DEF Requests, Kind
    <2>3. OrdersTyped'
        BY <2>1, <2>2 DEF OrderInv, OrdersTyped
    <2>4. OrderHeld'
        BY <2>1, <1>0 DEF OrderInv, OrdersTyped, OrderHeld, Kind
    <2>5. OrderOfEvent'
        BY <2>1, <1>0 DEF OrderInv, OrderOfEvent, Stored
    <2> QED BY <2>1, <2>3, <2>4, <2>5, <1>00 DEF OrderInv
<1>7. CASE PutOrder(o)
    <2> DEFINE doc == [orderRead[o] EXCEPT !.status = "resolved", !.fix = Request[o].fix]
    <2>1. /\ pc[o] = "put_order" /\ pc'[o] = "audit" /\ orders' = [orders EXCEPT ![Request[o].order] = doc]
          /\ UNCHANGED <<events, eid, orderRead, crashes>>
        BY <1>7 DEF PutOrder, locals
    <2>2. Kind(o) = "resolve" /\ Request[o].fix \in Fixes
        BY <2>1, RequestShape DEF InPlace
    <2>3. orderRead[o] \in OrderDoc /\ orders[Request[o].order] # None
        BY <2>1, <2>2 DEF OrderInv, OrdersTyped, OrderHeld
    <2>4. doc \in OrderDoc /\ doc.status = "resolved" /\ doc # None
        BY <2>2, <2>3, NoneAssumption DEF OrderDoc
    <2> HIDE DEF doc
    <2>5. \A e \in Eid : orders'[e] = (IF e = Request[o].order THEN doc ELSE orders[e])
        BY <2>1 DEF OrderInv, OrdersTyped
    <2>6. OrdersTyped' /\ Stored(orders)' = Stored(orders)
        BY <2>1, <2>3, <2>4, <2>5 DEF OrderInv, OrdersTyped, Stored
    <2>7. OrderHeld'
        <3> SUFFICES ASSUME NEW q \in Ops, Kind(q) = "resolve", pc'[q] \in {"put_fix", "put_order"}
                     PROVE  orderRead'[q] # None /\ orders'[Request[q].order] # None
            BY DEF OrderHeld, Kind
        <3>1. q # o /\ Request[q].order \in Eid
            <4>1. Request[q] \in Requests
                BY RequestAssumption
            <4> QED BY <4>1, <2>1 DEF Requests, Kind
        <3> QED BY <3>1, <1>0, <2>1, <2>4, <2>5 DEF OrderInv, OrderHeld
    <2>8. OrderOfEvent'
        BY <2>1, <2>6, <1>0 DEF OrderInv, OrderOfEvent, Stored
    <2> QED BY <2>4, <2>5, <2>6, <2>7, <2>8 DEF OrderInv, StaysResolved
<1>8. CASE OpenOrder(o)
    <2> DEFINE doc == [status |-> "open", fix |-> None]
    <2>1. /\ pc[o] = "open_order" /\ pc'[o] = "put_event" /\ orders' = [orders EXCEPT ![eid[o]] = doc]
          /\ UNCHANGED <<events, eid, orderRead, crashes>>
        BY <1>8 DEF OpenOrder, locals
    <2>2. doc \in OrderDoc /\ doc # None
        BY NoneAssumption DEF OrderDoc
    <2> HIDE DEF doc
    <2>3. \A e \in Eid : orders'[e] = (IF e = eid[o] THEN doc ELSE orders[e])
        BY <2>1 DEF OrderInv, OrdersTyped
    <2>4. OrdersTyped' /\ (\A e \in Stored(orders)' : e = eid[o] \/ e \in Stored(orders))
        BY <2>1, <2>2, <2>3 DEF OrderInv, OrdersTyped, Stored
    <2>5. OrderHeld'
        <3> SUFFICES ASSUME NEW q \in Ops, Kind(q) = "resolve", pc'[q] \in {"put_fix", "put_order"}
                     PROVE  orderRead'[q] # None /\ orders'[Request[q].order] # None
            BY DEF OrderHeld, Kind
        <3>1. q # o /\ Request[q].order \in Eid
            <4>1. Request[q] \in Requests
                BY RequestAssumption
            <4> QED BY <4>1, <2>1 DEF Requests, Kind
        <3> QED BY <3>1, <1>0, <2>1, <2>2, <2>3 DEF OrderInv, OrderHeld
    <2>6. OrderOfEvent'
        BY <2>1, <2>4, <1>0 DEF OrderInv, OrderOfEvent, Stored
    <2>7. ASSUME ~overlapped
          PROVE  eid[o] \notin Stored(events) /\ (crashes = 0 => eid[o] \notin Stored(orders))
        <3>1. \A q \in Ops : pc[q] # "put_event"
            BY <2>7, <2>1 DEF Alone, Running
        <3>2. Kind(o) = "event" /\ eid[o] = <<KeyOf(o), Count>>
            BY <2>7, <2>1 DEF EventInv, Numbered, InPlace, EventPlaces
        <3>3. Count \in Nat /\ eid[o][2] = Count
            BY <3>2, CountIsBounded, RequestAssumption, FS_CardinalityType DEF EventInv
        <3>4. eid[o] \notin Stored(events)
            <4>1. \A e \in Stored(events) : e[2] \in Nat /\ e[2] < Count
                BY <2>7 DEF EventInv, Numbered
            <4> QED BY <3>3, <4>1
        <3> QED BY <3>1, <3>4, <2>7 DEF OrderInv, OrderOfEvent
    <2>8. ~overlapped' => StaysResolved
        <3> SUFFICES ASSUME ~overlapped' PROVE StaysResolved
            OBVIOUS
        <3>1. ASSUME NEW e \in Eid, orders[e] # None, ~Orphan(e) PROVE e # eid[o]
            <4>1. crashes = 0 \/ events[e] # None
                BY <3>1 DEF Orphan, OrderInv, OrdersTyped
            <4> QED BY <1>0, <2>7, <3>1, <4>1 DEF Stored
        <3> QED BY <3>1, <2>3 DEF StaysResolved
    <2> QED BY <2>4, <2>5, <2>6, <2>8 DEF OrderInv
<1>9. CASE PutEvent(o)
    <2>1. /\ UNCHANGED <<orders, orderRead, crashes, eid>> /\ pc[o] = "put_event" /\ pc'[o] = "audit"
        BY <1>9 DEF PutEvent, locals
    <2>2. eid[o] \in Stored(orders) => eid[o] \in Stored(events)'
        <3> DEFINE ev == [op |-> o, action |-> ActionOf(o),
                          fix |-> IF chosen[o] = None THEN None ELSE chosen[o].fix]
        <3>1. ev \in EventDoc /\ ev # None
            <4>1. chosen[o] \in Match \cup {None}
                BY DEF TransferInv, Collected
            <4> QED BY <4>1, NoneAssumption DEF EventDoc, Match, ActionOf
        <3>2. events' = [events EXCEPT ![eid[o]] = ev]
            BY <1>9 DEF PutEvent
        <3> HIDE DEF ev
        <3> QED BY <3>1, <3>2 DEF EventInv, EventsTyped, Stored
    <2> QED BY <2>1, <2>2, <1>00, NoOrderStep
<1> QED BY <1>1, <1>2, <1>3, <1>4, <1>5, <1>6, <1>7, <1>8, <1>9 DEF Step, HandleEvent, ApproveFix, Other

LEMMA OrdersKept ==
    ASSUME CInv, TransferInv, EventInv, OrderInv, [Next]_vars
    PROVE  OrderInv' /\ (~overlapped' => StaysResolved)
<1>1. ASSUME NEW o \in Ops, Step(o) PROVE OrderInv' /\ (~overlapped' => StaysResolved)
    BY <1>1, StepKeepsOrders
<1>2. ASSUME NEW o \in Ops, Arrive(o) PROVE OrderInv' /\ StaysResolved
    <2>1. /\ pc[o] = "idle" /\ \A q \in Ops : q # o => pc'[q] = pc[q]
          /\ pc'[o] \in {"put_fix", "put_order"} => Kind(o) = "hole"
          /\ UNCHANGED <<orders, orderRead, events, eid, crashes>> /\ (~overlapped' => ~overlapped)
        BY <1>2, ArriveMoves DEF CInv, docs, locals
    <2> QED BY <2>1 DEF OrderInv, OrdersTyped, OrderHeld, OrderOfEvent, Stored, StaysResolved, Kind
<1>3. CASE Crash
    <2>1. /\ \A o \in Ops : pc'[o] = "dead" \/ pc'[o] = pc[o]
          /\ UNCHANGED <<orders, orderRead, events, eid, overlapped>>
        BY <1>3, CrashEnds DEF CInv, docs, locals
    <2>2. crashes' = crashes + 1 /\ crashes \in Nat
        BY <1>3 DEF Crash, OrderInv, OrdersTyped
    <2> QED BY <2>1, <2>2 DEF OrderInv, OrdersTyped, OrderHeld, OrderOfEvent, StaysResolved, Kind
<1>4. CASE Tick \/ UNCHANGED vars
    <2>1. UNCHANGED <<orders, orderRead, events, eid, crashes, overlapped, pc>>
        BY <1>4 DEF Tick, vars, docs, locals
    <2> QED BY <2>1 DEF OrderInv, OrdersTyped, OrderHeld, OrderOfEvent, Stored, StaysResolved, Kind
<1> QED BY <1>1, <1>2, <1>3, <1>4 DEF Next, Step

(* No later event reopens an order that is resolved, while nothing overlaps   *)
(* and wherever the process is killed, unless the order is an orphan: the     *)
(* orders of new events have ids that no stored event has                     *)
(* (service.cpp:438, 469).                                                    *)
THEOREM ResolvedForGoodHolds == Spec => ResolvedForGood
<1>1. Init => CInv /\ TransferInv /\ EventInv /\ OrderInv
    <2> SUFFICES ASSUME Init PROVE CInv /\ TransferInv /\ EventInv /\ OrderInv
        OBVIOUS
    <2>1. Stored(events) = {} /\ Stored(orders) = {}
        BY DEF Init, Stored
    <2>2. EventInv
        BY <2>1 DEF Init, EventInv, EventsTyped, EidTyped, OnePerRequest, Numbered
    <2>3. OrderInv
        BY <2>1 DEF Init, OrderInv, OrdersTyped, OrderHeld, OrderOfEvent
    <2> QED BY <2>2, <2>3, InitCInv, InitTransfer
<1>2. CInv /\ TransferInv /\ EventInv /\ OrderInv /\ [Next]_vars
        => /\ (CInv /\ TransferInv /\ EventInv /\ OrderInv)'
           /\ [~overlapped' => StaysResolved]_vars
    BY CInvKept, TransferKept, EventsKept, OrdersKept
<1> QED BY <1>1, <1>2, PTL DEF Spec, ResolvedForGood
===============================================================================
