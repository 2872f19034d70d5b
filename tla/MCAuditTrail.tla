----------------------------- MODULE MCAuditTrail -----------------------------
(* Small instances of AuditTrail: operations as they are in service.cpp.    *)
EXTENDS AuditTrail, TLC

CONSTANTS analyze, event, approve

(* analyze records three times under one lock (two are enough here);        *)
(* handle_event ingests under the lock and records its event without it;    *)
(* approve_fix records without it.                                          *)
MixedSections ==
    [o \in Ops |-> CASE o = event   -> << [locked |-> TRUE,  records |-> 1],
                                          [locked |-> FALSE, records |-> 1] >>
                     [] o = approve -> << [locked |-> FALSE, records |-> 1] >>
                     [] OTHER       -> << [locked |-> TRUE, records |-> 2] >>]
===============================================================================
