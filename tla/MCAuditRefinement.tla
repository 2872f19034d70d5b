--------------------------- MODULE MCAuditRefinement ---------------------------
EXTENDS AuditRefinement, TLC

(* The first operation records twice under one lock, the others once. *)
LockedSections ==
    LET first == CHOOSE o \in Ops : TRUE
    IN  [o \in Ops |-> << [locked |-> TRUE, records |-> IF o = first THEN 2 ELSE 1] >>]
===============================================================================
