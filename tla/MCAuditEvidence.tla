---------------------------- MODULE MCAuditEvidence ----------------------------
(* Two lock-holding operations against the backup thread. *)
EXTENDS AuditEvidence, TLC

TwoLocked == [o \in Ops |-> << [locked |-> TRUE, records |-> 1] >>]
===============================================================================
