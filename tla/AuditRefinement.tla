---------------------------- MODULE AuditRefinement ----------------------------
(* The audit trail implements the chained log when every record is made     *)
(* under Service::mu_ and the log file does not fail: the log is the state  *)
(* of the promise, and the in-memory chain is its implementation.           *)
EXTENDS AuditTrail

Promise == INSTANCE ChainLog WITH lines <- log, Events <- Recordable

(* Every step of the service, crash and restart included, appends at most   *)
(* one correctly linked record to the log and changes nothing else in it.   *)
ImplementsChainLog == Promise!Spec

===============================================================================
