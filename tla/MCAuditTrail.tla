---------------------------- MODULE MCAuditTrail ----------------------------
(* Small instances of AuditTrail for TLC. *)
EXTENDS AuditTrail
=============================================================================
