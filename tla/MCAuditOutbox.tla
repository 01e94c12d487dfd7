---------------------------- MODULE MCAuditOutbox ----------------------------
(* TLC instance of AuditOutbox. *)
EXTENDS AuditOutbox, TLC
=============================================================================
