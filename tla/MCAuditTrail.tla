---------------------------- MODULE MCAuditTrail ----------------------------
(* AuditTrail on small sets, for TLC. *)
EXTENDS AuditTrail

\* What no action reads is not told apart.
TrailView == <<store, auditVars>>
=============================================================================
