---------------------------- MODULE MCAuditFeed -----------------------------
(* AuditFeed on small instances. *)
EXTENDS AuditFeed, TLC
=============================================================================
