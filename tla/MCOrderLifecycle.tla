-------------------------- MODULE MCOrderLifecycle --------------------------
(* OrderLifecycle on small instances. *)
EXTENDS OrderLifecycle, TLC
=============================================================================
