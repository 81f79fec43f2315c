---------------------------- MODULE MCKillSwitch ----------------------------
(* KillSwitch on small instances. *)
EXTENDS KillSwitch, TLC
=============================================================================
