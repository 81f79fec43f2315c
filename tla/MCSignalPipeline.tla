-------------------------- MODULE MCSignalPipeline --------------------------
(* SignalPipeline on small instances. *)
EXTENDS SignalPipeline, TLC

Symmetry == Permutations(Replicas)
=============================================================================
