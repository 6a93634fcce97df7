-------------------------- MODULE MCRecordLifecycle --------------------------
(***************************************************************************)
(* Instances of RecordLifecycle for TLC.                                   *)
(***************************************************************************)
EXTENDS RecordLifecycle, TLC

Symmetry == Permutations(Caller)
=============================================================================
