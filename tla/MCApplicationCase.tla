-------------------------- MODULE MCApplicationCase --------------------------
(***************************************************************************)
(* Instances of ApplicationCase for TLC: one applicant, who may apply      *)
(* again, and two Coordinators.                                            *)
(***************************************************************************)
EXTENDS ApplicationCase, TLC

CONSTANTS p1, c1, c2

Alike == Permutations(Coordinators)
=============================================================================
