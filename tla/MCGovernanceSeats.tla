-------------------------- MODULE MCGovernanceSeats --------------------------
(***************************************************************************)
(* Instances of GovernanceSeats for TLC.  Coordinators decide, and one     *)
(* member is not a Coordinator.                                            *)
(***************************************************************************)
EXTENDS GovernanceSeats

CONSTANTS m1, m2, s1, s2
=============================================================================
