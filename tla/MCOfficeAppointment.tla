------------------------- MODULE MCOfficeAppointment -------------------------
(***************************************************************************)
(* Instances of OfficeAppointment for TLC: a Coordinator, who may          *)
(* nominate anybody, and a member, who may put themselves forward.         *)
(***************************************************************************)
EXTENDS OfficeAppointment

CONSTANTS m1, m2
=============================================================================
