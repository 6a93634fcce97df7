---------------------------- MODULE JourneyPromise ----------------------------
(***************************************************************************)
(* What an Event promises the people who come to it: registrations change  *)
(* only while it is published or active, attendance is first recorded only *)
(* while it is active, and, for a registered person, only on a standing    *)
(* registration.  Attendance is withdrawn and restored afterwards too, but *)
(* how it came about is never rewritten.                                   *)
(***************************************************************************)
EXTENDS LifecycleGraphs

CONSTANTS Participant, Attendee

VARIABLES
  event,      \* the Event's state
  standing,   \* per participant: "none", "registered" or "cancelled"
  attendance, \* the attendee's: "unrecorded", "present" or "voided"
  origin      \* how it was recorded: "none", "registered" or "walk_in"

Init ==
  /\ event = "draft"
  /\ standing = [p \in Participant |-> "none"]
  /\ attendance = "unrecorded" /\ origin = "none"

Open == event \in {"published", "active"}

Register(p) ==
  /\ Open /\ standing[p] # "registered"
  /\ standing' = [standing EXCEPT ![p] = "registered"]
  /\ UNCHANGED <<event, attendance, origin>>

Cancel(p) ==
  /\ Open /\ standing[p] = "registered"
  /\ standing' = [standing EXCEPT ![p] = "cancelled"]
  /\ UNCHANGED <<event, attendance, origin>>

RecordAttendance(o) ==
  /\ event = "active" /\ attendance = "unrecorded"
  /\ o = "registered" => standing[Attendee] = "registered"
  /\ attendance' = "present" /\ origin' = o
  /\ UNCHANGED <<event, standing>>

Withdraw ==
  /\ attendance = "present" /\ attendance' = "voided"
  /\ UNCHANGED <<event, standing, origin>>

Restore ==
  /\ attendance = "voided" /\ attendance' = "present"
  /\ UNCHANGED <<event, standing, origin>>

MoveEvent ==
  /\ \E m \in EventMoves : m.from = event /\ event' = m.to
  /\ UNCHANGED <<standing, attendance, origin>>

Next ==
  \/ \E p \in Participant : Register(p) \/ Cancel(p)
  \/ \E o \in {"registered", "walk_in"} : RecordAttendance(o)
  \/ Withdraw \/ Restore \/ MoveEvent

Spec == Init /\ [][Next]_<<event, standing, attendance, origin>>
=============================================================================
