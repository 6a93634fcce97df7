------------------------- MODULE MCEventAttendance --------------------------
(***************************************************************************)
(* An instance of EventAttendance for TLC, and of EventRegistration within *)
(* it: p registers itself and cancels without keys, q does both for p and  *)
(* itself with one key; where p alone does, by one call at a time, members *)
(* of the staff record p's attendance.                                     *)
(***************************************************************************)
EXTENDS EventAttendance, TLC

CONSTANTS p, q, k, t0, x

Symmetry == Permutations(Caller) \union Permutations(Desk)

OwnRegistrations == {r \in Request :
  r.actor = p /\ r.key = None /\ (r.op = "register" => r.predecessor < 2)}

ForOne == {
  r \in Request :
    /\ r.actor = q <=> r.key = k
    /\ r.op = "register" => r.participant = p /\ r.predecessor < MaxRows}

\* Corrections of a record that rests on registration 1 come with any content, the
\* other commands with one: a correction is what changes it.
AtTheDesk == {r \in AttendanceRequest :
  /\ r.op \in {"record", "correct"} => r.registration <= 2
  /\ r.op = "record" => r.at = t0
  /\ r.op # "correct" \/ r.registration # 1 => r.content = x}

Alone ==
  /\ Len(rows) <= 2
  /\ event # "archived"
  /\ \A c, d \in Caller : req[c] # None /\ req[d] # None => c = d
  /\ \A c \in Caller : req[c] # None => req[c] \in OwnRegistrations
  /\ \A i \in DOMAIN ledger : ledger[i].actor = p

\* Bound: the staff are at work where p is alone, until the Event is archived.
EitherScene == Alone \/ (attendance = None /\ \A d \in Desk : asked[d] = None)
=============================================================================
