--------------------------- MODULE EventAttendance ---------------------------
(***************************************************************************)
(* The attendance of one person at the Event (event_attendance_service.py) *)
(* together with the Event's registrations.  Others record that the person *)
(* was present, on a registration or as a walk-in, correct when and on     *)
(* which registration, withdraw the record and restore it.                 *)
(*                                                                         *)
(* A call reads something before it takes the Event's row lock: recording  *)
(* looks for a replay, the other commands read the attendance row, and     *)
(* later use the registration that snapshot names.  A replay compares a    *)
(* fingerprint of the request and of facts of the row.  Rationale and      *)
(* evidence are one content; times of presence are compared, not ordered.  *)
(***************************************************************************)
EXTENDS EventRegistration

CONSTANTS
  Attendee,   \* whose attendance this is
  Staff,      \* who may record it; none of them attends
  Desk,       \* concurrent calls of the attendance service
  Time,       \* times of presence
  Content,    \* rationales with their evidence
  MaxTrail,   \* bound on the attendance's transitions
  Asked       \* the requests those calls make

\* A registration of 0 is none.
RecordRequest == [op : {"record"}, actor : Staff, key : Key, content : Content,
                  at : Time, registration : 0..MaxRows]
CorrectRequest == [op : {"correct"}, actor : Staff, key : Key, content : Content,
                   at : Time, registration : 0..MaxRows]
StatusRequest == [op : {"void", "reinstate"}, actor : Staff, key : Key,
                  content : Content]
AttendanceRequest == RecordRequest \union CorrectRequest \union StatusRequest

Fact == [at : Time, registration : 0..MaxRows]
Attendance == [status : {"present", "voided"}, fact : Fact,
               origin : {"registered", "walk_in"}]
Facts == [at : Time \union {None}, registration : 0..MaxRows]
Trace == [action : {"record", "correct", "void", "reinstate"}, actor : Staff,
          key : Key, content : Content, compared : Facts, before : Facts,
          result : Fact, to : {"present", "voided"}]

ASSUME AttendeeAssumption == Attendee \in Participant
ASSUME AskedAssumption == Asked \subseteq AttendanceRequest
ASSUME TrailAssumption == MaxTrail \in Nat
ASSUME NoRecordAssumption == None \notin Attendance \union AttendanceRequest

VARIABLES
  attendance,  \* the attendance row, or None
  trail,       \* its transitions, in sequence
  desk,        \* "idle", or "waiting" for the Event's row lock
  asked,       \* a call's request, kept with its answer until the next call
  snapshot,    \* the registration its unlocked read of the row named
  told         \* "none", "done" or "conflict"

attendanceVars == <<attendance, trail, desk, asked, snapshot, told>>
vars == <<event, rows, ledger, pc, req, answer,
          attendance, trail, desk, asked, snapshot, told>>

Init ==
  /\ RegistrationInit
  /\ attendance = None /\ trail = <<>>
  /\ desk = [d \in Desk |-> "idle"]
  /\ asked = [d \in Desk |-> None]
  /\ snapshot = [d \in Desk |-> 0]
  /\ told = [d \in Desk |-> "none"]

-----------------------------------------------------------------------------
\* The transitions recorded under the request's actor, action and key.
TracesOf(r) == {i \in DOMAIN trail :
  trail[i].actor = r.actor /\ trail[i].action = r.op /\ trail[i].key = r.key}

Unrecorded == [at |-> None, registration |-> 0]
Now == IF attendance = None THEN Unrecorded ELSE attendance.fact

\* Mutant: every command compares the facts of the row.
Compared_Row(r) == Now

\* The facts a fingerprint takes beside the content: the requested ones, or
\* for voiding and reinstating those the row has now.
Compared(r) ==
  IF r.op = "record" THEN [at |-> None, registration |-> r.registration]
  ELSE IF r.op = "correct" THEN [at |-> r.at, registration |-> r.registration]
  ELSE Now

SameFingerprint(r, i) == trail[i].content = r.content /\ trail[i].compared = Compared(r)

ReplayOf(r) == IF \A i \in TracesOf(r) : SameFingerprint(r, i)
               THEN "done" ELSE "conflict"

Reply(d, what) ==
  /\ desk' = [desk EXCEPT ![d] = "idle"]
  /\ told' = [told EXCEPT ![d] = what]
  /\ snapshot' = [snapshot EXCEPT ![d] = 0]

Wait(d, registration) ==
  /\ desk' = [desk EXCEPT ![d] = "waiting"]
  /\ told' = [told EXCEPT ![d] = "none"]
  /\ snapshot' = [snapshot EXCEPT ![d] = registration]

\* record_attendance is called and looks for a replay without a lock.
AskRecord(d, r) ==
  /\ desk[d] = "idle" /\ r.op = "record"
  /\ r.registration # 0 => r.registration \in DOMAIN rows
  /\ asked' = [asked EXCEPT ![d] = r]
  /\ IF TracesOf(r) # {} THEN Reply(d, ReplayOf(r)) ELSE Wait(d, 0)
  /\ UNCHANGED <<attendance, trail>>

\* Another command is called and reads the attendance row without a lock.
Ask(d, r) ==
  /\ desk[d] = "idle" /\ r.op # "record"
  /\ attendance # None
  /\ r.op = "correct" /\ r.registration # 0 => r.registration \in DOMAIN rows
  /\ asked' = [asked EXCEPT ![d] = r]
  /\ Wait(d, attendance.fact.registration)
  /\ UNCHANGED <<attendance, trail>>

\* Refused by a guard or the authority, or lost with its transaction.
RefuseDesk(d) ==
  /\ desk[d] = "waiting"
  /\ Reply(d, "none")
  /\ asked' = [asked EXCEPT ![d] = None]
  /\ UNCHANGED <<attendance, trail>>

\* Mutant: any registration of the Event supports an attendance.
Supports_Any(i) == i \in DOMAIN rows

Supports(i) == /\ i \in DOMAIN rows
               /\ rows[i].participant = Attendee
               /\ rows[i].state = "registered"

\* The next transition, and the row it leaves behind.
Write(d, compared, before, result, row) ==
  /\ Len(trail) < MaxTrail
  /\ trail' = Append(trail,
       [action |-> asked[d].op, actor |-> asked[d].actor, key |-> asked[d].key,
        content |-> asked[d].content, compared |-> compared, before |-> before,
        result |-> result, to |-> row.status])
  /\ attendance' = row
  /\ Reply(d, "done")

\* A replay found under the lock.
ReplyReplay(d) ==
  /\ TracesOf(asked[d]) # {}
  /\ Reply(d, ReplayOf(asked[d]))
  /\ UNCHANGED <<attendance, trail>>

\* Mutant: attendance may be recorded once the Event is completed.
Recording_Late == event \in {"active", "completed"}

Recording == event = "active"

RecordAttendance(d) ==
  LET r == asked[d]
      fact == [at |-> r.at, registration |-> r.registration]
  IN  /\ desk[d] = "waiting" /\ r.op = "record"
      /\ r.registration # 0 => Supports(r.registration)
      /\ Recording
      /\ UNCHANGED asked
      /\ \/ ReplyReplay(d)
         \/ /\ TracesOf(r) = {} /\ attendance = None
            /\ Write(d, Compared(r), Unrecorded, fact,
                 [status |-> "present", fact |-> fact,
                  origin |-> IF r.registration = 0 THEN "walk_in" ELSE "registered"])

\* A correction keeps the origin; it may keep its registration when that one
\* was cancelled since.
Correctable(r) ==
  IF attendance.origin = "walk_in" THEN r.registration = 0
  ELSE \/ Supports(r.registration)
       \/ r.registration = attendance.fact.registration

\* Only the registrations the snapshot and the request name are at hand.
AtHand(d, i) == IF i \in {snapshot[d], asked[d].registration} THEN i ELSE 0

CorrectAttendance(d) ==
  LET r == asked[d]
      fact == [at |-> r.at, registration |-> r.registration]
      before == [at |-> attendance.fact.at,
                 registration |-> AtHand(d, attendance.fact.registration)]
  IN  /\ desk[d] = "waiting" /\ r.op = "correct"
      /\ attendance.status = "present"
      /\ Correctable(r)
      /\ UNCHANGED asked
      /\ \/ ReplyReplay(d)
         \/ /\ TracesOf(r) = {}
            /\ Write(d, Compared(r), before, fact, [attendance EXCEPT !.fact = fact])

\* Mutant: a withdrawn attendance can be withdrawn again.
Expected_Any(r) == attendance.status

Expected(r) == IF r.op = "void" THEN "present" ELSE "voided"

ChangeStatus(d) ==
  LET r == asked[d]
      fact == [at |-> attendance.fact.at, registration |-> snapshot[d]]
  IN  /\ desk[d] = "waiting" /\ r.op \in {"void", "reinstate"}
      /\ UNCHANGED asked
      /\ \/ ReplyReplay(d)
         \/ /\ TracesOf(r) = {} /\ attendance.status = Expected(r)
            /\ Write(d, Compared(r), fact, fact,
                 [attendance EXCEPT !.status =
                    IF r.op = "void" THEN "voided" ELSE "present"])

AttendanceNext == \E d \in Desk :
  \/ \E r \in Asked : AskRecord(d, r) \/ Ask(d, r)
  \/ RefuseDesk(d)
  \/ RecordAttendance(d) \/ CorrectAttendance(d) \/ ChangeStatus(d)

Next == \/ RegistrationNext /\ UNCHANGED attendanceVars
        \/ AttendanceNext /\ UNCHANGED registrationVars

Spec == Init /\ [][Next]_vars

-----------------------------------------------------------------------------
\* Types, on top of RegistrationTypeOK.
AttendanceTypeOK ==
  /\ attendance \in Attendance \union {None}
  /\ trail \in Seq(Trace) /\ Len(trail) <= MaxTrail
  /\ desk \in [Desk -> {"idle", "waiting"}]
  /\ asked \in [Desk -> AttendanceRequest \union {None}]
  /\ snapshot \in [Desk -> 0..MaxRows]
  /\ told \in [Desk -> {"none", "done", "conflict"}]
  /\ attendance = None <=> trail = <<>>
  /\ \A d \in Desk : desk[d] = "waiting" =>
       asked[d] # None /\ (asked[d].op # "record" => attendance # None)

\* The statuses: recorded once and first, corrected and withdrawn only while
\* present, restored only while withdrawn; the end is the row's status, and
\* correcting never changes a walk-in's origin.
StatusesAreALife ==
  /\ \A i \in DOMAIN trail :
       /\ trail[i].action = "record" <=> i = 1
       /\ trail[i].to = IF trail[i].action = "void" THEN "voided" ELSE "present"
       /\ trail[i].action \in {"void", "correct"} => trail[i - 1].to = "present"
       /\ trail[i].action = "reinstate" => trail[i - 1].to = "voided"
       /\ trail[i].action \in {"record", "correct"} =>
            (trail[i].result.registration = 0 <=> attendance.origin = "walk_in")
  /\ trail # <<>> => trail[Len(trail)].to = attendance.status

\* The last of the first n transitions that set the facts, and whether one of
\* them set the registration.
SetLast(j, n) ==
  /\ trail[j].action \in {"record", "correct"}
  /\ \A m \in j + 1..n : trail[m].action \notin {"record", "correct"}
OnceSet(registration, n) == \E m \in 1..n :
  trail[m].action \in {"record", "correct"} /\ trail[m].result.registration = registration

\* Transition i starts from the facts transition j set, except for the
\* registration.  Read before the lock, it is in a correction the right one or
\* none, in a withdrawal or a restoration the right one or an earlier one.
StartsFrom(i, j) ==
  /\ SetLast(j, i - 1)
  /\ trail[i].before.at = trail[j].result.at
  /\ IF trail[i].action = "correct"
     THEN trail[i].before.registration \in {0, trail[j].result.registration}
     ELSE OnceSet(trail[i].before.registration, j)

\* The facts: every transition starts from those set last, and the row has them.
FactsAreALife ==
  /\ \A i \in DOMAIN trail : trail[i].action # "record" => \E j \in 1..i - 1 : StartsFrom(i, j)
  /\ attendance # None =>
       \E j \in DOMAIN trail : SetLast(j, Len(trail)) /\ attendance.fact = trail[j].result

\* The trail is a life of the record: its statuses follow each other to that of
\* the row, and so do its facts, as far as the unlocked read lets them.
TrailIsALife == StatusesAreALife /\ FactsAreALife

\* What "used with a different attendance payload" means
\* (event_attendance_service.py:296): the key's transition records another
\* content or, where the request names facts, other facts.
Differs(r, i) ==
  \/ trail[i].content # r.content
  \/ r.op \in {"record", "correct"} /\ trail[i].result.registration # r.registration
  \/ r.op = "correct" /\ trail[i].result.at # r.at

\* A command under one actor, action and key is recorded once, and who is told
\* that it is done asked for what that transition records.
DoneIsRecorded ==
  /\ \A i, j \in DOMAIN trail :
       /\ trail[i].key = trail[j].key /\ trail[i].actor = trail[j].actor
       /\ trail[i].action = trail[j].action
       => i = j
  /\ \A d \in Desk : told[d] = "done" =>
       \E i \in TracesOf(asked[d]) : ~Differs(asked[d], i)

\* A conflict is told only of a key that was used for something else.
ConflictIsTrue == \A d \in Desk :
  told[d] = "conflict" => \A i \in TracesOf(asked[d]) : Differs(asked[d], i)

\* So it is for recording and correcting.
RequestConflictIsTrue == \A d \in Desk :
  told[d] = "conflict" /\ asked[d].op \in {"record", "correct"} =>
    \A i \in TracesOf(asked[d]) : Differs(asked[d], i)

\* Every transition starts from the facts the one before it left, and the last
\* one's are those of the row.
TrailTellsFacts ==
  /\ \A i \in DOMAIN trail : i > 1 => trail[i].before = trail[i - 1].result
  /\ trail # <<>> => trail[Len(trail)].result = attendance.fact

\* Attendance comes to rest on a registration only while that registration
\* stands and is the attendee's own.
RestsOnStanding == [][
  LET i == (IF attendance' = None THEN Unrecorded ELSE attendance'.fact).registration
  IN  i \notin {0, Now.registration} =>
        rows[i].participant = Attendee /\ rows[i].state = "registered"]_vars

\* Registrations and attendance keep the promise of JourneyPromise.
StandingOf(p) ==
  IF Of(p) = {} THEN "none"
  ELSE IF \E i \in Of(p) : rows[i].state = "registered" THEN "registered"
  ELSE "cancelled"

Promise == INSTANCE JourneyPromise WITH
  standing   <- [p \in Participant |-> StandingOf(p)],
  attendance <- IF attendance = None THEN "unrecorded" ELSE attendance.status,
  origin     <- IF attendance = None THEN "none" ELSE attendance.origin
PromiseKept == Promise!Spec
=============================================================================
