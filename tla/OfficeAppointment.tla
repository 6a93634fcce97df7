-------------------------- MODULE OfficeAppointment --------------------------
(***************************************************************************)
(* One office of a Living Organism, other than its Coordinator's: the      *)
(* versions of its definition, nominations, the nominees' consents,        *)
(* appointments and their endings, and the members who leave and rejoin.   *)
(*                                                                         *)
(* As in GovernanceSeats, a command is received at a time that stays its   *)
(* own and executed later, holding the organism's row.  The services judge *)
(* it as of its own date by what had been recorded when it was received,   *)
(* the database's guards by what is recorded when it is executed, and the  *)
(* time a row was recorded identifies it.                                  *)
(*                                                                         *)
(* Left out, since they may only refuse: the organism's capacity, state    *)
(* and recovery, entitlements, the participation an office may require,    *)
(* the coverage a departure is checked against.  The Coordinators stay.    *)
(***************************************************************************)
EXTENDS Naturals, FiniteSets

CONSTANTS
  Members,         \* the memberships, active from the start
  Coordinators,    \* those who hold the Coordinator office
  Policy,          \* the definition's nomination_policy
  Permanent,       \* kind = BOARD_OFFICE
  Dates,           \* times as of which commands act
  LastTime,        \* bound on the clock
  MaxVersions,     \* bound on the definition's versions
  MaxNominations   \* bound on the nominations

ASSUME MembersAssumption == Coordinators \subseteq Members
ASSUME PolicyAssumption == Policy \in {"A", "B", "C"} /\ Permanent \in BOOLEAN
ASSUME TimeAssumption == LastTime \in Nat /\ Dates \subseteq 0..LastTime
ASSUME BoundAssumption == MaxVersions \in Nat /\ MaxNominations \in Nat

Time == 0..LastTime

Nomination == [nominee : Members, proposer : Members, version : Nat, at : Time, recorded : Time]
Consent == [of : Time, action : {"CONSENT", "DECLINE", "WITHDRAW"}, at : Time, recorded : Time]
Holding == [of : Time, at : Time, recorded : Time]
Departure == [member : Members, at : Time, recorded : Time]

VARIABLES
  clock,         \* clock_timestamp()
  latest,        \* definition_version of the latest version, 0 before there is one
  retired,       \* the latest version was retired
  nominations,   \* the assignments and their PROPOSE
  consents,
  appointments,  \* ASSIGN, by the nomination it appoints
  endings,       \* END and REASSIGN
  departures,    \* the memberships' transitions to ENDED
  rejoinings     \* and those out of it, by the departure they follow

vars == <<clock, latest, retired, nominations, consents, appointments, endings,
          departures, rejoinings>>

offices == <<nominations, consents, appointments, endings>>
memberships == <<departures, rejoinings>>
definition == <<latest, retired>>

Init ==
  /\ clock = 1 /\ latest \in {0, 1} /\ retired = FALSE
  /\ nominations = {} /\ consents = {} /\ appointments = {} /\ endings = {}
  /\ departures = {} /\ rejoinings = {}

-----------------------------------------------------------------------------
Known(rows, known) == {row \in rows : row.recorded <= known}

Returned(d, at, known) == \E r \in Known(rejoinings, known) : r.of = d.recorded /\ r.at <= at

\* s015_fold_effective_state of a membership.
ActiveAt(m, at, known) == \A d \in Known(departures, known) :
  d.member = m /\ d.at <= at => Returned(d, at, known)

\* The stored state of the membership, read under its lock.
ActiveNow(m) == \A d \in departures : d.member = m => \E r \in rejoinings : r.of = d.recorded

\* No transition to ENDED was recorded after the proposal.
SamePeriod(n) == \A d \in departures : d.member = n.nominee => d.recorded < n.recorded

Appointed(n) == \E a \in appointments : a.of = n.recorded
Ended(n) == \E e \in endings : e.of = n.recorded

\* The stored state of the assignment is ACTIVE.
Holds(n) == Appointed(n) /\ ~Ended(n)

\* s015_fold_effective_state of the assignment is ACTIVE.
HeldAt(n, at, known) ==
  /\ \E a \in Known(appointments, known) : a.of = n.recorded /\ a.at <= at
  /\ \A e \in Known(endings, known) : e.of = n.recorded => e.at > at

Proposed(n, at, known) == n.at <= at /\ n.recorded <= known

\* Every office the actor holds has a history by then.
LockedHeadsMatch(m, at, received) == \A n \in nominations :
  n.nominee = m /\ Holds(n) => Proposed(n, at, received)

IsCurrent(version) == version = latest /\ ~retired

ConsentsBy(n, at, known) == {c \in Known(consents, known) : c.of = n.recorded /\ c.at <= at}

SelfProposed(n) == n.proposer = n.nominee

\* The latest of a nominee's answers, by ordinal.
IsLatest(c, answers) == \A other \in answers : other.recorded <= c.recorded

\* A self-proposal is its own consent until it is withdrawn.
Consented(n, at, known) ==
  LET answers == ConsentsBy(n, at, known) IN
    IF SelfProposed(n) THEN \A c \in answers : c.action # "WITHDRAW"
    ELSE \E c \in answers : c.action = "CONSENT" /\ IsLatest(c, answers)

\* The guard finds the decision's consent among what is recorded by now.
SameConsent(n, at, received) ==
  SelfProposed(n) \/ \E c \in ConsentsBy(n, at, received) :
    IsLatest(c, ConsentsBy(n, at, received)) /\ IsLatest(c, ConsentsBy(n, at, clock))

-----------------------------------------------------------------------------
\* A command received at received, acting as of at, is executed now.
Executed(at, received) ==
  /\ clock < LastTime
  /\ received <= clock /\ at <= received
  /\ clock' = clock + 1

Acting(m, at, received) == ActiveNow(m) /\ ActiveAt(m, at, received)

Chairing(m, at, received) == m \in Coordinators /\ Acting(m, at, received)

DefineOffice(m, at, received) ==
  /\ Executed(at, received)
  /\ Chairing(m, at, received)
  /\ latest = 0
  /\ latest' = 1
  /\ UNCHANGED <<retired, offices, memberships>>

AmendOffice(m, at, received, prior) ==
  /\ Executed(at, received)
  /\ Chairing(m, at, received)
  /\ latest < MaxVersions
  /\ prior \in 1..latest /\ IsCurrent(prior)
  /\ latest' = latest + 1
  /\ UNCHANGED <<retired, offices, memberships>>

\* Mutant: only the offices held now are in the way.
NobodyLeft_Held(at) == \A n \in nominations : ~Holds(n)

\* Nobody holds the office or is nominated for it, under any version.
NobodyLeft(at) == \A n \in nominations : \E e \in endings : e.of = n.recorded /\ e.at <= at

RetireOffice(m, at, received, prior) ==
  /\ Executed(at, received)
  /\ Chairing(m, at, received)
  /\ ~Permanent
  /\ prior \in 1..latest /\ IsCurrent(prior)
  /\ NobodyLeft(clock)
  /\ retired' = TRUE
  /\ UNCHANGED <<latest, offices, memberships>>

MayNominate(m, nominee, at, received) ==
  \/ Policy = "A"
  \/ Policy = "C" /\ m = nominee
  \/ Chairing(m, at, received)

ProposeAssignment(m, nominee, at, received, version) ==
  /\ Executed(at, received)
  /\ Cardinality(nominations) < MaxNominations
  /\ Acting(m, at, received) /\ LockedHeadsMatch(m, at, received)
  /\ ActiveAt(nominee, at, received) /\ ActiveNow(nominee)
  /\ MayNominate(m, nominee, at, received)
  /\ IsCurrent(version)
  /\ nominations' = nominations \union
       {[nominee |-> nominee, proposer |-> m, version |-> version, at |-> at, recorded |-> clock]}
  /\ UNCHANGED <<definition, consents, appointments, endings, memberships>>

\* What may follow a nominee's last answer, if there is one among these.
MayAnswer(n, action, answers) ==
  IF answers = {} THEN action \in (IF SelfProposed(n) THEN {"WITHDRAW"} ELSE {"CONSENT", "DECLINE"})
  ELSE /\ ~SelfProposed(n) /\ action = "WITHDRAW"
       /\ \E c \in answers : IsLatest(c, answers) /\ c.action = "CONSENT"

\* The guard goes by every answer there is, and by any appointment.
ConsentGuard(n, action) ==
  ~Appointed(n) /\ MayAnswer(n, action, {c \in consents : c.of = n.recorded})

AnswerNomination(n, at, received, action) ==
  /\ Executed(at, received)
  /\ Acting(n.nominee, at, received)
  /\ Proposed(n, at, received)
  /\ \A a \in Known(appointments, received) : a.of = n.recorded => a.at > at
  /\ MayAnswer(n, action, ConsentsBy(n, at, received))
  /\ action = "CONSENT" => IsCurrent(n.version)
  /\ SamePeriod(n)
  /\ ConsentGuard(n, action)
  /\ consents' = consents \union {[of |-> n.recorded, action |-> action, at |-> at, recorded |-> clock]}
  /\ UNCHANGED <<definition, nominations, appointments, endings, memberships>>

\* Cached, or by the fold as of the appointment's own date.
OfficeAlreadyHeld(n, at) == \E o \in nominations \ {n} :
  o.nominee = n.nominee /\ (Holds(o) \/ HeldAt(o, at, clock))

\* Mutant: the consent the authority found is not looked for again.
ConsentVerified_Trusted(n, at, received) == Consented(n, at, received)

\* The authority goes by the knowledge of the receipt, the service and the
\* guard by that of the execution, and both have to find the same consent.
ConsentVerified(n, at, received) ==
  /\ Consented(n, at, received) /\ Consented(n, at, clock)
  /\ SameConsent(n, at, received)

\* Mutant: it is enough to be a member, in whatever period.
AssignGuard_AnyPeriod(n, at) ==
  ActiveAt(n.nominee, clock, clock) /\ ActiveAt(n.nominee, at, clock)

\* s015_r4s2_assign_membership_current
AssignGuard(n, at) ==
  /\ ActiveAt(n.nominee, clock, clock) /\ ActiveAt(n.nominee, at, clock)
  /\ SamePeriod(n)

Assign(m, n, at, received) ==
  /\ Executed(at, received)
  /\ Chairing(m, at, received) /\ LockedHeadsMatch(m, at, received)
  /\ Proposed(n, at, received) /\ ActiveAt(n.nominee, at, received)
  /\ ~Appointed(n)
  /\ ActiveNow(n.nominee)
  /\ ConsentVerified(n, at, received)
  /\ IsCurrent(n.version) /\ ~OfficeAlreadyHeld(n, at)
  /\ AssignGuard(n, at)
  /\ appointments' = appointments \union {[of |-> n.recorded, at |-> at, recorded |-> clock]}
  /\ UNCHANGED <<definition, nominations, consents, endings, memberships>>

\* The holder resigns, or a Coordinator ends or reassigns the office.
EndOffice(m, n, at, received) ==
  /\ Executed(at, received)
  /\ Acting(m, at, received) /\ m \in Coordinators \union {n.nominee}
  /\ LockedHeadsMatch(m, at, received)
  /\ HeldAt(n, at, received) /\ ~Ended(n)
  /\ ActiveAt(n.nominee, at, received)
  /\ endings' = endings \union {[of |-> n.recorded, at |-> at, recorded |-> clock]}
  /\ UNCHANGED <<definition, nominations, consents, appointments, memberships>>

\* The heads of all the member's assignments are known and dated by then.
HeadsKnown(m, at, received) == \A n \in nominations : n.nominee = m =>
  /\ Proposed(n, at, received)
  /\ \A h \in appointments \union endings : h.of = n.recorded => h.at <= at /\ h.recorded <= received

\* Every office the member holds now, as read under its lock.
OfficesEnded(m, at) ==
  {[of |-> n.recorded, at |-> at, recorded |-> clock] :
     n \in {held \in nominations : held.nominee = m /\ Holds(held)}}

\* The member's present period is the one there was at the date, as known.
PresentPeriod(m, at, received) ==
  \A d \in departures : d.member = m => Returned(d, at, received)

LeaveOrganism(m, at, received) ==
  /\ Executed(at, received)
  /\ m \notin Coordinators
  /\ PresentPeriod(m, at, received) /\ HeadsKnown(m, at, received)
  /\ departures' = departures \union {[member |-> m, at |-> at, recorded |-> clock]}
  /\ endings' = endings \union OfficesEnded(m, at)
  /\ UNCHANGED <<definition, nominations, consents, appointments, rejoinings>>

\* What is left from the period that ended: nothing held, and nominations
\* only that were made before.
PeriodClosed(m, d) == \A n \in nominations : n.nominee = m =>
  Ended(n) \/ (~Appointed(n) /\ n.recorded < d.recorded /\ n.at <= d.at)

\* A new application, dated and received after the ending it follows, is
\* accepted.
Rejoin(d, at, received) ==
  /\ Executed(at, received)
  /\ ~ActiveNow(d.member) /\ \A r \in rejoinings : r.of # d.recorded
  /\ d.at < at /\ d.recorded <= received
  /\ PeriodClosed(d.member, d)
  /\ rejoinings' = rejoinings \union {[of |-> d.recorded, at |-> at, recorded |-> clock]}
  /\ UNCHANGED <<definition, offices, departures>>

Next == \E at \in Dates, received \in Time :
  \/ \E d \in departures : Rejoin(d, at, received)
  \/ \E m \in Members :
       \/ DefineOffice(m, at, received)
       \/ \E prior \in 1..MaxVersions : AmendOffice(m, at, received, prior)
       \/ \E prior \in 1..MaxVersions : RetireOffice(m, at, received, prior)
       \/ \E nominee \in Members, version \in 1..MaxVersions :
            ProposeAssignment(m, nominee, at, received, version)
       \/ \E n \in nominations : Assign(m, n, at, received)
       \/ \E n \in nominations : EndOffice(m, n, at, received)
       \/ LeaveOrganism(m, at, received)
  \/ \E n \in nominations, action \in {"CONSENT", "DECLINE", "WITHDRAW"} :
       AnswerNomination(n, at, received, action)

Spec == Init /\ [][Next]_vars

-----------------------------------------------------------------------------
TypeOK ==
  /\ clock \in Time \union {1}
  /\ latest \in Nat /\ retired \in BOOLEAN
  /\ nominations \subseteq Nomination
  /\ consents \subseteq Consent
  /\ appointments \subseteq Holding
  /\ endings \subseteq Holding
  /\ departures \subseteq Departure
  /\ rejoinings \subseteq Holding

\* Whoever is appointed had consented as of the appointment's date, by all
\* the answers there will ever be, however consents, withdrawals and the
\* appointment were received, dated and executed.
HeldByConsent == \A a \in appointments : \E n \in nominations :
  n.recorded = a.of /\ Consented(n, a.at, clock)

\* An office held by somebody who was not a member then was given after they
\* had returned, as of a date before they left; there is no other way.
OutlivesByReturnOnly == \A n \in nominations, t \in Time :
  HeldAt(n, t, clock) /\ ~ActiveAt(n.nominee, t, clock) =>
    \E a \in appointments, d \in departures :
      /\ a.of = n.recorded /\ d.member = n.nominee /\ d.recorded < n.recorded
      /\ a.at < d.at /\ d.at <= t

\* Of an office that was retired nothing is open: nobody holds it, and no
\* nomination made before the retirement can still become an appointment.
RetiredIsUnheld == retired => \A n \in nominations : Ended(n)

\* "they already hold this office ... A fresh appointment can be made after
\* the current one ends."  It does not hold: an appointment as of a date
\* before a holding that is over already runs through it.
OneHoldingAtATime == \A n, o \in nominations, t \in Time :
  n # o /\ n.nominee = o.nominee => ~(HeldAt(n, t, clock) /\ HeldAt(o, t, clock))

\* It is the only way: of two appointments of one person in force at the same
\* time, the later one is dated before the earlier one, which was over by then.
OverlapIsBackdated == \A n, o \in nominations, a, b \in appointments, t \in Time :
  (/\ n # o /\ n.nominee = o.nominee
   /\ a.of = n.recorded /\ b.of = o.recorded /\ a.recorded < b.recorded
   /\ HeldAt(n, t, clock) /\ HeldAt(o, t, clock))
    => b.at < a.at /\ \E e \in endings : e.of = n.recorded /\ e.recorded < b.recorded

\* "an office requires a current membership".  It does not hold: a member
\* who rejoined is appointed as of a date in the period before.
HeldWhileMember == \A n \in nominations, t \in Time :
  HeldAt(n, t, clock) => ActiveAt(n.nominee, t, clock)

\* "This nomination is closed."  It does not hold: as of a date before the
\* withdrawal the appointment is still made.
ClosedStaysClosed == \A a \in appointments, c \in consents :
  a.of = c.of /\ c.recorded < a.recorded => c.action = "CONSENT"

\* It is the only way: whoever declined or withdrew is appointed, before or
\* after, as of a date before that answer only.
ClosedByDateOnly == \A a \in appointments, c \in consents :
  a.of = c.of /\ c.action # "CONSENT" => a.at < c.at

\* Who was a member, who had consented and who held the office as of any time,
\* by what was known at a time that has passed, is not told otherwise later:
\* what a command is judged by does not depend on when it is executed.
ReadingsStay == [][\A n \in nominations, at, known \in Time : known < clock =>
  /\ HeldAt(n, at, known)' <=> HeldAt(n, at, known)
  /\ Consented(n, at, known)' <=> Consented(n, at, known)
  /\ ActiveAt(n.nominee, at, known)' <=> ActiveAt(n.nominee, at, known)]_vars
=============================================================================
