--------------------------- MODULE GovernanceSeats ---------------------------
(***************************************************************************)
(* The Governance Circle of one Living Organism: the arrangement and its   *)
(* versions, requests for seats, decisions about them, participations, and *)
(* the departure of members, which ends their participations.              *)
(*                                                                         *)
(* Every command is received first, at a time that stays its own, and      *)
(* executed later, holding the organism's row.  It acts as of a time not   *)
(* later than its receipt, and the services judge it by what had been      *)
(* recorded when it was received; the database's guards judge what is      *)
(* inserted by what is recorded when it is inserted.  Executions follow    *)
(* each other, so each has the clock for itself and the time a row was     *)
(* recorded identifies it.                                                 *)
(*                                                                         *)
(* Left out, since they may only refuse: the configuration switch, the     *)
(* organism's capacity, the eligibility and route named in a seat's body,  *)
(* the seat's own start.  The Circle exists and stays dormant.             *)
(***************************************************************************)
EXTENDS Naturals, Sequences, FiniteSets

CONSTANTS
  Members,       \* the memberships, active from the start
  Founder,       \* the member who founded the organism
  Coordinators,  \* those who hold its Coordinator office while members
  Seats,         \* seat identifiers
  Arrangements,  \* the sets of seats that versions are made of
  Dates,         \* times as of which commands act and versions take effect
  LastTime,      \* bound on the clock
  MaxVersions,   \* bound on the versions
  MaxRequests    \* bound on the requests

ASSUME MembersAssumption == Founder \in Members /\ Coordinators \subseteq Members
ASSUME ArrangementsAssumption == Seats \in Arrangements /\ Arrangements \subseteq SUBSET Seats \ {{}}
ASSUME TimeAssumption == LastTime \in Nat /\ Dates \subseteq 0..LastTime
ASSUME BoundAssumption == MaxVersions \in Nat /\ MaxRequests \in Nat

Time == 0..LastTime

Version == [seats : Arrangements, from : Time, received : Time, recorded : Time]
Request == [seat : Seats, member : Members, at : Time, received : Time, recorded : Time]
Decision == [request : Time, outcome : {"ACCEPT", "DECLINE"}]
Participation == [seat : Seats, member : Members, from : Time, recorded : Time]
Ending == [of : Time, at : Time, recorded : Time]
Departure == [member : Members, at : Time, recorded : Time]
BirthEvent == [at : Time, recorded : Time]

VARIABLES
  clock,           \* clock_timestamp()
  versions,        \* GOVERNANCE_CONSTITUTION, by version number
  birth,           \* the organism's BIRTHING event
  requests,
  decisions,
  participations,
  endings,
  departures       \* the memberships' transitions to ENDED

vars == <<clock, versions, birth, requests, decisions, participations, endings, departures>>

\* A founded organism whose founder adopted a first arrangement of all its
\* seats, born already or not.
Init ==
  /\ clock = 1
  /\ versions = <<[seats |-> Seats, from |-> 0, received |-> 0, recorded |-> 0]>>
  /\ birth \in {{}, {[at |-> 0, recorded |-> 0]}}
  /\ requests = {} /\ decisions = {} /\ participations = {}
  /\ endings = {} /\ departures = {}

-----------------------------------------------------------------------------
Known(rows, known) == {row \in rows : row.recorded <= known}

\* Mutant: the day of leaving is still a day of membership.
ActiveAt_LastDay(m, at, known) ==
  \A d \in Known(departures, known) : d.member = m => d.at >= at

\* s015_fold_effective_state of a membership.
ActiveAt(m, at, known) ==
  \A d \in Known(departures, known) : d.member = m => d.at > at

\* The stored state of the membership, read under its lock.
ActiveNow(m) == \A d \in departures : d.member # m

CoordinatorAt(m, at, known) == m \in Coordinators /\ ActiveAt(m, at, known)

BornAt(at, known) == \E b \in Known(birth, known) : b.at <= at

\* order_by("-effective_from", "-recorded_at", "-version").first()
InForce(i, at, known) ==
  /\ versions[i].from <= at /\ versions[i].recorded <= known
  /\ \A j \in DOMAIN versions :
       versions[j].from <= at /\ versions[j].recorded <= known =>
         \/ versions[j].from < versions[i].from
         \/ versions[j].from = versions[i].from /\ j <= i

SeatStands(i, s, at, known) ==
  /\ InForce(i, at, known)
  /\ s \in versions[i].seats
  /\ \A j \in DOMAIN versions :
       versions[j].from > at /\ versions[j].recorded <= known => s \in versions[j].seats

\* Mutant: an ending counts from the moment it is recorded, whatever its date.
Over_Recorded(p, at, known) == \E e \in Known(endings, known) : e.of = p.recorded

Over(p, at, known) ==
  \E e \in Known(endings, known) : e.of = p.recorded /\ e.at <= at

\* Mutant: only the seat is looked at, and a person may have two.
Free_Seat(s, m, at, known) ==
  \A p \in Known(participations, known) : p.seat = s => Over(p, at, known)

\* Neither the seat nor the person is taken, whenever the other term began.
Free(s, m, at, known) ==
  \A p \in Known(participations, known) :
    p.seat = s \/ p.member = m => Over(p, at, known)

-----------------------------------------------------------------------------
\* A command received at received, acting as of at, is executed now.
Executed(at, received) ==
  /\ clock < LastTime
  /\ received <= clock /\ at <= received
  /\ clock' = clock + 1

Birthing(m, at, received) ==
  /\ Executed(at, received)
  /\ birth = {} /\ ActiveNow(m) /\ CoordinatorAt(m, at, received)
  /\ birth' = {[at |-> at, recorded |-> clock]}
  /\ UNCHANGED <<versions, requests, decisions, participations, endings, departures>>

\* Mutant: any ending of the holder will do.
HeldSeatsKept_Any(seats, from, received) ==
  \A p \in Known(participations, received) :
    p.seat \in seats \/ \E e \in endings : e.of = p.recorded

\* Every seat held, as far as was known at receipt, is kept or over by then.
HeldSeatsKept(seats, from, received) ==
  \A p \in Known(participations, received) :
    p.seat \in seats \/ Over(p, from, received)

MayAdopt(m, at, received) ==
  /\ ActiveNow(m)
  /\ IF BornAt(at, received) THEN CoordinatorAt(m, at, received) ELSE m = Founder

\* A body this release can record: seats, each named once.
ValidBody(seats) == seats \in Arrangements

\* The number that follows the latest version known at receipt.
NextNumber(received) ==
  Cardinality({i \in DOMAIN versions : versions[i].recorded <= received}) + 1

\* The database accepts the number after the latest there is, and no version
\* in effect before it was decided.
RuleGuard(number, at, from) == number = Len(versions) + 1 /\ at <= from

\* The version's source was told by the knowledge of its receipt, and has to
\* be the one the birth tells when it is recorded.
SourceGuard(at, received) == BornAt(at, received) = BornAt(at, clock)

AdoptArrangement(m, at, received, from, seats) ==
  /\ Executed(at, received)
  /\ Len(versions) < MaxVersions
  /\ MayAdopt(m, at, received)
  /\ ValidBody(seats) /\ HeldSeatsKept(seats, from, received)
  /\ RuleGuard(NextNumber(received), at, from) /\ SourceGuard(at, received)
  /\ versions' = Append(versions, [seats |-> seats, from |-> from,
                                   received |-> received, recorded |-> clock])
  /\ UNCHANGED <<birth, requests, decisions, participations, endings, departures>>

RequestGuard(m, s, at) ==
  /\ ActiveAt(m, at, clock)
  /\ \E i \in DOMAIN versions : InForce(i, at, clock) /\ s \in versions[i].seats

\* A request is a command of its own or the first stage of a compound one,
\* whose second stage decides it as of the same receipt.  Of the others the
\* receipt does not matter once they are recorded, nor of a compound one
\* whose sender may not decide.
RequestSeat(m, s, at, received, compound) ==
  /\ Executed(at, received)
  /\ Cardinality(requests) < MaxRequests
  /\ compound => m \in Coordinators \union {Founder}
  /\ ActiveNow(m) /\ ActiveAt(m, at, received)
  /\ \E i \in DOMAIN versions : SeatStands(i, s, at, received)
  /\ RequestGuard(m, s, at)
  /\ requests' = requests \union {[seat |-> s, member |-> m, at |-> at,
                                   received |-> IF compound THEN received ELSE clock,
                                   recorded |-> clock]}
  /\ UNCHANGED <<versions, birth, decisions, participations, endings, departures>>

\* The first stage of the same command, which was recorded after its receipt.
SameStage(m, r, at, received) == r.member = m /\ r.at = at /\ r.received = received

RequestMatches(m, r, at, received) ==
  r.at <= at /\ (r.recorded <= received \/ SameStage(m, r, at, received))

\* Until the organism is born its founder seats themselves, and no one else.
FoundingAuthority(m, r, at, received) ==
  /\ ~BornAt(at, received)
  /\ m = Founder /\ r.member = m /\ ActiveAt(m, at, received)

\* Then whoever is Coordinator decides.
ConstitutionalAuthority(m, at, received) ==
  BornAt(at, received) /\ CoordinatorAt(m, at, received)

\* What the founding route looks at, with the knowledge of the receipt.
FoundingSeating(r, at, received) ==
  /\ ActiveAt(r.member, at, received)
  /\ \E i \in DOMAIN versions : SeatStands(i, r.seat, at, received)
  /\ Free(r.seat, r.member, at, received)

\* The constitutional route looks at the occupants only to accept.
ConstitutionalSeating(r, at, received, outcome) ==
  /\ ActiveAt(r.member, at, received)
  /\ \E i \in DOMAIN versions : SeatStands(i, r.seat, at, received)
  /\ outcome = "ACCEPT" => Free(r.seat, r.member, at, received)

\* The version the service names is in force as of what is recorded now.
DecisionGuard(r, at, received) == \E i \in DOMAIN versions :
  InForce(i, at, received) /\ InForce(i, at, clock) /\ r.seat \in versions[i].seats

\* What the deferred guard of a participation looks at, as of what is
\* recorded by the end of its transaction.
OccupancyGuard(r, at) ==
  /\ ActiveAt(r.member, at, clock)
  /\ \E i \in DOMAIN versions : SeatStands(i, r.seat, at, clock)
  /\ Free(r.seat, r.member, at, clock)

Taken(r, at) == [seat |-> r.seat, member |-> r.member, from |-> at, recorded |-> clock]

DecideSeat(m, r, at, received, outcome) ==
  /\ Executed(at, received)
  /\ ActiveNow(m) /\ RequestMatches(m, r, at, received)
  /\ \/ FoundingAuthority(m, r, at, received) /\ FoundingSeating(r, at, received)
     \/ /\ ConstitutionalAuthority(m, at, received)
        /\ ConstitutionalSeating(r, at, received, outcome)
  /\ DecisionGuard(r, at, received)
  /\ \A d \in decisions : d.request # r.recorded
  /\ decisions' = decisions \union {[request |-> r.recorded, outcome |-> outcome]}
  /\ IF outcome = "ACCEPT"
     THEN /\ OccupancyGuard(r, at)
          /\ participations' = participations \union {Taken(r, at)}
     ELSE UNCHANGED participations
  /\ UNCHANGED <<versions, birth, requests, endings, departures>>

Continuing(m, at, known) == \E o \in Members \ {m} : ActiveAt(o, at, known)

\* The coverage assessment last published, by every departure among others.
IsRoster(d, at, known) ==
  /\ d \in Known(departures, known) /\ d.at <= at
  /\ \A o \in Known(departures, known) : o.at <= at =>
       o.at < d.at \/ (o.at = d.at /\ o.recorded <= d.recorded)

SameRoster(at, received) ==
  \A d \in departures : IsRoster(d, at, received) <=> IsRoster(d, clock, clock)

\* No participation starts after the departure, whether it is over or not.
NothingLater(m, at) == \A p \in participations : p.member = m => p.from <= at

\* The endings a departure composes: of what began by then and has none.
Composed(m, at) ==
  {[of |-> p.recorded, at |-> at, recorded |-> clock] :
     p \in {q \in participations : /\ q.member = m /\ q.from <= at
                                   /\ \A e \in endings : e.of # q.recorded}}

\* The deferred guard of the transition: nothing of the member's is open.
EndCompleteness(m, at, ends) == \A p \in participations : p.member = m =>
  p.from <= at /\ \E e \in ends : e.of = p.recorded /\ e.at <= at

LeaveOrganism(m, at, received) ==
  /\ Executed(at, received)
  /\ ActiveNow(m) /\ NothingLater(m, at)
  /\ Continuing(m, at, received) = Continuing(m, clock, clock)
  /\ IF Continuing(m, clock, clock) THEN SameRoster(at, received)
     ELSE \A d \in departures : d.at <= at
  /\ departures' = departures \union
       {[member |-> m, at |-> at, recorded |-> clock]}
  /\ endings' = endings \union Composed(m, at)
  /\ EndCompleteness(m, at, endings \union Composed(m, at))
  /\ UNCHANGED <<versions, birth, requests, decisions, participations>>

Next == \E m \in Members, at \in Dates, received \in Time :
  \/ Birthing(m, at, received)
  \/ \E from \in Dates, seats \in SUBSET Seats : AdoptArrangement(m, at, received, from, seats)
  \/ \E s \in Seats, compound \in BOOLEAN : RequestSeat(m, s, at, received, compound)
  \/ \E r \in requests, outcome \in {"ACCEPT", "DECLINE"} :
       DecideSeat(m, r, at, received, outcome)
  \/ LeaveOrganism(m, at, received)

Spec == Init /\ [][Next]_vars

-----------------------------------------------------------------------------
TypeOK ==
  /\ clock \in Time \union {1}
  /\ versions \in Seq(Version)
  /\ birth \subseteq BirthEvent
  /\ requests \subseteq Request
  /\ decisions \subseteq Decision
  /\ participations \subseteq Participation
  /\ endings \subseteq Ending
  /\ departures \subseteq Departure

OverEver(p, at) == \E e \in endings : e.of = p.recorded /\ e.at <= at

\* Two terms of one seat, or of one person, never overlap, whichever of the
\* decisions was received, dated or executed first: decisions are judged by
\* what was known at receipt, and only the deferred guard sees the rest.
TermsApart == \A p, q \in participations :
  p # q /\ (p.seat = q.seat \/ p.member = q.member) =>
    OverEver(p, q.from) \/ OverEver(q, p.from)

\* No term begins after its member's departure, in whatever order the two
\* were received and executed.
SeatedWhileMember == \A p \in participations, d \in departures :
  p.member = d.member => p.from <= d.at

\* A departed member's participation without an ending was decided before the
\* departure took effect and executed after it; there is no other way.
StrayIsLate == \A p \in participations, d \in departures :
  p.member = d.member /\ ~OverEver(p, d.at) =>
    p.from < d.at /\ d.recorded < p.recorded

\* A version that takes away a seat still held was received before the seat
\* was taken and executed after it; there is no other way.
DroppedUnseen == \A p \in participations : \A i \in DOMAIN versions :
  LET v == versions[i] IN
    /\ p.seat \notin v.seats /\ ~OverEver(p, v.from)
    /\ v.from > p.from \/ v.recorded > p.recorded
    => v.received < p.recorded /\ p.recorded < v.recorded

\* Every version was received by when the one before it was recorded: nobody
\* replaces an arrangement they could not have seen.
AdoptedInTurn == \A i, j \in DOMAIN versions :
  i < j => versions[i].recorded <= versions[j].received

\* A term ends once, and not before it began, in whatever order departures and
\* decisions were received, dated and executed.
TermsEndOnce ==
  /\ \A e, f \in endings : e.of = f.of => e = f
  /\ \A p \in participations, e \in endings : e.of = p.recorded => p.from <= e.at

\* Whoever is seated had asked for this seat, as of a time not after the term's
\* beginning and on record before it, and was accepted on that request.
SeatedByRequest == \A p \in participations : \E r \in requests :
  /\ r.seat = p.seat /\ r.member = p.member
  /\ r.at <= p.from /\ r.recorded < p.recorded
  /\ [request |-> r.recorded, outcome |-> "ACCEPT"] \in decisions

\* Membership, the arrangement in force and who sits in it, by what was known at
\* a time that has passed, are never told otherwise later: what a decision is
\* judged by does not depend on when it is executed.
SeatReadingsStay == [][\A s \in Seats, m \in Members, at, known \in Time : known < clock =>
  /\ ActiveAt(m, at, known)' <=> ActiveAt(m, at, known)
  /\ Free(s, m, at, known)' <=> Free(s, m, at, known)
  /\ \A i \in DOMAIN versions :
       SeatStands(i, s, at, known)' <=> SeatStands(i, s, at, known)]_vars

\* A departure ends the member's part in every Circle
\* (U3_MEMBERSHIP_END_ENDS_CIRCLE_PARTICIPATION).  It does not hold: a seat
\* decided as of a time before the departure and executed after it is kept
\* for ever by somebody who has left.
DepartureEndsSeats == \A p \in participations, d \in departures :
  p.member = d.member => OverEver(p, d.at)

\* "a held seat cannot be removed by a new version".  It does not hold: an
\* adoption received before the seat was taken does not see its holder.
HeldSeatRemains == \A p \in participations : \A i \in DOMAIN versions :
  versions[i].recorded > p.recorded /\ ~OverEver(p, versions[i].from) =>
    p.seat \in versions[i].seats

TermOf(p) == [id |-> p.recorded, seat |-> p.seat, member |-> p.member, from |-> p.from]
ClosingOf(e) == [of |-> e.of, at |-> e.at]

Terms == {TermOf(p) : p \in participations}
Closed == {ClosingOf(e) : e \in endings}

Promise == INSTANCE SeatPromise WITH Times <- Time, terms <- Terms, closed <- Closed

\* Every step of the organism is a step of its promise, or none.
PromiseKept == Promise!Spec
=============================================================================
