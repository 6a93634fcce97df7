------------------------ MODULE GovernanceSeatsProofs ------------------------
(***************************************************************************)
(* Proofs about GovernanceSeats.  What carries them is Ledger: every row   *)
(* was recorded before now, participations are told apart by the time they *)
(* were recorded, and an ending is composed by a departure of the holder   *)
(* at the departure's own date.                                            *)
(***************************************************************************)
EXTENDS GovernanceSeats, FiniteSetTheorems, TLAPS

Past ==
  /\ \A p \in participations : p.recorded < clock
  /\ \A d \in departures : d.recorded < clock
  /\ \A i \in DOMAIN versions : versions[i].recorded < clock

ToldApart == \A p, q \in participations : p.recorded = q.recorded => p = q

ComposedByDeparture == \A e \in endings :
  \E p \in participations : /\ p.recorded = e.of
                            /\ \E d \in departures : d.member = p.member /\ d.at = e.at

Ledger == TypeOK /\ Past /\ ToldApart /\ ComposedByDeparture

IInv == Ledger /\ TermsApart /\ SeatedWhileMember /\ StrayIsLate /\ DroppedUnseen

-----------------------------------------------------------------------------
(* The steps, as seen by the rows they write.  *)

\* The rows that a command does not write stay.
Quiet == UNCHANGED <<versions, participations, endings, departures>>

LEMMA Cases ==
  ASSUME Next
  PROVE  \E m \in Members, at \in Dates, received \in Time :
           /\ Executed(at, received)
           /\ \/ Birthing(m, at, received)
              \/ \E from \in Dates, seats \in SUBSET Seats :
                   AdoptArrangement(m, at, received, from, seats)
              \/ \E s \in Seats, compound \in BOOLEAN :
                   RequestSeat(m, s, at, received, compound)
              \/ \E r \in requests, outcome \in {"ACCEPT", "DECLINE"} :
                   DecideSeat(m, r, at, received, outcome)
              \/ LeaveOrganism(m, at, received)
  <1>1. PICK m \in Members, at \in Dates, received \in Time :
          \/ Birthing(m, at, received)
          \/ \E from \in Dates, seats \in SUBSET Seats :
               AdoptArrangement(m, at, received, from, seats)
          \/ \E s \in Seats, compound \in BOOLEAN :
               RequestSeat(m, s, at, received, compound)
          \/ \E r \in requests, outcome \in {"ACCEPT", "DECLINE"} :
               DecideSeat(m, r, at, received, outcome)
          \/ LeaveOrganism(m, at, received)
    BY DEF Next
  <1>2. Birthing(m, at, received) => Executed(at, received) BY DEF Birthing
  <1>3. \A from \in Dates, seats \in SUBSET Seats :
          AdoptArrangement(m, at, received, from, seats) => Executed(at, received)
    BY DEF AdoptArrangement
  <1>4. \A s \in Seats, compound \in BOOLEAN :
          RequestSeat(m, s, at, received, compound) => Executed(at, received)
    BY DEF RequestSeat
  <1>5. \A r \in requests, outcome \in {"ACCEPT", "DECLINE"} :
          DecideSeat(m, r, at, received, outcome) => Executed(at, received)
    BY DEF DecideSeat
  <1>6. LeaveOrganism(m, at, received) => Executed(at, received) BY DEF LeaveOrganism
  <1>7. Executed(at, received) BY <1>1, <1>2, <1>3, <1>4, <1>5, <1>6
  <1> QED BY <1>1, <1>7

LEMMA Clock ==
  ASSUME TypeOK, NEW at \in Dates, NEW received \in Time, Executed(at, received)
  PROVE  /\ clock \in Nat /\ clock \in Time /\ clock < LastTime
         /\ clock' = clock + 1 /\ clock' \in Time
         /\ at \in Time /\ at <= received /\ received <= clock
  BY TimeAssumption DEF TypeOK, Executed, Time

-----------------------------------------------------------------------------
LEMMA TypeInit == ASSUME Init PROVE TypeOK
  <1>1. [seats |-> Seats, from |-> 0, received |-> 0, recorded |-> 0] \in Version
    BY ArrangementsAssumption, TimeAssumption DEF Version, Time
  <1>2. birth \subseteq BirthEvent
    BY TimeAssumption DEF Init, BirthEvent, Time
  <1> QED BY <1>1, <1>2 DEF Init, TypeOK

LEMMA TypeStep == ASSUME TypeOK, Next PROVE TypeOK'
  <1>1. PICK m \in Members, at \in Dates, received \in Time :
          /\ Executed(at, received)
          /\ \/ Birthing(m, at, received)
             \/ \E from \in Dates, seats \in SUBSET Seats :
                  AdoptArrangement(m, at, received, from, seats)
             \/ \E s \in Seats, compound \in BOOLEAN :
                  RequestSeat(m, s, at, received, compound)
             \/ \E r \in requests, outcome \in {"ACCEPT", "DECLINE"} :
                  DecideSeat(m, r, at, received, outcome)
             \/ LeaveOrganism(m, at, received)
    BY Cases
  <1>c. /\ clock \in Nat /\ clock \in Time /\ clock' \in Time /\ at \in Time
    BY <1>1, Clock
  <1>2. CASE Birthing(m, at, received)
    <2>1. birth' \subseteq BirthEvent BY <1>2, <1>c DEF Birthing, BirthEvent
    <2> QED BY <1>2, <1>c, <2>1 DEF Birthing, TypeOK
  <1>3. ASSUME NEW from \in Dates, NEW seats \in SUBSET Seats,
               AdoptArrangement(m, at, received, from, seats)
        PROVE  TypeOK'
    <2>0. seats \in Arrangements BY <1>3 DEF AdoptArrangement, ValidBody
    <2>1. [seats |-> seats, from |-> from, received |-> received, recorded |-> clock]
            \in Version
      BY <1>c, <2>0, TimeAssumption DEF Version, Time
    <2>2. versions' \in Seq(Version) BY <1>3, <2>1 DEF AdoptArrangement, TypeOK
    <2> QED BY <1>3, <1>c, <2>2 DEF AdoptArrangement, TypeOK
  <1>4. ASSUME NEW s \in Seats, NEW compound \in BOOLEAN,
               RequestSeat(m, s, at, received, compound)
        PROVE  TypeOK'
    <2> DEFINE stage == IF compound THEN received ELSE clock
    <2>1. stage \in Time BY <1>c
    <2> HIDE DEF stage
    <2>2. [seat |-> s, member |-> m, at |-> at, received |-> stage, recorded |-> clock]
            \in Request
      BY <1>c, <2>1 DEF Request
    <2>3. requests' = requests \union {[seat |-> s, member |-> m, at |-> at,
                                        received |-> stage, recorded |-> clock]}
      BY <1>4 DEF RequestSeat, stage
    <2> QED BY <1>4, <1>c, <2>2, <2>3 DEF RequestSeat, TypeOK
  <1>5. ASSUME NEW r \in requests, NEW outcome \in {"ACCEPT", "DECLINE"},
               DecideSeat(m, r, at, received, outcome)
        PROVE  TypeOK'
    <2>1. r \in Request BY DEF TypeOK
    <2>2. [request |-> r.recorded, outcome |-> outcome] \in Decision
      BY <2>1 DEF Request, Decision
    <2>3. [seat |-> r.seat, member |-> r.member, from |-> at, recorded |-> clock]
            \in Participation
      BY <2>1, <1>c DEF Request, Participation
    <2>4. participations' \subseteq Participation
      BY <1>5, <2>3 DEF DecideSeat, TypeOK, Taken
    <2> QED BY <1>5, <1>c, <2>2, <2>4 DEF DecideSeat, TypeOK
  <1>6. CASE LeaveOrganism(m, at, received)
    <2>1. Composed(m, at) \subseteq Ending
      BY <1>c DEF Composed, Ending, TypeOK, Participation
    <2>2. [member |-> m, at |-> at, recorded |-> clock] \in Departure
      BY <1>c DEF Departure
    <2> QED BY <1>6, <1>c, <2>1, <2>2 DEF LeaveOrganism, TypeOK
  <1> QED BY <1>1, <1>2, <1>3, <1>4, <1>5, <1>6

-----------------------------------------------------------------------------
(* The actions, reduced to what the invariants look at. *)

LEMMA Effects ==
  ASSUME TypeOK, Next
  PROVE  /\ clock \in Nat /\ clock' = clock + 1
         /\ \/ Quiet
            \/ \E m \in Members, at \in Dates, received \in Time, from \in Dates,
                  seats \in SUBSET Seats : AdoptArrangement(m, at, received, from, seats)
            \/ \E r \in requests, at \in Dates :
                 /\ OccupancyGuard(r, at)
                 /\ participations' = participations \union {Taken(r, at)}
                 /\ UNCHANGED <<versions, endings, departures>>
            \/ \E m \in Members, at \in Dates, received \in Time :
                 LeaveOrganism(m, at, received)
  <1>1. PICK m \in Members, at \in Dates, received \in Time :
          /\ Executed(at, received)
          /\ \/ Birthing(m, at, received)
             \/ \E from \in Dates, seats \in SUBSET Seats :
                  AdoptArrangement(m, at, received, from, seats)
             \/ \E s \in Seats, compound \in BOOLEAN :
                  RequestSeat(m, s, at, received, compound)
             \/ \E r \in requests, outcome \in {"ACCEPT", "DECLINE"} :
                  DecideSeat(m, r, at, received, outcome)
             \/ LeaveOrganism(m, at, received)
    BY Cases
  <1>2. clock \in Nat /\ clock' = clock + 1 BY <1>1, Clock
  <1>3. CASE Birthing(m, at, received) BY <1>2, <1>3 DEF Birthing, Quiet
  <1>4. CASE \E from \in Dates, seats \in SUBSET Seats :
               AdoptArrangement(m, at, received, from, seats)
    BY <1>2, <1>4
  <1>5. CASE \E s \in Seats, compound \in BOOLEAN :
               RequestSeat(m, s, at, received, compound)
    BY <1>2, <1>5 DEF RequestSeat, Quiet
  <1>6. ASSUME NEW r \in requests, NEW outcome \in {"ACCEPT", "DECLINE"},
               DecideSeat(m, r, at, received, outcome)
        PROVE  \/ Quiet
               \/ /\ OccupancyGuard(r, at)
                  /\ participations' = participations \union {Taken(r, at)}
                  /\ UNCHANGED <<versions, endings, departures>>
    BY <1>6 DEF DecideSeat, Quiet
  <1>7. CASE LeaveOrganism(m, at, received) BY <1>2, <1>7
  <1> QED BY <1>1, <1>2, <1>3, <1>4, <1>5, <1>6, <1>7

\* A row of versions is an old one or the one appended.
LEMMA VersionsAppend ==
  ASSUME TypeOK, NEW m \in Members, NEW at \in Dates, NEW received \in Time,
         NEW from \in Dates, NEW seats \in SUBSET Seats,
         AdoptArrangement(m, at, received, from, seats),
         NEW i \in DOMAIN versions'
  PROVE  \/ i \in DOMAIN versions /\ versions'[i] = versions[i]
         \/ versions'[i] = [seats |-> seats, from |-> from,
                            received |-> received, recorded |-> clock]
  BY DEF TypeOK, AdoptArrangement

\* An ending stays, so what is over stays over.
LEMMA OverStays ==
  ASSUME TypeOK, Next
  PROVE  /\ endings \subseteq endings'
         /\ \A p, at : OverEver(p, at) => OverEver(p, at)'
  <1>1. endings \subseteq endings'
    <2>1. ASSUME NEW m \in Members, NEW at \in Dates, NEW received \in Time,
                 NEW from \in Dates, NEW seats \in SUBSET Seats,
                 AdoptArrangement(m, at, received, from, seats)
          PROVE  endings' = endings
      BY <2>1 DEF AdoptArrangement
    <2>2. ASSUME NEW m \in Members, NEW at \in Dates, NEW received \in Time,
                 LeaveOrganism(m, at, received)
          PROVE  endings \subseteq endings'
      BY <2>2 DEF LeaveOrganism
    <2> QED BY Effects, <2>1, <2>2 DEF Quiet
  <1> QED BY <1>1 DEF OverEver

-----------------------------------------------------------------------------
LEMMA LedgerInit == ASSUME Init PROVE Ledger
  BY TypeInit DEF Init, Ledger, Past, ToldApart, ComposedByDeparture

\* What a departure's endings say.
LEMMA ComposedRows ==
  ASSUME NEW m, NEW at, NEW e \in Composed(m, at)
  PROVE  /\ e.at = at
         /\ \E p \in participations : p.member = m /\ p.recorded = e.of
  BY DEF Composed

\* Times are numbers.
LEMMA Numbers ==
  ASSUME TypeOK
  PROVE  /\ \A at \in Dates : at \in Nat
         /\ \A p \in participations : p.recorded \in Nat /\ p.from \in Nat
         /\ \A d \in departures : d.recorded \in Nat /\ d.at \in Nat
         /\ \A i \in DOMAIN versions : /\ versions[i].recorded \in Nat
                                       /\ versions[i].from \in Nat
                                       /\ versions[i].received \in Nat
  <1>1. \A at \in Dates : at \in Nat BY TimeAssumption DEF Time
  <1>2. \A p \in participations : p.recorded \in Nat /\ p.from \in Nat
    BY DEF TypeOK, Participation, Time
  <1>3. \A d \in departures : d.recorded \in Nat /\ d.at \in Nat
    BY DEF TypeOK, Departure, Time
  <1>4. \A i \in DOMAIN versions : versions[i] \in Version BY DEF TypeOK
  <1>5. \A i \in DOMAIN versions : /\ versions[i].recorded \in Nat
                                   /\ versions[i].from \in Nat
                                   /\ versions[i].received \in Nat
    BY <1>4 DEF Version, Time
  <1> QED BY <1>1, <1>2, <1>3, <1>5

LEMMA LedgerStep == ASSUME Ledger, Next PROVE Ledger'
  <1>t. TypeOK /\ TypeOK' BY TypeStep DEF Ledger
  <1>0. /\ clock \in Nat /\ clock' = clock + 1
        /\ \/ Quiet
           \/ \E m \in Members, at \in Dates, received \in Time, from \in Dates,
                 seats \in SUBSET Seats : AdoptArrangement(m, at, received, from, seats)
           \/ \E r \in requests, at \in Dates :
                /\ OccupancyGuard(r, at)
                /\ participations' = participations \union {Taken(r, at)}
                /\ UNCHANGED <<versions, endings, departures>>
           \/ \E m \in Members, at \in Dates, received \in Time :
                LeaveOrganism(m, at, received)
    BY <1>t, Effects
  <1>n. /\ \A p \in participations : p.recorded \in Nat
        /\ \A d \in departures : d.recorded \in Nat
        /\ \A i \in DOMAIN versions : versions[i].recorded \in Nat
    BY <1>t, Numbers
  <1>1. CASE Quiet
    BY <1>1, <1>0, <1>n, <1>t DEF Quiet, Ledger, Past, ToldApart, ComposedByDeparture
  <1>2. ASSUME NEW m \in Members, NEW at \in Dates, NEW received \in Time,
               NEW from \in Dates, NEW seats \in SUBSET Seats,
               AdoptArrangement(m, at, received, from, seats)
        PROVE  Ledger'
    <2>1. UNCHANGED <<participations, endings, departures>>
      BY <1>2 DEF AdoptArrangement
    <2>2. \A i \in DOMAIN versions' : versions'[i].recorded < clock'
      <3>1. SUFFICES ASSUME NEW i \in DOMAIN versions'
                     PROVE  versions'[i].recorded < clock'
        OBVIOUS
      <3> QED BY <1>2, VersionsAppend, <1>0, <1>n, <1>t DEF Ledger, Past
    <2>3. Past' BY <2>1, <2>2, <1>0, <1>n DEF Ledger, Past
    <2> QED BY <1>t, <2>1, <2>3 DEF Ledger, ToldApart, ComposedByDeparture
  <1>3. ASSUME NEW r \in requests, NEW at \in Dates,
               participations' = participations \union {Taken(r, at)},
               UNCHANGED <<versions, endings, departures>>
        PROVE  Ledger'
    <2>1. Taken(r, at).recorded = clock BY DEF Taken
    <2>2. Past' BY <1>3, <2>1, <1>0, <1>n DEF Ledger, Past
    <2>3. ToldApart' BY <1>3, <2>1, <1>0, <1>n DEF Ledger, Past, ToldApart
    <2>4. ComposedByDeparture' BY <1>3 DEF Ledger, ComposedByDeparture
    <2> QED BY <1>t, <2>2, <2>3, <2>4 DEF Ledger
  <1>4. ASSUME NEW m \in Members, NEW at \in Dates, NEW received \in Time,
               LeaveOrganism(m, at, received)
        PROVE  Ledger'
    <2> DEFINE d == [member |-> m, at |-> at, recorded |-> clock]
    <2>1. /\ UNCHANGED <<versions, participations>>
          /\ departures' = departures \union {d}
          /\ endings' = endings \union Composed(m, at)
      BY <1>4 DEF LeaveOrganism
    <2>2. d.member = m /\ d.at = at /\ d.recorded = clock OBVIOUS
    <2> HIDE DEF d
    <2>3. Past' BY <2>1, <2>2, <1>0, <1>n DEF Ledger, Past
    <2>4. ToldApart' BY <2>1 DEF Ledger, ToldApart
    <2>5. ComposedByDeparture'
      <3>1. SUFFICES ASSUME NEW e \in endings'
                     PROVE  \E p \in participations : /\ p.recorded = e.of
                              /\ \E b \in departures' : b.member = p.member /\ b.at = e.at
        BY <2>1 DEF ComposedByDeparture
      <3>2. CASE e \in endings BY <3>2, <2>1 DEF Ledger, ComposedByDeparture
      <3>3. CASE e \in Composed(m, at) BY <3>3, ComposedRows, <2>1, <2>2
      <3> QED BY <3>2, <3>3, <2>1
    <2> QED BY <1>t, <2>3, <2>4, <2>5 DEF Ledger
  <1> QED BY <1>0, <1>1, <1>2, <1>3, <1>4

-----------------------------------------------------------------------------
\* The guard's knowledge is all there is.
LEMMA GuardSeesAll ==
  ASSUME Ledger, NEW r \in requests, NEW at \in Dates, OccupancyGuard(r, at)
  PROVE  /\ \A d \in departures : d.member = r.member => at < d.at
         /\ \A p \in participations :
              p.seat = r.seat \/ p.member = r.member => OverEver(p, at)
         /\ \A i \in DOMAIN versions : versions[i].from > at => r.seat \in versions[i].seats
  <1>c. clock \in Nat BY TimeAssumption DEF Ledger, TypeOK, Time
  <1>n. /\ clock \in Nat /\ at \in Nat
        /\ \A p \in participations : p.recorded \in Nat
        /\ \A d \in departures : d.recorded \in Nat /\ d.at \in Nat
        /\ \A i \in DOMAIN versions : versions[i].recorded \in Nat
    BY <1>c, Numbers DEF Ledger
  <1>1. \A d \in departures : d \in Known(departures, clock)
    BY <1>n DEF Known, Ledger, Past
  <1>2. \A p \in participations : p \in Known(participations, clock)
    BY <1>n DEF Known, Ledger, Past
  <1>3. \A d \in departures : d.member = r.member => at < d.at
    BY <1>1, <1>n DEF OccupancyGuard, ActiveAt
  <1>4. \A p \in participations :
          p.seat = r.seat \/ p.member = r.member => OverEver(p, at)
    BY <1>2 DEF OccupancyGuard, Free, Over, OverEver, Known
  <1>5. \A i \in DOMAIN versions : versions[i].from > at => r.seat \in versions[i].seats
    BY <1>n DEF OccupancyGuard, SeatStands, Ledger, Past
  <1> QED BY <1>3, <1>4, <1>5

LEMMA ApartStep == ASSUME Ledger, TermsApart, Next PROVE TermsApart'
  <1>0. TypeOK BY DEF Ledger
  <1>1. \A p, at : OverEver(p, at) => OverEver(p, at)' BY <1>0, OverStays
  <1>2. CASE participations' = participations
    BY <1>1, <1>2 DEF TermsApart
  <1>3. ASSUME NEW r \in requests, NEW at \in Dates, OccupancyGuard(r, at),
               participations' = participations \union {Taken(r, at)}
        PROVE  TermsApart'
    <2>1. /\ Taken(r, at).seat = r.seat /\ Taken(r, at).member = r.member
          /\ Taken(r, at).from = at
      BY DEF Taken
    <2>2. \A p \in participations :
            p.seat = r.seat \/ p.member = r.member => OverEver(p, at)
      BY <1>3, GuardSeesAll
    <2>3. SUFFICES ASSUME NEW p \in participations', NEW q \in participations',
                          p # q, p.seat = q.seat \/ p.member = q.member
                   PROVE  OverEver(p, q.from)' \/ OverEver(q, p.from)'
      BY DEF TermsApart
    <2>4. CASE p \in participations /\ q \in participations
      BY <2>3, <2>4, <1>1 DEF TermsApart
    <2>5. CASE p = Taken(r, at) BY <2>1, <2>2, <2>3, <2>5, <1>1, <1>3
    <2>6. CASE q = Taken(r, at) BY <2>1, <2>2, <2>3, <2>6, <1>1, <1>3
    <2> QED BY <2>3, <2>4, <2>5, <2>6, <1>3
  <1>4. \A m \in Members, at \in Dates, received \in Time :
          LeaveOrganism(m, at, received) => participations' = participations
    BY DEF LeaveOrganism
  <1>5. \A m \in Members, at \in Dates, received \in Time, from \in Dates,
           seats \in SUBSET Seats :
          AdoptArrangement(m, at, received, from, seats) => participations' = participations
    BY DEF AdoptArrangement
  <1> QED BY <1>0, Effects, <1>2, <1>3, <1>4, <1>5 DEF Quiet

LEMMA MemberStep ==
  ASSUME Ledger, SeatedWhileMember, StrayIsLate, Next
  PROVE  SeatedWhileMember' /\ StrayIsLate'
  <1>0. TypeOK BY DEF Ledger
  <1>n. /\ clock \in Nat
        /\ \A at \in Dates : at \in Nat
        /\ \A p \in participations : p.recorded \in Nat /\ p.from \in Nat
        /\ \A d \in departures : d.recorded \in Nat /\ d.at \in Nat
    BY <1>0, Numbers, Effects
  <1>1. \A p, at : OverEver(p, at) => OverEver(p, at)' BY <1>0, OverStays
  <1>2. CASE UNCHANGED <<participations, departures>>
    BY <1>1, <1>2 DEF SeatedWhileMember, StrayIsLate
  <1>3. ASSUME NEW r \in requests, NEW at \in Dates, OccupancyGuard(r, at),
               participations' = participations \union {Taken(r, at)},
               departures' = departures
        PROVE  SeatedWhileMember' /\ StrayIsLate'
    <2>1. /\ Taken(r, at).member = r.member /\ Taken(r, at).from = at
          /\ Taken(r, at).recorded = clock
      BY DEF Taken
    <2>2. \A d \in departures : d.member = r.member => at < d.at
      BY <1>3, GuardSeesAll
    <2>3. \A d \in departures : d.recorded < clock BY DEF Ledger, Past
    <2>4. SeatedWhileMember' BY <1>3, <1>n, <2>1, <2>2 DEF SeatedWhileMember
    <2>5. StrayIsLate' BY <1>1, <1>3, <2>1, <2>2, <2>3 DEF StrayIsLate
    <2> QED BY <2>4, <2>5
  <1>4. ASSUME NEW m \in Members, NEW at \in Dates, NEW received \in Time,
               LeaveOrganism(m, at, received)
        PROVE  SeatedWhileMember' /\ StrayIsLate'
    <2> DEFINE d == [member |-> m, at |-> at, recorded |-> clock]
    <2>1. /\ participations' = participations
          /\ departures' = departures \union {d}
          /\ endings' = endings \union Composed(m, at)
          /\ NothingLater(m, at) /\ ActiveNow(m)
      BY <1>4 DEF LeaveOrganism
    <2>2. d.member = m /\ d.at = at OBVIOUS
    <2> HIDE DEF d
    <2>3. SeatedWhileMember' BY <2>1, <2>2, <1>n DEF SeatedWhileMember, NothingLater
    <2>4. ASSUME NEW p \in participations, p.member = m
          PROVE  OverEver(p, at)'
      <3>1. \A e \in endings : e.of # p.recorded
        <4>1. SUFFICES ASSUME NEW e \in endings, e.of = p.recorded PROVE FALSE
          OBVIOUS
        <4>2. PICK q \in participations : /\ q.recorded = e.of
                     /\ \E b \in departures : b.member = q.member /\ b.at = e.at
          BY DEF Ledger, ComposedByDeparture
        <4>3. q = p BY <4>1, <4>2 DEF Ledger, ToldApart
        <4> QED BY <2>1, <2>4, <4>2, <4>3 DEF ActiveNow
      <3>2. [of |-> p.recorded, at |-> at, recorded |-> clock] \in Composed(m, at)
        BY <2>1, <2>4, <3>1 DEF Composed, NothingLater
      <3> QED BY <2>1, <3>2, <1>n DEF OverEver
    <2>5. StrayIsLate' BY <1>1, <2>1, <2>2, <2>4 DEF StrayIsLate
    <2> QED BY <2>3, <2>5
  <1>5. \A m \in Members, at \in Dates, received \in Time, from \in Dates,
           seats \in SUBSET Seats :
          AdoptArrangement(m, at, received, from, seats) =>
            UNCHANGED <<participations, departures>>
    BY DEF AdoptArrangement
  <1> QED BY <1>0, Effects, <1>2, <1>3, <1>4, <1>5 DEF Quiet

LEMMA DroppedStep == ASSUME Ledger, DroppedUnseen, Next PROVE DroppedUnseen'
  <1>0. TypeOK BY DEF Ledger
  <1>n. /\ clock \in Nat
        /\ \A at \in Dates : at \in Nat
        /\ \A p \in participations : p.recorded \in Nat /\ p.from \in Nat
        /\ \A i \in DOMAIN versions : versions[i].recorded \in Nat /\ versions[i].from \in Nat
                                      /\ versions[i].received \in Nat
    BY <1>0, Numbers, Effects
  <1>1. \A p, at : OverEver(p, at) => OverEver(p, at)' BY <1>0, OverStays
  <1>2. CASE UNCHANGED <<versions, participations>>
    BY <1>1, <1>2 DEF DroppedUnseen
  <1>3. ASSUME NEW r \in requests, NEW at \in Dates, OccupancyGuard(r, at),
               participations' = participations \union {Taken(r, at)},
               UNCHANGED <<versions, endings>>
        PROVE  DroppedUnseen'
    <2>1. /\ Taken(r, at).seat = r.seat /\ Taken(r, at).from = at
          /\ Taken(r, at).recorded = clock
      BY DEF Taken
    <2>2. \A i \in DOMAIN versions : versions[i].from > at => r.seat \in versions[i].seats
      BY <1>3, GuardSeesAll
    <2>3. \A i \in DOMAIN versions : versions[i].recorded < clock BY DEF Ledger, Past
    <2>4. SUFFICES ASSUME NEW p \in participations', NEW i \in DOMAIN versions,
                          p.seat \notin versions[i].seats,
                          ~(\E e \in endings : e.of = p.recorded /\ e.at <= versions[i].from),
                          versions[i].from > p.from \/ versions[i].recorded > p.recorded
                   PROVE  versions[i].received < p.recorded /\ p.recorded < versions[i].recorded
      BY <1>3 DEF DroppedUnseen, OverEver
    <2>5. CASE p \in participations BY <2>4, <2>5 DEF DroppedUnseen, OverEver
    <2>6. CASE p = Taken(r, at) BY <1>n, <2>1, <2>2, <2>3, <2>4, <2>6
    <2> QED BY <1>3, <2>5, <2>6
  <1>4. ASSUME NEW m \in Members, NEW at \in Dates, NEW received \in Time,
               NEW from \in Dates, NEW seats \in SUBSET Seats,
               AdoptArrangement(m, at, received, from, seats)
        PROVE  DroppedUnseen'
    <2> DEFINE v == [seats |-> seats, from |-> from, received |-> received, recorded |-> clock]
    <2>1. /\ UNCHANGED <<participations, endings>>
          /\ HeldSeatsKept(seats, from, received)
      BY <1>4 DEF AdoptArrangement
    <2>2. SUFFICES ASSUME NEW p \in participations, NEW i \in DOMAIN versions',
                          p.seat \notin versions'[i].seats,
                          ~OverEver(p, versions'[i].from),
                          versions'[i].from > p.from \/ versions'[i].recorded > p.recorded
                   PROVE  /\ versions'[i].received < p.recorded
                          /\ p.recorded < versions'[i].recorded
      BY <2>1 DEF DroppedUnseen, OverEver
    <2>3. CASE i \in DOMAIN versions /\ versions'[i] = versions[i]
      BY <2>2, <2>3 DEF DroppedUnseen
    <2>4. CASE versions'[i] = v
      <3>1. ~Over(p, from, received) /\ p.seat \notin seats
        BY <2>2, <2>4 DEF Over, OverEver, Known
      <3>2. ~(p.recorded <= received) BY <2>1, <3>1 DEF HeldSeatsKept, Known
      <3>3. p.recorded < clock BY DEF Ledger, Past
      <3>4. received < p.recorded BY <3>2, <1>n DEF Time
      <3> QED BY <2>4, <3>3, <3>4
    <2> QED BY <1>0, <1>4, <2>3, <2>4, VersionsAppend
  <1>5. \A m \in Members, at \in Dates, received \in Time :
          LeaveOrganism(m, at, received) => UNCHANGED <<versions, participations>>
    BY DEF LeaveOrganism
  <1> QED BY <1>0, Effects, <1>2, <1>3, <1>4, <1>5 DEF Quiet

-----------------------------------------------------------------------------
LEMMA Invariance == Spec => []IInv
  <1>1. Init => IInv
    BY LedgerInit DEF IInv, Init, TermsApart, SeatedWhileMember, StrayIsLate, DroppedUnseen
  <1>2. IInv /\ Next => IInv'
    BY LedgerStep, ApartStep, MemberStep, DroppedStep DEF IInv
  <1>3. IInv /\ UNCHANGED vars => IInv'
    BY DEF IInv, vars, Ledger, TypeOK, Past, ToldApart, ComposedByDeparture, TermsApart,
           SeatedWhileMember, StrayIsLate, DroppedUnseen, OverEver
  <1> QED BY <1>1, <1>2, <1>3, PTL DEF Spec

\* Every row is a row of its table.
THEOREM Typed == Spec => []TypeOK
  <1>1. IInv => TypeOK BY DEF IInv, Ledger
  <1> QED BY <1>1, Invariance, PTL

\* Two terms of one seat, or of one person, never overlap.
THEOREM SeatsApart == Spec => []TermsApart
  <1>1. IInv => TermsApart BY DEF IInv
  <1> QED BY <1>1, Invariance, PTL

\* No term begins after its member's departure.
THEOREM MembersSeated == Spec => []SeatedWhileMember
  <1>1. IInv => SeatedWhileMember BY DEF IInv
  <1> QED BY <1>1, Invariance, PTL

\* A departure misses only what was decided before it took effect and
\* executed after it.
THEOREM StraysAreLate == Spec => []StrayIsLate
  <1>1. IInv => StrayIsLate BY DEF IInv
  <1> QED BY <1>1, Invariance, PTL

\* A version takes away a held seat only if it was received before the seat
\* was taken and executed after it.
THEOREM DropsAreUnseen == Spec => []DroppedUnseen
  <1>1. IInv => DroppedUnseen BY DEF IInv
  <1> QED BY <1>1, Invariance, PTL

-----------------------------------------------------------------------------
(* The refinement. *)

LEMMA TermFields ==
  ASSUME NEW p
  PROVE  /\ TermOf(p).id = p.recorded /\ TermOf(p).seat = p.seat
         /\ TermOf(p).member = p.member /\ TermOf(p).from = p.from
  BY DEF TermOf

LEMMA ClosingFields ==
  ASSUME NEW e PROVE ClosingOf(e).of = e.of /\ ClosingOf(e).at = e.at
  BY DEF ClosingOf

LEMMA PromiseInit == ASSUME Init PROVE Promise!Init
  BY DEF Init, Promise!Init, Terms, Closed

LEMMA PromiseBegin ==
  ASSUME Ledger, Ledger', NEW r \in requests, NEW at \in Dates, OccupancyGuard(r, at),
         participations' = participations \union {Taken(r, at)}, endings' = endings
  PROVE  Promise!Next
  <1>1. /\ clock \in Time /\ at \in Time /\ r.seat \in Seats /\ r.member \in Members
    <2>1. r \in Request BY DEF Ledger, TypeOK
    <2>2. Taken(r, at) \in Participation BY DEF Ledger, TypeOK
    <2>3. Taken(r, at).recorded = clock BY DEF Taken
    <2> QED BY <2>1, <2>2, <2>3, TimeAssumption DEF Request, Participation, Time
  <1>2. \A t \in Terms : t.seat = r.seat \/ t.member = r.member => Promise!Over(t, at)
    <2>1. SUFFICES ASSUME NEW p \in participations,
                          p.seat = r.seat \/ p.member = r.member
                   PROVE  \E c \in Closed : c.of = p.recorded /\ c.at <= at
      BY TermFields DEF Terms, Promise!Over
    <2>2. OverEver(p, at) BY <2>1, GuardSeesAll
    <2>3. PICK e \in endings : e.of = p.recorded /\ e.at <= at BY <2>2 DEF OverEver
    <2>4. ClosingOf(e) \in Closed BY DEF Closed
    <2> QED BY <2>3, <2>4, ClosingFields
  <1>3. \A t \in Terms : t.id < clock BY TermFields DEF Terms, Ledger, Past
  <1> DEFINE new == [id |-> clock, seat |-> r.seat, member |-> r.member, from |-> at]
  <1>t. TermOf(Taken(r, at)) = new BY DEF TermOf, Taken
  <1>4. Terms' = Terms \union {[id |-> clock, seat |-> r.seat, member |-> r.member, from |-> at]}
    <2> HIDE DEF new
    <2>1. Terms' = Terms \union {new} BY <1>t DEF Terms
    <2> QED BY <2>1 DEF new
  <1>5. Closed' = Closed BY DEF Closed
  <1>6. Promise!Begin(r.seat, r.member, at)
    BY <1>1, <1>2, <1>3, <1>4, <1>5 DEF Promise!Begin
  <1> QED BY <1>1, <1>6 DEF Promise!Next

LEMMA PromiseClose ==
  ASSUME Ledger, NEW m \in Members, NEW at \in Dates, NEW received \in Time,
         LeaveOrganism(m, at, received)
  PROVE  Promise!Next
  <1>1. /\ participations' = participations /\ endings' = endings \union Composed(m, at)
        /\ NothingLater(m, at)
    BY DEF LeaveOrganism
  <1>2. at \in Time BY TimeAssumption DEF Time
  <1>3. \A t \in Terms : t.member = m => t.from <= at
    BY <1>1, TermFields DEF Terms, NothingLater
  <1>4. Terms' = Terms BY <1>1 DEF Terms
  <1> DEFINE Row(id) == [of |-> id, at |-> at]
             Untold(id) == \A c \in Closed : c.of # id
             Ended == {Row(t.id) : t \in {u \in Terms : u.member = m /\ Untold(u.id)}}
  <1>5. \A p \in participations : (\A e \in endings : e.of # p.recorded) <=> Untold(p.recorded)
    BY ClosingFields DEF Closed
  <1>6. \A x \in Composed(m, at) : x.at = at BY DEF Composed
  <1>7. \A x \in Composed(m, at) : ClosingOf(x) = Row(x.of) BY <1>6 DEF ClosingOf
  <1> HIDE DEF Row, Untold
  <1>8. \A x \in Composed(m, at) : ClosingOf(x) \in Ended
    <2>1. SUFFICES ASSUME NEW x \in Composed(m, at) PROVE ClosingOf(x) \in Ended
      OBVIOUS
    <2>2. PICK p \in participations : /\ p.member = m /\ p.recorded = x.of
                                      /\ \A e \in endings : e.of # p.recorded
      BY DEF Composed
    <2>3. TermOf(p) \in {u \in Terms : u.member = m /\ Untold(u.id)}
      BY <2>2, <1>5, TermFields DEF Terms
    <2>4. Row(TermOf(p).id) \in Ended BY <2>3
    <2> QED BY <2>2, <2>4, <1>7, TermFields
  <1>9. \A y \in Ended : \E x \in Composed(m, at) : y = ClosingOf(x)
    <2>1. SUFFICES ASSUME NEW y \in Ended
                   PROVE  \E x \in Composed(m, at) : y = ClosingOf(x)
      OBVIOUS
    <2>2. PICK t \in Terms : t.member = m /\ Untold(t.id) /\ y = Row(t.id) OBVIOUS
    <2>3. PICK p \in participations : t = TermOf(p) BY DEF Terms
    <2>4. /\ p.member = m /\ p.from <= at
          /\ \A e \in endings : e.of # p.recorded
      BY <2>2, <2>3, <1>1, <1>5, TermFields DEF NothingLater
    <2> DEFINE x == [of |-> p.recorded, at |-> at, recorded |-> clock]
    <2>5. x \in Composed(m, at) BY <2>4 DEF Composed
    <2>6. x.of = p.recorded OBVIOUS
    <2> HIDE DEF x
    <2> QED BY <2>2, <2>3, <2>5, <2>6, <1>7, TermFields
  <1>e. Closed' = Closed \union Ended
    <2>1. Closed' = Closed \union {ClosingOf(x) : x \in Composed(m, at)}
      BY <1>1 DEF Closed
    <2> HIDE DEF Ended
    <2> QED BY <2>1, <1>8, <1>9
  <1>10. Promise!Close(m, at) BY <1>3, <1>4, <1>e DEF Promise!Close, Row, Untold
  <1> QED BY <1>2, <1>10 DEF Promise!Next

LEMMA PromiseStep ==
  ASSUME Ledger, Next
  PROVE  Promise!Next \/ UNCHANGED <<Terms, Closed>>
  <1>0. TypeOK /\ Ledger' BY LedgerStep DEF Ledger
  <1>1. CASE UNCHANGED <<participations, endings>> BY <1>1 DEF Terms, Closed
  <1>2. \A m \in Members, at \in Dates, received \in Time, from \in Dates,
           seats \in SUBSET Seats :
          AdoptArrangement(m, at, received, from, seats) =>
            UNCHANGED <<participations, endings>>
    BY DEF AdoptArrangement
  <1>3. ASSUME NEW r \in requests, NEW at \in Dates, OccupancyGuard(r, at),
               participations' = participations \union {Taken(r, at)}, endings' = endings
        PROVE  Promise!Next
    BY <1>0, <1>3, PromiseBegin
  <1>4. ASSUME NEW m \in Members, NEW at \in Dates, NEW received \in Time,
               LeaveOrganism(m, at, received)
        PROVE  Promise!Next
    BY <1>4, PromiseClose
  <1> QED BY <1>0, Effects, <1>1, <1>2, <1>3, <1>4 DEF Quiet

\* Seats keep their promise: one holder and one seat at a time, and what is
\* closed stays closed at its instant.
THEOREM SeatsKeepPromise == Spec => PromiseKept
  <1>1. Init => Promise!Init BY PromiseInit
  <1>2. IInv /\ Next => Promise!Next \/ UNCHANGED <<Terms, Closed>>
    BY PromiseStep DEF IInv
  <1>3. UNCHANGED vars => UNCHANGED <<Terms, Closed>> BY DEF vars, Terms, Closed
  <1> QED BY <1>1, <1>2, <1>3, Invariance, PTL DEF Spec, PromiseKept, Promise!Spec

-----------------------------------------------------------------------------
(* Adoptions, requests and endings in turn.  *)

RequestsPast == \A r \in requests : r.recorded < clock

Turns == AdoptedInTurn /\ TermsEndOnce /\ SeatedByRequest /\ RequestsPast

\* The number that follows the ones known at receipt is the next one only if
\* every version was known.
LEMMA NextKnowsAll ==
  ASSUME TypeOK, NEW received, NextNumber(received) = Len(versions) + 1
  PROVE  \A i \in DOMAIN versions : versions[i].recorded <= received
  <1> DEFINE seen == {i \in DOMAIN versions : versions[i].recorded <= received}
  <1>1. Len(versions) \in Nat /\ DOMAIN versions = 1..Len(versions) BY DEF TypeOK
  <1>i. /\ IsFiniteSet(1..Len(versions))
        /\ Cardinality(1..Len(versions)) =
             IF 1 > Len(versions) THEN 0 ELSE Len(versions) - 1 + 1
    <2>1. 1 \in Int /\ Len(versions) \in Int BY <1>1
    <2> QED BY <2>1, FS_Interval, Zenon
  <1>2. IsFiniteSet(DOMAIN versions) /\ Cardinality(DOMAIN versions) = Len(versions)
    <2>1. Cardinality(1..Len(versions)) = Len(versions) BY <1>1, <1>i
    <2> QED BY <1>1, <1>i, <2>1, Zenon
  <1>3. seen \in SUBSET DOMAIN versions OBVIOUS
  <1>4. /\ IsFiniteSet(seen)
        /\ Cardinality(DOMAIN versions) = Cardinality(seen) => DOMAIN versions = seen
    BY <1>2, <1>3, FS_Subset, Zenon
  <1>5. Cardinality(seen) \in Nat BY <1>4, FS_CardinalityType
  <1>6. Cardinality(seen) + 1 = Len(versions) + 1 BY DEF NextNumber
  <1> HIDE DEF seen
  <1>7. DOMAIN versions = seen BY <1>1, <1>2, <1>4, <1>5, <1>6
  <1> QED BY <1>7 DEF seen

LEMMA AdoptedStep == ASSUME Ledger, AdoptedInTurn, Next PROVE AdoptedInTurn'
  <1>0. TypeOK BY DEF Ledger
  <1>1. CASE versions' = versions BY <1>1 DEF AdoptedInTurn
  <1>2. ASSUME NEW m \in Members, NEW at \in Dates, NEW received \in Time,
               NEW from \in Dates, NEW seats \in SUBSET Seats,
               AdoptArrangement(m, at, received, from, seats)
        PROVE  AdoptedInTurn'
    <2> DEFINE v == [seats |-> seats, from |-> from, received |-> received, recorded |-> clock]
    <2>1. versions' = Append(versions, v) /\ NextNumber(received) = Len(versions) + 1
      BY <1>2 DEF AdoptArrangement, RuleGuard
    <2>2. v.received = received OBVIOUS
    <2> HIDE DEF v
    <2>3. /\ Len(versions) \in Nat /\ DOMAIN versions = 1..Len(versions)
          /\ DOMAIN versions' = 1..(Len(versions) + 1)
          /\ versions'[Len(versions) + 1] = v
          /\ \A i \in DOMAIN versions : versions'[i] = versions[i]
      BY <2>1, <1>0 DEF TypeOK
    <2>4. \A i \in DOMAIN versions : versions[i].recorded <= received
      BY <1>0, <2>1, NextKnowsAll
    <2> SUFFICES ASSUME NEW i \in DOMAIN versions', NEW j \in DOMAIN versions', i < j
                 PROVE  versions'[i].recorded <= versions'[j].received
      BY DEF AdoptedInTurn
    <2>5. CASE j \in DOMAIN versions
      <3>1. i \in DOMAIN versions BY <2>3, <2>5
      <3> QED BY <2>3, <2>5, <3>1 DEF AdoptedInTurn
    <2>6. CASE j = Len(versions) + 1
      <3>1. i \in DOMAIN versions BY <2>3, <2>6
      <3> QED BY <2>2, <2>3, <2>4, <2>6, <3>1
    <2> QED BY <2>3, <2>5, <2>6
  <1>3. \A m \in Members, at \in Dates, received \in Time :
          LeaveOrganism(m, at, received) => versions' = versions
    BY DEF LeaveOrganism
  <1> QED BY <1>0, Effects, <1>1, <1>2, <1>3 DEF Quiet

LEMMA EndingStep == ASSUME Ledger, TermsEndOnce, Next PROVE TermsEndOnce'
  <1>0. TypeOK BY DEF Ledger
  <1>n. clock \in Nat /\ \A p \in participations : p.recorded \in Nat /\ p.recorded < clock
    BY <1>0, Numbers, Effects DEF Ledger, Past
  <1>1. CASE UNCHANGED <<participations, endings>> BY <1>1 DEF TermsEndOnce
  <1>2. ASSUME NEW r \in requests, NEW at \in Dates,
               participations' = participations \union {Taken(r, at)}, endings' = endings
        PROVE  TermsEndOnce'
    <2>1. Taken(r, at).recorded = clock BY DEF Taken
    <2>2. \A e \in endings : e.of # clock
      BY <1>n DEF Ledger, ComposedByDeparture
    <2> QED BY <1>2, <2>1, <2>2 DEF TermsEndOnce
  <1>3. ASSUME NEW m \in Members, NEW at \in Dates, NEW received \in Time,
               LeaveOrganism(m, at, received)
        PROVE  TermsEndOnce'
    <2>1. participations' = participations /\ endings' = endings \union Composed(m, at)
      BY <1>3 DEF LeaveOrganism
    <2>2. \A x \in Composed(m, at) :
            /\ x = [of |-> x.of, at |-> at, recorded |-> clock]
            /\ x.at = at /\ \A e \in endings : e.of # x.of
            /\ \E q \in participations : q.recorded = x.of /\ q.from <= at
      BY DEF Composed
    <2>3. \A e, f \in endings' : e.of = f.of => e = f
      <3> SUFFICES ASSUME NEW e \in endings', NEW f \in endings', e.of = f.of
                   PROVE  e = f
        OBVIOUS
      <3>1. CASE e \in endings /\ f \in endings BY <3>1 DEF TermsEndOnce
      <3>2. CASE e \in endings /\ f \in Composed(m, at) BY <3>2, <2>2
      <3>3. CASE e \in Composed(m, at) /\ f \in endings BY <3>3, <2>2
      <3>4. CASE e \in Composed(m, at) /\ f \in Composed(m, at) BY <3>4, <2>2
      <3> QED BY <2>1, <3>1, <3>2, <3>3, <3>4
    <2>4. \A p \in participations, e \in endings' : e.of = p.recorded => p.from <= e.at
      <3> SUFFICES ASSUME NEW p \in participations, NEW e \in endings', e.of = p.recorded
                   PROVE  p.from <= e.at
        OBVIOUS
      <3>1. CASE e \in endings BY <3>1 DEF TermsEndOnce
      <3>2. CASE e \in Composed(m, at) BY <3>2, <2>2 DEF Ledger, ToldApart
      <3> QED BY <2>1, <3>1, <3>2
    <2> QED BY <2>1, <2>3, <2>4 DEF TermsEndOnce
  <1>4. \A m \in Members, at \in Dates, received \in Time, from \in Dates,
           seats \in SUBSET Seats :
          AdoptArrangement(m, at, received, from, seats) =>
            UNCHANGED <<participations, endings>>
    BY DEF AdoptArrangement
  <1> QED BY <1>0, Effects, <1>1, <1>2, <1>3, <1>4 DEF Quiet

\* A decision that seats somebody is about a request recorded before it.
LEMMA RequestStep ==
  ASSUME Ledger, SeatedByRequest, RequestsPast, Next
  PROVE  SeatedByRequest' /\ RequestsPast'
  <1>0. TypeOK BY DEF Ledger
  <1>1. PICK m \in Members, at \in Dates, received \in Time :
          /\ Executed(at, received)
          /\ \/ Birthing(m, at, received)
             \/ \E from \in Dates, seats \in SUBSET Seats :
                  AdoptArrangement(m, at, received, from, seats)
             \/ \E s \in Seats, compound \in BOOLEAN :
                  RequestSeat(m, s, at, received, compound)
             \/ \E r \in requests, outcome \in {"ACCEPT", "DECLINE"} :
                  DecideSeat(m, r, at, received, outcome)
             \/ LeaveOrganism(m, at, received)
    BY Cases
  <1>n. /\ clock \in Nat /\ clock' = clock + 1
        /\ \A r \in requests : r.recorded \in Nat
    BY <1>0, <1>1, Clock DEF TypeOK, Request, Time
  <1>2. CASE UNCHANGED <<requests, decisions, participations>>
    BY <1>2, <1>n DEF SeatedByRequest, RequestsPast
  <1>3. ASSUME NEW s \in Seats, NEW compound \in BOOLEAN, RequestSeat(m, s, at, received, compound)
        PROVE  SeatedByRequest' /\ RequestsPast'
    <2> DEFINE stage == IF compound THEN received ELSE clock
    <2> DEFINE x == [seat |-> s, member |-> m, at |-> at, received |-> stage, recorded |-> clock]
    <2> HIDE DEF stage
    <2>r. x.recorded = clock OBVIOUS
    <2>1. requests' = requests \union {x} BY <1>3 DEF RequestSeat, stage
    <2> HIDE DEF x
    <2>2. UNCHANGED <<decisions, participations>> BY <1>3 DEF RequestSeat
    <2>3. SeatedByRequest' BY <2>1, <2>2 DEF SeatedByRequest
    <2>4. RequestsPast' BY <2>1, <2>r, <1>n DEF RequestsPast
    <2> QED BY <2>3, <2>4
  <1>4. ASSUME NEW r \in requests, NEW outcome \in {"ACCEPT", "DECLINE"},
               DecideSeat(m, r, at, received, outcome)
        PROVE  SeatedByRequest' /\ RequestsPast'
    <2>1. /\ requests' = requests /\ r.at <= at
          /\ decisions' = decisions \union {[request |-> r.recorded, outcome |-> outcome]}
          /\ \/ participations' = participations
             \/ outcome = "ACCEPT" /\ participations' = participations \union {Taken(r, at)}
      BY <1>4 DEF DecideSeat, RequestMatches
    <2>2. RequestsPast' BY <2>1, <1>n DEF RequestsPast
    <2> DEFINE Seated(p, ds) == \E q \in requests :
          /\ q.seat = p.seat /\ q.member = p.member
          /\ q.at <= p.from /\ q.recorded < p.recorded
          /\ [request |-> q.recorded, outcome |-> "ACCEPT"] \in ds
    <2>3. \A p \in participations : Seated(p, decisions')
      BY <2>1 DEF SeatedByRequest
    <2>4. /\ Taken(r, at).seat = r.seat /\ Taken(r, at).member = r.member
          /\ Taken(r, at).from = at /\ Taken(r, at).recorded = clock
      BY DEF Taken
    <2>5. outcome = "ACCEPT" => Seated(Taken(r, at), decisions')
      BY <2>1, <2>4 DEF RequestsPast
    <2> HIDE DEF Seated
    <2>6. \A p \in participations' : Seated(p, decisions') BY <2>1, <2>3, <2>5
    <2>7. SeatedByRequest' BY <2>1, <2>6 DEF SeatedByRequest, Seated
    <2> QED BY <2>2, <2>7
  <1>5. CASE Birthing(m, at, received) BY <1>2, <1>5 DEF Birthing
  <1>6. ASSUME NEW from \in Dates, NEW seats \in SUBSET Seats,
               AdoptArrangement(m, at, received, from, seats)
        PROVE  SeatedByRequest' /\ RequestsPast'
    BY <1>2, <1>6 DEF AdoptArrangement
  <1>7. CASE LeaveOrganism(m, at, received) BY <1>2, <1>7 DEF LeaveOrganism
  <1> QED BY <1>1, <1>3, <1>4, <1>5, <1>6, <1>7

LEMMA TurnsInvariant == Spec => []Turns
  <1>1. Init => Turns
    <2> SUFFICES ASSUME Init PROVE Turns OBVIOUS
    <2>1. Len(versions) = 1 /\ DOMAIN versions = {1} BY DEF Init
    <2>2. AdoptedInTurn BY <2>1 DEF AdoptedInTurn
    <2>3. TermsEndOnce /\ SeatedByRequest /\ RequestsPast
      BY DEF Init, TermsEndOnce, SeatedByRequest, RequestsPast
    <2> QED BY <2>2, <2>3 DEF Turns
  <1>2. ASSUME IInv, Turns, [Next]_vars PROVE Turns'
    <2>1. CASE Next BY <1>2, <2>1, AdoptedStep, EndingStep, RequestStep DEF IInv, Turns
    <2>2. CASE UNCHANGED vars
      BY <1>2, <2>2 DEF vars, Turns, AdoptedInTurn, TermsEndOnce, SeatedByRequest, RequestsPast
    <2> QED BY <1>2, <2>1, <2>2
  <1> QED BY <1>1, <1>2, Invariance, PTL DEF Spec

\* adopt_arrangement and the rule guard: two adoptions never pass each other by.
THEOREM NoBlindAdoption == Spec => []AdoptedInTurn
  <1>1. Turns => AdoptedInTurn BY DEF Turns
  <1> QED BY <1>1, TurnsInvariant, PTL

\* compose_departure: a participation has one ending, at or after its start.
THEOREM TermsHaveOneEnd == Spec => []TermsEndOnce
  <1>1. Turns => TermsEndOnce BY DEF Turns
  <1> QED BY <1>1, TurnsInvariant, PTL

\* decide_seat: nobody sits without a request of their own that was accepted.
THEOREM NobodySeatedUnasked == Spec => []SeatedByRequest
  <1>1. Turns => SeatedByRequest BY DEF Turns
  <1> QED BY <1>1, TurnsInvariant, PTL

-----------------------------------------------------------------------------
(* What was known at a time that has passed.  *)

\* A set of rows only gains rows recorded now, so a past reading keeps its rows.
LEMMA PastRows ==
  ASSUME clock \in Nat, NEW rows, NEW new, \A y \in new : y.recorded = clock,
         NEW known \in Nat, known < clock
  PROVE  Known(rows \union new, known) = Known(rows, known)
  BY DEF Known

LEMMA PastKnown ==
  ASSUME TypeOK, Next, NEW known \in Time, known < clock
  PROVE  /\ Known(participations', known) = Known(participations, known)
         /\ Known(endings', known) = Known(endings, known)
         /\ Known(departures', known) = Known(departures, known)
  <1>n. clock \in Nat /\ known \in Nat BY Effects, TimeAssumption DEF Time
  <1>1. CASE UNCHANGED <<participations, endings, departures>> BY <1>1
  <1>2. ASSUME NEW r \in requests, NEW at \in Dates,
               participations' = participations \union {Taken(r, at)}
        PROVE  Known(participations', known) = Known(participations, known)
    <2>1. \A y \in {Taken(r, at)} : y.recorded = clock BY DEF Taken
    <2> QED BY <1>2, <1>n, <2>1, PastRows
  <1>3. ASSUME NEW m \in Members, NEW at \in Dates, NEW received \in Time,
               LeaveOrganism(m, at, received)
        PROVE  /\ participations' = participations
               /\ Known(endings', known) = Known(endings, known)
               /\ Known(departures', known) = Known(departures, known)
    <2>1. /\ participations' = participations
          /\ endings' = endings \union Composed(m, at)
          /\ departures' = departures \union {[member |-> m, at |-> at, recorded |-> clock]}
      BY <1>3 DEF LeaveOrganism
    <2>2. \A y \in Composed(m, at) : y.recorded = clock BY DEF Composed
    <2>3. \A y \in {[member |-> m, at |-> at, recorded |-> clock]} : y.recorded = clock
      OBVIOUS
    <2>4. Known(endings', known) = Known(endings, known) BY <1>n, <2>1, <2>2, PastRows
    <2>5. Known(departures', known) = Known(departures, known)
      BY <1>n, <2>1, <2>3, PastRows
    <2> QED BY <2>1, <2>4, <2>5
  <1>4. \A m \in Members, at \in Dates, received \in Time, from \in Dates,
           seats \in SUBSET Seats :
          AdoptArrangement(m, at, received, from, seats) =>
            UNCHANGED <<participations, endings, departures>>
    BY DEF AdoptArrangement
  <1> QED BY Effects, <1>1, <1>2, <1>3, <1>4 DEF Quiet

\* The versions known then are the same, and no other is.
LEMMA PastVersions ==
  ASSUME Ledger, Next, NEW known \in Time, known < clock
  PROVE  /\ \A i \in DOMAIN versions : i \in DOMAIN versions' /\ versions'[i] = versions[i]
         /\ \A j \in DOMAIN versions' :
              versions'[j].recorded <= known => j \in DOMAIN versions
  <1>0. TypeOK BY DEF Ledger
  <1>n. clock \in Nat /\ known \in Nat BY <1>0, Effects, TimeAssumption DEF Time
  <1>1. CASE versions' = versions BY <1>1
  <1>2. ASSUME NEW m \in Members, NEW at \in Dates, NEW received \in Time,
               NEW from \in Dates, NEW seats \in SUBSET Seats,
               AdoptArrangement(m, at, received, from, seats)
        PROVE  /\ \A i \in DOMAIN versions :
                    i \in DOMAIN versions' /\ versions'[i] = versions[i]
               /\ \A j \in DOMAIN versions' :
                    versions'[j].recorded <= known => j \in DOMAIN versions
    <2> DEFINE v == [seats |-> seats, from |-> from, received |-> received, recorded |-> clock]
    <2>1. v.recorded = clock OBVIOUS
    <2>2. versions' = Append(versions, v) BY <1>2 DEF AdoptArrangement
    <2> HIDE DEF v
    <2>3. /\ Len(versions) \in Nat /\ DOMAIN versions = 1..Len(versions)
          /\ DOMAIN versions' = 1..(Len(versions) + 1)
          /\ versions'[Len(versions) + 1] = v
          /\ \A i \in DOMAIN versions : versions'[i] = versions[i]
      BY <2>2, <1>0 DEF TypeOK
    <2> QED BY <1>n, <2>1, <2>3
  <1>3. \A m \in Members, at \in Dates, received \in Time :
          LeaveOrganism(m, at, received) => versions' = versions
    BY DEF LeaveOrganism
  <1> QED BY <1>0, Effects, <1>1, <1>2, <1>3 DEF Quiet

LEMMA PastInForce ==
  ASSUME Ledger, Next, NEW i \in DOMAIN versions, NEW s, NEW at, NEW known \in Time,
         known < clock
  PROVE  SeatStands(i, s, at, known)' <=> SeatStands(i, s, at, known)
  <1>1. /\ \A j \in DOMAIN versions : j \in DOMAIN versions' /\ versions'[j] = versions[j]
        /\ \A j \in DOMAIN versions' :
             versions'[j].recorded <= known => j \in DOMAIN versions
    BY PastVersions
  <1>2. InForce(i, at, known)' <=> InForce(i, at, known) BY <1>1 DEF InForce
  <1> QED BY <1>1, <1>2 DEF SeatStands

\* Every command is judged by the knowledge of its receipt: a reading of the
\* past gives later what it gave then.
THEOREM PastSeatsStay == Spec => SeatReadingsStay
  <1>1. ASSUME Ledger, Next, NEW s \in Seats, NEW m \in Members, NEW at \in Time,
               NEW known \in Time, known < clock
        PROVE  /\ ActiveAt(m, at, known)' <=> ActiveAt(m, at, known)
               /\ Free(s, m, at, known)' <=> Free(s, m, at, known)
               /\ \A i \in DOMAIN versions :
                    SeatStands(i, s, at, known)' <=> SeatStands(i, s, at, known)
    <2>1. /\ Known(participations', known) = Known(participations, known)
          /\ Known(endings', known) = Known(endings, known)
          /\ Known(departures', known) = Known(departures, known)
      BY <1>1, PastKnown DEF Ledger
    <2>2. ActiveAt(m, at, known)' <=> ActiveAt(m, at, known) BY <2>1 DEF ActiveAt
    <2>3. \A p : Over(p, at, known)' <=> Over(p, at, known) BY <2>1 DEF Over
    <2>4. Free(s, m, at, known)' <=> Free(s, m, at, known) BY <2>1, <2>3 DEF Free
    <2> QED BY <1>1, <2>2, <2>4, PastInForce
  <1>2. ASSUME IInv, [Next]_vars
        PROVE  [\A s \in Seats, m \in Members, at, known \in Time : known < clock =>
                 /\ ActiveAt(m, at, known)' <=> ActiveAt(m, at, known)
                 /\ Free(s, m, at, known)' <=> Free(s, m, at, known)
                 /\ \A i \in DOMAIN versions :
                      SeatStands(i, s, at, known)' <=> SeatStands(i, s, at, known)]_vars
    BY <1>1, <1>2 DEF IInv
  <1> QED BY <1>2, Invariance, PTL DEF Spec, SeatReadingsStay
=============================================================================
