----------------------- MODULE OfficeAppointmentProofs -----------------------
(***************************************************************************)
(* Proofs about OfficeAppointment.  What carries them: every row was       *)
(* recorded before now; an office whose holder left was ended by the day   *)
(* of leaving; and an appointment falls either before a departure the      *)
(* nomination came after, or after the return from it.                     *)
(***************************************************************************)
EXTENDS OfficeAppointment, TLAPS

Past ==
  /\ \A n \in nominations : n.recorded < clock
  /\ \A c \in consents : c.recorded < clock
  /\ \A h \in appointments \union endings \union rejoinings : h.recorded < clock
  /\ \A a \in appointments : a.of < clock
  /\ \A d \in departures : d.recorded < clock

ToldApart ==
  /\ \A n \in nominations, d \in departures : n.recorded # d.recorded
  /\ \A n, o \in nominations : n.recorded = o.recorded => n = o

EndedByLeaving == \A n \in nominations, d \in departures :
  d.member = n.nominee /\ n.recorded < d.recorded /\ Appointed(n) =>
    \E e \in endings : e.of = n.recorded /\ e.at <= d.at

AppointedInPeriod == \A n \in nominations, a \in appointments, d \in departures :
  a.of = n.recorded /\ d.member = n.nominee /\ d.recorded < n.recorded =>
    a.at < d.at \/ \E r \in rejoinings : r.of = d.recorded /\ r.at <= a.at

Ledger == TypeOK /\ Past /\ ToldApart

\* The answers to a nomination as of a date, whenever they were recorded.
AllAnswers(n, at) == {c \in consents : c.of = n.recorded /\ c.at <= at}

ConsentGiven(n, at) ==
  IF SelfProposed(n) THEN \A c \in AllAnswers(n, at) : c.action # "WITHDRAW"
  ELSE \E c \in AllAnswers(n, at) : c.action = "CONSENT" /\ IsLatest(c, AllAnswers(n, at))

RestsOnConsent == \A a \in appointments : \E n \in nominations :
  n.recorded = a.of /\ ConsentGiven(n, a.at)

IInv == Ledger /\ EndedByLeaving /\ AppointedInPeriod /\ RestsOnConsent /\ RetiredIsUnheld

-----------------------------------------------------------------------------
(* The steps, by the rows they write.  *)

Proposal(m, nominee, at, version) ==
  [nominee |-> nominee, proposer |-> m, version |-> version, at |-> at, recorded |-> clock]
Row(n, at) == [of |-> n.recorded, at |-> at, recorded |-> clock]
Answer(n, action, at) == [of |-> n.recorded, action |-> action, at |-> at, recorded |-> clock]
Leaving(m, at) == [member |-> m, at |-> at, recorded |-> clock]

LEMMA Rows ==
  ASSUME NEW m, NEW nominee, NEW n, NEW at, NEW version, NEW action
  PROVE  /\ Proposal(m, nominee, at, version).recorded = clock
         /\ Proposal(m, nominee, at, version).nominee = nominee
         /\ Row(n, at).of = n.recorded /\ Row(n, at).at = at /\ Row(n, at).recorded = clock
         /\ Answer(n, action, at).of = n.recorded /\ Answer(n, action, at).at = at
         /\ Answer(n, action, at).recorded = clock
         /\ Leaving(m, at).member = m /\ Leaving(m, at).at = at
         /\ Leaving(m, at).recorded = clock
  BY DEF Proposal, Row, Answer, Leaving

Defining(received) ==
  /\ UNCHANGED <<nominations, consents, appointments, endings, departures, rejoinings>>
  /\ \/ latest' \in {1, latest + 1} /\ retired' = retired
     \/ latest' = latest /\ retired' = TRUE /\ NobodyLeft(clock)

Proposing(m, nominee, at, version) ==
  /\ version \in Nat /\ ~retired
  /\ nominations' = nominations \union {Proposal(m, nominee, at, version)}
  /\ UNCHANGED <<latest, retired, consents, appointments, endings, departures, rejoinings>>

Answering(n, at, action) ==
  /\ ~Appointed(n) /\ MayAnswer(n, action, {c \in consents : c.of = n.recorded})
  /\ consents' = consents \union {Answer(n, action, at)}
  /\ UNCHANGED <<latest, retired, nominations, appointments, endings, departures, rejoinings>>

Appointing(n, at) ==
  /\ ~Appointed(n) /\ Consented(n, at, clock) /\ AssignGuard(n, at)
  /\ ~OfficeAlreadyHeld(n, at)
  /\ appointments' = appointments \union {Row(n, at)}
  /\ UNCHANGED <<latest, retired, nominations, consents, endings, departures, rejoinings>>

Ending(n, at) ==
  /\ endings' = endings \union {Row(n, at)}
  /\ UNCHANGED <<latest, retired, nominations, consents, appointments, departures, rejoinings>>

Departing(m, at, received) ==
  /\ HeadsKnown(m, at, received)
  /\ departures' = departures \union {Leaving(m, at)}
  /\ endings' = endings \union {Row(n, at) : n \in {held \in nominations : held.nominee = m /\ Holds(held)}}
  /\ UNCHANGED <<latest, retired, nominations, consents, appointments, rejoinings>>

Returning(d, at) ==
  /\ rejoinings' = rejoinings \union {Row(d, at)}
  /\ UNCHANGED <<latest, retired, nominations, consents, appointments, endings, departures>>

Effect(at, received) ==
  \/ Defining(received)
  \/ \E m, nominee \in Members, version \in Nat : Proposing(m, nominee, at, version)
  \/ \E n \in nominations, action \in {"CONSENT", "DECLINE", "WITHDRAW"} :
       Answering(n, at, action)
  \/ \E n \in nominations : Appointing(n, at) \/ Ending(n, at)
  \/ \E m \in Members : Departing(m, at, received)
  \/ \E d \in departures : Returning(d, at)

LEMMA Effects ==
  ASSUME Next
  PROVE  \E at \in Dates, received \in Time : Executed(at, received) /\ Effect(at, received)
  <1>1. PICK at \in Dates, received \in Time :
          \/ \E d \in departures : Rejoin(d, at, received)
          \/ \E m \in Members :
               \/ DefineOffice(m, at, received)
               \/ \E prior \in 1..MaxVersions : AmendOffice(m, at, received, prior)
               \/ \E prior \in 1..MaxVersions : RetireOffice(m, at, received, prior)
               \/ \E nominee \in Members, version \in 1..MaxVersions :
                    ProposeAssignment(m, nominee, at, received, version)
               \/ \E n \in nominations : Assign(m, n, at, received)
               \/ \E n \in nominations : EndOffice(m, n, at, received)
               \/ LeaveOrganism(m, at, received)
          \/ \E n \in nominations, action \in {"CONSENT", "DECLINE", "WITHDRAW"} :
               AnswerNomination(n, at, received, action)
    BY DEF Next
  <1>2. ASSUME NEW d \in departures, Rejoin(d, at, received)
        PROVE  Executed(at, received) /\ Effect(at, received)
    BY <1>2 DEF Rejoin, Effect, Returning, Row, definition, offices
  <1>3. ASSUME NEW m \in Members, DefineOffice(m, at, received)
        PROVE  Executed(at, received) /\ Effect(at, received)
    BY <1>3 DEF DefineOffice, Effect, Defining, offices, memberships
  <1>4. ASSUME NEW m \in Members, NEW prior \in 1..MaxVersions, AmendOffice(m, at, received, prior)
        PROVE  Executed(at, received) /\ Effect(at, received)
    BY <1>4 DEF AmendOffice, Effect, Defining, offices, memberships
  <1>5. ASSUME NEW m \in Members, NEW prior \in 1..MaxVersions, RetireOffice(m, at, received, prior)
        PROVE  Executed(at, received) /\ Effect(at, received)
    BY <1>5 DEF RetireOffice, Effect, Defining, offices, memberships
  <1>6. ASSUME NEW m \in Members, NEW nominee \in Members, NEW version \in 1..MaxVersions,
               ProposeAssignment(m, nominee, at, received, version)
        PROVE  Executed(at, received) /\ Effect(at, received)
    <2>1. version \in Nat BY BoundAssumption
    <2>2. Proposing(m, nominee, at, version)
      BY <1>6, <2>1 DEF ProposeAssignment, Proposing, Proposal, IsCurrent, definition, memberships
    <2> QED BY <1>6, <2>1, <2>2 DEF ProposeAssignment, Effect
  <1>7. ASSUME NEW m \in Members, NEW n \in nominations, Assign(m, n, at, received)
        PROVE  Executed(at, received) /\ Effect(at, received)
    <2>1. Appointing(n, at)
      BY <1>7 DEF Assign, Appointing, Row, ConsentVerified, definition, memberships
    <2> QED BY <1>7, <2>1 DEF Assign, Effect
  <1>8. ASSUME NEW m \in Members, NEW n \in nominations, EndOffice(m, n, at, received)
        PROVE  Executed(at, received) /\ Effect(at, received)
    <2>1. Ending(n, at) BY <1>8 DEF EndOffice, Ending, Row, definition, memberships
    <2> QED BY <1>8, <2>1 DEF EndOffice, Effect
  <1>9. ASSUME NEW m \in Members, LeaveOrganism(m, at, received)
        PROVE  Executed(at, received) /\ Effect(at, received)
    <2>1. Departing(m, at, received)
      BY <1>9 DEF LeaveOrganism, Departing, OfficesEnded, Leaving, Row, definition
    <2> QED BY <1>9, <2>1 DEF LeaveOrganism, Effect
  <1>10. ASSUME NEW n \in nominations, NEW action \in {"CONSENT", "DECLINE", "WITHDRAW"},
                AnswerNomination(n, at, received, action)
         PROVE  Executed(at, received) /\ Effect(at, received)
    <2>1. Answering(n, at, action)
      BY <1>10 DEF AnswerNomination, Answering, Answer, ConsentGuard, definition, memberships
    <2> QED BY <1>10, <2>1 DEF AnswerNomination, Effect
  <1> QED BY <1>1, <1>2, <1>3, <1>4, <1>5, <1>6, <1>7, <1>8, <1>9, <1>10

LEMMA Numbers ==
  ASSUME TypeOK, NEW at \in Dates, NEW received \in Time, Executed(at, received)
  PROVE  /\ clock \in Nat /\ clock \in Time /\ clock' = clock + 1 /\ clock' \in Time
         /\ at \in Time /\ at \in Nat
  BY TimeAssumption DEF TypeOK, Executed, Time

\* What the fields of the rows are.
LEMMA Fields ==
  ASSUME TypeOK
  PROVE  /\ \A n \in nominations : n.recorded \in Nat /\ n.nominee \in Members
         /\ \A c \in consents : c.of \in Nat /\ c.at \in Nat /\ c.recorded \in Nat
         /\ \A h \in appointments : h.of \in Nat /\ h.at \in Nat /\ h.recorded \in Nat
         /\ \A h \in endings : h.of \in Nat /\ h.at \in Nat /\ h.recorded \in Nat
         /\ \A h \in rejoinings : h.of \in Nat /\ h.at \in Nat /\ h.recorded \in Nat
         /\ \A d \in departures : d.at \in Nat /\ d.recorded \in Nat /\ d.member \in Members
  <1>1. Time \subseteq Nat BY TimeAssumption DEF Time
  <1> QED BY <1>1 DEF TypeOK, Nomination, Consent, Holding, Departure

-----------------------------------------------------------------------------
LEMMA LedgerInit == ASSUME Init PROVE Ledger
  <1>1. retired \in BOOLEAN BY Zenon DEF Init
  <1>2. clock = 1 /\ latest \in Nat BY DEF Init
  <1>3. TypeOK BY <1>1, <1>2 DEF Init, TypeOK
  <1>4. Past /\ ToldApart BY DEF Init, Past, ToldApart
  <1> QED BY <1>3, <1>4 DEF Ledger

LEMMA LedgerStep == ASSUME Ledger, Next PROVE Ledger'
  <1>1. PICK at \in Dates, received \in Time : Executed(at, received) /\ Effect(at, received)
    BY Effects
  <1>n. /\ clock \in Nat /\ clock \in Time /\ clock' = clock + 1 /\ clock' \in Time
        /\ at \in Time /\ at \in Nat
    BY <1>1, Numbers DEF Ledger
  <1>f. /\ \A n \in nominations : n.recorded \in Nat /\ n.recorded \in Time
        /\ \A d \in departures : d.recorded \in Nat /\ d.recorded \in Time
        /\ \A c \in consents : c.recorded \in Nat
        /\ \A h \in appointments \union endings \union rejoinings : h.recorded \in Nat
        /\ \A a \in appointments : a.of \in Nat
    BY Fields DEF Ledger, TypeOK, Nomination, Departure
  <1>t. TypeOK /\ Past /\ ToldApart BY DEF Ledger
  <1>2. CASE Defining(received)
    <2>1. latest' \in {latest, 1, latest + 1} BY <1>2 DEF Defining
    <2>2. latest \in Nat BY <1>t DEF TypeOK
    <2>3. latest' \in Nat BY <2>1, <2>2
    <2>4. retired' \in BOOLEAN BY <1>2, <1>t, Zenon DEF Defining, TypeOK
    <2>5. TypeOK' BY <1>2, <1>n, <1>t, <2>3, <2>4 DEF Defining, TypeOK
    <2>6. Past' /\ ToldApart' BY <1>2, <1>n, <1>f, <1>t DEF Defining, Past, ToldApart
    <2> QED BY <2>5, <2>6 DEF Ledger
  <1>3. ASSUME NEW m \in Members, NEW nominee \in Members, NEW version \in Nat,
               Proposing(m, nominee, at, version)
        PROVE  Ledger'
    <2>1. Proposal(m, nominee, at, version) \in Nomination BY <1>n DEF Proposal, Nomination
    <2>2. TypeOK' BY <1>3, <1>n, <1>t, <2>1 DEF Proposing, TypeOK
    <2>3. Proposal(m, nominee, at, version).recorded = clock BY Rows
    <2>4. Past' /\ ToldApart'
      BY <1>3, <1>n, <1>f, <1>t, <2>3 DEF Proposing, Past, ToldApart
    <2> QED BY <2>2, <2>4 DEF Ledger
  <1>4. ASSUME NEW n \in nominations, NEW action \in {"CONSENT", "DECLINE", "WITHDRAW"},
               Answering(n, at, action)
        PROVE  Ledger'
    <2>1. Answer(n, action, at) \in Consent BY <1>n, <1>f DEF Answer, Consent
    <2>2. TypeOK' BY <1>4, <1>n, <1>t, <2>1 DEF Answering, TypeOK
    <2>3. Answer(n, action, at).recorded = clock BY Rows
    <2>4. Past' /\ ToldApart'
      BY <1>4, <1>n, <1>f, <1>t, <2>3 DEF Answering, Past, ToldApart
    <2> QED BY <2>2, <2>4 DEF Ledger
  <1>5. ASSUME NEW n \in nominations, Appointing(n, at) PROVE Ledger'
    <2>1. Row(n, at) \in Holding BY <1>n, <1>f DEF Row, Holding
    <2>2. TypeOK' BY <1>5, <1>n, <1>t, <2>1 DEF Appointing, TypeOK
    <2>3. Row(n, at).recorded = clock /\ Row(n, at).of = n.recorded BY Rows
    <2>4. Past' /\ ToldApart'
      BY <1>5, <1>n, <1>f, <1>t, <2>3 DEF Appointing, Past, ToldApart
    <2> QED BY <2>2, <2>4 DEF Ledger
  <1>6. ASSUME NEW n \in nominations, Ending(n, at) PROVE Ledger'
    <2>1. Row(n, at) \in Holding BY <1>n, <1>f DEF Row, Holding
    <2>2. TypeOK' BY <1>6, <1>n, <1>t, <2>1 DEF Ending, TypeOK
    <2>3. Row(n, at).recorded = clock BY Rows
    <2>4. Past' /\ ToldApart'
      BY <1>6, <1>n, <1>f, <1>t, <2>3 DEF Ending, Past, ToldApart
    <2> QED BY <2>2, <2>4 DEF Ledger
  <1>7. ASSUME NEW m \in Members, Departing(m, at, received) PROVE Ledger'
    <2>1. \A n \in nominations : Row(n, at) \in Holding /\ Row(n, at).recorded = clock
      BY <1>n, <1>f DEF Row, Holding
    <2>2. Leaving(m, at) \in Departure /\ Leaving(m, at).recorded = clock
      BY <1>n DEF Leaving, Departure
    <2>3. \A h \in endings' : h \in endings \/ (h \in Holding /\ h.recorded = clock)
      BY <1>7, <2>1 DEF Departing
    <2>4. TypeOK' BY <1>7, <1>n, <1>t, <2>2, <2>3 DEF Departing, TypeOK
    <2>5. Past' /\ ToldApart'
      BY <1>7, <1>n, <1>f, <1>t, <2>2, <2>3 DEF Departing, Past, ToldApart
    <2> QED BY <2>4, <2>5 DEF Ledger
  <1>8. ASSUME NEW d \in departures, Returning(d, at) PROVE Ledger'
    <2>1. Row(d, at) \in Holding BY <1>n, <1>f DEF Row, Holding
    <2>2. TypeOK' BY <1>8, <1>n, <1>t, <2>1 DEF Returning, TypeOK
    <2>3. Row(d, at).recorded = clock BY Rows
    <2>4. Past' /\ ToldApart'
      BY <1>8, <1>n, <1>f, <1>t, <2>3 DEF Returning, Past, ToldApart
    <2> QED BY <2>2, <2>4 DEF Ledger
  <1> QED BY <1>1, <1>2, <1>3, <1>4, <1>5, <1>6, <1>7, <1>8 DEF Effect

-----------------------------------------------------------------------------
(* Leaving, appointments and periods.  *)

\* No row is written over, so an office that was appointed or ended stays so.
LEMMA Growing ==
  ASSUME NEW at \in Dates, NEW received \in Time, Effect(at, received)
  PROVE  /\ nominations \subseteq nominations' /\ appointments \subseteq appointments'
         /\ endings \subseteq endings' /\ departures \subseteq departures'
         /\ rejoinings \subseteq rejoinings' /\ consents \subseteq consents'
  BY DEF Effect, Defining, Proposing, Answering, Appointing, Ending, Departing, Returning

LEMMA LeavingStep ==
  ASSUME Ledger, EndedByLeaving, Next
  PROVE  EndedByLeaving'
  <1>1. PICK at \in Dates, received \in Time : Executed(at, received) /\ Effect(at, received)
    BY Effects
  <1>n. clock \in Nat /\ at \in Nat BY <1>1, Numbers DEF Ledger
  <1>g. endings \subseteq endings' BY <1>1, Growing
  <1>f. /\ \A n \in nominations : n.recorded \in Nat /\ n.recorded < clock
        /\ \A d \in departures : d.recorded \in Nat /\ d.recorded < clock
    BY Fields DEF Ledger, Past
  <1> SUFFICES ASSUME NEW n \in nominations', NEW d \in departures',
                      d.member = n.nominee, n.recorded < d.recorded, Appointed(n)'
               PROVE  \E e \in endings' : e.of = n.recorded /\ e.at <= d.at
    BY DEF EndedByLeaving
  <1>2. CASE nominations' = nominations /\ departures' = departures /\ appointments' = appointments
    BY <1>2, <1>g DEF EndedByLeaving, Appointed
  <1>3. ASSUME NEW m \in Members, NEW nominee \in Members, NEW version \in Nat,
               Proposing(m, nominee, at, version)
        PROVE  \E e \in endings' : e.of = n.recorded /\ e.at <= d.at
    <2>1. Proposal(m, nominee, at, version).recorded = clock BY Rows
    <2>2. n \in nominations BY <1>3, <1>n, <1>f, <2>1 DEF Proposing
    <2> QED BY <1>3, <2>2, <1>g DEF Proposing, EndedByLeaving, Appointed
  <1>4. ASSUME NEW o \in nominations, Appointing(o, at)
        PROVE  \E e \in endings' : e.of = n.recorded /\ e.at <= d.at
    <2>1. n \in nominations /\ d \in departures BY <1>4 DEF Appointing
    <2>2. CASE n.recorded = o.recorded
      <3>1. n = o BY <2>1, <2>2 DEF Ledger, ToldApart
      <3>2. SamePeriod(o) BY <1>4 DEF Appointing, AssignGuard
      <3> QED BY <3>1, <3>2, <2>1, <1>f DEF SamePeriod
    <2>3. CASE n.recorded # o.recorded
      <3>1. Row(o, at).of # n.recorded BY <2>3, Rows
      <3>2. Appointed(n) BY <1>4, <3>1 DEF Appointing, Appointed
      <3> QED BY <3>2, <2>1, <1>g DEF EndedByLeaving
    <2> QED BY <2>2, <2>3
  <1>5. ASSUME NEW m \in Members, Departing(m, at, received)
        PROVE  \E e \in endings' : e.of = n.recorded /\ e.at <= d.at
    <2>1. n \in nominations /\ Appointed(n) BY <1>5 DEF Departing, Appointed
    <2>2. CASE d \in departures BY <2>1, <2>2, <1>g DEF EndedByLeaving
    <2>3. CASE d = Leaving(m, at)
      <3>1. n.nominee = m /\ d.at = at BY <2>3, Rows
      <3>2. CASE Holds(n)
        <4>1. Row(n, at) \in endings' BY <1>5, <2>1, <3>1, <3>2 DEF Departing
        <4>2. Row(n, at).of = n.recorded /\ Row(n, at).at = at BY Rows
        <4> QED BY <4>1, <4>2, <3>1, <1>n
      <3>3. CASE ~Holds(n)
        <4>1. PICK e \in endings : e.of = n.recorded BY <3>3, <2>1 DEF Holds, Ended
        <4>2. e.at <= at BY <4>1, <1>5, <2>1, <3>1 DEF Departing, HeadsKnown
        <4> QED BY <4>1, <4>2, <3>1, <1>g
      <3> QED BY <3>2, <3>3
    <2> QED BY <1>5, <2>2, <2>3 DEF Departing
  <1>6. CASE Defining(received) BY <1>6, <1>2 DEF Defining
  <1>7. ASSUME NEW o \in nominations, Ending(o, at)
        PROVE  \E e \in endings' : e.of = n.recorded /\ e.at <= d.at
    BY <1>7, <1>2 DEF Ending
  <1>8. ASSUME NEW o \in nominations, NEW action \in {"CONSENT", "DECLINE", "WITHDRAW"},
               Answering(o, at, action)
        PROVE  \E e \in endings' : e.of = n.recorded /\ e.at <= d.at
    BY <1>8, <1>2 DEF Answering
  <1>9. ASSUME NEW o \in departures, Returning(o, at)
        PROVE  \E e \in endings' : e.of = n.recorded /\ e.at <= d.at
    BY <1>9, <1>2 DEF Returning
  <1> QED BY <1>1, <1>3, <1>4, <1>5, <1>6, <1>7, <1>8, <1>9 DEF Effect

LEMMA PeriodStep ==
  ASSUME Ledger, AppointedInPeriod, Next
  PROVE  AppointedInPeriod'
  <1>1. PICK at \in Dates, received \in Time : Executed(at, received) /\ Effect(at, received)
    BY Effects
  <1>n. clock \in Nat /\ at \in Nat BY <1>1, Numbers DEF Ledger
  <1>g. rejoinings \subseteq rejoinings' BY <1>1, Growing
  <1>f. /\ \A n \in nominations : n.recorded \in Nat /\ n.recorded < clock
        /\ \A d \in departures : d.recorded \in Nat /\ d.recorded < clock /\ d.at \in Nat
        /\ \A o \in appointments : o.of \in Nat /\ o.of < clock
    BY Fields DEF Ledger, Past
  <1> DEFINE Goal(a, d) == a.at < d.at \/ \E r \in rejoinings' : r.of = d.recorded /\ r.at <= a.at
  <1> SUFFICES ASSUME NEW n \in nominations', NEW a \in appointments', NEW d \in departures',
                      a.of = n.recorded, d.member = n.nominee, d.recorded < n.recorded
               PROVE  Goal(a, d)
    BY DEF AppointedInPeriod
  <1>2. CASE n \in nominations /\ a \in appointments /\ d \in departures
    <2>1. a.at < d.at \/ \E r \in rejoinings : r.of = d.recorded /\ r.at <= a.at
      BY <1>2 DEF AppointedInPeriod
    <2> QED BY <2>1, <1>g
  <1> HIDE DEF Goal
  <1>3. ASSUME NEW m \in Members, NEW nominee \in Members, NEW version \in Nat,
               Proposing(m, nominee, at, version)
        PROVE  Goal(a, d)
    <2>1. Proposal(m, nominee, at, version).recorded = clock BY Rows
    <2>2. a \in appointments /\ d \in departures BY <1>3 DEF Proposing
    <2>3. n.recorded < clock BY <2>2, <1>f
    <2>4. n \in nominations BY <1>3, <1>n, <2>1, <2>3 DEF Proposing
    <2> QED BY <2>2, <2>4, <1>2
  <1>4. ASSUME NEW o \in nominations, Appointing(o, at)
        PROVE  Goal(a, d)
    <2>1. n \in nominations /\ d \in departures BY <1>4 DEF Appointing
    <2>2. CASE a \in appointments BY <2>1, <2>2, <1>2
    <2>3. CASE a = Row(o, at)
      <3>1. a.of = o.recorded /\ a.at = at BY <2>3, Rows
      <3>2. n = o BY <3>1, <2>1 DEF Ledger, ToldApart
      <3>3. ActiveAt(n.nominee, at, clock) BY <1>4, <3>2 DEF Appointing, AssignGuard
      <3>4. CASE at < d.at BY <3>4, <3>1 DEF Goal
      <3>5. CASE d.at <= at
        <4>1. Returned(d, at, clock)
          BY <3>3, <3>5, <2>1, <1>f, <1>n DEF ActiveAt, Known
        <4> QED BY <4>1, <3>1, <1>g DEF Returned, Known, Goal
      <3> QED BY <3>4, <3>5, <2>1, <1>f, <1>n
    <2> QED BY <1>4, <2>2, <2>3 DEF Appointing
  <1>5. ASSUME NEW m \in Members, Departing(m, at, received)
        PROVE  Goal(a, d)
    <2>1. n \in nominations /\ a \in appointments BY <1>5 DEF Departing
    <2>2. Leaving(m, at).recorded = clock BY Rows
    <2>3. d \in departures BY <1>5, <2>1, <2>2, <1>f, <1>n DEF Departing
    <2> QED BY <2>1, <2>3, <1>2
  <1>6. CASE Defining(received) BY <1>6, <1>2 DEF Defining
  <1>7. ASSUME NEW o \in nominations, Ending(o, at) PROVE Goal(a, d)
    BY <1>7, <1>2 DEF Ending
  <1>8. ASSUME NEW o \in nominations, NEW action \in {"CONSENT", "DECLINE", "WITHDRAW"},
               Answering(o, at, action)
        PROVE  Goal(a, d)
    BY <1>8, <1>2 DEF Answering
  <1>9. ASSUME NEW o \in departures, Returning(o, at) PROVE Goal(a, d)
    BY <1>9, <1>2 DEF Returning
  <1> QED BY <1>1, <1>3, <1>4, <1>5, <1>6, <1>7, <1>8, <1>9 DEF Effect

-----------------------------------------------------------------------------
(* Consent, and the end of the office.  *)

LEMMA ConsentStep ==
  ASSUME Ledger, RestsOnConsent, Next
  PROVE  RestsOnConsent'
  <1>1. PICK at \in Dates, received \in Time : Executed(at, received) /\ Effect(at, received)
    BY Effects
  <1>p. \A c \in consents : c.recorded \in Nat /\ c.recorded <= clock
    BY Fields, <1>1, Numbers DEF Ledger, Past
  <1>g. nominations \subseteq nominations' BY <1>1, Growing
  <1>2. CASE consents' = consents /\ appointments' = appointments
    BY <1>2, <1>g DEF RestsOnConsent, ConsentGiven, AllAnswers
  <1>3. ASSUME NEW o \in nominations, NEW action \in {"CONSENT", "DECLINE", "WITHDRAW"},
               Answering(o, at, action)
        PROVE  RestsOnConsent'
    <2> SUFFICES ASSUME NEW a \in appointments
                 PROVE  \E n \in nominations : n.recorded = a.of /\ ConsentGiven(n, a.at)'
      BY <1>3, <1>g DEF RestsOnConsent, Answering
    <2>1. PICK n \in nominations : n.recorded = a.of /\ ConsentGiven(n, a.at)
      BY DEF RestsOnConsent
    <2>2. Answer(o, action, at).of # n.recorded
      BY <2>1, <1>3, Rows DEF Answering, Appointed
    <2>3. AllAnswers(n, a.at)' = AllAnswers(n, a.at)
      BY <1>3, <2>2 DEF Answering, AllAnswers
    <2> QED BY <2>1, <2>3 DEF ConsentGiven
  <1>4. ASSUME NEW o \in nominations, Appointing(o, at) PROVE RestsOnConsent'
    <2>1. ConsentsBy(o, at, clock) = AllAnswers(o, at)
      BY <1>p DEF ConsentsBy, Known, AllAnswers
    <2>2. ConsentGiven(o, at) BY <1>4, <2>1 DEF Appointing, Consented, ConsentGiven
    <2>3. Row(o, at).of = o.recorded /\ Row(o, at).at = at BY Rows
    <2>4. \A a \in appointments' : \E n \in nominations :
            n.recorded = a.of /\ ConsentGiven(n, a.at)
      BY <1>4, <2>2, <2>3 DEF Appointing, RestsOnConsent
    <2> QED BY <1>4, <2>4 DEF Appointing, RestsOnConsent, ConsentGiven, AllAnswers
  <1>5. ASSUME NEW m \in Members, NEW nominee \in Members, NEW version \in Nat,
               Proposing(m, nominee, at, version)
        PROVE  RestsOnConsent'
    BY <1>5, <1>2 DEF Proposing
  <1>6. CASE Defining(received) BY <1>6, <1>2 DEF Defining
  <1>7. ASSUME NEW o \in nominations, Ending(o, at) PROVE RestsOnConsent'
    BY <1>7, <1>2 DEF Ending
  <1>8. ASSUME NEW m \in Members, Departing(m, at, received) PROVE RestsOnConsent'
    BY <1>8, <1>2 DEF Departing
  <1>9. ASSUME NEW o \in departures, Returning(o, at) PROVE RestsOnConsent'
    BY <1>9, <1>2 DEF Returning
  <1> QED BY <1>1, <1>3, <1>4, <1>5, <1>6, <1>7, <1>8, <1>9 DEF Effect

\* Nothing is opened under a retired definition.
LEMMA RetiredStep ==
  ASSUME RetiredIsUnheld, Next
  PROVE  RetiredIsUnheld'
  <1>1. PICK at \in Dates, received \in Time : Executed(at, received) /\ Effect(at, received)
    BY Effects
  <1>g. endings \subseteq endings' BY <1>1, Growing
  <1>2. CASE nominations' = nominations /\ retired' = retired
    BY <1>2, <1>g DEF RetiredIsUnheld, Ended
  <1>3. CASE nominations' = nominations /\ NobodyLeft(clock)
    BY <1>3, <1>g DEF RetiredIsUnheld, Ended, NobodyLeft
  <1>4. CASE ~retired' BY <1>4 DEF RetiredIsUnheld
  <1>5. \/ nominations' = nominations /\ retired' = retired
        \/ nominations' = nominations /\ NobodyLeft(clock)
        \/ ~retired'
    BY <1>1 DEF Effect, Defining, Proposing, Answering, Appointing, Ending, Departing, Returning
  <1> QED BY <1>2, <1>3, <1>4, <1>5

-----------------------------------------------------------------------------
LEMMA Stutter ==
  ASSUME IInv, UNCHANGED vars
  PROVE  IInv'
  <1>1. TypeOK' /\ Past' /\ ToldApart'
    BY DEF IInv, Ledger, TypeOK, Past, ToldApart, vars
  <1>2. EndedByLeaving' /\ AppointedInPeriod'
    BY DEF IInv, EndedByLeaving, AppointedInPeriod, Appointed, vars
  <1>3. RestsOnConsent' BY DEF IInv, RestsOnConsent, ConsentGiven, AllAnswers, vars
  <1>4. RetiredIsUnheld' BY Zenon DEF IInv, RetiredIsUnheld, Ended, vars
  <1> QED BY <1>1, <1>2, <1>3, <1>4 DEF IInv, Ledger

THEOREM Inductive == Spec => []IInv
  <1>1. ASSUME Init PROVE IInv
    <2>1. retired = FALSE BY <1>1, Zenon DEF Init
    <2>2. EndedByLeaving /\ AppointedInPeriod /\ RestsOnConsent
      BY <1>1 DEF Init, EndedByLeaving, AppointedInPeriod, RestsOnConsent
    <2> QED BY <1>1, <2>1, <2>2, LedgerInit DEF IInv, RetiredIsUnheld
  <1>2. ASSUME IInv, [Next]_vars PROVE IInv'
    <2>1. CASE Next
      BY <1>2, <2>1, LedgerStep, LeavingStep, PeriodStep, ConsentStep, RetiredStep DEF IInv
    <2>2. CASE UNCHANGED vars BY <1>2, <2>2, Stutter
    <2> QED BY <1>2, <2>1, <2>2
  <1> QED BY <1>1, <1>2, PTL DEF Spec

\* Every variable keeps its type, whatever the commands, their dates and the
\* order in which they are executed.
THEOREM Typed == Spec => []TypeOK
  <1>1. IInv => TypeOK BY DEF IInv, Ledger
  <1> QED BY <1>1, Inductive, PTL

\* _verify_assign_consent and the guards of 0037: behind every appointment
\* there is the consent its nominee had given as of its date.
THEOREM HoldersConsented == Spec => []HeldByConsent
  <1>1. ASSUME IInv PROVE HeldByConsent
    <2> SUFFICES ASSUME NEW a \in appointments
                 PROVE  \E n \in nominations : n.recorded = a.of /\ Consented(n, a.at, clock)
      BY DEF HeldByConsent
    <2>1. PICK n \in nominations : n.recorded = a.of /\ ConsentGiven(n, a.at)
      BY <1>1 DEF IInv, RestsOnConsent
    <2>2. clock \in Nat BY <1>1, TimeAssumption DEF IInv, Ledger, TypeOK, Time
    <2>3. \A c \in consents : c.recorded \in Nat /\ c.recorded <= clock
      BY <1>1, <2>2, Fields DEF IInv, Ledger, Past
    <2>4. ConsentsBy(n, a.at, clock) = AllAnswers(n, a.at)
      BY <2>3 DEF ConsentsBy, Known, AllAnswers
    <2> QED BY <2>1, <2>4 DEF Consented, ConsentGiven
  <1> QED BY <1>1, Inductive, PTL

\* prepare_departure and s015_r4s2_assign_membership_current: an office is
\* held in a time its holder was no member only when it was given to somebody
\* who had come back, as of a date before they had left.
THEOREM HoldersReturned == Spec => []OutlivesByReturnOnly
  <1>1. ASSUME IInv PROVE OutlivesByReturnOnly
    <2> SUFFICES ASSUME NEW n \in nominations, NEW t \in Time,
                        HeldAt(n, t, clock), ~ActiveAt(n.nominee, t, clock)
                 PROVE  \E a \in appointments, d \in departures :
                          /\ a.of = n.recorded /\ d.member = n.nominee /\ d.recorded < n.recorded
                          /\ a.at < d.at /\ d.at <= t
      BY DEF OutlivesByReturnOnly
    <2>t. TypeOK /\ Past /\ ToldApart BY <1>1 DEF IInv, Ledger
    <2>n. clock \in Nat /\ t \in Nat BY <2>t, TimeAssumption DEF TypeOK, Time
    <2>1. PICK a \in appointments : a.of = n.recorded /\ a.at <= t BY DEF HeldAt, Known
    <2>2. PICK d \in departures : d.member = n.nominee /\ d.at <= t /\ ~Returned(d, t, clock)
      BY DEF ActiveAt, Known
    <2>f. /\ n.recorded \in Nat /\ d.recorded \in Nat /\ d.at \in Nat /\ a.at \in Nat
          /\ n.recorded # d.recorded
          /\ \A e \in endings : e.at \in Nat /\ e.recorded \in Nat /\ e.recorded <= clock
          /\ \A r \in rejoinings : r.at \in Nat /\ r.recorded \in Nat /\ r.recorded <= clock
      BY <2>t, <2>n, Fields DEF Past, ToldApart
    <2>3. CASE n.recorded < d.recorded
      <3>1. PICK e \in endings : e.of = n.recorded /\ e.at <= d.at
        BY <1>1, <2>1, <2>2, <2>3 DEF IInv, EndedByLeaving, Appointed
      <3>2. e \in Known(endings, clock) BY <2>f DEF Known
      <3>3. e.at > t BY <3>1, <3>2 DEF HeldAt
      <3> QED BY <3>1, <3>3, <2>2, <2>f, <2>n
    <2>4. CASE d.recorded < n.recorded
      <3>1. a.at < d.at \/ \E r \in rejoinings : r.of = d.recorded /\ r.at <= a.at
        BY <1>1, <2>1, <2>2, <2>4 DEF IInv, AppointedInPeriod
      <3>2. ~ \E r \in rejoinings : r.of = d.recorded /\ r.at <= a.at
        BY <2>1, <2>2, <2>f, <2>n DEF Returned, Known
      <3> QED BY <3>1, <3>2, <2>1, <2>2, <2>4
    <2> QED BY <2>3, <2>4, <2>f
  <1> QED BY <1>1, Inductive, PTL

\* RETIRE_ROLE_DEFINITION and the guard of 0051: under a retired definition
\* every nomination was ended, so that none can still be appointed.
THEOREM RetiredHasNobody == Spec => []RetiredIsUnheld
  <1>1. IInv => RetiredIsUnheld BY DEF IInv
  <1> QED BY <1>1, Inductive, PTL

-----------------------------------------------------------------------------
(* What two dated rows can still do to each other: an appointment behind a  *)
(* closing answer, and two appointments of one person.                      *)

OneAppointment == \A a, b \in appointments : a.of = b.of => a = b

\* A consent is a nominee's first answer.
ConsentFirst == \A c, w \in consents :
  c.of = w.of /\ c.action = "CONSENT" => c = w \/ c.recorded < w.recorded

SelfWithdraws == \A n \in nominations, c \in consents :
  c.of = n.recorded /\ SelfProposed(n) => c.action = "WITHDRAW"

AnswersLater == \A c \in consents : c.of < c.recorded

\* When a second office was given, the first was over, and over as of the
\* second's date unless it had not begun by it.
TakenInTurn == \A n, o \in nominations, a, b \in appointments :
  (/\ n # o /\ n.nominee = o.nominee
   /\ a.of = n.recorded /\ b.of = o.recorded /\ a.recorded < b.recorded)
    => \E e \in endings : /\ e.of = n.recorded /\ e.recorded < b.recorded
                          /\ b.at < a.at \/ e.at <= b.at

Answers == ConsentFirst /\ SelfWithdraws /\ AnswersLater
Turns == OneAppointment /\ TakenInTurn

LEMMA AnswersStep ==
  ASSUME Ledger, Answers, Next
  PROVE  Answers'
  <1>1. PICK at \in Dates, received \in Time : Executed(at, received) /\ Effect(at, received)
    BY Effects
  <1>f. /\ clock \in Nat
        /\ \A c \in consents : c.recorded \in Nat /\ c.recorded < clock /\ c.of \in Nat
        /\ \A n \in nominations : n.recorded \in Nat /\ n.recorded < clock
    BY <1>1, Numbers, Fields DEF Ledger, Past
  <1>2. CASE consents' = consents /\ nominations' = nominations
    BY <1>2 DEF Answers, ConsentFirst, SelfWithdraws, AnswersLater
  <1>3. ASSUME NEW o \in nominations, NEW action \in {"CONSENT", "DECLINE", "WITHDRAW"},
               Answering(o, at, action)
        PROVE  Answers'
    <2> DEFINE r == Answer(o, action, at)
    <2>1. r.of = o.recorded /\ r.recorded = clock /\ r.action = action
      BY DEF Answer
    <2>2. consents' = consents \union {r} /\ nominations' = nominations
      BY <1>3 DEF Answering
    <2>3. /\ action = "CONSENT" => \A c \in consents : c.of # o.recorded
          /\ SelfProposed(o) => action = "WITHDRAW"
      <3>1. MayAnswer(o, action, {c \in consents : c.of = o.recorded})
        BY <1>3 DEF Answering
      <3> QED BY <3>1 DEF MayAnswer
    <2> HIDE DEF r
    <2>4. ConsentFirst'
      <3> SUFFICES ASSUME NEW c \in consents', NEW w \in consents',
                          c.of = w.of, c.action = "CONSENT", c # w
                   PROVE  c.recorded < w.recorded
        BY DEF ConsentFirst
      <3>1. CASE c \in consents /\ w \in consents
        BY <3>1 DEF Answers, ConsentFirst
      <3>2. CASE c \in consents /\ w = r
        BY <3>2, <2>1, <1>f
      <3>3. CASE c = r /\ w \in consents
        BY <3>3, <2>1, <2>3
      <3> QED BY <3>1, <3>2, <3>3, <2>2
    <2>5. SelfWithdraws'
      <3> SUFFICES ASSUME NEW n \in nominations, NEW c \in consents \union {r},
                          c.of = n.recorded, SelfProposed(n)
                   PROVE  c.action = "WITHDRAW"
        BY <2>2 DEF SelfWithdraws
      <3>1. CASE c \in consents BY <3>1 DEF Answers, SelfWithdraws
      <3>2. CASE c = r
        <4>1. n = o BY <3>2, <2>1 DEF Ledger, ToldApart
        <4> QED BY <4>1, <3>2, <2>1, <2>3
      <3> QED BY <3>1, <3>2
    <2>6. AnswersLater'
      BY <2>1, <2>2, <1>f DEF Answers, AnswersLater
    <2> QED BY <2>4, <2>5, <2>6 DEF Answers
  <1>4. ASSUME NEW m \in Members, NEW nominee \in Members, NEW version \in Nat,
               Proposing(m, nominee, at, version)
        PROVE  Answers'
    <2>1. ConsentFirst' BY <1>4 DEF Proposing, Answers, ConsentFirst
    <2>2. Proposal(m, nominee, at, version).recorded = clock BY Rows
    <2>3. ASSUME NEW n \in nominations', NEW c \in consents, c.of = n.recorded
          PROVE  n \in nominations
      <3>1. c.of < clock
        BY <1>f DEF Answers, AnswersLater
      <3> QED BY <3>1, <2>2, <2>3, <1>4, <1>f DEF Proposing
    <2>4. SelfWithdraws' BY <1>4, <2>3 DEF Proposing, Answers, SelfWithdraws
    <2>5. AnswersLater' BY <1>4 DEF Proposing, Answers, AnswersLater
    <2> QED BY <2>1, <2>4, <2>5 DEF Answers
  <1>5. CASE Defining(received) BY <1>5, <1>2 DEF Defining
  <1>6. ASSUME NEW o \in nominations, Appointing(o, at) \/ Ending(o, at) PROVE Answers'
    BY <1>6, <1>2 DEF Appointing, Ending
  <1>7. ASSUME NEW m \in Members, Departing(m, at, received) PROVE Answers'
    BY <1>7, <1>2 DEF Departing
  <1>8. ASSUME NEW d \in departures, Returning(d, at) PROVE Answers'
    BY <1>8, <1>2 DEF Returning
  <1> QED BY <1>1, <1>3, <1>4, <1>5, <1>6, <1>7, <1>8 DEF Effect

\* An office given to somebody who held another one: _authority and the guard
\* have both asked for the stored one and for the one as of the date.
LEMMA OtherOver ==
  ASSUME Ledger, NEW n \in nominations, NEW o \in nominations, NEW a \in appointments,
         NEW at \in Nat, clock \in Nat,
         n # o, n.nominee = o.nominee, a.of = n.recorded, ~OfficeAlreadyHeld(o, at)
  PROVE  \E e \in endings : e.of = n.recorded /\ e.recorded < clock
                           /\ (at < a.at \/ e.at <= at)
  <1>f. /\ a.at \in Nat /\ a.recorded \in Nat /\ a.recorded < clock
        /\ \A e \in endings : e.at \in Nat /\ e.recorded \in Nat /\ e.recorded < clock
    BY Fields DEF Ledger, Past
  <1>1. ~Holds(n) /\ ~HeldAt(n, at, clock) BY DEF OfficeAlreadyHeld
  <1>2. PICK e \in endings : e.of = n.recorded BY <1>1 DEF Holds, Appointed, Ended
  <1>3. CASE at < a.at BY <1>2, <1>3, <1>f
  <1>4. CASE a.at <= at
    <2>1. a \in Known(appointments, clock) BY <1>f DEF Known
    <2>2. PICK x \in Known(endings, clock) : x.of = n.recorded /\ ~(x.at > at)
      BY <1>1, <1>4, <2>1 DEF HeldAt
    <2> QED BY <2>2, <1>f DEF Known
  <1> QED BY <1>3, <1>4, <1>f

LEMMA TurnsStep ==
  ASSUME Ledger, Turns, Next
  PROVE  Turns'
  <1>1. PICK at \in Dates, received \in Time : Executed(at, received) /\ Effect(at, received)
    BY Effects
  <1>n. clock \in Nat /\ at \in Nat BY <1>1, Numbers DEF Ledger
  <1>f. /\ \A a \in appointments : a.of \in Nat /\ a.of < clock
                                  /\ a.recorded \in Nat /\ a.recorded < clock
        /\ \A n \in nominations : n.recorded \in Nat /\ n.recorded < clock
    BY Fields DEF Ledger, Past
  <1>g. endings \subseteq endings' BY <1>1, Growing
  <1>2. CASE appointments' = appointments
    <2>1. OneAppointment' BY <1>2 DEF Turns, OneAppointment
    <2>2. ASSUME NEW n \in nominations', NEW a \in appointments, a.of = n.recorded
          PROVE  n \in nominations
      <3>1. \A o \in nominations' : o \in nominations \/ o.recorded = clock
        <4>1. ASSUME NEW m \in Members, NEW nominee \in Members, NEW version \in Nat,
                     Proposing(m, nominee, at, version)
              PROVE  \A o \in nominations' : o \in nominations \/ o.recorded = clock
          BY <4>1, Rows DEF Proposing
        <4>2. \/ nominations' = nominations
              \/ \E m, nominee \in Members, version \in Nat :
                   Proposing(m, nominee, at, version)
          BY <1>1 DEF Effect, Defining, Answering, Appointing, Ending, Departing, Returning
        <4> QED BY <4>1, <4>2
      <3> QED BY <3>1, <2>2, <1>f, <1>n
    <2>3. TakenInTurn' BY <1>2, <2>2, <1>g DEF Turns, TakenInTurn
    <2> QED BY <2>1, <2>3 DEF Turns
  <1>3. ASSUME NEW p \in nominations, Appointing(p, at) PROVE Turns'
    <2>1. Row(p, at).of = p.recorded /\ Row(p, at).at = at /\ Row(p, at).recorded = clock
      BY Rows
    <2>2. /\ appointments' = appointments \union {Row(p, at)}
          /\ nominations' = nominations /\ endings' = endings
          /\ ~Appointed(p) /\ ~OfficeAlreadyHeld(p, at)
      BY <1>3 DEF Appointing
    <2>3. OneAppointment' BY <2>1, <2>2 DEF Turns, OneAppointment, Appointed
    <2>4. TakenInTurn'
      <3> SUFFICES ASSUME NEW n \in nominations, NEW o \in nominations,
                          NEW a \in appointments', NEW b \in appointments',
                          n # o, n.nominee = o.nominee, a.of = n.recorded,
                          b.of = o.recorded, a.recorded < b.recorded
                   PROVE  \E e \in endings : /\ e.of = n.recorded /\ e.recorded < b.recorded
                                             /\ b.at < a.at \/ e.at <= b.at
        BY <2>2 DEF TakenInTurn
      <3>1. a \in appointments
        <4>1. CASE a = Row(p, at)
          BY <4>1, <2>1, <2>2, <1>f, <1>n
        <4> QED BY <4>1, <2>2
      <3>2. CASE b \in appointments BY <3>1, <3>2 DEF Turns, TakenInTurn
      <3>3. CASE b = Row(p, at)
        <4>1. o = p /\ b.at = at /\ b.recorded = clock
          BY <3>3, <2>1 DEF Ledger, ToldApart
        <4> QED BY <4>1, <3>1, <2>2, <1>n, OtherOver
      <3> QED BY <3>2, <3>3, <2>2
    <2> QED BY <2>3, <2>4 DEF Turns
  <1>4. appointments' = appointments \/ \E p \in nominations : Appointing(p, at)
    BY <1>1 DEF Effect, Defining, Proposing, Answering, Ending, Departing, Returning
  <1> QED BY <1>2, <1>3, <1>4

LEMMA DatesInvariant == Spec => [](Answers /\ Turns)
  <1>1. Init => Answers /\ Turns
    BY DEF Init, Answers, ConsentFirst, SelfWithdraws, AnswersLater, Turns, OneAppointment,
           TakenInTurn
  <1>2. ASSUME IInv, Answers /\ Turns, [Next]_vars PROVE (Answers /\ Turns)'
    <2>1. CASE Next BY <1>2, <2>1, AnswersStep, TurnsStep DEF IInv
    <2>2. CASE UNCHANGED vars
      BY <1>2, <2>2 DEF vars, Answers, ConsentFirst, SelfWithdraws, AnswersLater, Turns,
                        OneAppointment, TakenInTurn
    <2> QED BY <1>2, <2>1, <2>2
  <1> QED BY <1>1, <1>2, Inductive, PTL DEF Spec

\* A closed nomination is opened by an earlier date only: no appointment, made
\* before or after, is dated at or behind its nominee's refusal or withdrawal.
THEOREM RefusalsStand == Spec => []ClosedByDateOnly
  <1>1. ASSUME IInv, Answers PROVE ClosedByDateOnly
    <2> SUFFICES ASSUME NEW a \in appointments, NEW c \in consents,
                        a.of = c.of, c.action # "CONSENT", ~(a.at < c.at)
                 PROVE  FALSE
      BY DEF ClosedByDateOnly
    <2>f. /\ a.at \in Nat /\ c.at \in Nat
          /\ \A w \in consents : w.recorded \in Nat
      BY <1>1, Fields DEF IInv, Ledger
    <2>1. PICK n \in nominations : n.recorded = a.of /\ ConsentGiven(n, a.at)
      BY <1>1 DEF IInv, RestsOnConsent
    <2>2. c \in AllAnswers(n, a.at) BY <2>1, <2>f DEF AllAnswers
    <2>3. CASE SelfProposed(n)
      BY <1>1, <2>1, <2>2, <2>3 DEF ConsentGiven, Answers, SelfWithdraws
    <2>4. CASE ~SelfProposed(n)
      <3>1. PICK w \in AllAnswers(n, a.at) :
              w.action = "CONSENT" /\ IsLatest(w, AllAnswers(n, a.at))
        BY <2>1, <2>4 DEF ConsentGiven
      <3>2. w \in consents /\ w.of = c.of BY <3>1, <2>1 DEF AllAnswers
      <3>3. c.recorded <= w.recorded BY <3>1, <2>2 DEF IsLatest
      <3>4. w.recorded < c.recorded BY <1>1, <3>1, <3>2 DEF Answers, ConsentFirst
      <3> QED BY <3>2, <3>3, <3>4, <2>f
    <2> QED BY <2>3, <2>4
  <1> QED BY <1>1, Inductive, DatesInvariant, PTL

\* Two offices' worth of one holder: the second one was given after the first
\* had ended, as of a date before it had begun, and in no other way.
THEOREM OverlapsAreBackdated == Spec => []OverlapIsBackdated
  <1>1. ASSUME IInv, Turns PROVE OverlapIsBackdated
    <2> SUFFICES ASSUME NEW n \in nominations, NEW o \in nominations,
                        NEW a \in appointments, NEW b \in appointments, NEW t \in Time,
                        n # o, n.nominee = o.nominee, a.of = n.recorded,
                        b.of = o.recorded, a.recorded < b.recorded,
                        HeldAt(n, t, clock), HeldAt(o, t, clock)
                 PROVE  b.at < a.at
                        /\ \E e \in endings : e.of = n.recorded /\ e.recorded < b.recorded
      BY DEF OverlapIsBackdated
    <2>f. /\ t \in Nat /\ b.at \in Nat /\ clock \in Nat
          /\ \A e \in endings : e.at \in Nat /\ e.recorded \in Nat /\ e.recorded < clock
      BY <1>1, TimeAssumption, Fields DEF IInv, Ledger, TypeOK, Past, Time
    <2>1. PICK e \in endings : /\ e.of = n.recorded /\ e.recorded < b.recorded
                               /\ b.at < a.at \/ e.at <= b.at
      BY <1>1 DEF Turns, TakenInTurn
    <2>2. b.at <= t BY <1>1 DEF HeldAt, Known, Turns, OneAppointment
    <2>3. e \in Known(endings, clock) BY <2>f DEF Known
    <2>4. e.at > t BY <2>1, <2>3 DEF HeldAt
    <2> QED BY <2>1, <2>2, <2>4, <2>f
  <1> QED BY <1>1, Inductive, DatesInvariant, PTL

-----------------------------------------------------------------------------
(* What was known stays known.  *)

\* A step adds rows, and what it adds is recorded now.
AddsRows ==
  /\ appointments \subseteq appointments' /\ endings \subseteq endings'
  /\ consents \subseteq consents' /\ departures \subseteq departures'
  /\ rejoinings \subseteq rejoinings'
  /\ \A h \in appointments' : h \in appointments \/ h.recorded = clock
  /\ \A h \in endings' : h \in endings \/ h.recorded = clock
  /\ \A h \in rejoinings' : h \in rejoinings \/ h.recorded = clock
  /\ \A c \in consents' : c \in consents \/ c.recorded = clock
  /\ \A d \in departures' : d \in departures \/ d.recorded = clock

LEMMA AddsNow ==
  ASSUME NEW at \in Dates, NEW received \in Time, Effect(at, received)
  PROVE  AddsRows
  <1>1. CASE UNCHANGED <<consents, appointments, endings, departures, rejoinings>>
    BY <1>1 DEF AddsRows
  <1>2. ASSUME NEW n \in nominations, NEW action \in {"CONSENT", "DECLINE", "WITHDRAW"},
               Answering(n, at, action)
        PROVE  AddsRows
    BY <1>2, Rows DEF Answering, AddsRows
  <1>3. ASSUME NEW n \in nominations, Appointing(n, at) PROVE AddsRows
    BY <1>3, Rows DEF Appointing, AddsRows
  <1>4. ASSUME NEW n \in nominations, Ending(n, at) PROVE AddsRows
    BY <1>4, Rows DEF Ending, AddsRows
  <1>5. ASSUME NEW m \in Members, Departing(m, at, received) PROVE AddsRows
    <2>1. \A n \in nominations : Row(n, at).recorded = clock BY Rows
    <2>2. \A h \in endings' : h \in endings \/ h.recorded = clock
      BY <1>5, <2>1 DEF Departing
    <2>3. Leaving(m, at).recorded = clock BY Rows
    <2> QED BY <1>5, <2>2, <2>3 DEF Departing, AddsRows
  <1>6. ASSUME NEW d \in departures, Returning(d, at) PROVE AddsRows
    BY <1>6, Rows DEF Returning, AddsRows
  <1>7. CASE Defining(received) BY <1>1, <1>7 DEF Defining
  <1>8. ASSUME NEW m \in Members, NEW nominee \in Members, NEW version \in Nat,
               Proposing(m, nominee, at, version)
        PROVE  AddsRows
    BY <1>1, <1>8 DEF Proposing
  <1> QED BY <1>2, <1>3, <1>4, <1>5, <1>6, <1>7, <1>8 DEF Effect

LEMMA PastStays ==
  ASSUME Ledger, Next, NEW known \in Time, known < clock
  PROVE  /\ Known(appointments', known) = Known(appointments, known)
         /\ Known(endings', known) = Known(endings, known)
         /\ Known(consents', known) = Known(consents, known)
         /\ Known(departures', known) = Known(departures, known)
         /\ Known(rejoinings', known) = Known(rejoinings, known)
  <1>1. PICK at \in Dates, received \in Time : Executed(at, received) /\ Effect(at, received)
    BY Effects
  <1>2. clock \in Nat /\ known \in Nat /\ ~(clock <= known)
    BY <1>1, Numbers, TimeAssumption DEF Ledger, Time
  <1>3. AddsRows BY <1>1, AddsNow
  <1> QED BY <1>2, <1>3 DEF Known, AddsRows

\* s015_fold_effective_state and the consent lookup at a cut that has passed.
THEOREM PastReadingsStay == Spec => ReadingsStay
  <1>1. ASSUME Ledger, Next, NEW n \in nominations, NEW at \in Time, NEW known \in Time,
               known < clock
        PROVE  /\ HeldAt(n, at, known)' <=> HeldAt(n, at, known)
               /\ Consented(n, at, known)' <=> Consented(n, at, known)
               /\ ActiveAt(n.nominee, at, known)' <=> ActiveAt(n.nominee, at, known)
    <2>1. /\ Known(appointments', known) = Known(appointments, known)
          /\ Known(endings', known) = Known(endings, known)
          /\ Known(consents', known) = Known(consents, known)
          /\ Known(departures', known) = Known(departures, known)
          /\ Known(rejoinings', known) = Known(rejoinings, known)
      BY <1>1, PastStays
    <2>2. HeldAt(n, at, known)' <=> HeldAt(n, at, known) BY <2>1 DEF HeldAt
    <2>3. ConsentsBy(n, at, known)' = ConsentsBy(n, at, known) BY <2>1 DEF ConsentsBy
    <2>4. Consented(n, at, known)' <=> Consented(n, at, known)
      BY <2>3 DEF Consented, SelfProposed, IsLatest
    <2>5. \A d : Returned(d, at, known)' <=> Returned(d, at, known) BY <2>1 DEF Returned
    <2>6. ActiveAt(n.nominee, at, known)' <=> ActiveAt(n.nominee, at, known)
      BY <2>1, <2>5 DEF ActiveAt
    <2> QED BY <2>2, <2>4, <2>6
  <1>2. ASSUME IInv, [Next]_vars
        PROVE  [\A n \in nominations, at, known \in Time : known < clock =>
                 /\ HeldAt(n, at, known)' <=> HeldAt(n, at, known)
                 /\ Consented(n, at, known)' <=> Consented(n, at, known)
                 /\ ActiveAt(n.nominee, at, known)' <=> ActiveAt(n.nominee, at, known)]_vars
    BY <1>1, <1>2 DEF IInv
  <1> QED BY <1>2, Inductive, PTL DEF Spec, ReadingsStay
=============================================================================
