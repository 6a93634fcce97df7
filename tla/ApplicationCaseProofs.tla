------------------------ MODULE ApplicationCaseProofs ------------------------
(***************************************************************************)
(* Proofs about ApplicationCase.  What carries them: a decided or withdrawn *)
(* case takes no further claim, ending or finding; the claims of a case     *)
(* follow each other, each opened by the ending of the one before; and an   *)
(* open application came after every departure of its applicant.            *)
(***************************************************************************)
EXTENDS ApplicationCase, TLAPS

Past ==
  /\ \A a \in applications : a.recorded < clock
  /\ \A d \in decisions : d.recorded < clock /\ d.of < clock
  /\ \A w \in withdrawals : w.of < clock
  /\ \A c \in claims : c.recorded < clock
  /\ \A e \in endings : e.recorded < clock /\ e.of < clock
  /\ \A f \in findings : f.recorded < clock
  /\ \A x \in departures : x.of < clock

ToldApart ==
  /\ \A a, b \in applications : a.recorded = b.recorded => a = b
  /\ \A d, e \in decisions : d.recorded = e.recorded => d = e
  /\ \A c, o \in claims : c.recorded = o.recorded => c = o

Ledger == TypeOK /\ Past /\ ToldApart

OneOutcome == \A d \in decisions, w \in withdrawals : d.of # w.of

Transfers == \A c \in claims, e \in endings : e.of = c.recorded =>
  \E s \in claims : s.of = c.of /\ s.ordinal = c.ordinal + 1 /\ s.at = e.at /\ s.recorded = e.recorded

GaveWayTo(c, o) == c.ordinal < o.ordinal /\
  \E e \in endings : e.of = c.recorded /\ e.at <= o.at /\ e.recorded <= o.recorded

Lineage == \A c, o \in claims : c.of = o.of => c = o \/ GaveWayTo(c, o) \/ GaveWayTo(o, c)

\* DecidedByHolder by all the rows there are.
Unrecused(c, d) == \A f \in findings :
  f.of = c.of /\ f.who = c.by /\ f.at <= d.at /\ f.away =>
    \E g \in findings :
      /\ g.of = c.of /\ g.who = c.by
      /\ g.at <= d.recorded /\ g.recorded <= d.recorded
      /\ ~g.away /\ Supersedes(g, f)
      /\ g.at <= d.at \/ d.received < f.recorded

Holding(c, d) ==
  /\ c.at <= d.at
  /\ \A o \in claims : o.of = c.of /\ o.at <= d.at => o.ordinal <= c.ordinal
  /\ \A e \in endings : e.of = c.recorded => e.at > d.at
  /\ Unrecused(c, d)

HolderDecided == \A d \in decisions : d.claim # 0 =>
  \E c \in claims : c.recorded = d.claim /\ c.of = d.of /\ Holding(c, d)

DeparturesFollow == \A d \in decisions, x \in departures :
  x.of = d.recorded => d.at <= x.at

Fresh == \A b \in applications : Unsettled(b) => \A d \in Memberships(b.applicant) :
  \E x \in departures : x.of = d.recorded /\ d.at <= x.at /\ x.at < b.at

Cases == OneOutcome /\ Transfers /\ Lineage /\ HolderDecided
People == OneStanding /\ DeparturesFollow /\ Fresh /\ PeriodsApart

IInv == Ledger /\ Cases /\ People

-----------------------------------------------------------------------------
(* The steps, by the rows they write.  *)

Applied(p, at) == [applicant |-> p, at |-> at, recorded |-> clock]
Admitted(at, received) ==
  [of |-> clock, accepts |-> TRUE, claim |-> 0, at |-> at, received |-> received,
   recorded |-> clock]
Decided(a, c, accepts, at, received) ==
  [of |-> a.recorded, accepts |-> accepts, claim |-> c.recorded, at |-> at,
   received |-> received, recorded |-> clock]
Closed(row, at) == [of |-> row.recorded, at |-> at, recorded |-> clock]
Found(a, c, away, recorded) ==
  [of |-> a.recorded, who |-> c, away |-> away, at |-> clock, recorded |-> recorded]
Qualified(c, who, recorded) ==
  [claim |-> c.recorded, who |-> who, at |-> clock, recorded |-> recorded]
Vacated(c, at) == [who |-> c, at |-> at, recorded |-> clock]

Applying(p, at, received) ==
  /\ MayApply(p, at, received)
  /\ applications' = applications \union {Applied(p, at)}
  /\ decisions' = decisions \/ decisions' = decisions \union {Admitted(at, received)}
  /\ UNCHANGED <<withdrawals, claims, endings, findings, qualified, vacancies, departures>>

Withdrawing(a, at) ==
  /\ Unsettled(a)
  /\ withdrawals' = withdrawals \union {Closed(a, at)}
  /\ UNCHANGED <<applications, decisions, claims, endings, findings, qualified, vacancies,
                 departures>>

Claiming(a, c, at) ==
  /\ Unsettled(a) /\ Of(a, claims) = {}
  /\ claims' = claims \union {ClaimRow(a, c, 1, at)}
  /\ UNCHANGED <<applications, withdrawals, decisions, endings, findings, qualified, vacancies,
                 departures>>

HandingOver(a, claim, c, at) ==
  /\ Unsettled(a)
  /\ claim.of = a.recorded /\ claim.at <= at
  /\ \A o \in Of(a, claims) : o.ordinal <= claim.ordinal
  /\ endings' = endings \union {Closed(claim, at)}
  /\ claims' = claims \union {ClaimRow(a, c, claim.ordinal + 1, at)}
  /\ UNCHANGED <<applications, withdrawals, decisions, findings, qualified, vacancies,
                 departures>>

Deciding(a, claim, accepts, at, received) ==
  /\ a.at <= at /\ Unsettled(a) /\ claim.of = a.recorded
  /\ HoldsCase(a, claim, at, received)
  /\ Available(a, claim.by, at, received) /\ Available(a, claim.by, clock, clock)
  /\ decisions' = decisions \union {Decided(a, claim, accepts, at, received)}
  /\ UNCHANGED <<applications, withdrawals, claims, endings, findings, qualified, vacancies,
                 departures>>

Reporting(a, c, away, recorded) ==
  /\ Unsettled(a) /\ recorded < clock'
  /\ findings' = findings \union {Found(a, c, away, recorded)}
  /\ UNCHANGED <<applications, withdrawals, decisions, claims, endings, qualified, vacancies,
                 departures>>

Standing ==
  /\ qualified' \subseteq Qualification /\ vacancies' \subseteq Vacancy
  /\ UNCHANGED <<applications, withdrawals, decisions, claims, endings, findings, departures>>

Leaving(d, at) ==
  /\ d.at <= at
  /\ departures' = departures \union {Closed(d, at)}
  /\ UNCHANGED <<applications, withdrawals, decisions, claims, endings, findings, qualified,
                 vacancies>>

Effect(at, received) ==
  \/ \E p \in Applicants : Applying(p, at, received)
  \/ \E a \in applications : Withdrawing(a, at)
  \/ \E a \in applications, c \in Coordinators : Claiming(a, c, at)
  \/ \E a \in applications, claim \in claims, c \in Coordinators : HandingOver(a, claim, c, at)
  \/ \E a \in applications, claim \in claims, accepts \in BOOLEAN :
       Deciding(a, claim, accepts, at, received)
  \/ \E a \in applications, c \in Coordinators, away \in BOOLEAN, recorded \in Time :
       Reporting(a, c, away, recorded)
  \/ Standing
  \/ \E d \in decisions : Leaving(d, at)

\* Whatever is recorded, is recorded before the next command is executed.
Stepping(at, received) ==
  /\ at <= received /\ received <= clock
  /\ clock < LastTime /\ clock' \in Nat /\ clock < clock' /\ clock' <= LastTime

LEMMA Effects ==
  ASSUME TypeOK, Next
  PROVE  \E at, received \in Time : Stepping(at, received) /\ Effect(at, received)
  <1>t. Dates \subseteq Time /\ Time \subseteq Nat BY TimeAssumption DEF Time
  <1>c. clock \in Nat BY TimeAssumption DEF TypeOK, Time
  <1>e. ASSUME NEW at \in Dates, NEW received \in Time, Executed(at, received)
        PROVE  Stepping(at, received)
    BY <1>c, <1>e, TimeAssumption DEF Executed, Stepping
  <1>w. ASSUME NEW recorded \in Time, FindingAt(recorded)
        PROVE  clock \in Time /\ Stepping(0, clock) /\ recorded < clock'
    BY <1>c, <1>w, TimeAssumption DEF FindingAt, Stepping, Time
  <1>1. ASSUME NEW at \in Dates, NEW received \in Time, NEW p \in Applicants,
               NEW automatic \in BOOLEAN, Submit(p, at, received, automatic)
        PROVE  Stepping(at, received) /\ Effect(at, received)
    <2>1. Stepping(at, received) BY <1>1, <1>e DEF Submit
    <2>2. decisions' = decisions \/ decisions' = decisions \union {Admitted(at, received)}
      BY <1>1, Zenon DEF Submit, Admitted
    <2>3. Applying(p, at, received)
      BY <1>1, <2>2 DEF Submit, Applying, Applied, holdings, standing
    <2> QED BY <2>1, <2>3 DEF Effect
  <1>2. ASSUME NEW at \in Dates, NEW received \in Time, NEW d \in decisions, Leave(d, at, received)
        PROVE  Stepping(at, received) /\ Effect(at, received)
    <2>1. Stepping(at, received) BY <1>2, <1>e DEF Leave
    <2>2. Leaving(d, at) BY <1>2 DEF Leave, Leaving, Closed, outcomes, holdings, standing
    <2> QED BY <2>1, <2>2 DEF Effect
  <1>3. ASSUME NEW at \in Dates, NEW received \in Time, NEW c \in Coordinators,
               Vacate(c, at, received)
        PROVE  Stepping(at, received) /\ Effect(at, received)
    <2>1. Stepping(at, received) BY <1>3, <1>e DEF Vacate
    <2>2. at \in Time /\ clock \in Time BY <1>t, <2>1, TimeAssumption DEF TypeOK, Stepping, Time
    <2>3. Vacated(c, at) \in Vacancy BY <2>2 DEF Vacated, Vacancy
    <2>4. Standing
      BY <1>3, <2>3 DEF Vacate, Standing, Vacated, TypeOK, outcomes, holdings
    <2> QED BY <2>1, <2>4 DEF Effect
  <1>4. ASSUME NEW at \in Dates, NEW received \in Time, NEW a \in applications,
               Withdraw(a, at, received)
        PROVE  Stepping(at, received) /\ Effect(at, received)
    <2>1. Stepping(at, received) BY <1>4, <1>e DEF Withdraw
    <2>2. Withdrawing(a, at) BY <1>4 DEF Withdraw, Withdrawing, Closed, holdings, standing
    <2> QED BY <2>1, <2>2 DEF Effect
  <1>5. ASSUME NEW at \in Dates, NEW received \in Time, NEW a \in applications,
               NEW c \in Coordinators, ClaimCase(a, c, at, received)
        PROVE  Stepping(at, received) /\ Effect(at, received)
    <2>1. Stepping(at, received) BY <1>5, <1>e DEF ClaimCase, Processing
    <2>2. Claiming(a, c, at)
      BY <1>5 DEF ClaimCase, Processing, Claiming, outcomes, standing
    <2> QED BY <2>1, <2>2 DEF Effect
  <1>6. ASSUME NEW at \in Dates, NEW received \in Time, NEW a \in applications,
               NEW claim \in Of(a, claims), NEW c \in Coordinators,
               Reassign(a, claim, c, at, received)
        PROVE  Stepping(at, received) /\ Effect(at, received)
    <2>1. Stepping(at, received) BY <1>6, <1>e DEF Reassign, Processing
    <2>2. claim \in claims /\ claim.of = a.recorded BY DEF Of
    <2>3. claim.at <= at BY <1>6 DEF Reassign, Handed, Assigned, IsLatest, CaseAt
    <2>4. \A o \in Of(a, claims) : o.ordinal <= claim.ordinal
      BY <1>6 DEF Reassign, Handed, IsHighest
    <2>5. HandingOver(a, claim, c, at)
      BY <1>6, <2>2, <2>3, <2>4 DEF Reassign, Processing, HandingOver, Closed, outcomes, standing
    <2> QED BY <2>1, <2>2, <2>5 DEF Effect
  <1>7. ASSUME NEW at \in Dates, NEW received \in Time, NEW a \in applications,
               NEW claim \in Of(a, claims), NEW accepts \in BOOLEAN,
               Decide(a, claim, accepts, at, received)
        PROVE  Stepping(at, received) /\ Effect(at, received)
    <2>1. Stepping(at, received) BY <1>7, <1>e DEF Decide, Processing
    <2>2. claim \in claims /\ claim.of = a.recorded BY DEF Of
    <2>3. Available(a, claim.by, at, received) /\ Available(a, claim.by, clock, clock)
      BY <1>7 DEF Decide, HolderStands, CanAct
    <2>4. a.at <= at /\ Unsettled(a) /\ HoldsCase(a, claim, at, received)
      BY <1>7 DEF Decide, Processing, Present
    <2>5. Deciding(a, claim, accepts, at, received)
      BY <1>7, <2>2, <2>3, <2>4 DEF Decide, Deciding, Decided, holdings, standing
    <2> QED BY <2>1, <2>2, <2>5 DEF Effect
  <1>8. ASSUME NEW a \in applications, NEW claim \in claims, NEW c \in Coordinators,
               NEW recorded \in Time, NEW away \in BOOLEAN,
               FindAvailability(a, claim, c, away, recorded)
        PROVE  Stepping(0, clock) /\ Effect(0, clock) /\ clock \in Time
    <2>1. clock \in Time /\ Stepping(0, clock) /\ recorded < clock'
      BY <1>8, <1>w DEF FindAvailability
    <2>2. Reporting(a, c, away, recorded)
      BY <1>8, <2>1 DEF FindAvailability, OpenClaim, Reporting, Found, outcomes, holdings
    <2> QED BY <2>1, <2>2 DEF Effect
  <1>9. ASSUME NEW a \in applications, NEW claim \in claims, NEW c \in Coordinators,
               NEW recorded \in Time, QualifyReplacement(a, claim, c, recorded)
        PROVE  Stepping(0, clock) /\ Effect(0, clock) /\ clock \in Time
    <2>1. clock \in Time /\ Stepping(0, clock)
      BY <1>9, <1>w DEF QualifyReplacement
    <2>2. claim.recorded \in Time BY DEF TypeOK, Claim
    <2>3. Qualified(claim, c, recorded) \in Qualification
      BY <2>1, <2>2 DEF Qualified, Qualification
    <2>4. Standing
      BY <1>9, <2>3 DEF QualifyReplacement, Standing, Qualified, TypeOK, outcomes, holdings
    <2> QED BY <2>1, <2>4 DEF Effect
  <1>10. 0 \in Time BY TimeAssumption DEF Time
  <1> QED
    BY <1>t, <1>1, <1>2, <1>3, <1>4, <1>5, <1>6, <1>7, <1>8, <1>9, <1>10 DEF Next

LEMMA Numbers ==
  ASSUME TypeOK, NEW at \in Time, NEW received \in Time, Stepping(at, received)
  PROVE  /\ clock \in Nat /\ clock \in Time /\ clock < clock'
         /\ clock' \in Nat /\ clock' \in Time
         /\ at \in Nat /\ received \in Nat
  BY TimeAssumption DEF TypeOK, Stepping, Time

\* What the fields of the rows are.
LEMMA Fields ==
  ASSUME TypeOK
  PROVE  /\ \A a \in applications : a.recorded \in Nat /\ a.recorded \in Time /\ a.at \in Nat
         /\ \A d \in decisions : d.of \in Nat /\ d.at \in Nat /\ d.recorded \in Nat
                                 /\ d.recorded \in Time
         /\ \A w \in withdrawals : w.of \in Nat
         /\ \A c \in claims : /\ c.of \in Nat /\ c.ordinal \in Nat /\ c.at \in Nat
                              /\ c.recorded \in Nat /\ c.recorded \in Time
         /\ \A e \in endings : e.of \in Nat /\ e.at \in Nat /\ e.recorded \in Nat
         /\ \A f \in findings : f.of \in Nat /\ f.at \in Nat /\ f.recorded \in Nat
         /\ \A x \in departures : x.of \in Nat /\ x.at \in Nat
  <1>1. Time \subseteq Nat BY TimeAssumption DEF Time
  <1> QED BY <1>1 DEF TypeOK, Application, Decision, Claim, Finding, Closing

-----------------------------------------------------------------------------
LEMMA LedgerStep == ASSUME Ledger, Next PROVE Ledger'
  <1>t. TypeOK /\ Past /\ ToldApart BY DEF Ledger
  <1>1. PICK at, received \in Time : Stepping(at, received) /\ Effect(at, received)
    BY <1>t, Effects
  <1>n. /\ clock \in Nat /\ clock \in Time /\ clock < clock'
        /\ clock' \in Nat /\ clock' \in Time /\ received \in Time
        /\ at \in Time /\ at \in Nat
    BY <1>1, <1>t, Numbers
  <1>f. /\ \A a \in applications : a.recorded \in Nat /\ a.recorded \in Time
        /\ \A d \in decisions : d.of \in Nat /\ d.recorded \in Nat /\ d.recorded \in Time
        /\ \A w \in withdrawals : w.of \in Nat
        /\ \A c \in claims : c.recorded \in Nat /\ c.recorded \in Time /\ c.ordinal \in Nat
        /\ \A e \in endings : e.of \in Nat /\ e.recorded \in Nat
        /\ \A f \in findings : f.recorded \in Nat
        /\ \A x \in departures : x.of \in Nat
    BY <1>t, Fields
  <1>r. \A row \in applications \union decisions \union claims : Closed(row, at) \in Closing
    BY <1>n, <1>f DEF Closed, Closing
  <1>2. ASSUME NEW p \in Applicants, Applying(p, at, received) PROVE Ledger'
    <2>1. Applied(p, at) \in Application /\ Admitted(at, received) \in Decision
      BY <1>n, TimeAssumption DEF Applied, Application, Admitted, Decision, Time
    <2>2. TypeOK' BY <1>2, <1>n, <1>t, <2>1 DEF Applying, TypeOK
    <2>3. /\ Applied(p, at).recorded = clock
          /\ Admitted(at, received).of = clock /\ Admitted(at, received).recorded = clock
      BY DEF Applied, Admitted
    <2>4. Past' BY <1>2, <1>n, <1>f, <1>t, <2>3 DEF Applying, Past
    <2>5. ToldApart' BY <1>2, <1>n, <1>f, <1>t, <2>3 DEF Applying, Past, ToldApart
    <2> QED BY <2>2, <2>4, <2>5 DEF Ledger
  <1>3. ASSUME NEW a \in applications, Withdrawing(a, at) PROVE Ledger'
    <2>1. TypeOK' BY <1>3, <1>n, <1>t, <1>r DEF Withdrawing, TypeOK
    <2>2. Closed(a, at).of = a.recorded BY DEF Closed
    <2>3. Past' /\ ToldApart'
      BY <1>3, <1>n, <1>f, <1>t, <2>2 DEF Withdrawing, Past, ToldApart
    <2> QED BY <2>1, <2>3 DEF Ledger
  <1>4. ASSUME NEW a \in applications, NEW c \in Coordinators, Claiming(a, c, at) PROVE Ledger'
    <2>1. ClaimRow(a, c, 1, at) \in Claim BY <1>n, <1>f DEF ClaimRow, Claim
    <2>2. TypeOK' BY <1>4, <1>n, <1>t, <2>1 DEF Claiming, TypeOK
    <2>3. ClaimRow(a, c, 1, at).recorded = clock BY DEF ClaimRow
    <2>4. Past' /\ ToldApart'
      BY <1>4, <1>n, <1>f, <1>t, <2>3 DEF Claiming, Past, ToldApart
    <2> QED BY <2>2, <2>4 DEF Ledger
  <1>5. ASSUME NEW a \in applications, NEW claim \in claims, NEW c \in Coordinators,
               HandingOver(a, claim, c, at)
        PROVE  Ledger'
    <2> DEFINE row == ClaimRow(a, c, claim.ordinal + 1, at)
    <2>1. row \in Claim /\ row.recorded = clock BY <1>n, <1>f DEF ClaimRow, Claim
    <2>2. Closed(claim, at).of = claim.recorded /\ Closed(claim, at).recorded = clock BY DEF Closed
    <2>3. claims' = claims \union {row} BY <1>5 DEF HandingOver
    <2> HIDE DEF row
    <2>4. TypeOK' BY <1>5, <1>n, <1>t, <1>r, <2>1, <2>3 DEF HandingOver, TypeOK
    <2>5. Past' BY <1>5, <1>n, <1>f, <1>t, <2>1, <2>2, <2>3 DEF HandingOver, Past
    <2>6. ToldApart' BY <1>5, <1>n, <1>f, <1>t, <2>1, <2>3 DEF HandingOver, Past, ToldApart
    <2> QED BY <2>4, <2>5, <2>6 DEF Ledger
  <1>6. ASSUME NEW a \in applications, NEW claim \in claims, NEW accepts \in BOOLEAN,
               Deciding(a, claim, accepts, at, received)
        PROVE  Ledger'
    <2>1. Decided(a, claim, accepts, at, received) \in Decision BY <1>n, <1>f DEF Decided, Decision
    <2>2. TypeOK' BY <1>6, <1>n, <1>t, <2>1 DEF Deciding, TypeOK
    <2>3. /\ Decided(a, claim, accepts, at, received).of = a.recorded
          /\ Decided(a, claim, accepts, at, received).recorded = clock
      BY DEF Decided
    <2>4. Past' /\ ToldApart'
      BY <1>6, <1>n, <1>f, <1>t, <2>3 DEF Deciding, Past, ToldApart
    <2> QED BY <2>2, <2>4 DEF Ledger
  <1>7. ASSUME NEW a \in applications, NEW c \in Coordinators, NEW away \in BOOLEAN,
               NEW recorded \in Time, Reporting(a, c, away, recorded)
        PROVE  Ledger'
    <2>1. Found(a, c, away, recorded) \in Finding BY <1>n, <1>f DEF Found, Finding
    <2>2. TypeOK' BY <1>7, <1>n, <1>t, <2>1 DEF Reporting, TypeOK
    <2>3. Found(a, c, away, recorded).recorded = recorded BY DEF Found
    <2>4. Past' /\ ToldApart'
      BY <1>7, <1>n, <1>f, <1>t, <2>3 DEF Reporting, Past, ToldApart
    <2> QED BY <2>2, <2>4 DEF Ledger
  <1>8. CASE Standing
    <2>1. TypeOK' BY <1>8, <1>n, <1>t DEF Standing, TypeOK
    <2>2. Past' /\ ToldApart' BY <1>8, <1>n, <1>f, <1>t DEF Standing, Past, ToldApart
    <2> QED BY <2>1, <2>2 DEF Ledger
  <1>9. ASSUME NEW d \in decisions, Leaving(d, at) PROVE Ledger'
    <2>1. TypeOK' BY <1>9, <1>n, <1>t, <1>r DEF Leaving, TypeOK
    <2>2. Closed(d, at).of = d.recorded BY DEF Closed
    <2>3. Past' /\ ToldApart'
      BY <1>9, <1>n, <1>f, <1>t, <2>2 DEF Leaving, Past, ToldApart
    <2> QED BY <2>1, <2>3 DEF Ledger
  <1> QED BY <1>1, <1>2, <1>3, <1>4, <1>5, <1>6, <1>7, <1>8, <1>9 DEF Effect

-----------------------------------------------------------------------------
(* The outcome of a case and its holders.  *)

LEMMA OutcomeStep ==
  ASSUME Ledger, OneOutcome, Next
  PROVE  OneOutcome'
  <1>t. TypeOK /\ Past BY DEF Ledger
  <1>1. PICK at, received \in Time : Stepping(at, received) /\ Effect(at, received)
    BY <1>t, Effects
  <1>f. /\ \A d \in decisions : d.of \in Nat
        /\ \A w \in withdrawals : w.of \in Nat /\ w.of < clock
        /\ clock \in Nat
    BY <1>t, <1>1, Fields, Numbers DEF Past
  <1>2. ASSUME NEW p \in Applicants, Applying(p, at, received) PROVE OneOutcome'
    <2>1. Admitted(at, received).of = clock BY DEF Admitted
    <2> QED BY <1>2, <1>f, <2>1 DEF Applying, OneOutcome
  <1>3. ASSUME NEW a \in applications, Withdrawing(a, at) PROVE OneOutcome'
    <2>1. Closed(a, at).of = a.recorded BY DEF Closed
    <2> QED BY <1>3, <2>1 DEF Withdrawing, OneOutcome, Unsettled, Of
  <1>4. ASSUME NEW a \in applications, NEW claim \in claims, NEW accepts \in BOOLEAN,
               Deciding(a, claim, accepts, at, received)
        PROVE  OneOutcome'
    <2>1. Decided(a, claim, accepts, at, received).of = a.recorded BY DEF Decided
    <2> QED BY <1>4, <2>1 DEF Deciding, OneOutcome, Unsettled, Of
  <1>5. CASE UNCHANGED <<decisions, withdrawals>> BY <1>5 DEF OneOutcome
  <1> QED
    BY <1>1, <1>2, <1>3, <1>4, <1>5
    DEF Effect, Claiming, HandingOver, Reporting, Standing, Leaving

LEMMA TransferStep ==
  ASSUME Ledger, Transfers, Next
  PROVE  Transfers'
  <1>t. TypeOK /\ Past /\ ToldApart BY DEF Ledger
  <1>1. PICK at, received \in Time : Stepping(at, received) /\ Effect(at, received)
    BY <1>t, Effects
  <1>f. /\ \A c \in claims : c.recorded \in Nat /\ c.recorded < clock
        /\ \A e \in endings : e.of \in Nat /\ e.of < clock
        /\ clock \in Nat
    BY <1>t, <1>1, Fields, Numbers DEF Past
  <1>2. ASSUME NEW a \in applications, NEW c \in Coordinators, Claiming(a, c, at)
        PROVE  Transfers'
    <2>1. ClaimRow(a, c, 1, at).recorded = clock BY DEF ClaimRow
    <2> QED BY <1>2, <1>f, <2>1 DEF Claiming, Transfers
  <1>3. ASSUME NEW a \in applications, NEW claim \in claims, NEW who \in Coordinators,
               HandingOver(a, claim, who, at)
        PROVE  Transfers'
    <2> DEFINE row == ClaimRow(a, who, claim.ordinal + 1, at)
    <2>1. /\ row.recorded = clock /\ row.of = a.recorded /\ row.at = at
          /\ row.ordinal = claim.ordinal + 1
      BY DEF ClaimRow
    <2>2. claims' = claims \union {row} BY <1>3 DEF HandingOver
    <2> HIDE DEF row
    <2> SUFFICES ASSUME NEW c \in claims', NEW e \in endings', e.of = c.recorded
                 PROVE  \E s \in claims' : s.of = c.of /\ s.ordinal = c.ordinal + 1
                                         /\ s.at = e.at /\ s.recorded = e.recorded
      BY DEF Transfers
    <2>3. CASE e \in endings
      <3>1. c \in claims BY <2>3, <2>1, <2>2, <1>f
      <3> QED BY <3>1, <2>3, <2>2 DEF Transfers
    <2>4. CASE e = Closed(claim, at)
      <3>1. e.of = claim.recorded /\ e.at = at /\ e.recorded = clock BY <2>4 DEF Closed
      <3>2. e.of # clock BY <3>1, <1>f
      <3>3. c \in claims BY <3>2, <2>1, <2>2
      <3>4. c = claim BY <3>1, <3>3, <1>t DEF ToldApart
      <3>5. claim.of = a.recorded BY <1>3 DEF HandingOver
      <3> QED BY <3>1, <3>4, <3>5, <2>1, <2>2
    <2> QED BY <1>3, <2>3, <2>4 DEF HandingOver
  <1>4. CASE UNCHANGED <<claims, endings>> BY <1>4 DEF Transfers
  <1> QED
    BY <1>1, <1>2, <1>3, <1>4
    DEF Effect, Applying, Withdrawing, Deciding, Reporting, Standing, Leaving

\* A new claim of a case comes after all the claims of that case.
LEMMA LineageStep ==
  ASSUME Ledger, Lineage, Next
  PROVE  Lineage'
  <1>t. TypeOK /\ Past /\ ToldApart BY DEF Ledger
  <1>1. PICK at, received \in Time : Stepping(at, received) /\ Effect(at, received)
    BY <1>t, Effects
  <1>f. /\ \A c \in claims : c.ordinal \in Nat /\ c.at \in Nat /\ c.recorded \in Nat
                            /\ c.recorded < clock
        /\ \A e \in endings : e.at \in Nat /\ e.recorded \in Nat
        /\ clock \in Nat /\ at \in Nat
    BY <1>t, <1>1, Fields, Numbers DEF Past
  <1>2. ASSUME NEW a \in applications, NEW c \in Coordinators, Claiming(a, c, at)
        PROVE  Lineage'
    <2>r. PICK row : row = ClaimRow(a, c, 1, at) OBVIOUS
    <2>1. row.of = a.recorded /\ claims' = claims \union {row} /\ endings' = endings
      BY <2>r, <1>2 DEF Claiming, ClaimRow
    <2>2. \A o \in claims : o.of # a.recorded BY <1>2 DEF Claiming, Of
    <2> QED BY <2>1, <2>2 DEF Lineage, GaveWayTo
  <1>3. ASSUME NEW a \in applications, NEW claim \in claims, NEW who \in Coordinators,
               HandingOver(a, claim, who, at)
        PROVE  Lineage'
    <2>r. PICK row : row = ClaimRow(a, who, claim.ordinal + 1, at) OBVIOUS
    <2>1. /\ row.recorded = clock /\ row.of = a.recorded /\ row.at = at
          /\ row.ordinal = claim.ordinal + 1
      BY <2>r DEF ClaimRow
    <2>2. claims' = claims \union {row} /\ endings' = endings \union {Closed(claim, at)}
      BY <2>r, <1>3 DEF HandingOver
    <2>3. claim.of = a.recorded /\ claim.at <= at BY <1>3 DEF HandingOver
    <2>4. \A o \in claims : o.of = a.recorded => o.ordinal <= claim.ordinal
      BY <1>3 DEF HandingOver, Of
    <2>5. Closed(claim, at).of = claim.recorded /\ Closed(claim, at).at = at
          /\ Closed(claim, at).recorded = clock
      BY DEF Closed
    <2>6. \A c, o : GaveWayTo(c, o) => GaveWayTo(c, o)' BY <2>2 DEF GaveWayTo
    <2>7. GaveWayTo(claim, row)' BY <2>1, <2>2, <2>5, <1>f DEF GaveWayTo
    <2>8. \A c \in claims : c.of = a.recorded => GaveWayTo(c, row)'
      <3> SUFFICES ASSUME NEW c \in claims, c.of = a.recorded, c # claim
                   PROVE  GaveWayTo(c, row)'
        BY <2>7
      <3>1. c.ordinal <= claim.ordinal BY <2>4
      <3>2. GaveWayTo(c, claim) BY <3>1, <2>3, <1>f DEF Lineage, GaveWayTo
      <3>3. PICK e \in endings : e.of = c.recorded /\ e.at <= claim.at /\ e.recorded <= claim.recorded
        BY <3>2 DEF GaveWayTo
      <3>4. e.at <= row.at /\ e.recorded <= row.recorded BY <3>3, <2>1, <2>3, <1>f
      <3>5. c.ordinal < row.ordinal BY <3>1, <2>1, <1>f
      <3> QED BY <3>3, <3>4, <3>5, <2>2 DEF GaveWayTo
    <2> QED BY <2>1, <2>2, <2>6, <2>8 DEF Lineage
  <1>4. CASE UNCHANGED <<claims, endings>> BY <1>4 DEF Lineage, GaveWayTo
  <1> QED
    BY <1>1, <1>2, <1>3, <1>4
    DEF Effect, Applying, Withdrawing, Deciding, Reporting, Standing, Leaving

\* By now everything is known.
LEMMA AllKnown ==
  ASSUME TypeOK, Past
  PROVE  /\ Known(claims, clock) = claims /\ Known(endings, clock) = endings
         /\ Known(findings, clock) = findings
         /\ \A a : Known(Of(a, claims), clock) = Of(a, claims)
         /\ \A a : Known(Of(a, findings), clock) = Of(a, findings)
  <1>1. clock \in Nat BY TimeAssumption DEF TypeOK, Time
  <1>2. /\ \A c \in claims : c.recorded <= clock
        /\ \A e \in endings : e.recorded <= clock
        /\ \A f \in findings : f.recorded <= clock
    BY <1>1, Fields DEF Past
  <1> QED BY <1>2 DEF Known, Of

\* The holder a decision takes is the one by all the rows there are.
LEMMA DecidingHolder ==
  ASSUME TypeOK, Past, NEW at \in Time, NEW received \in Time, Stepping(at, received),
         NEW a \in applications, NEW claim \in claims, NEW accepts \in BOOLEAN,
         Deciding(a, claim, accepts, at, received)
  PROVE  Holding(claim, Decided(a, claim, accepts, at, received))
  <1>n. clock \in Nat /\ at \in Nat /\ received \in Nat BY Numbers
  <1>1. claim.of = a.recorded /\ Of(a, claims) = {o \in claims : o.of = claim.of}
    BY DEF Deciding, Of
  <1>2. CaseAt(a, at, clock) = {o \in claims : o.of = claim.of /\ o.at <= at}
    BY <1>1, AllKnown DEF CaseAt
  <1>3. /\ claim \in CaseAt(a, at, clock) /\ ~ClosedAt(claim, endings, at, clock)
        /\ \A o \in CaseAt(a, at, clock) : o.ordinal <= claim.ordinal
    BY DEF Deciding, HoldsCase, CurrentClaim, IsLatest, IsHighest
  <1>4. \A e \in endings : e.of = claim.recorded => e.at > at
    BY <1>3, <1>n, AllKnown, Fields DEF ClosedAt
  <1>r. PICK d : d = Decided(a, claim, accepts, at, received) OBVIOUS
  <1>d. d.at = at /\ d.received = received /\ d.recorded = clock BY <1>r DEF Decided
  <1>5. ASSUME NEW f \in findings, f.of = claim.of, f.who = claim.by, f.at <= at, f.away
        PROVE  \E g \in findings :
                 /\ g.of = claim.of /\ g.who = claim.by
                 /\ g.at <= clock /\ g.recorded <= clock
                 /\ ~g.away /\ Supersedes(g, f)
                 /\ g.at <= at \/ received < f.recorded
    <2>n. /\ \A g \in findings : g.at \in Nat /\ g.recorded \in Nat /\ g.recorded <= clock
          /\ at <= received /\ received <= clock
      BY <1>n, Fields DEF Past, Stepping
    \* The finding was known when the decision was received.
    <2>1. CASE f.recorded <= received
      <3>1. f \in AboutBy(a, claim.by, at, received)
        BY <1>1, <1>5, <2>1 DEF AboutBy, Known, Of
      <3>2. PICK g \in AboutBy(a, claim.by, at, received) : ~g.away /\ Supersedes(g, f)
        BY <1>5, <3>1 DEF Deciding, Available
      <3>3. /\ g \in findings /\ g.of = claim.of /\ g.who = claim.by /\ g.at <= at
            /\ g.recorded <= received
        BY <1>1, <3>2 DEF AboutBy, Known, Of
      <3> QED BY <1>n, <2>n, <3>2, <3>3
    \* It was not, and is judged as the decision is executed.
    <2>2. CASE received < f.recorded
      <3>1. f \in AboutBy(a, claim.by, clock, clock)
        BY <1>1, <1>n, <1>5, <2>n DEF AboutBy, Known, Of
      <3>2. PICK g \in AboutBy(a, claim.by, clock, clock) : ~g.away /\ Supersedes(g, f)
        BY <1>5, <3>1 DEF Deciding, Available
      <3>3. /\ g \in findings /\ g.of = claim.of /\ g.who = claim.by /\ g.at <= clock
            /\ g.recorded <= clock
        BY <1>1, <3>2 DEF AboutBy, Known, Of
      <3> QED BY <2>2, <3>2, <3>3
    <2> QED BY <1>n, <2>n, <2>1, <2>2
  <1>6. Unrecused(claim, d) BY <1>5, <1>d DEF Unrecused
  <1>7. Holding(claim, d) BY <1>2, <1>3, <1>4, <1>6, <1>d DEF Holding, CaseAt
  <1> QED BY <1>7, <1>r

LEMMA HolderStep ==
  ASSUME Ledger, HolderDecided, Next
  PROVE  HolderDecided'
  <1>t. TypeOK /\ Past /\ ToldApart BY DEF Ledger
  <1>1. PICK at, received \in Time : Stepping(at, received) /\ Effect(at, received)
    BY <1>t, Effects
  \* The holder of a case decided before is still the one.
  <1>u. ASSUME NEW a \in applications, Unsettled(a), NEW d \in decisions, d.claim # 0
        PROVE  \E c \in claims : c.recorded = d.claim /\ c.of = d.of /\ Holding(c, d)
                               /\ c.of # a.recorded
    BY <1>u DEF HolderDecided, Unsettled, Of
  <1>2. ASSUME NEW a \in applications, NEW who \in Coordinators, Claiming(a, who, at)
        PROVE  HolderDecided'
    <2> SUFFICES ASSUME NEW d \in decisions, d.claim # 0
                 PROVE  \E c \in claims' : c.recorded = d.claim /\ c.of = d.of /\ Holding(c, d)'
      BY <1>2 DEF Claiming, HolderDecided
    <2>1. PICK c \in claims : c.recorded = d.claim /\ c.of = d.of /\ Holding(c, d)
                             /\ c.of # a.recorded
      BY <1>2, <1>u DEF Claiming
    <2>2. ClaimRow(a, who, 1, at).of = a.recorded BY DEF ClaimRow
    <2>3. Holding(c, d)' BY <1>2, <2>1, <2>2 DEF Claiming, Holding, Unrecused
    <2> QED BY <1>2, <2>1, <2>3 DEF Claiming
  <1>3. ASSUME NEW a \in applications, NEW claim \in claims, NEW who \in Coordinators,
               HandingOver(a, claim, who, at)
        PROVE  HolderDecided'
    <2> SUFFICES ASSUME NEW d \in decisions, d.claim # 0
                 PROVE  \E c \in claims' : c.recorded = d.claim /\ c.of = d.of /\ Holding(c, d)'
      BY <1>3 DEF HandingOver, HolderDecided
    <2>1. PICK c \in claims : c.recorded = d.claim /\ c.of = d.of /\ Holding(c, d)
                             /\ c.of # a.recorded
      BY <1>3, <1>u DEF HandingOver
    <2>2. ClaimRow(a, who, claim.ordinal + 1, at).of = a.recorded BY DEF ClaimRow
    <2>3. Closed(claim, at).of = claim.recorded BY DEF Closed
    <2>4. claim.recorded # c.recorded BY <1>3, <1>t, <2>1 DEF HandingOver, ToldApart
    <2>5. Holding(c, d)'
      BY <1>3, <2>1, <2>2, <2>3, <2>4 DEF HandingOver, Holding, Unrecused
    <2> QED BY <1>3, <2>1, <2>5 DEF HandingOver
  <1>4. ASSUME NEW a \in applications, NEW who \in Coordinators, NEW away \in BOOLEAN,
               NEW recorded \in Time, Reporting(a, who, away, recorded)
        PROVE  HolderDecided'
    <2> SUFFICES ASSUME NEW d \in decisions, d.claim # 0
                 PROVE  \E c \in claims' : c.recorded = d.claim /\ c.of = d.of /\ Holding(c, d)'
      BY <1>4 DEF Reporting, HolderDecided
    <2>1. PICK c \in claims : c.recorded = d.claim /\ c.of = d.of /\ Holding(c, d)
                             /\ c.of # a.recorded
      BY <1>4, <1>u DEF Reporting
    <2>2. Found(a, who, away, recorded).of = a.recorded BY DEF Found
    <2>3. Holding(c, d)' BY <1>4, <2>1, <2>2 DEF Reporting, Holding, Unrecused
    <2> QED BY <1>4, <2>1, <2>3 DEF Reporting
  <1>5. ASSUME NEW a \in applications, NEW claim \in claims, NEW accepts \in BOOLEAN,
               Deciding(a, claim, accepts, at, received)
        PROVE  HolderDecided'
    <2>1. Holding(claim, Decided(a, claim, accepts, at, received))
      BY <1>1, <1>5, <1>t, DecidingHolder
    <2>2. claim.of = a.recorded BY <1>5 DEF Deciding
    <2>3. /\ Decided(a, claim, accepts, at, received).of = a.recorded
          /\ Decided(a, claim, accepts, at, received).claim = claim.recorded
          /\ Decided(a, claim, accepts, at, received).at = at
      BY DEF Decided
    <2>4. \A d \in decisions' : d.claim # 0 =>
            \E c \in claims : c.recorded = d.claim /\ c.of = d.of /\ Holding(c, d)
      BY <1>5, <2>1, <2>2, <2>3 DEF Deciding, HolderDecided
    <2>5. \A c, d : Holding(c, d)' <=> Holding(c, d)
      BY <1>5 DEF Deciding, Holding, Unrecused
    <2> QED BY <1>5, <2>4, <2>5 DEF Deciding, HolderDecided
  <1>6. CASE UNCHANGED <<claims, endings, findings>> /\ \A d \in decisions' : d \in decisions \/ d.claim = 0
    <2>1. \A c, d : Holding(c, d)' <=> Holding(c, d) BY <1>6 DEF Holding, Unrecused
    <2> QED BY <1>6, <2>1 DEF HolderDecided
  <1>7. ASSUME NEW p \in Applicants, Applying(p, at, received) PROVE HolderDecided'
    <2>1. Admitted(at, received).claim = 0 BY DEF Admitted
    <2> QED BY <1>6, <1>7, <2>1 DEF Applying
  <1>8. ASSUME NEW a \in applications, Withdrawing(a, at) PROVE HolderDecided'
    BY <1>6, <1>8 DEF Withdrawing
  <1>9. CASE Standing BY <1>6, <1>9 DEF Standing
  <1>10. ASSUME NEW d \in decisions, Leaving(d, at) PROVE HolderDecided'
    BY <1>6, <1>10 DEF Leaving
  <1> QED
    BY <1>1, <1>2, <1>3, <1>4, <1>5, <1>7, <1>8, <1>9, <1>10 DEF Effect

-----------------------------------------------------------------------------
(* The applications and memberships of one person.  *)

\* What an applicant is by the rows there were, when one more is applying.
LEMMA ApplyingSettled ==
  ASSUME NEW p, NEW at, NEW received, Applying(p, at, received)
  PROVE  /\ ~CurrentMember(p)
         /\ \A a \in applications : a.applicant = p => ~Unsettled(a)
         /\ \A d \in Memberships(p) : \E x \in departures : x.of = d.recorded /\ x.at < at
  BY DEF Applying, MayApply, RejoinAllowed

\* An application is settled for good; it is open only if it was, or is new.
LEMMA OpenBefore ==
  ASSUME Ledger, Next, NEW a \in applications', Unsettled(a)'
  PROVE  (a \in applications /\ Unsettled(a)) \/ a.recorded = clock
  <1>t. TypeOK BY DEF Ledger
  <1>1. PICK at, received \in Time : Stepping(at, received) /\ Effect(at, received)
    BY <1>t, Effects
  <1>2. decisions \subseteq decisions' /\ withdrawals \subseteq withdrawals'
    BY <1>1 DEF Effect, Applying, Withdrawing, Claiming, HandingOver, Deciding, Reporting, Standing,
                Leaving
  <1>3. a \in applications => Unsettled(a) BY <1>2 DEF Unsettled, Of
  <1>4. \A p \in Applicants : Applied(p, at).recorded = clock BY DEF Applied
  <1>5. a \in applications \/ a.recorded = clock
    BY <1>1, <1>4 DEF Effect, Applying, Withdrawing, Claiming, HandingOver, Deciding, Reporting,
                      Standing, Leaving
  <1> QED BY <1>3, <1>5

\* A step that is neither an application nor a decision.
Quiet ==
  applications' = applications /\ decisions' = decisions /\ departures \subseteq departures'

LEMMA Kinds ==
  ASSUME NEW at, NEW received, Effect(at, received)
  PROVE  \/ \E p \in Applicants : Applying(p, at, received)
         \/ \E a \in applications, claim \in claims, accepts \in BOOLEAN :
              Deciding(a, claim, accepts, at, received)
         \/ Quiet
  BY DEF Effect, Withdrawing, Claiming, HandingOver, Reporting, Standing, Leaving, Quiet

\* Only the one who is admitted gains a membership.
LEMMA Admitting ==
  ASSUME Ledger, NEW p, NEW at, NEW received, Applying(p, at, received), NEW q,
         NEW d \in Memberships(q)'
  PROVE  d \in Memberships(q) \/ (d = Admitted(at, received) /\ q = p)
  <1>1. clock \in Nat BY TimeAssumption DEF Ledger, TypeOK, Time
  <1>2. /\ Applied(p, at).recorded = clock /\ Applied(p, at).applicant = p
        /\ Admitted(at, received).of = clock
    BY DEF Applied, Admitted
  <1>3. /\ \A e \in decisions : e.of \in Nat /\ e.of < clock
        /\ \A b \in applications : b.recorded \in Nat /\ b.recorded < clock
    BY Fields DEF Ledger, Past
  <1>4. d \in decisions' /\ d.accepts BY DEF Memberships
  <1>5. PICK b \in applications' : b.recorded = d.of /\ b.applicant = q BY DEF Memberships
  <1>6. CASE d \in decisions
    <2>1. d.of # clock BY <1>1, <1>3, <1>6
    <2>2. b \in applications BY <1>2, <1>5, <2>1 DEF Applying
    <2> QED BY <1>4, <1>5, <1>6, <2>2 DEF Memberships
  <1>7. CASE d = Admitted(at, received)
    <2>1. b \notin applications BY <1>1, <1>2, <1>3, <1>5, <1>7
    <2> QED BY <1>2, <1>5, <1>7, <2>1 DEF Applying
  <1> QED BY <1>4, <1>6, <1>7 DEF Applying

LEMMA Accepting ==
  ASSUME Ledger, NEW at, NEW received, NEW a \in applications, NEW claim, NEW accepts,
         Deciding(a, claim, accepts, at, received), NEW q, NEW d \in Memberships(q)'
  PROVE  d \in Memberships(q) \/ q = a.applicant
  <1>1. d \in decisions' /\ d.accepts BY DEF Memberships
  <1>2. PICK b \in applications : b.recorded = d.of /\ b.applicant = q
    BY DEF Memberships, Deciding
  <1>3. CASE d \in decisions BY <1>1, <1>2, <1>3 DEF Memberships
  <1>4. CASE d = Decided(a, claim, accepts, at, received)
    <2>1. d.of = a.recorded BY <1>4 DEF Decided
    <2> QED BY <1>2, <2>1 DEF Ledger, ToldApart
  <1> QED BY <1>1, <1>3, <1>4 DEF Deciding

LEMMA QuietMembers ==
  ASSUME Quiet, NEW q
  PROVE  Memberships(q)' = Memberships(q) /\ (CurrentMember(q)' => CurrentMember(q))
  BY DEF Quiet, Memberships, CurrentMember, Ended

LEMMA StandingStep ==
  ASSUME Ledger, OneStanding, Next
  PROVE  OneStanding'
  <1>t. TypeOK /\ Past /\ ToldApart BY DEF Ledger
  <1>1. PICK at, received \in Time : Stepping(at, received) /\ Effect(at, received)
    BY <1>t, Effects
  <1>f. clock \in Nat /\ \A a \in applications : a.recorded \in Nat /\ a.recorded < clock
    BY <1>t, <1>1, Fields, Numbers DEF Past
  <1> SUFFICES ASSUME NEW a \in applications', NEW b \in applications',
                      a.applicant = b.applicant, Unsettled(a)'
               PROVE  (~Unsettled(b)' \/ a = b) /\ ~CurrentMember(a.applicant)'
    BY DEF OneStanding
  <1>a. (a \in applications /\ Unsettled(a)) \/ a.recorded = clock BY OpenBefore
  <1>b. b \in applications => Unsettled(b) \/ ~Unsettled(b)' BY <1>f, OpenBefore
  <1>2. ASSUME NEW p \in Applicants, Applying(p, at, received)
        PROVE  (~Unsettled(b)' \/ a = b) /\ ~CurrentMember(a.applicant)'
    <2>1. /\ Applied(p, at).recorded = clock /\ Applied(p, at).applicant = p
          /\ Admitted(at, received).of = clock
      BY DEF Applied, Admitted
    <2>2. applications' = applications \union {Applied(p, at)} /\ departures' = departures
      BY <1>2 DEF Applying
    <2>3. ~CurrentMember(p) /\ \A o \in applications : o.applicant = p => ~Unsettled(o)
      BY <1>2, ApplyingSettled
    <2>4. CASE a \in applications /\ Unsettled(a)
      <3>1. a.applicant # p BY <2>3, <2>4
      <3>2. b \in applications BY <2>1, <2>2, <3>1
      <3>3. ~CurrentMember(a.applicant)'
        BY <1>2, <2>2, <2>4, <3>1, Admitting DEF OneStanding, CurrentMember, Ended
      <3> QED BY <1>b, <2>4, <3>2, <3>3 DEF OneStanding
    <2>5. CASE a.recorded = clock
      <3>1. a = Applied(p, at) BY <1>f, <2>2, <2>5
      <3>2. ~Unsettled(b)' \/ a = b BY <1>b, <2>1, <2>2, <2>3, <3>1
      <3>3. Admitted(at, received) \notin decisions' BY <2>1, <2>5 DEF Unsettled, Of
      <3>4. \A d \in Memberships(p)' : d \in Memberships(p)
        BY <1>2, <3>3, Admitting DEF Memberships
      <3> QED BY <2>1, <2>2, <2>3, <3>1, <3>2, <3>4 DEF CurrentMember, Ended
    <2> QED BY <1>a, <2>4, <2>5
  <1>3. ASSUME NEW o \in applications, NEW claim \in claims, NEW accepts \in BOOLEAN,
               Deciding(o, claim, accepts, at, received)
        PROVE  (~Unsettled(b)' \/ a = b) /\ ~CurrentMember(a.applicant)'
    <2>1. applications' = applications /\ departures' = departures BY <1>3 DEF Deciding
    <2>2. a \in applications /\ b \in applications /\ Unsettled(a)
      BY <1>a, <1>f, <2>1
    <2>3. Decided(o, claim, accepts, at, received).of = o.recorded BY DEF Decided
    <2>4. ~Unsettled(o)' BY <1>3, <2>3 DEF Deciding, Unsettled, Of
    <2>5. a.applicant # o.applicant
      BY <1>3, <2>2, <2>4 DEF OneStanding, Deciding
    <2>6. ~CurrentMember(a.applicant)'
      BY <1>3, <2>1, <2>2, <2>5, Accepting DEF OneStanding, CurrentMember, Ended
    <2> QED BY <1>b, <2>2, <2>6 DEF OneStanding
  <1>4. CASE Quiet
    <2>1. a \in applications /\ b \in applications /\ Unsettled(a)
      BY <1>a, <1>f, <1>4 DEF Quiet
    <2> QED BY <1>b, <1>4, <2>1, QuietMembers DEF OneStanding
  <1> QED BY <1>1, <1>2, <1>3, <1>4, Kinds

LEMMA DepartureStep ==
  ASSUME Ledger, DeparturesFollow, Next
  PROVE  DeparturesFollow'
  <1>t. TypeOK /\ Past /\ ToldApart BY DEF Ledger
  <1>1. PICK at, received \in Time : Stepping(at, received) /\ Effect(at, received)
    BY <1>t, Effects
  <1>f. clock \in Nat /\ \A x \in departures : x.of \in Nat /\ x.of < clock
    BY <1>t, <1>1, Fields, Numbers DEF Past
  <1>2. CASE departures' = departures /\ \A d \in decisions' : d \in decisions \/ d.recorded = clock
    BY <1>2, <1>f DEF DeparturesFollow
  <1>3. ASSUME NEW p \in Applicants, Applying(p, at, received) PROVE DeparturesFollow'
    <2>1. Admitted(at, received).recorded = clock BY DEF Admitted
    <2> QED BY <1>2, <1>3, <2>1 DEF Applying
  <1>4. ASSUME NEW a \in applications, NEW claim \in claims, NEW accepts \in BOOLEAN,
               Deciding(a, claim, accepts, at, received)
        PROVE  DeparturesFollow'
    <2>1. Decided(a, claim, accepts, at, received).recorded = clock BY DEF Decided
    <2> QED BY <1>2, <1>4, <2>1 DEF Deciding
  <1>5. ASSUME NEW d \in decisions, Leaving(d, at) PROVE DeparturesFollow'
    <2>1. Closed(d, at).of = d.recorded /\ Closed(d, at).at = at BY DEF Closed
    <2> QED BY <1>5, <1>t, <2>1 DEF Leaving, DeparturesFollow, ToldApart
  <1> QED
    BY <1>1, <1>2, <1>3, <1>4, <1>5
    DEF Effect, Withdrawing, Claiming, HandingOver, Reporting, Standing

\* Every membership of somebody who applies ended before the application.
LEMMA FreshStep ==
  ASSUME Ledger, OneStanding, DeparturesFollow, Fresh, Next
  PROVE  Fresh'
  <1>t. TypeOK /\ Past BY DEF Ledger
  <1>1. PICK at, received \in Time : Stepping(at, received) /\ Effect(at, received)
    BY <1>t, Effects
  <1>f. clock \in Nat /\ \A a \in applications : a.recorded \in Nat /\ a.recorded < clock
    BY <1>t, <1>1, Fields, Numbers DEF Past
  <1> SUFFICES ASSUME NEW b \in applications', Unsettled(b)', NEW d \in Memberships(b.applicant)'
               PROVE  \E x \in departures' : x.of = d.recorded /\ d.at <= x.at /\ x.at < b.at
    BY DEF Fresh
  <1>b. (b \in applications /\ Unsettled(b)) \/ b.recorded = clock BY OpenBefore
  <1>2. ASSUME NEW p \in Applicants, Applying(p, at, received)
        PROVE  \E x \in departures' : x.of = d.recorded /\ d.at <= x.at /\ x.at < b.at
    <2>1. /\ Applied(p, at).at = at /\ Applied(p, at).applicant = p
          /\ Admitted(at, received).of = clock
      BY DEF Applied, Admitted
    <2>2. applications' = applications \union {Applied(p, at)} /\ departures' = departures
      BY <1>2 DEF Applying
    <2>3. CASE b \in applications /\ Unsettled(b)
      <3>1. b.applicant # p BY <1>2, <2>3, ApplyingSettled
      <3>2. d \in Memberships(b.applicant) BY <1>2, <3>1, Admitting
      <3> QED BY <2>2, <2>3, <3>2 DEF Fresh
    <2>4. CASE b.recorded = clock
      <3>1. b = Applied(p, at) BY <1>f, <2>2, <2>4
      <3>2. Admitted(at, received) \notin decisions' BY <2>1, <2>4 DEF Unsettled, Of
      <3>3. d \in Memberships(p)
        BY <1>2, <2>1, <3>1, <3>2, Admitting DEF Memberships
      <3>4. PICK x \in departures : x.of = d.recorded /\ x.at < at
        BY <1>2, <3>3, ApplyingSettled
      <3>5. d.at <= x.at BY <3>3, <3>4 DEF Memberships, DeparturesFollow
      <3> QED BY <2>1, <2>2, <3>1, <3>4, <3>5
    <2> QED BY <1>b, <2>3, <2>4
  <1>3. ASSUME NEW o \in applications, NEW claim \in claims, NEW accepts \in BOOLEAN,
               Deciding(o, claim, accepts, at, received)
        PROVE  \E x \in departures' : x.of = d.recorded /\ d.at <= x.at /\ x.at < b.at
    <2>1. applications' = applications /\ departures' = departures BY <1>3 DEF Deciding
    <2>2. b \in applications /\ Unsettled(b) BY <1>b, <1>f, <2>1
    <2>3. Decided(o, claim, accepts, at, received).of = o.recorded BY DEF Decided
    <2>4. ~Unsettled(o)' BY <1>3, <2>3 DEF Deciding, Unsettled, Of
    <2>5. b.applicant # o.applicant BY <1>3, <2>2, <2>4 DEF OneStanding, Deciding
    <2>6. d \in Memberships(b.applicant) BY <1>3, <2>5, Accepting
    <2> QED BY <2>1, <2>2, <2>6 DEF Fresh
  <1>4. CASE Quiet
    <2>1. b \in applications /\ Unsettled(b) BY <1>b, <1>f, <1>4 DEF Quiet
    <2>2. d \in Memberships(b.applicant) BY <1>4, QuietMembers
    <2> QED BY <1>4, <2>1, <2>2 DEF Fresh, Quiet
  <1> QED BY <1>1, <1>2, <1>3, <1>4, Kinds

\* One membership ended before the application that led to the next.
Apart(d, b, e) == \E x \in departures :
  x.of = d.recorded /\ d.at <= x.at /\ x.at < b.at /\ b.at <= e.at

LEMMA PeriodStep ==
  ASSUME Ledger, People, Next
  PROVE  PeriodsApart'
  <1>t. TypeOK /\ Past /\ ToldApart BY DEF Ledger
  <1>1. PICK at, received \in Time : Stepping(at, received) /\ Effect(at, received)
    BY <1>t, Effects
  <1>n. clock \in Nat /\ at \in Nat BY <1>t, <1>1, Numbers
  <1>f. /\ \A a \in applications : a.recorded \in Nat /\ a.recorded < clock
        /\ \A d \in decisions : /\ d.recorded \in Nat /\ d.recorded < clock
                                /\ d.of \in Nat /\ d.of < clock
    BY <1>t, Fields DEF Past
  <1>p. OneStanding /\ DeparturesFollow /\ Fresh /\ PeriodsApart BY DEF People
  <1> SUFFICES ASSUME NEW a \in applications', NEW b \in applications',
                      NEW d \in decisions', NEW e \in decisions',
                      a.applicant = b.applicant, d.of = a.recorded, e.of = b.recorded,
                      d.accepts, e.accepts, d.recorded < e.recorded
               PROVE  Apart(d, b, e)'
    BY DEF PeriodsApart, Apart
  <1>2. ASSUME a \in applications, b \in applications, d \in decisions, e \in decisions,
               departures \subseteq departures'
        PROVE  Apart(d, b, e)'
    BY <1>2, <1>p DEF PeriodsApart, Apart
  <1>3. ASSUME NEW p \in Applicants, Applying(p, at, received) PROVE Apart(d, b, e)'
    <2>1. /\ Applied(p, at).recorded = clock /\ Applied(p, at).at = at
          /\ Applied(p, at).applicant = p
          /\ Admitted(at, received).of = clock /\ Admitted(at, received).recorded = clock
          /\ Admitted(at, received).at = at
      BY DEF Applied, Admitted
    <2>2. /\ applications' = applications \union {Applied(p, at)} /\ departures' = departures
          /\ \A x \in decisions' : x \in decisions \/ x = Admitted(at, received)
      BY <1>3 DEF Applying
    <2>3. e.recorded \in Nat /\ e.recorded <= clock BY <1>n, <1>f, <2>1, <2>2
    <2>4. d \in decisions
      <3>1. Admitted(at, received).recorded = clock /\ d.recorded < e.recorded BY <2>1
      <3> QED BY <1>n, <2>2, <2>3, <3>1
    <2>5. a \in applications
      <3>1. d.of # clock BY <1>n, <1>f, <2>4
      <3> QED BY <2>1, <2>2, <3>1
    <2>6. CASE e \in decisions
      <3>1. e.of # clock BY <1>n, <1>f, <2>6
      <3>2. b \in applications BY <2>1, <2>2, <3>1
      <3> QED BY <1>2, <2>2, <2>4, <2>5, <2>6, <3>2
    <2>7. CASE e = Admitted(at, received)
      <3>1. b \notin applications BY <1>n, <1>f, <2>1, <2>7
      <3>2. b = Applied(p, at) BY <2>2, <3>1
      <3>3. d \in Memberships(p) BY <2>1, <2>4, <2>5, <3>2 DEF Memberships
      <3>4. PICK x \in departures : x.of = d.recorded /\ x.at < at
        BY <1>3, <3>3, ApplyingSettled
      <3>5. d.at <= x.at BY <1>p, <2>4, <3>4 DEF DeparturesFollow
      <3>6. b.at = at /\ e.at = at /\ at <= at BY <1>n, <2>1, <2>7, <3>2
      <3> QED BY <2>2, <3>4, <3>5, <3>6 DEF Apart
    <2> QED BY <2>2, <2>6, <2>7
  <1>4. ASSUME NEW o \in applications, NEW claim \in claims, NEW accepts \in BOOLEAN,
               Deciding(o, claim, accepts, at, received)
        PROVE  Apart(d, b, e)'
    <2>1. /\ Decided(o, claim, accepts, at, received).recorded = clock
          /\ Decided(o, claim, accepts, at, received).of = o.recorded
          /\ Decided(o, claim, accepts, at, received).at = at
      BY DEF Decided
    <2>2. /\ applications' = applications /\ departures' = departures
          /\ \A x \in decisions' : x \in decisions \/ x = Decided(o, claim, accepts, at, received)
          /\ Unsettled(o) /\ o.at <= at
      BY <1>4 DEF Deciding
    <2>3. e.recorded \in Nat /\ e.recorded <= clock BY <1>n, <1>f, <2>1, <2>2
    <2>4. d \in decisions
      <3>1. Decided(o, claim, accepts, at, received).recorded = clock /\ d.recorded < e.recorded BY <2>1
      <3> QED BY <1>n, <2>2, <2>3, <3>1
    <2>5. CASE e \in decisions BY <1>2, <2>2, <2>4, <2>5
    <2>6. CASE e = Decided(o, claim, accepts, at, received)
      <3>1. b = o BY <1>t, <2>1, <2>2, <2>6 DEF ToldApart
      <3>2. d \in Memberships(o.applicant) BY <2>2, <2>4, <3>1 DEF Memberships
      <3>3. PICK x \in departures : x.of = d.recorded /\ d.at <= x.at /\ x.at < o.at
        BY <1>p, <2>2, <3>2 DEF Fresh
      <3>4. b.at <= e.at BY <2>1, <2>2, <2>6, <3>1
      <3> QED BY <2>2, <3>1, <3>3, <3>4 DEF Apart
    <2> QED BY <2>2, <2>5, <2>6
  <1>5. CASE Quiet BY <1>2, <1>5 DEF Quiet
  <1> QED BY <1>1, <1>3, <1>4, <1>5, Kinds

-----------------------------------------------------------------------------
LEMMA Stutter ==
  ASSUME IInv, UNCHANGED vars
  PROVE  IInv'
  <1>1. Ledger' BY DEF IInv, Ledger, TypeOK, Past, ToldApart, vars
  <1>2. OneOutcome' /\ Transfers' /\ Lineage'
    BY DEF IInv, Cases, OneOutcome, Transfers, Lineage, GaveWayTo, vars
  <1>3. HolderDecided'
    <2>1. \A c, d : Holding(c, d)' <=> Holding(c, d) BY DEF Holding, Unrecused, vars
    <2> QED BY <2>1 DEF IInv, Cases, HolderDecided, vars
  <1>4. /\ \A a : Unsettled(a)' <=> Unsettled(a)
        /\ \A p : Memberships(p)' = Memberships(p)
        /\ \A p : CurrentMember(p)' <=> CurrentMember(p)
    BY DEF vars, Unsettled, Of, Memberships, CurrentMember, Ended
  <1>5. OneStanding' BY <1>4 DEF IInv, People, OneStanding, vars
  <1>6. DeparturesFollow' /\ PeriodsApart'
    BY DEF IInv, People, DeparturesFollow, PeriodsApart, vars
  <1>7. Fresh' BY <1>4 DEF IInv, People, Fresh, vars
  <1> QED BY <1>1, <1>2, <1>3, <1>5, <1>6, <1>7 DEF IInv, Cases, People

THEOREM Inductive == Spec => []IInv
  <1>1. ASSUME Init PROVE IInv
    <2>1. Ledger BY <1>1 DEF Init, Ledger, TypeOK, Past, ToldApart
    <2>2. Cases
      BY <1>1 DEF Init, Cases, OneOutcome, Transfers, Lineage, HolderDecided
    <2>3. People
      BY <1>1 DEF Init, People, OneStanding, DeparturesFollow, Fresh, PeriodsApart
    <2> QED BY <2>1, <2>2, <2>3 DEF IInv
  <1>2. ASSUME IInv, [Next]_vars PROVE IInv'
    <2>1. CASE Next
      <3>1. Ledger' BY <1>2, <2>1, LedgerStep DEF IInv
      <3>2. Cases'
        BY <1>2, <2>1, OutcomeStep, TransferStep, LineageStep, HolderStep DEF IInv, Cases
      <3>3. People'
        BY <1>2, <2>1, StandingStep, DepartureStep, FreshStep, PeriodStep DEF IInv, People
      <3> QED BY <3>1, <3>2, <3>3 DEF IInv
    <2>2. CASE UNCHANGED vars BY <1>2, <2>2, Stutter
    <2> QED BY <1>2, <2>1, <2>2
  <1> QED BY <1>1, <1>2, PTL DEF Spec

\* Every variable keeps its type, whatever the commands, their dates and the
\* order in which they are executed.
THEOREM Typed == Spec => []TypeOK
  <1>1. IInv => TypeOK BY DEF IInv, Ledger
  <1> QED BY <1>1, Inductive, PTL

\* application_status: a case has one outcome, and a handover leaves no time
\* at which the one before has ended and the next is not read.
THEOREM StatusAlwaysReadable == Spec => []StatusReadable
  <1>1. ASSUME IInv PROVE StatusReadable
    <2> SUFFICES ASSUME NEW a \in applications, NEW at \in Time, NEW known \in Time
                 PROVE  Status(a, at, known) \notin {"INTEGRITY_FAILURE", "UNABLE"}
      BY DEF StatusReadable
    <2>1. ~(Of(a, decisions) # {} /\ Of(a, withdrawals) # {})
      BY <1>1 DEF IInv, Cases, OneOutcome, Of
    <2>2. ASSUME NEW c \in CaseAt(a, at, known), IsHighest(c, CaseAt(a, at, known))
          PROVE  ~ClosedAt(c, endings, at, known)
      <3> SUFFICES ASSUME NEW e \in Known(endings, known), e.of = c.recorded, e.at <= at
                   PROVE  FALSE
        BY DEF ClosedAt
      <3>1. c \in claims /\ c.of = a.recorded BY DEF CaseAt, Known, Of
      <3>2. e \in endings /\ e.recorded <= known BY DEF Known
      <3>3. PICK s \in claims : s.of = c.of /\ s.ordinal = c.ordinal + 1 /\ s.at = e.at
                                 /\ s.recorded = e.recorded
        BY <1>1, <3>1, <3>2 DEF IInv, Cases, Transfers
      <3>4. s \in CaseAt(a, at, known) BY <3>1, <3>2, <3>3 DEF CaseAt, Known, Of
      <3>5. s.ordinal <= c.ordinal BY <2>2, <3>4 DEF IsHighest
      <3>6. c.ordinal \in Nat BY <1>1, <3>1, Fields DEF IInv, Ledger
      <3> QED BY <3>3, <3>5, <3>6
    <2> QED BY <2>1, <2>2 DEF Status
  <1> QED BY <1>1, Inductive, PTL

\* reassign_application ends one claim as it opens the next: no date has two
\* holders of one case, by the knowledge of any time.
THEOREM CaseHasOneHolder == Spec => []OneHolder
  <1>1. ASSUME IInv PROVE OneHolder
    <2> SUFFICES ASSUME NEW c \in claims, NEW o \in claims, NEW at \in Time, NEW known \in Time,
                        c # o, c.of = o.of, c.recorded <= known, o.recorded <= known
                 PROVE  \/ c.at > at \/ o.at > at
                        \/ ClosedAt(c, endings, at, known) \/ ClosedAt(o, endings, at, known)
      BY DEF OneHolder, Known
    <2>n. at \in Nat /\ known \in Nat BY TimeAssumption DEF Time
    <2>f. /\ \A x \in claims : x.at \in Nat /\ x.recorded \in Nat
          /\ \A e \in endings : e.at \in Nat /\ e.recorded \in Nat
      BY <1>1, Fields DEF IInv, Ledger
    <2>1. ASSUME NEW x \in claims, NEW y \in claims, GaveWayTo(x, y), y.recorded <= known
          PROVE  y.at > at \/ ClosedAt(x, endings, at, known)
      <3>1. PICK e \in endings : e.of = x.recorded /\ e.at <= y.at /\ e.recorded <= y.recorded
        BY <2>1 DEF GaveWayTo
      <3>2. e.recorded <= known BY <2>1, <2>f, <2>n, <3>1
      <3>3. y.at <= at => e.at <= at BY <2>f, <2>n, <3>1
      <3>4. y.at > at \/ y.at <= at BY <2>f, <2>n
      <3> QED BY <3>1, <3>2, <3>3, <3>4 DEF ClosedAt, Known
    <2>2. GaveWayTo(c, o) \/ GaveWayTo(o, c) BY <1>1 DEF IInv, Cases, Lineage
    <2> QED BY <2>1, <2>2
  <1> QED BY <1>1, Inductive, PTL

\* decide_application and require_holder: who decided held the case as of the
\* decision's date, and had not stepped aside as of it but by a finding that was
\* released again, and was known to be unless it was being recorded at receipt.
THEOREM HolderHasDecided == Spec => []DecidedByHolder
  <1>1. ASSUME IInv PROVE DecidedByHolder
    <2> SUFFICES ASSUME NEW d \in decisions, NEW a \in applications, d.claim # 0,
                        d.of = a.recorded
                 PROVE  \E c \in CaseAt(a, d.at, clock) :
                          /\ d.claim = c.recorded
                          /\ IsHighest(c, CaseAt(a, d.at, clock))
                          /\ ~ClosedAt(c, endings, d.at, clock)
                          /\ \A f \in AboutBy(a, c.by, d.at, clock) : f.away =>
                               \E g \in AboutBy(a, c.by, d.recorded, d.recorded) :
                                 /\ ~g.away /\ Supersedes(g, f)
                                 /\ g.at <= d.at \/ d.received < f.recorded
      BY DEF DecidedByHolder
    <2>t. TypeOK /\ Past BY <1>1 DEF IInv, Ledger
    <2>1. PICK c \in claims : c.recorded = d.claim /\ c.of = d.of /\ Holding(c, d)
      BY <1>1 DEF IInv, Cases, HolderDecided
    <2>2. CaseAt(a, d.at, clock) = {o \in claims : o.of = c.of /\ o.at <= d.at}
      BY <2>t, <2>1, AllKnown DEF CaseAt, Of
    <2>3. c \in CaseAt(a, d.at, clock) /\ IsHighest(c, CaseAt(a, d.at, clock))
      BY <2>1, <2>2 DEF Holding, IsHighest
    <2>4. ~ClosedAt(c, endings, d.at, clock)
      BY <2>t, <2>1, AllKnown, Fields DEF Holding, ClosedAt
    <2>5. ASSUME NEW f \in AboutBy(a, c.by, d.at, clock), f.away
          PROVE  \E g \in AboutBy(a, c.by, d.recorded, d.recorded) :
                   /\ ~g.away /\ Supersedes(g, f)
                   /\ g.at <= d.at \/ d.received < f.recorded
      <3>1. f \in findings /\ f.of = c.of /\ f.who = c.by /\ f.at <= d.at
        BY <2>1 DEF AboutBy, Known, Of
      <3>2. PICK g \in findings :
              /\ g.of = c.of /\ g.who = c.by
              /\ g.at <= d.recorded /\ g.recorded <= d.recorded
              /\ ~g.away /\ Supersedes(g, f)
              /\ g.at <= d.at \/ d.received < f.recorded
        BY <2>1, <2>5, <3>1 DEF Holding, Unrecused
      <3>3. g \in AboutBy(a, c.by, d.recorded, d.recorded)
        BY <2>1, <3>2 DEF AboutBy, Known, Of
      <3> QED BY <3>2, <3>3
    <2> QED BY <2>1, <2>3, <2>4, <2>5
  <1> QED BY <1>1, Inductive, PTL

\* submit_application: whoever has an application open has no other and is no
\* member.
THEOREM StandsOnce == Spec => []OneStanding
  <1>1. IInv => OneStanding BY DEF IInv, People
  <1> QED BY <1>1, Inductive, PTL

\* rejoin_predecessor: a membership comes after the departure from the one
\* before it, by date as well as by record.
THEOREM PeriodsFollow == Spec => []PeriodsApart
  <1>1. IInv => PeriodsApart BY DEF IInv, People
  <1> QED BY <1>1, Inductive, PTL

\* The way of a former holder: the decision's date lies before the handover.
THEOREM FormerHolders == Spec => []FormerHolderBackdates
  <1>1. ASSUME IInv PROVE FormerHolderBackdates
    <2> SUFFICES ASSUME NEW d \in decisions, NEW c \in claims, NEW e \in endings,
                        d.claim # 0, d.claim = c.recorded, e.of = c.recorded
                 PROVE  d.of = c.of /\ d.at < e.at
      BY DEF FormerHolderBackdates
    <2>t. TypeOK /\ Past /\ ToldApart BY <1>1 DEF IInv, Ledger
    <2>2. PICK o \in claims : o.recorded = d.claim /\ o.of = d.of /\ Holding(o, d)
      BY <1>1 DEF IInv, Cases, HolderDecided
    <2>3. o = c BY <2>2, <2>t DEF ToldApart
    <2>4. d.at \in Nat /\ e.at \in Nat BY <2>t, Fields
    <2> QED BY <2>2, <2>3, <2>4 DEF Holding
  <1> QED BY <1>1, Inductive, PTL

-----------------------------------------------------------------------------
(* What was known stays known, and what is settled stays settled.  *)

\* A step adds rows, and what it adds is recorded now.
AddsRows ==
  /\ applications \subseteq applications' /\ claims \subseteq claims'
  /\ decisions \subseteq decisions' /\ withdrawals \subseteq withdrawals'
  /\ endings \subseteq endings'
  /\ \A d \in decisions' : d \in decisions \/ d.recorded = clock
  /\ \A w \in withdrawals' : w \in withdrawals \/ w.recorded = clock
  /\ \A c \in claims' : c \in claims \/ c.recorded = clock
  /\ \A e \in endings' : e \in endings \/ e.recorded = clock

LEMMA AddsNow ==
  ASSUME NEW at, NEW received, Effect(at, received)
  PROVE  AddsRows
  <1>1. ASSUME NEW p \in Applicants, Applying(p, at, received) PROVE AddsRows
    <2>1. Admitted(at, received).recorded = clock BY DEF Admitted
    <2> QED BY <1>1, <2>1 DEF Applying, AddsRows
  <1>2. ASSUME NEW a \in applications, Withdrawing(a, at) PROVE AddsRows
    <2>1. Closed(a, at).recorded = clock BY DEF Closed
    <2> QED BY <1>2, <2>1 DEF Withdrawing, AddsRows
  <1>3. ASSUME NEW a \in applications, NEW c \in Coordinators, Claiming(a, c, at) PROVE AddsRows
    <2>1. ClaimRow(a, c, 1, at).recorded = clock BY DEF ClaimRow
    <2> QED BY <1>3, <2>1 DEF Claiming, AddsRows
  <1>4. ASSUME NEW a \in applications, NEW claim \in claims, NEW c \in Coordinators,
               HandingOver(a, claim, c, at)
        PROVE  AddsRows
    <2>1. /\ ClaimRow(a, c, claim.ordinal + 1, at).recorded = clock
          /\ Closed(claim, at).recorded = clock
      BY DEF ClaimRow, Closed
    <2> QED BY <1>4, <2>1 DEF HandingOver, AddsRows
  <1>5. ASSUME NEW a \in applications, NEW claim \in claims, NEW accepts \in BOOLEAN,
               Deciding(a, claim, accepts, at, received)
        PROVE  AddsRows
    <2>1. Decided(a, claim, accepts, at, received).recorded = clock BY DEF Decided
    <2> QED BY <1>5, <2>1 DEF Deciding, AddsRows
  <1>6. CASE UNCHANGED <<applications, withdrawals, decisions, claims, endings>>
    BY <1>6 DEF AddsRows
  <1>7. CASE Standing BY <1>6, <1>7 DEF Standing
  <1>8. ASSUME NEW d \in decisions, Leaving(d, at) PROVE AddsRows
    BY <1>6, <1>8 DEF Leaving
  <1>9. ASSUME NEW a \in applications, NEW c \in Coordinators, NEW away \in BOOLEAN,
               NEW recorded \in Time, Reporting(a, c, away, recorded)
        PROVE  AddsRows
    BY <1>6, <1>9 DEF Reporting
  <1> QED
    BY <1>1, <1>2, <1>3, <1>4, <1>5, <1>7, <1>8, <1>9, Zenon DEF Effect

\* By the knowledge of a time that has passed the rows are the same.
LEMMA PastStays ==
  ASSUME TypeOK, Next, NEW known \in Time, known < clock
  PROVE  /\ Known(decisions', known) = Known(decisions, known)
         /\ Known(withdrawals', known) = Known(withdrawals, known)
         /\ Known(endings', known) = Known(endings, known)
         /\ \A a, at : CaseAt(a, at, known)' = CaseAt(a, at, known)
  <1>1. PICK at, received \in Time : Stepping(at, received) /\ Effect(at, received)
    BY Effects
  <1>2. clock \in Nat /\ known \in Nat /\ ~(clock <= known)
    BY <1>1, Numbers, TimeAssumption DEF Time
  <1>3. /\ claims \subseteq claims' /\ decisions \subseteq decisions'
        /\ withdrawals \subseteq withdrawals' /\ endings \subseteq endings'
        /\ \A d \in decisions' : d \in decisions \/ d.recorded = clock
        /\ \A w \in withdrawals' : w \in withdrawals \/ w.recorded = clock
        /\ \A c \in claims' : c \in claims \/ c.recorded = clock
        /\ \A e \in endings' : e \in endings \/ e.recorded = clock
    BY <1>1, AddsNow DEF AddsRows
  <1>4. \A a, t : CaseAt(a, t, known)' = CaseAt(a, t, known)
    BY <1>2, <1>3 DEF CaseAt, Known, Of
  <1> QED BY <1>2, <1>3, <1>4 DEF Known

LEMMA StatusStays ==
  ASSUME IInv, IInv', Next, NEW a \in applications, NEW at \in Time, NEW known \in Time,
         known < clock
  PROVE  Status(a, at, known)' = Status(a, at, known)
  <1>1. /\ ~(Of(a, decisions) # {} /\ Of(a, withdrawals) # {})
        /\ ~(Of(a, decisions) # {} /\ Of(a, withdrawals) # {})'
    BY DEF IInv, Cases, OneOutcome, Of
  <1>2. /\ Known(decisions', known) = Known(decisions, known)
        /\ Known(withdrawals', known) = Known(withdrawals, known)
        /\ Known(endings', known) = Known(endings, known)
        /\ CaseAt(a, at, known)' = CaseAt(a, at, known)
    BY PastStays DEF IInv, Ledger
  <1>3. /\ ClosedAt(a, decisions, at, known)' <=> ClosedAt(a, decisions, at, known)
        /\ ClosedAt(a, withdrawals, at, known)' <=> ClosedAt(a, withdrawals, at, known)
        /\ \A c : ClosedAt(c, endings, at, known)' <=> ClosedAt(c, endings, at, known)
    BY <1>2 DEF ClosedAt
  <1>4. (CaseAt(a, at, known) = {})' <=> CaseAt(a, at, known) = {}
    BY <1>2
  <1>5. (\E c \in CaseAt(a, at, known) :
           IsHighest(c, CaseAt(a, at, known)) /\ ClosedAt(c, endings, at, known))'
        <=> \E c \in CaseAt(a, at, known) :
           IsHighest(c, CaseAt(a, at, known)) /\ ClosedAt(c, endings, at, known)
    BY <1>2, <1>3
  <1> QED BY <1>1, <1>3, <1>4, <1>5, Zenon DEF Status

\* application_status by a bounded knowledge: a reading as of a time and a
\* knowledge that have passed is final, although rows with earlier dates are
\* still recorded.
THEOREM StatusIsRemembered == Spec => StatusRemembered
  <1>1. ASSUME IInv, IInv', [Next]_vars
        PROVE  [\A a \in applications, at, known \in Time :
                  known < clock => Status(a, at, known)' = Status(a, at, known)]_vars
    BY <1>1, StatusStays
  <1> QED BY <1>1, Inductive, PTL DEF Spec, StatusRemembered

\* A settled case is left alone by every effect of a step.
LEMMA SealedStep ==
  ASSUME IInv, Next, NEW a \in applications, ~Unsettled(a)
  PROVE  CaseFile(a)' = CaseFile(a)
  <1>t. TypeOK /\ Past /\ ToldApart BY DEF IInv, Ledger
  <1>1. PICK at, received \in Time : Stepping(at, received) /\ Effect(at, received)
    BY <1>t, Effects
  <1>f. clock \in Nat /\ a.recorded \in Nat /\ a.recorded < clock
    BY <1>t, <1>1, Fields, Numbers DEF Past
  <1>o. \A b \in applications : Unsettled(b) => b.recorded # a.recorded
    BY <1>t DEF ToldApart
  <1>2. ASSUME NEW p \in Applicants, Applying(p, at, received) PROVE CaseFile(a)' = CaseFile(a)
    <2>1. Admitted(at, received).of = clock BY DEF Admitted
    <2>2. Of(a, decisions)' = Of(a, decisions)
      BY <1>2, <2>1, <1>f DEF Applying, Of
    <2> QED BY <1>2, <2>2 DEF Applying, Of, CaseFile
  <1>3. ASSUME NEW b \in applications, Withdrawing(b, at) PROVE CaseFile(a)' = CaseFile(a)
    <2>1. Closed(b, at).of = b.recorded BY DEF Closed
    <2> QED BY <1>3, <2>1, <1>o DEF Withdrawing, Of, CaseFile
  <1>4. ASSUME NEW b \in applications, NEW c \in Coordinators, Claiming(b, c, at) PROVE CaseFile(a)' = CaseFile(a)
    <2>1. ClaimRow(b, c, 1, at).of = b.recorded BY DEF ClaimRow
    <2> QED BY <1>4, <2>1, <1>o DEF Claiming, Of, CaseFile
  <1>5. ASSUME NEW b \in applications, NEW claim \in claims, NEW c \in Coordinators,
               HandingOver(b, claim, c, at)
        PROVE  CaseFile(a)' = CaseFile(a)
    <2>1. /\ ClaimRow(b, c, claim.ordinal + 1, at).of = b.recorded
          /\ Closed(claim, at).of = claim.recorded
      BY DEF ClaimRow, Closed
    <2>2. b.recorded # a.recorded /\ claim.of = b.recorded BY <1>5, <1>o DEF HandingOver
    <2>3. \A o \in Of(a, claims) : o.recorded # claim.recorded
      BY <2>2, <1>t DEF Of, ToldApart
    <2>4. Of(a, claims)' = Of(a, claims)
      BY <1>5, <2>1, <2>2 DEF HandingOver, Of
    <2>5. {e \in endings : \E o \in Of(a, claims) : e.of = o.recorded}'
            = {e \in endings : \E o \in Of(a, claims) : e.of = o.recorded}
      BY <1>5, <2>1, <2>3, <2>4 DEF HandingOver
    <2> QED BY <1>5, <2>4, <2>5 DEF HandingOver, Of, CaseFile
  <1>6. ASSUME NEW b \in applications, NEW claim \in claims, NEW accepts \in BOOLEAN,
               Deciding(b, claim, accepts, at, received)
        PROVE  CaseFile(a)' = CaseFile(a)
    <2>1. Decided(b, claim, accepts, at, received).of = b.recorded BY DEF Decided
    <2> QED BY <1>6, <2>1, <1>o DEF Deciding, Of, CaseFile
  <1>7. ASSUME NEW b \in applications, NEW c \in Coordinators, NEW away \in BOOLEAN,
               NEW recorded \in Time, Reporting(b, c, away, recorded)
        PROVE  CaseFile(a)' = CaseFile(a)
    <2>1. Found(b, c, away, recorded).of = b.recorded BY DEF Found
    <2> QED BY <1>7, <2>1, <1>o DEF Reporting, Of, CaseFile
  <1>8. CASE UNCHANGED <<applications, withdrawals, decisions, claims, endings, findings>>
    BY <1>8 DEF Of, CaseFile
  <1>9. CASE Standing BY <1>8, <1>9 DEF Standing
  <1>10. ASSUME NEW d \in decisions, Leaving(d, at) PROVE CaseFile(a)' = CaseFile(a)
    BY <1>8, <1>10 DEF Leaving
  <1> QED
    BY <1>1, <1>2, <1>3, <1>4, <1>5, <1>6, <1>7, <1>9, <1>10, Zenon DEF Effect

\* _lock_application and the outcome guards: behind an outcome nothing is added
\* to the case.
THEOREM SettledStaysSealed == Spec => SettledIsSealed
  <1>1. ASSUME IInv, [Next]_vars
        PROVE  [\A a \in applications : ~Unsettled(a) => CaseFile(a)' = CaseFile(a)]_vars
    BY <1>1, SealedStep
  <1> QED BY <1>1, Inductive, PTL DEF Spec, SettledIsSealed
=============================================================================
