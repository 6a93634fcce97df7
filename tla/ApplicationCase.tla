--------------------------- MODULE ApplicationCase ---------------------------
(***************************************************************************)
(* Applications to one Living Organism on its own Coordinators' route:     *)
(* submitted, withdrawn, claimed, handed over, decided, and the membership *)
(* an acceptance opens and a departure ends.                               *)
(*                                                                         *)
(* As in GovernanceSeats, a command is received at a time that stays its   *)
(* own and executed later, holding the rows of the organism and of the     *)
(* application.  The authority judges it as of its own date by what had    *)
(* been recorded when it was received; the service and the database's      *)
(* guards look again at what is recorded when it is executed.  The time a  *)
(* row was recorded identifies it.  A finding is dated by the clock its     *)
(* transaction reads when it holds the rows, and recorded some time later, *)
(* with its insert: a command can be received in between.                  *)
(*                                                                         *)
(* Left out, since they may only refuse: the gateway's settings and        *)
(* question, the rule versions a case is pinned to, the organism's state,  *)
(* an applicant's account, the instruments behind a finding.  Left out     *)
(* too: the lapse of a replacement's qualification and the contest of a    *)
(* finding, which stop the holder as stepping aside does.                  *)
(***************************************************************************)
EXTENDS Naturals, FiniteSets

CONSTANTS
  Applicants,       \* identities who may apply
  Coordinators,     \* identities who held the Coordinator office at first
  Dates,            \* times as of which commands act
  LastTime,         \* bound on the clock
  MaxApplications,  \* bound on the applications
  MaxFindings       \* bound on the findings about a Coordinator's availability

ASSUME TimeAssumption == LastTime \in Nat /\ Dates \subseteq 0..LastTime
ASSUME BoundAssumption == MaxApplications \in Nat /\ MaxFindings \in Nat

Time == 0..LastTime

Application == [applicant : Applicants, at : Time, recorded : Time]
\* claim is 0 when the organism's settings decided.
Decision == [of : Time, accepts : BOOLEAN, claim : Time, at : Time, received : Time,
             recorded : Time]
\* A claim and the engagement that names it.
Claim == [of : Time, by : Coordinators, ordinal : Nat, at : Time, recorded : Time]
\* Findings are effective and received at the time their transaction read.
Finding == [of : Time, who : Coordinators, away : BOOLEAN, at : Time, recorded : Time]
Qualification == [claim : Time, who : Coordinators, at : Time, recorded : Time]
Vacancy == [who : Coordinators, at : Time, recorded : Time]
\* A withdrawal of an application, the ending of a claim or of a membership.
Closing == [of : Time, at : Time, recorded : Time]

VARIABLES
  clock,         \* clock_timestamp()
  applications,
  withdrawals,
  decisions,     \* and, of the accepting ones, the membership they opened
  claims,
  endings,       \* of claims
  findings,      \* STEP_ASIDE: RECUSE and UNAVAILABLE, or AVAILABLE
  qualified,     \* REPLACEMENT findings
  vacancies,     \* endings of Coordinator offices
  departures     \* endings of memberships

vars == <<clock, applications, withdrawals, decisions, claims, endings, findings,
          qualified, vacancies, departures>>

outcomes == <<withdrawals, decisions>>
holdings == <<claims, endings>>
standing == <<findings, qualified, vacancies>>

Init ==
  /\ clock = 1
  /\ applications = {} /\ withdrawals = {} /\ decisions = {} /\ departures = {}
  /\ claims = {} /\ endings = {}
  /\ findings = {} /\ qualified = {} /\ vacancies = {}

-----------------------------------------------------------------------------
Known(rows, known) == {row \in rows : row.recorded <= known}

Of(a, rows) == {row \in rows : row.of = a.recorded}

\* The application was effective and recorded by then.
Present(a, at, known) == a.at <= at /\ a.recorded <= known

\* Mutant: a withdrawal is not looked for.
Unsettled_Decided(a) == Of(a, decisions) = {}

\* Whatever its date, a terminal row stands.
Unsettled(a) == Of(a, decisions) = {} /\ Of(a, withdrawals) = {}

ClosedAt(row, closings, at, known) ==
  \E x \in Known(closings, known) : x.of = row.recorded /\ x.at <= at

\* Memberships are identified by the decision that opened them.
Memberships(p) == {d \in decisions : d.accepts /\
  \E a \in applications : a.recorded = d.of /\ a.applicant = p}

Ended(row, closings) == \E x \in closings : x.of = row.recorded

\* The stored state of the membership is ACTIVE.
CurrentMember(p) == \E d \in Memberships(p) : ~Ended(d, departures)

\* s015_fold_effective_state of the Coordinator office, and its stored state.
SeatAt(c, at, known) == \A v \in Known(vacancies, known) : v.who = c => v.at > at
SeatStored(c) == \A v \in vacancies : v.who # c

AboutBy(a, c, at, known) == {f \in Known(Of(a, findings), known) : f.who = c /\ f.at <= at}

\* The order of c3_findings.
Supersedes(g, f) == g.at > f.at \/ (g.at = f.at /\ g.recorded > f.recorded)

\* c3_available, by the latest finding effective and recorded by then.
Available(a, c, at, known) == \A f \in AboutBy(a, c, at, known) :
  f.away => \E g \in AboutBy(a, c, at, known) : ~g.away /\ Supersedes(g, f)

\* c3_act_problem is null.
CanAct(a, c, at, known) == SeatAt(c, at, known) /\ Available(a, c, at, known)

\* The claims, or engagements, of the application effective and recorded by then.
CaseAt(a, at, known) == {c \in Known(Of(a, claims), known) : c.at <= at}

\* First in descending order of effective_at and recorded_at.
IsLatest(c, rows) == c \in rows /\ \A o \in rows :
  o.at < c.at \/ (o.at = c.at /\ o.recorded <= c.recorded)

IsHighest(c, rows) == c \in rows /\ \A o \in rows : o.ordinal <= c.ordinal

\* The authority's claim: the latest one known, with no known end.
Assigned(a, c, at, received) ==
  /\ IsLatest(c, CaseAt(a, at, received))
  /\ ~ClosedAt(c, endings, at, received)

\* _current_claim, with no bound on what is recorded.
CurrentClaim(a, c, at) == IsLatest(c,
  {o \in CaseAt(a, at, clock) : ~ClosedAt(o, endings, at, clock)})

-----------------------------------------------------------------------------
\* A command received at received, acting as of at, is executed now.
Executed(at, received) ==
  /\ clock < LastTime
  /\ received <= clock /\ at <= received
  /\ clock' = clock + 1

\* Mutant: any membership that ended will do, whenever.
RejoinAllowed_Ended(p, at, received) == ~CurrentMember(p)

\* rejoin_predecessor: the application is dated after the last ending and
\* was received after that was recorded.
RejoinAllowed(p, at, received) == \A d \in Memberships(p) :
  \E x \in departures : x.of = d.recorded /\ x.at < at /\ x.recorded <= received

\* The authority: no member and no application open as of the date, as known.
Outside(p, at, received) ==
  /\ \A d \in Known(Memberships(p), received) : d.at <= at => ClosedAt(d, departures, at, received)
  /\ \A a \in applications : a.applicant = p /\ Present(a, at, received)
       => ClosedAt(a, decisions, at, received) \/ ClosedAt(a, withdrawals, at, received)

\* Mutant: the service trusts the authority for the open applications.
MayApply_Known(p, at, received) ==
  Outside(p, at, received) /\ ~CurrentMember(p) /\ RejoinAllowed(p, at, received)

MayApply(p, at, received) ==
  /\ Outside(p, at, received)
  /\ ~CurrentMember(p) /\ RejoinAllowed(p, at, received)
  /\ \A a \in applications : a.applicant = p => ~Unsettled(a)

\* With automatic acceptance the application is decided, and the applicant
\* admitted, as of its own date in the transaction that stores it.
Submit(p, at, received, automatic) ==
  /\ Executed(at, received)
  /\ Cardinality(applications) < MaxApplications
  /\ MayApply(p, at, received)
  /\ applications' = applications \union {[applicant |-> p, at |-> at, recorded |-> clock]}
  /\ decisions' = IF automatic
       THEN decisions \union
         {[of |-> clock, accepts |-> TRUE, claim |-> 0, at |-> at, received |-> received,
           recorded |-> clock]}
       ELSE decisions
  /\ UNCHANGED <<withdrawals, holdings, standing, departures>>

Withdraw(a, at, received) ==
  /\ Executed(at, received)
  /\ Present(a, at, received) /\ Unsettled(a)
  /\ withdrawals' = withdrawals \union {[of |-> a.recorded, at |-> at, recorded |-> clock]}
  /\ UNCHANGED <<applications, decisions, holdings, standing, departures>>

\* A Coordinator, by the authority, by the stored office, and by the guard.
Coordinating(c, at, received) ==
  SeatAt(c, at, received) /\ SeatStored(c) /\ SeatAt(c, at, clock)

Processing(a, c, at, received) ==
  /\ Executed(at, received)
  /\ Coordinating(c, at, received)
  /\ Present(a, at, received) /\ Unsettled(a)

ClaimRow(a, c, ordinal, at) ==
  [of |-> a.recorded, by |-> c, ordinal |-> ordinal, at |-> at, recorded |-> clock]

ClaimCase(a, c, at, received) ==
  /\ Processing(a, c, at, received)
  /\ Of(a, claims) = {}
  /\ claims' = claims \union {ClaimRow(a, c, 1, at)}
  /\ UNCHANGED <<applications, outcomes, endings, standing, departures>>

\* c3_replacement: a finding qualifies this Coordinator to replace the claim.
QualifiedFor(claim, c, at, known) == \E q \in Known(qualified, known) :
  q.claim = claim.recorded /\ q.who = c /\ q.at <= at

\* replacement_finding, at one cut.
Replaceable(a, claim, c, at, known) ==
  /\ ~CanAct(a, claim.by, at, known)
  /\ CanAct(a, c, at, known) /\ QualifiedFor(claim, c, at, known)

\* Mutant: the engagement is not compared with the claim.
Handed_Unmatched(a, claim, at, received) ==
  Assigned(a, claim, at, received) /\ CurrentClaim(a, claim, at)

\* The claim is the one of the last engagement, whatever its date.
Handed(a, claim, at, received) ==
  /\ Assigned(a, claim, at, received) /\ CurrentClaim(a, claim, at)
  /\ IsHighest(claim, Of(a, claims))

\* The claim, its ending and the engagement that follows are recorded together.
Reassign(a, claim, c, at, received) ==
  /\ Processing(a, c, at, received)
  /\ Handed(a, claim, at, received)
  /\ claim.by # c
  /\ Replaceable(a, claim, c, at, received) /\ Replaceable(a, claim, c, clock, clock)
  /\ endings' = endings \union {[of |-> claim.recorded, at |-> at, recorded |-> clock]}
  /\ claims' = claims \union {ClaimRow(a, c, claim.ordinal + 1, at)}
  /\ UNCHANGED <<applications, outcomes, standing, departures>>

\* Mutant: the holder is asked about as the decision is executed, not as of
\* its date.
HolderStands_Now(a, c, at, received) == CanAct(a, c, clock, clock)

\* require_holder, and the decision's guard.
HolderStands(a, c, at, received) ==
  CanAct(a, c, at, received) /\ CanAct(a, c, clock, clock)

\* The claim is the latest and its engagement the last, as of the decision's date.
HoldsCase(a, claim, at, received) ==
  /\ Assigned(a, claim, at, received) /\ IsHighest(claim, CaseAt(a, at, received))
  /\ CurrentClaim(a, claim, at) /\ IsHighest(claim, CaseAt(a, at, clock))

Decide(a, claim, accepts, at, received) ==
  /\ Processing(a, claim.by, at, received)
  /\ HoldsCase(a, claim, at, received)
  /\ HolderStands(a, claim.by, at, received)
  /\ decisions' = decisions \union
       {[of |-> a.recorded, accepts |-> accepts, claim |-> claim.recorded, at |-> at,
         received |-> received, recorded |-> clock]}
  /\ UNCHANGED <<applications, withdrawals, holdings, standing, departures>>

\* _open_claim: the claim of the last engagement, of an open application.
OpenClaim(a, claim) ==
  Unsettled(a) /\ IsHighest(claim, Of(a, claims)) /\ ~Ended(claim, endings)

\* record_case_finding reads the clock now, holding the rows of the organism
\* and of the case, and inserts the finding at recorded; whoever executes
\* another command of the case waits until then.
FindingAt(recorded) ==
  /\ clock <= recorded /\ recorded < LastTime
  /\ clock' = recorded + 1

\* About any Coordinator.
FindAvailability(a, claim, c, away, recorded) ==
  /\ FindingAt(recorded)
  /\ Cardinality(findings) < MaxFindings
  /\ OpenClaim(a, claim)
  /\ findings' = findings \union
       {[of |-> a.recorded, who |-> c, away |-> away, at |-> clock, recorded |-> recorded]}
  /\ UNCHANGED <<applications, outcomes, holdings, qualified, vacancies, departures>>

QualifyReplacement(a, claim, c, recorded) ==
  /\ FindingAt(recorded)
  /\ OpenClaim(a, claim) /\ claim.by # c
  /\ SeatAt(c, clock, clock)
  /\ ~QualifiedFor(claim, c, clock, clock)
  /\ qualified' = qualified \union
       {[claim |-> claim.recorded, who |-> c, at |-> clock, recorded |-> recorded]}
  /\ UNCHANGED <<applications, outcomes, holdings, findings, vacancies, departures>>

\* The office ends, as OfficeAppointment's EndOffice has it.
Vacate(c, at, received) ==
  /\ Executed(at, received)
  /\ SeatStored(c)
  /\ vacancies' = vacancies \union {[who |-> c, at |-> at, recorded |-> clock]}
  /\ UNCHANGED <<applications, outcomes, holdings, findings, qualified, departures>>

\* The membership an acceptance opened ends; its history is known by then.
Leave(d, at, received) ==
  /\ Executed(at, received)
  /\ d.accepts /\ ~Ended(d, departures)
  /\ d.at <= at /\ d.recorded <= received
  /\ departures' = departures \union {[of |-> d.recorded, at |-> at, recorded |-> clock]}
  /\ UNCHANGED <<applications, outcomes, holdings, standing>>

Next ==
  \/ \E at \in Dates, received \in Time :
       \/ \E p \in Applicants, automatic \in BOOLEAN : Submit(p, at, received, automatic)
       \/ \E d \in decisions : Leave(d, at, received)
       \/ \E c \in Coordinators : Vacate(c, at, received)
       \/ \E a \in applications :
            \/ Withdraw(a, at, received)
            \/ \E c \in Coordinators : ClaimCase(a, c, at, received)
            \/ \E claim \in Of(a, claims), c \in Coordinators : Reassign(a, claim, c, at, received)
            \/ \E claim \in Of(a, claims), accepts \in BOOLEAN : Decide(a, claim, accepts, at, received)
  \/ \E a \in applications, claim \in claims, c \in Coordinators, recorded \in Time :
       /\ claim.of = a.recorded
       /\ \/ \E away \in BOOLEAN : FindAvailability(a, claim, c, away, recorded)
          \/ QualifyReplacement(a, claim, c, recorded)

Spec == Init /\ [][Next]_vars

-----------------------------------------------------------------------------
\* application_status, of an application that is present, without the fold of
\* the organism's state.
Status(a, at, known) ==
  IF Of(a, decisions) # {} /\ Of(a, withdrawals) # {} THEN "INTEGRITY_FAILURE"
  ELSE IF ClosedAt(a, decisions, at, known) THEN "DECIDED"
  ELSE IF ClosedAt(a, withdrawals, at, known) THEN "WITHDRAWN"
  ELSE IF CaseAt(a, at, known) = {} THEN "WAITING"
  ELSE IF \E c \in CaseAt(a, at, known) :
            IsHighest(c, CaseAt(a, at, known)) /\ ClosedAt(c, endings, at, known)
    THEN "UNABLE" ELSE "PENDING"

-----------------------------------------------------------------------------
TypeOK ==
  /\ clock \in Time \union {1}
  /\ applications \subseteq Application
  /\ withdrawals \subseteq Closing
  /\ decisions \subseteq Decision
  /\ claims \subseteq Claim
  /\ endings \subseteq Closing
  /\ findings \subseteq Finding
  /\ qualified \subseteq Qualification
  /\ vacancies \subseteq Vacancy
  /\ departures \subseteq Closing

\* However the withdrawal, the decision and the handovers of a case were
\* received, dated and executed, its status can be read as of every time by
\* the knowledge of every time, and nobody reads that it has no holder.
StatusReadable == \A a \in applications, at, known \in Time :
  Present(a, at, known) => Status(a, at, known) \notin {"INTEGRITY_FAILURE", "UNABLE"}

\* An application has no two holders as of the same date, by the knowledge
\* of any time.
OneHolder == \A c, o \in claims, at, known \in Time :
  c # o /\ c.of = o.of /\ c \in Known(claims, known) /\ o \in Known(claims, known)
    => c.at > at \/ o.at > at \/ ClosedAt(c, endings, at, known) \/ ClosedAt(o, endings, at, known)

\* A Coordinator's decision was made, as of its date and by all that is ever
\* recorded, by the holder of the case.  Every finding that sends this holder
\* aside as of that date was released before the decision was recorded, and as
\* of that date too, except one that was still being recorded when the
\* decision was received.
DecidedByHolder == \A d \in decisions, a \in applications : d.claim # 0 /\ d.of = a.recorded =>
  \E c \in CaseAt(a, d.at, clock) :
    /\ d.claim = c.recorded
    /\ IsHighest(c, CaseAt(a, d.at, clock)) /\ ~ClosedAt(c, endings, d.at, clock)
    /\ \A f \in AboutBy(a, c.by, d.at, clock) : f.away =>
         \E g \in AboutBy(a, c.by, d.recorded, d.recorded) :
           ~g.away /\ Supersedes(g, f) /\ (g.at <= d.at \/ d.received < f.recorded)

\* Without that exception it does not hold: a decision received between the
\* time a finding has and the time it is recorded, and executed after the
\* finding was released, passes both cuts.
NotAsideAsOfDate == \A d \in decisions, c \in claims, a \in applications :
  d.claim = c.recorded /\ c.of = a.recorded => Available(a, c.by, d.at, clock)

\* Nobody has two applications open, or one while a member.
OneStanding == \A a, b \in applications :
  a.applicant = b.applicant /\ Unsettled(a) => (~Unsettled(b) \/ a = b) /\ ~CurrentMember(a.applicant)

\* The memberships of one person follow each other: the one before had ended
\* as of a date before the application that led to the next.
PeriodsApart == \A a, b \in applications, d, e \in decisions :
  (/\ a.applicant = b.applicant /\ d.of = a.recorded /\ e.of = b.recorded
   /\ d.accepts /\ e.accepts /\ d.recorded < e.recorded)
    => \E x \in departures : x.of = d.recorded /\ d.at <= x.at /\ x.at < b.at /\ b.at <= e.at

\* "Accept or decline an application as its current self-assignee."  It does
\* not hold: whoever handed the case over and is available again still
\* decides as of a date before the handover.
DecidedByCurrentHolder == [][\A d \in decisions' \ decisions :
  \A c \in claims : d.claim = c.recorded => ~Ended(c, endings)]_vars

\* That is the only way: a decision under a claim that was handed over, before
\* or after, is dated before the handover.
FormerHolderBackdates == \A d \in decisions, c \in claims, e \in endings :
  d.claim # 0 /\ d.claim = c.recorded /\ e.of = c.recorded => d.of = c.of /\ d.at < e.at

\* The status an application had as of any time, by what was known at a time
\* that has passed, is never another one later: what is recorded from now on
\* is recorded now, whatever its date.
StatusRemembered == [][\A a \in applications, at, known \in Time :
  known < clock => Status(a, at, known)' = Status(a, at, known)]_vars

\* All that is recorded of a case.
CaseFile(a) ==
  [withdrawals |-> Of(a, withdrawals), decisions |-> Of(a, decisions),
   claims |-> Of(a, claims), findings |-> Of(a, findings),
   endings |-> {e \in endings : \E c \in Of(a, claims) : e.of = c.recorded}]

\* A case that was decided or withdrawn takes no row any more: no second
\* outcome, claim, handover or finding, however it was received and dated.
SettledIsSealed == [][\A a \in applications :
  ~Unsettled(a) => CaseFile(a)' = CaseFile(a)]_vars
=============================================================================
