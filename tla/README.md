# INTEVIA: specifications, model checks and proofs

INTEVIA is a Django application over PostgreSQL in which people found and govern
"living organisms", hold Events and Services, keep a Library, and receive mail.
Nearly everything it promises is a promise about records: what was asked is bound
once, what was decided stays decided, a retry finds what the first call did, a
lineage has no gap. Its code keeps these promises with row locks, unique
constraints, receipts and append-only ledgers, in calls that run at the same time,
are repeated, and lose their connection. That is what is modelled here.

The directory holds TLA+ modules translated from the source, TLC configurations
that check them on small instances, and theorems that TLAPS proves for every value
of the constants. `PROJECT.json` lists the runs, says which definition stands for
which lines, and names the hazards each property is for.

    tlc -workers 2 -config EmailWorkers.cfg MCEmailOutbox.tla
    tlapm EmailOutboxProofs.tla

Paths below leave out the leading `src/` of `PROJECT.json`; `services/` stands for
`src/intevia/services/`.

## 1. The system

### Parts

| Part | Code | State it keeps | Operations | Here |
|---|---|---|---|---|
| Email foundation | `email_foundation/` | outbox, delivery attempts, capacity buckets, address records, local captures | request a message or a verification, verify an address, the worker's recover/claim/deliver, housekeeping | `EmailOutbox` |
| Command intake | `services/command_intake.py` | one binding per actor, action and request key | admit, inherit, refuse a mismatch or an unaccounted history | `CommandIntake` |
| Execution frame | `services/organism_command_support.py` | receipts and authority decisions | lock the actor, verify, replay, qualify, write, finalise; two-stage compound requests | `CommandIntake` (what a stage writes is left open) |
| Governed records | `services/event_service.py`, `service_service.py`, `library_service.py` | record, versions, transitions | create, version, publish, activate, complete, retire, deprecate, archive, associate | `RecordLifecycle` |
| Event registration | `services/event_registration_service.py` | registrations, their transitions | register (self, third party, again), cancel | `EventRegistration` |
| Event attendance | `services/event_attendance_service.py` | attendance, its transitions | record, correct, void, reinstate | `EventAttendance` |
| Identity | `services/identity_service.py`, `core/session.py` | access state and epoch, credentials, sessions | change access or password, activate, register, provision | `change_access` in `CommandIntake` and `ServiceActivity` |
| Governance formation | `services/organism_governance_service.py`, migration 0045 | arrangements, seat requests, decisions, participations | adopt an arrangement, request, decide, both at once | `GovernanceSeats` |
| Organism formation | `services/organism_formation_service.py` | organism events, founding batch | found, advance a phase, Birthing | the Birthing in `GovernanceSeats`, its frame in `CommandIntake` |
| Membership and departure | `services/organism_membership_service.py`, `organism_departure.py`, `organism_membership_periods.py` | membership chains | open, change, leave with everything that ends with it, return | leaving in `GovernanceSeats` and `OfficeAppointment`, periods in `OfficeAppointment` and `ApplicationCase` |
| Roles, offices, consent | `services/organism_role_service.py`, `organism_role_definition_service.py`, `organism_office_consent_service.py` | definitions, assignments, consents | define, amend, retire, nominate, answer, assign, end | `OfficeAppointment` |
| Applications | `services/organism_application_service.py`, `authority_lifecycle.py` | applications, claims, findings, decisions | submit, withdraw, claim, step aside, reassign, decide, admit | `ApplicationCase` |
| Service activities | `services/service_activity_service.py` | activities, transitions, assignments, submissions, reviews | create, assign, accept, decline, submit, review, complete, cancel | `ServiceActivity` |
| Authority, conditions, coverage | `services/organism_application_authority.py`, `organism_authority.py`, `organism_coverage.py`, ... | none of their own | answer whether an act qualifies | guards of the commands of the three organism modules; elsewhere any answer |
| Entitlements, recovery | `services/organism_entitlement_service.py`, `organism_recovery.py` | elections, grants, vacancy windows | activate, measure, advance | the Birthing's election in `CommandIntake` |
| Profile effects, courses, contributions, relationships | `services/profile_effect_service.py`, `education_course_service.py`, `contribution_service.py`, `event_resource_relationship_service.py` | proposals, versions, states, heads | propose, dispose, append, review, correct, restrict, erase, supersede | not modelled |
| Recorded chains | migrations 0021, 0022 | event chains folded at a cut | append, fold | the folds, in the three organism modules |
| Circles, LAW, policy, discussion | `services/circle_*.py`, `law_*.py`, `discussion*.py` | rows whose admissibility PL/pgSQL decides | many | not modelled |
| Views, forms, management commands, reads | `core/views.py`, ... | none | parse, call, render | not modelled |

### How they interact

* **Every governed command of an organism** is admitted by the intake (a few
  autocommit statements), then executed in one transaction, or two for a compound
  request. The transaction locks the actor's Identity row, verifies access state,
  epoch and binding, takes an advisory mutex, looks for its receipt, locks the
  organism's row, asks for authority, writes, and commits a receipt and decisions.
  A refusal's decision is committed too.
* **The identity service** locks the same Identity row and increases the epoch;
  commands that read the epoch before must notice.
* **Registrations and attendance** share the Event's row: every writer takes it
  `FOR UPDATE` first and keeps it to the commit. What is read before it may be stale.
* **Events, Services and Library resources** carry a lineage: each transition names
  the latest one by time of occurrence as its predecessor, in a unique column.
* **Governance, offices, membership and applications** hang together by time. A command
  is received once, at a time that stays its own, and executed later under the
  organism's row, perhaps after commands received later; it acts as of a date of its
  own. Services fold what was recorded by the receipt, database guards what is recorded
  at execution. Leaving must close what seats and offices have opened.
* **Service activities** lock the Activity, the actor's Identity, and the Identities of
  others, which `change_access` locks too.
* **The mail worker** is a process a scheduler starts. Several may run; leases keep
  them apart, and a lease may run out under a slow or dead worker.

### What is hard

Two callers with one key at the same time; a lost answer and its retry; a fact read
before a lock and used under it; a process that dies between an outside effect and
the commit; a lease that runs out; a time taken before a wait; a two-stage request
with its second stage missing; a retry compared with facts that changed since; two
commands executed in the other order than they were received or dated; a guard of the
service and a guard of the database that look at different cuts of the record; two
transactions that lock the same rows in different orders.
`hazards` in `PROJECT.json` lists the heaviest at their lines; section 6 names more, of
parts that are not modelled.

### What makes each part correct

* Email: one sender per intent; no message twice; the attempt limit holds over
  recoveries; reserve for essential mail; a replaced challenge is never sent; an
  address is verified only by a code sent to it; codes do not linger; every intent
  ends.
* Intake: one binding per key; a retry inherits it; each stage performed at most once
  and under it; every decision accounted for; nothing written under an outdated epoch;
  every call answered.
* Records: the lineage is the history; only allowed commands; versions without gaps;
  only published current versions are associated.
* Event journeys: one line of registrations per person, one of them standing at most;
  the ledger tells the rows; retries converge; attendance rests on a standing
  registration of the attendee; its trail is a life of the record.
* Seats: one holder per seat and one seat per person at every date; a departure closes
  what the member holds, with the one exception `StrayIsLate` names.
* Offices: held by consent, by members, and by nobody once retired.
* Applications: one outcome, one holder, a decision by the holder, one application open
  per person, memberships that follow each other.
* Service activities: what was read stays so to the commit; replays return; deadlocks
  only where the order of locks leaves room for them.

## 2. Modules

| Module | What it is |
|---|---|
| `EmailOutbox` | the email foundation, one action per transaction |
| `DeliveryPromise` | its abstract specification |
| `EmailOutboxProofs` | its theorems |
| `IntakeSlots` | entries, stages and slots of the intake, as operators |
| `CommandIntake` | intake and execution frame, one action per statement that matters |
| `CommandPromise` | their abstract specification |
| `CommandIntakeProofs` | their theorems |
| `LifecycleGraphs` | the commands, states and moves of the three governed records |
| `RecordLifecycle` | one governed record and the concurrent calls of its service |
| `LifecyclePromise` | its abstract specification |
| `RecordLifecycleProofs` | its theorems |
| `EventRegistration` | registrations of one Event, with the Event's own moves |
| `EventAttendance` | extends it by one person's attendance and the desks that record it |
| `JourneyPromise` | the abstract specification of the two |
| `EventJourneyProofs` | the theorems of the two |
| `GovernanceSeats` | the Governance Circle: arrangements, requests, decisions, participations, departures |
| `SeatPromise` | its abstract specification |
| `GovernanceSeatsProofs` | its theorems |
| `OfficeAppointment` | one office: definition, nominations, consents, appointments, departures and returns |
| `OfficeAppointmentProofs` | its theorems |
| `ApplicationCase` | applications on the Coordinators' route, from submission to membership |
| `ApplicationCaseProofs` | its theorems |
| `ServiceActivity` | the eight commands on Activities, lock by lock |
| `ServiceActivityProofs` | its theorems |
| `MC...` | instances for TLC: requests, symmetry |

In every module an operator named `X_Something` with a comment "Mutant" is a
plausible mistake in the code that `X` models. No action uses it; it shows that the
property it is meant for would notice.

### EmailOutbox

One action is one database transaction; its row locks (Identity, then Outbox) make it
atomic. What the code reads in one transaction and uses in a later one is state
between two actions: the lists of `recover` and `housekeeping`, the lease of a claim.

| Code | Action |
|---|---|
| `service.request_message`, `request_verification`, `verify_address` | `RequestMessage`, `RequestVerification`, `VerifyAddress` |
| `worker.recover` | `StartPass` (reads the list), `RecoverRow` (one row, under its lock), `StopRecovering` |
| `worker.claim` | `Claim`: sweeps obsolete and exhausted rows, skips locked ones (`\E locked`), reserves capacity, writes the lease |
| `worker.deliver` | `DeliverFenced` (lease lost), `DeliverRefused` (the recheck fails), `DeliverSent` (backend answers) |
| `worker.housekeeping` | `ListHousekeeping`, `HousekeepRow`, `PurgeEvidence` |
| process death | `Crash` between transactions, `CrashInSend` between a provider's answer and the commit, `HouseCrash` |
| the clock | `Tick`; midnight empties the bucket |

A timestamp is the time left until a comparison changes its answer, which keeps the
state finite without bounding the clock. `External` chooses between a provider adapter,
whose effects survive a rolled-back transaction and whose lookup may be inconclusive,
and `CaptureBackend`, whose record is part of the transaction. Text, templates, address
syntax, hashing and the operator's page are left out; a token is named by its challenge.

### CommandIntake

An attempt is one call of a public method. `Call` reads the epoch without a lock. `Look`,
`History`, `CheckHistory`, `Reread`, `Insert`, `ReadBack` are the statements of
`admit_request`; `LoseAdmission` loses the connection in any of them, with the insert
done or not. `Begin` locks the actor and verifies the binding; `Replay` looks for the
receipt; `Perform` locks the organism and decides what the commit will show; `Commit`,
`RollBack` and `LoseCommit` end the transaction. `ChangeAccess` is the identity service.
A compound request runs two stages under derived keys. A Birthing records a second
decision, its election, under its own key.

The advisory mutex is not a variable: only the holder of the actor's lock asks for it.
What a stage decides is open: it may succeed, be refused or fail. The fingerprint is the
entry, the body and the epoch.

### RecordLifecycle

One record of any `kind`. `Call` takes the time of occurrence (the caller's, or now)
before any lock; `Lock` takes the row and reads it; `Create`, `Move` and `Associate` are
the commands; `Refuse` ends a call without a trace for any of the code's reasons,
authority included. `IsLatest` is the query for the predecessor and `Succeeded` the unique
column, which turns a second successor into a refusal.

### EventRegistration and EventAttendance

Every writer takes the Event's row first and holds it to its commit, so what a call does
under it is one action (`Register`, `Cancel`, `CancelAgain`, `AnswerReplay`;
`RecordAttendance`, `CorrectAttendance`, `ChangeStatus`), and what it reads before is
another (`Call`; `AskRecord`, `Ask`). `snapshot` is the registration that the unlocked
read of the attendance named. `MoveEvent` is `transition_event` under the same lock. The
rows are in the order of their primary keys, the ledger in the order of commit. Times of
presence are compared, never ordered; rationale and evidence are one content.

`EventAttendance` extends `EventRegistration`; its `Next` interleaves the two, so all its
properties hold while registrations and the Event move.

### GovernanceSeats, OfficeAppointment, ApplicationCase

The three share one view of time. An action is the execution of one command under the
organism's row, with two times of its own: `at`, the date it acts as of, and `received`,
when it was admitted, both at or before the clock, and in any order among commands.
`Executed` advances the clock, so that the time a row was recorded also identifies it.
A guard that the code evaluates at the receipt cut passes `received` to a fold
(`ActiveAt`, `Over`, `HeldAt`, `CaseAt`); one that a trigger or a stored state evaluates
passes `clock`. Which of the two the code uses is what the properties depend on.

| Code | Action |
|---|---|
| `adopt`, `request_governance_seat`, `decide_governance_seat`, seating under either authority | `AdoptArrangement`, `RequestSeat`, `DecideSeat` with `FoundingSeating` or `ConstitutionalSeating` |
| the guards of migration 0045 | `RuleGuard`, `SourceGuard`, `RequestGuard`, `DecisionGuard`, `OccupancyGuard` (deferred), `EndCompleteness` |
| `birth_living_organism`, leaving | `Birthing`, `LeaveOrganism` |
| role definitions | `DefineOffice`, `AmendOffice`, `RetireOffice` |
| nomination, answer, appointment, ending | `ProposeAssignment`, `AnswerNomination`, `Assign`, `EndOffice`, with `ConsentGuard`, `SameConsent`, `AssignGuard` of migrations 0037 and 0041 |
| leaving and `_admit` of somebody who was a member | `LeaveOrganism`, `Rejoin` |
| `submit`, `withdraw`, `claim`, `reassign`, `decide` | `Submit` (with automatic acceptance), `Withdraw`, `ClaimCase`, `Reassign`, `Decide` |
| `record_case_finding` | `FindAvailability`, `QualifyReplacement`, each with two times: `at`, the clock the transaction reads once it holds the rows (`authority_lifecycle.py:204`, 215), and `recorded`, that of the insert (migration 0055, line 92) |
| the ending of a Coordinator's office, of a membership | `Vacate`, `Leave` |
| `application_status` | the operator `Status` |

### ServiceActivity

One action is one row lock, or one of the steps after the last: `Begin`, `TakeRoot`
(the Activity's row, or the Service's), `TakePerson` (the actor, then the others),
`Look` (the earlier execution under the key), then `Replay`, `Record` or `Refuse`.
`Held` and `RootHeld` are the rows a session has, kept to the end of its transaction;
`Awaits` is the wait-for graph. `Fail` is a refusal by the authority, a lost connection,
or PostgreSQL's choice of a deadlock's victim. `ChangeAccess` and `Withdraw` are the
identity's and the Service's own commands, which need the same rows.

## 3. Runs

Counts are distinct states. Deadlock is checked except in `seats_and_departures`,
`offices` and `applications`, whose clocks are bounded.

| Run | Instance | What it shows |
|---|---|---|
| `email_workers` | 2 workers, a challenge and a notice, 2 attempts, capacity 2 with reserve 1, provider adapter; 536,927 | `SoleSender`, `AcceptedOnce`, and the refinement `PromiseKept`, through lease expiry, recovery, uncertain answers and deaths |
| `email_challenges` | 2 challenges of one person, 2 addresses, 1 worker, provider adapter, one death inside a send of each; 4.13 million | `ReplacedNeverSent`, `VerifiedByInbox`: a second challenge replaces the first at any point of its delivery |
| `email_liveness` | 1 worker, a challenge and a notice, local capture, deaths that end; 32,000 | `EveryIntentEnds`, `UncertaintyEnds`, `DeadCodeErased` |
| `intake_elections` | 1 actor, 2 calls, Birthing and beta activation under one key, 2 epochs, clock 2; 1.74 million | `Recognised`, `FreshWrite`, `AlarmIsKnown` |
| `intake_answered` | 2 actors, 2 calls, compound seating, a direct decision under its key, a phase transition; 150,306 | `RetryNeverCollides`, `DoneIsDone`, the refinement `PromiseKept`, and that every call is `Answered` |
| `record_history` | 2 calls, any kind, clock 2, 5 transitions, supplied time 0; 2.5 million | `LineageIsHistory` and the refinement `PromiseKept`, with times out of order |
| `record_stuck` | the same with no supplied time | the finding |
| `event_journey` | 2 people, 2 calls, 1 key, 3 registrations; and, where one of them is alone, 2 desks, 2 contents, 4 transitions; 198,000 | `OneLine`, `LedgerTellsRows`, `RetriesConverge`, `TrailIsALife`, `RequestConflictIsTrue`, `RestsOnStanding`, the refinement `PromiseKept` |
| `seats_and_departures` | 2 members, one of them Coordinator and founder, 2 seats, 2 arrangements, 2 dates, clock 6, 2 versions, 2 requests | `TermsApart`, `StrayIsLate`, `DroppedUnseen`, the refinement `PromiseKept` |
| `offices` | 2 members, one of them Coordinator, policy C, 3 dates, clock 7, 2 versions, 2 nominations | `HeldByConsent`, `OutlivesByReturnOnly`, `RetiredIsUnheld` |
| `applications` | 1 applicant, 2 Coordinators, 3 dates, clock 8, 2 applications, 2 findings; 260,870 | `StatusReadable`, `OneHolder`, `DecidedByHolder`, `OneStanding`, `PeriodsApart` |
| `service_activities` | 2 sessions, 11 commands on 2 Activities by 4 people, 3 epochs, 6 transitions; 3.09 million | `CirclesApart`, `ReadStaysSo`, `RefusedReplay`, `EligibleWhenRecorded` |

### Bounds and why they are enough

* **Two concurrent actors everywhere.** The code's races are between a reader before a
  lock and a writer under it, or two holders of one lease or key: two suffice to meet, and
  the theorems cover any number.
* `MaxAttempts` 2: one attempt to recover and one to use after it. `Capacity` 2 with
  `Reserve` 1: a notice can exhaust its share and an essential message still go. Three
  leases for two workers: a recovered claim always meets a fresh lease.
* `LeaseTime`, `RetryTime`, `ResendTime` 1: each may run out at any `Tick`.
  `ChallengeTime` 2 or 3 lets a challenge outlive a lease or run out under it.
* `SendCrashBound` 1 with one attempt per challenge: a code is in an inbox that no row
  tells of, while its challenge is replaced, used or retried.
* `MaxEpoch` 1 and `MaxClock` 2: an epoch changes between the reads, and a retry runs at a
  later time than its binding. `intake_answered` fixes the epoch, since a changed one
  answers at once, which `intake_elections` covers.
* `MaxLog` 5 is longer than the longest lifecycle of an Event (5 moves) and lets a
  Service or resource go through two versions.
* `MaxRows` 3: a registration, its successor, and a third that tries to follow either.
  `MaxTrail` 4: record, void, reinstate, correct, in every order that is allowed. The
  constraint `EitherScene` keeps the desks idle while two people compete for one line of
  registrations; where one is alone, its calls, one at a time, and the desks interleave,
  until the Event is archived. A desk reads registrations of its own attendee only, and
  only a correction of a record that rests on the first has a choice of contents.
* Two `Dates` before, between and after the executions they are to precede, and a clock
  long enough for the longest story a property is about: two seatings, an adoption and a
  departure (6); nomination, consent, appointment, departure, return and a second
  appointment (7); two applications with a claim, a finding, a handover and a departure
  (8). Every mutant's counterexample fits, and the theorems of these modules are for any
  bounds.
* `TwoLives`: one Activity has all eight commands, another is created, assigned the other
  way round and cancelled by the same person under the same key, so that circles of two
  commands and one key used for two payloads both occur. Access of one Identity changes,
  who is actor of one ASSIGN and assignee of the other. The constraint `OneLifeLong` stops
  at six transitions in all, which is as long as one life can be: `OneOfEach`, proved.
* The bounds are guards in the actions and constants of the modules. Symmetry is used only
  for sets of calls, sessions, desks, workers, leases, addresses and Coordinators that no
  definition tells apart, and never with a liveness property.

### Fairness and why the code justifies it

* **Email.** The command runs under a scheduler, again and again: an idle worker starts a
  pass and a running one goes on (`WF`). Row locks last one short transaction, so a worker
  does not find a row locked for ever, is not overtaken by its lease before every send
  (a minute; the send follows the claim), and housekeeping gets to each row of its lists
  (`SF`). Processes die any number of times, but not for ever (`CrashesEnd`).
  Without the last, a worker that dies in every pass refutes any progress.
* **Intake.** A call in progress is run on by its thread (`WF`); PostgreSQL queues those
  who wait for a row lock, so nobody is overtaken at one for ever (`SF` on `Begin` and
  `Perform`). Nothing is assumed of callers, losses or roll-backs.
* `UncertaintyEnds` is checked with local capture only: with a provider whose lookup never
  finds the message, an uncertain row waits for an operator, as the code intends.

## 4. Theorems

All are checked by `tlapm` with Z3, Zenon and LS4, for any sets and bounds the named
ASSUMEs allow. `PROJECT.json` lists the ones to know first.

| Module | Theorem | Says |
|---|---|---|
| `EmailOutboxProofs` | `TypeCorrect` | types and table constraints |
| | `OneSender`, `OnlyEndedErased`, `ReserveKept` | `SoleSender`, `ErasedIsOver`, `EssentialRoom`, deaths inside a send included |
| | `OnlyLiveCodesSent`, `InboxProved` | `ReplacedNeverSent`, `VerifiedByInbox`, deaths inside a send included |
| | `CallsCounted`, `AcceptsCounted`, `ReportedIsTrue` | `CallsWithinDeaths`, `AcceptsWithinDeaths`, `AcceptedIsTrue`: what a death inside a send can cost, and that it costs no more |
| | `CallsBounded`, `RecoveredNeverSent`, `NoBlindResend`, `OutboxImplementsPromise` | without such deaths: `BoundedCalls`, `RecoveredBeforeSend`, `AcceptedOnce` and the refinement, assuming `NoSendCrash` |
| `CommandIntakeProofs` | `TypeCorrect`, `Invariance` | types, locks, the inductive invariant |
| | `AlwaysRecognised`, `RetriesInherit`, `RetriesNeverCollide`, `WritesAreFresh`, `DoneMeansDone`, `AlarmsAreKnown` | the safety properties of the two intake runs |
| | `CompletedStaysFinal`, `NobodyWaitsInCircles`, `NothingDecidedAhead` | `CompletedIsFinal`, `NoWaitCircle`, `DecidedInThePast` |
| | `IntakeKeepsPromise` | the refinement |
| `RecordLifecycleProofs` | `TypeCorrect`, `LineageFaithful`, `ContinuesInOrder`, `RecordKeepsPromise` | the properties of `record_history`, and `OpenInOrder` |
| | `OpenExactly`, `StuckForGood`, `LinkedIsPublished` | `OpenIffLastIsLatest`, `ClosedForGood`, `LinksWerePublished` |
| `EventJourneyProofs` | `RegistrationTypes`, `RegistrationsAreLines`, `LedgerFaithful`, `RetriesAgree` | `RegistrationTypeOK`, `OneLine`, `LedgerTellsRows`, `RetriesConverge` |
| | `JourneyInvariance`, `AttendanceTypes`, `TrailsAreLives`, `DoneMeansRecorded`, `RequestConflictsAreTrue`, `RestsOnItsOwn`, `JourneyKeepsPromise` | the properties of `event_journey` about attendance, `DoneIsRecorded`, and the refinement |
| `GovernanceSeatsProofs` | `Typed`, `SeatsApart`, `MembersSeated`, `StraysAreLate`, `DropsAreUnseen`, `SeatsKeepPromise` | the properties of `seats_and_departures`, and `SeatedWhileMember` |
| | `NoBlindAdoption`, `TermsHaveOneEnd`, `NobodySeatedUnasked`, `PastSeatsStay` | `AdoptedInTurn`, `TermsEndOnce`, `SeatedByRequest`, `SeatReadingsStay` |
| `OfficeAppointmentProofs` | `Typed`, `HoldersConsented`, `HoldersReturned`, `RetiredHasNobody` | the properties of `offices` |
| | `OverlapsAreBackdated`, `RefusalsStand`, `PastReadingsStay` | `OverlapIsBackdated`, `ClosedByDateOnly`, `ReadingsStay` |
| `ApplicationCaseProofs` | `StatusAlwaysReadable`, `CaseHasOneHolder`, `HolderHasDecided`, `StandsOnce`, `PeriodsFollow` | the properties of `applications` |
| | `FormerHolders`, `StatusIsRemembered`, `SettledStaysSealed` | `FormerHolderBackdates`, `StatusRemembered`, `SettledIsSealed` |
| `ServiceActivityProofs` | `TypeCorrect`, `ReadUntilCommit`, `RefusedAssignOnly`, `RecordedWhenEligible`, `AnswersRecorded` | `TypeOK`, the properties of `service_activities`, and `AnswersAgree` |
| | `HistoriesArePaths`, `EachActionOnce` | `HistoryIsAPath`, `OneOfEach` |
| | `DeadlocksByActor` | `CirclesApart`, for Identities whose keys have a greatest one |

### The inductive invariants

* **Email.** `Account` relates, row by row, the attempts spent, what a recovered attempt
  means, what the provider accepted and what the local capture tells. `Alone` says that no
  two workers about to deliver hold one lease: `SoleSender` alone is not inductive, because
  a lease given up must not come back. `Within` bounds the bucket and the notices in it.
  `Codes` says that a live code is its person's own challenge, and that where it was accepted
  is the address about to be verified; nothing is accepted before its intent is recorded.
  A step leaves a row alone or makes one of the moves of the lemmas, so a step's proof is a
  case for its row. A death between answer and commit leaves no trace in the row, so
  `Account` bounds calls and acceptances by the row's attempts *and* the history of such
  deaths. Without any (`NoSendCrash`: `External => SendCrashBound = 0`) this is
  `BoundedCalls` and `AcceptedOnce`, and each step also follows `DeliveryPromise`; with
  them these statements are false (section 5).
* **Intake.** `KeysBoundOnce` (one binding per slot), `RecordsOK` (every record is of a
  binding, in one of its slots, at its time), `AttemptsInOrder` (what an attempt holds at
  which statement) and `ReceiptsInOrder` (a second stage only after the first). They are
  needed together: that a receipt under a call's slot is its own follows from one binding
  per slot *and* every record belonging to a binding. `ReceivedInThePast`, the receipt time
  of every binding has passed, is what `DecidedInThePast` needs; it is also what the three
  organism modules assume when they let `received` be any time up to the clock.
  `NoWaitCircle` looks at the call of a circle that is furthest: one that has written
  waits for nobody, and without one nobody waits for the organism.
* **Records.** `SeenIsRow`: what was read under the lock is still the row. `VersionBound`:
  no more versions than transitions. Together with `LineageIsHistory` they make the
  predecessor query agree with the last transition whenever it is open. `LatestThere` (a
  lineage has a latest transition) gives the converse: when a transition occurred after
  the last one, the one that would be named is not the last, and so has a successor.
* **Journeys.** `OneLine` is not inductive: that a cancelled registration with a successor
  cannot be followed again needs `Followed`, every registration but a person's last has a
  successor. `RetriesConverge` is split into keys used once and answers recorded. For the
  attendance, `OriginTells` (a walk-in rests on no registration) and `ComparedTells` (what a
  fingerprint compared is what the transition resulted in) carry the statuses of
  `TrailIsALife` and the two properties of answers; for its facts, `FactsOK` adds that a
  desk's unlocked read named a registration that some transition had set. The
  registrations' invariant is proved for `RegistrationSpec` and holds with attendance
  because every behaviour of `Spec` is one of `RegistrationSpec`.

* **Seats.** `Past` and `ToldApart`: rows were recorded before now, at times that tell
  them apart. `ComposedByDeparture`: an ending is at the date of its holder's departure.
  From these, `TermsApart` holds because the deferred guard sees every term recorded; the
  service's own check, at the receipt, would not do. `Turns` is inductive on top of them: an
  adoption gets the number after the versions known at its receipt, and the guard accepts
  only the number after all there are, so it knew them all (by cardinality).
* **Offices.** `EndedByLeaving` (a departure ended what its member held) and
  `AppointedInPeriod` (an appointment recorded after a departure is dated before it or
  after a return) give `OutlivesByReturnOnly`. `RestsOnConsent` states `HeldByConsent` by
  all answers there are, which no later answer changes, because the guards refuse an answer
  dated before the appointment. `Answers` (a consent is a nominee's first answer, and who
  proposed themselves only withdraws) and `Turns` (when a second appointment of a person
  was made the first was over, or had not begun by its date) give the three properties that
  say which consequence of backdating is possible.
* **Applications.** `Transfers` and `Lineage`: the claims of a case form one line, each
  ended where the next began. `HolderDecided` is then a fact about the line that later
  rows, all recorded later, leave alone. For the findings it takes both cuts: one recorded
  by the decision's receipt is judged as of the decision's date (`at`, `received`); one
  recorded after it is judged as the decision is executed, by when its release, too, is
  recorded. That a step only adds rows recorded now
  (`AddsRows`) is what `StatusRemembered` and its like in the other two modules rest on.
  `Fresh`: what ended a person's membership is dated before an application that is still
  open.
* **Service activities.** `Apart`: no two transactions hold one row. `InOrder`: a
  transaction has its actor's row before the others and those by key. `Kept`: what a
  transition needed when it was recorded is still there. With them what a transaction read
  stays so (`StaysSo`): another session that records on the same Activity would need its
  row, one that uses the same key would need its actor's, and a CREATE needs an Activity
  that is not there. For deadlocks, take the greatest Identity somebody in a circle waits
  for, not as its holder's own actor: its holder then waits only for greater ones, a
  contradiction. That needs a greatest key (they are bounded integers), not finitely many
  sessions. For the histories, `Story` says that every transition's state ranks at most as
  the row's and `Rank` goes up with every command, so none can be recorded twice.

### Only model-checked

`EveryIntentEnds`, `UncertaintyEnds`, `DeadCodeErased` and `Answered`: liveness under
fairness is beyond the provers. Every safety property of a passing run is also a theorem.

### Only proved

Theorems that no run repeats. Each holds when a configuration of its module names it (of
the first two, one without deaths inside a send):

* Email: `BoundedCalls`, `RecoveredBeforeSend`, `EssentialRoom`, `ErasedIsOver`,
  `AcceptedIsTrue`, `CallsWithinDeaths`, `AcceptsWithinDeaths`.
* Intake: `RetryInherits`, `CompletedIsFinal`, `NoWaitCircle`, `DecidedInThePast`.
* Records: `OpenInOrder`, `OpenIffLastIsLatest`, `ClosedForGood`, `LinksWerePublished`.
* Attendance: `DoneIsRecorded`.
* Seats: `SeatedWhileMember`, `AdoptedInTurn`, `TermsEndOnce`, `SeatedByRequest`,
  `SeatReadingsStay`.
* Offices: `OverlapIsBackdated`, `ClosedByDateOnly`, `ReadingsStay`.
* Applications: `FormerHolderBackdates`, `StatusRemembered`, `SettledIsSealed`.
* Service activities: `AnswersAgree`, `HistoryIsAPath`, `OneOfEach`.
* The `TypeOK`s.

## 5. Findings

`record_stuck` / `LineageOpen`, which TLC finds violated. `event_service.py:103` takes the
time of occurrence before it waits for the row. Two calls can commit in the other order
than their times; the next call then names the later-timed transition as its predecessor,
which already has a successor, and is refused, and so is every one after it: the record can
never move again. The same query is in `service_service.py:95`, `library_service.py:98` and
`contribution_service.py:81`. The theorem `OpenExactly` says that it is the only way: the
lineage is open if and only if no transition occurred after the one committed last. And
`StuckForGood` says that nothing that can be called repairs it.

### Divergences without a run

Each of the first nine is a property that is stated in its module and violated when a
configuration names it; a theorem, and mostly a run, states what does hold in its place.

* `ConflictIsTrue`. Voiding and reinstating put the row's *present* facts into the
  request's fingerprint (`event_attendance_service.py:860`). A retry after a correction is
  told that its key was used with a different payload (line 296), which it was not. In its
  place: `RequestConflictIsTrue`. (It takes two times of presence.)
* `TrailTellsFacts`. `_status_transition` reads the attendance before the Event's row lock
  (line 835) and records that snapshot's registration (line 921). After a concurrent
  correction the trail names a registration the record no longer rests on. In its place:
  `RestsOnStanding`, and `TrailIsALife`: the times follow each other without exception, and
  the registration a transition says it found is one the record did rest on, or, in a
  correction, none.
* `DepartureEndsSeats`. A seat decided as of a date before its member's departure, and
  executed after it, has no ending and can have none
  (`core/migrations/0045_sbg_governance_formation.py:1289` and 1306;
  `organism_membership_service.py:1357`). In its place: `StrayIsLate`.
* `HeldSeatRemains`. "a held seat cannot be removed by a new version"
  (`organism_governance_service.py:250`): an adoption received before the seat was taken does
  not see its holder. In its place: `DroppedUnseen`.
* `OneHoldingAtATime`. "A fresh appointment can be made after the current one ends"
  (`organism_role_service.py:194`): the check (2047) does not see a holding that is over
  already, and an appointment as of an earlier date runs through it. In its place:
  `OverlapIsBackdated`.
* `HeldWhileMember`. "an office requires a current membership"
  (`organism_role_service.py:1871`): the membership is looked at as of now and of the
  period, so that a member who returned is appointed as of a date in the gap. In its
  place: `OutlivesByReturnOnly`.
* `ClosedStaysClosed`. "This nomination is closed." (`organism_role_service.py:2143`): as of
  a date before a withdrawal the appointment is still made after it. In its place:
  `HeldByConsent`, and `ClosedByDateOnly`.
* `DecidedByCurrentHolder`. "as its current self-assignee"
  (`organism_application_service.py:2842`): whoever held the case as of the decision's date
  decides, though it was handed over since. In its place: `DecidedByHolder`, and
  `FormerHolderBackdates`.
* `NotAsideAsOfDate`. "The holder has stepped aside on this case" (migration 0056, line
  106): a finding is effective at the time its transaction read (`authority_lifecycle.py:215`)
  and recorded later (migration 0055, line 92). A decision received and dated in between,
  and executed after a later finding released the first, is not refused: at its receipt
  the first was not recorded, at its execution it is superseded. In its place:
  `DecidedByHolder`, which has this one exception.
* `ExactReplayReturns`. "An exact replay returns the unchanged original result"
  (`docs/holocron/datacrons/D-S012-GOVERNED-SERVICE-ACTIVITY-ASSIGNMENT-DELIVERY-AND-READBACK.md:300`):
  `service_activity_service.py:1029` requires an active assignee before it looks for the
  earlier ASSIGN. In its place: `RefusedReplay`, which says it is the only case.

* `worker.py:286` says of an expired claim "No backend call was started for this lease."
  With an external adapter that is false for a worker that dies between the provider's
  answer and the commit: the STARTED marker is rolled back with it. External adapters are
  disabled in this unit (`backend.py:97`), and local capture rolls back too. The theorem
  `RecoveredNeverSent` assumes `NoSendCrash`; `AcceptsCounted` says what is left
  without it.
* `command_intake.py:467` describes the unexpected-history refusal as "A record for the
  request key that no intake binding accounts for." `_candidate_bindings` (869) does not
  offer a Birthing's binding to a beta activation under the same key, although it accounts
  for the election it finds. `AlarmIsKnown`, checked and proved, says that this is the only
  case in which it is raised.

## 6. What the plan has left

Modelled in the order of what would do most harm: mail, the command frame, records and
journeys, then seats, offices, applications and service activities. Left, each as a module
of the same kind:

| Module | Composes with | What it would say |
|---|---|---|
| `OrganismPhases` | the Birthing of `GovernanceSeats` | phases never skip; one founding batch; allowances (`circle_commands.py:32`) are not exceeded; two transitions of one predecessor (`organism_formation_service.py:2248`) |
| `RecoveryWindows` | offices | projected and recorded state agree at the windows' edges (`organism_recovery.py:36`); advancing is idempotent (109) |
| `ProfileEffect` | `ServiceActivity` | nothing is projected from a voided proposal (`profile_effect_service.py:1482`) |
| `ContributionReview` | `RecordLifecycle`'s lineage | one lineage per contribution, all of whose commands lock its row (with the version's, `contribution_service.py:409` and 439), in two orders (313, 409); a correction of a version restricted meanwhile (332) |
| `CourseVersions`, `RelationshipLine` | the same | a stale head is refused (`education_course_service.py:755`); a relationship is superseded once (`event_resource_relationship_service.py:730`) |
| the Coordinator's office | `OfficeAppointment`, `ApplicationCase` | coverage and vacancy with several holders; two volunteers read one vacancy (`circle_commands.py:318`) |

Theorem left: that each step of `GovernanceSeats` is a commit of `CommandIntake`. What it
assumes of the intake, that a receipt time has passed and stays the command's own, is
`NothingDecidedAhead` and `CommandIntake`'s refinement.

## 7. Not modelled, and why

* Conditions, coverage and entitlements: SQL over recorded facts. Where a module leaves an
  authority's answer open, every property holds whatever it says.
* In `GovernanceSeats`, `OfficeAppointment` and `ApplicationCase`: texts, routes and
  eligibility in a seat's body, a gateway's settings and
  questions, pinned rule versions, routes through another Circle. Each may only refuse a
  command that the models let happen. The Coordinator's own office is an ending at any
  time (`Vacate`) or does not end.
* Profile effects, courses, contributions, relationships: see section 6.
* LAW, policy, charter entry, discussion: the deciding code is PL/pgSQL in migrations; a
  model would be one of those functions.
* Reads, views, forms and command lines keep no state.
* Message text, evidence, titles, templates, hashing and canonical forms: no property is
  about them.
* The actor's recheck of access inside attendance, and the deadlock between actors at two
  Events: one Event is modelled, a lost transaction is a
  refusal (the `deadlock` hazard at `event_attendance_service.py:151`).
