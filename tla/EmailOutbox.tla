---------------------------- MODULE EmailOutbox ----------------------------
(***************************************************************************)
(* The email foundation (src/email_foundation): the outbox of notice and   *)
(* inbox-verification intents, the worker's leases and delivery attempts,  *)
(* the daily capacity bucket, the address record with its challenge, and   *)
(* housekeeping.                                                           *)
(*                                                                         *)
(* One action is one database transaction of the code.  Inside it the row  *)
(* locks it takes (Identity, then Outbox) keep every other transaction     *)
(* away from the rows it reads, so it is atomic here; what the code reads  *)
(* in one transaction and uses in a later one (recover's and               *)
(* housekeeping's list of ids, the lease a worker holds) is kept in the    *)
(* state between two actions.  A worker may die between any two of them.   *)
(*                                                                         *)
(* A timestamp column is the time still to run until the code's comparison *)
(* with the clock changes its answer: ready_at <= now is readyIn = 0,      *)
(* lease_until <= now is leaseIn = 0, now < expires_at is expiresIn > 0    *)
(* and terminal_at <= now - retention is retainIn = 0.                     *)
(***************************************************************************)
EXTENDS Integers, FiniteSets

CONSTANTS
  Intent,           \* outbox rows that may ever be requested, one per request key
  Verification,     \* those whose template is ema.verify (they carry a challenge)
  Notice,           \* those of category NOTICE; all others are ESSENTIAL
  Person,           \* identities
  Recipient,        \* [Intent -> Person], fixed by the request key's payload
  Address,          \* inbox addresses
  Worker,           \* concurrent email_outbox processes
  Lease,            \* the pool uuid4 draws lease ids from
  None,             \* SQL NULL, or an empty column
  MaxAttempts,      \* INTEVIA_EMAIL_MAX_ATTEMPTS
  Capacity,         \* INTEVIA_EMAIL_DAILY_CAPACITY
  Reserve,          \* INTEVIA_EMAIL_ESSENTIAL_RESERVE
  ChallengesPerDay, \* INTEVIA_EMAIL_VERIFICATIONS_PER_DAY
  LeaseTime, RetryTime, ChallengeTime, ResendTime, RetentionTime, DayLength,
  PassLimit,        \* the command's --limit
  External,         \* TRUE: a provider adapter; FALSE: CaptureBackend
  SendCrashBound    \* bound on the workers that die between a provider's answer
                    \* for an intent and their commit

ASSUME IntentAssumption ==
  /\ IsFiniteSet(Intent)
  /\ Verification \subseteq Intent /\ Notice \subseteq Intent \ Verification
  /\ Recipient \in [Intent -> Person]
  /\ None \notin Intent \union Lease \union Address

ASSUME NumberAssumption ==
  /\ MaxAttempts \in Nat \ {0} /\ Capacity \in Nat \ {0}
  /\ Reserve \in 1..Capacity /\ ChallengesPerDay \in Nat \ {0}
  /\ {LeaseTime, RetryTime, ChallengeTime, ResendTime, RetentionTime, DayLength,
      PassLimit} \subseteq Nat \ {0}

ASSUME AdapterAssumption == External \in BOOLEAN /\ SendCrashBound \in Nat

VARIABLES
  outbox,   \* Outbox rows
  attempt,  \* the last DeliveryAttempt of each row
  capture,  \* LocalCapture rows
  record,   \* AddressRecord rows
  bucket,   \* today's CapacityBucket and the time left of the day
  worker,   \* where each worker process is, and what it remembers
  house,    \* the housekeeping process and the list it read
  calls,    \* history: backend calls that may have reached the provider
  deaths,   \* history: those in which the worker died
  accepts,  \* history: those the provider accepted
  sentTo    \* history: the address an intent was accepted for

vars == <<outbox, attempt, capture, record, bucket, worker, house, calls,
          deaths, accepts, sentTo>>
history == <<calls, deaths, accepts, sentTo>>

Open == {"REQUESTED", "QUEUED"}
Terminal == {"PROVIDER_ACCEPTED", "FAILED", "SUPPRESSED"}
States == {"ABSENT", "ACCEPTANCE_UNCERTAIN"} \union Open \union Terminal

NoRow == [state |-> "ABSENT", lease |-> None, leaseIn |-> 0, readyIn |-> 0,
          attempts |-> 0, to |-> None, erased |-> FALSE, retainIn |-> 0,
          created |-> 0]
NoAttempt == [phase |-> "NONE", recovered |-> FALSE]
NoRecord == [verified |-> None, pending |-> None, challenge |-> None,
             token |-> None, expiresIn |-> 0, resendIn |-> 0, today |-> 0]
Idle == [at |-> "idle", todo |-> {}, left |-> 0, intent |-> None, lease |-> None]
HouseIdle == [at |-> "idle", todo |-> {}, aged |-> {}]

Init ==
  /\ outbox = [i \in Intent |-> NoRow]
  /\ attempt = [i \in Intent |-> NoAttempt]
  /\ capture = [i \in Intent |-> "NONE"]
  /\ record = [p \in Person |-> NoRecord]
  /\ bucket = [total |-> 0, notice |-> 0, dayIn |-> DayLength]
  /\ worker = [w \in Worker |-> Idle]
  /\ house = HouseIdle
  /\ calls = [i \in Intent |-> 0]
  /\ deaths = [i \in Intent |-> 0]
  /\ accepts = [i \in Intent |-> 0]
  /\ sentTo = [i \in Intent |-> None]

-----------------------------------------------------------------------------
(* Requests: service.py.                                                   *)

\* _enqueue's insert.  A repeated key returns the row that is there and
\* changes nothing.
NewRow(i, a) ==
  [state |-> "REQUESTED", lease |-> None, leaseIn |-> 0, readyIn |-> 0,
   attempts |-> 0, to |-> a, erased |-> FALSE, retainIn |-> 0,
   created |-> Cardinality({j \in Intent : outbox[j].state # "ABSENT"}) + 1]

\* request_message: the recipient's verified address is copied to the row.
RequestMessage(i) ==
  /\ i \in Intent \ Verification
  /\ outbox[i].state = "ABSENT"
  /\ record[Recipient[i]].verified # None
  /\ outbox' = [outbox EXCEPT ![i] = NewRow(i, record[Recipient[i]].verified)]
  /\ UNCHANGED <<attempt, capture, record, bucket, worker, house, history>>

\* _suppress_verification: the person's verification rows no worker holds.
Suppressible(p) ==
  {j \in Verification : /\ Recipient[j] = p
                        /\ outbox[j].state \in Open
                        /\ outbox[j].lease = None}

Ended(row, state) == [row EXCEPT !.state = state, !.retainIn = RetentionTime]

\* The address record's new challenge, with a token of its own.
NewChallenge_LiveOneReused(r, i, a) ==
  [verified |-> r.verified, pending |-> a,
   challenge |-> IF r.expiresIn > 0 THEN r.challenge ELSE i,
   token |-> IF r.expiresIn > 0 THEN r.token ELSE i,
   expiresIn |-> ChallengeTime, resendIn |-> ResendTime, today |-> r.today + 1]

NewChallenge(r, i, a) ==
  [verified |-> r.verified, pending |-> a, challenge |-> i, token |-> i,
   expiresIn |-> ChallengeTime, resendIn |-> ResendTime, today |-> r.today + 1]

\* request_verification: a new challenge (named by its row) replaces the
\* identity's previous one and is enqueued.
RequestVerification(i, a) ==
  LET p == Recipient[i] IN
  /\ i \in Verification
  /\ outbox[i].state = "ABSENT"
  /\ record[p].resendIn = 0
  /\ record[p].today < ChallengesPerDay
  /\ record' = [record EXCEPT ![p] = NewChallenge(@, i, a)]
  /\ outbox' = [j \in Intent |->
                  IF j = i THEN NewRow(i, a)
                  ELSE IF j \in Suppressible(p) THEN Ended(outbox[j], "SUPPRESSED")
                  ELSE outbox[j]]
  /\ UNCHANGED <<attempt, capture, bucket, worker, house, history>>

\* verify_address: somebody who read token t of a captured message presents
\* it with challenge id c.
VerifyAddress(p, c, t) ==
  /\ accepts[t] > 0
  /\ record[p].challenge = c
  /\ record[p].token = t
  /\ record[p].expiresIn > 0
  /\ record' = [record EXCEPT ![p] =
                  [@ EXCEPT !.verified = record[p].pending, !.pending = None,
                            !.challenge = None, !.token = None, !.expiresIn = 0]]
  /\ outbox' = [j \in Intent |->
                  IF j \in Suppressible(p) THEN Ended(outbox[j], "SUPPRESSED")
                  ELSE outbox[j]]
  /\ UNCHANGED <<attempt, capture, bucket, worker, house, history>>

-----------------------------------------------------------------------------
(* The worker: worker.py.                                                  *)

LeaseExpired(i) == /\ outbox[i].state = "QUEUED"
                   /\ outbox[i].lease # None
                   /\ outbox[i].leaseIn = 0

\* What recover lists, before its transactions.
ListedStuck_LeasesOnly(i) == LeaseExpired(i)
ListedStuck_UncertainOnly(i) == outbox[i].state = "ACCEPTANCE_UNCERTAIN"
ListedStuck(i) == LeaseExpired(i) \/ outbox[i].state = "ACCEPTANCE_UNCERTAIN"

\* What it finds when it looks again, under the row's lock.
StillStuck_ListTrusted(i) == TRUE
StillStuck(i) == LeaseExpired(i) \/ outbox[i].state = "ACCEPTANCE_UNCERTAIN"

\* run_worker, or the recover command: list what to recover.
StartPass(w) ==
  /\ worker[w].at = "idle"
  /\ worker' = [worker EXCEPT ![w] =
       [Idle EXCEPT !.at = "recover", !.left = PassLimit,
          !.todo = {i \in Intent : ListedStuck(i)}]]
  /\ UNCHANGED <<outbox, attempt, capture, record, bucket, house, history>>

\* recover's rows are done, or its limit is reached: go on to the claims.
StopRecovering(w) ==
  /\ worker[w].at = "recover"
  /\ worker[w].todo = {} \/ worker[w].left = 0
  /\ worker' = [worker EXCEPT ![w] = [Idle EXCEPT !.at = "claim", !.left = PassLimit]]
  /\ UNCHANGED <<outbox, attempt, capture, record, bucket, house, history>>

\* _finish: the row's new state, its lease released, its next ready time.
Finished_LeaseKept(row, state, immediate) ==
  [row EXCEPT !.state = state,
              !.retainIn = IF state \in Terminal THEN RetentionTime ELSE 0,
              !.readyIn = IF immediate THEN 0 ELSE RetryTime]

Finished(row, state, immediate) ==
  [row EXCEPT !.state = state, !.lease = None, !.leaseIn = 0,
              !.retainIn = IF state \in Terminal THEN RetentionTime ELSE 0,
              !.readyIn = IF immediate THEN 0 ELSE RetryTime]

FinishRow(i, state, immediate) ==
  outbox' = [outbox EXCEPT ![i] = Finished(@, state, immediate)]

\* _finish: the attempt is over; recovered is its code CLAIM_RECOVERED.
FinishAttempt(i, recovered) ==
  attempt' = [attempt EXCEPT ![i] = [phase |-> "FINISHED", recovered |-> recovered]]

\* What adapter.lookup can answer, after recover's rule that absence is
\* believed only from an authoritative local capture.  A provider may know,
\* or be unable to say; an exception of its adapter counts as UNCERTAIN.
Lookup_AbsenceBelieved(i) ==
  IF External
  THEN {"ABSENT"} \union {x \in {"ACCEPTED"} : accepts[i] > 0}
  ELSE IF capture[i] # "NONE" THEN {"ACCEPTED"} ELSE {"ABSENT"}

Lookup(i) ==
  IF External
  THEN {"UNCERTAIN"} \union {x \in {"ACCEPTED"} : accepts[i] > 0}
  ELSE IF capture[i] # "NONE" THEN {"ACCEPTED"}
  ELSE IF outbox[i].erased THEN {"UNCERTAIN"}
  ELSE {"ABSENT"}

\* The state recover gives a row for an outcome.
Recovered(i, outcome, preSend) ==
  CASE outcome = "ACCEPTED" -> "PROVIDER_ACCEPTED"
    [] outcome = "ABSENT" ->
         IF preSend \/ outbox[i].attempts < MaxAttempts THEN "QUEUED" ELSE "FAILED"
    [] outcome = "UNCERTAIN" -> "ACCEPTANCE_UNCERTAIN"

\* recover's loop body leaves the row alone: it is locked by another
\* transaction (skip_locked), no longer stuck, or still uncertain.
LeaveRow(w, i) ==
  /\ worker' = [worker EXCEPT ![w].todo = @ \ {i}]
  /\ UNCHANGED <<outbox, attempt, capture, record, bucket, house, history>>

ReconcileRow(w, i) ==
  LET preSend == LeaseExpired(i) /\ attempt[i].phase = "CLAIMED" IN
  /\ StillStuck(i)
  /\ attempt[i].phase # "NONE"
  /\ \E outcome \in IF preSend THEN {"ABSENT"} ELSE Lookup(i) :
       LET state == Recovered(i, outcome, preSend) IN
       /\ ~(state = outbox[i].state /\ state = "ACCEPTANCE_UNCERTAIN")
       /\ FinishRow(i, state, preSend)
       /\ FinishAttempt(i, preSend)
  /\ worker' = [worker EXCEPT ![w].todo = @ \ {i}, ![w].left = @ - 1]
  /\ UNCHANGED <<capture, record, bucket, house, history>>

RecoverRow(w) ==
  /\ worker[w].at = "recover"
  /\ worker[w].left > 0
  /\ \E i \in worker[w].todo : LeaveRow(w, i) \/ ReconcileRow(w, i)

\* claim: the rows it may take, in its order (category, created_at).
Claimable == {i \in Intent : /\ outbox[i].state \in Open
                             /\ outbox[i].lease = None
                             /\ outbox[i].readyIn = 0}

Precedes(i, j) ==
  \/ i \notin Notice /\ j \in Notice
  \/ (i \in Notice <=> j \in Notice) /\ outbox[i].created < outbox[j].created

\* The row's challenge is still its identity's live one.
ChallengeLive(i) ==
  LET r == record[Recipient[i]] IN
  /\ r.challenge = i /\ r.token # None /\ r.expiresIn > 0
  /\ r.pending = outbox[i].to

Obsolete(i) == i \in Verification /\ ~ChallengeLive(i)
Exhausted(i) == outbox[i].attempts >= MaxAttempts /\ ~attempt[i].recovered

\* Capacity left for row i today; notices leave the reserve alone.
Room(i) == /\ bucket.total < Capacity
           /\ i \in Notice => bucket.notice < Capacity - Reserve

\* The rows claim ended on its way: obsolete ones suppressed, spent ones failed.
Swept(i) == Ended(outbox[i], IF Obsolete(i) THEN "SUPPRESSED" ELSE "FAILED")

\* A lease id nobody has seen: no row carries it and no worker remembers it.
FreshLease(l) == /\ \A i \in Intent : outbox[i].lease # l
                 /\ \A w \in Worker : worker[w].lease # l

\* claim reserves an attempt of row i under lease l.  An attempt recovered
\* before it was started is taken up again, without using another one.
Reserved(i, l) ==
  [outbox[i] EXCEPT !.state = "QUEUED", !.lease = l, !.leaseIn = LeaseTime,
     !.attempts = IF attempt[i].recovered THEN @ ELSE @ + 1]

\* The claim is charged to the day's bucket.
Charged(i) == [bucket EXCEPT !.total = @ + 1,
                             !.notice = @ + IF i \in Notice THEN 1 ELSE 0]

Take(w, i, l, swept) ==
  /\ outbox' = [j \in Intent |-> IF j = i THEN Reserved(i, l)
                                 ELSE IF j \in swept THEN Swept(j)
                                 ELSE outbox[j]]
  /\ attempt' = [attempt EXCEPT ![i] = [phase |-> "CLAIMED", recovered |-> FALSE]]
  /\ bucket' = Charged(i)
  /\ worker' = [worker EXCEPT ![w] =
       [@ EXCEPT !.at = "deliver", !.intent = i, !.lease = l]]

\* claim found nothing, or the capacity is used up: run_worker ends its batch.
EndBatch(w, swept) ==
  /\ outbox' = [j \in Intent |-> IF j \in swept THEN Swept(j) ELSE outbox[j]]
  /\ worker' = [worker EXCEPT ![w] = Idle]
  /\ UNCHANGED <<attempt, bucket>>

\* claim, passing over the rows other transactions hold locked (skip_locked).
ClaimPassing(w, locked) ==
  LET offered == Claimable \ locked
      usable == {i \in offered : ~Obsolete(i) /\ ~Exhausted(i)}
      first == {i \in usable : \A j \in usable \ {i} : Precedes(i, j)}
      swept == {i \in offered \ usable : \A j \in usable : Precedes(i, j)}
  IN /\ worker[w].at = "claim"
     /\ worker[w].left > 0
     /\ \/ usable = {} /\ EndBatch(w, swept)
        \/ \E i \in first : ~Room(i) /\ EndBatch(w, swept)
        \/ \E i \in first, l \in Lease :
             Room(i) /\ FreshLease(l) /\ Take(w, i, l, swept)
     /\ UNCHANGED <<capture, record, house, history>>

Claim(w) == \E locked \in SUBSET Claimable : ClaimPassing(w, locked)

\* run_worker's range(limit) is used up.
EndRun(w) ==
  /\ worker[w].at = "claim" /\ worker[w].left = 0
  /\ worker' = [worker EXCEPT ![w] = Idle]
  /\ UNCHANGED <<outbox, attempt, capture, record, bucket, house, history>>

\* The worker holds the row's current lease, and it has not run out.
HoldsLease_AnyLease(w) ==
  LET i == worker[w].intent IN
  /\ worker[w].at = "deliver"
  /\ outbox[i].state = "QUEUED"
  /\ outbox[i].leaseIn > 0
  /\ attempt[i].phase = "CLAIMED"

HoldsLease(w) ==
  LET i == worker[w].intent IN
  /\ worker[w].at = "deliver"
  /\ outbox[i].state = "QUEUED"
  /\ outbox[i].lease = worker[w].lease
  /\ outbox[i].leaseIn > 0
  /\ attempt[i].phase = "CLAIMED"

\* _allowed, on the rows deliver has locked.  Whether the identity may still
\* be written to and the audience rule still holds is the parameter standing.
Allowed_ClaimTrusted(i, standing) ==
  /\ standing = "permitted"
  /\ ~outbox[i].erased
  /\ i \notin Verification =>
       outbox[i].to # None /\ outbox[i].to = record[Recipient[i]].verified

Allowed(i, standing) ==
  /\ standing = "permitted"
  /\ ~outbox[i].erased
  /\ IF i \in Verification THEN ChallengeLive(i)
     ELSE outbox[i].to # None /\ outbox[i].to = record[Recipient[i]].verified

\* The worker goes on to its next claim.
NextClaim(w) ==
  worker' = [worker EXCEPT ![w] = [Idle EXCEPT !.at = "claim", !.left = worker[w].left - 1]]

\* deliver returns False before it has looked at anything but the lease.
DeliverFenced(w) ==
  /\ worker[w].at = "deliver" /\ ~HoldsLease(w)
  /\ NextClaim(w)
  /\ UNCHANGED <<outbox, attempt, capture, record, bucket, house, history>>

\* The checks refuse the message, or a notice's audience rule raises.
DeliverRefused(w) ==
  LET i == worker[w].intent IN
  /\ HoldsLease(w)
  /\ \/ /\ i \notin Verification /\ Allowed(i, "permitted")
        /\ FinishRow(i, "FAILED", FALSE)
     \/ \E standing \in {"permitted", "refused"} :
          ~Allowed(i, standing) /\ FinishRow(i, "SUPPRESSED", FALSE)
  /\ FinishAttempt(i, FALSE)
  /\ NextClaim(w)
  /\ UNCHANGED <<capture, record, bucket, house, history>>

\* Whether the backend accepted row i's message, and the state deliver gives the
\* row for its answer.  Only a provider can suppress a recipient, or accept and
\* then fail to say so; a failing local capture is rolled back with its savepoint.
Answer(i, accepted, state) ==
  \/ accepted /\ state = "PROVIDER_ACCEPTED"
  \/ ~accepted /\ outbox[i].attempts < MaxAttempts /\ state = "QUEUED"
  \/ ~accepted /\ outbox[i].attempts >= MaxAttempts /\ state = "FAILED"
  \/ ~accepted /\ state = "ACCEPTANCE_UNCERTAIN"
  \/ External /\ ~accepted /\ state = "SUPPRESSED"
  \/ External /\ accepted /\ state = "ACCEPTANCE_UNCERTAIN"

\* One backend call for row i, as the history sees it.
Sent(i, accepted) ==
  /\ calls' = [calls EXCEPT ![i] = @ + 1]
  /\ accepts' = [accepts EXCEPT ![i] = @ + IF accepted THEN 1 ELSE 0]
  /\ sentTo' = [sentTo EXCEPT ![i] = IF accepted THEN outbox[i].to ELSE @]

DeliverSent(w) ==
  LET i == worker[w].intent IN
  /\ HoldsLease(w)
  /\ Allowed(i, "permitted")
  /\ \E accepted \in BOOLEAN, state \in States :
       /\ Answer(i, accepted, state)
       /\ FinishRow(i, state, FALSE)
       /\ Sent(i, accepted)
       /\ capture' = IF accepted /\ ~External
                     THEN [capture EXCEPT ![i] = "FULL"] ELSE capture
  /\ FinishAttempt(i, FALSE)
  /\ NextClaim(w)
  /\ UNCHANGED <<record, bucket, house, deaths>>

Deliver(w) == DeliverFenced(w) \/ DeliverRefused(w) \/ DeliverSent(w)

\* The process dies between two transactions, or in one that rolls back.
Crash(w) ==
  /\ worker[w].at # "idle"
  /\ worker' = [worker EXCEPT ![w] = Idle]
  /\ UNCHANGED <<outbox, attempt, capture, record, bucket, house, history>>

\* The process dies after a provider took the message and before the commit:
\* the STARTED marker is rolled back, the message is not.
CrashInSend(w) ==
  LET i == worker[w].intent IN
  /\ External /\ HoldsLease(w)
  /\ deaths[i] < SendCrashBound
  /\ Allowed(i, "permitted")
  /\ \E accepted \in BOOLEAN : Sent(i, accepted)
  /\ deaths' = [deaths EXCEPT ![i] = @ + 1]
  /\ worker' = [worker EXCEPT ![w] = Idle]
  /\ UNCHANGED <<outbox, attempt, capture, record, bucket, house>>

-----------------------------------------------------------------------------
(* Housekeeping.                                                           *)

\* The retention cutoff of this pass has passed the row's terminal_at.
Aged == {i \in Intent : outbox[i].state \in Terminal /\ outbox[i].retainIn = 0}

\* Its challenge is over (housekeeping does not compare the address).
ChallengeOver(i) ==
  LET r == record[Recipient[i]] IN
  i \in Verification /\ ~(r.challenge = i /\ r.token # None /\ r.expiresIn > 0)

ListHousekeeping ==
  /\ house.at = "idle"
  /\ house' = [at |-> "rows", aged |-> Aged,
               todo |-> {i \in Intent :
                           /\ outbox[i].state \notin {"ABSENT", "ACCEPTANCE_UNCERTAIN"}
                           /\ ~outbox[i].erased /\ outbox[i].lease = None
                           /\ i \in Aged \/ ChallengeOver(i)}]
  /\ UNCHANGED <<outbox, attempt, capture, record, bucket, worker, history>>

\* The second look at a listed row, under its locks.
Erasable(i) ==
  /\ outbox[i].lease = None /\ ~outbox[i].erased
  /\ outbox[i].state # "ACCEPTANCE_UNCERTAIN"
  /\ ChallengeOver(i) \/ (outbox[i].state \in Terminal /\ i \in house.aged)

\* The row after its payload is erased.  An open one ends as suppressed.
Erased(i) ==
  [IF outbox[i].state \in Open THEN Ended(outbox[i], "SUPPRESSED") ELSE outbox[i]
   EXCEPT !.to = None, !.erased = TRUE]

EraseRow(i) ==
  LET r == record[Recipient[i]]
      old == outbox[i].state \in Terminal /\ i \in house.aged IN
  /\ outbox' = [outbox EXCEPT ![i] = Erased(i)]
  /\ capture' = [capture EXCEPT ![i] = IF old \/ @ = "NONE" THEN "NONE" ELSE "REDACTED"]
  /\ attempt' = IF old THEN [attempt EXCEPT ![i] = NoAttempt] ELSE attempt
  /\ record' = IF r.challenge = i /\ i \in Verification /\ r.expiresIn = 0
               THEN [record EXCEPT ![Recipient[i]] =
                       [@ EXCEPT !.challenge = None, !.token = None, !.pending = None]]
               ELSE record

HousekeepRow ==
  /\ house.at = "rows"
  /\ \E i \in house.todo :
       /\ house' = [house EXCEPT !.todo = @ \ {i}]
       /\ IF Erasable(i) THEN EraseRow(i)
          ELSE UNCHANGED <<outbox, capture, attempt, record>>
  /\ UNCHANGED <<bucket, worker, history>>

\* The pass ends by deleting old attempts and captures of terminal rows.  An
\* attempt may have finished long before its row ended, so which of them are
\* old is left open.
PurgeEvidence ==
  /\ house.at = "rows" /\ house.todo = {}
  /\ \E old \in SUBSET {i \in Intent : /\ outbox[i].state \in Terminal
                                       /\ attempt[i].phase = "FINISHED"} :
       attempt' = [i \in Intent |-> IF i \in old THEN NoAttempt ELSE attempt[i]]
  /\ capture' = [i \in Intent |->
                  IF outbox[i].state \in Terminal /\ i \in house.aged
                  THEN "NONE" ELSE capture[i]]
  /\ house' = HouseIdle
  /\ UNCHANGED <<outbox, record, bucket, worker, history>>

\* The housekeeping process dies, or its limit cut its list short.
HouseCrash ==
  /\ house.at = "rows"
  /\ house' = HouseIdle
  /\ UNCHANGED <<outbox, attempt, capture, record, bucket, worker, history>>

-----------------------------------------------------------------------------
(* Time.                                                                   *)

Less(n) == IF n = 0 THEN 0 ELSE n - 1

OlderRow(r) ==
  [r EXCEPT !.leaseIn = Less(@), !.readyIn = Less(@), !.retainIn = Less(@)]

OlderRecord(r, midnight) ==
  [r EXCEPT !.expiresIn = Less(@), !.resendIn = Less(@),
            !.today = IF midnight THEN 0 ELSE @]

\* One unit of time.  At midnight (UTC) the day's bucket and the count of
\* requests start from zero: both are kept under the date they belong to.
Tick ==
  LET midnight == bucket.dayIn = 1 IN
  /\ outbox' = [i \in Intent |-> OlderRow(outbox[i])]
  /\ record' = [p \in Person |-> OlderRecord(record[p], midnight)]
  /\ bucket' = IF midnight THEN [total |-> 0, notice |-> 0, dayIn |-> DayLength]
               ELSE [bucket EXCEPT !.dayIn = @ - 1]
  /\ UNCHANGED <<attempt, capture, worker, house, history>>

Request ==
  \/ \E i \in Intent : RequestMessage(i) \/ \E a \in Address : RequestVerification(i, a)
  \/ \E p \in Person, c \in Verification, t \in Verification : VerifyAddress(p, c, t)

Work(w) == \/ StartPass(w) \/ RecoverRow(w) \/ StopRecovering(w)
           \/ Claim(w) \/ Deliver(w) \/ EndRun(w)

Housekeeping == ListHousekeeping \/ HousekeepRow \/ PurgeEvidence

Run == Request \/ (\E w \in Worker : Work(w)) \/ Housekeeping \/ Tick

Die == HouseCrash \/ \E w \in Worker : Crash(w) \/ CrashInSend(w)

Next == Run \/ Die

Spec == Init /\ [][Next]_vars

-----------------------------------------------------------------------------
(* Fairness.  The command is run again and again by a scheduler, so an idle *)
(* worker starts a pass and a running one goes on; row locks are held for   *)
(* one short transaction, so a worker does not find every row locked for    *)
(* ever; and a worker is not overtaken by its lease, or killed, every time  *)
(* it is about to send (the lease is a minute, the send follows the claim). *)

Fairness ==
  /\ WF_vars(Tick)
  /\ \A w \in Worker :
       /\ WF_vars(StartPass(w)) /\ WF_vars(StopRecovering(w)) /\ WF_vars(EndRun(w))
       /\ \A i \in Intent : SF_vars(worker[w].left > 0 /\ i \in worker[w].todo
                                    /\ ReconcileRow(w, i))
       /\ WF_vars(RecoverRow(w))
       /\ SF_vars(ClaimPassing(w, {}))
       /\ SF_vars(DeliverRefused(w) \/ DeliverSent(w))
       /\ WF_vars(Deliver(w))
  /\ WF_vars(ListHousekeeping) /\ SF_vars(PurgeEvidence)
  /\ \A i \in Intent : SF_vars(i \in house.todo /\ HousekeepRow /\ i \notin house'.todo)

\* Processes stop dying at some time; before it they may die at any point, any
\* number of times.
CrashesEnd == <>[][Run]_vars

FairSpec == Spec /\ Fairness /\ CrashesEnd

-----------------------------------------------------------------------------
(* Properties.                                                             *)

Row == [state : States, lease : Lease \union {None}, leaseIn : Nat, readyIn : Nat,
        attempts : Nat, to : Address \union {None}, erased : BOOLEAN,
        retainIn : Nat, created : Nat]
AttemptRow == [phase : {"NONE", "CLAIMED", "FINISHED"}, recovered : BOOLEAN]
RecordRow == [verified : Address \union {None}, pending : Address \union {None},
              challenge : Intent \union {None}, token : Intent \union {None},
              expiresIn : Nat, resendIn : Nat, today : Nat]
BucketRow == [total : Nat, notice : Nat, dayIn : Nat \ {0}]
Process == [at : {"idle", "recover", "claim", "deliver"}, todo : SUBSET Intent,
            left : Nat, intent : Intent \union {None}, lease : Lease \union {None}]
Pass == [at : {"idle", "rows"}, todo : SUBSET Intent, aged : SUBSET Intent]

\* Types, with the tables' check constraints: a bucket counts its notices in its
\* total (ema_capacity_consistent), and only a queued row is leased.
TypeOK ==
  /\ outbox \in [Intent -> Row]
  /\ \A i \in Intent : outbox[i].lease # None => outbox[i].state = "QUEUED"
  /\ attempt \in [Intent -> AttemptRow]
  /\ capture \in [Intent -> {"NONE", "FULL", "REDACTED"}]
  /\ record \in [Person -> RecordRow]
  /\ bucket \in BucketRow /\ bucket.notice <= bucket.total
  /\ worker \in [Worker -> Process]
  /\ house \in Pass
  /\ calls \in [Intent -> Nat] /\ deaths \in [Intent -> Nat] /\ accepts \in [Intent -> Nat]
  /\ sentTo \in [Intent -> Address \union {None}]

\* At any time at most one worker can send a given intent: a claim recovered
\* and handed out again fences the worker that held it before (claim and
\* deliver, "the previous lease can no longer send").
SoleSender ==
  \A v, w \in Worker :
    HoldsLease(v) /\ HoldsLease(w) /\ worker[v].intent = worker[w].intent => v = w

\* An intent is never given to the backend more often than the attempt limit,
\* although a claim recovered before its send is not counted again.
BoundedCalls == \A i \in Intent : calls[i] <= MaxAttempts

\* recover's comment on an expired claim: "No backend call was started for this
\* lease."  An attempt marked so has left one of the counted attempts unused.
RecoveredBeforeSend ==
  \A i \in Intent : attempt[i].recovered => calls[i] < outbox[i].attempts

\* A provider accepts each intent at most once, over all retries.
AcceptedOnce == \A i \in Intent : accepts[i] <= 1

\* A row is reported as accepted only if a provider did accept its message, also
\* when a worker died while it was sending it.
AcceptedIsTrue ==
  \A i \in Intent : outbox[i].state = "PROVIDER_ACCEPTED" => accepts[i] > 0

\* With workers that die inside a send, an intent is given to the backend no more
\* often than the attempt limit and once more for each that died sending it.
CallsWithinDeaths == \A i \in Intent : calls[i] <= MaxAttempts + deaths[i]

\* And a provider accepts it no more often than once and once for each of them:
\* no answer that reached the database, lost or uncertain, is ever sent again.
AcceptsWithinDeaths == \A i \in Intent : accepts[i] <= 1 + deaths[i]

\* Notices never use up the room reserved for essential messages: unless the
\* essential ones have had their reserve today, the next one finds room.
EssentialRoom == bucket.total - bucket.notice < Reserve => bucket.total < Capacity

\* Housekeeping erases the payload of a row only when nobody can still need it:
\* not while it waits, is leased, or may have been accepted.
ErasedIsOver == \A i \in Intent : outbox[i].erased => outbox[i].state \in Terminal

\* A verification message is sent only while its challenge is the live one of
\* its identity, also when the challenge was replaced, used or ran out after a
\* worker had claimed the row.
ReplacedNeverSent ==
  [][\A i \in Verification : calls'[i] > calls[i] =>
       /\ record[Recipient[i]].challenge = i
       /\ record[Recipient[i]].expiresIn > 0]_vars

\* verify_address "proves inbox control": an address becomes an identity's
\* verified one only if a code was accepted for that very address, by a
\* challenge of that identity.
VerifiedByInbox ==
  [][\A p \in Person : record'[p].verified # record[p].verified =>
       \E i \in Verification : Recipient[i] = p /\ sentTo[i] = record'[p].verified]_vars

\* The outbox keeps DeliveryPromise.
StatusOf(state) ==
  CASE state = "ABSENT" -> "none"
    [] state \in Open -> "pending"
    [] state = "ACCEPTANCE_UNCERTAIN" -> "uncertain"
    [] state = "PROVIDER_ACCEPTED" -> "accepted"
    [] state = "FAILED" -> "failed"
    [] state = "SUPPRESSED" -> "suppressed"

Promise == INSTANCE DeliveryPromise
             WITH status <- [i \in Intent |-> StatusOf(outbox[i].state)], sent <- accepts

PromiseKept == Promise!Spec

\* Every recorded intent comes to an end, or waits for an operator as uncertain.
EveryIntentEnds ==
  \A i \in Intent : outbox[i].state \in Open ~>
                    outbox[i].state \in Terminal \union {"ACCEPTANCE_UNCERTAIN"}

\* With local capture the uncertainty itself is resolved.
UncertaintyEnds ==
  \A i \in Intent : outbox[i].state = "ACCEPTANCE_UNCERTAIN" ~>
                    outbox[i].state # "ACCEPTANCE_UNCERTAIN"

\* A code that can no longer be used does not stay readable in its row.
DeadCodeErased ==
  \A i \in Verification : outbox[i].state # "ABSENT" /\ ChallengeOver(i) ~>
                          outbox[i].erased
=============================================================================
