------------------------- MODULE EmailOutboxProofs --------------------------
(***************************************************************************)
(* Theorems about EmailOutbox, for any number of intents, identities and   *)
(* workers and any values of the settings: first the types, then safety.   *)
(* What an intent's row, its attempt, its capture and the history say of   *)
(* one another (Account) is preserved row by row: each step leaves a row   *)
(* alone or makes one of the moves of the lemmas below.  Workers that die  *)
(* between a provider's answer and their commit are counted; the theorems  *)
(* under NoSendCrash are about none, and false otherwise (README,          *)
(* "Divergences without a run").                                           *)
(***************************************************************************)
EXTENDS EmailOutbox, FiniteSetTheorems, TLAPS

-----------------------------------------------------------------------------
(* Lemmas: what the operators that build rows return.                      *)

LEMMA NewRowType ==
  ASSUME NEW i \in Intent, NEW a \in Address
  PROVE  /\ NewRow(i, a) \in Row
         /\ NewRow(i, a).lease = None
         /\ NewRow(i, a).state = "REQUESTED"
         /\ NewRow(i, a).attempts = 0
         /\ NewRow(i, a).erased = FALSE
<1> DEFINE rows == {j \in Intent : outbox[j].state # "ABSENT"}
           n == Cardinality(rows)
<1>1. n \in Nat
  <2>1. IsFiniteSet(rows)
    BY IntentAssumption, FS_Subset
  <2> QED BY <2>1, FS_CardinalityType
<1>2. NewRow(i, a) =
        [state |-> "REQUESTED", lease |-> None, leaseIn |-> 0, readyIn |-> 0,
         attempts |-> 0, to |-> a, erased |-> FALSE, retainIn |-> 0, created |-> n + 1]
  BY DEF NewRow
<1> HIDE DEF n
<1> QED BY <1>1, <1>2 DEF Row, States, Open

LEMMA EndedType ==
  ASSUME NEW r \in Row, NEW s \in Terminal
  PROVE  /\ Ended(r, s) \in Row
         /\ Ended(r, s).lease = r.lease
         /\ Ended(r, s).state = s
         /\ Ended(r, s).attempts = r.attempts
         /\ Ended(r, s).erased = r.erased
BY NumberAssumption DEF Ended, Row, States, Terminal

LEMMA FinishedType ==
  ASSUME NEW r \in Row, NEW s \in States, NEW immediate \in BOOLEAN
  PROVE  /\ Finished(r, s, immediate) \in Row
         /\ Finished(r, s, immediate).lease = None
         /\ Finished(r, s, immediate).state = s
         /\ Finished(r, s, immediate).attempts = r.attempts
         /\ Finished(r, s, immediate).erased = r.erased
<1> DEFINE m == IF s \in Terminal THEN RetentionTime ELSE 0
           k == IF immediate THEN 0 ELSE RetryTime
           q1 == [r EXCEPT !.state = s, !.lease = None]
           q2 == [q1 EXCEPT !.leaseIn = 0, !.retainIn = m]
           q3 == [q2 EXCEPT !.readyIn = k]
<1>1. m \in Nat /\ k \in Nat
  BY NumberAssumption
<1>2. q1 \in Row /\ q1.lease = None /\ q1.state = s /\ q1.attempts = r.attempts
      /\ q1.erased = r.erased
  BY DEF Row
<1>3. q2 \in Row /\ q2.lease = None /\ q2.state = s /\ q2.attempts = r.attempts
      /\ q2.erased = r.erased
  <2> HIDE DEF q1, m
  <2> QED BY <1>1, <1>2 DEF Row
<1>4. q3 \in Row /\ q3.lease = None /\ q3.state = s /\ q3.attempts = r.attempts
      /\ q3.erased = r.erased
  <2> HIDE DEF q2, k
  <2> QED BY <1>1, <1>3 DEF Row
<1>5. Finished(r, s, immediate) = q3
  BY DEF Finished
<1> QED BY <1>4, <1>5

LEMMA ReservedType ==
  ASSUME NEW i \in Intent, NEW l \in Lease, outbox[i] \in Row
  PROVE  /\ Reserved(i, l) \in Row
         /\ Reserved(i, l).lease = l
         /\ Reserved(i, l).state = "QUEUED"
         /\ Reserved(i, l).attempts =
              IF attempt[i].recovered THEN outbox[i].attempts ELSE outbox[i].attempts + 1
         /\ Reserved(i, l).erased = outbox[i].erased
<1> DEFINE r == outbox[i]
           q1 == [r EXCEPT !.state = "QUEUED", !.lease = l, !.leaseIn = LeaseTime]
           m == IF attempt[i].recovered THEN r.attempts ELSE r.attempts + 1
           q2 == [q1 EXCEPT !.attempts = m]
<1>1. r \in Row /\ LeaseTime \in Nat /\ r.attempts \in Nat
  BY NumberAssumption DEF Row
<1>2. q1 \in Row /\ q1.lease = l /\ q1.state = "QUEUED" /\ q1.attempts = r.attempts
      /\ q1.erased = r.erased
  <2> HIDE DEF r
  <2> QED BY <1>1 DEF Row, States, Open
<1>3. m \in Nat
  BY <1>1
<1>4. q2 \in Row /\ q2.lease = l /\ q2.state = "QUEUED" /\ q2.attempts = m
      /\ q2.erased = r.erased
  <2> HIDE DEF q1, m, r
  <2> QED BY <1>2, <1>3 DEF Row
<1>5. Reserved(i, l) = q2
  BY <1>2 DEF Reserved
<1> QED BY <1>4, <1>5

LEMMA OlderRowType ==
  ASSUME NEW r \in Row
  PROVE  /\ OlderRow(r) \in Row
         /\ OlderRow(r).lease = r.lease
         /\ OlderRow(r).state = r.state
         /\ OlderRow(r).attempts = r.attempts
         /\ OlderRow(r).erased = r.erased
<1>1. \A k \in Nat : Less(k) \in Nat
  BY DEF Less
<1> DEFINE a == Less(r.leaseIn)
           b == Less(r.readyIn)
           c == Less(r.retainIn)
<1>2. a \in Nat /\ b \in Nat /\ c \in Nat
  BY <1>1 DEF Row
<1>3. OlderRow(r) = [r EXCEPT !.leaseIn = a, !.readyIn = b, !.retainIn = c]
  BY DEF OlderRow, Row
<1> HIDE DEF a, b, c
<1> QED BY <1>2, <1>3 DEF Row

LEMMA ErasedType ==
  ASSUME NEW i \in Intent, outbox[i] \in Row
  PROVE  /\ Erased(i) \in Row
         /\ Erased(i).lease = outbox[i].lease
         /\ Erased(i).state = IF outbox[i].state \in Open THEN "SUPPRESSED"
                              ELSE outbox[i].state
         /\ Erased(i).attempts = outbox[i].attempts
         /\ Erased(i).erased = TRUE
<1> DEFINE r == IF outbox[i].state \in Open THEN Ended(outbox[i], "SUPPRESSED")
                ELSE outbox[i]
<1>1. /\ r \in Row /\ r.lease = outbox[i].lease /\ r.attempts = outbox[i].attempts
      /\ r.state = IF outbox[i].state \in Open THEN "SUPPRESSED" ELSE outbox[i].state
  BY EndedType DEF Terminal
<1>2. Erased(i) = [r EXCEPT !.to = None, !.erased = TRUE]
  BY DEF Erased
<1> HIDE DEF r
<1> QED BY <1>1, <1>2 DEF Row

LEMMA NewChallengeType ==
  ASSUME NEW r \in RecordRow, NEW i \in Intent, NEW a \in Address
  PROVE  NewChallenge(r, i, a) \in RecordRow
BY NumberAssumption DEF NewChallenge, RecordRow

LEMMA OlderRecordType ==
  ASSUME NEW r \in RecordRow, NEW midnight \in BOOLEAN
  PROVE  OlderRecord(r, midnight) \in RecordRow
<1> DEFINE e == Less(r.expiresIn)
           s == Less(r.resendIn)
           t == IF midnight THEN 0 ELSE r.today
<1>1. e \in Nat /\ s \in Nat /\ t \in Nat
  BY DEF Less, RecordRow
<1>2. OlderRecord(r, midnight) = [r EXCEPT !.expiresIn = e, !.resendIn = s, !.today = t]
  BY DEF OlderRecord, RecordRow
<1> HIDE DEF e, s, t
<1> QED BY <1>1, <1>2 DEF RecordRow

-----------------------------------------------------------------------------
(* Types.  Hands is what a worker remembers between two transactions: it    *)
(* is needed because deliver counts its run down without looking.           *)

Hands ==
  \A w \in Worker :
    IF worker[w].at = "deliver"
    THEN worker[w].left > 0 /\ worker[w].intent \in Intent /\ worker[w].lease \in Lease
    ELSE worker[w].lease = None

TypeInv == TypeOK /\ Hands

LEMMA InitType == Init => TypeInv
BY IntentAssumption, NumberAssumption
   DEF Init, TypeInv, TypeOK, Hands, NoRow, NoAttempt, NoRecord, Idle, HouseIdle, Row,
       AttemptRow, RecordRow, BucketRow, Process, Pass, States

LEMMA RequestType ==
  ASSUME TypeInv, Request PROVE TypeInv'
<1> USE DEF TypeInv
<1>1. ASSUME NEW i \in Intent, RequestMessage(i) PROVE TypeInv'
  <2>1. record[Recipient[i]].verified \in Address
    BY <1>1, IntentAssumption DEF RequestMessage, TypeOK, RecordRow
  <2>2. /\ outbox' \in [Intent -> Row]
        /\ \A j \in Intent : outbox'[j].lease # None => outbox'[j].state = "QUEUED"
    BY <1>1, <2>1, NewRowType DEF RequestMessage, TypeOK
  <2> QED BY <1>1, <2>2 DEF RequestMessage, TypeOK, Hands, history
<1>2. \A p \in Person : \A j \in Suppressible(p) :
        /\ Ended(outbox[j], "SUPPRESSED") \in Row
        /\ Ended(outbox[j], "SUPPRESSED").lease = None
  BY EndedType, IntentAssumption DEF Suppressible, Terminal, TypeOK
<1>3. ASSUME NEW i \in Intent, NEW a \in Address, RequestVerification(i, a) PROVE TypeInv'
  <2>1. Recipient[i] \in Person /\ record[Recipient[i]] \in RecordRow
    BY IntentAssumption DEF TypeOK
  <2>2. outbox' \in [Intent -> Row]
        /\ \A j \in Intent : outbox'[j].lease # None => outbox'[j].state = "QUEUED"
    BY <1>2, <1>3, <2>1, NewRowType DEF RequestVerification, TypeOK
  <2>3. record' \in [Person -> RecordRow]
    BY <1>3, <2>1, NewChallengeType DEF RequestVerification, TypeOK
  <2> QED BY <1>3, <2>2, <2>3 DEF RequestVerification, TypeOK, Hands, history
<1>4. ASSUME NEW p \in Person, NEW c \in Verification, NEW t \in Verification,
             VerifyAddress(p, c, t)
      PROVE  TypeInv'
  <2>1. outbox' \in [Intent -> Row]
        /\ \A j \in Intent : outbox'[j].lease # None => outbox'[j].state = "QUEUED"
    BY <1>2, <1>4 DEF VerifyAddress, TypeOK
  <2>2. record' \in [Person -> RecordRow]
    BY <1>4 DEF VerifyAddress, TypeOK, RecordRow
  <2> QED BY <1>4, <2>1, <2>2 DEF VerifyAddress, TypeOK, Hands, history
<1> QED BY <1>1, <1>3, <1>4 DEF Request

LEMMA FinishRowType ==
  ASSUME TypeOK, NEW i \in Intent, NEW s \in States, NEW immediate \in BOOLEAN,
         FinishRow(i, s, immediate)
  PROVE  /\ outbox' \in [Intent -> Row]
         /\ \A j \in Intent : outbox'[j].lease # None => outbox'[j].state = "QUEUED"
BY FinishedType DEF FinishRow, TypeOK

LEMMA FinishAttemptType ==
  ASSUME TypeOK, NEW i \in Intent, NEW recovered \in BOOLEAN, FinishAttempt(i, recovered)
  PROVE  attempt' \in [Intent -> AttemptRow]
BY DEF FinishAttempt, TypeOK, AttemptRow

LEMMA NextClaimType ==
  ASSUME TypeInv, NEW w \in Worker, worker[w].at = "deliver", NextClaim(w)
  PROVE  worker' \in [Worker -> Process] /\ Hands'
<1> DEFINE k == worker[w].left - 1
           q == [Idle EXCEPT !.at = "claim", !.left = k]
<1>1. k \in Nat
  BY DEF TypeInv, TypeOK, Hands, Process
<1>2. q \in Process /\ q.at = "claim" /\ q.lease = None
  <2> HIDE DEF k
  <2> QED BY <1>1 DEF Process, Idle
<1>3. worker' = [worker EXCEPT ![w] = q]
  BY DEF NextClaim
<1> HIDE DEF q
<1> QED BY <1>2, <1>3 DEF TypeInv, TypeOK, Hands

LEMMA RecoverType ==
  ASSUME TypeInv, NEW w \in Worker, RecoverRow(w) PROVE TypeInv'
<1> USE DEF TypeInv
<1>1. PICK i \in worker[w].todo : LeaveRow(w, i) \/ ReconcileRow(w, i)
  BY DEF RecoverRow
<1>2. i \in Intent /\ worker[w].left > 0 /\ worker[w].at = "recover"
  BY DEF RecoverRow, TypeOK, Process
<1>3. CASE LeaveRow(w, i)
  BY <1>2, <1>3 DEF LeaveRow, TypeOK, Hands, Process, history
<1>4. CASE ReconcileRow(w, i)
  <2> DEFINE preSend == LeaseExpired(i) /\ attempt[i].phase = "CLAIMED"
  <2>1. PICK outcome \in IF preSend THEN {"ABSENT"} ELSE Lookup(i) :
          /\ FinishRow(i, Recovered(i, outcome, preSend), preSend)
          /\ FinishAttempt(i, preSend)
    BY <1>4 DEF ReconcileRow
  <2>2. outcome \in {"ABSENT", "ACCEPTED", "UNCERTAIN"}
    BY <2>1 DEF Lookup
  <2>3. Recovered(i, outcome, preSend) \in States
    BY <2>2 DEF Recovered, States, Open, Terminal
  <2>4. preSend \in BOOLEAN
    BY DEF LeaseExpired
  <2>5. worker' \in [Worker -> Process] /\ Hands'
    BY <1>2, <1>4 DEF ReconcileRow, TypeOK, Hands, Process
  <2> HIDE DEF preSend
  <2>6. /\ outbox' \in [Intent -> Row]
        /\ \A j \in Intent : outbox'[j].lease # None => outbox'[j].state = "QUEUED"
        /\ attempt' \in [Intent -> AttemptRow]
    BY <1>2, <2>1, <2>3, <2>4, FinishRowType, FinishAttemptType
  <2> QED BY <1>4, <2>5, <2>6 DEF ReconcileRow, TypeOK, history
<1> QED BY <1>1, <1>3, <1>4

\* What claim ends on its way: open rows without a lease.
LEMMA SweptType ==
  ASSUME NEW i \in Intent, outbox[i] \in Row
  PROVE  /\ Swept(i) \in Row
         /\ Swept(i).lease = outbox[i].lease
         /\ Swept(i).state \in {"SUPPRESSED", "FAILED"}
         /\ Swept(i).attempts = outbox[i].attempts
         /\ Swept(i).erased = outbox[i].erased
BY EndedType DEF Swept, Terminal

LEMMA ChargedType ==
  ASSUME NEW i \in Intent, bucket \in BucketRow, bucket.notice <= bucket.total
  PROVE  /\ Charged(i) \in BucketRow
         /\ Charged(i).total = bucket.total + 1
         /\ Charged(i).notice = IF i \in Notice THEN bucket.notice + 1 ELSE bucket.notice
<1> DEFINE k == bucket.notice + IF i \in Notice THEN 1 ELSE 0
           m == bucket.total + 1
<1>1. /\ k \in Nat /\ m \in Nat
      /\ k = IF i \in Notice THEN bucket.notice + 1 ELSE bucket.notice
  BY DEF BucketRow
<1>2. Charged(i) = [bucket EXCEPT !.total = m, !.notice = k]
  BY DEF Charged, BucketRow
<1>3. [bucket EXCEPT !.total = m, !.notice = k] \in BucketRow
      /\ [bucket EXCEPT !.total = m, !.notice = k].total = m
      /\ [bucket EXCEPT !.total = m, !.notice = k].notice = k
  <2> HIDE DEF k, m
  <2> QED BY <1>1 DEF BucketRow
<1> QED BY <1>1, <1>2, <1>3

LEMMA TakeType ==
  ASSUME TypeInv, NEW w \in Worker, NEW i \in Intent, NEW l \in Lease,
         NEW swept \in SUBSET Claimable, worker[w].at = "claim", worker[w].left > 0,
         Take(w, i, l, swept)
  PROVE  /\ outbox' \in [Intent -> Row]
         /\ \A j \in Intent : outbox'[j].lease # None => outbox'[j].state = "QUEUED"
         /\ attempt' \in [Intent -> AttemptRow]
         /\ bucket' \in BucketRow /\ bucket'.notice <= bucket'.total
         /\ worker' \in [Worker -> Process] /\ Hands'
<1> USE DEF TypeInv
<1>1. /\ outbox' \in [Intent -> Row]
      /\ \A j \in Intent : outbox'[j].lease # None => outbox'[j].state = "QUEUED"
  BY ReservedType, SweptType DEF Take, TypeOK, Claimable
<1>2. attempt' \in [Intent -> AttemptRow]
  BY DEF Take, TypeOK, AttemptRow
<1>3. bucket' \in BucketRow /\ bucket'.notice <= bucket'.total
  BY ChargedType DEF Take, TypeOK, BucketRow
<1>4. worker' \in [Worker -> Process] /\ Hands'
  <2> DEFINE q == [worker[w] EXCEPT !.at = "deliver", !.intent = i, !.lease = l]
  <2>1. worker[w] \in Process
    BY DEF TypeOK
  <2>2. q \in Process /\ q.at = "deliver" /\ q.intent = i /\ q.lease = l
        /\ q.left = worker[w].left
    BY <2>1 DEF Process
  <2>3. worker' = [worker EXCEPT ![w] = q]
    BY DEF Take
  <2> HIDE DEF q
  <2> QED BY <2>2, <2>3 DEF TypeOK, Hands
<1> QED BY <1>1, <1>2, <1>3, <1>4

LEMMA EndBatchType ==
  ASSUME TypeInv, NEW w \in Worker, NEW swept \in SUBSET Claimable, EndBatch(w, swept)
  PROVE  /\ outbox' \in [Intent -> Row]
         /\ \A j \in Intent : outbox'[j].lease # None => outbox'[j].state = "QUEUED"
         /\ attempt' \in [Intent -> AttemptRow]
         /\ bucket' \in BucketRow /\ bucket'.notice <= bucket'.total
         /\ worker' \in [Worker -> Process] /\ Hands'
<1>1. /\ outbox' \in [Intent -> Row]
      /\ \A j \in Intent : outbox'[j].lease # None => outbox'[j].state = "QUEUED"
  BY SweptType DEF EndBatch, TypeInv, TypeOK, Claimable
<1>2. worker' \in [Worker -> Process] /\ Hands'
  BY DEF EndBatch, TypeInv, TypeOK, Hands, Idle, Process
<1> QED BY <1>1, <1>2 DEF EndBatch, TypeInv, TypeOK

\* claim ends rows it may take, and reserves one it may take.
LEMMA ClaimStep ==
  ASSUME NEW w \in Worker, Claim(w)
  PROVE  /\ worker[w].at = "claim" /\ worker[w].left > 0
         /\ UNCHANGED <<capture, record, house, history>>
         /\ \E swept \in SUBSET Claimable :
              \/ EndBatch(w, swept)
              \/ \E i \in Claimable, l \in Lease :
                   /\ i \notin swept /\ ~Exhausted(i)
                   /\ Room(i) /\ FreshLease(l) /\ Take(w, i, l, swept)
<1>1. PICK locked \in SUBSET Claimable : ClaimPassing(w, locked)
  BY DEF Claim
<1> DEFINE offered == Claimable \ locked
           usable == {i \in offered : ~Obsolete(i) /\ ~Exhausted(i)}
           first == {i \in usable : \A j \in usable \ {i} : Precedes(i, j)}
           swept == {i \in offered \ usable : \A j \in usable : Precedes(i, j)}
<1>2. /\ worker[w].at = "claim" /\ worker[w].left > 0
      /\ UNCHANGED <<capture, record, house, history>>
      /\ \/ EndBatch(w, swept)
         \/ \E i \in first, l \in Lease :
              Room(i) /\ FreshLease(l) /\ Take(w, i, l, swept)
  BY <1>1 DEF ClaimPassing
<1>3. swept \in SUBSET Claimable
  OBVIOUS
<1>4. \A i \in first : i \in Claimable /\ i \notin swept /\ ~Exhausted(i)
  OBVIOUS
<1> HIDE DEF swept, first
<1> QED BY <1>2, <1>3, <1>4

LEMMA ClaimType ==
  ASSUME TypeInv, NEW w \in Worker, Claim(w) PROVE TypeInv'
<1>1. PICK swept \in SUBSET Claimable :
        \/ EndBatch(w, swept)
        \/ \E i \in Claimable, l \in Lease : Take(w, i, l, swept)
  BY ClaimStep
<1>2. Claimable \subseteq Intent
  BY DEF Claimable
<1>3. /\ outbox' \in [Intent -> Row]
      /\ \A j \in Intent : outbox'[j].lease # None => outbox'[j].state = "QUEUED"
      /\ attempt' \in [Intent -> AttemptRow]
      /\ bucket' \in BucketRow /\ bucket'.notice <= bucket'.total
      /\ worker' \in [Worker -> Process] /\ Hands'
  BY <1>1, <1>2, ClaimStep, TakeType, EndBatchType
<1> QED BY <1>3, ClaimStep DEF TypeInv, TypeOK, history

LEMMA DeliverType ==
  ASSUME TypeInv, NEW w \in Worker, Deliver(w) PROVE TypeInv'
<1> USE DEF TypeInv
<1>1. worker[w].at = "deliver"
  BY DEF Deliver, DeliverFenced, DeliverRefused, DeliverSent, HoldsLease
<1>2. worker' \in [Worker -> Process] /\ Hands'
  BY <1>1, NextClaimType DEF Deliver, DeliverFenced, DeliverRefused, DeliverSent
<1> DEFINE i == worker[w].intent
<1>3. i \in Intent
  BY <1>1 DEF Hands
<1>4. CASE DeliverFenced(w)
  BY <1>2, <1>4 DEF DeliverFenced, TypeOK, history
<1>5. CASE DeliverRefused(w)
  <2>1. FinishRow(i, "FAILED", FALSE) \/ FinishRow(i, "SUPPRESSED", FALSE)
    BY <1>5 DEF DeliverRefused
  <2>2. FinishAttempt(i, FALSE)
    BY <1>5 DEF DeliverRefused
  <2>3. /\ outbox' \in [Intent -> Row]
        /\ \A j \in Intent : outbox'[j].lease # None => outbox'[j].state = "QUEUED"
        /\ attempt' \in [Intent -> AttemptRow]
    BY <1>3, <2>1, <2>2, FinishRowType, FinishAttemptType DEF States, Terminal
  <2> QED BY <1>2, <1>5, <2>3 DEF DeliverRefused, TypeOK, history
<1>6. CASE DeliverSent(w)
  <2>1. PICK accepted \in BOOLEAN, state \in States :
          /\ FinishRow(i, state, FALSE)
          /\ Sent(i, accepted)
          /\ capture' = IF accepted /\ ~External
                        THEN [capture EXCEPT ![i] = "FULL"] ELSE capture
    BY <1>6 DEF DeliverSent
  <2>2. FinishAttempt(i, FALSE)
    BY <1>6 DEF DeliverSent
  <2>3. /\ outbox' \in [Intent -> Row]
        /\ \A j \in Intent : outbox'[j].lease # None => outbox'[j].state = "QUEUED"
        /\ attempt' \in [Intent -> AttemptRow]
    BY <1>3, <2>1, <2>2, FinishRowType, FinishAttemptType
  <2>4. /\ calls' \in [Intent -> Nat] /\ accepts' \in [Intent -> Nat]
        /\ sentTo' \in [Intent -> Address \union {None}]
    BY <1>3, <2>1 DEF Sent, TypeOK, Row
  <2>5. capture' \in [Intent -> {"NONE", "FULL", "REDACTED"}]
    BY <1>3, <2>1 DEF TypeOK
  <2> QED BY <1>2, <1>6, <2>3, <2>4, <2>5 DEF DeliverSent, TypeOK
<1> QED BY <1>4, <1>5, <1>6 DEF Deliver

LEMMA WorkType ==
  ASSUME TypeInv, NEW w \in Worker, Work(w) PROVE TypeInv'
<1> USE DEF TypeInv
<1>1. PassLimit \in Nat
  BY NumberAssumption
<1>2. CASE StartPass(w)
  <2> DEFINE listed == {i \in Intent : ListedStuck(i)}
             q == [Idle EXCEPT !.at = "recover", !.left = PassLimit, !.todo = listed]
  <2>1. listed \in SUBSET Intent
    OBVIOUS
  <2>2. q \in Process /\ q.at = "recover" /\ q.lease = None
    <3> HIDE DEF listed
    <3> QED BY <1>1, <2>1 DEF Process, Idle
  <2>3. worker' = [worker EXCEPT ![w] = q]
    BY <1>2 DEF StartPass
  <2>4. worker' \in [Worker -> Process] /\ Hands'
    <3> HIDE DEF q
    <3> QED BY <2>2, <2>3 DEF TypeOK, Hands
  <2> QED BY <1>2, <2>4 DEF StartPass, TypeOK, history
<1>3. CASE StopRecovering(w)
  <2>1. worker' \in [Worker -> Process] /\ Hands'
    BY <1>1, <1>3 DEF StopRecovering, TypeOK, Hands, Process, Idle
  <2> QED BY <1>3, <2>1 DEF StopRecovering, TypeOK, history
<1>4. CASE EndRun(w)
  <2>1. worker' \in [Worker -> Process] /\ Hands'
    BY <1>4 DEF EndRun, TypeOK, Hands, Process, Idle
  <2> QED BY <1>4, <2>1 DEF EndRun, TypeOK, history
<1> QED BY <1>2, <1>3, <1>4, RecoverType, ClaimType, DeliverType DEF Work

LEMMA HousekeepingType ==
  ASSUME TypeInv, Housekeeping PROVE TypeInv'
<1> USE DEF TypeInv
<1>1. CASE ListHousekeeping
  <2>1. house' \in Pass
    BY <1>1 DEF ListHousekeeping, Aged, Pass
  <2> QED BY <1>1, <2>1 DEF ListHousekeeping, TypeOK, Hands, history
<1>2. CASE HousekeepRow
  <2>1. PICK i \in house.todo :
          /\ house' = [house EXCEPT !.todo = @ \ {i}]
          /\ \/ Erasable(i) /\ EraseRow(i)
             \/ UNCHANGED <<outbox, capture, attempt, record>>
    BY <1>2 DEF HousekeepRow
  <2>2. i \in Intent /\ house' \in Pass
    BY <2>1 DEF TypeOK, Pass
  <2>3. CASE Erasable(i) /\ EraseRow(i)
    <3>1. /\ outbox' \in [Intent -> Row]
          /\ \A j \in Intent : outbox'[j].lease # None => outbox'[j].state = "QUEUED"
      BY <2>2, <2>3, ErasedType DEF EraseRow, Erasable, TypeOK
    <3>2. /\ capture' \in [Intent -> {"NONE", "FULL", "REDACTED"}]
          /\ attempt' \in [Intent -> AttemptRow]
      BY <2>2, <2>3 DEF EraseRow, TypeOK, NoAttempt, AttemptRow
    <3>3. Recipient[i] \in Person
      BY <2>2, IntentAssumption
    <3>4. record' \in [Person -> RecordRow]
      <4> DEFINE r == record[Recipient[i]]
      <4> DEFINE cleared == [r EXCEPT !.challenge = None, !.token = None, !.pending = None]
      <4>1. r \in RecordRow BY <3>3 DEF TypeOK
      <4>2. cleared \in RecordRow BY <4>1 DEF RecordRow
      <4>3. record' = record \/ record' = [record EXCEPT ![Recipient[i]] = cleared]
        BY <2>3 DEF EraseRow
      <4> HIDE DEF cleared
      <4> QED BY <3>3, <4>2, <4>3 DEF TypeOK
    <3> QED BY <1>2, <2>2, <3>1, <3>2, <3>4 DEF HousekeepRow, TypeOK, Hands, history
  <2>4. CASE UNCHANGED <<outbox, capture, attempt, record>>
    BY <1>2, <2>2, <2>4 DEF HousekeepRow, TypeOK, Hands, history
  <2> QED BY <2>1, <2>3, <2>4
<1>3. CASE PurgeEvidence
  <2>1. /\ capture' \in [Intent -> {"NONE", "FULL", "REDACTED"}]
        /\ attempt' \in [Intent -> AttemptRow]
        /\ house' \in Pass
    BY <1>3 DEF PurgeEvidence, TypeOK, NoAttempt, AttemptRow, HouseIdle, Pass
  <2> QED BY <1>3, <2>1 DEF PurgeEvidence, TypeOK, Hands, history
<1> QED BY <1>1, <1>2, <1>3 DEF Housekeeping

LEMMA TickType ==
  ASSUME TypeInv, Tick PROVE TypeInv'
<1> USE DEF TypeInv
<1>1. /\ outbox' \in [Intent -> Row]
      /\ \A j \in Intent : outbox'[j].lease # None => outbox'[j].state = "QUEUED"
  BY OlderRowType DEF Tick, TypeOK
<1>2. record' \in [Person -> RecordRow]
  <2>1. \A p \in Person : \A midnight \in BOOLEAN :
          OlderRecord(record[p], midnight) \in RecordRow
    BY OlderRecordType DEF TypeOK
  <2> QED BY <2>1 DEF Tick
<1>3. bucket' \in BucketRow /\ bucket'.notice <= bucket'.total
  <2>1. CASE bucket.dayIn = 1
    BY <2>1, NumberAssumption DEF Tick, BucketRow
  <2>2. CASE bucket.dayIn # 1
    <3>1. bucket.dayIn - 1 \in Nat \ {0}
      BY <2>2 DEF TypeOK, BucketRow
    <3>2. bucket' = [bucket EXCEPT !.dayIn = bucket.dayIn - 1]
      BY <2>2 DEF Tick
    <3> QED BY <3>1, <3>2 DEF TypeOK, BucketRow
  <2> QED BY <2>1, <2>2
<1> QED BY <1>1, <1>2, <1>3 DEF Tick, TypeOK, Hands, history

LEMMA DieType ==
  ASSUME TypeInv, Die PROVE TypeInv'
<1> USE DEF TypeInv
<1>1. CASE HouseCrash
  BY <1>1 DEF HouseCrash, TypeOK, Hands, HouseIdle, Pass, history
<1>2. ASSUME NEW w \in Worker, worker' = [worker EXCEPT ![w] = Idle]
      PROVE  worker' \in [Worker -> Process] /\ Hands'
  BY <1>2 DEF TypeOK, Hands, Process, Idle
<1>3. ASSUME NEW w \in Worker, Crash(w) PROVE TypeInv'
  BY <1>2, <1>3 DEF Crash, TypeOK, history
<1>4. ASSUME NEW w \in Worker, CrashInSend(w) PROVE TypeInv'
  <2>1. PICK accepted \in BOOLEAN : Sent(worker[w].intent, accepted)
    BY <1>4 DEF CrashInSend
  <2>2. worker[w].intent \in Intent
    BY <1>4 DEF CrashInSend, HoldsLease, Hands
  <2>3. /\ calls' \in [Intent -> Nat] /\ accepts' \in [Intent -> Nat]
        /\ sentTo' \in [Intent -> Address \union {None}]
    BY <2>1, <2>2 DEF Sent, TypeOK, Row
  <2>4. deaths' \in [Intent -> Nat]
    BY <1>4, <2>2 DEF CrashInSend, TypeOK
  <2> QED BY <1>2, <1>4, <2>3, <2>4 DEF CrashInSend, TypeOK
<1> QED BY <1>1, <1>3, <1>4 DEF Die

LEMMA NextType == TypeInv /\ [Next]_vars => TypeInv'
<1>1. TypeInv /\ UNCHANGED vars => TypeInv'
  BY DEF TypeInv, TypeOK, Hands, vars
<1> QED BY <1>1, RequestType, WorkType, HousekeepingType, TickType, DieType DEF Next, Run

\* Every reachable state is well typed, keeps the tables' check constraints, and
\* leases only queued rows.
THEOREM TypeCorrect == Spec => []TypeOK
<1>1. TypeInv => TypeOK
  BY DEF TypeInv
<1> QED BY <1>1, InitType, NextType, PTL DEF Spec

-----------------------------------------------------------------------------
(* Safety.                                                                 *)

NoSendCrash == External => SendCrashBound = 0

\* Attempts used: at most the limit, and an attempt claimed but not finished,
\* or recovered before it was started, has been spent on no backend call but
\* those in which a worker died.
Spent(i) ==
  /\ deaths[i] <= SendCrashBound /\ (~External => deaths[i] = 0)
  /\ calls[i] <= outbox[i].attempts + deaths[i] /\ outbox[i].attempts <= MaxAttempts
  /\ attempt[i].phase = "CLAIMED" \/ attempt[i].recovered =>
       0 < outbox[i].attempts /\ calls[i] < outbox[i].attempts + deaths[i]
  /\ outbox[i].state = "ABSENT" => outbox[i].attempts = 0

\* What the row and the local capture tell of the provider.
Known(i) ==
  /\ accepts[i] <= calls[i]
  /\ accepts[i] <= deaths[i]
     \/ /\ accepts[i] = deaths[i] + 1
        /\ outbox[i].state \in {"PROVIDER_ACCEPTED", "ACCEPTANCE_UNCERTAIN"}
  /\ outbox[i].state = "PROVIDER_ACCEPTED" => accepts[i] > 0
  /\ capture[i] # "NONE" => outbox[i].state = "PROVIDER_ACCEPTED"
  /\ ~External /\ outbox[i].state = "ACCEPTANCE_UNCERTAIN" => accepts[i] = 0

Account == \A i \in Intent : Spent(i) /\ Known(i)

LEMMA NoDeaths ==
  ASSUME TypeOK, NEW i \in Intent, Spent(i), NoSendCrash PROVE deaths[i] = 0
BY AdapterAssumption DEF TypeOK, Spent, NoSendCrash

\* Erased rows are over, and housekeeping lists only rows that are there.
Gone == \A i \in Intent : /\ outbox[i].erased => outbox[i].state \in Terminal
                          /\ i \in house.todo => outbox[i].state # "ABSENT"

\* Two workers about to deliver never hold the same lease.
Alone == \A v, w \in Worker : /\ worker[v].at = "deliver" /\ worker[w].at = "deliver"
                              /\ worker[v].lease = worker[w].lease
                              => v = w

Within == bucket.total <= Capacity /\ bucket.notice <= Capacity - Reserve

-----------------------------------------------------------------------------
(* The abstract step a row's change is (DeliveryPromise).                  *)

Follows(i) ==
  LET s == outbox[i].state
      t == outbox'[i].state
      n == accepts[i]
      m == accepts'[i]
  IN \/ t = s /\ m = n
     \/ s \in Open /\ t \in Open /\ m = n
     \/ s = "ABSENT" /\ t = "REQUESTED" /\ m = n
     \/ s \in Open /\ n = 0 /\ t = "PROVIDER_ACCEPTED" /\ m = 1
     \/ s \in Open /\ n = 0 /\ t \in {"FAILED", "SUPPRESSED"} /\ m = 0
     \/ s \in Open /\ n = 0 /\ t = "ACCEPTANCE_UNCERTAIN" /\ m \in {0, 1}
     \/ s = "ACCEPTANCE_UNCERTAIN" /\ n = 1 /\ t = "PROVIDER_ACCEPTED" /\ m = 1
     \/ s = "ACCEPTANCE_UNCERTAIN" /\ n = 0 /\ t \in {"QUEUED", "FAILED"} /\ m = 0

LEMMA Statuses ==
  /\ StatusOf("ABSENT") = "none"
  /\ StatusOf("REQUESTED") = "pending" /\ StatusOf("QUEUED") = "pending"
  /\ StatusOf("ACCEPTANCE_UNCERTAIN") = "uncertain"
  /\ StatusOf("PROVIDER_ACCEPTED") = "accepted"
  /\ StatusOf("FAILED") = "failed" /\ StatusOf("SUPPRESSED") = "suppressed"
BY DEF StatusOf, Open

LEMMA FollowsPromise ==
  ASSUME NEW i \in Intent, Follows(i)
  PROVE  Promise!Move(i) \/ Promise!Same(i)
<1>1. \A s, n : Promise!To(i, s, n) <=> StatusOf(outbox'[i].state) = s /\ accepts'[i] = n
  BY DEF Promise!To
<1> QED
  BY <1>1, Statuses
     DEF Follows, Open, Promise!Move, Promise!Same, Promise!Ask, Promise!Accept,
         Promise!GiveUp, Promise!Lose, Promise!Resolve

Kept(i) == Spent(i)' /\ Known(i)' /\ (NoSendCrash => Follows(i))

\* A row nothing happens to.
Unmoved(i) ==
  /\ outbox'[i].state = outbox[i].state /\ outbox'[i].attempts = outbox[i].attempts
  /\ attempt'[i] = attempt[i] /\ capture'[i] = capture[i]
  /\ calls'[i] = calls[i] /\ accepts'[i] = accepts[i] /\ deaths'[i] = deaths[i]

LEMMA UnmovedKept ==
  ASSUME TypeOK, NEW i \in Intent, Spent(i), Known(i), Unmoved(i)
  PROVE  Kept(i)
BY DEF Spent, Known, Unmoved, Kept, Follows

\* An open row given up; what was captured of it is nothing.
GivenUp(i) ==
  /\ outbox[i].state \in Open /\ outbox'[i].state \in {"FAILED", "SUPPRESSED"}
  /\ outbox'[i].attempts = outbox[i].attempts
  /\ attempt'[i] = attempt[i] \/ attempt'[i] = [phase |-> "FINISHED", recovered |-> FALSE]
  /\ capture[i] = "NONE" => capture'[i] = "NONE"
  /\ calls'[i] = calls[i] /\ accepts'[i] = accepts[i] /\ deaths'[i] = deaths[i]

LEMMA GivenUpKept ==
  ASSUME TypeOK, NEW i \in Intent, Spent(i), Known(i), GivenUp(i)
  PROVE  Kept(i)
BY NoDeaths DEF Spent, Known, GivenUp, Kept, Follows, Open, TypeOK

\* A row that is over and whose evidence is deleted.
Cleared(i) ==
  /\ outbox'[i].state = outbox[i].state /\ outbox'[i].attempts = outbox[i].attempts
  /\ attempt'[i] = attempt[i] \/ attempt'[i] = NoAttempt
  /\ capture[i] = "NONE" => capture'[i] = "NONE"
  /\ calls'[i] = calls[i] /\ accepts'[i] = accepts[i] /\ deaths'[i] = deaths[i]

LEMMA ClearedKept ==
  ASSUME TypeOK, NEW i \in Intent, Spent(i), Known(i), Cleared(i)
  PROVE  Kept(i)
BY NoDeaths DEF Spent, Known, Cleared, Kept, Follows, NoAttempt

-----------------------------------------------------------------------------
(* Each step keeps the account.                                            *)

SafeInv == TypeInv /\ Account

LEMMA RequestKept ==
  ASSUME SafeInv, Request, NEW k \in Intent PROVE Kept(k)
<1> USE DEF SafeInv, Account, TypeInv
<1>1. ASSUME NEW p \in Person, NEW j \in Suppressible(p)
      PROVE  /\ Ended(outbox[j], "SUPPRESSED").state = "SUPPRESSED"
             /\ Ended(outbox[j], "SUPPRESSED").attempts = outbox[j].attempts
             /\ outbox[j].state \in Open
  BY IntentAssumption, EndedType DEF Suppressible, TypeOK, Terminal
<1>2. ASSUME NEW i \in Intent, RequestMessage(i) PROVE Kept(k)
  <2>1. record[Recipient[i]].verified \in Address
    BY <1>2, IntentAssumption DEF RequestMessage, TypeOK, RecordRow
  <2>2. CASE k = i
    <3>1. outbox[k].state = "ABSENT" /\ outbox'[k].state = "REQUESTED"
          /\ outbox'[k].attempts = 0
      BY <1>2, <2>1, <2>2, NewRowType DEF RequestMessage, TypeOK
    <3>2. /\ attempt'[k] = attempt[k] /\ capture'[k] = capture[k]
          /\ calls'[k] = calls[k] /\ accepts'[k] = accepts[k] /\ deaths'[k] = deaths[k]
      BY <1>2 DEF RequestMessage, history
    <3> QED BY <3>1, <3>2, NumberAssumption DEF Kept, Spent, Known, Follows
  <2>3. CASE k # i
    BY <1>2, <2>3, UnmovedKept DEF RequestMessage, TypeOK, Unmoved, history
  <2> QED BY <2>2, <2>3
<1>3. ASSUME NEW i \in Intent, NEW a \in Address, RequestVerification(i, a) PROVE Kept(k)
  <2>1. /\ attempt'[k] = attempt[k] /\ capture'[k] = capture[k]
        /\ calls'[k] = calls[k] /\ accepts'[k] = accepts[k] /\ deaths'[k] = deaths[k]
    BY <1>3 DEF RequestVerification, history
  <2>2. CASE k = i
    <3>1. outbox[k].state = "ABSENT" /\ outbox'[k].state = "REQUESTED"
          /\ outbox'[k].attempts = 0
      BY <1>3, <2>2, NewRowType DEF RequestVerification, TypeOK
    <3> QED BY <2>1, <3>1, NumberAssumption DEF Kept, Spent, Known, Follows
  <2>3. CASE k # i /\ k \in Suppressible(Recipient[i])
    <3>1. GivenUp(k)
      BY <1>1, <1>3, <2>1, <2>3, IntentAssumption DEF RequestVerification, GivenUp
    <3> QED BY <3>1, GivenUpKept
  <2>4. CASE k # i /\ k \notin Suppressible(Recipient[i])
    BY <1>3, <2>1, <2>4, UnmovedKept DEF RequestVerification, Unmoved
  <2> QED BY <2>2, <2>3, <2>4
<1>4. ASSUME NEW p \in Person, NEW c \in Verification, NEW t \in Verification,
             VerifyAddress(p, c, t)
      PROVE  Kept(k)
  <2>1. /\ attempt'[k] = attempt[k] /\ capture'[k] = capture[k]
        /\ calls'[k] = calls[k] /\ accepts'[k] = accepts[k] /\ deaths'[k] = deaths[k]
    BY <1>4 DEF VerifyAddress, history
  <2>2. CASE k \in Suppressible(p)
    <3>1. GivenUp(k)
      BY <1>1, <1>4, <2>1, <2>2 DEF VerifyAddress, GivenUp
    <3> QED BY <3>1, GivenUpKept
  <2>3. CASE k \notin Suppressible(p)
    BY <1>4, <2>1, <2>3, UnmovedKept DEF VerifyAddress, Unmoved
  <2> QED BY <2>2, <2>3
<1> QED BY <1>2, <1>3, <1>4 DEF Request

\* What _finish leaves of row i and of the others.
LEMMA FinishedFields ==
  ASSUME TypeOK, NEW i \in Intent, NEW s \in States, NEW immediate \in BOOLEAN,
         NEW recovered \in BOOLEAN, FinishRow(i, s, immediate), FinishAttempt(i, recovered)
  PROVE  /\ outbox'[i].state = s /\ outbox'[i].attempts = outbox[i].attempts
         /\ outbox'[i].erased = outbox[i].erased
         /\ attempt'[i] = [phase |-> "FINISHED", recovered |-> recovered]
         /\ \A k \in Intent \ {i} : outbox'[k] = outbox[k] /\ attempt'[k] = attempt[k]
BY FinishedType DEF FinishRow, FinishAttempt, TypeOK

LEMMA RecoverKept ==
  ASSUME SafeInv, NEW w \in Worker, RecoverRow(w), NEW k \in Intent PROVE Kept(k)
<1> USE DEF SafeInv, Account, TypeInv
<1>1. PICK i \in worker[w].todo : LeaveRow(w, i) \/ ReconcileRow(w, i)
  BY DEF RecoverRow
<1>2. i \in Intent
  BY DEF TypeOK, Process
<1>3. CASE LeaveRow(w, i)
  BY <1>3, UnmovedKept DEF LeaveRow, Unmoved, history
<1>4. CASE ReconcileRow(w, i)
  <2> DEFINE preSend == LeaseExpired(i) /\ attempt[i].phase = "CLAIMED"
  <2>1. PICK outcome \in IF preSend THEN {"ABSENT"} ELSE Lookup(i) :
          LET state == Recovered(i, outcome, preSend) IN
          /\ ~(state = outbox[i].state /\ state = "ACCEPTANCE_UNCERTAIN")
          /\ FinishRow(i, state, preSend)
          /\ FinishAttempt(i, preSend)
    BY <1>4 DEF ReconcileRow
  <2> DEFINE state == Recovered(i, outcome, preSend)
  <2>2. outcome \in {"ABSENT", "ACCEPTED", "UNCERTAIN"}
    BY <2>1 DEF Lookup
  <2>3. /\ outcome = "ACCEPTED" => state = "PROVIDER_ACCEPTED"
        /\ outcome = "ABSENT" => state \in {"QUEUED", "FAILED"}
        /\ outcome = "UNCERTAIN" => state = "ACCEPTANCE_UNCERTAIN"
    BY DEF Recovered
  <2>4. /\ outcome = "ACCEPTED" => accepts[i] > 0 \/ (~External /\ capture[i] # "NONE")
        /\ outcome = "ABSENT" => preSend \/ (~External /\ capture[i] = "NONE")
    BY <2>1 DEF Lookup
  <2>5. outbox[i].state \in {"QUEUED", "ACCEPTANCE_UNCERTAIN"}
    BY <1>4 DEF ReconcileRow, StillStuck, LeaseExpired
  <2>6. preSend \in BOOLEAN /\ (preSend => attempt[i].phase = "CLAIMED"
                                         /\ outbox[i].state = "QUEUED")
    BY DEF LeaseExpired
  <2>7. /\ capture'[k] = capture[k] /\ calls'[k] = calls[k]
        /\ accepts'[k] = accepts[k] /\ deaths'[k] = deaths[k]
    BY <1>4 DEF ReconcileRow, history
  <2>8. ~(state = outbox[i].state /\ state = "ACCEPTANCE_UNCERTAIN")
        /\ FinishRow(i, state, preSend) /\ FinishAttempt(i, preSend)
    BY <2>1
  <2>9. state \in States
    BY <2>2, <2>3 DEF States, Open, Terminal
  <2> HIDE DEF state, preSend
  <2>10. CASE k = i
    <3>1. /\ outbox'[k].state = state /\ outbox'[k].attempts = outbox[k].attempts
          /\ attempt'[k] = [phase |-> "FINISHED", recovered |-> preSend]
      BY <1>2, <2>6, <2>8, <2>9, <2>10, FinishedFields
    <3>2. /\ outcome = "ACCEPTED" => accepts[k] > 0
          /\ outcome = "ABSENT" /\ ~preSend => accepts[k] = 0
      BY <2>4, <2>5, <2>10 DEF Known, Spent, TypeOK
    <3>3. NoSendCrash => Follows(k)
      BY <2>2, <2>3, <2>5, <2>6, <2>7, <2>8, <2>10, <3>1, <3>2, NoDeaths
         DEF Follows, Known, Open, TypeOK
    <3>4. Spent(k)'
      BY <2>5, <2>6, <2>7, <2>10, <3>1, <2>2, <2>3 DEF Spent
    <3>5. Known(k)'
      <4>1. accepts[k] \in Nat /\ calls[k] \in Nat /\ deaths[k] \in Nat
            /\ (~External => deaths[k] = 0)
        BY DEF TypeOK, Spent
      <4>2. /\ Known(k)
            /\ accepts[k] <= deaths[k] \/ outbox[k].state = "ACCEPTANCE_UNCERTAIN"
        BY <2>5, <2>10 DEF Known
      <4>3. /\ capture[k] = "NONE" /\ (~External => accepts[k] = 0)
        BY <2>5, <2>10, <4>1, <4>2 DEF Known
      <4>4. CASE outcome = "ACCEPTED"
        BY <2>3, <2>7, <3>1, <3>2, <4>1, <4>2, <4>3, <4>4 DEF Known
      <4>5. CASE outcome = "ABSENT"
        BY <2>3, <2>6, <2>7, <2>10, <3>1, <3>2, <4>1, <4>2, <4>3, <4>5 DEF Known
      <4>6. CASE outcome = "UNCERTAIN"
        BY <2>3, <2>7, <2>8, <2>10, <3>1, <4>1, <4>2, <4>3, <4>6 DEF Known
      <4> QED BY <2>2, <4>4, <4>5, <4>6
    <3> QED BY <3>3, <3>4, <3>5 DEF Kept
  <2>11. CASE k # i
    <3>1. outbox'[k] = outbox[k] /\ attempt'[k] = attempt[k]
      BY <1>2, <2>6, <2>8, <2>9, <2>11, FinishedFields
    <3> QED BY <2>7, <3>1, UnmovedKept DEF Unmoved
  <2> QED BY <2>10, <2>11
<1> QED BY <1>1, <1>3, <1>4

LEMMA ClaimKept ==
  ASSUME SafeInv, NEW w \in Worker, Claim(w), NEW k \in Intent PROVE Kept(k)
<1> USE DEF SafeInv, Account, TypeInv
<1>1. /\ capture'[k] = capture[k] /\ calls'[k] = calls[k]
      /\ accepts'[k] = accepts[k] /\ deaths'[k] = deaths[k]
  BY ClaimStep DEF history
<1>2. PICK swept \in SUBSET Claimable :
        \/ EndBatch(w, swept)
        \/ \E i \in Claimable, l \in Lease :
             i \notin swept /\ ~Exhausted(i) /\ Take(w, i, l, swept)
  BY ClaimStep
<1>3. ASSUME k \in swept
      PROVE  /\ Swept(k).state \in {"FAILED", "SUPPRESSED"} /\ outbox[k].state \in Open
             /\ Swept(k).attempts = outbox[k].attempts
  BY <1>3, SweptType DEF Claimable, TypeOK
<1>4. CASE EndBatch(w, swept)
  <2>1. CASE k \in swept
    BY <1>1, <1>3, <1>4, <2>1, GivenUpKept DEF EndBatch, GivenUp
  <2>2. CASE k \notin swept
    BY <1>1, <1>4, <2>2, UnmovedKept DEF EndBatch, Unmoved
  <2> QED BY <2>1, <2>2
<1>5. ASSUME NEW i \in Claimable, NEW l \in Lease,
             i \notin swept, ~Exhausted(i), Take(w, i, l, swept)
      PROVE  Kept(k)
  <2>1. CASE k = i
    <3>1. /\ outbox'[k].state = "QUEUED" /\ outbox[k].state \in Open
          /\ outbox'[k].attempts = IF attempt[k].recovered THEN outbox[k].attempts
                                   ELSE outbox[k].attempts + 1
          /\ attempt'[k] = [phase |-> "CLAIMED", recovered |-> FALSE]
      BY <1>5, <2>1, ReservedType DEF Take, Claimable, TypeOK
    <3>2. attempt[k].recovered \/ outbox[k].attempts < MaxAttempts
      BY <1>5, <2>1, NumberAssumption DEF Exhausted, TypeOK, Row
    <3>3. outbox[k].attempts \in Nat /\ calls[k] \in Nat /\ deaths[k] \in Nat
      BY DEF TypeOK, Row
    <3>4. Spent(k)'
      BY <1>1, <3>1, <3>2, <3>3, NumberAssumption DEF Spent
    <3>5. Known(k)' /\ Follows(k)
      BY <1>1, <3>1 DEF Known, Follows, Open
    <3> QED BY <3>4, <3>5 DEF Kept
  <2>2. CASE k # i /\ k \in swept
    BY <1>1, <1>3, <1>5, <2>2, GivenUpKept DEF Take, GivenUp, TypeOK
  <2>3. CASE k # i /\ k \notin swept
    BY <1>1, <1>5, <2>3, UnmovedKept DEF Take, Unmoved, TypeOK
  <2> QED BY <2>1, <2>2, <2>3
<1> QED BY <1>2, <1>4, <1>5

LEMMA DeliverKept ==
  ASSUME SafeInv, NEW w \in Worker, Deliver(w), NEW k \in Intent PROVE Kept(k)
<1> USE DEF SafeInv, Account, TypeInv
<1> DEFINE i == worker[w].intent
<1>1. i \in Intent
  BY DEF Deliver, DeliverFenced, DeliverRefused, DeliverSent, HoldsLease, Hands
<1>2. CASE DeliverFenced(w)
  BY <1>2, UnmovedKept DEF DeliverFenced, Unmoved, history
<1>3. CASE DeliverRefused(w)
  <2>1. PICK s \in {"FAILED", "SUPPRESSED"} : FinishRow(i, s, FALSE)
    BY <1>3 DEF DeliverRefused
  <2>2. FinishAttempt(i, FALSE) /\ outbox[i].state = "QUEUED"
    BY <1>3 DEF DeliverRefused, HoldsLease
  <2>3. /\ capture'[k] = capture[k] /\ calls'[k] = calls[k]
        /\ accepts'[k] = accepts[k] /\ deaths'[k] = deaths[k]
    BY <1>3 DEF DeliverRefused, history
  <2>4. /\ outbox'[i].state = s /\ outbox'[i].attempts = outbox[i].attempts
        /\ attempt'[i] = [phase |-> "FINISHED", recovered |-> FALSE]
        /\ \A j \in Intent \ {i} : outbox'[j] = outbox[j] /\ attempt'[j] = attempt[j]
    BY <1>1, <2>1, <2>2, FinishedFields DEF States, Terminal
  <2>5. CASE k = i
    BY <2>2, <2>3, <2>4, <2>5, GivenUpKept DEF GivenUp, Open
  <2>6. CASE k # i
    BY <2>3, <2>4, <2>6, UnmovedKept DEF Unmoved
  <2> QED BY <2>5, <2>6
<1>4. CASE DeliverSent(w)
  <2>1. PICK accepted \in BOOLEAN, state \in States :
          /\ Answer(i, accepted, state)
          /\ FinishRow(i, state, FALSE)
          /\ Sent(i, accepted)
          /\ capture' = IF accepted /\ ~External
                        THEN [capture EXCEPT ![i] = "FULL"] ELSE capture
    BY <1>4 DEF DeliverSent
  <2>2. /\ FinishAttempt(i, FALSE) /\ outbox[i].state = "QUEUED"
        /\ attempt[i].phase = "CLAIMED"
    BY <1>4 DEF DeliverSent, HoldsLease
  <2>3. /\ outbox'[i].state = state /\ outbox'[i].attempts = outbox[i].attempts
        /\ attempt'[i] = [phase |-> "FINISHED", recovered |-> FALSE]
        /\ \A j \in Intent \ {i} : outbox'[j] = outbox[j] /\ attempt'[j] = attempt[j]
    BY <1>1, <2>1, <2>2, FinishedFields
  <2>4. CASE k = i
    <3>1. /\ calls[k] \in Nat /\ outbox[k].attempts \in Nat
          /\ calls'[k] = calls[k] + 1
          /\ deaths[k] \in Nat /\ deaths'[k] = deaths[k]
      BY <1>4, <2>1, <2>4 DEF DeliverSent, Sent, TypeOK, Row
    <3>2. Spent(k)'
      BY <2>1, <2>2, <2>3, <2>4, <3>1 DEF Spent, Answer
    <3>3. /\ accepts[k] \in Nat /\ accepts[k] <= deaths[k] /\ accepts[k] <= calls[k]
          /\ capture[k] = "NONE"
      BY <2>2, <2>4, <3>1 DEF Known, TypeOK
    <3>4. accepts'[k] = accepts[k] + IF accepted THEN 1 ELSE 0
      BY <2>1, <2>4, <3>3 DEF Sent, TypeOK
    <3>5. capture'[k] # "NONE" => accepted /\ ~External
      BY <2>1, <3>3
    <3>6. ~External => accepts[k] = 0
      BY <3>3 DEF Spent
    <3>7. Known(k)'
      BY <2>1, <2>2, <2>3, <2>4, <3>1, <3>3, <3>4, <3>5, <3>6 DEF Answer, Known
    <3>8. NoSendCrash => Follows(k)
      BY <2>1, <2>2, <2>3, <2>4, <3>3, <3>4, NoDeaths DEF Answer, Follows, Open
    <3> QED BY <3>2, <3>7, <3>8 DEF Kept
  <2>5. CASE k # i
    <3>1. /\ capture'[k] = capture[k] /\ calls'[k] = calls[k]
          /\ accepts'[k] = accepts[k] /\ deaths'[k] = deaths[k]
      BY <1>4, <2>1, <2>5 DEF DeliverSent, Sent, TypeOK
    <3> QED BY <2>3, <2>5, <3>1, UnmovedKept DEF Unmoved
  <2> QED BY <2>4, <2>5
<1> QED BY <1>2, <1>3, <1>4 DEF Deliver

LEMMA HousekeepingKept ==
  ASSUME SafeInv, Gone, Housekeeping, NEW k \in Intent PROVE Kept(k)
<1> USE DEF SafeInv, Account, TypeInv
<1>1. CASE ListHousekeeping
  BY <1>1, UnmovedKept DEF ListHousekeeping, Unmoved, history
<1>2. CASE HousekeepRow
  <2>1. PICK i \in house.todo :
          \/ Erasable(i) /\ EraseRow(i)
          \/ UNCHANGED <<outbox, capture, attempt, record>>
    BY <1>2 DEF HousekeepRow
  <2>2. /\ i \in Intent /\ calls'[k] = calls[k]
        /\ accepts'[k] = accepts[k] /\ deaths'[k] = deaths[k]
    BY <1>2 DEF HousekeepRow, TypeOK, Pass, history
  <2>3. CASE k = i /\ Erasable(i) /\ EraseRow(i)
    <3>1. /\ outbox'[k].state = IF outbox[k].state \in Open THEN "SUPPRESSED"
                                ELSE outbox[k].state
          /\ outbox'[k].attempts = outbox[k].attempts
      BY <2>3, ErasedType DEF EraseRow, TypeOK
    <3>2. /\ attempt'[k] = attempt[k] \/ (attempt'[k] = NoAttempt
                                          /\ outbox[k].state \in Terminal)
          /\ capture[k] = "NONE" => capture'[k] = "NONE"
      BY <2>3 DEF EraseRow, TypeOK
    <3>3. CASE outbox[k].state \in Open
      BY <2>2, <3>1, <3>2, <3>3, GivenUpKept DEF GivenUp, Open, Terminal
    <3>4. CASE outbox[k].state \notin Open
      BY <2>2, <3>1, <3>2, <3>4, ClearedKept DEF Cleared
    <3> QED BY <3>3, <3>4
  <2>4. CASE k # i \/ UNCHANGED <<outbox, capture, attempt, record>>
    <3>1. outbox'[k] = outbox[k] /\ capture'[k] = capture[k] /\ attempt'[k] = attempt[k]
      BY <2>1, <2>4 DEF EraseRow, TypeOK
    <3> QED BY <2>2, <3>1, UnmovedKept DEF Unmoved
  <2> QED BY <2>1, <2>3, <2>4
<1>3. CASE PurgeEvidence
  <2>1. /\ attempt'[k] = attempt[k] \/ attempt'[k] = NoAttempt
        /\ capture[k] = "NONE" => capture'[k] = "NONE"
        /\ outbox'[k] = outbox[k] /\ calls'[k] = calls[k]
        /\ accepts'[k] = accepts[k] /\ deaths'[k] = deaths[k]
    BY <1>3 DEF PurgeEvidence, history
  <2> QED BY <2>1, ClearedKept DEF Cleared
<1> QED BY <1>1, <1>2, <1>3 DEF Housekeeping

\* The worker dies in a backend call: the row is as it was, and the call counts
\* among the deaths.
LEMMA SendDeathKept ==
  ASSUME SafeInv, NEW w \in Worker, CrashInSend(w), NEW k \in Intent PROVE Kept(k)
<1> USE DEF SafeInv, Account, TypeInv
<1> DEFINE i == worker[w].intent
<1>1. PICK accepted \in BOOLEAN : Sent(i, accepted)
  BY DEF CrashInSend
<1>2. /\ i \in Intent /\ deaths[i] < SendCrashBound
      /\ deaths' = [deaths EXCEPT ![i] = @ + 1]
      /\ attempt[i].phase = "CLAIMED"
  BY DEF CrashInSend, HoldsLease, Hands
<1>3. outbox'[k] = outbox[k] /\ attempt'[k] = attempt[k] /\ capture'[k] = capture[k]
  BY DEF CrashInSend
<1>4. CASE k = i
  <2>1. /\ calls[k] \in Nat /\ accepts[k] \in Nat /\ outbox[k].attempts \in Nat
        /\ calls'[k] = calls[k] + 1
        /\ accepts'[k] = accepts[k] + IF accepted THEN 1 ELSE 0
        /\ deaths[k] \in Nat /\ deaths'[k] = deaths[k] + 1
    BY <1>1, <1>2, <1>4 DEF Sent, TypeOK, Row
  <2>2. outbox[k].state = "QUEUED" /\ External
    BY <1>4 DEF CrashInSend, HoldsLease
  <2>3. Spent(k)'
    BY <1>2, <1>3, <1>4, <2>1, <2>2, AdapterAssumption DEF Spent
  <2>4. Known(k)'
    BY <1>2, <1>3, <1>4, <2>1, <2>2 DEF Known
  <2>5. ~NoSendCrash BY <1>2, <1>4, <2>1, <2>2 DEF NoSendCrash
  <2> QED BY <2>3, <2>4, <2>5 DEF Kept
<1>5. CASE k # i
  BY <1>1, <1>2, <1>3, <1>5, UnmovedKept DEF Sent, TypeOK, Unmoved
<1> QED BY <1>4, <1>5

LEMMA NextKept ==
  ASSUME SafeInv, Gone, [Next]_vars, NEW k \in Intent PROVE Kept(k)
<1> USE DEF SafeInv, Account, TypeInv
<1>1. ASSUME NEW w \in Worker, Work(w) PROVE Kept(k)
  <2>1. CASE StartPass(w) \/ StopRecovering(w) \/ EndRun(w)
    BY <2>1, UnmovedKept DEF StartPass, StopRecovering, EndRun, Unmoved, history
  <2> QED BY <1>1, <2>1, RecoverKept, ClaimKept, DeliverKept DEF Work
<1>2. CASE Tick
  <2>1. outbox'[k].state = outbox[k].state /\ outbox'[k].attempts = outbox[k].attempts
    BY <1>2, OlderRowType DEF Tick, TypeOK
  <2> QED BY <1>2, <2>1, UnmovedKept DEF Tick, Unmoved, history
<1>3. CASE Die
  <2>1. ASSUME NEW w \in Worker, CrashInSend(w) PROVE Kept(k)
    BY <2>1, SendDeathKept
  <2> QED BY <1>3, <2>1, UnmovedKept DEF Die, HouseCrash, Crash, Unmoved, history
<1>4. CASE UNCHANGED vars
  BY <1>4, UnmovedKept DEF vars, Unmoved
<1> QED BY <1>1, <1>2, <1>3, <1>4, RequestKept, HousekeepingKept DEF Next, Run

-----------------------------------------------------------------------------
(* Erased rows.                                                            *)

LEMMA InitGone == Init => Gone
BY DEF Init, Gone, NoRow, HouseIdle


\* What a step may do to a row's state and payload.
RowStep(k) ==
  \/ outbox'[k].state = outbox[k].state /\ outbox'[k].erased = outbox[k].erased
  \/ outbox[k].state = "ABSENT" /\ outbox'[k].state # "ABSENT" /\ ~outbox'[k].erased
  \/ /\ outbox[k].state \in Open \union {"ACCEPTANCE_UNCERTAIN"}
     /\ outbox'[k].state # "ABSENT" /\ outbox'[k].erased = outbox[k].erased
  \/ outbox'[k].state \in Terminal

LEMMA RowStepGone ==
  ASSUME NEW k \in Intent, Gone, RowStep(k),
         k \in house'.todo => k \in house.todo \/ outbox'[k].state # "ABSENT"
  PROVE  /\ outbox'[k].erased => outbox'[k].state \in Terminal
         /\ k \in house'.todo => outbox'[k].state # "ABSENT"
BY DEF RowStep, Gone, Open, Terminal

LEMMA RequestGone ==
  ASSUME TypeInv, Request, NEW k \in Intent PROVE RowStep(k)
<1> USE DEF TypeInv
<1>1. ASSUME NEW p \in Person, NEW j \in Suppressible(p)
      PROVE  Ended(outbox[j], "SUPPRESSED").state \in Terminal
  BY IntentAssumption, EndedType DEF Suppressible, TypeOK, Terminal
<1>2. ASSUME NEW i \in Intent, RequestMessage(i) PROVE RowStep(k)
  <2>1. record[Recipient[i]].verified \in Address
    BY <1>2, IntentAssumption DEF RequestMessage, TypeOK, RecordRow
  <2>2. CASE k = i
    BY <1>2, <2>1, <2>2, NewRowType DEF RequestMessage, TypeOK, RowStep
  <2>3. CASE k # i
    BY <1>2, <2>3 DEF RequestMessage, TypeOK, RowStep
  <2> QED BY <2>2, <2>3
<1>3. ASSUME NEW i \in Intent, NEW a \in Address, RequestVerification(i, a) PROVE RowStep(k)
  <2>1. CASE k = i
    BY <1>3, <2>1, NewRowType DEF RequestVerification, RowStep
  <2>2. CASE k # i
    BY <1>1, <1>3, <2>2, IntentAssumption DEF RequestVerification, RowStep
  <2> QED BY <2>1, <2>2
<1>4. ASSUME NEW p \in Person, NEW c \in Verification, NEW t \in Verification,
             VerifyAddress(p, c, t)
      PROVE  RowStep(k)
  BY <1>1, <1>4 DEF VerifyAddress, RowStep
<1> QED BY <1>2, <1>3, <1>4 DEF Request

LEMMA FinishRowGone ==
  ASSUME TypeOK, NEW i \in Intent, NEW s \in States \ {"ABSENT"}, NEW immediate \in BOOLEAN,
         outbox[i].state \in Open \union {"ACCEPTANCE_UNCERTAIN"}, FinishRow(i, s, immediate),
         NEW k \in Intent
  PROVE  RowStep(k)
BY FinishedType DEF FinishRow, TypeOK, RowStep

LEMMA WorkGone ==
  ASSUME TypeInv, NEW w \in Worker, Work(w), NEW k \in Intent PROVE RowStep(k)
<1> USE DEF TypeInv
<1>1. CASE RecoverRow(w)
  <2>1. PICK i \in worker[w].todo : LeaveRow(w, i) \/ ReconcileRow(w, i)
    BY <1>1 DEF RecoverRow
  <2>2. i \in Intent
    BY DEF TypeOK, Process
  <2>3. CASE ReconcileRow(w, i)
    <3> DEFINE preSend == LeaseExpired(i) /\ attempt[i].phase = "CLAIMED"
    <3>1. PICK outcome \in IF preSend THEN {"ABSENT"} ELSE Lookup(i) :
            FinishRow(i, Recovered(i, outcome, preSend), preSend)
      BY <2>3 DEF ReconcileRow
    <3>2. outcome \in {"ABSENT", "ACCEPTED", "UNCERTAIN"}
      BY <3>1 DEF Lookup
    <3>3. Recovered(i, outcome, preSend) \in States \ {"ABSENT"}
      BY <3>2 DEF Recovered, States, Open, Terminal
    <3>4. outbox[i].state \in Open \union {"ACCEPTANCE_UNCERTAIN"}
      BY <2>3 DEF ReconcileRow, StillStuck, LeaseExpired, Open
    <3>5. preSend \in BOOLEAN
      BY DEF LeaseExpired
    <3> HIDE DEF preSend
    <3> QED BY <2>2, <3>1, <3>3, <3>4, <3>5, FinishRowGone
  <2> QED BY <2>1, <2>3 DEF LeaveRow, RowStep
<1>2. CASE Claim(w)
  <2>1. PICK swept \in SUBSET Claimable :
          \/ EndBatch(w, swept)
          \/ \E i \in Claimable, l \in Lease : Take(w, i, l, swept)
    BY <1>2, ClaimStep
  <2>2. \A i \in swept : Swept(i).state \in Terminal
    BY SweptType DEF Claimable, TypeOK, Terminal
  <2>3. \A i \in Claimable, l \in Lease : /\ Reserved(i, l).state = "QUEUED"
                                          /\ Reserved(i, l).erased = outbox[i].erased
                                         /\ outbox[i].state \in Open
    BY ReservedType DEF Claimable, TypeOK
  <2> QED BY <2>1, <2>2, <2>3 DEF EndBatch, Take, RowStep
<1>3. CASE Deliver(w)
  <2>1. CASE DeliverFenced(w)
    BY <2>1 DEF DeliverFenced, RowStep
  <2> DEFINE i == worker[w].intent
  <2>2. CASE DeliverRefused(w) \/ DeliverSent(w)
    <3>1. i \in Intent /\ outbox[i].state \in Open
      BY <2>2 DEF DeliverRefused, DeliverSent, HoldsLease, Hands, Open
    <3>2. \E s \in States \ {"ABSENT"} : FinishRow(i, s, FALSE)
      BY <2>2 DEF DeliverRefused, DeliverSent, Answer, States, Terminal
    <3> QED BY <3>1, <3>2, FinishRowGone
  <2> QED BY <1>3, <2>1, <2>2 DEF Deliver
<1>4. CASE StartPass(w) \/ StopRecovering(w) \/ EndRun(w)
  BY <1>4 DEF StartPass, StopRecovering, EndRun, RowStep
<1> QED BY <1>1, <1>2, <1>3, <1>4 DEF Work

LEMMA WorkHouse ==
  ASSUME NEW w \in Worker, Work(w) PROVE house' = house
BY ClaimStep
   DEF Work, StartPass, StopRecovering, EndRun, RecoverRow, LeaveRow, ReconcileRow,
       Deliver, DeliverFenced, DeliverRefused, DeliverSent

LEMMA NextRowStep ==
  ASSUME TypeInv, Gone, [Next]_vars, NEW k \in Intent
  PROVE  /\ RowStep(k)
         /\ k \in house'.todo => k \in house.todo \/ outbox'[k].state # "ABSENT"
<1> USE DEF TypeInv
<1>1. CASE Request
  BY <1>1, RequestGone
     DEF Request, RequestMessage, RequestVerification, VerifyAddress
<1>2. ASSUME NEW w \in Worker, Work(w)
      PROVE  RowStep(k) /\ house' = house
  BY <1>2, WorkGone, WorkHouse
<1>3. CASE ListHousekeeping
  BY <1>3 DEF ListHousekeeping, RowStep
<1>4. CASE HousekeepRow
  <2>1. PICK i \in house.todo :
          /\ house' = [house EXCEPT !.todo = @ \ {i}]
          /\ \/ Erasable(i) /\ EraseRow(i)
             \/ UNCHANGED <<outbox, capture, attempt, record>>
    BY <1>4 DEF HousekeepRow
  <2>2. /\ i \in Intent
        /\ k \in house'.todo => k \in house.todo
    BY <2>1 DEF TypeOK, Pass
  <2>3. CASE k = i /\ Erasable(i) /\ EraseRow(i)
    <3>1. outbox[k].state \in States \ {"ABSENT", "ACCEPTANCE_UNCERTAIN"}
      BY <2>1, <2>3 DEF Gone, Erasable, TypeOK, Row
    <3>2. outbox'[k].state \in Terminal
      BY <2>3, <3>1, ErasedType DEF EraseRow, TypeOK, States, Open, Terminal
    <3> QED BY <2>2, <3>2 DEF RowStep
  <2>4. CASE k # i \/ UNCHANGED <<outbox, capture, attempt, record>>
    BY <2>1, <2>2, <2>4 DEF EraseRow, TypeOK, RowStep
  <2> QED BY <2>1, <2>3, <2>4
<1>5. CASE PurgeEvidence
  BY <1>5 DEF PurgeEvidence, HouseIdle, RowStep
<1>6. CASE Tick
  BY <1>6, OlderRowType DEF Tick, TypeOK, RowStep
<1>7. CASE Die
  BY <1>7 DEF Die, HouseCrash, HouseIdle, Crash, CrashInSend, RowStep
<1>8. CASE UNCHANGED vars
  BY <1>8 DEF vars, RowStep
<1> QED BY <1>1, <1>2, <1>3, <1>4, <1>5, <1>6, <1>7, <1>8 DEF Next, Run, Housekeeping

LEMMA NextGone == TypeInv /\ Gone /\ [Next]_vars => Gone'
<1> SUFFICES ASSUME TypeInv, Gone, [Next]_vars, NEW k \in Intent
             PROVE  /\ outbox'[k].erased => outbox'[k].state \in Terminal
                    /\ k \in house'.todo => outbox'[k].state # "ABSENT"
  BY DEF Gone
<1> QED BY NextRowStep, RowStepGone

-----------------------------------------------------------------------------
(* Leases and capacity.                                                    *)

LEMMA InitAloneWithin == Init => Alone /\ Within
BY NumberAssumption DEF Init, Alone, Within, Idle

LEMMA TakeAloneWithin ==
  ASSUME TypeInv, Alone, Within, NEW w \in Worker, NEW i \in Intent, NEW l \in Lease,
         NEW swept, Room(i), FreshLease(l), Take(w, i, l, swept)
  PROVE  Alone' /\ Within'
<1> USE DEF TypeInv
<1>1. worker' = [worker EXCEPT ![w] = [@ EXCEPT !.at = "deliver", !.intent = i, !.lease = l]]
      /\ worker[w] \in Process
  BY DEF Take, TypeOK
<1>2. /\ worker'[w].lease = l
      /\ \A v \in Worker \ {w} : worker'[v] = worker[v] /\ worker[v].lease # l
  BY <1>1 DEF TypeOK, FreshLease, Process
<1>3. Alone'
  BY <1>2 DEF Alone
<1>4. Within'
  BY ChargedType, NumberAssumption DEF Take, Room, Within, TypeOK, BucketRow
<1> QED BY <1>3, <1>4

LEMMA NextAloneWithin ==
  TypeInv /\ Alone /\ Within /\ [Next]_vars => Alone' /\ Within'
<1> SUFFICES ASSUME TypeInv, Alone, Within, [Next]_vars PROVE Alone' /\ Within'
  OBVIOUS
<1> USE DEF TypeInv
<1>1. ASSUME NEW w \in Worker, bucket' = bucket,
             \/ worker' = worker
             \/ \E q : q.at # "deliver" /\ worker' = [worker EXCEPT ![w] = q]
      PROVE  Alone' /\ Within'
  BY <1>1 DEF Alone, Within, TypeOK
<1>2. ASSUME NEW w \in Worker, Work(w) PROVE Alone' /\ Within'
  <2>1. CASE Claim(w)
    <3>1. PICK swept \in SUBSET Claimable :
            \/ EndBatch(w, swept)
            \/ \E i \in Claimable, l \in Lease :
                 Room(i) /\ FreshLease(l) /\ Take(w, i, l, swept)
      BY <2>1, ClaimStep
    <3>2. CASE EndBatch(w, swept)
      BY <1>1, <3>2 DEF EndBatch, Idle
    <3> QED BY <3>1, <3>2, TakeAloneWithin DEF Claimable
  <2>2. CASE RecoverRow(w)
    <3>1. worker[w] \in Process /\ worker[w].at = "recover"
      BY <2>2 DEF RecoverRow, TypeOK
    <3>2. bucket' = bucket /\ \E q : q.at # "deliver" /\ worker' = [worker EXCEPT ![w] = q]
      BY <2>2, <3>1 DEF RecoverRow, LeaveRow, ReconcileRow, Process
    <3> QED BY <1>1, <3>2
  <2>3. CASE StartPass(w) \/ StopRecovering(w) \/ EndRun(w) \/ Deliver(w)
    <3>1. bucket' = bucket /\ \E q : q.at # "deliver" /\ worker' = [worker EXCEPT ![w] = q]
      BY <2>3 DEF StartPass, StopRecovering, EndRun, Deliver, DeliverFenced,
                  DeliverRefused, DeliverSent, NextClaim, Idle
    <3> QED BY <1>1, <3>1
  <2> QED BY <1>2, <2>1, <2>2, <2>3 DEF Work
<1>3. CASE Tick
  BY <1>3, NumberAssumption DEF Tick, Alone, Within, TypeOK, BucketRow
<1>4. CASE Die
  BY <1>1, <1>4 DEF Die, HouseCrash, Crash, CrashInSend, Idle, Alone, Within
<1>5. CASE Request \/ Housekeeping \/ UNCHANGED vars
  BY <1>5 DEF Request, RequestMessage, RequestVerification, VerifyAddress, Housekeeping,
              ListHousekeeping, HousekeepRow, PurgeEvidence, vars, Alone, Within
<1> QED BY <1>2, <1>3, <1>4, <1>5 DEF Next, Run

-----------------------------------------------------------------------------
(* Codes.                                                                  *)

\* A live code is its person's own, and where it was accepted was the address
\* its person is about to verify.
Code(p) == LET t == record[p].token IN t # None =>
  /\ t = record[p].challenge /\ t \in Verification /\ Recipient[t] = p
  /\ accepts[t] > 0 => sentTo[t] = record[p].pending

\* No message is accepted before its intent is recorded.
Codes == /\ \A i \in Intent : outbox[i].state = "ABSENT" => accepts[i] = 0
         /\ \A p \in Person : Code(p)

LEMMA InitCodes == Init => Codes
BY DEF Init, Codes, Code, NoRecord

\* A backend call is made for a row that is there; a code is sent to the address
\* it is to verify.
LEMMA SendingCodes ==
  ASSUME TypeInv, Codes, NEW w \in Worker, HoldsLease(w), Allowed(worker[w].intent, "permitted"),
         NEW accepted \in BOOLEAN, Sent(worker[w].intent, accepted), record' = record
  PROVE  /\ \A k \in Intent : outbox[k].state = "ABSENT" => accepts'[k] = 0
         /\ \A p \in Person : Code(p)'
<1> USE DEF TypeInv
<1> DEFINE i == worker[w].intent
<1>1. i \in Intent /\ outbox[i].state = "QUEUED" BY DEF HoldsLease, Hands
<1>2. \A k \in Intent \ {i} : accepts'[k] = accepts[k] /\ sentTo'[k] = sentTo[k]
  BY <1>1 DEF Sent, TypeOK
<1>3. /\ ~accepted => accepts'[i] = accepts[i] /\ sentTo'[i] = sentTo[i]
      /\ accepted => sentTo'[i] = outbox[i].to
  BY <1>1 DEF Sent, TypeOK
<1>4. i \in Verification => outbox[i].to = record[Recipient[i]].pending
  BY DEF Allowed, ChallengeLive
<1>5. ASSUME NEW k \in Intent, outbox[k].state = "ABSENT" PROVE accepts'[k] = 0
  BY <1>1, <1>2, <1>5 DEF Codes
<1>6. ASSUME NEW p \in Person PROVE Code(p)'
  <2> DEFINE t == record[p].token
  <2>1. Code(p) BY DEF Codes
  <2>2. CASE t = None
    BY <2>2 DEF Code
  <2>3. CASE t # None /\ t # i
    <3>1. t \in Intent \ {i} BY <2>1, <2>3, IntentAssumption DEF Code
    <3> QED BY <1>2, <2>1, <3>1 DEF Code
  <2>4. CASE t # None /\ t = i
    <3>1. i \in Verification /\ Recipient[i] = p BY <2>1, <2>4 DEF Code
    <3>2. accepted => sentTo'[i] = record[p].pending BY <1>3, <1>4, <3>1
    <3> QED BY <1>3, <2>1, <2>4, <3>2 DEF Code
  <2> QED BY <2>2, <2>3, <2>4
<1> QED BY <1>5, <1>6

\* A step that neither sends nor gives a person another code.
LEMMA CodesStay ==
  ASSUME Codes, NEW p \in Person, accepts' = accepts, sentTo' = sentTo,
         \/ record'[p].token = None
         \/ /\ record'[p].token = record[p].token
            /\ record'[p].challenge = record[p].challenge
            /\ record'[p].pending = record[p].pending
  PROVE  Code(p)'
BY DEF Codes, Code

LEMMA CodeErased ==
  ASSUME TypeInv, HousekeepRow, NEW p \in Person
  PROVE  /\ record'[p].token = None \/ record'[p] = record[p]
         /\ record'[p].verified = record[p].verified
<1>1. PICK i \in house.todo :
        (Erasable(i) /\ EraseRow(i)) \/ UNCHANGED <<outbox, capture, attempt, record>>
  BY DEF HousekeepRow
<1>2. record \in [Person -> RecordRow]
  BY DEF TypeInv, TypeOK
<1>3. \A r \in RecordRow :
        /\ [r EXCEPT !.challenge = None, !.token = None, !.pending = None].token = None
        /\ [r EXCEPT !.challenge = None, !.token = None, !.pending = None].verified = r.verified
  BY DEF RecordRow
<1>4. \/ record' = record
      \/ record' = [record EXCEPT ![Recipient[i]] =
                      [@ EXCEPT !.challenge = None, !.token = None, !.pending = None]]
  BY <1>1 DEF EraseRow
<1>5. CASE record' = record BY <1>5
<1>6. CASE record' # record
  <2> DEFINE Codeless(r) == [r EXCEPT !.challenge = None, !.token = None, !.pending = None]
  <2>1. \A r \in RecordRow : Codeless(r).token = None /\ Codeless(r).verified = r.verified
    BY <1>3
  <2>2. record' = [record EXCEPT ![Recipient[i]] = Codeless(@)] BY <1>4, <1>6
  <2> HIDE DEF Codeless
  <2>3. record'[p] = Codeless(record[p]) \/ record'[p] = record[p]
    BY <1>2, <2>2
  <2>4. record[p] \in RecordRow BY <1>2
  <2> QED BY <2>1, <2>3, <2>4
<1> QED BY <1>5, <1>6

LEMMA NextCodes == TypeInv /\ Gone /\ Codes /\ [Next]_vars => Codes'
<1> SUFFICES ASSUME TypeInv, Gone, Codes, [Next]_vars PROVE Codes'
  OBVIOUS
<1>a. ASSUME NEW k \in Intent, outbox'[k].state = "ABSENT" PROVE outbox[k].state = "ABSENT"
  BY <1>a, NextRowStep DEF RowStep, Terminal
<1> SUFFICES /\ \A k \in Intent : outbox[k].state = "ABSENT" => accepts'[k] = 0
             /\ \A p \in Person : Code(p)'
  BY <1>a DEF Codes
<1> USE DEF TypeInv
<1> DEFINE Goal == /\ \A k \in Intent : outbox[k].state = "ABSENT" => accepts'[k] = 0
                   /\ \A p \in Person : Code(p)'
<1>1. ASSUME UNCHANGED <<accepts, sentTo, record>> PROVE Goal
  BY <1>1, CodesStay DEF Codes
<1>2. ASSUME NEW i \in Intent, RequestMessage(i) PROVE Goal
  BY <1>1, <1>2 DEF RequestMessage, history
<1>3. ASSUME NEW i \in Intent, NEW a \in Address, RequestVerification(i, a) PROVE Goal
  <2>1. /\ accepts' = accepts /\ sentTo' = sentTo /\ i \in Verification
        /\ outbox[i].state = "ABSENT"
        /\ record' = [record EXCEPT ![Recipient[i]] = NewChallenge(@, i, a)]
    BY <1>3 DEF RequestVerification, history
  <2>2. ASSUME NEW p \in Person PROVE Code(p)'
    <3>1. CASE p = Recipient[i]
      <4>1. record'[p].token = i /\ record'[p].challenge = i
        BY <2>1, <3>1 DEF NewChallenge, TypeOK
      <4>2. accepts'[i] = 0 BY <2>1 DEF Codes
      <4> QED BY <2>1, <3>1, <4>1, <4>2 DEF Code
    <3>2. CASE p # Recipient[i]
      <4>1. record'[p] = record[p] BY <2>1, <3>2 DEF TypeOK
      <4> QED BY <2>1, <4>1, CodesStay
    <3> QED BY <3>1, <3>2
  <2> QED BY <2>1, <2>2 DEF Codes
<1>4. ASSUME NEW q \in Person, NEW c \in Verification, NEW t \in Verification,
             VerifyAddress(q, c, t)
      PROVE  Goal
  <2>1. /\ accepts' = accepts /\ sentTo' = sentTo
        /\ \A p \in Person : record'[p].token = None \/ record'[p] = record[p]
    BY <1>4 DEF VerifyAddress, history, TypeOK, RecordRow
  <2> QED BY <2>1, CodesStay DEF Codes
<1>5. ASSUME NEW w \in Worker, Work(w) PROVE Goal
  <2>1. CASE DeliverSent(w)
    <3>1. PICK accepted \in BOOLEAN : Sent(worker[w].intent, accepted)
      BY <2>1 DEF DeliverSent
    <3>2. HoldsLease(w) /\ Allowed(worker[w].intent, "permitted") /\ record' = record
      BY <2>1 DEF DeliverSent
    <3> QED BY <3>1, <3>2, SendingCodes
  <2>2. CASE StartPass(w) \/ StopRecovering(w) \/ EndRun(w) \/ RecoverRow(w)
    BY <1>1, <2>2 DEF StartPass, StopRecovering, EndRun, RecoverRow, LeaveRow, ReconcileRow, history
  <2>3. CASE Claim(w)
    BY <1>1, <2>3, ClaimStep DEF history
  <2>4. CASE DeliverFenced(w) \/ DeliverRefused(w)
    BY <1>1, <2>4 DEF DeliverFenced, DeliverRefused, history
  <2> QED BY <1>5, <2>1, <2>2, <2>3, <2>4 DEF Work, Deliver
<1>6. CASE HousekeepRow
  <2>1. accepts' = accepts /\ sentTo' = sentTo BY <1>6 DEF HousekeepRow, history
  <2>2. \A p \in Person : record'[p].token = None \/ record'[p] = record[p]
    BY <1>6, CodeErased
  <2> QED BY <2>1, <2>2, CodesStay DEF Codes
<1>7. CASE ListHousekeeping \/ PurgeEvidence
  BY <1>1, <1>7 DEF ListHousekeeping, PurgeEvidence, history
<1>8. CASE Tick
  <2>1. accepts' = accepts /\ sentTo' = sentTo BY <1>8 DEF Tick, history
  <2>2. ASSUME NEW p \in Person
        PROVE  /\ record'[p].token = record[p].token
               /\ record'[p].challenge = record[p].challenge
               /\ record'[p].pending = record[p].pending
    BY <1>8 DEF Tick, OlderRecord, TypeOK, RecordRow
  <2> QED BY <2>1, <2>2, CodesStay DEF Codes
<1>9. ASSUME NEW w \in Worker, CrashInSend(w) PROVE Goal
  <2>1. PICK accepted \in BOOLEAN : Sent(worker[w].intent, accepted)
    BY <1>9 DEF CrashInSend
  <2>2. HoldsLease(w) /\ Allowed(worker[w].intent, "permitted") /\ record' = record
    BY <1>9 DEF CrashInSend
  <2> QED BY <2>1, <2>2, SendingCodes
<1>10. ASSUME NEW w \in Worker, Crash(w) PROVE Goal
  BY <1>1, <1>10 DEF Crash, history
<1>11. CASE HouseCrash \/ UNCHANGED vars
  BY <1>1, <1>11 DEF HouseCrash, vars, history
<1> QED BY <1>2, <1>3, <1>4, <1>5, <1>6, <1>7, <1>8, <1>9, <1>10, <1>11
        DEF Next, Run, Request, Housekeeping, Die

-----------------------------------------------------------------------------
(* The theorems.                                                           *)

LEMMA InitAccount == Init => Account
BY NumberAssumption, AdapterAssumption DEF Init, Account, Spent, Known, NoRow, NoAttempt

\* In every reachable state the account of every intent is right.
LEMMA AccountCorrect == Spec => [](TypeInv /\ Gone /\ Account)
<1> DEFINE Inv == TypeInv /\ Gone /\ Account
<1>1. Init => Inv
  BY InitType, InitGone, InitAccount
<1>2. Inv /\ [Next]_vars => Inv'
  BY NextType, NextGone, NextKept DEF SafeInv, Account, Kept
<1> QED BY <1>1, <1>2, PTL DEF Spec

\* However leases run out and passes recover them, an intent is given to the
\* backend no more often than the attempt limit, but for the calls in which a
\* worker died.
THEOREM CallsCounted == Spec => []CallsWithinDeaths
<1>1. TypeInv /\ Account => CallsWithinDeaths
  BY NumberAssumption DEF TypeInv, TypeOK, Row, Account, Spent, CallsWithinDeaths
<1> QED BY <1>1, AccountCorrect, PTL

\* However answers are lost and rows are recovered and retried, a provider
\* accepts an intent once, and once more at most for each death inside a send.
THEOREM AcceptsCounted == Spec => []AcceptsWithinDeaths
<1>1. TypeInv /\ Account => AcceptsWithinDeaths
  BY DEF TypeInv, TypeOK, Account, Known, AcceptsWithinDeaths
<1> QED BY <1>1, AccountCorrect, PTL

\* What is reported as accepted was accepted, deaths inside a send included.
THEOREM ReportedIsTrue == Spec => []AcceptedIsTrue
<1>1. Account => AcceptedIsTrue
  BY DEF Account, Known, AcceptedIsTrue
<1> QED BY <1>1, AccountCorrect, PTL

\* Where no worker dies inside a send, the attempt limit bounds the calls.
THEOREM CallsBounded ==
  ASSUME NoSendCrash PROVE Spec => []BoundedCalls
<1>1. TypeInv /\ Account /\ CallsWithinDeaths => BoundedCalls
  BY NumberAssumption, NoDeaths DEF TypeInv, TypeOK, Account, CallsWithinDeaths, BoundedCalls
<1> QED BY <1>1, CallsCounted, AccountCorrect, PTL

\* An attempt recovered as never started has not reached the provider.
THEOREM RecoveredNeverSent ==
  ASSUME NoSendCrash PROVE Spec => []RecoveredBeforeSend
<1>1. TypeInv /\ Account => RecoveredBeforeSend
  BY NoDeaths DEF TypeInv, TypeOK, Row, Account, Spent, RecoveredBeforeSend
<1> QED BY <1>1, AccountCorrect, PTL

\* No blind resend: a provider accepts each intent at most once.
THEOREM NoBlindResend ==
  ASSUME NoSendCrash PROVE Spec => []AcceptedOnce
<1>1. TypeInv /\ Account /\ AcceptsWithinDeaths => AcceptedOnce
  BY NoDeaths DEF TypeInv, TypeOK, Account, AcceptsWithinDeaths, AcceptedOnce
<1> QED BY <1>1, AcceptsCounted, AccountCorrect, PTL

\* The outbox implements DeliveryPromise: what a row says of its intent moves
\* only as the promise allows, together with what the provider really did.
THEOREM OutboxImplementsPromise ==
  ASSUME NoSendCrash PROVE Spec => PromiseKept
<1>1. Init => Promise!Init
  BY Statuses DEF Init, NoRow, Promise!Init
<1>2. TypeInv /\ Gone /\ Account /\ [Next]_vars
        => [Promise!Next]_<<[i \in Intent |-> StatusOf(outbox[i].state)], accepts>>
  <2> SUFFICES ASSUME TypeInv, Gone, Account, [Next]_vars
               PROVE  Promise!Next
    OBVIOUS
  <2>1. \A k \in Intent : Follows(k)
    BY NextKept DEF SafeInv, Kept
  <2> QED BY <2>1, FollowsPromise DEF Promise!Next
<1> QED BY <1>1, <1>2, AccountCorrect, PTL DEF Spec, PromiseKept, Promise!Spec

\* Housekeeping erases only what is over, also when workers die while sending.
THEOREM OnlyEndedErased == Spec => []ErasedIsOver
<1>1. Gone => ErasedIsOver
  BY DEF Gone, ErasedIsOver
<1> QED BY <1>1, InitType, InitGone, NextType, NextGone, PTL DEF Spec

\* Recovery fences the worker it takes a claim from: no two workers can send
\* the same intent at the same time.
THEOREM OneSender == Spec => []SoleSender
<1>1. Alone => SoleSender
  BY DEF Alone, SoleSender, HoldsLease
<1> QED BY <1>1, InitType, InitAloneWithin, NextType, NextAloneWithin, PTL DEF Spec

\* Notices leave the essential reserve untouched on every day.
THEOREM ReserveKept == Spec => []EssentialRoom
<1>1. TypeInv /\ Within => EssentialRoom
  BY NumberAssumption DEF TypeInv, TypeOK, BucketRow, Within, EssentialRoom
<1> QED BY <1>1, InitType, InitAloneWithin, NextType, NextAloneWithin, PTL DEF Spec

\* Whoever sends a verification message has just found its challenge to be the
\* live one, also when it was replaced, used or ran out after the claim.
THEOREM OnlyLiveCodesSent == Spec => ReplacedNeverSent
<1>1. TypeInv /\ [Next]_vars => [\A i \in Verification : calls'[i] > calls[i] =>
       /\ record[Recipient[i]].challenge = i
       /\ record[Recipient[i]].expiresIn > 0]_vars
  <2> SUFFICES ASSUME TypeInv, Next, NEW i \in Verification, calls'[i] > calls[i]
               PROVE  record[Recipient[i]].challenge = i /\ record[Recipient[i]].expiresIn > 0
    OBVIOUS
  <2>1. calls # calls'
    BY IntentAssumption DEF TypeInv, TypeOK
  <2>2. PICK w \in Worker : DeliverSent(w) \/ CrashInSend(w)
    BY <2>1, ClaimStep
       DEF Next, Run, Die, Request, RequestMessage, RequestVerification, VerifyAddress, Work,
           StartPass, StopRecovering, EndRun, RecoverRow, LeaveRow, ReconcileRow, Deliver,
           DeliverFenced, DeliverRefused, Housekeeping, ListHousekeeping, HousekeepRow,
           PurgeEvidence, Tick, HouseCrash, Crash, history
  <2>3. /\ Allowed(worker[w].intent, "permitted")
        /\ calls' = [calls EXCEPT ![worker[w].intent] = @ + 1]
    BY <2>2 DEF DeliverSent, CrashInSend, Sent
  <2>4. worker[w].intent = i
    BY <2>3, IntentAssumption DEF TypeInv, TypeOK
  <2> QED BY <2>3, <2>4 DEF Allowed, ChallengeLive
<1> QED BY <1>1, InitType, NextType, PTL DEF Spec, ReplacedNeverSent

\* An address is verified only by somebody who read a code that was accepted
\* for that address, deaths of workers included.
THEOREM InboxProved == Spec => VerifiedByInbox
<1>1. TypeInv /\ Codes /\ [Next]_vars =>
        [\A p \in Person : record'[p].verified # record[p].verified =>
           \E i \in Verification : Recipient[i] = p /\ sentTo[i] = record'[p].verified]_vars
  <2> SUFFICES ASSUME TypeInv, Codes, Next, NEW p \in Person,
                      record'[p].verified # record[p].verified
               PROVE  \E i \in Verification : Recipient[i] = p /\ sentTo[i] = record'[p].verified
    OBVIOUS
  <2> USE DEF TypeInv
  <2>1. ASSUME NEW q \in Person, NEW c \in Verification, NEW t \in Verification,
               VerifyAddress(q, c, t)
        PROVE  \E i \in Verification : Recipient[i] = p /\ sentTo[i] = record'[p].verified
    <3>1. q = p BY <2>1 DEF VerifyAddress, TypeOK
    <3>2. record'[p].verified = record[p].pending
      BY <2>1, <3>1 DEF VerifyAddress, TypeOK, RecordRow
    <3>3. accepts[t] > 0 /\ record[p].token = t BY <2>1, <3>1 DEF VerifyAddress
    <3>4. t # None BY IntentAssumption
    <3>5. Recipient[t] = p /\ sentTo[t] = record[p].pending BY <3>3, <3>4 DEF Codes, Code
    <3> QED BY <3>2, <3>5
  <2>2. ASSUME NEW i \in Intent, NEW a \in Address, RequestVerification(i, a) PROVE FALSE
    BY <2>2 DEF RequestVerification, NewChallenge, TypeOK
  <2>3. ~Tick
    <3> SUFFICES ASSUME Tick PROVE FALSE
      OBVIOUS
    <3>1. PICK midnight \in BOOLEAN : record'[p] = OlderRecord(record[p], midnight)
      BY DEF Tick
    <3>2. record[p] \in RecordRow BY DEF TypeOK
    <3> QED BY <3>1, <3>2 DEF OlderRecord, RecordRow
  <2>4. ~HousekeepRow
    BY CodeErased
  <2>5. record # record' OBVIOUS
  <2> QED
    BY <2>1, <2>2, <2>3, <2>4, <2>5, ClaimStep
       DEF Next, Run, Die, Request, RequestMessage, Work, StartPass, StopRecovering, EndRun,
           RecoverRow, LeaveRow, ReconcileRow, Deliver, DeliverFenced, DeliverRefused,
           DeliverSent, Housekeeping, ListHousekeeping, PurgeEvidence, HouseCrash, Crash,
           CrashInSend
<1> QED BY <1>1, InitType, InitGone, InitCodes, NextType, NextGone, NextCodes, PTL
        DEF Spec, VerifiedByInbox
=============================================================================
