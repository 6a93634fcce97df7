---------------------------- MODULE CommandIntake ----------------------------
(***************************************************************************)
(* The durable command intake (command_intake.py) and the way the services *)
(* execute a request it admitted (organism_command_support.py).            *)
(*                                                                         *)
(* An attempt is one call of a service's public method.  It first admits   *)
(* the request: a few autocommit statements that find or insert the row    *)
(* binding (actor, action, request key) to one content and one receipt     *)
(* time.  It then runs the request's stages, each a transaction of its own *)
(* under the actor's Identity row lock and the organism's row lock.  The   *)
(* actor's access epoch is read, unlocked, before any of it.  A caller may *)
(* call again with the same request or another.                            *)
(*                                                                         *)
(* What a stage decides is left open here: any stage may succeed, be       *)
(* refused or fail.                                                        *)
(***************************************************************************)
EXTENDS IntakeSlots, FiniteSets

CONSTANTS
  None,        \* no attempt, request or row
  Actor,       \* Identities
  Attempt,     \* concurrent calls
  Key,         \* idempotency keys
  Body,        \* request contents
  Request,     \* the requests the callers may send
  MaxEpoch,    \* bound on access_epoch
  MaxClock     \* bound on the database clock

Content == [actor : Actor, entry : Entries, key : Key, body : Body]

ASSUME RequestAssumption == Request \subseteq Content
ASSUME NoneAssumption == None \notin Attempt /\ None \notin Request
ASSUME BoundAssumption == MaxEpoch \in Nat /\ MaxClock \in Nat \ {0}

VARIABLES
  clock,     \* the database's clock
  access,    \* core_identity: access_state
  epoch,     \* core_identity: access_epoch
  lock,      \* core_identity: the attempt whose transaction holds the row
  organism,  \* the LivingOrganism row: the attempt whose transaction holds it
  intake,    \* core_commandintake
  records,   \* core_organismcommandreceipt and core_authoritydecision
  pc,        \* an attempt's next statement
  req,       \* its request
  seen,      \* the access epoch it read
  found,     \* the history it read
  row,       \* the binding it admitted or recovered
  stage,     \* the stage it is at
  plan,      \* what its open transaction is going to commit
  told       \* what the caller was told

database == <<clock, access, epoch, lock, organism, intake, records>>
attempts == <<pc, req, seen, found, row, stage, plan, told>>
vars == <<clock, access, epoch, lock, organism, intake, records,
          pc, req, seen, found, row, stage, plan, told>>

\* A binding: the request, the epoch in its fingerprint, its receipt time.
Binding(r, e, t) ==
  [actor |-> r.actor, entry |-> r.entry, key |-> r.key, body |-> r.body,
   epoch |-> e, at |-> t]

Receipt(b, slot) ==
  [kind |-> "receipt", actor |-> b.actor, slot |-> slot, at |-> 0,
   outcome |-> "COMPLETED", of |-> b]

\* Mutant: the decision is evaluated when the request is executed.
Decision_AtClock(b, slot, outcome) ==
  [kind |-> "decision", actor |-> b.actor, slot |-> slot, at |-> clock,
   outcome |-> outcome, of |-> b]

Decision(b, slot, outcome) ==
  [kind |-> "decision", actor |-> b.actor, slot |-> slot, at |-> b.at,
   outcome |-> outcome, of |-> b]

Admitting == {"look", "history", "candidates", "reread", "insert", "readback"}
InTransaction == {"begun", "fresh", "written"}
PCs == {"idle", "bound", "told"} \union Admitting \union InTransaction

Init ==
  /\ clock = 1
  /\ access = [x \in Actor |-> "ACTIVE"]
  /\ epoch = [x \in Actor |-> 0]
  /\ lock = [x \in Actor |-> None]
  /\ organism = None
  /\ intake = {}
  /\ records = {}
  /\ pc = [a \in Attempt |-> "idle"]
  /\ req = [a \in Attempt |-> None]
  /\ seen = [a \in Attempt |-> 0]
  /\ found = [a \in Attempt |-> {}]
  /\ row = [a \in Attempt |-> None]
  /\ stage = [a \in Attempt |-> 1]
  /\ plan = [a \in Attempt |-> "none"]
  /\ told = [a \in Attempt |-> "nothing"]

Goto(a, l) == pc' = [pc EXCEPT ![a] = l]
Tell(a, t) == Goto(a, "told") /\ told' = [told EXCEPT ![a] = t]

-----------------------------------------------------------------------------
(* Admission: admit_request.  Every action is one autocommit statement.    *)

\* _resolve_actor: the epoch, read without a lock.
Call(a, r) ==
  /\ pc[a] \in {"idle", "told"}
  /\ Goto(a, "look")
  /\ req' = [req EXCEPT ![a] = r]
  /\ seen' = [seen EXCEPT ![a] = epoch[r.actor]]
  /\ told' = [told EXCEPT ![a] = "nothing"]
  /\ found' = [found EXCEPT ![a] = {}]
  /\ row' = [row EXCEPT ![a] = None]
  /\ stage' = [stage EXCEPT ![a] = 1]
  /\ UNCHANGED <<database, plan>>

\* _existing_row: the rows stored under the request's actor, action and key.
Existing(r) == {b \in intake : b.actor = r.actor /\ OwnSlot(b) = OwnSlot(r)}

\* The fingerprint covers the entry, the content and the epoch.
SameFingerprint(b, r, e) ==
  /\ b.entry = r.entry
  /\ b.body = r.body
  /\ b.epoch = e

\* _bound_from_row: a stored row is the binding of an identical request and
\* refuses a different one.
Bind(a, b) ==
  IF SameFingerprint(b, req[a], seen[a])
  THEN Goto(a, "bound") /\ row' = [row EXCEPT ![a] = b] /\ UNCHANGED told
  ELSE Tell(a, "mismatch") /\ UNCHANGED row

Look(a) ==
  /\ pc[a] = "look"
  /\ \/ Existing(req[a]) = {} /\ Goto(a, "history") /\ UNCHANGED <<row, told>>
     \/ \E b \in Existing(req[a]) : Bind(a, b)
  /\ UNCHANGED <<database, req, seen, found, stage, plan>>

\* _history_records: receipts and decisions already under the request's slots.
Recorded(r) == {g \in records : g.actor = r.actor /\ g.slot \in Slots(r)}

History(a) ==
  /\ pc[a] = "history"
  /\ found' = [found EXCEPT ![a] = Recorded(req[a])]
  /\ Goto(a, IF Recorded(req[a]) = {} THEN "insert" ELSE "candidates")
  /\ UNCHANGED <<database, req, seen, row, stage, plan, told>>

\* Mutant: only the row stored under the request's own action and key.
Candidates_OwnRowOnly(r) ==
  {b \in intake : b.actor = r.actor /\ OwnSlot(b) = OwnSlot(r)}

\* _candidate_bindings: the actor's compound rows and the rows stored under
\* one of the slots.
Candidates(r) ==
  {b \in intake : /\ b.actor = r.actor
                  /\ b.entry \in Compound \/ OwnSlot(b) \in Slots(r)}

\* _refuse_unexpected_history, the check itself.
CheckHistory(a) ==
  /\ pc[a] = "candidates"
  /\ Goto(a, IF \A g \in found[a] : \E b \in Candidates(req[a]) : AccountsFor(b, g)
             THEN "insert" ELSE "reread")
  /\ UNCHANGED <<database, req, seen, found, row, stage, plan, told>>

\* ... and its second look for a row that appeared meanwhile.
Reread(a) ==
  /\ pc[a] = "reread"
  /\ \/ Existing(req[a]) = {} /\ Tell(a, "alarm") /\ UNCHANGED row
     \/ \E b \in Existing(req[a]) : Bind(a, b)
  /\ UNCHANGED <<database, req, seen, found, stage, plan>>

\* INSERT ... ON CONFLICT DO NOTHING.
InsertRow(a) ==
  intake' = IF Existing(req[a]) = {}
            THEN intake \union {Binding(req[a], seen[a], clock)}
            ELSE intake

Insert(a) ==
  /\ pc[a] = "insert"
  /\ InsertRow(a)
  /\ IF intake' = intake
     THEN Goto(a, "readback") /\ UNCHANGED row
     ELSE /\ Goto(a, "bound")
          /\ row' = [row EXCEPT ![a] = Binding(req[a], seen[a], clock)]
  /\ UNCHANGED <<clock, access, epoch, lock, organism, records>>
  /\ UNCHANGED <<req, seen, found, stage, plan, told>>

ReadBack(a) ==
  /\ pc[a] = "readback"
  /\ \E b \in Existing(req[a]) : Bind(a, b)
  /\ UNCHANGED <<database, req, seen, found, stage, plan>>

\* The connection is lost during a statement: the caller is told that the
\* request may or may not have been received.
LoseAdmission(a) ==
  /\ pc[a] \in Admitting
  /\ Tell(a, "unconfirmed")
  /\ \/ UNCHANGED intake
     \/ pc[a] = "insert" /\ InsertRow(a)
  /\ UNCHANGED <<clock, access, epoch, lock, organism, records>>
  /\ UNCHANGED <<req, seen, found, row, stage, plan>>

-----------------------------------------------------------------------------
(* Execution of one stage: a transaction.                                  *)

CurrentSlot(a) == Stages(row[a])[stage[a]]

\* Mutant: the organism's row stays locked.
Free_ActorOnly(a) ==
  /\ lock' = [x \in Actor |-> IF lock[x] = a THEN None ELSE lock[x]]
  /\ UNCHANGED organism

Free(a) ==
  /\ lock' = [x \in Actor |-> IF lock[x] = a THEN None ELSE lock[x]]
  /\ organism' = IF organism = a THEN None ELSE organism

\* Mutant: the access epoch is not compared.
Verified_RowOnly(a) == row[a] \in intake

\* BoundRequest.verify, under the Identity lock.
Verified(a) == seen[a] = epoch[req[a].actor] /\ row[a] \in intake

\* Mutant: the actor's row is read without a lock.
Begin_Unlocked(a) ==
  /\ pc[a] = "bound"
  /\ IF access[req[a].actor] = "ACTIVE" /\ Verified(a)
     THEN Goto(a, "begun") /\ UNCHANGED told
     ELSE Tell(a, "stale")
  /\ UNCHANGED <<clock, access, epoch, lock, organism, intake, records>>
  /\ UNCHANGED <<req, seen, found, row, stage, plan>>

\* _lock_actor, then verify.  A refusal here rolls the transaction back.
Begin(a) ==
  /\ pc[a] = "bound"
  /\ lock[req[a].actor] = None
  /\ IF access[req[a].actor] = "ACTIVE" /\ Verified(a)
     THEN /\ Goto(a, "begun")
          /\ lock' = [lock EXCEPT ![req[a].actor] = a]
          /\ UNCHANGED told
     ELSE Tell(a, "stale") /\ UNCHANGED lock
  /\ UNCHANGED <<clock, access, epoch, organism, intake, records>>
  /\ UNCHANGED <<req, seen, found, row, stage, plan>>

\* A served stage: the next one of a compound request, or the caller's answer.
Served(a) ==
  IF stage[a] < Len(Stages(row[a]))
  THEN /\ Goto(a, "bound")
       /\ stage' = [stage EXCEPT ![a] = stage[a] + 1]
       /\ UNCHANGED told
  ELSE Tell(a, "done") /\ UNCHANGED stage

\* _lock_existing_receipt.
Completed(a) ==
  {g \in records : /\ g.kind = "receipt"
                   /\ g.actor = req[a].actor
                   /\ g.slot = CurrentSlot(a)}

\* _attempt_replay: the stored result of a completed request is served again,
\* a receipt of another request refused.  The advisory mutex of the actor, the
\* action and the key is taken first; only the holder of the actor's lock ever
\* asks for it.
Replay(a) ==
  /\ pc[a] = "begun"
  /\ \/ /\ Completed(a) = {}
        /\ Goto(a, "fresh")
        /\ UNCHANGED <<lock, organism, stage, told>>
     \/ \E g \in Completed(a) :
          /\ IF g.of = row[a] THEN Served(a) ELSE Tell(a, "collision") /\ UNCHANGED stage
          /\ Free(a)
  /\ UNCHANGED <<clock, access, epoch, intake, records>>
  /\ UNCHANGED <<req, seen, found, row, plan>>

\* The organism is locked, the act qualified and written: everything up to the
\* commit.  plan is what the commit will make visible.
Perform(a, p) ==
  /\ pc[a] = "fresh"
  /\ organism = None
  /\ p = "electionRefused" => row[a].entry = "BIRTHING"
  /\ organism' = a
  /\ plan' = [plan EXCEPT ![a] = p]
  /\ Goto(a, "written")
  /\ UNCHANGED <<clock, access, epoch, lock, intake, records>>
  /\ UNCHANGED <<req, seen, found, row, stage, told>>

Plans == {"done", "refused", "electionRefused"}

\* The decisions the stage's qualifications recorded.  A Birthing qualifies
\* its election as well.
Decided(a) ==
  LET b == row[a]
      first == Decision(b, CurrentSlot(a), IF plan[a] = "refused" THEN "REFUSED" ELSE "QUALIFIED")
      second == Decision(b, ElectionSlot(b), IF plan[a] = "done" THEN "QUALIFIED" ELSE "REFUSED")
  IN IF b.entry = "BIRTHING" /\ plan[a] # "refused" THEN {first, second} ELSE {first}

\* Mutant: the act is committed without its receipt.
Written_NoReceipt(a) == Decided(a)

\* What the commit adds.  authority_atomic commits a refusal's decision too.
Written(a) ==
  Decided(a) \union (IF plan[a] = "done" THEN {Receipt(row[a], CurrentSlot(a))} ELSE {})

\* The receipt's uniqueness constraint.
Fits(a) == plan[a] = "done" => Completed(a) = {}

EndPlan(a) == plan' = [plan EXCEPT ![a] = "none"]

\* Mutant: a refused stage counts as served.
Commit_RefusalServed(a) ==
  /\ pc[a] = "written"
  /\ IF Fits(a)
     THEN records' = records \union Written(a) /\ Served(a)
     ELSE Tell(a, "duplicate") /\ UNCHANGED <<records, stage>>
  /\ EndPlan(a) /\ Free(a)
  /\ UNCHANGED <<clock, access, epoch, intake>>
  /\ UNCHANGED <<req, seen, found, row>>

Commit(a) ==
  /\ pc[a] = "written"
  /\ IF Fits(a)
     THEN /\ records' = records \union Written(a)
          /\ IF plan[a] = "done" THEN Served(a)
             ELSE Tell(a, "refused") /\ UNCHANGED stage
     ELSE Tell(a, "duplicate") /\ UNCHANGED <<records, stage>>
  /\ EndPlan(a) /\ Free(a)
  /\ UNCHANGED <<clock, access, epoch, intake>>
  /\ UNCHANGED <<req, seen, found, row>>

\* Any error that rolls the transaction back: an unavailable context, a guard,
\* lock contention, a technical failure.
RollBack(a) ==
  /\ pc[a] \in InTransaction
  /\ Tell(a, "rolledback")
  /\ EndPlan(a) /\ Free(a)
  /\ UNCHANGED <<clock, access, epoch, intake, records>>
  /\ UNCHANGED <<req, seen, found, row, stage>>

\* The connection, or the process, is lost at the commit, which may have
\* happened: the error is passed on without a claim.
LoseCommit(a) ==
  /\ pc[a] = "written"
  /\ Tell(a, "uncertain")
  /\ \/ Fits(a) /\ records' = records \union Written(a)
     \/ UNCHANGED records
  /\ EndPlan(a) /\ Free(a)
  /\ UNCHANGED <<clock, access, epoch, intake>>
  /\ UNCHANGED <<req, seen, found, row, stage>>

-----------------------------------------------------------------------------
(* The identity service, which locks the Identity too, and time.           *)

\* change_access and change_password: each starts from the named states and
\* increases the epoch.
Changes == {<<"ACTIVE", "RESTRICTED">>, <<"ACTIVE", "DEACTIVATED">>,
            <<"RESTRICTED", "DEACTIVATED">>, <<"DEACTIVATED", "ACTIVE">>,
            <<"ACTIVE", "ACTIVE">>, <<"RESTRICTED", "RESTRICTED">>}

ChangeAccess(x, to) ==
  /\ lock[x] = None
  /\ epoch[x] < MaxEpoch
  /\ <<access[x], to>> \in Changes
  /\ access' = [access EXCEPT ![x] = to]
  /\ epoch' = [epoch EXCEPT ![x] = epoch[x] + 1]
  /\ UNCHANGED <<clock, lock, organism, intake, records, attempts>>

Tick ==
  /\ clock < MaxClock
  /\ clock' = clock + 1
  /\ UNCHANGED <<access, epoch, lock, organism, intake, records, attempts>>

-----------------------------------------------------------------------------
Admit(a) == \/ Look(a) \/ History(a) \/ CheckHistory(a) \/ Reread(a)
            \/ Insert(a) \/ ReadBack(a) \/ LoseAdmission(a)

Execute(a) == \/ Begin(a) \/ Replay(a) \/ \E p \in Plans : Perform(a, p)
              \/ Commit(a) \/ RollBack(a) \/ LoseCommit(a)

Next == \/ \E a \in Attempt : (\E r \in Request : Call(a, r)) \/ Admit(a) \/ Execute(a)
        \/ \E x \in Actor : \E c \in Changes : ChangeAccess(x, c[2])
        \/ Tick

Spec == Init /\ [][Next]_vars

\* A call in progress is run to its end by its thread.  PostgreSQL grants a
\* row lock to those waiting for it in turn, so a call cannot be overtaken at
\* one for ever; a bound on calls is not assumed.
Fairness == \A a \in Attempt : /\ WF_vars(Admit(a))
                               /\ SF_vars(Begin(a))
                               /\ SF_vars(\E p \in Plans : Perform(a, p))
                               /\ WF_vars(Replay(a) \/ Commit(a))
FairSpec == Spec /\ Fairness

-----------------------------------------------------------------------------
(* Types.                                                                  *)

Rows == [actor : Actor, entry : Entries, key : Key, body : Body,
         epoch : 0..MaxEpoch, at : 1..MaxClock]
ASSUME NoRowAssumption == None \notin Rows

SlotSet == [action : Actions, form : {"own", "request", "admit"}, key : Key]
Records ==
  [kind : {"receipt", "decision"}, actor : Actor, slot : SlotSet, at : 0..MaxClock,
   outcome : {"COMPLETED", "QUALIFIED", "REFUSED"}, of : Rows]
Answers == {"nothing", "done", "refused", "rolledback", "uncertain", "mismatch",
            "alarm", "unconfirmed", "stale", "collision", "duplicate"}

Types ==
  /\ clock \in 1..MaxClock
  /\ access \in [Actor -> {"ACTIVE", "RESTRICTED", "DEACTIVATED"}]
  /\ epoch \in [Actor -> 0..MaxEpoch]
  /\ lock \in [Actor -> Attempt \union {None}]
  /\ organism \in Attempt \union {None}
  /\ intake \subseteq Rows
  /\ records \subseteq Records
  /\ pc \in [Attempt -> PCs]
  /\ req \in [Attempt -> Request \union {None}]
  /\ seen \in [Attempt -> 0..MaxEpoch]
  /\ found \in [Attempt -> SUBSET Records]
  /\ row \in [Attempt -> Rows \union {None}]
  /\ stage \in [Attempt -> 1..2]
  /\ plan \in [Attempt -> Plans \union {"none"}]
  /\ told \in [Attempt -> Answers]

\* What an attempt holds at which step: its request, a binding of it that is in
\* the intake, and in a transaction the actor's lock, under which access and
\* epoch stand still and no receipt of the stage appears.
AttemptOK(a) ==
  /\ pc[a] # "idle" => req[a] # None
  /\ pc[a] \in {"idle"} \union Admitting => row[a] = None /\ stage[a] = 1
  /\ pc[a] \in {"bound"} \union InTransaction => row[a] # None
  /\ row[a] # None => /\ row[a] \in intake
                      /\ row[a] = Binding(req[a], seen[a], row[a].at)
                      /\ stage[a] \in DOMAIN Stages(row[a])
  /\ pc[a] \in InTransaction => /\ lock[req[a].actor] = a
                                /\ access[req[a].actor] = "ACTIVE"
                                /\ epoch[req[a].actor] = seen[a]
  /\ pc[a] \in {"fresh", "written"} => Completed(a) = {}
  /\ pc[a] = "written" => organism = a
  /\ plan[a] # "none" <=> pc[a] = "written"

\* Nobody holds a lock outside a transaction.
LocksOK ==
  /\ \A x \in Actor : lock[x] # None => pc[lock[x]] \in InTransaction /\ req[lock[x]].actor = x
  /\ organism # None => pc[organism] = "written"

\* The variables' types, and what is set and locked when an attempt is at which
\* step.
TypeOK == Types /\ (\A a \in Attempt : AttemptOK(a)) /\ LocksOK

-----------------------------------------------------------------------------
(* Safety.                                                                 *)

\* run_activation_step returns nothing: at every moment every receipt and
\* every authority decision, a refused one and a Birthing's election included,
\* is accounted for by an intake row, with a decision's evaluation time equal
\* to that row's receipt time however late the request was executed.
Recognised == \A g \in records : \E b \in intake : AccountsFor(b, g)

\* IntakeUnexpectedHistory is for "a record for the request key that no intake
\* binding accounts for", and there never is one.  It is raised, if ever, for a
\* beta activation whose key the same actor used for a Birthing, whose election
\* lies in the same slot and whose binding _candidate_bindings does not offer;
\* no race of admissions, executions and retries raises it otherwise.
AlarmIsKnown ==
  \A a \in Attempt : told[a] = "alarm" =>
    /\ req[a].entry = "ACTIVATE_BETA"
    /\ \E b \in intake : /\ b.entry = "BIRTHING" /\ b.actor = req[a].actor
                         /\ b.key = req[a].key

\* A retry inherits: calls that were both admitted under one actor, action and
\* request key hold the same binding, so the same content, epoch and receipt
\* time, even when the first answer was lost and both inserted at once.
RetryInherits ==
  \A a, c \in Attempt :
    /\ row[a] # None /\ row[c] # None
    /\ row[a].actor = row[c].actor
    /\ OwnSlot(row[a]) = OwnSlot(row[c])
    => row[a] = row[c]

\* A call bound to a request finds under its slots only its own receipt, and
\* never runs into the receipt's uniqueness constraint: nobody is refused for
\* having been executed twice at once.
RetryNeverCollides == \A a \in Attempt : told[a] \notin {"collision", "duplicate"}

\* "Done" is never said of a compound request with a stage missing, nor of one
\* another call bound and did not complete.
DoneIsDone ==
  \A a \in Attempt : told[a] = "done" =>
    \A n \in DOMAIN Stages(row[a]) : Receipt(row[a], Stages(row[a])[n]) \in records

\* What is committed is committed for an actor who is active, under the epoch
\* its request was received under, although the epoch was read long before.
FreshWrite ==
  [][\A g \in records' \ records :
       /\ access[g.actor] = "ACTIVE" /\ access'[g.actor] = "ACTIVE"
       /\ g.of.epoch = epoch[g.actor] /\ epoch'[g.actor] = epoch[g.actor]]_vars

\* A completed stage is final: however late an answer was lost and however often
\* the request is sent again, neither a second receipt nor a refusal of that
\* request is recorded under the slot that has its receipt.
CompletedIsFinal ==
  [][\A g \in records' \ records : \A h \in records :
       h.kind = "receipt" /\ h.of = g.of => h.slot # g.slot]_vars

\* Who waits for whom at a row lock: a call about to begin for the one that has
\* its actor's row, a call about to perform for the one that has the organism's.
Awaits(a, c) ==
  \/ pc[a] = "bound" /\ lock[req[a].actor] = c
  \/ pc[a] = "fresh" /\ organism = c

\* Executors do not deadlock: in every set of calls one waits for none of them
\* (_lock_actor comes before the organism's lock in every executor).
NoWaitCircle ==
  \A D \in SUBSET Attempt : D # {} => \E a \in D : \A c \in D : ~Awaits(a, c)

\* No decision is dated later than the moment it is looked at, whichever call
\* recorded it and whatever receipt time it inherited.
DecidedInThePast == \A g \in records : g.kind = "decision" => g.at <= clock

\* The intake and its executors keep the promise of CommandPromise.
Performed == {[actor |-> g.actor, slot |-> g.slot, of |-> g.of] :
                g \in {h \in records : h.kind = "receipt"}}
Promise == INSTANCE CommandPromise WITH received <- intake, performed <- Performed
PromiseKept == Promise!Spec

-----------------------------------------------------------------------------
(* Liveness.                                                               *)

\* Every call is answered: locks are taken in one order and every statement
\* has a way on, so nobody waits for ever.
Answered == \A a \in Attempt : pc[a] = "look" ~> pc[a] = "told"
=============================================================================
