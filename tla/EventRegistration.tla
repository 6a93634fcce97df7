-------------------------- MODULE EventRegistration --------------------------
(***************************************************************************)
(* The registrations of one Event (event_registration_service.py): people  *)
(* register or are registered, registrations are cancelled, and a          *)
(* cancelled one may be followed by another.  A call first looks for a     *)
(* transition recorded under its actor, action and key, without a lock;    *)
(* then it takes the Event's row lock, which every writer of the Event,    *)
(* its registrations and its attendance takes first and holds until it     *)
(* commits.  What a call does under that lock is therefore one step.       *)
(*                                                                         *)
(* Any call may be refused: the authority and the eligibility source are   *)
(* the caller's.  Evidence, bases and times are left out; a registration   *)
(* that is cancelled has one transition to name as the previous one.       *)
(***************************************************************************)
EXTENDS LifecycleGraphs, Sequences, FiniteSets

CONSTANTS
  None,         \* no key, no request
  Participant,  \* Identities that register or are registered
  Caller,       \* concurrent calls
  Key,          \* idempotency keys
  MaxRows,      \* bound on the registrations
  Offered       \* the requests the calls make

Keyed == Key \union {None}
RegisterRequest == [op : {"register"}, actor : Participant, key : Keyed,
                    participant : Participant, predecessor : 0..MaxRows]
CancelRequest == [op : {"cancel"}, actor : Participant, key : Keyed,
                  row : 1..MaxRows]
Request == RegisterRequest \union CancelRequest

Row == [participant : Participant, predecessor : 0..MaxRows,
        state : {"registered", "cancelled"}]
RegistrationAction == {"register_self", "register_third_party", "re_register",
                       "cancel"}
Entry == [row : 1..MaxRows, action : RegistrationAction, actor : Participant,
          key : Keyed]
Answer == [result : {"none", "done", "conflict"}, row : 0..MaxRows]

ASSUME RowsAssumption == MaxRows \in Nat
ASSUME NoKeyAssumption == None \notin Key \union Request
ASSUME OfferedAssumption == Offered \subseteq Request

VARIABLES
  event,   \* the Event's state
  rows,    \* the registrations, in the order of their primary keys
  ledger,  \* their transitions, in the order of commit
  pc,      \* "idle", or "waiting" for the Event's row lock
  req,     \* a call's request, kept with its answer until the next call
  answer   \* what the caller was told, unless it was refused

registrationVars == <<event, rows, ledger, pc, req, answer>>

NoAnswer == [result |-> "none", row |-> 0]
Conflict == [result |-> "conflict", row |-> 0]
Done(row) == [result |-> "done", row |-> row]

RegistrationInit ==
  /\ event = "draft" /\ rows = <<>> /\ ledger = <<>>
  /\ pc = [c \in Caller |-> "idle"]
  /\ req = [c \in Caller |-> None]
  /\ answer = [c \in Caller |-> NoAnswer]

-----------------------------------------------------------------------------
Open == event \in {"published", "active"}

ActionOf(r) ==
  IF r.op = "cancel" THEN "cancel"
  ELSE IF r.predecessor # 0 THEN "re_register"
  ELSE IF r.actor = r.participant THEN "register_self"
  ELSE "register_third_party"

\* The transitions recorded under the request's actor, action and key.
Recorded(r) == {i \in DOMAIN ledger :
  /\ r.key # None /\ ledger[i].key = r.key
  /\ ledger[i].actor = r.actor /\ ledger[i].action = ActionOf(r)}

\* The participant and the predecessor a request is about.
Subject(r) == IF r.op = "cancel"
              THEN <<rows[r.row].participant, rows[r.row].predecessor>>
              ELSE <<r.participant, r.predecessor>>

\* Mutant: the recorded transition is returned whatever it is about.
Matches_Any(r, i) == TRUE

Matches(r, i) == LET row == rows[ledger[i].row]
                 IN  Subject(r) = <<row.participant, row.predecessor>>

Replay(r) == LET i == CHOOSE j \in Recorded(r) : TRUE
             IN  IF Matches(r, i) THEN Done(ledger[i].row) ELSE Conflict

Tell(c, what) ==
  /\ pc' = [pc EXCEPT ![c] = "idle"]
  /\ answer' = [answer EXCEPT ![c] = what]

\* A method is called and looks for a replay without a lock.
Call(c, r) ==
  /\ pc[c] = "idle"
  /\ r.op = "cancel" => r.row \in DOMAIN rows
  /\ req' = [req EXCEPT ![c] = r]
  /\ IF Recorded(r) # {}
       THEN Tell(c, Replay(r))
       ELSE /\ pc' = [pc EXCEPT ![c] = "waiting"]
            /\ answer' = [answer EXCEPT ![c] = NoAnswer]
  /\ UNCHANGED <<event, rows, ledger>>

\* Refused by a guard, the authority or the eligibility source, or lost with
\* its transaction.
Refuse(c) ==
  /\ pc[c] = "waiting"
  /\ Tell(c, NoAnswer)
  /\ req' = [req EXCEPT ![c] = None]
  /\ UNCHANGED <<event, rows, ledger>>

\* unique_event_reg_idempotency
KeyTaken(r) == Recorded(r) # {}

\* A registration's recorded transition is looked for again under the lock.
AnswerReplay(c) ==
  /\ pc[c] = "waiting" /\ req[c].op = "register"
  /\ KeyTaken(req[c])
  /\ Tell(c, Replay(req[c]))
  /\ UNCHANGED <<event, rows, ledger, req>>

\* Mutant: a cancellation is not looked at before it is cancelled.
Standing_Any(row) == TRUE

Standing(row) == rows[row].state = "registered"

Of(participant) == {i \in DOMAIN rows : rows[i].participant = participant}

\* Mutant: the cancelled predecessor may have been followed already.
FollowsFrom_Twice(r) ==
  \/ r.predecessor = 0 /\ Of(r.participant) = {}
  \/ /\ r.predecessor \in Of(r.participant)
     /\ rows[r.predecessor].state = "cancelled"

\* A first registration has no other before it; a later one names a
\* cancelled one without successor.
FollowsFrom(r) ==
  \/ r.predecessor = 0 /\ Of(r.participant) = {}
  \/ /\ r.predecessor \in Of(r.participant)
     /\ rows[r.predecessor].state = "cancelled"
     /\ \A i \in DOMAIN rows : rows[i].predecessor # r.predecessor

Record(c, row) == ledger' = Append(ledger,
  [row |-> row, action |-> ActionOf(req[c]), actor |-> req[c].actor,
   key |-> req[c].key])

Register(c) ==
  /\ pc[c] = "waiting" /\ req[c].op = "register"
  /\ ~KeyTaken(req[c])
  /\ Open /\ FollowsFrom(req[c])
  /\ Len(rows) < MaxRows
  /\ rows' = Append(rows, [participant |-> req[c].participant,
                           predecessor |-> req[c].predecessor,
                           state |-> "registered"])
  /\ Record(c, Len(rows) + 1)
  /\ Tell(c, Done(Len(rows) + 1))
  /\ UNCHANGED <<event, req>>

\* A cancellation looks for no replay again: its insert meets the key.
Cancel(c) ==
  /\ pc[c] = "waiting" /\ req[c].op = "cancel"
  /\ Open /\ Standing(req[c].row)
  /\ IF KeyTaken(req[c])
       THEN Tell(c, Replay(req[c])) /\ UNCHANGED <<rows, ledger>>
       ELSE /\ rows' = [rows EXCEPT ![req[c].row].state = "cancelled"]
            /\ Record(c, req[c].row)
            /\ Tell(c, Done(req[c].row))
  /\ UNCHANGED <<event, req>>

\* An earlier cancellation is returned; the key is not recorded.
CancelAgain(c) ==
  /\ pc[c] = "waiting" /\ req[c].op = "cancel"
  /\ Open /\ ~Standing(req[c].row)
  /\ Tell(c, Done(req[c].row))
  /\ UNCHANGED <<event, rows, ledger, req>>

\* transition_event, under the same lock.
MoveEvent ==
  /\ \E m \in EventMoves : m.from = event /\ event' = m.to
  /\ UNCHANGED <<rows, ledger, pc, req, answer>>

RegistrationNext ==
  \/ \E c \in Caller :
       \/ \E r \in Offered : Call(c, r)
       \/ Refuse(c) \/ AnswerReplay(c)
       \/ Register(c) \/ Cancel(c) \/ CancelAgain(c)
  \/ MoveEvent

RegistrationSpec == RegistrationInit /\ [][RegistrationNext]_registrationVars

-----------------------------------------------------------------------------
\* Types; a call that waits has a request and no answer yet.
RegistrationTypeOK ==
  /\ event \in States \ {Absent}
  /\ rows \in Seq(Row) /\ Len(rows) <= MaxRows
  /\ ledger \in Seq(Entry)
  /\ pc \in [Caller -> {"idle", "waiting"}]
  /\ req \in [Caller -> Request \union {None}]
  /\ answer \in [Caller -> Answer]
  /\ \A c \in Caller : pc[c] = "waiting" =>
       /\ req[c] # None /\ answer[c] = NoAnswer
       /\ req[c].op = "cancel" => req[c].row \in DOMAIN rows

\* A participant's registrations are one line, each following the one before,
\* and all but the last are cancelled, however the calls interleave
\* ("cancellation racing re-registration serialising into one cancelled
\* predecessor and one active successor", D-S006).
OneLine == \A i \in DOMAIN rows :
  LET earlier == {j \in Of(rows[i].participant) : j < i}
  IN  /\ IF earlier = {} THEN rows[i].predecessor = 0
         ELSE rows[i].predecessor \in earlier
              /\ \A j \in earlier : j <= rows[i].predecessor
      /\ \A j \in earlier : rows[j].state = "cancelled"

\* The ledger tells the rows: a registration has one transition that made it,
\* and, once cancelled, one later transition that cancelled it.
LedgerTellsRows ==
  /\ \A i \in DOMAIN rows :
       /\ \E k \in DOMAIN ledger : ledger[k].row = i /\ ledger[k].action # "cancel"
       /\ rows[i].state = "cancelled" <=>
            \E k \in DOMAIN ledger : ledger[k].row = i /\ ledger[k].action = "cancel"
  /\ \A k \in DOMAIN ledger : /\ ledger[k].row \in DOMAIN rows
                              /\ \A j \in 1..(k - 1) : ledger[j].row = ledger[k].row =>
                                   ledger[j].action # "cancel" /\ ledger[k].action = "cancel"

\* Registrations under one actor, action and key converge on one persisted
\* result (D-S006): the key is recorded once, and whoever is told that a
\* registration is done is told the one recorded for what was asked.
RetriesConverge ==
  /\ \A j, k \in DOMAIN ledger :
       /\ ledger[j].key # None /\ ledger[j].key = ledger[k].key
       /\ ledger[j].actor = ledger[k].actor /\ ledger[j].action = ledger[k].action
       => j = k
  /\ \A c \in Caller : answer[c].result = "done" /\ req[c].op = "register" =>
       \E k \in DOMAIN ledger :
         /\ ledger[k].row = answer[c].row
         /\ ledger[k].key = req[c].key /\ ledger[k].actor = req[c].actor
         /\ ledger[k].action = ActionOf(req[c])
         /\ rows[ledger[k].row].participant = req[c].participant
         /\ rows[ledger[k].row].predecessor = req[c].predecessor
=============================================================================
