------------------------- MODULE EventJourneyProofs -------------------------
(***************************************************************************)
(* Proofs about EventRegistration and EventAttendance, for any people,     *)
(* calls, keys and bounds.                                                 *)
(*                                                                         *)
(* OneLine is not inductive: that a followed registration cannot be        *)
(* followed again needs that every registration but a person's last has a  *)
(* successor, which Followed adds.                                         *)
(***************************************************************************)
EXTENDS EventAttendance, TLAPS

Followed == \A i, j \in DOMAIN rows :
  i < j /\ rows[i].participant = rows[j].participant =>
    \E k \in DOMAIN rows : rows[k].predecessor = i

\* The two parts of RetriesConverge.
KeysOnce == \A j, k \in DOMAIN ledger :
  /\ ledger[j].key # None /\ ledger[j].key = ledger[k].key
  /\ ledger[j].actor = ledger[k].actor /\ ledger[j].action = ledger[k].action
  => j = k

RecordedAs(r, a) == \E k \in DOMAIN ledger :
  /\ ledger[k].row = a.row
  /\ ledger[k].key = r.key /\ ledger[k].actor = r.actor
  /\ ledger[k].action = ActionOf(r)
  /\ rows[ledger[k].row].participant = r.participant
  /\ rows[ledger[k].row].predecessor = r.predecessor

AnswersRecorded == \A c \in Caller :
  answer[c].result = "done" /\ req[c].op = "register" =>
    RecordedAs(req[c], answer[c])

LinesOK == /\ RegistrationTypeOK /\ OneLine /\ Followed /\ LedgerTellsRows
           /\ KeysOnce /\ AnswersRecorded

-----------------------------------------------------------------------------
LEMMA RequestFields ==
  ASSUME NEW r \in Request
  PROVE  /\ r.op \in {"register", "cancel"}
         /\ r.actor \in Participant /\ r.key \in Keyed
         /\ r.op = "register" => r.participant \in Participant /\ r.predecessor \in 0..MaxRows
         /\ r.op = "cancel" => r.row \in 1..MaxRows
         /\ r # None
         /\ ActionOf(r) \in RegistrationAction
         /\ ActionOf(r) = "cancel" <=> r.op = "cancel"
<1>1. /\ r.op \in {"register", "cancel"}
      /\ r.actor \in Participant /\ r.key \in Keyed
      /\ r.op = "register" => r.participant \in Participant /\ r.predecessor \in 0..MaxRows
      /\ r.op = "cancel" => r.row \in 1..MaxRows
      /\ r # None
  BY NoKeyAssumption DEF Request, RegisterRequest, CancelRequest
<1>2. QED
  BY <1>1 DEF ActionOf, RegistrationAction

LEMMA RowFields ==
  ASSUME RegistrationTypeOK
  PROVE  /\ Len(rows) \in 0..MaxRows /\ DOMAIN rows = 1..Len(rows)
         /\ \A i \in DOMAIN rows : /\ rows[i] \in Row
                                   /\ rows[i].participant \in Participant
                                   /\ rows[i].predecessor \in 0..MaxRows
                                   /\ rows[i].state \in {"registered", "cancelled"}
         /\ Len(ledger) \in Nat /\ DOMAIN ledger = 1..Len(ledger)
         /\ \A k \in DOMAIN ledger : /\ ledger[k] \in Entry
                                     /\ ledger[k].row \in 1..MaxRows
                                     /\ ledger[k].actor \in Participant
                                     /\ ledger[k].action \in RegistrationAction
                                     /\ ledger[k].key \in Keyed
<1>1. rows \in Seq(Row) /\ Len(rows) <= MaxRows /\ ledger \in Seq(Entry)
  BY DEF RegistrationTypeOK
<1>2. /\ Len(rows) \in 0..MaxRows /\ DOMAIN rows = 1..Len(rows)
      /\ Len(ledger) \in Nat /\ DOMAIN ledger = 1..Len(ledger)
  BY <1>1, RowsAssumption
<1>3. ASSUME NEW i \in DOMAIN rows
      PROVE  /\ rows[i] \in Row
             /\ rows[i].participant \in Participant
             /\ rows[i].predecessor \in 0..MaxRows
             /\ rows[i].state \in {"registered", "cancelled"}
  <2>1. rows[i] \in Row
    BY <1>1, <1>3
  <2>2. QED
    BY <2>1 DEF Row
<1>4. ASSUME NEW k \in DOMAIN ledger
      PROVE  /\ ledger[k] \in Entry
             /\ ledger[k].row \in 1..MaxRows
             /\ ledger[k].actor \in Participant
             /\ ledger[k].action \in RegistrationAction
             /\ ledger[k].key \in Keyed
  <2>1. ledger[k] \in Entry
    BY <1>1, <1>4
  <2>2. QED
    BY <2>1 DEF Entry
<1>5. QED
  BY <1>2, <1>3, <1>4

LEMMA Answers ==
  ASSUME NEW n \in 0..MaxRows
  PROVE  /\ NoAnswer \in Answer /\ Conflict \in Answer /\ Done(n) \in Answer
         /\ NoAnswer.result = "none" /\ Conflict.result = "conflict"
         /\ Done(n).row = n
BY RowsAssumption DEF NoAnswer, Conflict, Done, Answer

\* A replay answers with what was recorded for the request.
LEMMA Replays ==
  ASSUME RegistrationTypeOK, NEW r \in Request, Recorded(r) # {}
  PROVE  /\ Replay(r) \in Answer
         /\ Replay(r).result = "done" /\ r.op = "register" => RecordedAs(r, Replay(r))
<1> DEFINE i == CHOOSE j \in Recorded(r) : TRUE
<1>1. i \in Recorded(r)
  OBVIOUS
<1>2. i \in DOMAIN ledger /\ ledger[i].key = r.key /\ ledger[i].actor = r.actor
      /\ ledger[i].action = ActionOf(r)
  BY <1>1 DEF Recorded
<1>3. Replay(r) = IF Matches(r, i) THEN Done(ledger[i].row) ELSE Conflict
  BY DEF Replay
<1> HIDE DEF i
<1>4. ledger[i].row \in 0..MaxRows
  BY <1>2, RowFields, RowsAssumption
<1>5. /\ Conflict \in Answer /\ Conflict.result = "conflict"
      /\ Done(ledger[i].row) \in Answer /\ Done(ledger[i].row).row = ledger[i].row
  BY <1>4, Answers
<1>6. ASSUME Replay(r).result = "done", r.op = "register"
      PROVE  RecordedAs(r, Replay(r))
  <2>1. Matches(r, i) /\ Replay(r) = Done(ledger[i].row)
    BY <1>3, <1>5, <1>6
  <2>2. rows[ledger[i].row].participant = r.participant
        /\ rows[ledger[i].row].predecessor = r.predecessor
    BY <2>1, <1>6 DEF Matches, Subject
  <2>3. QED
    BY <1>2, <1>5, <2>1, <2>2 DEF RecordedAs
<1>7. QED
  BY <1>3, <1>5, <1>6

\* A step that leaves registrations and ledger alone.
LEMMA LinesStay ==
  ASSUME LinesOK, UNCHANGED <<rows, ledger>>, RegistrationTypeOK',
         \A c \in Caller : answer'[c].result = "done" /\ req'[c].op = "register" =>
           RecordedAs(req'[c], answer'[c])
  PROVE  LinesOK'
<1>1. OneLine' /\ Followed' /\ LedgerTellsRows' /\ KeysOnce'
  BY DEF LinesOK, OneLine, Of, Followed, LedgerTellsRows, KeysOnce
<1>2. AnswersRecorded'
  BY DEF AnswersRecorded, RecordedAs
<1>3. QED
  BY <1>1, <1>2 DEF LinesOK

\* A call that is told something by a step that changes no registration.
LEMMA Tells ==
  ASSUME LinesOK, UNCHANGED <<event, rows, ledger>>, NEW c \in Caller, NEW a \in Answer,
         Tell(c, a),
         req' \in [Caller -> Request \union {None}],
         \A d \in Caller : d # c => req'[d] = req[d],
         a.result = "done" /\ req'[c].op = "register" => RecordedAs(req'[c], a)
  PROVE  LinesOK'
<1>1. /\ pc' = [pc EXCEPT ![c] = "idle"] /\ answer' = [answer EXCEPT ![c] = a]
  BY DEF Tell
<1>2. RegistrationTypeOK'
  BY <1>1 DEF LinesOK, RegistrationTypeOK
<1>3. ASSUME NEW d \in Caller, answer'[d].result = "done", req'[d].op = "register"
      PROVE  RecordedAs(req'[d], answer'[d])
  <2>1. CASE d = c
    BY <1>1, <1>3, <2>1 DEF LinesOK, RegistrationTypeOK
  <2>2. CASE d # c
    BY <1>1, <1>3, <2>2 DEF LinesOK, RegistrationTypeOK, AnswersRecorded
  <2>3. QED
    BY <2>1, <2>2
<1>4. QED
  BY <1>2, <1>3, LinesStay

\* The transition a call appends.
Appended(c, row) == [row |-> row, action |-> ActionOf(req[c]), actor |-> req[c].actor,
                     key |-> req[c].key]

\* What Register and Cancel have in common: a transition of a row with a new
\* key, rows that keep their participants and predecessors.
LEMMA Records ==
  ASSUME LinesOK, NEW c \in Caller, NEW n \in 1..MaxRows,
         pc[c] = "waiting", ~KeyTaken(req[c]),
         Record(c, n), Tell(c, Done(n)), UNCHANGED <<event, req>>,
         rows' \in Seq(Row), Len(rows') <= MaxRows, n \in DOMAIN rows',
         \A i \in DOMAIN rows : /\ i \in DOMAIN rows'
                                /\ rows'[i].participant = rows[i].participant
                                /\ rows'[i].predecessor = rows[i].predecessor,
         req[c].op = "register" => /\ rows'[n].participant = req[c].participant
                                   /\ rows'[n].predecessor = req[c].predecessor
  PROVE  /\ RegistrationTypeOK' /\ KeysOnce' /\ AnswersRecorded'
         /\ DOMAIN ledger' = 1..(Len(ledger) + 1)
         /\ ledger'[Len(ledger) + 1] = Appended(c, n)
         /\ \A k \in DOMAIN ledger : ledger'[k] = ledger[k]
         /\ Appended(c, n).row = n
         /\ Appended(c, n).action = "cancel" <=> req[c].op = "cancel"
<1> DEFINE e == Appended(c, n)
           a == Done(n)
<1>1. /\ pc' = [pc EXCEPT ![c] = "idle"] /\ answer' = [answer EXCEPT ![c] = a]
      /\ ledger' = Append(ledger, e)
  BY DEF Tell, Record, Appended
<1>2. req[c] \in Request
  BY DEF LinesOK, RegistrationTypeOK
<1>3. /\ e.row = n /\ e.action = ActionOf(req[c]) /\ e.actor = req[c].actor
      /\ e.key = req[c].key /\ e \in Entry
  BY <1>2, RequestFields DEF Appended, Entry
<1>4. a \in Answer /\ a.row = n
  BY Answers, RowsAssumption
<1> HIDE DEF e, a
<1>5. /\ ledger' \in Seq(Entry) /\ DOMAIN ledger' = 1..(Len(ledger) + 1)
      /\ ledger'[Len(ledger) + 1] = e
      /\ \A k \in DOMAIN ledger : ledger'[k] = ledger[k]
      /\ Len(ledger) \in Nat /\ DOMAIN ledger = 1..Len(ledger)
  BY <1>1, <1>3, RowFields DEF LinesOK, RegistrationTypeOK
<1>6. RegistrationTypeOK'
  BY <1>1, <1>4, <1>5 DEF LinesOK, RegistrationTypeOK
<1>7. KeysOnce'
  <2> SUFFICES ASSUME NEW j \in DOMAIN ledger', NEW k \in DOMAIN ledger', j < k,
                      ledger'[j].key # None, ledger'[j].key = ledger'[k].key,
                      ledger'[j].actor = ledger'[k].actor,
                      ledger'[j].action = ledger'[k].action
               PROVE  FALSE
    BY <1>5 DEF KeysOnce
  <2>1. j \in DOMAIN ledger /\ ledger'[j] = ledger[j]
    BY <1>5
  <2>2. CASE k \in DOMAIN ledger
    <3>1. ledger'[k] = ledger[k]
      BY <1>5, <2>2
    <3>2. j = k
      BY <2>1, <2>2, <3>1 DEF LinesOK, KeysOnce
    <3>3. QED
      BY <3>2, <1>5
  <2>3. CASE k = Len(ledger) + 1
    <3>1. j \in Recorded(req[c])
      BY <1>3, <1>5, <2>1, <2>3 DEF Recorded
    <3>2. QED
      BY <3>1 DEF KeyTaken
  <2>4. QED
    BY <1>5, <2>2, <2>3
<1>8. AnswersRecorded'
  <2> DEFINE Kept(r, b) == \E k \in DOMAIN ledger' :
        /\ ledger'[k].row = b.row
        /\ ledger'[k].key = r.key /\ ledger'[k].actor = r.actor
        /\ ledger'[k].action = ActionOf(r)
        /\ rows'[ledger'[k].row].participant = r.participant
        /\ rows'[ledger'[k].row].predecessor = r.predecessor
  <2>1. ASSUME NEW d \in Caller, answer'[d].result = "done", req'[d].op = "register"
        PROVE  Kept(req'[d], answer'[d])
    <3>1. CASE d = c
      <4>1. answer'[d] = a /\ req'[d] = req[c]
        BY <1>1, <3>1 DEF LinesOK, RegistrationTypeOK
      <4>2. Len(ledger) + 1 \in DOMAIN ledger' /\ ledger'[Len(ledger) + 1] = e
        BY <1>5
      <4>3. QED
        BY <1>3, <1>4, <2>1, <4>1, <4>2
    <3>2. CASE d # c
      <4>1. answer'[d] = answer[d] /\ req'[d] = req[d]
        BY <1>1, <3>2 DEF LinesOK, RegistrationTypeOK
      <4>2. RecordedAs(req[d], answer[d])
        BY <2>1, <4>1 DEF LinesOK, AnswersRecorded
      <4>3. PICK k \in DOMAIN ledger :
              /\ ledger[k].row = answer[d].row
              /\ ledger[k].key = req[d].key /\ ledger[k].actor = req[d].actor
              /\ ledger[k].action = ActionOf(req[d])
              /\ rows[ledger[k].row].participant = req[d].participant
              /\ rows[ledger[k].row].predecessor = req[d].predecessor
        BY <4>2 DEF RecordedAs
      <4>4. ledger[k].row \in DOMAIN rows
        BY DEF LinesOK, LedgerTellsRows
      <4>5. k \in DOMAIN ledger' /\ ledger'[k] = ledger[k]
        BY <1>5
      <4>6. QED
        BY <4>1, <4>3, <4>4, <4>5
    <3>3. QED
      BY <3>1, <3>2
  <2>2. QED
    BY <2>1 DEF AnswersRecorded, RecordedAs, ActionOf
<1>9. QED
  BY <1>3, <1>5, <1>6, <1>7, <1>8, <1>2, RequestFields DEF e

\* The registration a new one follows is the last of its participant's line,
\* and the line is cancelled as a whole.
LEMMA LineEnds ==
  ASSUME RegistrationTypeOK, OneLine, Followed, NEW r \in RegisterRequest, FollowsFrom(r)
  PROVE  /\ \A j \in Of(r.participant) : /\ j <= r.predecessor
                                         /\ rows[j].state = "cancelled"
         /\ IF Of(r.participant) = {} THEN r.predecessor = 0
            ELSE r.predecessor \in Of(r.participant)
<1>1. DOMAIN rows = 1..Len(rows) /\ Len(rows) \in Nat
  BY RowFields, RowsAssumption
<1>2. CASE r.predecessor \in Of(r.participant)
  <2>1. /\ rows[r.predecessor].state = "cancelled" /\ r.predecessor \in DOMAIN rows
        /\ \A i \in DOMAIN rows : rows[i].predecessor # r.predecessor
    BY <1>1, <1>2 DEF FollowsFrom, Of
  <2>2. ASSUME NEW j \in Of(r.participant)
        PROVE  j <= r.predecessor /\ rows[j].state = "cancelled"
    <3>1. j \in DOMAIN rows /\ rows[j].participant = rows[r.predecessor].participant
      BY <1>2, <2>2 DEF Of
    <3>2. ~(r.predecessor < j)
      BY <2>1, <3>1 DEF Followed
    <3>3. j < r.predecessor => rows[j].state = "cancelled"
      BY <2>1, <3>1 DEF OneLine, Of
    <3>4. QED
      BY <1>1, <2>1, <3>1, <3>2, <3>3
  <2>3. QED
    BY <1>2, <2>2
<1>3. CASE r.predecessor = 0 /\ Of(r.participant) = {}
  BY <1>3
<1>4. QED
  BY <1>2, <1>3 DEF FollowsFrom

LEMMA Registers ==
  ASSUME LinesOK, NEW c \in Caller, Register(c)
  PROVE  LinesOK'
<1> DEFINE r == req[c]
           n == Len(rows) + 1
           new == [participant |-> r.participant, predecessor |-> r.predecessor,
                   state |-> "registered"]
<1>1. /\ r \in RegisterRequest /\ r.op = "register"
      /\ r.participant \in Participant /\ r.predecessor \in 0..MaxRows
  BY DEF LinesOK, RegistrationTypeOK, Register, Request, RegisterRequest, CancelRequest
<1>2. /\ Len(rows) \in Nat /\ MaxRows \in Nat /\ Len(rows) < MaxRows
      /\ DOMAIN rows = 1..Len(rows) /\ rows \in Seq(Row)
      /\ n \in 1..MaxRows /\ n \notin DOMAIN rows
  BY RowFields, RowsAssumption DEF LinesOK, RegistrationTypeOK, Register
<1>3. rows' = Append(rows, new)
  BY DEF Register
<1>4. /\ new \in Row /\ new.participant = r.participant
      /\ new.predecessor = r.predecessor /\ new.state = "registered"
  BY <1>1 DEF Row
<1> HIDE DEF new
<1>5. /\ rows' \in Seq(Row) /\ DOMAIN rows' = 1..n /\ Len(rows') = n
      /\ rows'[n] = new /\ n \in DOMAIN rows'
      /\ \A i \in DOMAIN rows : i \in DOMAIN rows' /\ rows'[i] = rows[i]
  BY <1>2, <1>3, <1>4
<1>6. /\ pc[c] = "waiting" /\ ~KeyTaken(r) /\ Record(c, n) /\ Tell(c, Done(n))
      /\ UNCHANGED <<event, req>> /\ FollowsFrom(r)
  BY DEF Register
<1> HIDE DEF r, n
<1>7. /\ RegistrationTypeOK' /\ KeysOnce' /\ AnswersRecorded'
      /\ DOMAIN ledger' = 1..(Len(ledger) + 1)
      /\ ledger'[Len(ledger) + 1] = Appended(c, n)
      /\ \A k \in DOMAIN ledger : ledger'[k] = ledger[k]
      /\ Appended(c, n).row = n
      /\ Appended(c, n).action # "cancel"
  BY <1>1, <1>2, <1>4, <1>5, <1>6, Records DEF r
<1>8. /\ \A j \in DOMAIN rows : rows[j].participant = r.participant =>
           j <= r.predecessor /\ rows[j].state = "cancelled"
      /\ \/ r.predecessor = 0 /\ \A j \in DOMAIN rows : rows[j].participant # r.participant
         \/ r.predecessor \in DOMAIN rows /\ rows[r.predecessor].participant = r.participant
  BY <1>1, <1>6, LineEnds DEF LinesOK, Of
<1>9. OneLine'
  <2> SUFFICES ASSUME NEW i \in DOMAIN rows'
               PROVE  LET earlier == {j \in DOMAIN rows' :
                                        rows'[j].participant = rows'[i].participant /\ j < i}
                      IN  /\ IF earlier = {} THEN rows'[i].predecessor = 0
                             ELSE rows'[i].predecessor \in earlier
                                  /\ \A j \in earlier : j <= rows'[i].predecessor
                          /\ \A j \in earlier : rows'[j].state = "cancelled"
    BY DEF OneLine, Of
  <2> DEFINE earlier == {j \in DOMAIN rows' :
                           rows'[j].participant = rows'[i].participant /\ j < i}
             before == {j \in DOMAIN rows :
                           rows[j].participant = rows'[i].participant /\ j < i}
  <2>1. earlier = before
    BY <1>2, <1>5 DEF n
  <2>2. CASE i \in DOMAIN rows
    <3>1. /\ IF before = {} THEN rows[i].predecessor = 0
             ELSE rows[i].predecessor \in before
                  /\ \A j \in before : j <= rows[i].predecessor
          /\ \A j \in before : rows[j].state = "cancelled"
      BY <1>5, <2>2 DEF LinesOK, OneLine, Of
    <3>2. rows'[i] = rows[i] /\ \A j \in before : rows'[j] = rows[j]
      BY <1>5, <2>2
    <3>3. QED
      BY <2>1, <3>1, <3>2
  <2>3. CASE i = n
    <3>1. before = {j \in DOMAIN rows : rows[j].participant = r.participant}
      BY <1>2, <1>4, <1>5, <2>3 DEF n
    <3>2. \A j \in before : rows'[j] = rows[j]
      BY <1>5
    <3>3. QED
      BY <1>4, <1>5, <1>8, <2>1, <2>3, <3>1, <3>2
  <2>4. QED
    BY <1>2, <1>5, <2>2, <2>3 DEF n
<1>10. Followed'
  <2> SUFFICES ASSUME NEW i \in DOMAIN rows', NEW j \in DOMAIN rows', i < j,
                      rows'[i].participant = rows'[j].participant
               PROVE  \E k \in DOMAIN rows' : rows'[k].predecessor = i
    BY DEF Followed
  <2>1. i \in DOMAIN rows /\ rows'[i] = rows[i]
    BY <1>2, <1>5 DEF n
  <2>2. ASSUME NEW m \in DOMAIN rows, i < m, rows[m].participant = rows[i].participant
        PROVE  \E k \in DOMAIN rows' : rows'[k].predecessor = i
    <3>1. PICK k \in DOMAIN rows : rows[k].predecessor = i
      BY <2>1, <2>2 DEF LinesOK, Followed
    <3>2. QED
      BY <1>5, <3>1
  <2>3. CASE j \in DOMAIN rows
    BY <1>5, <2>1, <2>2, <2>3
  <2>4. CASE j = n
    <3>1. rows[i].participant = r.participant
      BY <1>4, <1>5, <2>1, <2>4
    <3>2. i <= r.predecessor /\ r.predecessor \in DOMAIN rows
          /\ rows[r.predecessor].participant = r.participant
      BY <1>8, <2>1, <3>1
    <3>3. CASE i = r.predecessor
      BY <1>4, <1>5, <3>3
    <3>4. CASE i < r.predecessor
      BY <2>2, <3>1, <3>2, <3>4
    <3>5. QED
      BY <1>2, <2>1, <3>2, <3>3, <3>4
  <2>5. QED
    BY <1>2, <1>5, <2>3, <2>4 DEF n
<1>11. LedgerTellsRows'
  <2> DEFINE l == Len(ledger) + 1
             e == Appended(c, n)
  <2>1. /\ Len(ledger) \in Nat /\ DOMAIN ledger = 1..Len(ledger) /\ l \notin DOMAIN ledger
        /\ DOMAIN ledger' = 1..l /\ l \in DOMAIN ledger' /\ ledger'[l] = e
        /\ e.row = n /\ e.action # "cancel"
    BY <1>7, RowFields DEF LinesOK
  <2> HIDE DEF l, e
  <2>2. \A k \in DOMAIN ledger : /\ ledger[k].row \in DOMAIN rows /\ ledger[k].row # n
                                 /\ k \in DOMAIN ledger' /\ ledger'[k] = ledger[k]
                                 /\ \A j \in 1..(k - 1) : ledger[j].row = ledger[k].row =>
                                      ledger[j].action # "cancel" /\ ledger[k].action = "cancel"
    BY <1>2, <1>7, <2>1 DEF LinesOK, LedgerTellsRows, l
  <2>3. ASSUME NEW i \in DOMAIN rows'
        PROVE  /\ \E k \in DOMAIN ledger' : ledger'[k].row = i /\ ledger'[k].action # "cancel"
               /\ rows'[i].state = "cancelled" <=>
                    \E k \in DOMAIN ledger' : ledger'[k].row = i /\ ledger'[k].action = "cancel"
    <3>1. CASE i \in DOMAIN rows
      <4>1. /\ \E k \in DOMAIN ledger : ledger[k].row = i /\ ledger[k].action # "cancel"
            /\ rows[i].state = "cancelled" <=>
                 \E k \in DOMAIN ledger : ledger[k].row = i /\ ledger[k].action = "cancel"
        BY <3>1 DEF LinesOK, LedgerTellsRows
      <4>2. rows'[i] = rows[i] /\ i # n
        BY <1>2, <1>5, <3>1
      <4>3. \A k \in DOMAIN ledger' : k = l \/ k \in DOMAIN ledger
        BY <2>1 DEF l
      <4>4. QED
        BY <2>1, <2>2, <4>1, <4>2, <4>3
    <3>2. CASE i = n
      <4>1. \A k \in DOMAIN ledger' : ledger'[k].row = n => k = l
        BY <2>1, <2>2 DEF l
      <4>2. rows'[i].state = "registered"
        BY <1>4, <1>5, <3>2
      <4>3. QED
        BY <2>1, <3>2, <4>1, <4>2
    <3>3. QED
      BY <1>2, <1>5, <3>1, <3>2 DEF n
  <2>4. ASSUME NEW k \in DOMAIN ledger'
        PROVE  /\ ledger'[k].row \in DOMAIN rows'
               /\ \A j \in 1..(k - 1) : ledger'[j].row = ledger'[k].row =>
                    ledger'[j].action # "cancel" /\ ledger'[k].action = "cancel"
    <3>1. CASE k \in DOMAIN ledger
      <4>1. \A j \in 1..(k - 1) : j \in DOMAIN ledger
        BY <2>1, <3>1
      <4>2. QED
        BY <1>5, <2>2, <3>1, <4>1
    <3>2. CASE k = l
      <4>1. \A j \in 1..(k - 1) : j \in DOMAIN ledger
        BY <2>1, <3>2 DEF l
      <4>2. \A j \in 1..(k - 1) : ledger'[j].row # n
        BY <2>2, <4>1
      <4>3. QED
        BY <1>5, <2>1, <3>2, <4>2
    <3>3. QED
      BY <2>1, <3>1, <3>2 DEF l
  <2>5. QED
    BY <2>3, <2>4 DEF LedgerTellsRows
<1>12. QED
  BY <1>7, <1>9, <1>10, <1>11 DEF LinesOK

LEMMA Cancels ==
  ASSUME LinesOK, NEW c \in Caller, Cancel(c), ~KeyTaken(req[c])
  PROVE  LinesOK'
<1> DEFINE n == req[c].row
           gone == [rows[n] EXCEPT !.state = "cancelled"]
<1>1. /\ pc[c] = "waiting" /\ req[c].op = "cancel" /\ rows[n].state = "registered"
      /\ Record(c, n) /\ Tell(c, Done(n)) /\ UNCHANGED <<event, req>>
      /\ rows' = [rows EXCEPT ![n] = gone]
  BY DEF Cancel, Standing
<1>2. /\ n \in DOMAIN rows /\ DOMAIN rows = 1..Len(rows) /\ Len(rows) \in 0..MaxRows
      /\ rows \in Seq(Row) /\ rows[n] \in Row /\ MaxRows \in Nat
  BY <1>1, RowFields, RowsAssumption DEF LinesOK, RegistrationTypeOK
<1>3. /\ gone \in Row /\ gone.state = "cancelled"
      /\ gone.participant = rows[n].participant
      /\ gone.predecessor = rows[n].predecessor
  BY <1>2 DEF Row
<1> HIDE DEF n, gone
<1>4. /\ rows' \in Seq(Row) /\ DOMAIN rows' = DOMAIN rows /\ Len(rows') = Len(rows)
      /\ rows'[n] = gone
      /\ \A i \in DOMAIN rows : i # n => rows'[i] = rows[i]
  BY <1>1, <1>2, <1>3
<1>5. \A i \in DOMAIN rows : /\ rows'[i].participant = rows[i].participant
                             /\ rows'[i].predecessor = rows[i].predecessor
                             /\ rows[i].state = "cancelled" => rows'[i].state = "cancelled"
  BY <1>3, <1>4
<1>6. /\ RegistrationTypeOK' /\ KeysOnce' /\ AnswersRecorded'
      /\ DOMAIN ledger' = 1..(Len(ledger) + 1)
      /\ ledger'[Len(ledger) + 1] = Appended(c, n)
      /\ \A k \in DOMAIN ledger : ledger'[k] = ledger[k]
      /\ Appended(c, n).row = n
      /\ Appended(c, n).action = "cancel"
  <2>1. n \in 1..MaxRows /\ Len(rows') <= MaxRows
    BY <1>2, <1>4
  <2>2. QED
    BY <1>1, <1>2, <1>4, <1>5, <2>1, Records
<1>7. OneLine' /\ Followed'
  <2>1. Followed'
    BY <1>4, <1>5 DEF LinesOK, Followed
  <2>2. ASSUME NEW i \in DOMAIN rows
        PROVE  {j \in DOMAIN rows' : rows'[j].participant = rows'[i].participant /\ j < i}
               = {j \in DOMAIN rows : rows[j].participant = rows[i].participant /\ j < i}
    BY <1>4, <1>5, <2>2
  <2>3. ASSUME NEW i \in DOMAIN rows
        PROVE  LET earlier == {j \in DOMAIN rows :
                                 rows[j].participant = rows[i].participant /\ j < i}
               IN  /\ IF earlier = {} THEN rows'[i].predecessor = 0
                      ELSE rows'[i].predecessor \in earlier
                           /\ \A j \in earlier : j <= rows'[i].predecessor
                   /\ \A j \in earlier : rows'[j].state = "cancelled"
    BY <1>5, <2>3 DEF LinesOK, OneLine, Of
  <2>4. OneLine'
    BY <1>4, <2>2, <2>3 DEF OneLine, Of
  <2>5. QED
    BY <2>1, <2>4
<1>8. LedgerTellsRows'
  <2> DEFINE l == Len(ledger) + 1
             e == Appended(c, n)
  <2>1. /\ Len(ledger) \in Nat /\ DOMAIN ledger = 1..Len(ledger) /\ l \notin DOMAIN ledger
        /\ DOMAIN ledger' = 1..l /\ l \in DOMAIN ledger' /\ ledger'[l] = e
        /\ e.row = n /\ e.action = "cancel"
    BY <1>6, RowFields DEF LinesOK
  <2>2. \A k \in DOMAIN ledger' : k = l \/ k \in DOMAIN ledger
    BY <2>1
  <2> HIDE DEF l, e
  <2>3. \A k \in DOMAIN ledger : /\ ledger[k].row \in DOMAIN rows
                                 /\ k \in DOMAIN ledger' /\ ledger'[k] = ledger[k]
                                 /\ \A j \in 1..(k - 1) : ledger[j].row = ledger[k].row =>
                                      ledger[j].action # "cancel" /\ ledger[k].action = "cancel"
    BY <1>6, <2>1 DEF LinesOK, LedgerTellsRows, l
  <2>4. \A k \in DOMAIN ledger : ledger[k].row = n => ledger[k].action # "cancel"
    BY <1>1, <1>2 DEF LinesOK, LedgerTellsRows, n
  <2>5. ASSUME NEW i \in DOMAIN rows
        PROVE  /\ \E k \in DOMAIN ledger' : ledger'[k].row = i /\ ledger'[k].action # "cancel"
               /\ rows'[i].state = "cancelled" <=>
                    \E k \in DOMAIN ledger' : ledger'[k].row = i /\ ledger'[k].action = "cancel"
    <3>1. /\ \E k \in DOMAIN ledger : ledger[k].row = i /\ ledger[k].action # "cancel"
          /\ rows[i].state = "cancelled" <=>
               \E k \in DOMAIN ledger : ledger[k].row = i /\ ledger[k].action = "cancel"
      BY <2>5 DEF LinesOK, LedgerTellsRows
    <3>2. CASE i = n
      BY <1>3, <1>4, <2>1, <2>3, <3>1, <3>2
    <3>3. CASE i # n
      BY <1>4, <2>1, <2>2, <2>3, <3>1, <3>3
    <3>4. QED
      BY <3>2, <3>3
  <2>6. ASSUME NEW k \in DOMAIN ledger'
        PROVE  /\ ledger'[k].row \in DOMAIN rows'
               /\ \A j \in 1..(k - 1) : ledger'[j].row = ledger'[k].row =>
                    ledger'[j].action # "cancel" /\ ledger'[k].action = "cancel"
    <3>1. CASE k \in DOMAIN ledger
      <4>1. \A j \in 1..(k - 1) : j \in DOMAIN ledger
        BY <2>1, <3>1
      <4>2. QED
        BY <1>4, <2>3, <3>1, <4>1
    <3>2. CASE k = l
      <4>1. \A j \in 1..(k - 1) : j \in DOMAIN ledger
        BY <2>1, <3>2 DEF l
      <4>2. QED
        BY <1>2, <1>4, <2>1, <2>3, <2>4, <3>2, <4>1
    <3>3. QED
      BY <2>2, <3>1, <3>2
  <2>7. QED
    BY <1>4, <2>5, <2>6 DEF LedgerTellsRows
<1>9. QED
  BY <1>6, <1>7, <1>8 DEF LinesOK

LEMMA Calls ==
  ASSUME LinesOK, NEW c \in Caller, NEW r \in Offered, Call(c, r)
  PROVE  LinesOK'
<1>1. r \in Request /\ r # None
  BY OfferedAssumption, RequestFields
<1>2. /\ req' = [req EXCEPT ![c] = r] /\ UNCHANGED <<event, rows, ledger>>
      /\ pc[c] = "idle" /\ (r.op = "cancel" => r.row \in DOMAIN rows)
  BY DEF Call
<1>3. /\ req' \in [Caller -> Request \union {None}] /\ req'[c] = r
      /\ \A d \in Caller : d # c => req'[d] = req[d]
  BY <1>1, <1>2 DEF LinesOK, RegistrationTypeOK
<1>4. CASE Recorded(r) # {}
  <2>1. Tell(c, Replay(r))
    BY <1>4 DEF Call
  <2>2. Replay(r) \in Answer
        /\ (Replay(r).result = "done" /\ r.op = "register" => RecordedAs(r, Replay(r)))
    BY <1>1, <1>4, Replays DEF LinesOK
  <2>3. QED
    BY <1>2, <1>3, <2>1, <2>2, Tells
<1>5. CASE Recorded(r) = {}
  <2>1. /\ pc' = [pc EXCEPT ![c] = "waiting"]
        /\ answer' = [answer EXCEPT ![c] = NoAnswer]
    BY <1>5 DEF Call
  <2>2. NoAnswer \in Answer /\ NoAnswer.result = "none"
    BY Answers, RowsAssumption
  <2>3. RegistrationTypeOK'
    BY <1>1, <1>2, <1>3, <2>1, <2>2 DEF LinesOK, RegistrationTypeOK
  <2>4. \A d \in Caller : answer'[d].result = "done" /\ req'[d].op = "register" =>
          RecordedAs(req'[d], answer'[d])
    BY <1>3, <2>1, <2>2 DEF LinesOK, RegistrationTypeOK, AnswersRecorded
  <2>5. QED
    BY <1>2, <2>3, <2>4, LinesStay
<1>6. QED
  BY <1>4, <1>5

LEMMA MovesEvent ==
  ASSUME LinesOK, MoveEvent
  PROVE  LinesOK'
<1>1. PICK m \in EventMoves : event' = m.to
  BY DEF MoveEvent
<1>2. event' \in States \ {Absent}
  BY <1>1 DEF EventMoves, Step, States, Absent
<1>3. UNCHANGED <<rows, ledger, pc, req, answer>>
  BY DEF MoveEvent
<1>4. RegistrationTypeOK'
  BY <1>2, <1>3 DEF LinesOK, RegistrationTypeOK
<1>5. QED
  BY <1>3, <1>4, LinesStay DEF LinesOK, AnswersRecorded

LEMMA LinesInitially == RegistrationInit => LinesOK
<1> SUFFICES ASSUME RegistrationInit PROVE LinesOK
  OBVIOUS
<1>1. NoAnswer \in Answer /\ NoAnswer.result = "none"
  BY Answers, RowsAssumption
<1>2. RegistrationTypeOK
  BY <1>1, RowsAssumption DEF RegistrationInit, RegistrationTypeOK, States, Absent
<1>3. OneLine /\ Followed /\ LedgerTellsRows /\ KeysOnce
  BY DEF RegistrationInit, OneLine, Followed, LedgerTellsRows, KeysOnce
<1>4. AnswersRecorded
  BY <1>1 DEF RegistrationInit, AnswersRecorded
<1>5. QED
  BY <1>2, <1>3, <1>4 DEF LinesOK

LEMMA LinesStep == LinesOK /\ [RegistrationNext]_registrationVars => LinesOK'
<1> SUFFICES ASSUME LinesOK, [RegistrationNext]_registrationVars PROVE LinesOK'
  OBVIOUS
<1>1. ASSUME NEW c \in Caller, Refuse(c) PROVE LinesOK'
  <2>1. NoAnswer \in Answer /\ NoAnswer.result = "none"
    BY Answers, RowsAssumption
  <2>2. QED
    BY <1>1, <2>1, Tells DEF Refuse, LinesOK, RegistrationTypeOK
<1>2. ASSUME NEW c \in Caller, pc[c] = "waiting", KeyTaken(req[c]), Tell(c, Replay(req[c])),
             UNCHANGED <<event, rows, ledger, req>>
      PROVE  LinesOK'
  <2>1. req[c] \in Request /\ req \in [Caller -> Request \union {None}]
    BY <1>2 DEF LinesOK, RegistrationTypeOK
  <2>2. Replay(req[c]) \in Answer
        /\ (Replay(req[c]).result = "done" /\ req[c].op = "register" =>
              RecordedAs(req[c], Replay(req[c])))
    BY <1>2, <2>1, Replays DEF LinesOK, KeyTaken
  <2>3. QED
    BY <1>2, <2>1, <2>2, Tells
<1>3. ASSUME NEW c \in Caller, AnswerReplay(c) PROVE LinesOK'
  BY <1>2, <1>3 DEF AnswerReplay
<1>4. ASSUME NEW c \in Caller, Cancel(c) PROVE LinesOK'
  <2>1. CASE KeyTaken(req[c])
    BY <1>2, <1>4, <2>1 DEF Cancel
  <2>2. QED
    BY <1>4, <2>1, Cancels
<1>5. ASSUME NEW c \in Caller, CancelAgain(c) PROVE LinesOK'
  <2>1. req \in [Caller -> Request \union {None}] /\ req[c].op = "cancel"
        /\ req[c].row \in DOMAIN rows
    BY <1>5 DEF LinesOK, RegistrationTypeOK, CancelAgain
  <2>2. Done(req[c].row) \in Answer
    BY <2>1, Answers, RowFields, RowsAssumption DEF LinesOK
  <2>3. QED
    BY <1>5, <2>1, <2>2, Tells DEF CancelAgain
<1>6. CASE UNCHANGED registrationVars
  <2>1. RegistrationTypeOK'
    BY <1>6 DEF registrationVars, LinesOK, RegistrationTypeOK
  <2>2. QED
    BY <1>6, <2>1, LinesStay DEF registrationVars, LinesOK, AnswersRecorded
<1>7. QED
  BY <1>1, <1>3, <1>4, <1>5, <1>6, Calls, Registers, MovesEvent DEF RegistrationNext

\* The journeys of an Event with attendance are among those of its
\* registrations alone.
LEMMA WithAttendance == Spec => RegistrationSpec
<1>1. Init => RegistrationInit
  BY DEF Init
<1>2. [Next]_vars => [RegistrationNext]_registrationVars
  BY DEF Next, vars, registrationVars
<1>3. QED
  BY <1>1, <1>2, PTL DEF Spec, RegistrationSpec

\* The inductive invariant of the registrations, for any calls and requests.
THEOREM LinesInvariance == RegistrationSpec => []LinesOK
<1>1. QED
  BY LinesInitially, LinesStep, PTL DEF RegistrationSpec

\* What register and cancel leave behind is well typed and a waiting call has no
\* answer yet.
THEOREM RegistrationTypes == RegistrationSpec => []RegistrationTypeOK
<1>1. LinesOK => RegistrationTypeOK
  BY DEF LinesOK
<1>2. QED
  BY <1>1, LinesInvariance, PTL

\* However registrations, cancellations and re-registrations interleave, a
\* participant's registrations are one line with one end.
THEOREM RegistrationsAreLines == RegistrationSpec => []OneLine
<1>1. LinesOK => OneLine
  BY DEF LinesOK
<1>2. QED
  BY <1>1, LinesInvariance, PTL

\* The transitions that register and cancel append tell the state of every row.
THEOREM LedgerFaithful == RegistrationSpec => []LedgerTellsRows
<1>1. LinesOK => LedgerTellsRows
  BY DEF LinesOK
<1>2. QED
  BY <1>1, LinesInvariance, PTL

\* A key is recorded once, and whoever retries under it is told the one result.
THEOREM RetriesAgree == RegistrationSpec => []RetriesConverge
<1>1. LinesOK => RetriesConverge
  BY DEF LinesOK, KeysOnce, AnswersRecorded, RecordedAs, RetriesConverge
<1>2. QED
  BY <1>1, LinesInvariance, PTL

-----------------------------------------------------------------------------
\* Whether the attendance rests on a registration tells how it was recorded.
OriginTells == attendance # None =>
  (attendance.fact.registration = 0 <=> attendance.origin = "walk_in")

TracesOnce == \A i, j \in DOMAIN trail :
  /\ trail[i].key = trail[j].key /\ trail[i].actor = trail[j].actor
  /\ trail[i].action = trail[j].action
  => i = j

\* Recording and correcting compare what they result in.
ComparedTells == \A i \in DOMAIN trail :
  /\ trail[i].action = "record" =>
       trail[i].compared = [at |-> None, registration |-> trail[i].result.registration]
  /\ trail[i].action = "correct" => trail[i].compared = trail[i].result

\* The answers of the desks: what DoneIsRecorded and RequestConflictIsTrue say
\* of them, and that a conflict is one with a recorded transition.
RepliesRecorded == \A d \in Desk :
  /\ told[d] = "done" => \E i \in TracesOf(asked[d]) : ~Differs(asked[d], i)
  /\ told[d] = "conflict" =>
       /\ TracesOf(asked[d]) # {}
       /\ asked[d].op \in {"record", "correct"} =>
            \A i \in TracesOf(asked[d]) : Differs(asked[d], i)

DeskOK == /\ AttendanceTypeOK /\ StatusesAreALife /\ OriginTells
          /\ TracesOnce /\ ComparedTells /\ RepliesRecorded

LEMMA AskedFields ==
  ASSUME NEW r \in AttendanceRequest
  PROVE  /\ r.op \in {"record", "correct", "void", "reinstate"}
         /\ r.actor \in Staff /\ r.key \in Key /\ r.content \in Content
         /\ r.op \in {"record", "correct"} => r.at \in Time /\ r.registration \in 0..MaxRows
         /\ r # None
BY NoRecordAssumption DEF AttendanceRequest, RecordRequest, CorrectRequest, StatusRequest

LEMMA AttendanceFields ==
  ASSUME AttendanceTypeOK
  PROVE  /\ attendance # None => /\ attendance.status \in {"present", "voided"}
                                 /\ attendance.origin \in {"registered", "walk_in"}
                                 /\ attendance.fact \in Fact
                                 /\ attendance.fact.at \in Time
                                 /\ attendance.fact.registration \in 0..MaxRows
         /\ Now \in Facts
<1>1. attendance # None => attendance \in Attendance
  BY DEF AttendanceTypeOK
<1>2. attendance # None => /\ attendance.status \in {"present", "voided"}
                           /\ attendance.origin \in {"registered", "walk_in"}
                           /\ attendance.fact \in Fact
  BY <1>1 DEF Attendance
<1>3. attendance # None => /\ attendance.fact.at \in Time
                           /\ attendance.fact.registration \in 0..MaxRows
                           /\ attendance.fact \in Facts
  BY <1>2 DEF Fact, Facts
<1>4. Unrecorded \in Facts
  BY RowsAssumption DEF Unrecorded, Facts
<1>5. QED
  BY <1>2, <1>3, <1>4 DEF Now

\* A replay answers a recording or a correction with what was recorded for it.
LEMMA ReplayTells ==
  ASSUME DeskOK, NEW r \in AttendanceRequest, TracesOf(r) # {}
  PROVE  /\ ReplayOf(r) \in {"done", "conflict"}
         /\ ReplayOf(r) = "done" => \E i \in TracesOf(r) : ~Differs(r, i)
         /\ ReplayOf(r) = "conflict" /\ r.op \in {"record", "correct"} =>
              \A i \in TracesOf(r) : Differs(r, i)
<1>1. PICK i \in TracesOf(r) : TRUE
  OBVIOUS
<1>2. /\ i \in DOMAIN trail /\ trail[i].action = r.op
      /\ \A j \in TracesOf(r) : j = i
  BY DEF TracesOf, DeskOK, TracesOnce
<1>3. ReplayOf(r) = IF SameFingerprint(r, i) THEN "done" ELSE "conflict"
  BY <1>2 DEF ReplayOf
<1>4. trail[i].result \in Fact
  <2>1. trail \in Seq(Trace)
    BY DEF DeskOK, AttendanceTypeOK
  <2>2. trail[i] \in Trace
    BY <1>2, <2>1
  <2>3. QED
    BY <2>2 DEF Trace
<1>5. r.op = "record" => (SameFingerprint(r, i) <=> ~Differs(r, i))
  <2> SUFFICES ASSUME r.op = "record" PROVE SameFingerprint(r, i) <=> ~Differs(r, i)
    OBVIOUS
  <2>1. trail[i].compared = [at |-> None, registration |-> trail[i].result.registration]
    BY <1>2 DEF DeskOK, ComparedTells
  <2>2. Compared(r) = [at |-> None, registration |-> r.registration]
    BY DEF Compared
  <2>3. QED
    BY <2>1, <2>2 DEF SameFingerprint, Differs
<1>6. r.op = "correct" => (SameFingerprint(r, i) <=> ~Differs(r, i))
  <2> SUFFICES ASSUME r.op = "correct" PROVE SameFingerprint(r, i) <=> ~Differs(r, i)
    OBVIOUS
  <2>1. trail[i].compared = trail[i].result
    BY <1>2 DEF DeskOK, ComparedTells
  <2>2. Compared(r) = [at |-> r.at, registration |-> r.registration]
    BY DEF Compared
  <2>3. trail[i].result = Compared(r) <=>
          trail[i].result.at = r.at /\ trail[i].result.registration = r.registration
    BY <1>4, <2>2 DEF Fact
  <2>4. QED
    BY <2>1, <2>3 DEF SameFingerprint, Differs
<1>7. r.op \in {"void", "reinstate"} => (SameFingerprint(r, i) => ~Differs(r, i))
  BY DEF SameFingerprint, Differs
<1>8. QED
  BY <1>1, <1>2, <1>3, <1>5, <1>6, <1>7, AskedFields

\* A step that leaves the record alone and answers, or lets wait, one call.
LEMMA DeskStays ==
  ASSUME DeskOK, NEW d \in Desk, UNCHANGED <<attendance, trail>>,
         asked' \in [Desk -> AttendanceRequest \union {None}],
         \A e \in Desk : e # d => asked'[e] = asked[e],
         NEW n \in 0..MaxRows, NEW t \in {"none", "done", "conflict"},
         NEW s \in {"idle", "waiting"},
         desk' = [desk EXCEPT ![d] = s], told' = [told EXCEPT ![d] = t],
         snapshot' = [snapshot EXCEPT ![d] = n],
         s = "waiting" => asked'[d] # None /\ (asked'[d].op # "record" => attendance # None),
         t = "done" => \E i \in TracesOf(asked'[d]) : ~Differs(asked'[d], i),
         t = "conflict" => /\ TracesOf(asked'[d]) # {}
                           /\ asked'[d].op \in {"record", "correct"} =>
                                \A i \in TracesOf(asked'[d]) : Differs(asked'[d], i)
  PROVE  DeskOK'
<1>1. AttendanceTypeOK'
  BY DEF DeskOK, AttendanceTypeOK
<1>2. StatusesAreALife' /\ OriginTells' /\ TracesOnce' /\ ComparedTells'
  BY DEF DeskOK, StatusesAreALife, OriginTells, TracesOnce, ComparedTells
<1>3. ASSUME NEW e \in Desk
      PROVE  /\ told'[e] = "done" => \E i \in TracesOf(asked'[e]) : ~Differs(asked'[e], i)
             /\ told'[e] = "conflict" =>
                  /\ TracesOf(asked'[e]) # {}
                  /\ asked'[e].op \in {"record", "correct"} =>
                       \A i \in TracesOf(asked'[e]) : Differs(asked'[e], i)
  <2>1. CASE e = d
    BY <2>1 DEF DeskOK, AttendanceTypeOK
  <2>2. CASE e # d
    <3>1. asked'[e] = asked[e] /\ told'[e] = told[e]
      BY <2>2 DEF DeskOK, AttendanceTypeOK
    <3>2. QED
      BY <3>1 DEF DeskOK, RepliesRecorded
  <2>3. QED
    BY <2>1, <2>2
<1>4. RepliesRecorded'
  BY <1>3 DEF RepliesRecorded, TracesOf, Differs
<1>5. QED
  BY <1>1, <1>2, <1>4 DEF DeskOK

\* The step that records a transition and leaves the row behind.
LEMMA Writes ==
  ASSUME DeskOK, NEW d \in Desk, desk[d] = "waiting", TracesOf(asked[d]) = {},
         NEW compared \in Facts, NEW before \in Facts, NEW result \in Fact,
         NEW row \in Attendance,
         Write(d, compared, before, result, row), UNCHANGED asked,
         asked[d].op = "record" => attendance = None,
         attendance # None => row.origin = attendance.origin,
         row.status = (IF asked[d].op = "void" THEN "voided" ELSE "present"),
         asked[d].op \in {"void", "correct"} => attendance.status = "present",
         asked[d].op = "reinstate" => attendance.status = "voided",
         row.fact.registration = 0 <=> row.origin = "walk_in",
         asked[d].op \in {"record", "correct"} =>
           row.fact = result /\ result.at = asked[d].at
                             /\ result.registration = asked[d].registration,
         asked[d].op = "record" => compared = [at |-> None, registration |-> result.registration],
         asked[d].op = "correct" => compared = result
  PROVE  DeskOK'
<1> DEFINE r == asked[d]
           e == [action |-> asked[d].op, actor |-> asked[d].actor, key |-> asked[d].key,
                 content |-> asked[d].content, compared |-> compared, before |-> before,
                 result |-> result, to |-> row.status]
           l == Len(trail) + 1
<1>1. /\ r \in AttendanceRequest /\ (r.op # "record" => attendance # None)
      /\ trail \in Seq(Trace) /\ Len(trail) < MaxTrail
      /\ attendance = None <=> trail = <<>>
  BY DEF DeskOK, AttendanceTypeOK, Write
<1>2. /\ Len(trail) \in Nat /\ DOMAIN trail = 1..Len(trail) /\ MaxTrail \in Nat
  BY <1>1, TrailAssumption
<1>3. trail' = Append(trail, e) /\ attendance' = row /\ Reply(d, "done")
  BY DEF Write
<1>4. /\ r.op \in {"record", "correct", "void", "reinstate"}
      /\ r.actor \in Staff /\ r.key \in Key /\ r.content \in Content
  BY <1>1, AskedFields
<1>5. row.status \in {"present", "voided"} /\ row # None
  BY NoRecordAssumption DEF Attendance
<1>6. e \in Trace
  BY <1>4, <1>5 DEF Trace
<1>7. /\ e.action = r.op /\ e.actor = r.actor /\ e.key = r.key
      /\ e.content = r.content /\ e.compared = compared
      /\ e.result = result /\ e.to = row.status
  OBVIOUS
<1> HIDE DEF e
<1>8. /\ trail' \in Seq(Trace) /\ Len(trail') = l /\ DOMAIN trail' = 1..l
      /\ trail'[l] = e /\ l \in DOMAIN trail' /\ trail' # <<>>
      /\ \A i \in DOMAIN trail : i \in DOMAIN trail' /\ trail'[i] = trail[i]
      /\ \A i \in DOMAIN trail' : i = l \/ i \in DOMAIN trail
  BY <1>1, <1>2, <1>3, <1>6
<1> HIDE DEF r, l
<1>9. AttendanceTypeOK'
  <2>1. /\ desk' = [desk EXCEPT ![d] = "idle"] /\ told' = [told EXCEPT ![d] = "done"]
        /\ snapshot' = [snapshot EXCEPT ![d] = 0] /\ 0 \in 0..MaxRows
    BY <1>3, RowsAssumption DEF Reply
  <2>2. Len(trail') <= MaxTrail
    BY <1>1, <1>2, <1>8 DEF l
  <2>3. QED
    BY <1>3, <1>5, <1>8, <2>1, <2>2 DEF DeskOK, AttendanceTypeOK
<1>10. r.op = "record" <=> attendance = None
  BY <1>1 DEF r
<1>11. StatusesAreALife'
  <2>1. attendance # None => /\ trail # <<>> /\ Len(trail) \in DOMAIN trail
                             /\ trail[Len(trail)].to = attendance.status
    BY <1>1, <1>2 DEF DeskOK, StatusesAreALife
  <2>2. ASSUME NEW i \in DOMAIN trail'
        PROVE  /\ trail'[i].action = "record" <=> i = 1
               /\ trail'[i].to = IF trail'[i].action = "void" THEN "voided" ELSE "present"
               /\ trail'[i].action \in {"void", "correct"} => trail'[i - 1].to = "present"
               /\ trail'[i].action = "reinstate" => trail'[i - 1].to = "voided"
               /\ trail'[i].action \in {"record", "correct"} =>
                    (trail'[i].result.registration = 0 <=> attendance'.origin = "walk_in")
    <3>1. CASE i \in DOMAIN trail
      <4>1. /\ trail[i].action = "record" <=> i = 1
            /\ trail[i].to = IF trail[i].action = "void" THEN "voided" ELSE "present"
            /\ trail[i].action \in {"void", "correct"} => trail[i - 1].to = "present"
            /\ trail[i].action = "reinstate" => trail[i - 1].to = "voided"
            /\ trail[i].action \in {"record", "correct"} =>
                 (trail[i].result.registration = 0 <=> attendance.origin = "walk_in")
        BY <3>1 DEF DeskOK, StatusesAreALife
      <4>2. trail'[i] = trail[i] /\ (i # 1 => trail'[i - 1] = trail[i - 1])
        BY <1>2, <1>8, <3>1
      <4>3. trail[i].action \in {"void", "correct", "reinstate"} => i # 1
        BY <4>1
      <4>4. attendance # None /\ attendance'.origin = attendance.origin
        BY <1>1, <1>2, <1>3, <3>1
      <4>5. QED
        BY <4>1, <4>2, <4>3, <4>4
    <3>2. CASE i = l
      <4>1. r.op = "record" <=> i = 1
        BY <1>1, <1>2, <1>10, <3>2 DEF l
      <4>2. r.op # "record" => trail'[i - 1] = trail[Len(trail)]
        BY <1>2, <1>8, <1>10, <2>1, <3>2 DEF l
      <4>3. /\ r.op \in {"void", "correct"} => trail'[i - 1].to = "present"
            /\ r.op = "reinstate" => trail'[i - 1].to = "voided"
        BY <1>10, <2>1, <4>2 DEF r
      <4>4. r.op \in {"record", "correct"} =>
              (result.registration = 0 <=> attendance'.origin = "walk_in")
        BY <1>3 DEF r
      <4>5. trail'[i] = e /\ e.to = IF r.op = "void" THEN "voided" ELSE "present"
        BY <1>7, <1>8, <3>2 DEF r
      <4>6. QED
        BY <1>7, <4>1, <4>3, <4>4, <4>5
    <3>3. QED
      BY <1>8, <3>1, <3>2
  <2>3. trail'[Len(trail')].to = attendance'.status
    BY <1>3, <1>7, <1>8
  <2>4. QED
    BY <2>2, <2>3 DEF StatusesAreALife
<1>12. OriginTells'
  BY <1>3 DEF OriginTells
<1>13. TracesOnce'
  <2> SUFFICES ASSUME NEW i \in DOMAIN trail', NEW j \in DOMAIN trail', i # j, i \in DOMAIN trail,
                      trail'[i].key = trail'[j].key, trail'[i].actor = trail'[j].actor,
                      trail'[i].action = trail'[j].action
               PROVE  FALSE
    BY <1>8 DEF TracesOnce
  <2>1. CASE j \in DOMAIN trail
    <3>1. trail'[i] = trail[i] /\ trail'[j] = trail[j]
      BY <1>8, <2>1
    <3>2. QED
      BY <2>1, <3>1 DEF DeskOK, TracesOnce
  <2>2. CASE j = l
    <3>1. i \in TracesOf(r)
      BY <1>7, <1>8, <2>2 DEF TracesOf
    <3>2. QED
      BY <3>1 DEF r
  <2>3. QED
    BY <1>8, <2>1, <2>2
<1>14. ComparedTells'
  <2>1. ASSUME NEW i \in DOMAIN trail'
        PROVE  /\ trail'[i].action = "record" =>
                    trail'[i].compared = [at |-> None, registration |-> trail'[i].result.registration]
               /\ trail'[i].action = "correct" => trail'[i].compared = trail'[i].result
    <3>1. CASE i \in DOMAIN trail
      BY <1>8, <3>1 DEF DeskOK, ComparedTells
    <3>2. CASE i = l
      BY <1>7, <1>8, <3>2 DEF r
    <3>3. QED
      BY <1>8, <3>1, <3>2
  <2>2. QED
    BY <2>1 DEF ComparedTells
<1>15. RepliesRecorded'
  <2> DEFINE Traced(q) == {i \in DOMAIN trail' :
               trail'[i].actor = q.actor /\ trail'[i].action = q.op /\ trail'[i].key = q.key}
             Differing(q, i) ==
               \/ trail'[i].content # q.content
               \/ q.op \in {"record", "correct"}
                    /\ trail'[i].result.registration # q.registration
               \/ q.op = "correct" /\ trail'[i].result.at # q.at
  <2>1. ASSUME NEW c \in Desk
        PROVE  /\ told'[c] = "done" => \E i \in Traced(asked[c]) : ~Differing(asked[c], i)
               /\ told'[c] = "conflict" =>
                    /\ Traced(asked[c]) # {}
                    /\ asked[c].op \in {"record", "correct"} =>
                         \A i \in Traced(asked[c]) : Differing(asked[c], i)
    <3>1. CASE c = d
      <4>1. told'[c] = "done"
        BY <1>3, <3>1 DEF Reply, DeskOK, AttendanceTypeOK
      <4>2. l \in Traced(r)
        BY <1>7, <1>8
      <4>3. ~Differing(r, l)
        BY <1>7, <1>8 DEF r
      <4>4. QED
        BY <3>1, <4>1, <4>2, <4>3 DEF r
    <3>2. CASE c # d
      <4>1. told'[c] = told[c]
        BY <1>3, <3>2 DEF Reply, DeskOK, AttendanceTypeOK
      <4>2. \A i \in TracesOf(asked[c]) : /\ i \in Traced(asked[c])
                                          /\ Differing(asked[c], i) <=> Differs(asked[c], i)
        BY <1>8 DEF TracesOf, Differs
      <4>3. ASSUME NEW i \in TracesOf(asked[c]), NEW j \in Traced(asked[c])
            PROVE  i = j
        BY <1>8, <1>13 DEF TracesOf, TracesOnce
      <4>4. /\ told[c] = "done" => \E i \in TracesOf(asked[c]) : ~Differs(asked[c], i)
            /\ told[c] = "conflict" =>
                 /\ TracesOf(asked[c]) # {}
                 /\ asked[c].op \in {"record", "correct"} =>
                      \A i \in TracesOf(asked[c]) : Differs(asked[c], i)
        BY DEF DeskOK, RepliesRecorded
      <4> HIDE DEF Traced, Differing
      <4>5. QED
        BY <4>1, <4>2, <4>3, <4>4
    <3>3. QED
      BY <3>1, <3>2
  <2>2. QED
    BY <2>1 DEF RepliesRecorded, TracesOf, Differs
<1>16. QED
  BY <1>9, <1>11, <1>12, <1>13, <1>14, <1>15 DEF DeskOK

\* A replay found under the lock.
LEMMA DeskReplays ==
  ASSUME DeskOK, NEW d \in Desk, desk[d] = "waiting", ReplyReplay(d), UNCHANGED asked
  PROVE  DeskOK'
<1>1. /\ asked[d] \in AttendanceRequest /\ TracesOf(asked[d]) # {}
      /\ asked \in [Desk -> AttendanceRequest \union {None}]
      /\ UNCHANGED <<attendance, trail>> /\ Reply(d, ReplayOf(asked[d]))
  BY DEF DeskOK, AttendanceTypeOK, ReplyReplay
<1>2. /\ desk' = [desk EXCEPT ![d] = "idle"]
      /\ told' = [told EXCEPT ![d] = ReplayOf(asked[d])]
      /\ snapshot' = [snapshot EXCEPT ![d] = 0] /\ 0 \in 0..MaxRows
  BY <1>1, RowsAssumption DEF Reply
<1>3. /\ ReplayOf(asked[d]) \in {"done", "conflict"}
      /\ ReplayOf(asked[d]) = "done" => \E i \in TracesOf(asked[d]) : ~Differs(asked[d], i)
      /\ ReplayOf(asked[d]) = "conflict" /\ asked[d].op \in {"record", "correct"} =>
           \A i \in TracesOf(asked[d]) : Differs(asked[d], i)
  BY <1>1, ReplayTells
<1>4. QED
  BY <1>1, <1>2, <1>3, DeskStays

LEMMA DeskCalls ==
  ASSUME DeskOK, NEW d \in Desk, NEW r \in Asked, AskRecord(d, r) \/ Ask(d, r)
  PROVE  DeskOK'
<1>1. r \in AttendanceRequest /\ r # None
  BY AskedAssumption, AskedFields
<1>2. asked' = [asked EXCEPT ![d] = r] /\ UNCHANGED <<attendance, trail>>
  BY DEF AskRecord, Ask
<1>3. /\ asked' \in [Desk -> AttendanceRequest \union {None}] /\ asked'[d] = r
      /\ \A e \in Desk : e # d => asked'[e] = asked[e]
  BY <1>1, <1>2 DEF DeskOK, AttendanceTypeOK
<1>4. ASSUME NEW n \in 0..MaxRows, Wait(d, n), r.op # "record" => attendance # None
      PROVE  DeskOK'
  <2>1. /\ desk' = [desk EXCEPT ![d] = "waiting"] /\ told' = [told EXCEPT ![d] = "none"]
        /\ snapshot' = [snapshot EXCEPT ![d] = n]
    BY <1>4 DEF Wait
  <2>2. QED
    BY <1>1, <1>2, <1>3, <1>4, <2>1, DeskStays
<1>5. CASE AskRecord(d, r) /\ TracesOf(r) # {}
  <2>1. /\ desk' = [desk EXCEPT ![d] = "idle"] /\ told' = [told EXCEPT ![d] = ReplayOf(r)]
        /\ snapshot' = [snapshot EXCEPT ![d] = 0] /\ 0 \in 0..MaxRows
    BY <1>5, RowsAssumption DEF AskRecord, Reply
  <2>2. /\ ReplayOf(r) \in {"done", "conflict"}
        /\ ReplayOf(r) = "done" => \E i \in TracesOf(r) : ~Differs(r, i)
        /\ ReplayOf(r) = "conflict" /\ r.op \in {"record", "correct"} =>
             \A i \in TracesOf(r) : Differs(r, i)
    BY <1>1, <1>5, ReplayTells
  <2>3. QED
    BY <1>2, <1>3, <1>5, <2>1, <2>2, DeskStays
<1>6. CASE AskRecord(d, r) /\ TracesOf(r) = {}
  BY <1>4, <1>6, RowsAssumption DEF AskRecord
<1>7. CASE Ask(d, r)
  BY <1>4, <1>7, AttendanceFields DEF Ask, DeskOK
<1>8. QED
  BY <1>5, <1>6, <1>7

LEMMA DeskRefuses ==
  ASSUME DeskOK, NEW d \in Desk, RefuseDesk(d)
  PROVE  DeskOK'
<1>1. /\ desk' = [desk EXCEPT ![d] = "idle"] /\ told' = [told EXCEPT ![d] = "none"]
      /\ snapshot' = [snapshot EXCEPT ![d] = 0] /\ 0 \in 0..MaxRows
      /\ asked' = [asked EXCEPT ![d] = None] /\ UNCHANGED <<attendance, trail>>
  BY RowsAssumption DEF RefuseDesk, Reply
<1>2. /\ asked' \in [Desk -> AttendanceRequest \union {None}]
      /\ \A e \in Desk : e # d => asked'[e] = asked[e]
  BY <1>1 DEF DeskOK, AttendanceTypeOK
<1>3. QED
  BY <1>1, <1>2, DeskStays

LEMMA DeskRecords ==
  ASSUME DeskOK, NEW d \in Desk, RecordAttendance(d)
  PROVE  DeskOK'
<1> DEFINE r == asked[d]
           fact == [at |-> r.at, registration |-> r.registration]
           row == [status |-> "present", fact |-> fact,
                   origin |-> IF r.registration = 0 THEN "walk_in" ELSE "registered"]
<1>1. desk[d] = "waiting" /\ r.op = "record" /\ UNCHANGED asked
  BY DEF RecordAttendance
<1>2. r \in AttendanceRequest /\ r.at \in Time /\ r.registration \in 0..MaxRows
  BY <1>1, AskedFields DEF DeskOK, AttendanceTypeOK
<1>3. /\ fact \in Fact /\ fact.at = r.at /\ fact.registration = r.registration
      /\ Compared(r) = [at |-> None, registration |-> fact.registration]
      /\ Compared(r) \in Facts /\ Unrecorded \in Facts
  BY <1>1, <1>2, RowsAssumption DEF Fact, Facts, Compared, Unrecorded
<1> HIDE DEF fact
<1>4. /\ row \in Attendance /\ row.status = "present" /\ row.fact = fact
      /\ row.origin = IF r.registration = 0 THEN "walk_in" ELSE "registered"
  BY <1>3 DEF Attendance
<1>5. CASE ReplyReplay(d)
  BY <1>1, <1>5, DeskReplays
<1>6. CASE TracesOf(r) = {} /\ attendance = None
           /\ Write(d, Compared(r), Unrecorded, fact, row)
  <2> HIDE DEF row
  <2>1. row.fact.registration = 0 <=> row.origin = "walk_in"
    BY <1>3, <1>4
  <2>2. QED
    BY <1>1, <1>3, <1>4, <1>6, <2>1, Writes
<1>7. QED
  BY <1>5, <1>6 DEF RecordAttendance, fact

LEMMA DeskCorrects ==
  ASSUME RegistrationTypeOK, DeskOK, NEW d \in Desk, CorrectAttendance(d)
  PROVE  DeskOK'
<1> DEFINE r == asked[d]
           fact == [at |-> r.at, registration |-> r.registration]
           before == [at |-> attendance.fact.at,
                      registration |-> AtHand(d, attendance.fact.registration)]
           row == [attendance EXCEPT !.fact = fact]
<1>1. /\ desk[d] = "waiting" /\ r.op = "correct" /\ UNCHANGED asked
      /\ attendance.status = "present" /\ Correctable(r)
  BY DEF CorrectAttendance
<1>2. r \in AttendanceRequest /\ r.at \in Time /\ r.registration \in 0..MaxRows
      /\ attendance # None /\ attendance \in Attendance
  BY <1>1, AskedFields DEF DeskOK, AttendanceTypeOK
<1>3. /\ fact \in Fact /\ fact.at = r.at /\ fact.registration = r.registration
      /\ Compared(r) = fact /\ Compared(r) \in Facts
  BY <1>1, <1>2 DEF Fact, Facts, Compared
<1>4. /\ attendance.fact.at \in Time /\ attendance.fact.registration \in 0..MaxRows
      /\ attendance.origin \in {"registered", "walk_in"}
  BY <1>2, AttendanceFields DEF DeskOK
<1>5. AtHand(d, attendance.fact.registration) \in 0..MaxRows
  BY <1>4, RowsAssumption DEF AtHand
<1>6. before \in Facts
  BY <1>4, <1>5 DEF Facts
<1> HIDE DEF fact, before
<1>7. /\ row \in Attendance /\ row.status = "present" /\ row.fact = fact
      /\ row.origin = attendance.origin
  BY <1>1, <1>2, <1>3 DEF Attendance
<1> HIDE DEF row
<1>8. row.fact.registration = 0 <=> row.origin = "walk_in"
  <2>1. attendance.fact.registration = 0 <=> attendance.origin = "walk_in"
    BY <1>2 DEF DeskOK, OriginTells
  <2>2. CASE attendance.origin = "walk_in"
    BY <1>1, <1>3, <1>7, <2>2 DEF Correctable
  <2>3. CASE attendance.origin # "walk_in"
    <3>1. ~Supports(0)
      BY RowFields, RowsAssumption DEF Supports
    <3>2. QED
      BY <1>1, <1>3, <1>7, <2>1, <2>3, <3>1 DEF Correctable
  <2>4. QED
    BY <2>2, <2>3
<1>9. CASE ReplyReplay(d)
  BY <1>1, <1>9, DeskReplays
<1>10. CASE TracesOf(r) = {} /\ Write(d, Compared(r), before, fact, row)
  BY <1>1, <1>2, <1>3, <1>6, <1>7, <1>8, <1>10, Writes
<1>11. QED
  BY <1>9, <1>10 DEF CorrectAttendance, fact, before, row

LEMMA DeskChanges ==
  ASSUME DeskOK, NEW d \in Desk, ChangeStatus(d)
  PROVE  DeskOK'
<1> DEFINE r == asked[d]
           fact == [at |-> attendance.fact.at, registration |-> snapshot[d]]
           status == IF r.op = "void" THEN "voided" ELSE "present"
           row == [attendance EXCEPT !.status = status]
<1>1. desk[d] = "waiting" /\ r.op \in {"void", "reinstate"} /\ UNCHANGED asked
  BY DEF ChangeStatus
<1>2. /\ attendance # None /\ attendance \in Attendance /\ snapshot[d] \in 0..MaxRows
      /\ r \in AttendanceRequest
  BY <1>1 DEF DeskOK, AttendanceTypeOK
<1>3. /\ attendance.fact.at \in Time /\ Now \in Facts
  BY <1>2, AttendanceFields DEF DeskOK
<1>4. fact \in Fact /\ fact \in Facts /\ Compared(r) \in Facts
  BY <1>1, <1>2, <1>3 DEF Fact, Facts, Compared
<1>5. status \in {"present", "voided"}
  OBVIOUS
<1> HIDE DEF fact, status
<1>6. /\ row \in Attendance /\ row.status = status /\ row.fact = attendance.fact
      /\ row.origin = attendance.origin
  BY <1>2, <1>5 DEF Attendance
<1> HIDE DEF row
<1>7. row.fact.registration = 0 <=> row.origin = "walk_in"
  BY <1>2, <1>6 DEF DeskOK, OriginTells
<1>8. CASE ReplyReplay(d)
  BY <1>1, <1>8, DeskReplays
<1>9. CASE TracesOf(r) = {} /\ attendance.status = Expected(r)
           /\ Write(d, Compared(r), fact, fact, row)
  <2>1. /\ r.op = "void" => attendance.status = "present"
        /\ r.op = "reinstate" => attendance.status = "voided"
    BY <1>1, <1>9 DEF Expected
  <2>2. row.status = IF r.op = "void" THEN "voided" ELSE "present"
    BY <1>6 DEF status
  <2>3. QED
    BY <1>1, <1>2, <1>4, <1>6, <1>7, <1>9, <2>1, <2>2, Writes
<1>10. QED
  BY <1>8, <1>9 DEF ChangeStatus, fact, row, status

LEMMA DeskInitially == Init => DeskOK
<1> SUFFICES ASSUME Init PROVE DeskOK
  OBVIOUS
<1>1. AttendanceTypeOK
  BY RowsAssumption, TrailAssumption DEF Init, AttendanceTypeOK
<1>2. StatusesAreALife /\ OriginTells /\ TracesOnce /\ ComparedTells /\ RepliesRecorded
  BY DEF Init, StatusesAreALife, OriginTells, TracesOnce, ComparedTells, RepliesRecorded
<1>3. QED
  BY <1>1, <1>2 DEF DeskOK

LEMMA DeskStep == RegistrationTypeOK /\ DeskOK /\ [Next]_vars => DeskOK'
<1> SUFFICES ASSUME RegistrationTypeOK, DeskOK, [Next]_vars PROVE DeskOK'
  OBVIOUS
<1>1. CASE UNCHANGED attendanceVars
  <2>1. UNCHANGED <<attendance, trail, desk, asked, snapshot, told>>
    BY <1>1 DEF attendanceVars
  <2>2. AttendanceTypeOK'
    BY <2>1 DEF DeskOK, AttendanceTypeOK
  <2>3. StatusesAreALife' /\ OriginTells' /\ TracesOnce' /\ ComparedTells'
    BY <2>1 DEF DeskOK, StatusesAreALife, OriginTells, TracesOnce, ComparedTells
  <2>4. RepliesRecorded'
    BY <2>1 DEF DeskOK, RepliesRecorded, TracesOf, Differs
  <2>5. QED
    BY <2>2, <2>3, <2>4 DEF DeskOK
<1>2. CASE AttendanceNext
  BY <1>2, DeskCalls, DeskRefuses, DeskRecords, DeskCorrects, DeskChanges
     DEF AttendanceNext
<1>3. QED
  BY <1>1, <1>2 DEF Next, vars, attendanceVars

JourneyOK == LinesOK /\ DeskOK

\* The inductive invariant of registrations and attendance together.
THEOREM JourneyInvariance == Spec => []JourneyOK
<1>1. Init => JourneyOK
  BY LinesInitially, DeskInitially DEF Init, JourneyOK
<1>2. JourneyOK /\ [Next]_vars => JourneyOK'
  <2>1. [Next]_vars => [RegistrationNext]_registrationVars
    BY DEF Next, vars, registrationVars
  <2>2. QED
    BY <2>1, LinesStep, DeskStep DEF JourneyOK, LinesOK
<1>3. QED
  BY <1>1, <1>2, PTL DEF Spec

\* The attendance row, its trail and the calls at the desks are well typed.
THEOREM AttendanceTypes == Spec => []AttendanceTypeOK
<1>1. JourneyOK => AttendanceTypeOK
  BY DEF JourneyOK, DeskOK
<1>2. QED
  BY <1>1, JourneyInvariance, PTL

-----------------------------------------------------------------------------
(* The facts of the trail.  A call that waits for the Event's row goes on   *)
(* with a registration that was the row's when it looked, and so, whatever  *)
(* the corrections made meanwhile, one that some transition has set.        *)

SnapshotsOK == \A d \in Desk :
  desk[d] = "waiting" /\ asked[d].op # "record" => OnceSet(snapshot[d], Len(trail))

FactsOK == FactsAreALife /\ SnapshotsOK

\* What a longer trail says of the transitions it had.
LEMMA Longer ==
  ASSUME trail \in Seq(Trace), NEW x, trail' = Append(trail, x)
  PROVE  /\ Len(trail) \in Nat /\ DOMAIN trail = 1..Len(trail)
         /\ Len(trail') = Len(trail) + 1 /\ DOMAIN trail' = 1..Len(trail) + 1
         /\ \A i \in 1..Len(trail) : trail'[i] = trail[i]
         /\ trail'[Len(trail) + 1] = x
OBVIOUS

LEMMA LongerKeeps ==
  ASSUME trail \in Seq(Trace), NEW x, trail' = Append(trail, x),
         NEW n \in 1..Len(trail), NEW j \in 1..n
  PROVE  /\ SetLast(j, n) => SetLast(j, n)'
         /\ \A g : OnceSet(g, n) => OnceSet(g, n)'
<1>1. \A i \in 1..n : trail'[i] = trail[i]
  BY Longer
<1>2. SetLast(j, n) => SetLast(j, n)'
  BY <1>1, Longer DEF SetLast
<1>3. ASSUME NEW g, OnceSet(g, n) PROVE OnceSet(g, n)'
  BY <1>1, <1>3 DEF OnceSet
<1> QED BY <1>2, <1>3

\* The facts of the row were set last by some transition.
LEMMA RowWasSet ==
  ASSUME DeskOK, FactsAreALife, attendance # None
  PROVE  \E j \in 1..Len(trail) : /\ SetLast(j, Len(trail)) /\ attendance.fact = trail[j].result
                                  /\ OnceSet(attendance.fact.registration, Len(trail))
<1>1. trail \in Seq(Trace)
  BY DEF DeskOK, AttendanceTypeOK
<1>2. PICK j \in DOMAIN trail : SetLast(j, Len(trail)) /\ attendance.fact = trail[j].result
  BY DEF FactsAreALife
<1>3. j \in 1..Len(trail)
  BY <1>1, <1>2
<1>4. OnceSet(attendance.fact.registration, Len(trail))
  BY <1>2, <1>3 DEF SetLast, OnceSet
<1> QED BY <1>2, <1>3, <1>4

\* What any transition set was set no later than the last one that set anything.
LEMMA SetBefore ==
  ASSUME trail \in Seq(Trace), NEW j \in 1..Len(trail), SetLast(j, Len(trail)), NEW g,
         OnceSet(g, Len(trail))
  PROVE  OnceSet(g, j)
<1>1. PICK m \in 1..Len(trail) : /\ trail[m].action \in {"record", "correct"}
                                 /\ trail[m].result.registration = g
  BY DEF OnceSet
<1>2. Len(trail) \in Nat
  OBVIOUS
<1>3. m \in 1..j
  BY <1>1, <1>2 DEF SetLast
<1> QED BY <1>1, <1>3 DEF OnceSet

\* A new transition that starts from the row's facts but for the registration,
\* and leaves the row with those it sets, or with its own.
LEMMA FactsWritten ==
  ASSUME DeskOK, FactsOK, NEW d \in Desk, NEW compared, NEW before, NEW result, NEW row,
         Write(d, compared, before, result, row), UNCHANGED asked,
         IF asked[d].op \in {"record", "correct"} THEN row.fact = result
         ELSE row.fact = attendance.fact /\ OnceSet(before.registration, Len(trail)),
         asked[d].op # "record" => attendance # None /\ before.at = attendance.fact.at,
         asked[d].op = "correct" => before.registration \in {0, attendance.fact.registration}
  PROVE  FactsOK'
<1> DEFINE x == [action |-> asked[d].op, actor |-> asked[d].actor, key |-> asked[d].key,
                 content |-> asked[d].content, compared |-> compared, before |-> before,
                 result |-> result, to |-> row.status]
<1>0. PICK n \in Nat, op \in {asked[d].op} : n = Len(trail)
  <2>1. Len(trail) \in Nat
    BY DEF DeskOK, AttendanceTypeOK
  <2> QED BY <2>1
<1>1. trail \in Seq(Trace) /\ desk \in [Desk -> {"idle", "waiting"}]
      /\ snapshot \in [Desk -> 0..MaxRows]
  BY DEF DeskOK, AttendanceTypeOK
<1>2. trail' = Append(trail, x) /\ attendance' = row
  BY DEF Write
<1>3. x.action = op /\ x.before = before /\ x.result = result
  BY <1>0
<1>4. IF op \in {"record", "correct"} THEN row.fact = result
      ELSE row.fact = attendance.fact /\ OnceSet(before.registration, n)
  BY <1>0
<1>5. /\ op # "record" => attendance # None /\ before.at = attendance.fact.at
      /\ op = "correct" => before.registration \in {0, attendance.fact.registration}
  BY <1>0
<1> HIDE DEF x
<1>6. /\ n \in Nat /\ Len(trail') = n + 1 /\ DOMAIN trail' = 1..n + 1 /\ DOMAIN trail = 1..n
      /\ \A i \in 1..n : trail'[i] = trail[i]
      /\ trail'[n + 1] = x
  BY <1>0, <1>1, <1>2, Longer
<1>7. op # "record" => \E j \in 1..n : SetLast(j, n) /\ attendance.fact = trail[j].result
  BY <1>0, <1>5, RowWasSet DEF FactsOK
<1>8. ASSUME NEW i \in 1..n + 1, trail'[i].action # "record"
      PROVE  \E j \in 1..i - 1 : StartsFrom(i, j)'
  <2>1. CASE i # n + 1
    <3>1. i \in 1..n /\ trail'[i] = trail[i]
      BY <1>6, <2>1
    <3>2. PICK j \in 1..i - 1 : StartsFrom(i, j)
      BY <1>6, <1>8, <3>1 DEF FactsOK, FactsAreALife
    <3>3. j \in 1..n /\ j \in 1..j /\ i - 1 \in 1..n /\ trail'[j] = trail[j]
      BY <1>6, <3>1
    <3>4. SetLast(j, i - 1) => SetLast(j, i - 1)'
      BY <1>1, <1>2, <3>3, <1>0, LongerKeeps
    <3>5. \A g : OnceSet(g, j) => OnceSet(g, j)'
      BY <1>1, <1>2, <3>3, <1>0, LongerKeeps
    <3>6. StartsFrom(i, j)'
      <4>1. SetLast(j, i - 1)' /\ trail'[i].before.at = trail'[j].result.at
        BY <3>1, <3>2, <3>3, <3>4 DEF StartsFrom
      <4>2. CASE trail[i].action = "correct"
        BY <3>1, <3>2, <3>3, <4>1, <4>2 DEF StartsFrom
      <4>3. CASE trail[i].action # "correct"
        <5>1. OnceSet(trail[i].before.registration, j)'
          <6> DEFINE g == trail[i].before.registration
          <6>1. OnceSet(g, j)
            BY <3>2, <4>3 DEF StartsFrom
          <6>2. g' = g
            BY <3>1
          <6> HIDE DEF g
          <6>3. OnceSet(g, j)'
            BY <3>5, <6>1, <6>2 DEF OnceSet
          <6> QED BY <6>3 DEF g
        <5> QED BY <3>1, <4>1, <4>3, <5>1 DEF StartsFrom
      <4> QED BY <4>2, <4>3
    <3> QED BY <3>6
  <2>2. CASE i = n + 1
    <3>1. op # "record"
      BY <1>3, <1>6, <1>8, <2>2
    <3>2. PICK j \in 1..n : SetLast(j, n) /\ attendance.fact = trail[j].result
      BY <1>7, <3>1
    <3>3. n \in 1..n /\ j \in 1..j /\ trail'[j] = trail[j] /\ i - 1 = n
      BY <1>6, <2>2
    <3>4. SetLast(j, n)'
      BY <1>1, <1>2, <3>2, <3>3, <1>0, LongerKeeps
    <3>5. trail'[i].before = before /\ trail'[i].action = op
      BY <1>3, <1>6, <2>2
    <3>6. before.at = trail'[j].result.at
      BY <1>5, <3>1, <3>2, <3>3
    <3>7. CASE op = "correct"
      <4>1. before.registration \in {0, trail'[j].result.registration}
        BY <1>5, <3>2, <3>3, <3>7
      <4> QED BY <3>3, <3>4, <3>5, <3>6, <3>7, <4>1 DEF StartsFrom, SetLast
    <3>8. CASE op # "correct"
      <4>1. OnceSet(before.registration, j)
        BY <1>0, <1>1, <1>4, <3>1, <3>2, <3>8, SetBefore
      <4>2. PICK m \in 1..j : /\ trail[m].action \in {"record", "correct"}
                              /\ trail[m].result.registration = before.registration
        BY <4>1 DEF OnceSet
      <4>3. trail'[m] = trail[m]
        BY <1>6
      <4>4. OnceSet(trail[i].before.registration, j)'
        BY <3>5, <4>2, <4>3 DEF OnceSet
      <4> QED BY <3>3, <3>4, <3>5, <3>6, <3>8, <4>4 DEF StartsFrom, SetLast
    <3> QED BY <3>7, <3>8
  <2> QED BY <2>1, <2>2
<1>9. \E j \in 1..n + 1 : SetLast(j, n + 1)' /\ row.fact = trail'[j].result
  <2>1. CASE op \in {"record", "correct"}
    <3>1. trail'[n + 1].action = op /\ trail'[n + 1].result = row.fact
      BY <1>3, <1>4, <1>6, <2>1
    <3>2. SetLast(n + 1, n + 1)'
      BY <1>6, <2>1, <3>1 DEF SetLast
    <3> QED BY <1>6, <3>1, <3>2
  <2>2. CASE op \notin {"record", "correct"}
    <3>1. PICK j \in 1..n : SetLast(j, n) /\ attendance.fact = trail[j].result
      BY <1>7, <2>2
    <3>2. n \in 1..n /\ trail'[j] = trail[j] /\ trail'[n + 1].action = op
      BY <1>3, <1>6
    <3>3. \A m \in j + 1..n + 1 : trail'[m].action \notin {"record", "correct"}
      BY <1>6, <2>2, <3>1, <3>2 DEF SetLast
    <3>4. SetLast(j, n + 1)'
      BY <3>1, <3>2, <3>3 DEF SetLast
    <3> QED BY <1>4, <1>6, <2>2, <3>1, <3>2, <3>4
  <2> QED BY <2>1, <2>2
<1>10. FactsAreALife'
  <2>1. \E j \in DOMAIN trail' : SetLast(j, Len(trail))' /\ attendance'.fact = trail'[j].result
    BY <1>0, <1>2, <1>6, <1>9 DEF SetLast
  <2>2. \A i \in DOMAIN trail' : trail'[i].action # "record" =>
          \E j \in 1..i - 1 : StartsFrom(i, j)'
    BY <1>6, <1>8
  <2> QED BY <2>1, <2>2 DEF FactsAreALife
<1>11. SnapshotsOK'
  <2> SUFFICES ASSUME NEW e \in Desk, desk'[e] = "waiting", asked'[e].op # "record"
               PROVE  OnceSet(snapshot[e], Len(trail))'
    BY DEF SnapshotsOK
  <2>1. e # d /\ desk[e] = "waiting" /\ snapshot'[e] = snapshot[e] /\ asked'[e] = asked[e]
    BY <1>1 DEF Write, Reply
  <2>2. OnceSet(snapshot[e], n)
    BY <1>0, <2>1 DEF FactsOK, SnapshotsOK
  <2>3. PICK m \in 1..n : /\ trail[m].action \in {"record", "correct"}
                          /\ trail[m].result.registration = snapshot[e]
    BY <2>2 DEF OnceSet
  <2>4. m \in 1..Len(trail') /\ trail'[m] = trail[m]
    BY <1>6
  <2> QED BY <2>1, <2>3, <2>4 DEF OnceSet
<1> QED BY <1>10, <1>11 DEF FactsOK

LEMMA FactsSame ==
  ASSUME FactsAreALife, UNCHANGED <<attendance, trail>>
  PROVE  FactsAreALife'
<1>1. trail' = trail /\ attendance' = attendance
  OBVIOUS
<1>2. ASSUME NEW i, NEW j PROVE StartsFrom(i, j)' <=> StartsFrom(i, j)
  BY <1>1 DEF StartsFrom, SetLast, OnceSet
<1>3. \A j : SetLast(j, Len(trail))' <=> SetLast(j, Len(trail))
  BY <1>1 DEF SetLast
<1> QED BY <1>1, <1>2, <1>3, Zenon DEF FactsAreALife

\* A step that leaves the row and its trail alone, and at which no call but d's
\* moves, keeps the facts if d has not begun to wait with something else.
LEMMA FactsStay ==
  ASSUME DeskOK, FactsOK, NEW d \in Desk, UNCHANGED <<attendance, trail>>,
         \A e \in Desk : e # d => /\ desk'[e] = desk[e] /\ asked'[e] = asked[e]
                                  /\ snapshot'[e] = snapshot[e],
         desk'[d] = "waiting" /\ asked'[d].op # "record" =>
           attendance # None /\ snapshot'[d] = attendance.fact.registration
  PROVE  FactsOK'
<1>1. FactsAreALife'
  BY FactsSame DEF FactsOK
<1>2. SnapshotsOK'
  <2> SUFFICES ASSUME NEW e \in Desk, desk'[e] = "waiting", asked'[e].op # "record"
               PROVE  OnceSet(snapshot'[e], Len(trail))
    BY DEF SnapshotsOK, OnceSet
  <2>1. CASE e = d
    BY <2>1, RowWasSet DEF FactsOK
  <2>2. CASE e # d
    BY <2>2 DEF FactsOK, SnapshotsOK
  <2> QED BY <2>1, <2>2
<1> QED BY <1>1, <1>2 DEF FactsOK

LEMMA FactsStep == JourneyOK /\ FactsOK /\ [Next]_vars => FactsOK'
<1> SUFFICES ASSUME JourneyOK, FactsOK, [Next]_vars PROVE FactsOK'
  OBVIOUS
<1>0. DeskOK /\ RegistrationTypeOK /\ asked \in [Desk -> AttendanceRequest \union {None}]
      /\ desk \in [Desk -> {"idle", "waiting"}] /\ snapshot \in [Desk -> 0..MaxRows]
  BY DEF JourneyOK, LinesOK, DeskOK, AttendanceTypeOK
<1>1. CASE UNCHANGED attendanceVars
  <2>1. UNCHANGED <<attendance, trail>> /\ UNCHANGED <<desk, asked, snapshot>>
    BY <1>1 DEF attendanceVars
  <2>2. SnapshotsOK'
    BY <2>1 DEF FactsOK, SnapshotsOK, OnceSet
  <2> QED BY <2>1, <2>2, FactsSame DEF FactsOK
<1>2. ASSUME NEW d \in Desk, NEW r \in Asked, AskRecord(d, r) \/ Ask(d, r)
      PROVE  FactsOK'
  BY <1>0, <1>2, FactsStay DEF AskRecord, Ask, Reply, Wait
<1>3. ASSUME NEW d \in Desk, RefuseDesk(d)
      PROVE  FactsOK'
  BY <1>0, <1>3, FactsStay DEF RefuseDesk, Reply
<1>4. ASSUME NEW d \in Desk, ReplyReplay(d), UNCHANGED asked
      PROVE  FactsOK'
  BY <1>0, <1>4, FactsStay DEF ReplyReplay, Reply
<1>5. ASSUME NEW d \in Desk, desk[d] = "waiting", asked[d].op # "record"
      PROVE  attendance # None /\ attendance \in Attendance /\ asked[d] \in AttendanceRequest
  BY <1>0, <1>5 DEF DeskOK, AttendanceTypeOK
<1>6. ASSUME NEW d \in Desk, RecordAttendance(d)
      PROVE  FactsOK'
  <2>1. CASE ReplyReplay(d)
    BY <1>4, <1>6, <2>1 DEF RecordAttendance
  <2>2. CASE ~ReplyReplay(d)
    <3> DEFINE r == asked[d]
               fact == [at |-> r.at, registration |-> r.registration]
               origin == IF r.registration = 0 THEN "walk_in" ELSE "registered"
               row == [status |-> "present", fact |-> fact, origin |-> origin]
    <3>1. Write(d, Compared(r), Unrecorded, fact, row) /\ r.op = "record" /\ UNCHANGED asked
      BY <1>6, <2>2 DEF RecordAttendance
    <3>2. row.fact = fact
      OBVIOUS
    <3> HIDE DEF row, fact
    <3> QED BY <1>0, <3>1, <3>2, FactsWritten
  <2> QED BY <2>1, <2>2
<1>7. ASSUME NEW d \in Desk, CorrectAttendance(d)
      PROVE  FactsOK'
  <2>1. CASE ReplyReplay(d)
    BY <1>4, <1>7, <2>1 DEF CorrectAttendance
  <2>2. CASE ~ReplyReplay(d)
    <3> DEFINE r == asked[d]
               fact == [at |-> r.at, registration |-> r.registration]
               before == [at |-> attendance.fact.at,
                          registration |-> AtHand(d, attendance.fact.registration)]
               row == [attendance EXCEPT !.fact = fact]
    <3>1. /\ Write(d, Compared(r), before, fact, row) /\ r.op = "correct" /\ UNCHANGED asked
          /\ desk[d] = "waiting"
      BY <1>7, <2>2 DEF CorrectAttendance
    <3>2. attendance # None /\ attendance \in Attendance
      BY <1>5, <3>1
    <3>3. before.at = attendance.fact.at
          /\ before.registration \in {0, attendance.fact.registration}
      BY DEF AtHand
    <3> HIDE DEF fact, before
    <3>4. row.fact = fact
      BY <3>2 DEF Attendance
    <3> HIDE DEF row
    <3> QED BY <1>0, <3>1, <3>2, <3>3, <3>4, FactsWritten
  <2> QED BY <2>1, <2>2
<1>8. ASSUME NEW d \in Desk, ChangeStatus(d)
      PROVE  FactsOK'
  <2>1. CASE ReplyReplay(d)
    BY <1>4, <1>8, <2>1 DEF ChangeStatus
  <2>2. CASE ~ReplyReplay(d)
    <3> DEFINE r == asked[d]
               fact == [at |-> attendance.fact.at, registration |-> snapshot[d]]
               status == IF r.op = "void" THEN "voided" ELSE "present"
               row == [attendance EXCEPT !.status = status]
    <3>1. /\ Write(d, Compared(r), fact, fact, row) /\ r.op \in {"void", "reinstate"}
          /\ UNCHANGED asked /\ desk[d] = "waiting"
      BY <1>8, <2>2 DEF ChangeStatus
    <3>2. attendance # None /\ attendance \in Attendance
      BY <1>5, <3>1
    <3>3. fact.at = attendance.fact.at /\ fact.registration = snapshot[d]
      OBVIOUS
    <3>4. OnceSet(snapshot[d], Len(trail))
      BY <3>1 DEF FactsOK, SnapshotsOK
    <3> HIDE DEF fact, status
    <3>5. row.fact = attendance.fact
      BY <3>2 DEF Attendance
    <3> HIDE DEF row
    <3> QED BY <1>0, <3>1, <3>2, <3>3, <3>4, <3>5, FactsWritten
  <2> QED BY <2>1, <2>2
<1> QED BY <1>1, <1>2, <1>3, <1>6, <1>7, <1>8 DEF Next, AttendanceNext, vars, attendanceVars

LEMMA FactsInvariance == Spec => []FactsOK
<1>1. Init => FactsOK
  <2> SUFFICES ASSUME Init PROVE FactsOK
    OBVIOUS
  <2>1. FactsAreALife
    BY DEF Init, FactsAreALife
  <2>2. SnapshotsOK
    BY DEF Init, SnapshotsOK
  <2> QED BY <2>1, <2>2 DEF FactsOK
<1> QED BY <1>1, FactsStep, JourneyInvariance, PTL DEF Spec

\* By however many members of staff at once: recorded once and first, corrected
\* and withdrawn only while present, restored only while withdrawn, and each from
\* the facts set last but for a registration read before the lock.
THEOREM TrailsAreLives == Spec => []TrailIsALife
<1>1. JourneyOK /\ FactsOK => TrailIsALife
  BY DEF JourneyOK, DeskOK, FactsOK, TrailIsALife
<1>2. QED
  BY <1>1, JourneyInvariance, FactsInvariance, PTL

\* Whoever is told done at a desk asked for what a transition under its key
\* records.
THEOREM DoneMeansRecorded == Spec => []DoneIsRecorded
<1>1. JourneyOK => DoneIsRecorded
  BY DEF JourneyOK, DeskOK, TracesOnce, RepliesRecorded, DoneIsRecorded
<1>2. QED
  BY <1>1, JourneyInvariance, PTL

\* A recording or correction is told a conflict only of a key that was used for
\* something else.
THEOREM RequestConflictsAreTrue == Spec => []RequestConflictIsTrue
<1>1. JourneyOK => RequestConflictIsTrue
  BY DEF JourneyOK, DeskOK, RepliesRecorded, RequestConflictIsTrue
<1>2. QED
  BY <1>1, JourneyInvariance, PTL

-----------------------------------------------------------------------------
LEMMA Rests ==
  ASSUME JourneyOK, [Next]_vars
  PROVE  LET i == (IF attendance' = None THEN Unrecorded ELSE attendance'.fact).registration
         IN  i \notin {0, Now.registration} =>
               rows[i].participant = Attendee /\ rows[i].state = "registered"
<1> DEFINE i == (IF attendance' = None THEN Unrecorded ELSE attendance'.fact).registration
<1> SUFFICES ASSUME i \notin {0, Now.registration}
             PROVE  Supports(i)
  BY DEF Supports
<1>1. attendance' # attendance
  BY DEF Now
<1>2. PICK d \in Desk : RecordAttendance(d) \/ CorrectAttendance(d) \/ ChangeStatus(d)
  BY <1>1 DEF Next, vars, attendanceVars, AttendanceNext, AskRecord, Ask, RefuseDesk
<1>3. ~ReplyReplay(d)
  BY <1>1 DEF ReplyReplay
<1>4. CASE RecordAttendance(d)
  <2>1. /\ attendance'.fact = [at |-> asked[d].at, registration |-> asked[d].registration]
        /\ asked[d].registration # 0 => Supports(asked[d].registration)
    BY <1>3, <1>4 DEF RecordAttendance, Write
  <2>2. QED
    BY <2>1 DEF Unrecorded
<1>5. CASE CorrectAttendance(d)
  <2>1. attendance # None /\ attendance \in Attendance
    BY <1>5 DEF CorrectAttendance, JourneyOK, DeskOK, AttendanceTypeOK
  <2>2. attendance'.fact = [at |-> asked[d].at, registration |-> asked[d].registration]
    BY <1>3, <1>5, <2>1 DEF CorrectAttendance, Write, Attendance
  <2>3. Correctable(asked[d])
    BY <1>5 DEF CorrectAttendance
  <2>4. QED
    BY <2>1, <2>2, <2>3 DEF Correctable, Unrecorded, Now
<1>6. CASE ChangeStatus(d)
  <2>1. attendance # None /\ attendance \in Attendance
    BY <1>6 DEF ChangeStatus, JourneyOK, DeskOK, AttendanceTypeOK
  <2>2. attendance'.fact = attendance.fact
    BY <1>3, <1>6, <2>1 DEF ChangeStatus, Write, Attendance
  <2>3. QED
    BY <2>1, <2>2 DEF Unrecorded, Now
<1>7. QED
  BY <1>2, <1>4, <1>5, <1>6

\* Attendance comes to rest only on a standing registration of the attendee,
\* whatever was cancelled while the call waited for the Event's row.
THEOREM RestsOnItsOwn == Spec => RestsOnStanding
<1>1. JourneyOK /\ [Next]_vars =>
        [LET i == (IF attendance' = None THEN Unrecorded ELSE attendance'.fact).registration
         IN  i \notin {0, Now.registration} =>
               rows[i].participant = Attendee /\ rows[i].state = "registered"]_vars
  BY Rests
<1>2. QED
  BY <1>1, JourneyInvariance, PTL DEF Spec, RestsOnStanding

-----------------------------------------------------------------------------
\* How the abstract standing of each participant moves.
standings == [p \in Participant |-> StandingOf(p)]

LEMMA RegisterStands ==
  ASSUME LinesOK, NEW c \in Caller, Register(c)
  PROVE  LET q == req[c].participant
         IN  /\ q \in Participant /\ standings[q] # "registered"
             /\ standings' = [standings EXCEPT ![q] = "registered"]
<1> DEFINE r == req[c]
           n == Len(rows) + 1
           new == [participant |-> r.participant, predecessor |-> r.predecessor,
                   state |-> "registered"]
<1>1. r \in RegisterRequest /\ r.participant \in Participant
  BY DEF LinesOK, RegistrationTypeOK, Register, Request, RegisterRequest, CancelRequest
<1>2. /\ Len(rows) \in Nat /\ DOMAIN rows = 1..Len(rows) /\ rows \in Seq(Row)
      /\ rows' = Append(rows, new)
  BY RowFields, RowsAssumption DEF LinesOK, RegistrationTypeOK, Register
<1>3. /\ new.participant = r.participant /\ new.state = "registered"
  OBVIOUS
<1> HIDE DEF new
<1>4. /\ DOMAIN rows' = 1..n /\ rows'[n] = new /\ n \notin DOMAIN rows
      /\ \A i \in DOMAIN rows : i \in DOMAIN rows' /\ rows'[i] = rows[i]
      /\ \A i \in DOMAIN rows' : i = n \/ i \in DOMAIN rows
      /\ n \in DOMAIN rows'
  BY <1>2
<1>5. \A j \in Of(r.participant) : rows[j].state = "cancelled"
  BY <1>1, LineEnds DEF LinesOK, Register
<1> HIDE DEF r, n
<1>6. StandingOf(r.participant) # "registered"
  BY <1>5 DEF StandingOf
<1>7. ASSUME NEW p \in Participant, p = r.participant
      PROVE  StandingOf(p)' = "registered"
  <2>1. /\ Of(p)' # {}
        /\ \E i \in Of(p)' : rows'[i].state = "registered"
    BY <1>3, <1>4, <1>7 DEF Of
  <2>2. QED
    BY <2>1 DEF StandingOf
<1>8. ASSUME NEW p \in Participant, p # r.participant
      PROVE  StandingOf(p)' = StandingOf(p)
  <2>1. Of(p)' = Of(p)
    BY <1>3, <1>4, <1>8 DEF Of
  <2>2. \A i \in Of(p) : rows'[i] = rows[i]
    BY <1>4 DEF Of
  <2>3. QED
    BY <2>1, <2>2 DEF StandingOf
<1>9. ASSUME NEW p \in Participant
      PROVE  StandingOf(p)' = IF p = r.participant THEN "registered" ELSE StandingOf(p)
  BY <1>7, <1>8
<1> DEFINE before(p) == StandingOf(p)
           after(p) == StandingOf(p)'
<1> HIDE DEF before, after
<1>11. [p \in Participant |-> after(p)]
         = [[p \in Participant |-> before(p)] EXCEPT ![r.participant] = "registered"]
  BY <1>1, <1>9 DEF before, after, r
<1>12. QED
  BY <1>1, <1>6, <1>11 DEF standings, r, before, after

LEMMA CancelStands ==
  ASSUME LinesOK, NEW c \in Caller, Cancel(c), ~KeyTaken(req[c])
  PROVE  LET q == rows[req[c].row].participant
         IN  /\ q \in Participant /\ standings[q] = "registered"
             /\ standings' = [standings EXCEPT ![q] = "cancelled"]
<1> DEFINE n == req[c].row
           q == rows[n].participant
           gone == [rows[n] EXCEPT !.state = "cancelled"]
<1>1. /\ rows[n].state = "registered" /\ rows' = [rows EXCEPT ![n] = gone]
      /\ n \in DOMAIN rows
  BY DEF Cancel, Standing, LinesOK, RegistrationTypeOK
<1>2. /\ rows[n] \in Row /\ q \in Participant /\ DOMAIN rows = 1..Len(rows)
      /\ Len(rows) \in Nat
  BY <1>1, RowFields, RowsAssumption DEF LinesOK
<1>3. gone.state = "cancelled" /\ gone.participant = q
  BY <1>2 DEF Row
<1> HIDE DEF n, gone
<1>4. /\ DOMAIN rows' = DOMAIN rows /\ rows'[n] = gone
      /\ \A i \in DOMAIN rows : i # n => rows'[i] = rows[i]
  BY <1>1
<1>5. \A i \in DOMAIN rows : rows[i].participant = q /\ i # n => rows[i].state = "cancelled"
  <2> SUFFICES ASSUME NEW i \in DOMAIN rows, rows[i].participant = q, i # n
               PROVE  rows[i].state = "cancelled"
    OBVIOUS
  <2>1. CASE i < n
    BY <1>1, <2>1 DEF LinesOK, OneLine, Of
  <2>2. ~(n < i)
    BY <1>1 DEF LinesOK, OneLine, Of
  <2>3. QED
    BY <1>1, <1>2, <2>1, <2>2
<1> HIDE DEF q
<1>6. \A p \in Participant : Of(p)' = Of(p)
  BY <1>1, <1>3, <1>4 DEF Of, q
<1>7. n \in Of(q)
  BY <1>1 DEF Of, q
<1>8. StandingOf(q) = "registered"
  BY <1>1, <1>7 DEF StandingOf
<1>9. ASSUME NEW p \in Participant, p = q
      PROVE  StandingOf(p)' = "cancelled"
  <2>1. Of(p)' = Of(p) /\ n \in Of(p)
    BY <1>6, <1>7, <1>9
  <2>2. \A i \in Of(p) : rows'[i].state = "cancelled"
    BY <1>2, <1>3, <1>4, <1>5, <1>9 DEF Of
  <2>3. QED
    BY <2>1, <2>2 DEF StandingOf
<1>10. ASSUME NEW p \in Participant, p # q
       PROVE  StandingOf(p)' = StandingOf(p)
  <2>1. \A i \in Of(p) : rows'[i] = rows[i]
    BY <1>4, <1>10 DEF Of, q
  <2>2. Of(p)' = Of(p)
    BY <1>6
  <2>3. QED
    BY <2>1, <2>2 DEF StandingOf
<1>11. ASSUME NEW p \in Participant
       PROVE  StandingOf(p)' = IF p = q THEN "cancelled" ELSE StandingOf(p)
  BY <1>9, <1>10
<1> DEFINE before(p) == StandingOf(p)
           after(p) == StandingOf(p)'
<1> HIDE DEF before, after
<1>12. [p \in Participant |-> after(p)]
         = [[p \in Participant |-> before(p)] EXCEPT ![q] = "cancelled"]
  BY <1>2, <1>11 DEF before, after
<1>13. QED
  BY <1>2, <1>8, <1>12 DEF standings, q, n, before, after

\* What the promise sees of the attendance.
status == IF attendance = None THEN "unrecorded" ELSE attendance.status
origin == IF attendance = None THEN "none" ELSE attendance.origin

\* A participant who stands registered has a registration that does.
LEMMA AttendeeStands ==
  ASSUME RegistrationTypeOK, NEW i, Supports(i)
  PROVE  standings[Attendee] = "registered"
<1>1. i \in Of(Attendee) /\ rows[i].state = "registered"
  BY DEF Supports, Of
<1>2. StandingOf(Attendee) = "registered"
  BY <1>1 DEF StandingOf
<1>3. QED
  BY <1>2, AttendeeAssumption DEF standings

LEMMA RegistrationPromise ==
  ASSUME JourneyOK, RegistrationNext, UNCHANGED attendanceVars
  PROVE  Promise!Next \/ UNCHANGED <<event, standings, status, origin>>
<1>1. UNCHANGED <<attendance, status, origin>>
  BY DEF attendanceVars, status, origin
<1>2. ASSUME NEW c \in Caller, Register(c) PROVE Promise!Next
  <2>1. Open /\ UNCHANGED event
    BY <1>2 DEF Register
  <2>2. Promise!Register(req[c].participant) /\ req[c].participant \in Participant
    BY <1>1, <1>2, <2>1, RegisterStands
       DEF Promise!Register, Promise!Open, Open, JourneyOK, standings, status, origin
  <2>3. QED
    BY <2>2 DEF Promise!Next
<1>3. ASSUME NEW c \in Caller, Cancel(c), ~KeyTaken(req[c]) PROVE Promise!Next
  <2>1. Open /\ UNCHANGED event
    BY <1>3 DEF Cancel
  <2>2. Promise!Cancel(rows[req[c].row].participant)
        /\ rows[req[c].row].participant \in Participant
    BY <1>1, <1>3, <2>1, CancelStands
       DEF Promise!Cancel, Promise!Open, Open, JourneyOK, standings, status, origin
  <2>3. QED
    BY <2>2 DEF Promise!Next
<1>4. UNCHANGED rows => UNCHANGED standings
  BY DEF standings, StandingOf, Of
<1>5. CASE MoveEvent
  <2>1. PICK m \in EventMoves : m.from = event /\ event' = m.to
    BY <1>5 DEF MoveEvent
  <2>2. m \in Promise!EventMoves
    BY DEF EventMoves, Step, Promise!EventMoves, Promise!Step, Absent, Promise!Absent
  <2>3. UNCHANGED standings
    BY <1>4, <1>5 DEF MoveEvent
  <2>4. Promise!MoveEvent
    BY <1>1, <2>1, <2>2, <2>3 DEF Promise!MoveEvent, standings, status, origin
  <2>5. QED
    BY <2>4 DEF Promise!Next
<1>6. ASSUME UNCHANGED <<event, rows>>
      PROVE  UNCHANGED <<event, standings, status, origin>>
  BY <1>1, <1>4, <1>6
<1>7. QED
  BY <1>2, <1>3, <1>5, <1>6
     DEF RegistrationNext, Call, Refuse, AnswerReplay, Cancel, CancelAgain

LEMMA AttendancePromise ==
  ASSUME JourneyOK, AttendanceNext, UNCHANGED registrationVars
  PROVE  Promise!Next \/ UNCHANGED <<event, standings, status, origin>>
<1>1. UNCHANGED <<event, rows>>
  BY DEF registrationVars
<1>2. UNCHANGED standings
  BY <1>1 DEF standings, StandingOf, Of
<1>3. CASE UNCHANGED attendance
  BY <1>1, <1>2, <1>3 DEF status, origin
<1>4. ASSUME attendance' # attendance PROVE Promise!Next \/ UNCHANGED <<status, origin>>
  <2>1. PICK d \in Desk : RecordAttendance(d) \/ CorrectAttendance(d) \/ ChangeStatus(d)
    BY <1>4 DEF AttendanceNext, AskRecord, Ask, RefuseDesk
  <2>2. ~ReplyReplay(d)
    BY <1>4 DEF ReplyReplay
  <2>3. attendance # None => attendance \in Attendance /\ status = attendance.status
                             /\ origin = attendance.origin
    BY DEF JourneyOK, DeskOK, AttendanceTypeOK, status, origin
  <2>4. attendance' # None => status' = attendance'.status /\ origin' = attendance'.origin
    BY DEF status, origin
  <2>5. CASE RecordAttendance(d)
    <3> DEFINE r == asked[d]
               o == IF r.registration = 0 THEN "walk_in" ELSE "registered"
    <3>1. /\ attendance = None /\ attendance'.status = "present" /\ attendance'.origin = o
          /\ event = "active" /\ (r.registration # 0 => Supports(r.registration))
      BY <2>2, <2>5 DEF RecordAttendance, Write, Recording
    <3>2. attendance' # None
      BY <1>4, <3>1
    <3>3. status = "unrecorded" /\ status' = "present" /\ origin' = o
      BY <2>4, <3>1, <3>2 DEF status
    <3>4. o = "registered" => standings[Attendee] = "registered"
      BY <3>1, AttendeeStands DEF JourneyOK, LinesOK
    <3>5. Promise!RecordAttendance(o)
      BY <1>1, <1>2, <3>1, <3>3, <3>4
         DEF Promise!RecordAttendance, standings, status, origin
    <3>6. QED
      BY <3>5 DEF Promise!Next
  <2>6. CASE CorrectAttendance(d)
    <3>1. attendance # None
      BY <2>6 DEF CorrectAttendance, JourneyOK, DeskOK, AttendanceTypeOK
    <3>2. attendance'.status = attendance.status /\ attendance'.origin = attendance.origin
      BY <2>2, <2>3, <2>6, <3>1 DEF CorrectAttendance, Write, Attendance
    <3>3. attendance' # None
      <4> DEFINE fact == [at |-> asked[d].at, registration |-> asked[d].registration]
      <4>1. attendance' = [attendance EXCEPT !.fact = fact]
        BY <2>2, <2>6 DEF CorrectAttendance, Write
      <4>2. asked[d] \in AttendanceRequest /\ asked[d].op = "correct"
        BY <2>6 DEF CorrectAttendance, JourneyOK, DeskOK, AttendanceTypeOK
      <4>3. fact \in Fact
        BY <4>2, AskedFields DEF Fact
      <4> HIDE DEF fact
      <4>4. attendance' \in Attendance
        BY <2>3, <3>1, <4>1, <4>3 DEF Attendance
      <4>5. QED
        BY <4>4, NoRecordAssumption
    <3>4. QED
      BY <2>3, <2>4, <3>1, <3>2, <3>3
  <2>7. CASE ChangeStatus(d)
    <3> DEFINE s == IF asked[d].op = "void" THEN "voided" ELSE "present"
    <3>1. attendance # None /\ asked[d].op \in {"void", "reinstate"}
      BY <2>7 DEF ChangeStatus, JourneyOK, DeskOK, AttendanceTypeOK
    <3>2. /\ attendance' = [attendance EXCEPT !.status = s]
          /\ attendance.status = Expected(asked[d])
      BY <2>2, <2>7 DEF ChangeStatus, Write
    <3>3. attendance'.status = s /\ attendance'.origin = attendance.origin
          /\ attendance' \in Attendance
      BY <2>3, <3>1, <3>2 DEF Attendance
    <3>4. attendance' # None
      BY <3>3, NoRecordAssumption
    <3>5. status = Expected(asked[d]) /\ status' = s /\ origin' = origin
      BY <2>3, <2>4, <3>1, <3>2, <3>3, <3>4
    <3>6. CASE asked[d].op = "void"
      <4>1. Promise!Withdraw
        BY <1>1, <1>2, <3>5, <3>6 DEF Promise!Withdraw, Expected, standings, status, origin
      <4>2. QED
        BY <4>1 DEF Promise!Next
    <3>7. CASE asked[d].op = "reinstate"
      <4>1. Promise!Restore
        BY <1>1, <1>2, <3>5, <3>7 DEF Promise!Restore, Expected, standings, status, origin
      <4>2. QED
        BY <4>1 DEF Promise!Next
    <3>8. QED
      BY <3>1, <3>6, <3>7
  <2>8. QED
    BY <2>1, <2>5, <2>6, <2>7
<1>5. QED
  BY <1>1, <1>2, <1>3, <1>4

\* Registration and attendance implement JourneyPromise.
THEOREM JourneyKeepsPromise == Spec => PromiseKept
<1>1. Init => Promise!Init
  <2> SUFFICES ASSUME Init PROVE Promise!Init
    OBVIOUS
  <2>1. \A p \in Participant : StandingOf(p) = "none"
    BY DEF Init, RegistrationInit, StandingOf, Of
  <2>2. QED
    BY <2>1 DEF Init, RegistrationInit, Promise!Init
<1>2. JourneyOK /\ [Next]_vars => [Promise!Next]_<<event, standings, status, origin>>
  <2>1. UNCHANGED vars => UNCHANGED <<event, standings, status, origin>>
    BY DEF vars, standings, StandingOf, Of, status, origin
  <2>2. QED
    BY <2>1, RegistrationPromise, AttendancePromise DEF Next
<1>3. QED
  BY <1>1, <1>2, JourneyInvariance, PTL
     DEF Spec, PromiseKept, Promise!Spec, standings, status, origin
=============================================================================
