------------------------ MODULE CommandIntakeProofs -------------------------
(***************************************************************************)
(* Theorems about CommandIntake, for any number of actors, calls, request  *)
(* keys and contents, however often the callers repeat their calls.        *)
(***************************************************************************)
EXTENDS CommandIntake, TLAPS

-----------------------------------------------------------------------------
(* Lemmas: entries, stages and slots.                                      *)

LEMMA ActionType == ASSUME NEW e \in Entries PROVE ActionOf[e] \in Actions
BY DEF Entries, ActionOf, Actions

\* A stage is in the sequence of one or two stages and has a slot of the
\* declared kind.
LEMMA StagesType ==
  ASSUME NEW r, r.entry \in Entries, r.key \in Key
  PROVE  /\ Len(Stages(r)) \in 1..2
         /\ DOMAIN Stages(r) = 1..Len(Stages(r))
         /\ \A n \in DOMAIN Stages(r) : Stages(r)[n] \in SlotSet
         /\ OwnSlot(r) \in SlotSet /\ ElectionSlot(r) \in SlotSet
<1>1. OwnSlot(r) \in SlotSet
  BY ActionType DEF OwnSlot, Slot, SlotSet
<1>2. ElectionSlot(r) \in SlotSet
  BY DEF ElectionSlot, Slot, SlotSet, Actions
<1>3. CASE r.entry \in Compound
  <2> DEFINE s == Slot("REQUEST_GOVERNANCE_SEAT", "request", r.key)
             t == Slot("ADMIT_CIRCLE_PARTICIPANT", "admit", r.key)
  <2>1. s \in SlotSet /\ t \in SlotSet
    BY DEF Slot, SlotSet, Actions
  <2>2. Stages(r) = <<s, t>>
    BY <1>3 DEF Stages
  <2> HIDE DEF s, t
  <2> QED BY <1>1, <1>2, <2>1, <2>2
<1>4. CASE r.entry \notin Compound
  <2> DEFINE s == OwnSlot(r)
  <2>1. Stages(r) = <<s>>
    BY <1>4 DEF Stages
  <2> HIDE DEF s
  <2> QED BY <1>1, <1>2, <2>1 DEF s
<1> QED BY <1>3, <1>4

\* What a receipt's slot tells of its request.
LEMMA SlotTells ==
  ASSUME NEW b \in Rows, NEW s \in ReceiptSlots(b)
  PROVE  /\ b.entry \in Compound => s.form \in {"request", "admit"} /\ s.key = b.key
         /\ b.entry \notin Compound => s = OwnSlot(b) /\ s.form = "own"
<1>1. CASE b.entry \in Compound
  <2> DEFINE t == Slot("REQUEST_GOVERNANCE_SEAT", "request", b.key)
             u == Slot("ADMIT_CIRCLE_PARTICIPANT", "admit", b.key)
  <2>1. Stages(b) = <<t, u>>
    BY <1>1 DEF Stages
  <2>2. s = t \/ s = u
    <3> HIDE DEF t, u
    <3> QED BY <2>1 DEF ReceiptSlots
  <2> QED BY <1>1, <2>2 DEF Slot
<1>2. CASE b.entry \notin Compound
  <2> DEFINE t == OwnSlot(b)
  <2>1. Stages(b) = <<t>>
    BY <1>2 DEF Stages
  <2>2. s = t
    <3> HIDE DEF t
    <3> QED BY <2>1 DEF ReceiptSlots
  <2>3. t.form = "own"
    BY DEF OwnSlot, Slot
  <2> QED BY <1>2, <2>2, <2>3
<1> QED BY <1>1, <1>2

\* Two requests under different own slots have no receipt slot in common (their
\* decisions' slots may meet: a Birthing's election): a receipt tells which
\* request it is of.
LEMMA SlotsApart ==
  ASSUME NEW b \in Rows, NEW c \in Rows,
         NEW s \in ReceiptSlots(b), s \in ReceiptSlots(c)
  PROVE  OwnSlot(b) = OwnSlot(c)
<1>1. /\ b.entry \in Compound => s.form \in {"request", "admit"} /\ s.key = b.key
      /\ b.entry \notin Compound => s = OwnSlot(b) /\ s.form = "own"
  BY SlotTells
<1>2. /\ c.entry \in Compound => s.form \in {"request", "admit"} /\ s.key = c.key
      /\ c.entry \notin Compound => s = OwnSlot(c) /\ s.form = "own"
  BY SlotTells
<1>3. CASE b.entry \in Compound /\ c.entry \in Compound
  <2>1. b.key = c.key
    BY <1>1, <1>2, <1>3
  <2>2. ActionOf[b.entry] = "ADMIT_CIRCLE_PARTICIPANT" /\ ActionOf[c.entry] = "ADMIT_CIRCLE_PARTICIPANT"
    BY <1>3 DEF Compound, ActionOf
  <2> QED BY <2>1, <2>2 DEF OwnSlot
<1>4. CASE ~(b.entry \in Compound /\ c.entry \in Compound)
  BY <1>1, <1>2, <1>4
<1> QED BY <1>3, <1>4

\* The stages of one request have different slots.
LEMMA StagesDiffer ==
  ASSUME NEW b \in Rows, NEW m \in DOMAIN Stages(b), NEW n \in DOMAIN Stages(b),
         Stages(b)[m] = Stages(b)[n]
  PROVE  m = n
<1>1. CASE b.entry \in Compound
  <2>1. Stages(b)[1].form = "request" /\ Stages(b)[2].form = "admit" /\ DOMAIN Stages(b) = 1..2
    BY <1>1 DEF Stages, Slot
  <2> QED BY <2>1
<1>2. CASE b.entry \notin Compound
  <2>1. DOMAIN Stages(b) = 1..1
    BY <1>2 DEF Stages
  <2> QED BY <2>1
<1> QED BY <1>1, <1>2

-----------------------------------------------------------------------------
(* Lemmas: what the operators that build bindings and records return.      *)

LEMMA BindingType ==
  ASSUME Types, NEW a \in Attempt, req[a] # None
  PROVE  Binding(req[a], seen[a], clock) \in Rows
BY RequestAssumption DEF Types, Binding, Rows, Content

LEMMA ReceiptType ==
  ASSUME NEW b \in Rows, NEW s \in SlotSet
  PROVE  Receipt(b, s) \in Records
BY BoundAssumption DEF Receipt, Records, Rows

LEMMA DecisionType ==
  ASSUME NEW b \in Rows, NEW s \in SlotSet, NEW o \in {"QUALIFIED", "REFUSED"}
  PROVE  Decision(b, s, o) \in Records
BY BoundAssumption DEF Decision, Records, Rows

LEMMA SlotType ==
  ASSUME Types, NEW a \in Attempt, AttemptOK(a), row[a] # None
  PROVE  /\ row[a] \in Rows
         /\ CurrentSlot(a) \in SlotSet
         /\ CurrentSlot(a) \in ReceiptSlots(row[a])
<1>1. row[a] \in Rows
  BY DEF Types
<1>2. row[a].entry \in Entries /\ row[a].key \in Key
  BY <1>1 DEF Rows
<1>3. stage[a] \in DOMAIN Stages(row[a])
  BY DEF AttemptOK
<1>4. Stages(row[a])[stage[a]] \in SlotSet
  BY <1>2, <1>3, StagesType
<1> QED BY <1>1, <1>3, <1>4 DEF CurrentSlot, ReceiptSlots

\* What a commit writes: records of the stage, all of the attempt's binding.
LEMMA WrittenType ==
  ASSUME Types, NEW a \in Attempt, AttemptOK(a), row[a] # None,
         NEW g \in Written(a)
  PROVE  /\ g \in Records
         /\ \/ /\ plan[a] = "done"
               /\ g = Receipt(row[a], CurrentSlot(a))
            \/ \E s \in Slots(row[a]), o \in {"QUALIFIED", "REFUSED"} :
                 g = Decision(row[a], s, o)
<1> DEFINE b == row[a]
           s == CurrentSlot(a)
           t == ElectionSlot(b)
           o == IF plan[a] = "refused" THEN "REFUSED" ELSE "QUALIFIED"
           q == IF plan[a] = "done" THEN "QUALIFIED" ELSE "REFUSED"
<1>1. b \in Rows /\ s \in SlotSet /\ s \in ReceiptSlots(b)
  BY SlotType
<1>2. t \in SlotSet
  <2>1. b.entry \in Entries /\ b.key \in Key
    BY <1>1 DEF Rows
  <2> QED BY <2>1, StagesType
<1>3. s \in Slots(b) /\ (b.entry = "BIRTHING" => t \in Slots(b))
  BY <1>1 DEF Slots
<1>4. o \in {"QUALIFIED", "REFUSED"} /\ q \in {"QUALIFIED", "REFUSED"}
  OBVIOUS
<1>5. \/ g = Receipt(b, s) /\ plan[a] = "done"
      \/ g = Decision(b, s, o)
      \/ g = Decision(b, t, q) /\ b.entry = "BIRTHING"
  BY DEF Written, Decided
<1> HIDE DEF b, s, t, o, q
<1>6. CASE g = Receipt(b, s) /\ plan[a] = "done"
  BY <1>1, <1>6, ReceiptType DEF b, s
<1>7. CASE g = Decision(b, s, o)
  BY <1>1, <1>3, <1>4, <1>7, DecisionType DEF b
<1>8. CASE g = Decision(b, t, q) /\ b.entry = "BIRTHING"
  BY <1>1, <1>2, <1>3, <1>4, <1>8, DecisionType DEF b
<1> QED BY <1>5, <1>6, <1>7, <1>8

-----------------------------------------------------------------------------
(* Types.                                                                  *)

\* The steps of one attempt.
Step(a) == (\E r \in Request : Call(a, r)) \/ Admit(a) \/ Execute(a)

LEMMA NextIsSteps ==
  ASSUME [Next]_vars
  PROVE  \/ \E a \in Attempt : Step(a)
         \/ \E x \in Actor : \E c \in Changes : ChangeAccess(x, c[2])
         \/ Tick
         \/ UNCHANGED vars
BY DEF Next, Step

LEMMA AdmitTypes ==
  ASSUME Types, NEW a \in Attempt, AttemptOK(a), Admit(a)
  PROVE  Types'
<1>0. req[a] # None
  <2>1. pc[a] \in Admitting
    BY DEF Admit, Look, History, CheckHistory, Reread, Insert, ReadBack, LoseAdmission, Admitting
  <2> QED BY <2>1 DEF AttemptOK, Admitting
<1>1. CASE Look(a)
  BY <1>1 DEF Types, Look, Existing, Bind, Goto, Tell, database, PCs, Admitting, Answers
<1>2. CASE History(a)
  <2>1. Recorded(req[a]) \subseteq Records
    BY DEF Types, Recorded
  <2>2. IF Recorded(req[a]) = {} THEN pc' = [pc EXCEPT ![a] = "insert"]
        ELSE pc' = [pc EXCEPT ![a] = "candidates"]
    BY <1>2 DEF History, Goto
  <2> QED BY <1>2, <2>1, <2>2 DEF Types, History, database, PCs, Admitting
<1>3. CASE CheckHistory(a)
  <2>1. pc' = [pc EXCEPT ![a] = "insert"] \/ pc' = [pc EXCEPT ![a] = "reread"]
    BY <1>3 DEF CheckHistory, Goto
  <2> QED BY <1>3, <2>1 DEF Types, CheckHistory, database, PCs, Admitting
<1>4. CASE Reread(a)
  BY <1>4 DEF Types, Reread, Existing, Bind, Goto, Tell, database, PCs, Admitting, Answers
<1> DEFINE b == Binding(req[a], seen[a], clock)
<1>5. b \in Rows
  BY <1>0, BindingType
<1>6. CASE Insert(a)
  <2>1. intake' = intake \union {b} \/ intake' = intake
    BY <1>6 DEF Insert, InsertRow
  <2>2. \/ Goto(a, "readback") /\ UNCHANGED row
        \/ Goto(a, "bound") /\ row' = [row EXCEPT ![a] = b]
    BY <1>6 DEF Insert
  <2>3. UNCHANGED <<clock, access, epoch, lock, organism, records, req, seen, found, stage, plan, told>>
    BY <1>6 DEF Insert
  <2> HIDE DEF b
  <2> QED BY <1>5, <2>1, <2>2, <2>3 DEF Types, Goto, PCs, Admitting
<1>7. CASE ReadBack(a)
  BY <1>7 DEF Types, ReadBack, Existing, Bind, Goto, Tell, database, PCs, Admitting, Answers
<1>8. CASE LoseAdmission(a)
  <2>1. intake' = intake \union {b} \/ intake' = intake
    BY <1>8 DEF LoseAdmission, InsertRow
  <2>2. Tell(a, "unconfirmed")
    BY <1>8 DEF LoseAdmission
  <2>3. UNCHANGED <<clock, access, epoch, lock, organism, records, req, seen, found, row, stage, plan>>
    BY <1>8 DEF LoseAdmission
  <2> HIDE DEF b
  <2> QED BY <1>5, <2>1, <2>2, <2>3 DEF Types, Goto, Tell, PCs, Admitting, Answers
<1> QED BY <1>1, <1>2, <1>3, <1>4, <1>6, <1>7, <1>8 DEF Admit

\* A served attempt is told so or is at the next of two stages.
LEMMA ServedSteps ==
  ASSUME Types, NEW a \in Attempt, AttemptOK(a), row[a] # None, Served(a)
  PROVE  \/ /\ pc' = [pc EXCEPT ![a] = "bound"]
            /\ stage' = [stage EXCEPT ![a] = 2]
            /\ told' = told
            /\ stage[a] = 1 /\ Len(Stages(row[a])) = 2
         \/ /\ pc' = [pc EXCEPT ![a] = "told"]
            /\ told' = [told EXCEPT ![a] = "done"]
            /\ stage' = stage
            /\ stage[a] = Len(Stages(row[a]))
<1>1. row[a] \in Rows /\ stage[a] \in DOMAIN Stages(row[a])
  BY DEF Types, AttemptOK
<1>2. row[a].entry \in Entries /\ row[a].key \in Key
  BY <1>1 DEF Rows
<1> DEFINE l == Len(Stages(row[a]))
           n == stage[a]
<1>3. l \in 1..2 /\ n \in 1..l
  BY <1>1, <1>2, StagesType
<1> HIDE DEF l, n
<1>4. CASE n < l
  <2>1. n = 1 /\ l = 2
    BY <1>3, <1>4
  <2> QED BY <1>4, <2>1 DEF Served, Goto, l, n
<1>5. CASE ~(n < l)
  <2>1. n = l
    BY <1>3, <1>5
  <2> QED BY <1>5, <2>1 DEF Served, Tell, Goto, l, n
<1> QED BY <1>4, <1>5

\* ... in the declared types.
LEMMA ServedType ==
  ASSUME Types, NEW a \in Attempt, AttemptOK(a), row[a] # None, Served(a)
  PROVE  /\ pc' \in [Attempt -> PCs]
         /\ stage' \in [Attempt -> 1..2]
         /\ told' \in [Attempt -> Answers]
<1>1. CASE /\ pc' = [pc EXCEPT ![a] = "bound"]
           /\ stage' = [stage EXCEPT ![a] = 2]
           /\ told' = told
  BY <1>1 DEF Types, PCs, Answers
<1>2. CASE /\ pc' = [pc EXCEPT ![a] = "told"]
           /\ told' = [told EXCEPT ![a] = "done"]
           /\ stage' = stage
  BY <1>2 DEF Types, PCs, Answers
<1> QED BY <1>1, <1>2, ServedSteps

LEMMA FreeType ==
  ASSUME Types, NEW a \in Attempt, Free(a)
  PROVE  lock' \in [Actor -> Attempt \union {None}] /\ organism' \in Attempt \union {None}
BY DEF Types, Free

LEMMA ExecuteTypes ==
  ASSUME Types, NEW a \in Attempt, AttemptOK(a), Execute(a)
  PROVE  Types'
<1>0. row[a] # None
  <2>1. pc[a] \in {"bound"} \union InTransaction
    BY DEF Execute, Begin, Replay, Perform, Commit, RollBack, LoseCommit, InTransaction
  <2> QED BY <2>1 DEF AttemptOK
<1>1. CASE Begin(a)
  BY <1>1 DEF Types, Begin, Goto, Tell, PCs, InTransaction, Answers
<1>2. CASE Replay(a)
  <2>1. UNCHANGED <<clock, access, epoch, intake, records, req, seen, found, row, plan>>
    BY <1>2 DEF Replay
  <2>2. CASE Goto(a, "fresh") /\ UNCHANGED <<lock, organism, stage, told>>
    BY <2>1, <2>2 DEF Types, Goto, PCs, InTransaction
  <2>3. CASE Served(a) /\ Free(a)
    BY <1>0, <2>1, <2>3, ServedType, FreeType DEF Types
  <2>4. CASE Tell(a, "collision") /\ UNCHANGED stage /\ Free(a)
    BY <2>1, <2>4, FreeType DEF Types, Tell, Goto, PCs, Answers
  <2> QED BY <1>2, <2>2, <2>3, <2>4 DEF Replay
<1>3. CASE \E p \in Plans : Perform(a, p)
  <2> PICK p \in Plans : Perform(a, p)
    BY <1>3
  <2> QED BY DEF Types, Perform, Goto, PCs, InTransaction
<1>4. Written(a) \subseteq Records
  BY <1>0, WrittenType
<1>5. CASE Commit(a)
  <2>1. UNCHANGED <<clock, access, epoch, intake, req, seen, found, row>> /\ EndPlan(a) /\ Free(a)
    BY <1>5 DEF Commit
  <2>2. records' \subseteq Records
    BY <1>4, <1>5 DEF Commit, Types
  <2>3. Served(a) \/ (Tell(a, "refused") /\ UNCHANGED stage) \/ (Tell(a, "duplicate") /\ UNCHANGED stage)
    BY <1>5 DEF Commit
  <2>4. CASE Served(a)
    BY <1>0, <2>1, <2>2, <2>4, ServedType, FreeType DEF Types, EndPlan
  <2>5. CASE Tell(a, "refused") /\ UNCHANGED stage
    BY <2>1, <2>2, <2>5, FreeType DEF Types, PCs, Answers, EndPlan, Tell, Goto
  <2>6. CASE Tell(a, "duplicate") /\ UNCHANGED stage
    BY <2>1, <2>2, <2>6, FreeType DEF Types, PCs, Answers, EndPlan, Tell, Goto
  <2> QED BY <2>3, <2>4, <2>5, <2>6
<1>6. CASE RollBack(a)
  BY <1>6, FreeType DEF Types, RollBack, PCs, Answers, EndPlan, Tell, Goto
<1>7. CASE LoseCommit(a)
  <2>1. records' \subseteq Records
    BY <1>4, <1>7 DEF LoseCommit, Types
  <2> QED BY <1>7, <2>1, FreeType DEF Types, LoseCommit, PCs, Answers, EndPlan, Tell, Goto
<1> QED BY <1>1, <1>2, <1>3, <1>5, <1>6, <1>7 DEF Execute

LEMMA TypesKept ==
  ASSUME Types, \A a \in Attempt : AttemptOK(a), [Next]_vars
  PROVE  Types'
<1>1. ASSUME NEW a \in Attempt, Step(a)
      PROVE  Types'
  <2>1. ASSUME NEW r \in Request, Call(a, r)
        PROVE  Types'
    <3>1. epoch[r.actor] \in 0..MaxEpoch
      BY RequestAssumption DEF Types, Content
    <3> QED BY <2>1, <3>1 DEF Types, Call, Goto, database, PCs, Admitting, Answers
  <2> QED BY <1>1, <2>1, AdmitTypes, ExecuteTypes DEF Step
<1>2. ASSUME NEW x \in Actor, NEW c \in Changes, ChangeAccess(x, c[2])
      PROVE  Types'
  <2>1. c[2] \in {"ACTIVE", "RESTRICTED", "DEACTIVATED"}
    BY DEF Changes
  <2>2. epoch[x] + 1 \in 0..MaxEpoch
    BY <1>2, BoundAssumption DEF ChangeAccess, Types
  <2> QED BY <1>2, <2>1, <2>2 DEF Types, ChangeAccess, attempts
<1>3. CASE Tick
  BY <1>3, BoundAssumption DEF Types, Tick, attempts
<1>4. CASE UNCHANGED vars
  BY <1>4 DEF Types, vars
<1> QED BY <1>1, <1>2, <1>3, <1>4, NextIsSteps

-----------------------------------------------------------------------------
(* What a step of one attempt leaves alone.                                *)

\* The other attempts stand still.
OthersStand(a) ==
  \A c \in Attempt \ {a} :
    /\ pc'[c] = pc[c] /\ req'[c] = req[c] /\ seen'[c] = seen[c] /\ found'[c] = found[c]
    /\ row'[c] = row[c] /\ stage'[c] = stage[c] /\ plan'[c] = plan[c] /\ told'[c] = told[c]

\* Nobody else's lock is taken or released.
LocksStand(a) ==
  \A c \in Attempt \ {a} :
    /\ \A x \in Actor : lock'[x] = c <=> lock[x] = c
    /\ organism' = c <=> organism = c

\* Rows and records are only added, records by a commit only.
Grows(a) ==
  /\ intake \subseteq intake' /\ records \subseteq records'
  /\ \A g \in records' \ records : pc[a] = "written" /\ g \in Written(a)

Moves(a) ==
  /\ OthersStand(a) /\ LocksStand(a) /\ Grows(a)
  /\ UNCHANGED <<clock, access, epoch>>

LEMMA FreeStands ==
  ASSUME Types, NEW a \in Attempt, Free(a)
  PROVE  LocksStand(a)
BY NoneAssumption DEF Types, Free, LocksStand

LEMMA ServedStands ==
  ASSUME Types, NEW a \in Attempt, Served(a)
  PROVE  \A c \in Attempt \ {a} : pc'[c] = pc[c] /\ stage'[c] = stage[c] /\ told'[c] = told[c]
BY DEF Types, Served, Tell, Goto

LEMMA StepMoves ==
  ASSUME Types, NEW a \in Attempt, Step(a)
  PROVE  Moves(a)
<1>1. CASE Admit(a)
  <2>1. Grows(a)
    BY <1>1 DEF Admit, Look, History, CheckHistory, Reread, Insert, ReadBack, LoseAdmission,
                InsertRow, Grows, database
  <2>2. UNCHANGED <<clock, access, epoch, lock, organism>>
    BY <1>1 DEF Admit, Look, History, CheckHistory, Reread, Insert, ReadBack, LoseAdmission,
                database
  <2>3. OthersStand(a)
    <3>1. CASE Look(a) \/ Reread(a) \/ ReadBack(a)
      BY <3>1 DEF Look, Reread, ReadBack, Bind, Tell, Goto, Types, OthersStand
    <3>2. CASE History(a) \/ CheckHistory(a) \/ Insert(a) \/ LoseAdmission(a)
      BY <3>2 DEF History, CheckHistory, Insert, LoseAdmission, Tell, Goto, Types, OthersStand
    <3> QED BY <1>1, <3>1, <3>2 DEF Admit
  <2> QED BY <2>1, <2>2, <2>3 DEF Moves, LocksStand
<1>2. CASE Execute(a)
  <2>1. Grows(a)
    BY <1>2 DEF Execute, Begin, Replay, Perform, Commit, RollBack, LoseCommit, Grows
  <2>2. UNCHANGED <<clock, access, epoch>>
    BY <1>2 DEF Execute, Begin, Replay, Perform, Commit, RollBack, LoseCommit
  <2>3. LocksStand(a)
    <3>1. CASE Begin(a)
      BY <3>1, NoneAssumption DEF Begin, LocksStand, Types
    <3>2. CASE \E p \in Plans : Perform(a, p)
      BY <3>2, NoneAssumption DEF Perform, LocksStand, Types
    <3>3. CASE Replay(a)
      BY <3>3, FreeStands DEF Replay, LocksStand
    <3>4. CASE Commit(a) \/ RollBack(a) \/ LoseCommit(a)
      BY <3>4, FreeStands DEF Commit, RollBack, LoseCommit
    <3> QED BY <1>2, <3>1, <3>2, <3>3, <3>4 DEF Execute
  <2>4. OthersStand(a)
    <3>1. CASE Begin(a)
      BY <3>1 DEF Begin, Tell, Goto, Types, OthersStand
    <3>2. CASE \E p \in Plans : Perform(a, p)
      BY <3>2 DEF Perform, Goto, Types, OthersStand
    <3>3. CASE Replay(a)
      BY <3>3, ServedStands DEF Replay, Tell, Goto, Types, OthersStand
    <3>4. CASE Commit(a)
      BY <3>4, ServedStands DEF Commit, EndPlan, Tell, Goto, Types, OthersStand
    <3>5. CASE RollBack(a) \/ LoseCommit(a)
      BY <3>5 DEF RollBack, LoseCommit, EndPlan, Tell, Goto, Types, OthersStand
    <3> QED BY <1>2, <3>1, <3>2, <3>3, <3>4, <3>5 DEF Execute
  <2> QED BY <2>1, <2>2, <2>3, <2>4 DEF Moves
<1>3. CASE \E r \in Request : Call(a, r)
  <2>1. OthersStand(a)
    BY <1>3 DEF Call, Goto, Types, OthersStand
  <2> QED BY <1>3, <2>1 DEF Call, database, Moves, LocksStand, Grows
<1> QED BY <1>1, <1>2, <1>3 DEF Step

-----------------------------------------------------------------------------
(* What an attempt holds.                                                  *)

\* Every attempt but the one that moves still holds what it held: the rows it
\* is bound to stay, and no receipt of an actor appears whose lock it holds.
LEMMA OthersOK ==
  ASSUME Types, \A c \in Attempt : AttemptOK(c),
         NEW a \in Attempt, Moves(a), NEW c \in Attempt, c # a
  PROVE  AttemptOK(c)'
<1>1. AttemptOK(c)
  OBVIOUS
<1>2. /\ pc'[c] = pc[c] /\ req'[c] = req[c] /\ seen'[c] = seen[c]
      /\ row'[c] = row[c] /\ stage'[c] = stage[c] /\ plan'[c] = plan[c]
  BY DEF Moves, OthersStand
<1>3. intake \subseteq intake' /\ access' = access /\ epoch' = epoch
  BY DEF Moves, Grows
<1>4. pc[c] \in InTransaction => req[c].actor \in Actor
  <2> SUFFICES ASSUME pc[c] \in InTransaction
               PROVE  req[c].actor \in Actor
    OBVIOUS
  <2>1. req[c] \in Request
    BY <1>1 DEF Types, AttemptOK, InTransaction
  <2> QED BY <2>1, RequestAssumption DEF Content
<1>5. /\ pc[c] \in InTransaction => lock'[req[c].actor] = c
      /\ pc[c] = "written" => organism' = c
  BY <1>1, <1>4 DEF Moves, LocksStand, AttemptOK
<1>6. pc[c] \in {"fresh", "written"} => Completed(c)' = {}
  <2> SUFFICES ASSUME pc[c] \in {"fresh", "written"},
                      NEW g \in records', g.kind = "receipt",
                      g.actor = req[c].actor, g.slot = CurrentSlot(c)
               PROVE  FALSE
    BY <1>2 DEF Completed, CurrentSlot
  <2>1. g \notin records
    BY <1>1 DEF AttemptOK, Completed
  <2>2. pc[a] = "written" /\ g \in Written(a)
    BY <2>1 DEF Moves, Grows
  <2>3. AttemptOK(a) /\ row[a] # None /\ lock[req[a].actor] = a
    BY <2>2 DEF AttemptOK, InTransaction
  <2>4. g.actor = row[a].actor
    BY <2>2, <2>3, WrittenType DEF Receipt, Decision
  <2>5. row[a].actor = req[a].actor
    BY <2>3 DEF AttemptOK, Binding
  <2>6. lock[req[c].actor] = c
    BY <1>1 DEF AttemptOK, InTransaction
  <2> QED BY <2>3, <2>4, <2>5, <2>6
<1>7. row[c] # None => /\ row'[c] \in intake'
                       /\ row'[c] = Binding(req'[c], seen'[c], row'[c].at)
                       /\ stage'[c] \in DOMAIN Stages(row'[c])
  BY <1>1, <1>2, <1>3 DEF AttemptOK
<1>8. /\ pc'[c] # "idle" => req'[c] # None
      /\ pc'[c] \in {"idle"} \union Admitting => row'[c] = None /\ stage'[c] = 1
      /\ pc'[c] \in {"bound"} \union InTransaction => row'[c] # None
      /\ pc'[c] \in InTransaction => /\ lock'[req'[c].actor] = c
                                     /\ access'[req'[c].actor] = "ACTIVE"
                                     /\ epoch'[req'[c].actor] = seen'[c]
      /\ pc'[c] = "written" => organism' = c
      /\ plan'[c] # "none" <=> pc'[c] = "written"
  BY <1>1, <1>2, <1>3, <1>5 DEF AttemptOK
<1> QED BY <1>2, <1>6, <1>7, <1>8 DEF AttemptOK

\* A binding built from a request by this attempt is one of its request, at the
\* request's first stage.
LEMMA BoundRow ==
  ASSUME Types, NEW a \in Attempt, NEW b \in Rows,
         b = Binding(req[a], seen[a], b.at)
  PROVE  1 \in DOMAIN Stages(b)
<1>1. b.entry \in Entries /\ b.key \in Key
  BY DEF Rows
<1>2. Len(Stages(b)) \in 1..2 /\ DOMAIN Stages(b) = 1..Len(Stages(b))
  BY <1>1, StagesType
<1> QED BY <1>2

\* Admission ends with a binding of the request that is in the intake, or none.
LEMMA AdmitOK ==
  ASSUME Types, Types', NEW a \in Attempt, AttemptOK(a), Admit(a)
  PROVE  AttemptOK(a)'
<1> DEFINE new == Binding(req[a], seen[a], clock)
<1>1. /\ pc[a] \in Admitting /\ req[a] # None /\ row[a] = None /\ stage[a] = 1
      /\ plan[a] = "none"
  <2>1. pc[a] \in Admitting
    BY DEF Admit, Look, History, CheckHistory, Reread, Insert, ReadBack, LoseAdmission, Admitting
  <2> QED BY <2>1 DEF AttemptOK, Admitting
<1>2. UNCHANGED <<clock, access, epoch, lock, organism, records, req, seen, stage, plan>>
  BY DEF Admit, Look, History, CheckHistory, Reread, Insert, ReadBack, LoseAdmission, database
<1>3. \/ pc'[a] \in Admitting \union {"told"} /\ row'[a] = None
      \/ pc'[a] = "bound" /\ row'[a] \in intake' /\ row'[a] = Binding(req[a], seen[a], row'[a].at)
  <2>1. ASSUME NEW b \in Existing(req[a]), Bind(a, b), UNCHANGED intake
        PROVE  \/ pc'[a] = "told" /\ row'[a] = None
               \/ pc'[a] = "bound" /\ row'[a] \in intake' /\ row'[a] = Binding(req[a], seen[a], row'[a].at)
    <3>1. CASE SameFingerprint(b, req[a], seen[a])
      <4>1. b \in Rows /\ b \in intake
        BY DEF Existing, Types
      <4>2. b.key = req[a].key
        BY DEF Existing, OwnSlot, Slot
      <4>3. b = Binding(req[a], seen[a], b.at)
        BY <3>1, <4>1, <4>2 DEF SameFingerprint, Existing, Binding, Rows
      <4>4. pc'[a] = "bound" /\ row'[a] = b
        BY <2>1, <3>1 DEF Bind, Goto, Types
      <4> QED BY <2>1, <4>1, <4>3, <4>4
    <3>2. CASE ~SameFingerprint(b, req[a], seen[a])
      BY <1>1, <2>1, <3>2 DEF Bind, Tell, Goto, Types
    <3> QED BY <3>1, <3>2
  <2>2. CASE Look(a) \/ Reread(a) \/ ReadBack(a)
    <3>1. UNCHANGED intake
      BY <2>2 DEF Look, Reread, ReadBack, database
    <3>2. \/ \E b \in Existing(req[a]) : Bind(a, b)
          \/ Goto(a, "history") /\ UNCHANGED row
          \/ Tell(a, "alarm") /\ UNCHANGED row
      BY <2>2 DEF Look, Reread, ReadBack
    <3> QED BY <1>1, <2>1, <3>1, <3>2 DEF Tell, Goto, Types, Admitting
  <2>3. CASE History(a) \/ CheckHistory(a)
    BY <1>1, <2>3 DEF History, CheckHistory, Goto, Types, Admitting
  <2>4. CASE Insert(a)
    <3>1. CASE intake' = intake
      BY <1>1, <2>4, <3>1 DEF Insert, Goto, Types, Admitting
    <3>2. CASE intake' # intake
      <4>1. intake' = intake \union {new} /\ pc'[a] = "bound" /\ row'[a] = new
        BY <2>4, <3>2 DEF Insert, InsertRow, Goto, Types
      <4>2. new = Binding(req[a], seen[a], new.at)
        BY DEF Binding
      <4> HIDE DEF new
      <4> QED BY <4>1, <4>2
    <3> QED BY <3>1, <3>2
  <2>5. CASE LoseAdmission(a)
    BY <1>1, <2>5 DEF LoseAdmission, Tell, Goto, Types
  <2> QED BY <2>2, <2>3, <2>4, <2>5 DEF Admit
<1>4. CASE pc'[a] \in Admitting \union {"told"} /\ row'[a] = None
  BY <1>1, <1>2, <1>4 DEF AttemptOK, Admitting, InTransaction
<1>5. CASE pc'[a] = "bound" /\ row'[a] \in intake' /\ row'[a] = Binding(req[a], seen[a], row'[a].at)
  <2>1. row'[a] \in Rows
    BY <1>5 DEF Types
  <2>2. 1 \in DOMAIN Stages(row'[a])
    BY <1>5, <2>1, BoundRow
  <2>3. row'[a] # None
    BY <2>1, NoRowAssumption
  <2> QED BY <1>1, <1>2, <1>5, <2>2, <2>3 DEF AttemptOK, Admitting, InTransaction
<1> QED BY <1>3, <1>4, <1>5

\* A transaction is begun under the lock, ends with the lock and the plan given
\* back, and passes from one stage to the next with its binding.
LEMMA ExecuteOK ==
  ASSUME Types, Types', NEW a \in Attempt, AttemptOK(a), Execute(a)
  PROVE  AttemptOK(a)'
<1>1. /\ pc[a] \in {"bound"} \union InTransaction /\ row[a] # None /\ req[a] # None
      /\ row[a] \in intake /\ row[a] = Binding(req[a], seen[a], row[a].at)
      /\ stage[a] \in DOMAIN Stages(row[a])
  <2>1. pc[a] \in {"bound"} \union InTransaction
    BY DEF Execute, Begin, Replay, Perform, Commit, RollBack, LoseCommit, InTransaction
  <2> QED BY <2>1 DEF AttemptOK, InTransaction
<1>2. UNCHANGED <<clock, access, epoch, intake, req, seen, row>>
  BY DEF Execute, Begin, Replay, Perform, Commit, RollBack, LoseCommit
<1>3. req[a].actor \in Actor
  BY <1>1, RequestAssumption DEF Types, Content
\* An attempt that leaves its transaction, or never was in it, owes nothing.
<1>4. ASSUME pc'[a] \in {"told", "bound"}, plan'[a] = "none",
             stage'[a] \in DOMAIN Stages(row[a])
      PROVE  AttemptOK(a)'
  BY <1>1, <1>2, <1>4 DEF AttemptOK, Admitting, InTransaction
<1>5. CASE Begin(a)
  <2>1. plan'[a] = "none" /\ stage'[a] = stage[a]
    BY <1>5 DEF Begin, AttemptOK
  <2>2. CASE access[req[a].actor] = "ACTIVE" /\ Verified(a)
    <3>1. pc'[a] = "begun" /\ lock'[req[a].actor] = a
      BY <1>3, <1>5, <2>2 DEF Begin, Goto, Types
    <3>2. epoch[req[a].actor] = seen[a]
      BY <2>2 DEF Verified
    <3> QED BY <1>1, <1>2, <2>1, <2>2, <3>1, <3>2 DEF AttemptOK, Admitting, InTransaction
  <2>3. CASE ~(access[req[a].actor] = "ACTIVE" /\ Verified(a))
    <3>1. pc'[a] = "told"
      BY <1>5, <2>3 DEF Begin, Tell, Goto, Types
    <3> QED BY <1>1, <1>4, <2>1, <3>1
  <2> QED BY <2>2, <2>3
<1>6. ASSUME Served(a)
      PROVE  pc'[a] \in {"told", "bound"} /\ stage'[a] \in DOMAIN Stages(row[a])
  <2>1. row[a].entry \in Entries /\ row[a].key \in Key
    BY <1>1 DEF Types, Rows
  <2>2. DOMAIN Stages(row[a]) = 1..Len(Stages(row[a]))
    BY <2>1, StagesType
  <2>3. CASE /\ pc' = [pc EXCEPT ![a] = "bound"]
             /\ stage' = [stage EXCEPT ![a] = 2]
             /\ Len(Stages(row[a])) = 2
    BY <2>2, <2>3 DEF Types
  <2>4. CASE pc' = [pc EXCEPT ![a] = "told"] /\ stage' = stage
    BY <1>1, <2>4 DEF Types
  <2> QED BY <1>1, <1>6, <2>3, <2>4, ServedSteps
<1>7. CASE Replay(a)
  <2>1. plan'[a] = "none"
    BY <1>7 DEF Replay, AttemptOK
  <2>2. CASE /\ Completed(a) = {} /\ Goto(a, "fresh")
             /\ UNCHANGED <<lock, organism, stage, told>>
    <3>1. pc'[a] = "fresh" /\ pc[a] = "begun" /\ records' = records
      BY <1>7, <2>2 DEF Replay, Goto, Types
    <3>2. Completed(a)' = {}
      BY <1>2, <2>2, <3>1 DEF Completed, CurrentSlot
    <3> QED BY <1>1, <1>2, <2>1, <2>2, <3>1, <3>2 DEF AttemptOK, Admitting, InTransaction
  <2>3. CASE Served(a)
    BY <1>4, <1>6, <2>1, <2>3
  <2>4. CASE Tell(a, "collision") /\ UNCHANGED stage
    <3>1. pc'[a] = "told"
      BY <2>4 DEF Tell, Goto, Types
    <3> QED BY <1>1, <1>4, <2>1, <2>4, <3>1
  <2> QED BY <1>7, <2>2, <2>3, <2>4 DEF Replay
<1>8. CASE \E p \in Plans : Perform(a, p)
  <2> PICK p \in Plans : Perform(a, p)
    BY <1>8
  <2>1. /\ pc[a] = "fresh" /\ pc'[a] = "written" /\ plan'[a] # "none" /\ organism' = a
        /\ lock' = lock /\ stage' = stage /\ records' = records
    BY DEF Perform, Goto, Types, Plans
  <2>2. Completed(a)' = {}
    BY <1>2, <2>1 DEF Completed, CurrentSlot, AttemptOK
  <2> QED BY <1>1, <1>2, <2>1, <2>2 DEF AttemptOK, Admitting, InTransaction
<1>9. ASSUME EndPlan(a)
      PROVE  plan'[a] = "none"
  BY <1>9 DEF EndPlan, Types
<1>10. CASE Commit(a)
  <2>1. Served(a) \/ (pc'[a] = "told" /\ stage' = stage)
    BY <1>10 DEF Commit, Tell, Goto, Types
  <2>2. plan'[a] = "none"
    BY <1>9, <1>10 DEF Commit
  <2> QED BY <1>1, <1>4, <1>6, <2>1, <2>2
<1>11. CASE RollBack(a) \/ LoseCommit(a)
  <2>1. pc'[a] = "told" /\ stage' = stage
    BY <1>11 DEF RollBack, LoseCommit, Tell, Goto, Types
  <2>2. plan'[a] = "none"
    BY <1>9, <1>11 DEF RollBack, LoseCommit
  <2> QED BY <1>1, <1>4, <2>1, <2>2
<1> QED BY <1>5, <1>7, <1>8, <1>10, <1>11 DEF Execute

LEMMA CallOK ==
  ASSUME Types, NEW a \in Attempt, AttemptOK(a), NEW r \in Request, Call(a, r)
  PROVE  AttemptOK(a)'
<1>1. r # None
  BY NoneAssumption
<1>2. pc'[a] = "look" /\ req'[a] = r /\ row'[a] = None /\ stage'[a] = 1
  BY DEF Call, Goto, Types
<1>3. plan'[a] = "none"
  BY DEF Call, AttemptOK
<1> QED BY <1>1, <1>2, <1>3 DEF AttemptOK, Admitting, InTransaction

LEMMA AttemptsKept ==
  ASSUME TypeOK, Types', [Next]_vars
  PROVE  \A c \in Attempt : AttemptOK(c)'
<1>0. Types /\ (\A c \in Attempt : AttemptOK(c)) /\ LocksOK
  BY DEF TypeOK
<1>1. ASSUME NEW a \in Attempt, Step(a), NEW c \in Attempt
      PROVE  AttemptOK(c)'
  <2>1. Moves(a)
    BY <1>0, <1>1, StepMoves
  <2>2. CASE c # a
    BY <1>0, <2>1, <2>2, OthersOK
  <2>3. CASE c = a
    BY <1>0, <1>1, <2>3, AdmitOK, ExecuteOK, CallOK DEF Step
  <2> QED BY <2>2, <2>3
<1>2. ASSUME NEW x \in Actor, NEW e \in Changes, ChangeAccess(x, e[2]), NEW c \in Attempt
      PROVE  AttemptOK(c)'
  <2>1. UNCHANGED <<lock, organism, intake, records, attempts>> /\ lock[x] = None
    BY <1>2 DEF ChangeAccess
  <2>2. \A y \in Actor \ {x} : access'[y] = access[y] /\ epoch'[y] = epoch[y]
    BY <1>0, <1>2 DEF ChangeAccess, Types
  <2>3. pc[c] \in InTransaction => req[c].actor \in Actor \ {x}
    <3> SUFFICES ASSUME pc[c] \in InTransaction
                 PROVE  req[c].actor \in Actor \ {x}
      OBVIOUS
    <3>1. req[c] \in Request /\ lock[req[c].actor] = c
      BY <1>0 DEF Types, AttemptOK, InTransaction
    <3>2. req[c].actor \in Actor
      BY <3>1, RequestAssumption DEF Content
    <3> QED BY <2>1, <3>1, <3>2, NoneAssumption
  <2>4. Completed(c)' = Completed(c)
    BY <2>1 DEF Completed, CurrentSlot, attempts
  <2> QED BY <1>0, <2>1, <2>2, <2>3, <2>4 DEF AttemptOK, attempts
<1>3. CASE Tick \/ UNCHANGED vars
  <2>1. UNCHANGED <<access, epoch, lock, organism, intake, records, attempts>>
    BY <1>3 DEF Tick, vars, attempts
  <2>2. \A c \in Attempt : Completed(c)' = Completed(c)
    BY <2>1 DEF Completed, CurrentSlot, attempts
  <2> QED BY <1>0, <2>1, <2>2 DEF AttemptOK, attempts
<1> QED BY <1>1, <1>2, <1>3, NextIsSteps

\* A lock is taken by an attempt whose request is its actor's, and given back by
\* whatever ends the transaction.
LEMMA LocksKept ==
  ASSUME TypeOK, Types', \A c \in Attempt : AttemptOK(c)', [Next]_vars
  PROVE  LocksOK'
<1>0. Types /\ (\A c \in Attempt : AttemptOK(c)) /\ LocksOK
  BY DEF TypeOK
<1>1. ASSUME NEW a \in Attempt, Step(a)
      PROVE  LocksOK'
  <2>1. Moves(a)
    BY <1>0, <1>1, StepMoves
  \* Of the moving attempt: it holds a lock only in a transaction.
  <2>2. /\ \A x \in Actor : lock'[x] = a => pc'[a] \in InTransaction /\ req'[a].actor = x
        /\ organism' = a => pc'[a] = "written"
    <3>1. CASE Free(a)
      BY <1>0, <3>1, NoneAssumption DEF Free, Types
    <3>2. CASE Admit(a) \/ \E r \in Request : Call(a, r)
      <4>1. UNCHANGED <<lock, organism>>
        BY <3>2 DEF Admit, Look, History, CheckHistory, Reread, Insert, ReadBack, LoseAdmission,
                    Call, database
      <4>2. pc[a] \notin InTransaction
        BY <3>2 DEF Admit, Look, History, CheckHistory, Reread, Insert, ReadBack, LoseAdmission,
                    Call, Admitting, InTransaction
      <4> QED BY <1>0, <4>1, <4>2, NoneAssumption DEF LocksOK, InTransaction
    <3>3. CASE Begin(a)
      <4>1. organism # a /\ \A x \in Actor : lock[x] # a
        BY <1>0, <3>3, NoneAssumption DEF Begin, LocksOK, InTransaction
      <4>2. \/ UNCHANGED lock
            \/ pc'[a] = "begun" /\ lock' = [lock EXCEPT ![req[a].actor] = a]
        BY <1>0, <3>3 DEF Begin, Goto, Types
      <4> QED BY <1>0, <3>3, <4>1, <4>2 DEF Begin, InTransaction, Types
    <3>4. CASE Replay(a) /\ pc' = [pc EXCEPT ![a] = "fresh"] /\ UNCHANGED <<lock, organism>>
      BY <1>0, <3>4, NoneAssumption DEF Replay, LocksOK, InTransaction, Types
    <3>5. CASE \E p \in Plans : Perform(a, p)
      BY <1>0, <3>5, NoneAssumption DEF Perform, Goto, LocksOK, InTransaction, Types
    <3>6. Replay(a) => Free(a) \/ (pc' = [pc EXCEPT ![a] = "fresh"] /\ UNCHANGED <<lock, organism>>)
      BY DEF Replay, Goto
    <3>7. Commit(a) \/ RollBack(a) \/ LoseCommit(a) => Free(a)
      BY DEF Commit, RollBack, LoseCommit
    <3> QED BY <1>1, <3>1, <3>2, <3>3, <3>4, <3>5, <3>6, <3>7 DEF Step, Execute
  <2>3. ASSUME NEW c \in Attempt, c # a
        PROVE  /\ \A x \in Actor : lock'[x] = c => pc'[c] \in InTransaction /\ req'[c].actor = x
               /\ organism' = c => pc'[c] = "written"
    BY <1>0, <2>1, <2>3, NoneAssumption DEF Moves, OthersStand, LocksStand, LocksOK
  <2>4. (\A x \in Actor : lock'[x] \in Attempt \union {None}) /\ organism' \in Attempt \union {None}
    BY DEF Types
  <2> QED BY <2>2, <2>3, <2>4 DEF LocksOK
<1>2. ASSUME UNCHANGED <<lock, organism, pc, req>>
      PROVE  LocksOK'
  BY <1>0, <1>2 DEF LocksOK
<1>3. ASSUME NEW x \in Actor, NEW e \in Changes, ChangeAccess(x, e[2])
      PROVE  LocksOK'
  BY <1>2, <1>3 DEF ChangeAccess, attempts
<1>4. CASE Tick \/ UNCHANGED vars
  BY <1>2, <1>4 DEF Tick, vars, attempts
<1> QED BY <1>1, <1>3, <1>4, NextIsSteps

LEMMA InitTypes == Init => TypeOK
<1> SUFFICES ASSUME Init
             PROVE  TypeOK
  OBVIOUS
<1>1. Types
  BY BoundAssumption DEF Init, Types, PCs, Answers
<1>2. \A a \in Attempt : AttemptOK(a)
  BY DEF Init, AttemptOK, Admitting, InTransaction
<1> QED BY <1>1, <1>2 DEF TypeOK, LocksOK, Init

LEMMA TypeStep == TypeOK /\ [Next]_vars => TypeOK'
<1> SUFFICES ASSUME TypeOK, [Next]_vars
             PROVE  TypeOK'
  OBVIOUS
<1>1. Types'
  BY TypesKept DEF TypeOK
<1>2. \A c \in Attempt : AttemptOK(c)'
  BY <1>1, AttemptsKept
<1> QED BY <1>1, <1>2, LocksKept DEF TypeOK

\* The variables keep their types, and the locks protect what they are taken
\* for: an attempt in a transaction holds its actor's row lock, the actor stays
\* active under the epoch the attempt read, its binding stays in the intake, and
\* between its look for a receipt and its commit none appears under its slot.
THEOREM TypeCorrect == Spec => []TypeOK
<1>1. Init => TypeOK
  BY InitTypes
<1>2. TypeOK /\ [Next]_vars => TypeOK'
  BY TypeStep
<1> QED BY <1>1, <1>2, PTL DEF Spec

-----------------------------------------------------------------------------
(* The inductive invariant.  TypeOK says what an attempt holds; what the   *)
(* properties need besides is how the committed records and the rows hang  *)
(* together: a key is bound once, a record is of a binding and lies in one *)
(* of its slots, and an attempt at a second stage, like a receipt of one,  *)
(* has the first stage's receipt behind it.                                *)

KeysBoundOnce ==
  \A b, c \in intake : b.actor = c.actor /\ OwnSlot(b) = OwnSlot(c) => b = c

IsReceiptOf(g, b) == \E s \in ReceiptSlots(b) : g = Receipt(b, s)
IsDecisionOf(g, b) ==
  \E s \in Slots(b), o \in {"QUALIFIED", "REFUSED"} : g = Decision(b, s, o)

RecordsOK ==
  \A g \in records : /\ g.of \in intake
                     /\ IsReceiptOf(g, g.of) \/ IsDecisionOf(g, g.of)

\* The stages of binding b before the n-th have their receipts.
StagesDone(b, n) == \A m \in 1..n - 1 : Receipt(b, Stages(b)[m]) \in records

AttemptsInOrder == \A a \in Attempt : row[a] # None => StagesDone(row[a], stage[a])

ReceiptsInOrder ==
  \A b \in intake : \A n \in DOMAIN Stages(b) :
    Receipt(b, Stages(b)[n]) \in records => StagesDone(b, n)

Inv == TypeOK /\ KeysBoundOnce /\ RecordsOK /\ AttemptsInOrder /\ ReceiptsInOrder

\* Rows: the intake grows only by a row whose key nobody bound.
LEMMA IntakeGrows ==
  ASSUME [Next]_vars
  PROVE  \/ intake' = intake
         \/ \E a \in Attempt : /\ pc[a] \in Admitting
                               /\ Existing(req[a]) = {}
                               /\ intake' = intake \union {Binding(req[a], seen[a], clock)}
<1>1. ASSUME NEW a \in Attempt, Step(a)
      PROVE  \/ intake' = intake
             \/ /\ pc[a] \in Admitting /\ Existing(req[a]) = {}
                /\ intake' = intake \union {Binding(req[a], seen[a], clock)}
  <2>1. CASE Admit(a)
    BY <2>1 DEF Admit, Look, History, CheckHistory, Reread, Insert, ReadBack, LoseAdmission,
                InsertRow, database, Admitting
  <2>2. CASE Execute(a)
    BY <2>2 DEF Execute, Begin, Replay, Perform, Commit, RollBack, LoseCommit
  <2>3. CASE \E r \in Request : Call(a, r)
    BY <2>3 DEF Call, database
  <2> QED BY <1>1, <2>1, <2>2, <2>3 DEF Step
<1> QED BY <1>1, NextIsSteps DEF ChangeAccess, Tick, vars

LEMMA KeysKept ==
  ASSUME TypeOK, KeysBoundOnce, [Next]_vars
  PROVE  KeysBoundOnce'
<1>1. CASE intake' = intake
  BY <1>1 DEF KeysBoundOnce
<1>2. ASSUME NEW a \in Attempt, pc[a] \in Admitting, Existing(req[a]) = {},
             intake' = intake \union {Binding(req[a], seen[a], clock)}
      PROVE  KeysBoundOnce'
  <2> DEFINE b == Binding(req[a], seen[a], clock)
  <2>1. b.actor = req[a].actor /\ OwnSlot(b) = OwnSlot(req[a])
    BY DEF Binding, OwnSlot
  <2>2. \A c \in intake : ~(c.actor = b.actor /\ OwnSlot(c) = OwnSlot(b))
    BY <1>2, <2>1 DEF Existing
  <2> HIDE DEF b
  <2>3. \A c \in intake' : c \in intake \/ c = b
    BY <1>2 DEF b
  <2> QED BY <2>2, <2>3 DEF KeysBoundOnce
<1> QED BY <1>1, <1>2, IntakeGrows

\* Records: what is new was written by an attempt's commit.
LEMMA RecordsGrow ==
  ASSUME TypeOK, [Next]_vars
  PROVE  /\ intake \subseteq intake' /\ records \subseteq records'
         /\ records' # records =>
              \E a \in Attempt : /\ pc[a] = "written" /\ Moves(a) /\ Step(a)
                                 /\ \A g \in records' \ records : g \in Written(a)
<1>1. ASSUME NEW a \in Attempt, Step(a)
      PROVE  Moves(a)
  BY <1>1, StepMoves DEF TypeOK
<1> QED BY <1>1, NextIsSteps DEF Moves, Grows, ChangeAccess, Tick, vars

LEMMA RecordsKept ==
  ASSUME TypeOK, RecordsOK, [Next]_vars
  PROVE  RecordsOK'
<1>1. ASSUME NEW g \in records', g \notin records
      PROVE  g.of \in intake /\ (IsReceiptOf(g, g.of) \/ IsDecisionOf(g, g.of))
  <2>1. PICK a \in Attempt : pc[a] = "written" /\ g \in Written(a)
    BY <1>1, RecordsGrow
  <2>2. Types /\ AttemptOK(a) /\ row[a] # None /\ row[a] \in intake
    BY <2>1 DEF TypeOK, AttemptOK, InTransaction
  <2>3. CurrentSlot(a) \in ReceiptSlots(row[a])
    BY <2>2, SlotType
  <2>4. g.of = row[a] /\ (IsReceiptOf(g, row[a]) \/ IsDecisionOf(g, row[a]))
    <3>1. CASE g = Receipt(row[a], CurrentSlot(a))
      BY <2>3, <3>1 DEF IsReceiptOf, Receipt
    <3>2. CASE \E s \in Slots(row[a]), o \in {"QUALIFIED", "REFUSED"} : g = Decision(row[a], s, o)
      BY <3>2 DEF IsDecisionOf, Decision
    <3> QED BY <2>1, <2>2, <3>1, <3>2, WrittenType
  <2> QED BY <2>2, <2>4
<1>2. intake \subseteq intake'
  BY RecordsGrow
<1> QED BY <1>1, <1>2 DEF RecordsOK, IsReceiptOf, IsDecisionOf

\* A receipt of a binding's stage is that stage's and nobody else's.
LEMMA ReceiptTells ==
  ASSUME NEW b, NEW s, NEW c, NEW t
  PROVE  /\ Receipt(b, s) = Receipt(c, t) => b = c /\ s = t
         /\ Receipt(b, s).kind = "receipt" /\ Receipt(b, s).of = b
         /\ Receipt(b, s).slot = s /\ Receipt(b, s).actor = b.actor
BY DEF Receipt
\* A receipt under an attempt's current slot is the receipt of its own binding:
\* slots, actor and key determine the binding.
LEMMA OwnReceipt ==
  ASSUME TypeOK, KeysBoundOnce, RecordsOK,
         NEW a \in Attempt, row[a] # None, NEW g \in Completed(a)
  PROVE  g = Receipt(row[a], CurrentSlot(a))
<1>1. Types /\ AttemptOK(a)
  BY DEF TypeOK
<1>2. row[a] \in intake /\ row[a] \in Rows /\ CurrentSlot(a) \in ReceiptSlots(row[a])
  BY <1>1, SlotType DEF AttemptOK
<1>3. g \in records /\ g.kind = "receipt" /\ g.slot = CurrentSlot(a) /\ g.actor = req[a].actor
  BY DEF Completed
<1>4. g.of \in intake /\ IsReceiptOf(g, g.of)
  BY <1>3 DEF RecordsOK, IsDecisionOf, Decision
<1>5. PICK s \in ReceiptSlots(g.of) : g = Receipt(g.of, s)
  BY <1>4 DEF IsReceiptOf
<1>6. g.slot = s /\ g.actor = g.of.actor
  BY <1>5, ReceiptTells
<1>7. g.of \in Rows
  BY <1>1, <1>4 DEF Types
<1>8. OwnSlot(g.of) = OwnSlot(row[a])
  BY <1>2, <1>3, <1>5, <1>6, <1>7, SlotsApart
<1>9. row[a].actor = req[a].actor
  BY <1>1 DEF AttemptOK, Binding
<1>10. g.of = row[a]
  BY <1>2, <1>3, <1>4, <1>6, <1>8, <1>9 DEF KeysBoundOnce
<1> QED BY <1>3, <1>5, <1>6, <1>10

\* Whoever is served has the receipt of the stage it was at.
LEMMA ServedHasReceipt ==
  ASSUME TypeOK, KeysBoundOnce, RecordsOK, [Next]_vars,
         NEW a \in Attempt, Served(a), Replay(a) \/ Commit(a)
  PROVE  Receipt(row[a], CurrentSlot(a)) \in records'
<1>1. pc[a] \in {"begun", "written"} /\ row[a] # None
  BY DEF Replay, Commit, TypeOK, AttemptOK, InTransaction
<1>2. CASE Replay(a)
  <2>1. Completed(a) # {}
    BY <1>2 DEF Replay, Served, Tell, Goto, TypeOK, Types
  <2>2. PICK g \in Completed(a) : TRUE
    BY <2>1
  <2>3. g = Receipt(row[a], CurrentSlot(a)) /\ g \in records
    BY <1>1, <2>2, OwnReceipt DEF Completed
  <2> QED BY <1>2, <2>3 DEF Replay
<1>3. CASE Commit(a)
  <2>1. plan[a] = "done" /\ records' = records \union Written(a)
    BY <1>3 DEF Commit, Served, Tell, Goto, TypeOK, Types
  <2> QED BY <2>1 DEF Written
<1> QED BY <1>2, <1>3

\* The moving attempt's binding and stage stay, are those of a first stage, or it
\* was served its first stage.
LEMMA RowAndStage ==
  ASSUME TypeOK, NEW a \in Attempt, Step(a)
  PROVE  \/ row'[a] = row[a] /\ stage'[a] = stage[a]
         \/ stage'[a] = 1
         \/ /\ Served(a) /\ (Replay(a) \/ Commit(a))
            /\ row' = row /\ stage'[a] = 2 /\ stage[a] = 1 /\ row[a] # None
<1>1. Types /\ AttemptOK(a)
  BY DEF TypeOK
<1>2. CASE Admit(a)
  <2>1. pc[a] \in Admitting /\ stage' = stage
    BY <1>2 DEF Admit, Look, History, CheckHistory, Reread, Insert, ReadBack, LoseAdmission, Admitting
  <2> QED BY <1>1, <2>1 DEF AttemptOK
<1>3. CASE \E r \in Request : Call(a, r)
  BY <1>1, <1>3 DEF Call, Types
<1>4. CASE Execute(a)
  <2>1. row' = row
    BY <1>4 DEF Execute, Begin, Replay, Perform, Commit, RollBack, LoseCommit
  <2>2. stage' = stage \/ (Served(a) /\ (Replay(a) \/ Commit(a)))
    BY <1>4 DEF Execute, Begin, Replay, Perform, Commit, RollBack, LoseCommit
  <2>3. CASE Served(a) /\ (Replay(a) \/ Commit(a))
    <3>1. row[a] # None
      BY <1>1, <2>3 DEF Replay, Commit, AttemptOK, InTransaction
    <3>2. stage' = stage \/ (stage' = [stage EXCEPT ![a] = 2] /\ stage[a] = 1)
      BY <1>1, <2>3, <3>1, ServedSteps
    <3> QED BY <1>1, <2>1, <2>3, <3>1, <3>2 DEF Types
  <2> QED BY <2>1, <2>2, <2>3
<1> QED BY <1>2, <1>3, <1>4 DEF Step

LEMMA AttemptsKeepOrder ==
  ASSUME TypeOK, KeysBoundOnce, RecordsOK, AttemptsInOrder, [Next]_vars
  PROVE  AttemptsInOrder'
<1>1. records \subseteq records'
  BY RecordsGrow
<1>2. ASSUME NEW c \in Attempt, row'[c] = row[c], stage'[c] = stage[c], row'[c] # None
      PROVE  StagesDone(row[c], stage[c])'
  BY <1>1, <1>2 DEF AttemptsInOrder, StagesDone
<1>3. ASSUME NEW a \in Attempt, Step(a), NEW c \in Attempt, row'[c] # None
      PROVE  StagesDone(row[c], stage[c])'
  <2>1. CASE c # a
    <3>1. row'[c] = row[c] /\ stage'[c] = stage[c]
      BY <1>3, <2>1, StepMoves DEF Moves, OthersStand, TypeOK
    <3> QED BY <1>2, <1>3, <3>1
  <2>2. CASE c = a
    <3>1. CASE row'[a] = row[a] /\ stage'[a] = stage[a]
      BY <1>2, <1>3, <2>2, <3>1
    <3>2. CASE stage'[a] = 1
      BY <2>2, <3>2 DEF StagesDone
    <3>3. CASE /\ Served(a) /\ (Replay(a) \/ Commit(a))
               /\ row' = row /\ stage'[a] = 2 /\ stage[a] = 1
      <4>1. Receipt(row[a], CurrentSlot(a)) \in records'
        BY <3>3, ServedHasReceipt
      <4>2. CurrentSlot(a) = Stages(row'[a])[1]
        BY <3>3 DEF CurrentSlot
      <4>3. \A m \in 1..stage'[a] - 1 : m = 1
        BY <3>3
      <4> QED BY <2>2, <3>3, <4>1, <4>2, <4>3 DEF StagesDone
    <3> QED BY <1>3, <3>1, <3>2, <3>3, RowAndStage
  <2> QED BY <2>1, <2>2
<1>4. CASE UNCHANGED <<row, stage>>
  BY <1>2, <1>4 DEF AttemptsInOrder
<1>5. (\E x \in Actor : \E e \in Changes : ChangeAccess(x, e[2])) \/ Tick \/ UNCHANGED vars
        => UNCHANGED <<row, stage>>
  BY DEF ChangeAccess, Tick, vars, attempts
<1> QED BY <1>3, <1>4, <1>5, NextIsSteps DEF AttemptsInOrder

LEMMA ReceiptsKeepOrder ==
  ASSUME TypeOK, RecordsOK, AttemptsInOrder, ReceiptsInOrder, [Next]_vars
  PROVE  ReceiptsInOrder'
<1> SUFFICES ASSUME NEW b \in intake', NEW n \in DOMAIN Stages(b),
                    Receipt(b, Stages(b)[n]) \in records',
                    NEW m \in 1..n - 1
             PROVE  Receipt(b, Stages(b)[m]) \in records'
  BY DEF ReceiptsInOrder, StagesDone
<1>1. records \subseteq records'
  BY RecordsGrow
<1>2. CASE Receipt(b, Stages(b)[n]) \in records
  <2>1. b \in intake
    BY <1>2, ReceiptTells DEF RecordsOK
  <2> QED BY <1>1, <1>2, <2>1 DEF ReceiptsInOrder, StagesDone
<1>3. CASE Receipt(b, Stages(b)[n]) \notin records
  <2>1. PICK a \in Attempt : pc[a] = "written" /\ Receipt(b, Stages(b)[n]) \in Written(a)
    BY <1>3, RecordsGrow
  <2>2. Types /\ AttemptOK(a) /\ row[a] # None /\ row[a] \in Rows /\ stage[a] \in DOMAIN Stages(row[a])
    <3>1. Types /\ AttemptOK(a) /\ row[a] # None
      BY <2>1 DEF TypeOK, AttemptOK, InTransaction
    <3> QED BY <3>1, SlotType DEF AttemptOK
  <2>3. Receipt(b, Stages(b)[n]) = Receipt(row[a], CurrentSlot(a))
    BY <2>1, <2>2, WrittenType DEF Receipt, Decision
  <2>4. b = row[a] /\ Stages(b)[n] = Stages(b)[stage[a]]
    BY <2>3, ReceiptTells DEF CurrentSlot
  <2>5. n = stage[a]
    BY <2>2, <2>4, StagesDiffer
  <2> QED BY <1>1, <2>2, <2>4, <2>5 DEF AttemptsInOrder, StagesDone
<1> QED BY <1>2, <1>3

LEMMA InvInit == Init => Inv
<1> SUFFICES ASSUME Init
             PROVE  Inv
  OBVIOUS
<1>1. TypeOK
  BY InitTypes
<1> QED BY <1>1 DEF Init, Inv, KeysBoundOnce, RecordsOK, AttemptsInOrder, ReceiptsInOrder

LEMMA InvStep == Inv /\ [Next]_vars => Inv'
<1> SUFFICES ASSUME Inv, [Next]_vars
             PROVE  Inv'
  OBVIOUS
<1> QED BY TypeStep, KeysKept, RecordsKept, AttemptsKeepOrder, ReceiptsKeepOrder DEF Inv

THEOREM Invariance == Spec => []Inv
BY InvInit, InvStep, PTL DEF Spec

-----------------------------------------------------------------------------
(* Safety.                                                                 *)

\* The condition of run_activation_step: every receipt and decision there ever
\* is has a binding that accounts for it, at the binding's receipt time.
THEOREM AlwaysRecognised == Spec => []Recognised
<1>1. Inv => Recognised
  <2> SUFFICES ASSUME Inv, NEW g \in records
               PROVE  \E b \in intake : AccountsFor(b, g)
    BY DEF Recognised
  <2>1. g.of \in intake /\ (IsReceiptOf(g, g.of) \/ IsDecisionOf(g, g.of))
    BY DEF Inv, RecordsOK
  <2>2. CASE IsReceiptOf(g, g.of)
    BY <2>1, <2>2 DEF IsReceiptOf, Receipt, AccountsFor
  <2>3. CASE IsDecisionOf(g, g.of)
    BY <2>1, <2>3 DEF IsDecisionOf, Decision, AccountsFor
  <2> QED BY <2>1, <2>2, <2>3
<1> QED BY <1>1, Invariance, PTL

\* Whoever is admitted under an actor, an action and a key holds the one binding
\* there is for them.
THEOREM RetriesInherit == Spec => []RetryInherits
<1>1. Inv => RetryInherits
  BY DEF Inv, TypeOK, AttemptOK, KeysBoundOnce, RetryInherits
<1> QED BY <1>1, Invariance, PTL

\* No call is refused for the receipt of another request, nor fails on the
\* receipt's uniqueness constraint.
THEOREM RetriesNeverCollide == Spec => []RetryNeverCollides
<1>1. Init => RetryNeverCollides
  BY DEF Init, RetryNeverCollides
<1>2. Inv /\ RetryNeverCollides /\ [Next]_vars => RetryNeverCollides'
  <2> SUFFICES ASSUME Inv, RetryNeverCollides, [Next]_vars
               PROVE  RetryNeverCollides'
    OBVIOUS
  <2>1. ASSUME NEW a \in Attempt, Step(a), NEW c \in Attempt
        PROVE  told'[c] \notin {"collision", "duplicate"}
    <3>1. Types /\ AttemptOK(a) /\ told[c] \notin {"collision", "duplicate"}
      BY DEF Inv, TypeOK, RetryNeverCollides
    <3>2. CASE c # a
      BY <2>1, <3>1, <3>2, StepMoves DEF Moves, OthersStand
    <3>3. CASE c = a
      <4>1. CASE Admit(a) \/ \E r \in Request : Call(a, r)
        BY <3>1, <3>3, <4>1 DEF Admit, Look, History, CheckHistory, Reread, Insert, ReadBack,
                    LoseAdmission, Bind, Call, Tell, Goto, Types
      <4>2. CASE Replay(a)
        <5>1. row[a] # None
          BY <3>1, <4>2 DEF Replay, AttemptOK, InTransaction
        <5>2. \A g \in Completed(a) : g.of = row[a]
          BY <5>1, OwnReceipt, ReceiptTells DEF Inv
        <5>3. Served(a) \/ told' = told
          BY <4>2, <5>2 DEF Replay
        <5> QED BY <3>1, <3>3, <5>3 DEF Served, Tell, Goto, Types
      <4>3. CASE Commit(a)
        <5>1. Completed(a) = {}
          BY <3>1, <4>3 DEF Commit, AttemptOK
        <5>2. Served(a) \/ Tell(a, "refused")
          BY <4>3, <5>1 DEF Commit, Fits
        <5> QED BY <3>1, <3>3, <5>2 DEF Served, Tell, Goto, Types
      <4>4. CASE Begin(a) \/ (\E p \in Plans : Perform(a, p)) \/ RollBack(a) \/ LoseCommit(a)
        BY <3>1, <3>3, <4>4 DEF Begin, Perform, RollBack, LoseCommit, Tell, Goto, Types
      <4> QED BY <2>1, <4>1, <4>2, <4>3, <4>4 DEF Step, Execute
    <3> QED BY <3>2, <3>3
  <2>2. CASE UNCHANGED told
    BY <2>2 DEF RetryNeverCollides
  <2> QED BY <2>1, <2>2, NextIsSteps DEF RetryNeverCollides, ChangeAccess, Tick, vars, attempts
<1> QED BY <1>1, <1>2, Invariance, PTL DEF Spec

\* What a commit adds is added for an active actor whose epoch is still that of
\* the binding, and neither changes in that step.
THEOREM WritesAreFresh == Spec => FreshWrite
<1>1. Inv /\ [Next]_vars =>
        [\A g \in records' \ records :
           /\ access[g.actor] = "ACTIVE" /\ access'[g.actor] = "ACTIVE"
           /\ g.of.epoch = epoch[g.actor] /\ epoch'[g.actor] = epoch[g.actor]]_vars
  <2> SUFFICES ASSUME Inv, [Next]_vars, NEW g \in records' \ records
               PROVE  /\ access[g.actor] = "ACTIVE" /\ access'[g.actor] = "ACTIVE"
                      /\ g.of.epoch = epoch[g.actor] /\ epoch'[g.actor] = epoch[g.actor]
    OBVIOUS
  <2>1. PICK a \in Attempt : pc[a] = "written" /\ Moves(a) /\ g \in Written(a)
    BY RecordsGrow DEF Inv
  <2>2. Types /\ AttemptOK(a) /\ row[a] # None
    BY <2>1 DEF Inv, TypeOK, AttemptOK, InTransaction
  <2>3. g.of = row[a] /\ g.actor = row[a].actor
    BY <2>1, <2>2, WrittenType DEF Receipt, Decision
  <2>4. row[a].actor = req[a].actor /\ row[a].epoch = seen[a]
    BY <2>2 DEF AttemptOK, Binding
  <2>5. access[req[a].actor] = "ACTIVE" /\ epoch[req[a].actor] = seen[a]
    BY <2>1, <2>2 DEF AttemptOK, InTransaction
  <2>6. access' = access /\ epoch' = epoch
    BY <2>1 DEF Moves
  <2> QED BY <2>3, <2>4, <2>5, <2>6
<1> QED BY <1>1, Invariance, PTL DEF Spec, FreshWrite

\* Nothing of a binding is recorded in a slot that has the binding's receipt: the
\* writer found its stage's slot without one under the actor's lock, and a
\* Birthing's election lies in a slot that no receipt of a Birthing is in.
THEOREM CompletedStaysFinal == Spec => CompletedIsFinal
<1>1. Inv /\ [Next]_vars =>
        [\A g \in records' \ records : \A h \in records :
           h.kind = "receipt" /\ h.of = g.of => h.slot # g.slot]_vars
  <2> SUFFICES ASSUME Inv, [Next]_vars, NEW g \in records' \ records, NEW h \in records,
                      h.kind = "receipt", h.of = g.of
               PROVE  h.slot # g.slot
    OBVIOUS
  <2>1. PICK a \in Attempt : pc[a] = "written" /\ g \in Written(a)
    BY RecordsGrow DEF Inv
  <2>2. Types /\ AttemptOK(a) /\ row[a] # None
    BY <2>1 DEF Inv, TypeOK, AttemptOK, InTransaction
  <2>3. /\ g.of = row[a]
        /\ \/ g.slot = CurrentSlot(a)
           \/ row[a].entry = "BIRTHING" /\ g.slot = ElectionSlot(row[a])
    BY <2>1 DEF Written, Decided, Receipt, Decision
  <2>4. row[a] \in Rows /\ row[a].actor = req[a].actor
    BY <2>2, SlotType DEF AttemptOK, Binding
  <2>5. PICK s \in ReceiptSlots(row[a]) : h = Receipt(row[a], s)
    <3>1. IsReceiptOf(h, h.of) \/ IsDecisionOf(h, h.of)
      BY DEF Inv, RecordsOK
    <3> QED BY <2>3, <3>1 DEF IsReceiptOf, IsDecisionOf, Receipt, Decision
  <2>6. CASE g.slot = CurrentSlot(a)
    <3>1. h \notin Completed(a)
      BY <2>1, <2>2 DEF AttemptOK
    <3> QED BY <2>4, <2>5, <2>6, <3>1 DEF Completed, Receipt
  <2>7. CASE row[a].entry = "BIRTHING" /\ g.slot = ElectionSlot(row[a])
    <3>1. s = OwnSlot(row[a])
      BY <2>4, <2>7, SlotTells DEF Compound
    <3>2. s.action = "TRANSITION_LIVING_ORGANISM"
      BY <2>7, <3>1 DEF OwnSlot, Slot, ActionOf
    <3> QED BY <2>5, <2>7, <3>2 DEF ElectionSlot, Slot, Receipt
  <2> QED BY <2>3, <2>6, <2>7
<1> QED BY <1>1, Invariance, PTL DEF Spec, CompletedIsFinal

\* No circle of waiting calls: one that has written waits for nobody; if none has,
\* nobody waits for the organism; and who is in a transaction and does not wait
\* for the organism waits for nothing.
THEOREM NobodyWaitsInCircles == Spec => []NoWaitCircle
<1>1. Inv => NoWaitCircle
  <2> SUFFICES ASSUME Inv, NEW D \in SUBSET Attempt, D # {}
               PROVE  \E a \in D : \A c \in D : ~Awaits(a, c)
    BY DEF NoWaitCircle
  <2>1. LocksOK /\ Types /\ None \notin Attempt
    BY NoneAssumption DEF Inv, TypeOK
  <2>2. ASSUME NEW a \in D, NEW c \in D, Awaits(a, c)
        PROVE  \/ pc[a] = "bound" /\ pc[c] \in InTransaction
               \/ pc[a] = "fresh" /\ pc[c] = "written"
    <3>1. CASE pc[a] = "fresh" /\ organism = c
      BY <2>1, <3>1 DEF LocksOK
    <3>2. CASE pc[a] = "bound" /\ lock[req[a].actor] = c
      <4>1. req[a].actor \in Actor
        <5>1. req[a] # None
          BY <3>2 DEF Inv, TypeOK, AttemptOK
        <5> QED BY <2>1, <5>1, RequestAssumption DEF Types, Content
      <4> QED BY <2>1, <3>2, <4>1 DEF LocksOK
    <3> QED BY <2>2, <3>1, <3>2 DEF Awaits
  <2>3. CASE \E a \in D : pc[a] = "written"
    BY <2>2, <2>3
  <2>4. CASE (\A a \in D : pc[a] # "written") /\ (\E a \in D : pc[a] \in InTransaction)
    BY <2>2, <2>4 DEF InTransaction
  <2>5. CASE \A a \in D : pc[a] \notin InTransaction
    BY <2>2, <2>5 DEF InTransaction
  <2> QED BY <2>3, <2>4, <2>5
<1> QED BY <1>1, Invariance, PTL

\* A binding's receipt time has passed, and its decisions are dated by it.
ReceivedInThePast == \A b \in intake : b.at <= clock

THEOREM NothingDecidedAhead == Spec => []DecidedInThePast
<1>1. Init => ReceivedInThePast
  BY DEF Init, ReceivedInThePast
<1>2. Inv /\ ReceivedInThePast /\ [Next]_vars => ReceivedInThePast'
  <2> SUFFICES ASSUME Inv, ReceivedInThePast, [Next]_vars, NEW b \in intake'
               PROVE  b.at <= clock'
    BY DEF ReceivedInThePast
  <2>1. clock \in Nat /\ (clock' = clock \/ clock' = clock + 1)
    <3>1. clock \in Nat
      BY BoundAssumption DEF Inv, TypeOK, Types
    <3>2. ASSUME NEW a \in Attempt, Step(a) PROVE clock' = clock
      BY <3>2, StepMoves DEF Inv, TypeOK, Moves
    <3> QED BY <3>1, <3>2, NextIsSteps DEF ChangeAccess, Tick, vars
  <2>2. CASE b \in intake
    <3>1. b.at \in Nat /\ b.at <= clock
      BY <2>2, BoundAssumption DEF ReceivedInThePast, Inv, TypeOK, Types, Rows
    <3> QED BY <2>1, <3>1
  <2>3. CASE b \notin intake
    <3>1. PICK a \in Attempt : b = Binding(req[a], seen[a], clock)
      BY <2>3, IntakeGrows
    <3> QED BY <2>1, <3>1 DEF Binding
  <2> QED BY <2>2, <2>3
<1>3. Inv /\ ReceivedInThePast => DecidedInThePast
  <2> SUFFICES ASSUME Inv, ReceivedInThePast, NEW g \in records, g.kind = "decision"
               PROVE  g.at <= clock
    BY DEF DecidedInThePast
  <2>1. g.of \in intake /\ (IsReceiptOf(g, g.of) \/ IsDecisionOf(g, g.of))
    BY DEF Inv, RecordsOK
  <2>2. g.at = g.of.at
    BY <2>1 DEF IsReceiptOf, IsDecisionOf, Receipt, Decision
  <2> QED BY <2>1, <2>2 DEF ReceivedInThePast
<1> QED BY <1>1, <1>2, <1>3, Invariance, PTL DEF Spec

\* A call in progress has been told nothing; one that was told "done" still has
\* its binding, with a receipt of every stage.
AnswersOK ==
  \A a \in Attempt :
    /\ pc[a] # "told" => told[a] = "nothing"
    /\ told[a] = "done" =>
         /\ row[a] # None
         /\ \A n \in DOMAIN Stages(row[a]) : Receipt(row[a], Stages(row[a])[n]) \in records

LEMMA ServedAnswer ==
  ASSUME Inv, [Next]_vars,
         NEW a \in Attempt, Served(a), Replay(a) \/ Commit(a),
         AnswersOK
  PROVE  /\ pc'[a] # "told" => told'[a] = "nothing"
         /\ told'[a] = "done" =>
              /\ row[a] # None
              /\ \A n \in DOMAIN Stages(row[a]) : Receipt(row[a], Stages(row[a])[n]) \in records'
<1>1. Types /\ AttemptOK(a) /\ row[a] # None /\ told[a] = "nothing" /\ row[a] \in Rows
  <2>1. Types /\ AttemptOK(a) /\ row[a] # None /\ pc[a] # "told"
    BY DEF Inv, TypeOK, AttemptOK, InTransaction, Replay, Commit
  <2> QED BY <2>1 DEF AnswersOK, Types
<1>2. CASE /\ pc' = [pc EXCEPT ![a] = "bound"]
           /\ told' = told
  BY <1>1, <1>2 DEF Types
<1>3. CASE /\ pc' = [pc EXCEPT ![a] = "told"]
           /\ stage[a] = Len(Stages(row[a]))
  <2> SUFFICES ASSUME NEW n \in DOMAIN Stages(row[a])
               PROVE  Receipt(row[a], Stages(row[a])[n]) \in records'
    BY <1>1, <1>3 DEF Types
  <2>1. n \in 1..Len(Stages(row[a])) /\ Len(Stages(row[a])) \in 1..2
    BY <1>1, StagesType DEF Rows
  <2>2. CASE n = stage[a]
    BY <2>2, ServedHasReceipt DEF Inv, CurrentSlot
  <2>3. CASE n # stage[a]
    <3>1. n \in 1..stage[a] - 1
      BY <1>3, <2>1, <2>3
    <3>2. Receipt(row[a], Stages(row[a])[n]) \in records
      BY <1>1, <3>1 DEF Inv, AttemptsInOrder, StagesDone
    <3> QED BY <3>2, RecordsGrow DEF Inv
  <2> QED BY <2>2, <2>3
<1> QED BY <1>1, <1>2, <1>3, ServedSteps

\* Nobody is told "done" of a request with a stage that has no receipt.
THEOREM DoneMeansDone == Spec => []DoneIsDone
<1>1. Init => AnswersOK
  BY DEF Init, AnswersOK
<1>2. Inv /\ AnswersOK /\ [Next]_vars => AnswersOK'
  <2> SUFFICES ASSUME Inv, AnswersOK, [Next]_vars
               PROVE  AnswersOK'
    OBVIOUS
  <2>1. records \subseteq records'
    BY RecordsGrow DEF Inv
  <2> DEFINE Answered1(c) ==
               /\ pc'[c] # "told" => told'[c] = "nothing"
               /\ told'[c] = "done" =>
                    /\ row'[c] # None
                    /\ \A n \in DOMAIN Stages(row'[c]) :
                         Receipt(row'[c], Stages(row'[c])[n]) \in records'
  <2>2. ASSUME NEW c \in Attempt, pc'[c] = pc[c], told'[c] = told[c], row'[c] = row[c]
        PROVE  Answered1(c)
    BY <2>1, <2>2 DEF AnswersOK
  <2>3. ASSUME NEW a \in Attempt, Step(a), NEW c \in Attempt
        PROVE  Answered1(c)
    <3>1. Types /\ AttemptOK(a)
      BY DEF Inv, TypeOK
    <3>2. CASE c # a
      BY <2>2, <2>3, <3>1, <3>2, StepMoves DEF Moves, OthersStand
    <3>3. pc[a] # "told" => told[a] = "nothing"
      BY DEF AnswersOK
    \* Every other answer than "done" says nothing here.
    <3>4. ASSUME told'[a] # "done", pc'[a] # "told" => told'[a] = "nothing"
          PROVE  Answered1(a)
      BY <3>4
    <3>5. ASSUME Admit(a)
          PROVE  Answered1(a)
      <4>1. pc[a] # "told"
        BY <3>5 DEF Admit, Look, History, CheckHistory, Reread, Insert, ReadBack, LoseAdmission,
                    Admitting
      <4>2. \/ told' = told
            \/ pc'[a] = "told" /\ told'[a] \in {"mismatch", "alarm", "unconfirmed"}
        BY <3>1, <3>5 DEF Admit, Look, History, CheckHistory, Reread, Insert, ReadBack, LoseAdmission,
                    Bind, Tell, Goto, Types
      <4> QED BY <3>3, <3>4, <4>1, <4>2
    <3>6. ASSUME \E r \in Request : Call(a, r)
          PROVE  Answered1(a)
      <4>1. told'[a] = "nothing"
        BY <3>1, <3>6 DEF Call, Types
      <4> QED BY <3>4, <4>1
    <3>7. ASSUME Execute(a)
          PROVE  Answered1(a)
      <4>1. pc[a] # "told" /\ row' = row
        BY <3>7 DEF Execute, Begin, Replay, Perform, Commit, RollBack, LoseCommit, InTransaction
      <4>2. \/ told' = told
            \/ pc'[a] = "told" /\ told'[a] # "done"
            \/ Served(a) /\ (Replay(a) \/ Commit(a))
        BY <3>1, <3>7 DEF Execute, Begin, Replay, Perform, Commit, RollBack, LoseCommit, Tell, Goto, Types
      <4>3. CASE Served(a) /\ (Replay(a) \/ Commit(a))
        BY <4>1, <4>3, ServedAnswer
      <4> QED BY <3>3, <3>4, <4>1, <4>2, <4>3
    <3> QED BY <2>3, <3>2, <3>5, <3>6, <3>7 DEF Step
  <2>4. CASE UNCHANGED <<pc, told, row>>
    BY <2>2, <2>4 DEF AnswersOK
  <2>5. (\E x \in Actor : \E e \in Changes : ChangeAccess(x, e[2])) \/ Tick \/ UNCHANGED vars
          => UNCHANGED <<pc, told, row>>
    BY DEF ChangeAccess, Tick, vars, attempts
  <2> QED BY <2>3, <2>4, <2>5, NextIsSteps DEF AnswersOK
<1>3. AnswersOK => DoneIsDone
  BY DEF AnswersOK, DoneIsDone
<1> QED BY <1>1, <1>2, <1>3, Invariance, PTL DEF Spec

-----------------------------------------------------------------------------
(* The unexpected-history refusal.                                         *)

\* A Birthing of the activation's actor and key.
Known(a) ==
  /\ req[a].entry = "ACTIVATE_BETA"
  /\ \E b \in intake : b.entry = "BIRTHING" /\ b.actor = req[a].actor /\ b.key = req[a].key

AlarmsOK ==
  \A a \in Attempt :
    /\ pc[a] = "candidates" => found[a] \subseteq Recorded(req[a])
    /\ pc[a] = "reread" => Known(a)
    /\ told[a] = "alarm" => pc[a] = "told" /\ Known(a)

\* Only an election's decision lies in a slot of its request that is neither a
\* compound stage's nor the request's own.
LEMMA OnlyElections ==
  ASSUME Inv, NEW a \in Attempt, req[a] # None, NEW g \in Recorded(req[a]),
         \A b \in Candidates(req[a]) : ~AccountsFor(b, g)
  PROVE  Known(a)
<1> DEFINE r == req[a]
           b == g.of
<1>1. g \in records /\ g.actor = r.actor /\ g.slot \in Slots(r)
  BY DEF Recorded
<1>2. b \in intake /\ (IsReceiptOf(g, b) \/ IsDecisionOf(g, b))
  BY <1>1 DEF Inv, RecordsOK
<1>3. AccountsFor(b, g) /\ g.actor = b.actor /\ g.slot \in Slots(b)
  <2>1. CASE IsReceiptOf(g, b)
    BY <2>1 DEF IsReceiptOf, Receipt, AccountsFor, Slots
  <2>2. CASE IsDecisionOf(g, b)
    BY <2>2 DEF IsDecisionOf, Decision, AccountsFor
  <2> QED BY <1>2, <2>1, <2>2
<1>4. b.entry \notin Compound /\ OwnSlot(b) \notin Slots(r)
  BY <1>1, <1>2, <1>3 DEF Candidates
<1>5. b \in Rows /\ r \in Content
  BY <1>2, RequestAssumption DEF Inv, TypeOK, Types
<1>6. g.slot \notin ReceiptSlots(b)
  BY <1>1, <1>4, <1>5, SlotTells
<1>7. b.entry = "BIRTHING" /\ g.slot = ElectionSlot(b)
  BY <1>3, <1>6 DEF Slots
<1>8. r.entry # "BIRTHING"
  <2> SUFFICES ASSUME r.entry = "BIRTHING"
               PROVE  FALSE
    OBVIOUS
  <2>1. r.entry \notin Compound
    BY DEF Compound
  <2>2. Stages(r) = <<OwnSlot(r)>>
    BY <2>1 DEF Stages
  <2>3. OwnSlot(r) \in ReceiptSlots(r)
    BY <2>2 DEF ReceiptSlots
  <2>4. OwnSlot(r).form = "own" /\ OwnSlot(r).action = "TRANSITION_LIVING_ORGANISM" /\ OwnSlot(r).key = r.key
    BY DEF OwnSlot, Slot, ActionOf
  <2>5. g.slot.action = "EFFECT_ENTITLEMENT_ELECTION" /\ g.slot.key = b.key
    BY <1>7 DEF ElectionSlot, Slot
  <2>6. g.slot \in ReceiptSlots(r) => g.slot = OwnSlot(r)
    BY <2>2 DEF ReceiptSlots
  <2>7. g.slot = ElectionSlot(r)
    BY <1>1, <2>4, <2>5, <2>6 DEF Slots
  <2>8. r.key = b.key
    BY <2>5, <2>7 DEF ElectionSlot, Slot
  <2>9. OwnSlot(b) = OwnSlot(r)
    BY <1>7, <2>8 DEF OwnSlot
  <2> QED BY <1>4, <2>3, <2>9 DEF Slots
<1>9. r.entry \notin Compound /\ g.slot = OwnSlot(r)
  <2>1. g.slot \in ReceiptSlots(r)
    BY <1>1, <1>8 DEF Slots
  <2>2. g.slot.form = "own"
    BY <1>7 DEF ElectionSlot, Slot
  <2>3. CASE r.entry \in Compound
    <3> DEFINE t == Slot("REQUEST_GOVERNANCE_SEAT", "request", r.key)
               u == Slot("ADMIT_CIRCLE_PARTICIPANT", "admit", r.key)
    <3>1. Stages(r) = <<t, u>>
      BY <2>3 DEF Stages
    <3>2. t.form = "request" /\ u.form = "admit"
      BY DEF Slot
    <3>3. g.slot = t \/ g.slot = u
      <4> HIDE DEF t, u
      <4> QED BY <2>1, <3>1 DEF ReceiptSlots
    <3> QED BY <2>2, <3>2, <3>3
  <2>4. CASE r.entry \notin Compound
    <3>1. Stages(r) = <<OwnSlot(r)>>
      BY <2>4 DEF Stages
    <3> QED BY <2>1, <2>4, <3>1 DEF ReceiptSlots
  <2> QED BY <2>3, <2>4
<1>10. r.entry = "ACTIVATE_BETA" /\ r.key = b.key
  <2>1. ActionOf[r.entry] = "EFFECT_ENTITLEMENT_ELECTION" /\ r.key = b.key
    BY <1>7, <1>9 DEF ElectionSlot, OwnSlot, Slot
  <2>2. r.entry \in Entries
    BY <1>5 DEF Content
  <2> QED BY <2>1, <2>2 DEF ActionOf, Entries
<1> QED BY <1>1, <1>2, <1>3, <1>7, <1>10 DEF Known

\* The refusal is raised about a Birthing's election only, and only to a beta
\* activation under the Birthing's own key.
THEOREM AlarmsAreKnown == Spec => []AlarmIsKnown
<1>1. Init => AlarmsOK
  BY DEF Init, AlarmsOK
<1>2. Inv /\ AlarmsOK /\ [Next]_vars => AlarmsOK'
  <2> SUFFICES ASSUME Inv, AlarmsOK, [Next]_vars
               PROVE  AlarmsOK'
    OBVIOUS
  <2> DEFINE OK(c) == /\ pc[c] = "candidates" => found[c] \subseteq Recorded(req[c])
                      /\ pc[c] = "reread" => Known(c)
                      /\ told[c] = "alarm" => pc[c] = "told" /\ Known(c)
  <2>1. intake \subseteq intake' /\ records \subseteq records'
    BY RecordsGrow DEF Inv
  <2>2. ASSUME NEW c \in Attempt, req'[c] = req[c]
        PROVE  /\ Known(c) => Known(c)'
               /\ Recorded(req[c]) \subseteq Recorded(req[c])'
    BY <2>1, <2>2 DEF Known, Recorded
  <2>3. ASSUME NEW c \in Attempt, pc'[c] = pc[c], told'[c] = told[c], found'[c] = found[c],
               req'[c] = req[c]
        PROVE  OK(c)'
    BY <2>2, <2>3 DEF AlarmsOK
  <2>4. ASSUME NEW a \in Attempt, Step(a), NEW c \in Attempt
        PROVE  OK(c)'
    <3>1. Types /\ AttemptOK(a) /\ OK(a)
      BY DEF Inv, TypeOK, AlarmsOK
    <3>2. CASE c # a
      BY <2>3, <2>4, <3>1, <3>2, StepMoves DEF Moves, OthersStand
    \* Every other step leads elsewhere and raises nothing.
    <3>3. ASSUME pc'[a] \notin {"candidates", "reread"}, told'[a] # "alarm"
          PROVE  OK(a)'
      BY <3>3
    <3>4. ASSUME pc[a] # "told"
          PROVE  told[a] # "alarm"
      BY <3>1, <3>4
    <3>5. ASSUME History(a)
          PROVE  OK(a)'
      <4>1. pc[a] = "history" /\ told' = told /\ req' = req /\ records' = records
            /\ found'[a] = Recorded(req[a]) /\ pc'[a] \in {"insert", "candidates"}
        BY <3>1, <3>5 DEF History, Goto, database, Types
      <4>2. Recorded(req[a])' = Recorded(req[a])
        BY <4>1 DEF Recorded
      <4> QED BY <3>4, <4>1, <4>2
    <3>6. ASSUME CheckHistory(a)
          PROVE  OK(a)'
      <4>1. pc[a] = "candidates" /\ told' = told /\ req' = req /\ intake' = intake
            /\ pc'[a] \in {"insert", "reread"}
        BY <3>1, <3>6 DEF CheckHistory, Goto, database, Types
      <4>2. ASSUME pc'[a] = "reread"
            PROVE  Known(a)
        <5>1. PICK g \in found[a] : \A b \in Candidates(req[a]) : ~AccountsFor(b, g)
          BY <3>1, <3>6, <4>2 DEF CheckHistory, Goto, Types
        <5>2. req[a] # None
          BY <3>1, <4>1 DEF AttemptOK
        <5> QED BY <3>1, <4>1, <5>1, <5>2, OnlyElections
      <4> QED BY <2>2, <3>4, <4>1, <4>2
    <3>7. ASSUME Reread(a)
          PROVE  OK(a)'
      <4>1. pc[a] = "reread" /\ Known(a) /\ req' = req /\ pc'[a] \in {"told", "bound"}
        BY <3>1, <3>7 DEF Reread, Bind, Tell, Goto, Types
      <4>2. Known(a)'
        BY <2>2, <4>1
      <4>3. told'[a] = "alarm" => pc'[a] = "told"
        BY <3>1, <3>4, <3>7, <4>1 DEF Reread, Bind, Tell, Goto, Types
      <4> QED BY <4>1, <4>2, <4>3
    <3>8. ASSUME Look(a) \/ Insert(a) \/ ReadBack(a) \/ LoseAdmission(a)
          PROVE  OK(a)'
      <4>1. pc[a] # "told"
        BY <3>8 DEF Look, Insert, ReadBack, LoseAdmission, Admitting
      <4>2. pc'[a] \notin {"candidates", "reread"}
        BY <3>1, <3>8 DEF Look, Insert, ReadBack, LoseAdmission, Bind, Tell, Goto, Types
      <4>3. told' = told \/ told'[a] \in {"mismatch", "unconfirmed"}
        BY <3>1, <3>8 DEF Look, Insert, ReadBack, LoseAdmission, Bind, Tell, Goto, Types
      <4> QED BY <3>3, <3>4, <4>1, <4>2, <4>3
    <3>9. ASSUME \E r \in Request : Call(a, r)
          PROVE  OK(a)'
      <4>1. pc'[a] = "look" /\ told'[a] = "nothing"
        BY <3>1, <3>9 DEF Call, Goto, Types
      <4> QED BY <3>3, <4>1
    <3>10. ASSUME Execute(a)
           PROVE  OK(a)'
      <4>1. pc[a] # "told"
        BY <3>10 DEF Execute, Begin, Replay, Perform, Commit, RollBack, LoseCommit, InTransaction
      <4>2. pc'[a] \notin {"candidates", "reread"}
        BY <3>1, <3>10 DEF Execute, Begin, Replay, Perform, Commit, RollBack, LoseCommit, Served,
                           Tell, Goto, Types
      <4>3. told' = told \/ told'[a] # "alarm"
        BY <3>1, <3>10 DEF Execute, Begin, Replay, Perform, Commit, RollBack, LoseCommit, Served,
                           Tell, Goto, Types
      <4> QED BY <3>3, <3>4, <4>1, <4>2, <4>3
    <3> QED BY <2>4, <3>2, <3>5, <3>6, <3>7, <3>8, <3>9, <3>10 DEF Step, Admit
  <2>5. (\E x \in Actor : \E e \in Changes : ChangeAccess(x, e[2])) \/ Tick \/ UNCHANGED vars
          => UNCHANGED <<pc, told, found, req>>
    BY DEF ChangeAccess, Tick, vars, attempts
  <2>6. CASE UNCHANGED <<pc, told, found, req>>
    BY <2>3, <2>6 DEF AlarmsOK
  <2> QED BY <2>4, <2>5, <2>6, NextIsSteps DEF AlarmsOK
<1>3. AlarmsOK => AlarmIsKnown
  BY DEF AlarmsOK, AlarmIsKnown, Known
<1> QED BY <1>1, <1>2, <1>3, Invariance, PTL DEF Spec

-----------------------------------------------------------------------------
(* Refinement.                                                             *)

\* CommandPromise speaks of the same stages and slots.
LEMMA SameVocabulary ==
  ASSUME NEW r
  PROVE  Promise!OwnSlot(r) = OwnSlot(r) /\ Promise!Stages(r) = Stages(r)
<1>1. Promise!OwnSlot(r) = OwnSlot(r)
  BY DEF Promise!OwnSlot, OwnSlot, Promise!ActionOf, ActionOf, Promise!Slot, Slot
<1> QED BY <1>1 DEF Promise!Stages, Stages, Promise!Compound, Compound, Promise!Slot, Slot

LEMMA PerformedTells ==
  ASSUME RecordsOK
  PROVE  \A b : \A s : Promise!Deed(b, s) \in Performed <=> Receipt(b, s) \in records
<1> TAKE b
<1> TAKE s
<1>1. ASSUME Promise!Deed(b, s) \in Performed
      PROVE  Receipt(b, s) \in records
  <2>1. PICK g \in records : /\ g.kind = "receipt"
                             /\ Promise!Deed(b, s) = [actor |-> g.actor, slot |-> g.slot, of |-> g.of]
    BY <1>1 DEF Performed
  <2>2. g.of = b /\ g.slot = s
    BY <2>1 DEF Promise!Deed
  <2>3. IsReceiptOf(g, g.of)
    BY <2>1 DEF RecordsOK, IsDecisionOf, Decision
  <2>4. g = Receipt(g.of, g.slot)
    BY <2>3, ReceiptTells DEF IsReceiptOf
  <2> QED BY <2>1, <2>2, <2>4
<1>2. ASSUME Receipt(b, s) \in records
      PROVE  Promise!Deed(b, s) \in Performed
  BY <1>2 DEF Performed, Receipt, Promise!Deed
<1> QED BY <1>1, <1>2

\* A new row is received: nobody bound its key before.
LEMMA ReceiveStep ==
  ASSUME TypeOK, UNCHANGED records,
         NEW a \in Attempt, Existing(req[a]) = {},
         intake' = intake \union {Binding(req[a], seen[a], clock)}
  PROVE  Promise!Receive
<1> DEFINE b == Binding(req[a], seen[a], clock)
<1>1. b.actor = req[a].actor /\ OwnSlot(b) = OwnSlot(req[a])
  BY DEF Binding, OwnSlot
<1>2. \A c \in intake : ~Promise!SameKey(b, c)
  BY <1>1, SameVocabulary DEF Existing, Promise!SameKey
<1>3. UNCHANGED Performed
  BY DEF Performed
<1>4. b \in intake' /\ intake' = intake \union {b}
  OBVIOUS
<1> HIDE DEF b
<1> QED BY <1>2, <1>3, <1>4 DEF Promise!Receive

\* A commit performs the stage its attempt is at, and nothing else; a refusal's
\* commit performs nothing.
LEMMA PerformStep ==
  ASSUME Inv, RecordsOK', NEW a \in Attempt, pc[a] = "written", UNCHANGED intake,
         records \subseteq records', \A g \in records' \ records : g \in Written(a)
  PROVE  Promise!Perform \/ UNCHANGED Performed
<1> DEFINE b == row[a]
           n == stage[a]
           s == Stages(b)[n]
<1>1. /\ Types /\ AttemptOK(a) /\ b # None /\ b \in intake /\ n \in DOMAIN Stages(b)
      /\ Completed(a) = {} /\ b.actor = req[a].actor /\ s = CurrentSlot(a)
  BY DEF Inv, TypeOK, AttemptOK, InTransaction, Binding, CurrentSlot
<1>2. \A g \in records' \ records : g.kind = "receipt" => g = Receipt(b, s)
  BY <1>1, WrittenType DEF Decision
<1>3. CASE Receipt(b, s) \notin records' \ records
  <2>1. {h \in records : h.kind = "receipt"} = {h \in records' : h.kind = "receipt"}
    BY <1>2, <1>3
  <2> QED BY <2>1 DEF Performed
<1>4. CASE Receipt(b, s) \in records' \ records
  <2>1. {h \in records' : h.kind = "receipt"}
          = {h \in records : h.kind = "receipt"} \union {Receipt(b, s)}
    BY <1>2, <1>4, ReceiptTells
  <2>2. Performed' = Performed \union {Promise!Deed(b, s)}
    <3>1. Promise!Deed(b, s) = [actor |-> Receipt(b, s).actor, slot |-> Receipt(b, s).slot,
                                of |-> Receipt(b, s).of]
      BY ReceiptTells DEF Promise!Deed
    <3> HIDE DEF b, s
    <3> QED BY <2>1, <3>1 DEF Performed
  <2>3. \A p \in Performed : ~(p.actor = b.actor /\ p.slot = s)
    <3> SUFFICES ASSUME NEW g \in records, g.kind = "receipt", g.actor = b.actor, g.slot = s
                 PROVE  FALSE
      BY DEF Performed
    <3> QED BY <1>1 DEF Completed
  <2>4. \A m \in 1..n - 1 : Promise!Deed(b, Stages(b)[m]) \in Performed
    <3> TAKE m \in 1..n - 1
    <3>1. Receipt(b, Stages(b)[m]) \in records
      BY <1>1 DEF Inv, AttemptsInOrder, StagesDone
    <3> QED BY <3>1, PerformedTells DEF Inv
  <2>5. Promise!Stages(b) = Stages(b)
    BY SameVocabulary
  <2> HIDE DEF b, n
  <2> QED BY <1>1, <2>2, <2>3, <2>4, <2>5 DEF Promise!Perform
<1> QED BY <1>3, <1>4

\* The intake and its executors implement CommandPromise: whatever is lost,
\* repeated or done at the same time, a key is bound once, each stage of a bound
\* request is performed at most once, under its binding, and in order.
THEOREM IntakeKeepsPromise == Spec => PromiseKept
<1>1. Init => Promise!Init
  BY DEF Init, Promise!Init, Performed
<1>2. Inv /\ Inv' /\ [Next]_vars => [Promise!Next]_<<intake, Performed>>
  <2> SUFFICES ASSUME Inv, Inv', [Next]_vars
               PROVE  Promise!Next \/ UNCHANGED <<intake, Performed>>
    OBVIOUS
  <2>1. CASE records' # records
    <3>1. PICK a \in Attempt : /\ pc[a] = "written" /\ Step(a)
                               /\ \A g \in records' \ records : g \in Written(a)
      BY <2>1, RecordsGrow DEF Inv
    <3>2. intake' = intake /\ records \subseteq records'
      BY <3>1, RecordsGrow DEF Inv, Step, Call, Admit, Look, History, CheckHistory, Reread, Insert,
         ReadBack, LoseAdmission, Admitting, Execute, Begin, Replay, Perform, Commit, RollBack, LoseCommit
    <3> QED BY <3>1, <3>2, PerformStep DEF Inv, Promise!Next
  <2>2. CASE records' = records
    <3>1. UNCHANGED Performed
      BY <2>2 DEF Performed
    <3> QED BY <2>2, <3>1, IntakeGrows, ReceiveStep DEF Inv, Promise!Next
  <2> QED BY <2>1, <2>2
<1> QED BY <1>1, <1>2, Invariance, PTL DEF Spec, PromiseKept, Promise!Spec
=============================================================================
