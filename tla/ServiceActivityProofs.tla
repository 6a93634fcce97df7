------------------------ MODULE ServiceActivityProofs ------------------------
(***************************************************************************)
(* Proofs about ServiceActivity.  What carries them: no two transactions   *)
(* hold one row (Apart), each takes its rows in its order (Ordered), and   *)
(* what a transition needed when it was made is still there (Kept).        *)
(***************************************************************************)
EXTENDS ServiceActivity, WellFoundedInduction, TLAPS

Reads == UNION {[P -> Identity] : P \in SUBSET Identities}

\* A transaction under way or refused, and one answered.
Working == [stage : {"locking", "looked", "refused"}, command : Commands, rooted : BOOLEAN,
            people : Reads, sees : States \cup {"none"}, offers : BOOLEAN,
            found : SUBSET Transition]
Done == [stage : {"answered"}, command : Commands, answer : [to : States, sequence : Nat]]

Typed ==
  /\ identities \in [Identities -> Identity]
  /\ offered \subseteq Services
  /\ activities \in [Activities -> Head]
  /\ transitions \subseteq Transition
  /\ tx \in [Sessions -> {Idle} \cup Working \cup Done]
  /\ \A s \in Sessions : tx[s] \in Working => tx[s].found \subseteq transitions

-----------------------------------------------------------------------------
(* The steps of a session, by the record they leave. *)

Started(c) == [stage |-> "locking", command |-> c, rooted |-> FALSE, people |-> <<>>,
               sees |-> "none", offers |-> FALSE, found |-> {}]
Rooted(r, sees, offers) ==
  [stage |-> "locking", command |-> r.command, rooted |-> TRUE, people |-> r.people,
   sees |-> sees, offers |-> offers, found |-> r.found]
Joined(r, i, row) ==
  [stage |-> "locking", command |-> r.command, rooted |-> r.rooted,
   people |-> [j \in DOMAIN r.people \cup {i} |-> IF j = i THEN row ELSE r.people[j]],
   sees |-> r.sees, offers |-> r.offers, found |-> r.found]
Ending(r, stage, found) ==
  [stage |-> stage, command |-> r.command, rooted |-> r.rooted, people |-> r.people,
   sees |-> r.sees, offers |-> r.offers, found |-> found]
Answering(r, answer) == [stage |-> "answered", command |-> r.command, answer |-> answer]

Becomes(s, r) == tx' = [o \in Sessions |-> IF o = s THEN r ELSE tx[o]]

LEMMA ReadsAre ==
  /\ \A f \in Reads : /\ DOMAIN f \subseteq Identities
                      /\ \A i \in DOMAIN f : f[i] \in Identity
                      /\ f = [i \in DOMAIN f |-> f[i]]
  /\ \A P \in SUBSET Identities : [P -> Identity] \subseteq Reads
  /\ <<>> \in Reads /\ DOMAIN <<>> = {}
  <1>1. ASSUME NEW f \in Reads
        PROVE  /\ DOMAIN f \subseteq Identities
               /\ \A i \in DOMAIN f : f[i] \in Identity
               /\ f = [i \in DOMAIN f |-> f[i]]
    <2>1. PICK P \in SUBSET Identities : f \in [P -> Identity] BY Zenon DEF Reads
    <2> QED BY <2>1
  <1>2. ASSUME NEW P \in SUBSET Identities PROVE [P -> Identity] \subseteq Reads
    BY Zenon DEF Reads
  <1>3. <<>> \in [{} -> Identity] /\ DOMAIN <<>> = {} OBVIOUS
  <1>4. <<>> \in Reads BY <1>2, <1>3
  <1> QED BY <1>1, <1>2, <1>3, <1>4, Zenon

\* A session whose stage is of a live or refused transaction has its fields.
LEMMA IsWorking ==
  ASSUME Typed, NEW s \in Sessions, tx[s].stage \in {"locking", "looked", "refused"}
  PROVE  tx[s] \in Working
  BY DEF Typed, Idle, Done

LEMMA RootedExcept ==
  ASSUME Typed, NEW s \in Sessions, tx[s] \in Working, tx[s].stage = "locking",
         NEW v, NEW a, NEW b,
         tx' = [tx EXCEPT ![s].rooted = v, ![s].sees = a, ![s].offers = b]
  PROVE  Becomes(s, [stage |-> "locking", command |-> tx[s].command, rooted |-> v,
                     people |-> tx[s].people, sees |-> a, offers |-> b, found |-> tx[s].found])
  <1>1. tx \in [Sessions -> {Idle} \cup Working \cup Done] BY DEF Typed
  <1>2. tx'[s] = [stage |-> "locking", command |-> tx[s].command, rooted |-> v,
                  people |-> tx[s].people, sees |-> a, offers |-> b, found |-> tx[s].found]
    BY <1>1 DEF Working
  <1> QED BY <1>1, <1>2 DEF Becomes

LEMMA OnRoot ==
  ASSUME Typed, NEW s \in Sessions, TakeRoot(s)
  PROVE  /\ tx[s] \in Working
         /\ Becomes(s, Rooted(tx[s], activities[tx[s].command.activity].state,
                              tx[s].command.service \in offered))
  <1>1. tx[s].stage = "locking" BY DEF TakeRoot
  <1>2. tx[s] \in Working BY <1>1, IsWorking
  <1>3. tx' = [tx EXCEPT ![s].rooted = TRUE,
                         ![s].sees = activities[tx[s].command.activity].state,
                         ![s].offers = tx[s].command.service \in offered]
    BY DEF TakeRoot
  <1> QED BY <1>1, <1>2, <1>3, RootedExcept, Zenon DEF Rooted

LEMMA OnPerson ==
  ASSUME Typed, NEW s \in Sessions, NEW i \in Identities, TakePerson(s, i)
  PROVE  tx[s] \in Working /\ Becomes(s, Joined(tx[s], i, identities[i]))
  <1>1. tx[s].stage = "locking" BY DEF TakePerson
  <1>2. tx[s] \in Working BY <1>1, IsWorking
  <1>3. tx \in [Sessions -> {Idle} \cup Working \cup Done] BY DEF Typed
  <1>4. tx' = [tx EXCEPT ![s].people =
       [j \in DOMAIN @ \cup {i} |-> IF j = i THEN identities[i] ELSE @[j]]]
    BY DEF TakePerson
  <1>5. ASSUME NEW r \in Working, r.stage = "locking"
        PROVE  [r EXCEPT !.people =
                 [j \in DOMAIN @ \cup {i} |-> IF j = i THEN identities[i] ELSE @[j]]]
               = Joined(r, i, identities[i])
    BY <1>5 DEF Working, Joined
  <1> QED BY <1>1, <1>2, <1>3, <1>4, <1>5 DEF Becomes

LEMMA OnEnding ==
  ASSUME Typed, NEW s \in Sessions, NEW stage \in {"looked", "refused"},
         tx[s].stage \in {"locking", "looked", "refused"},
         tx' = [tx EXCEPT ![s].stage = stage, ![s].found = Earlier(tx[s].command)]
  PROVE  tx[s] \in Working /\ Becomes(s, Ending(tx[s], stage, Earlier(tx[s].command)))
  <1>2. tx[s] \in Working BY IsWorking
  <1>3. tx \in [Sessions -> {Idle} \cup Working \cup Done] BY DEF Typed
  <1>5. ASSUME NEW r \in Working, NEW f
        PROVE  [[r EXCEPT !.stage = stage] EXCEPT !.found = f] = Ending(r, stage, f)
    <2> DEFINE q == [r EXCEPT !.stage = stage]
    <2>1. q = [stage |-> stage, command |-> r.command, rooted |-> r.rooted, people |-> r.people,
               sees |-> r.sees, offers |-> r.offers, found |-> r.found]
      BY DEF Working
    <2>2. [q EXCEPT !.found = f] = Ending(r, stage, f)
      <3> HIDE DEF q
      <3> QED BY <2>1 DEF Ending
    <2> QED BY <2>2
  <1> QED BY <1>2, <1>3, <1>5 DEF Becomes

LEMMA OnBegin ==
  ASSUME Typed, NEW s \in Sessions, NEW c \in Commands, Begin(s, c)
  PROVE  Becomes(s, Started(c))
  BY DEF Typed, Begin, Started, Becomes

LEMMA OnAnswer ==
  ASSUME Typed, NEW s \in Sessions, NEW answer, tx' = Answered(s, answer)
  PROVE  Becomes(s, Answering(tx[s], answer))
  BY DEF Typed, Answered, Answering, Becomes

LEMMA OnIdle ==
  ASSUME Typed, NEW s \in Sessions, tx' = [tx EXCEPT ![s] = Idle]
  PROVE  Becomes(s, Idle)
  BY DEF Typed, Becomes

-----------------------------------------------------------------------------
(* Typed is an invariant. *)

\* What a session's step does to the other sessions and to the types.
LEMMA TypedStep ==
  ASSUME Typed, NEW s \in Sessions, NEW r, Becomes(s, r),
         r \in {Idle} \cup Working \cup Done,
         r \in Working => r.found \subseteq transitions,
         transitions \subseteq transitions'
  PROVE  /\ tx' \in [Sessions -> {Idle} \cup Working \cup Done]
         /\ \A o \in Sessions : tx'[o] \in Working => tx'[o].found \subseteq transitions'
         /\ tx'[s] = r /\ \A o \in Sessions \ {s} : tx'[o] = tx[o]
  <1>1. tx'[s] = r /\ \A o \in Sessions \ {s} : tx'[o] = tx[o] BY DEF Becomes
  <1>2. tx' \in [Sessions -> {Idle} \cup Working \cup Done]
    <2>1. \A o \in Sessions : tx[o] \in {Idle} \cup Working \cup Done BY DEF Typed
    <2> QED BY <2>1 DEF Becomes
  <1>3. ASSUME NEW o \in Sessions, tx'[o] \in Working PROVE tx'[o].found \subseteq transitions'
    BY <1>1, <1>3 DEF Typed
  <1> QED BY <1>1, <1>2, <1>3

LEMMA WorkingIs ==
  ASSUME NEW r \in Working
  PROVE  /\ r.stage \in {"locking", "looked", "refused"} /\ r.command \in Commands
         /\ r.command \in Command
         /\ r.rooted \in BOOLEAN /\ r.people \in Reads /\ r.sees \in States \cup {"none"}
         /\ r.offers \in BOOLEAN /\ r.found \in SUBSET Transition
  BY CommandAssumption DEF Working

\* The records the steps leave are of their types.
LEMMA StartedTyped ==
  ASSUME NEW c \in Commands
  PROVE  Started(c) \in Working /\ Started(c).found = {}
  BY ReadsAre DEF Started, Working

LEMMA RootedTyped ==
  ASSUME NEW r \in Working, NEW a \in States \cup {"none"}, NEW b \in BOOLEAN
  PROVE  Rooted(r, a, b) \in Working /\ Rooted(r, a, b).found = r.found
  BY WorkingIs DEF Rooted, Working

LEMMA JoinedReads ==
  ASSUME NEW f \in Reads, NEW i \in Identities, NEW row \in Identity
  PROVE  [j \in DOMAIN f \cup {i} |-> IF j = i THEN row ELSE f[j]] \in Reads
  <1> DEFINE P == DOMAIN f \cup {i}
  <1>1. P \in SUBSET Identities BY ReadsAre
  <1>2. \A j \in DOMAIN f : f[j] \in Identity BY ReadsAre
  <1>3. [j \in P |-> IF j = i THEN row ELSE f[j]] \in [P -> Identity] BY <1>2
  <1> QED BY <1>1, <1>3, ReadsAre

LEMMA JoinedTyped ==
  ASSUME NEW r \in Working, NEW i \in Identities, NEW row \in Identity
  PROVE  Joined(r, i, row) \in Working /\ Joined(r, i, row).found = r.found
  <1> DEFINE f == [j \in DOMAIN r.people \cup {i} |-> IF j = i THEN row ELSE r.people[j]]
  <1>1. f \in Reads BY JoinedReads, WorkingIs
  <1>2. Joined(r, i, row) = [stage |-> "locking", command |-> r.command, rooted |-> r.rooted,
            people |-> f, sees |-> r.sees, offers |-> r.offers, found |-> r.found]
    BY Zenon DEF Joined
  <1> HIDE DEF f
  <1> QED BY <1>1, <1>2, WorkingIs DEF Working

LEMMA EndingTyped ==
  ASSUME NEW r \in Working, NEW stage \in {"looked", "refused"}, NEW f \in SUBSET Transition
  PROVE  Ending(r, stage, f) \in Working /\ Ending(r, stage, f).found = f
  BY WorkingIs DEF Ending, Working

LEMMA AnsweringTyped ==
  ASSUME NEW r \in Working, NEW answer \in [to : States, sequence : Nat]
  PROVE  Answering(r, answer) \in Done
  BY WorkingIs DEF Answering, Done

\* A session at rest or answered has no transaction under way.
LEMMA NotWorking ==
  ASSUME NEW r, r \in {Idle} \cup Done
  PROVE  r \notin Working
  BY DEF Idle, Done, Working

\* A session's step that writes no row.
LEMMA QuietStep ==
  ASSUME Typed, NEW s \in Sessions, NEW r, Becomes(s, r),
         r \in {Idle} \cup Working \cup Done,
         r \in Working => r.found \subseteq transitions,
         UNCHANGED <<identities, offered, activities, transitions>>
  PROVE  Typed'
  <1>1. transitions \subseteq transitions' OBVIOUS
  <1>2. /\ tx' \in [Sessions -> {Idle} \cup Working \cup Done]
        /\ \A o \in Sessions : tx'[o] \in Working => tx'[o].found \subseteq transitions'
    BY <1>1, TypedStep
  <1> QED BY <1>2 DEF Typed

LEMMA RecordStep ==
  ASSUME Typed, NEW s \in Sessions, Record(s), tx[s] \in Working,
         tx[s].command.actor \in DOMAIN tx[s].people
  PROVE  LET c == tx[s].command
             t == [command |-> c, epoch |-> Epoch(s), to |-> To[c.action],
                   sequence |-> activities[c.activity].sequence + 1]
         IN /\ t \in Transition
            /\ c.action = "CREATE" => activities[c.activity].state = "none"
            /\ transitions' = transitions \cup {t}
            /\ activities' = [activities EXCEPT ![c.activity] =
                 [state |-> t.to, sequence |-> t.sequence]]
            /\ Becomes(s, Answering(tx[s], ResultOf(t)))
            /\ ResultOf(t) \in [to : States, sequence : Nat]
            /\ activities' \in [Activities -> Head]
            /\ c.activity \in Activities
            /\ identities' = identities /\ offered' = offered
  <1> DEFINE c == tx[s].command
             t == [command |-> c, epoch |-> Epoch(s), to |-> To[c.action],
                   sequence |-> activities[c.activity].sequence + 1]
  <1>1. c \in Commands /\ c \in Command BY WorkingIs
  <1>2. c.action \in Actions /\ c.activity \in Activities BY <1>1 DEF Command
  <1>3. To[c.action] \in States BY <1>2 DEF To, Actions, States
  <1>4. activities[c.activity] \in Head BY <1>2 DEF Typed
  <1>5. activities[c.activity].sequence + 1 \in Nat BY <1>4 DEF Head
  <1>6. Epoch(s) \in 1..MaxEpoch
    <2>1. tx[s].people \in Reads BY WorkingIs
    <2>2. tx[s].people[c.actor] \in Identity BY <2>1, ReadsAre
    <2> QED BY <2>2 DEF Epoch, Read, Identity
  <1>7. t \in Transition BY <1>1, <1>3, <1>5, <1>6 DEF Transition
  <1>8. tx' = Answered(s, [to |-> t.to, sequence |-> t.sequence]) BY DEF Record
  <1>9. Becomes(s, Answering(tx[s], ResultOf(t))) BY <1>8, OnAnswer, Zenon DEF ResultOf
  <1>10. ResultOf(t) \in [to : States, sequence : Nat] BY <1>3, <1>5 DEF ResultOf
  <1>11. /\ c.action = "CREATE" => activities[c.activity].state = "none"
         /\ transitions' = transitions \cup {t}
         /\ activities' = [activities EXCEPT ![c.activity] =
                 [state |-> t.to, sequence |-> t.sequence]]
         /\ identities' = identities /\ offered' = offered
    BY DEF Record
  <1>12. [state |-> t.to, sequence |-> t.sequence] \in Head
    BY <1>3, <1>5 DEF Head
  <1>13. activities' \in [Activities -> Head]
    <2>1. activities \in [Activities -> Head] BY DEF Typed
    <2> HIDE DEF t
    <2> QED BY <1>11, <1>12, <2>1
  <1> HIDE DEF t, c
  <1>14. /\ t \in Transition
         /\ c.action = "CREATE" => activities[c.activity].state = "none"
         /\ transitions' = transitions \cup {t}
         /\ activities' = [activities EXCEPT ![c.activity] =
                 [state |-> t.to, sequence |-> t.sequence]]
         /\ Becomes(s, Answering(tx[s], ResultOf(t)))
         /\ ResultOf(t) \in [to : States, sequence : Nat]
         /\ activities' \in [Activities -> Head]
         /\ c.activity \in Activities
         /\ identities' = identities /\ offered' = offered
    BY <1>2, <1>7, <1>9, <1>10, <1>11, <1>13
  <1> QED BY <1>14, Zenon DEF t, c

-----------------------------------------------------------------------------
(* The inductive invariant. *)

\* A live transaction takes its rows in order: the root, the actor, the others by key.
InOrder(s, c) == LET P == DOMAIN tx[s].people IN
  /\ P # {} => tx[s].rooted /\ c.actor \in P
  /\ P \subseteq {c.actor} \cup Parties(c)
  /\ \A i \in P \ {c.actor}, j \in Parties(c) \ P : i < j
  /\ tx[s].stage = "looked" => tx[s].rooted /\ P = {c.actor} \cup Parties(c)

\* One that has looked passed its checks.
Passed(s, c) == tx[s].stage = "looked" =>
  /\ tx[s].people[c.actor].state = "active" /\ Furnished(c)
  /\ c.action = "ASSIGN" => tx[s].people[c.assignee].state = "active"

\* What it has read is so.
StaysSo(s, c) ==
  /\ \A i \in DOMAIN tx[s].people : tx[s].people[i] = identities[i]
  /\ tx[s].rooted /\ c.action # "CREATE" =>
       /\ activities[c.activity].state # "none"
       /\ tx[s].sees = activities[c.activity].state
  /\ tx[s].rooted /\ c.action = "CREATE" => (tx[s].offers <=> c.service \in offered)
  /\ tx[s].stage = "looked" => tx[s].found = Earlier(c)

Sound(s, c) == Live(s) /\ tx[s].command = c => InOrder(s, c) /\ Passed(s, c) /\ StaysSo(s, c)

\* RefusedReplay and AnswersAgree of one session.
RefusedSo(s) == tx[s].stage = "refused" /\ Repeats(s) =>
  LET c == tx[s].command IN
  c.action = "ASSIGN" /\ c.assignee \in DOMAIN tx[s].people /\ Read(s, c.assignee).state # "active"

AnsweredSo(s) == tx[s].stage = "answered" =>
  \E t \in transitions : t.command = tx[s].command /\ tx[s].answer = ResultOf(t)

Apart == \A s, o \in Sessions : s # o =>
  Held(s) \cap Held(o) = {} /\ RootHeld(s) \cap RootHeld(o) = {}

\* What a transition needed is still there.
Kept == \A t \in transitions :
  activities[t.command.activity].state # "none" /\ Furnished(t.command)

Sounds == \A s \in Sessions : RefusedSo(s) /\ AnsweredSo(s) /\ \A c \in Commands : Sound(s, c)

IInv == Typed /\ Apart /\ Kept /\ Sounds

LEMMA SameFor ==
  ASSUME NEW c, transitions' = transitions
  PROVE  /\ Parties(c)' = Parties(c) /\ Earlier(c)' = Earlier(c)
         /\ Furnished(c)' <=> Furnished(c)
  <1>1. Parties(c)' = Parties(c)
    BY Zenon DEF Parties, Assignees, Creators, Reviewers, By
  <1>2. Earlier(c)' = Earlier(c) BY Zenon DEF Earlier
  <1>3. Furnished(c)' <=> Furnished(c) BY Zenon DEF Furnished, Assignees, Reviewers, By
  <1> QED BY <1>1, <1>2, <1>3

\* A session whose record stays keeps its rows.
LEMMA SameHeld ==
  ASSUME NEW s \in Sessions, tx'[s] = tx[s]
  PROVE  /\ Live(s)' <=> Live(s)
         /\ Held(s)' = Held(s) /\ RootHeld(s)' = RootHeld(s)
  <1>1. Live(s)' <=> Live(s) BY DEF Live
  <1>2. Held(s)' = Held(s) BY <1>1 DEF Held
  <1>3. RootHeld(s)' = RootHeld(s) BY <1>1 DEF RootHeld, Root
  <1> QED BY <1>1, <1>2, <1>3

LEMMA SameRefused ==
  ASSUME NEW s \in Sessions, tx'[s] = tx[s], RefusedSo(s)
  PROVE  RefusedSo(s)'
  BY Zenon DEF RefusedSo, Repeats, Read, Epoch, Exact

LEMMA SameAnswered ==
  ASSUME NEW s \in Sessions, tx'[s] = tx[s], transitions \subseteq transitions', AnsweredSo(s)
  PROVE  AnsweredSo(s)'
  BY DEF AnsweredSo, ResultOf

\* What one session knows, though the others go on: the rows it has read stay so.
LEMMA StillSound ==
  ASSUME NEW s \in Sessions, NEW c \in Commands, tx'[s] = tx[s], Sound(s, c),
         Live(s) /\ tx[s].command = c =>
           /\ tx[s].rooted \/ DOMAIN tx[s].people # {} => Parties(c)' = Parties(c)
           /\ Furnished(c) => Furnished(c)'
           /\ tx[s].stage = "looked" => Earlier(c)' = Earlier(c)
           /\ \A i \in DOMAIN tx[s].people : identities'[i] = identities[i]
           /\ tx[s].rooted /\ c.action # "CREATE" =>
                activities'[c.activity].state = activities[c.activity].state
           /\ tx[s].rooted /\ c.action = "CREATE" =>
                (c.service \in offered' <=> c.service \in offered)
  PROVE  Sound(s, c)'
  <1> SUFFICES ASSUME Live(s)', tx'[s].command = c
               PROVE  InOrder(s, c)' /\ Passed(s, c)' /\ StaysSo(s, c)'
    BY Zenon DEF Sound
  <1>1. Live(s) /\ tx[s].command = c BY SameHeld, Zenon
  <1>2. InOrder(s, c) /\ Passed(s, c) /\ StaysSo(s, c) BY <1>1, Zenon DEF Sound
  <1>3. InOrder(s, c)'
    <2>1. tx[s].stage = "looked" => tx[s].rooted BY <1>2 DEF InOrder
    <2>2. ASSUME ~tx[s].rooted, DOMAIN tx[s].people = {} PROVE InOrder(s, c)'
      BY <2>1, <2>2 DEF InOrder
    <2>3. ASSUME Parties(c)' = Parties(c) PROVE InOrder(s, c)'
      BY <1>2, <2>3, Zenon DEF InOrder
    <2> QED BY <1>1, <2>2, <2>3, Zenon
  <1>4. Passed(s, c)' BY <1>1, <1>2, Zenon DEF Passed
  <1>5. StaysSo(s, c)'
    <2>1. \A i \in DOMAIN tx'[s].people : tx'[s].people[i] = identities'[i]
      BY <1>1, <1>2, Zenon DEF StaysSo
    <2>2. tx'[s].rooted /\ c.action # "CREATE" =>
       /\ activities'[c.activity].state # "none"
       /\ tx'[s].sees = activities'[c.activity].state
      BY <1>1, <1>2, Zenon DEF StaysSo
    <2>3. tx'[s].rooted /\ c.action = "CREATE" => (tx'[s].offers <=> c.service \in offered')
      BY <1>1, <1>2, Zenon DEF StaysSo
    <2>4. tx'[s].stage = "looked" => tx'[s].found = Earlier(c)'
      BY <1>1, <1>2, Zenon DEF StaysSo
    <2> QED BY <2>1, <2>2, <2>3, <2>4, Zenon DEF StaysSo
  <1> QED BY <1>3, <1>4, <1>5

LEMMA QuietOthers ==
  ASSUME Sounds, NEW s \in Sessions, \A o \in Sessions \ {s} : tx'[o] = tx[o],
         UNCHANGED <<identities, offered, activities, transitions>>
  PROVE  \A o \in Sessions \ {s} :
           RefusedSo(o)' /\ AnsweredSo(o)' /\ \A c \in Commands : Sound(o, c)'
  <1> SUFFICES ASSUME NEW o \in Sessions \ {s}
               PROVE  RefusedSo(o)' /\ AnsweredSo(o)' /\ \A c \in Commands : Sound(o, c)'
    OBVIOUS
  <1>1. tx'[o] = tx[o] /\ transitions' = transitions OBVIOUS
  <1>2. RefusedSo(o) /\ AnsweredSo(o) /\ \A c \in Commands : Sound(o, c) BY DEF Sounds
  <1>3. RefusedSo(o)' /\ AnsweredSo(o)' BY <1>1, <1>2, SameRefused, SameAnswered
  <1>4. ASSUME NEW c \in Commands PROVE Sound(o, c)'
    BY <1>1, <1>2, SameFor, StillSound
  <1> QED BY <1>3, <1>4

LEMMA StillApart ==
  ASSUME Apart, NEW s \in Sessions, \A o \in Sessions \ {s} : tx'[o] = tx[o],
         \A o \in Sessions \ {s} : /\ Held(s)' \cap Held(o) = {}
                                   /\ RootHeld(s)' \cap RootHeld(o) = {}
  PROVE  Apart'
  <1> SUFFICES ASSUME NEW a \in Sessions, NEW b \in Sessions, a # b
               PROVE  Held(a)' \cap Held(b)' = {} /\ RootHeld(a)' \cap RootHeld(b)' = {}
    BY DEF Apart
  <1>1. \A o \in Sessions \ {s} : Held(o)' = Held(o) /\ RootHeld(o)' = RootHeld(o)
    BY SameHeld
  <1>2. Held(a) \cap Held(b) = {} /\ RootHeld(a) \cap RootHeld(b) = {} BY DEF Apart
  <1>3. ASSUME a = s
        PROVE  Held(a)' \cap Held(b)' = {} /\ RootHeld(a)' \cap RootHeld(b)' = {}
    BY <1>1, <1>3
  <1>4. ASSUME b = s
        PROVE  Held(a)' \cap Held(b)' = {} /\ RootHeld(a)' \cap RootHeld(b)' = {}
    BY <1>1, <1>4
  <1>5. ASSUME a # s, b # s
        PROVE  Held(a)' \cap Held(b)' = {} /\ RootHeld(a)' \cap RootHeld(b)' = {}
    BY <1>1, <1>2, <1>5
  <1> QED BY <1>3, <1>4, <1>5

LEMMA StillKept ==
  ASSUME Kept, activities' = activities, transitions' = transitions
  PROVE  Kept'
  BY SameFor, Zenon DEF Kept

\* A step of one session that writes no row.
LEMMA QuietPreserves ==
  ASSUME IInv, NEW s \in Sessions, NEW r, Becomes(s, r),
         r \in {Idle} \cup Working \cup Done,
         r \in Working => r.found \subseteq transitions,
         UNCHANGED <<identities, offered, activities, transitions>>,
         RefusedSo(s)', AnsweredSo(s)', \A c \in Commands : Sound(s, c)',
         \A o \in Sessions \ {s} : /\ Held(s)' \cap Held(o) = {}
                                   /\ RootHeld(s)' \cap RootHeld(o) = {}
  PROVE  IInv'
  <1>1. Typed' BY QuietStep DEF IInv
  <1>2. \A o \in Sessions \ {s} : tx'[o] = tx[o] BY DEF Becomes
  <1>3. Apart' BY <1>2, StillApart DEF IInv
  <1>4. Kept' BY StillKept DEF IInv
  <1>5. Sounds' BY <1>2, QuietOthers DEF IInv, Sounds
  <1> QED BY <1>1, <1>3, <1>4, <1>5 DEF IInv

\* A session with nothing under way holds nothing and knows nothing.
LEMMA AtRest ==
  ASSUME NEW s \in Sessions, tx'[s].stage \notin {"locking", "looked"}
  PROVE  /\ \A c \in Commands : Sound(s, c)'
         /\ Held(s)' = {} /\ RootHeld(s)' = {}
  BY DEF Live, Sound, Held, RootHeld

LEMMA RestPreserves ==
  ASSUME IInv, NEW s \in Sessions, NEW r, Becomes(s, r),
         r \in {Idle} \cup Working \cup Done,
         r \in Working => r.found \subseteq transitions,
         UNCHANGED <<identities, offered, activities, transitions>>,
         r.stage \notin {"locking", "looked"},
         RefusedSo(s)', AnsweredSo(s)'
  PROVE  IInv'
  <1>1. tx'[s] = r BY DEF Becomes
  <1>2. /\ \A c \in Commands : Sound(s, c)'
        /\ Held(s)' = {} /\ RootHeld(s)' = {}
    BY <1>1, AtRest
  <1> QED BY <1>2, QuietPreserves

LEMMA IdlePreserves ==
  ASSUME IInv, NEW s \in Sessions, tx' = [tx EXCEPT ![s] = Idle],
         UNCHANGED <<identities, offered, activities, transitions>>
  PROVE  IInv'
  <1>1. Becomes(s, Idle) BY OnIdle DEF IInv
  <1>2. tx'[s] = Idle BY <1>1 DEF Becomes
  <1>3. Idle.stage = "idle" BY DEF Idle
  <1>4. RefusedSo(s)' /\ AnsweredSo(s)' BY <1>2, <1>3 DEF RefusedSo, AnsweredSo
  <1>5. Idle \notin Working BY NotWorking
  <1>6. Idle.stage \notin {"locking", "looked"} BY <1>3
  <1> QED BY <1>1, <1>4, <1>5, <1>6, RestPreserves

LEMMA BeginPreserves ==
  ASSUME IInv, NEW s \in Sessions, NEW c0 \in Commands, Begin(s, c0)
  PROVE  IInv'
  <1>1. Becomes(s, Started(c0)) BY OnBegin DEF IInv
  <1>2. tx'[s] = Started(c0) BY <1>1 DEF Becomes
  <1>3. Started(c0) \in Working /\ Started(c0).found = {} BY StartedTyped
  <1>4. /\ Started(c0).stage = "locking" /\ Started(c0).rooted = FALSE
        /\ DOMAIN Started(c0).people = {}
    BY ReadsAre DEF Started
  <1>5. RefusedSo(s)' /\ AnsweredSo(s)' BY <1>2, <1>4 DEF RefusedSo, AnsweredSo
  <1>6. ASSUME NEW c \in Commands PROVE Sound(s, c)'
    BY <1>2, <1>4 DEF Sound, InOrder, Passed, StaysSo
  <1>7. Held(s)' = {} BY <1>2, <1>4 DEF Held
  <1>8. RootHeld(s)' = {} BY <1>2, <1>4 DEF RootHeld
  <1>9. UNCHANGED <<identities, offered, activities, transitions>> BY DEF Begin
  <1> QED BY <1>1, <1>3, <1>5, <1>6, <1>7, <1>8, <1>9, QuietPreserves

LEMMA TakeRootPreserves ==
  ASSUME IInv, NEW s \in Sessions, TakeRoot(s)
  PROVE  IInv'
  <1> DEFINE r == tx[s]
             a == activities[r.command.activity].state
             b == r.command.service \in offered
             n == Rooted(r, a, b)
  <1>1. r \in Working /\ Becomes(s, n) BY OnRoot, Zenon DEF IInv
  <1>2. tx'[s] = n BY <1>1, Zenon DEF Becomes
  <1>3. r.command \in Commands /\ r.command \in Command BY <1>1, WorkingIs
  <1>4. r.stage = "locking" /\ ~r.rooted /\ ~Faulty(s) BY DEF TakeRoot, WantsRoot
  <1>5. a \in States \cup {"none"} BY <1>3 DEF IInv, Typed, Head, Command
  <1>6. b \in BOOLEAN OBVIOUS
  <1> HIDE DEF a, b
  <1>7. n \in Working /\ n.found = r.found BY <1>1, <1>5, <1>6, RootedTyped
  <1>8. r.found \subseteq transitions BY <1>1 DEF IInv, Typed
  <1>9. /\ n.stage = "locking" /\ n.command = r.command /\ n.people = r.people
        /\ n.rooted = TRUE /\ n.sees = a /\ n.offers = b
    BY DEF Rooted
  <1>10. Live(s) BY <1>4 DEF Live
  <1>11. Sound(s, r.command) BY <1>3 DEF IInv, Sounds
  <1>12. DOMAIN r.people = {} BY <1>4, <1>10, <1>11 DEF Sound, InOrder
  <1>13. UNCHANGED <<identities, offered, activities, transitions>> BY DEF TakeRoot
  <1>14. RefusedSo(s)' /\ AnsweredSo(s)' BY <1>2, <1>9 DEF RefusedSo, AnsweredSo
  <1>15. ASSUME NEW c \in Commands PROVE Sound(s, c)'
    <2> SUFFICES ASSUME c = r.command PROVE InOrder(s, c)' /\ Passed(s, c)' /\ StaysSo(s, c)'
      BY <1>2, <1>9 DEF Sound
    <2> HIDE DEF n
    <2>1. InOrder(s, c)' BY <1>2, <1>9, <1>12 DEF InOrder
    <2>2. Passed(s, c)' BY <1>2, <1>9 DEF Passed
    <2>3. c.action # "CREATE" => activities[c.activity].state # "none" BY <1>4 DEF Faulty
    <2>4. \A i \in DOMAIN tx'[s].people : tx'[s].people[i] = identities'[i]
      BY <1>2, <1>9, <1>12
    <2>5. tx'[s].sees = activities'[c.activity].state BY <1>2, <1>9, <1>13 DEF a
    <2>6. tx'[s].offers <=> c.service \in offered' BY <1>2, <1>9, <1>13, Zenon DEF b
    <2>7. tx'[s].stage # "looked" BY <1>2, <1>9
    <2>8. StaysSo(s, c)' BY <1>13, <2>3, <2>4, <2>5, <2>6, <2>7, Zenon DEF StaysSo
    <2> QED BY <2>1, <2>2, <2>8
  <1>16. Held(s)' = {} BY <1>2, <1>9, <1>12 DEF Held
  <1>17. \A o \in Sessions \ {s} : RootHeld(s)' \cap RootHeld(o) = {}
    <2>1. RootHeld(s)' \subseteq {Root(r.command)}
      <3> HIDE DEF n
      <3> QED BY <1>2, <1>9 DEF RootHeld, Root
    <2>2. \A o \in Sessions \ {s} : Root(r.command) \notin RootHeld(o) BY DEF TakeRoot
    <2> QED BY <2>1, <2>2
  <1> HIDE DEF n
  <1> QED BY <1>1, <1>7, <1>8, <1>13, <1>14, <1>15, <1>16, <1>17, QuietPreserves

LEMMA PartiesAre ==
  ASSUME Typed, NEW c \in Commands
  PROVE  c.actor \in Identities /\ Parties(c) \subseteq Identities
  <1>1. c \in Command BY CommandAssumption
  <1>2. \A t \in transitions : t.command \in Command
    BY CommandAssumption DEF Typed, Transition
  <1>3. \A t \in transitions : t.command.actor \in Identities /\ t.command.assignee \in Identities
    BY <1>2 DEF Command
  <1>4. /\ Assignees(c.activity) \subseteq Identities
        /\ Creators(c.activity) \subseteq Identities /\ Reviewers(c.activity) \subseteq Identities
    BY <1>3 DEF Assignees, Creators, Reviewers, By
  <1>5. c.actor \in Identities /\ c.assignee \in Identities BY <1>1 DEF Command
  <1> QED BY <1>4, <1>5 DEF Parties

LEMMA TakePersonPreserves ==
  ASSUME IInv, NEW s \in Sessions, NEW i \in Identities, TakePerson(s, i)
  PROVE  IInv'
  <1> DEFINE r == tx[s]
             P == DOMAIN r.people
             n == Joined(r, i, identities[i])
             C == r.command
  <1>1. r \in Working /\ Becomes(s, n) BY OnPerson, Zenon DEF IInv
  <1>2. tx'[s] = n BY <1>1, Zenon DEF Becomes
  <1>3. C \in Commands BY <1>1, WorkingIs
  <1>4. r.stage = "locking" /\ r.rooted /\ WantsPerson(s, i) BY DEF TakePerson, WantsRoot
  <1>5. identities[i] \in Identity BY DEF IInv, Typed
  <1>6. n \in Working /\ n.found = r.found BY <1>1, <1>5, JoinedTyped
  <1>7. r.found \subseteq transitions BY <1>1 DEF IInv, Typed
  <1>8. /\ n.stage = "locking" /\ n.command = C /\ DOMAIN n.people = P \cup {i}
        /\ n.sees = r.sees
        /\ n.people[i] = identities[i] /\ \A j \in P \ {i} : n.people[j] = r.people[j]
    BY DEF Joined
  <1>9. (n.rooted <=> r.rooted) /\ (n.offers <=> r.offers) BY Zenon DEF Joined
  <1> HIDE DEF n
  <1>10. Live(s) BY <1>4 DEF Live
  <1>11. InOrder(s, C) /\ StaysSo(s, C) BY <1>3, <1>10 DEF IInv, Sounds, Sound
  <1>13. UNCHANGED <<identities, offered, activities, transitions>> BY DEF TakePerson
  <1>14. RefusedSo(s)' /\ AnsweredSo(s)' BY <1>2, <1>8 DEF RefusedSo, AnsweredSo
  <1>15. ASSUME NEW c \in Commands PROVE Sound(s, c)'
    <2> SUFFICES ASSUME c = C PROVE InOrder(s, c)' /\ Passed(s, c)' /\ StaysSo(s, c)'
      BY <1>2, <1>8 DEF Sound
    <2>a. Parties(c)' = Parties(c) BY <1>13, SameFor
    <2>b. Parties(c) \subseteq Nat BY PartiesAre, IdentityAssumption DEF IInv
    <2>c. i \in Nat BY IdentityAssumption
    <2>d. /\ P # {} => c.actor \in P
          /\ P \subseteq {c.actor} \cup Parties(c)
          /\ \A k \in P \ {c.actor}, j \in Parties(c) \ P : k < j
      BY <1>11 DEF InOrder
    <2>e. IF c.actor \notin P THEN i = c.actor
          ELSE i \in Parties(c) \ P /\ \A j \in Parties(c) \ P : i <= j
      BY <1>4 DEF WantsPerson
    <2>1. InOrder(s, c)'
      <3>1. c.actor \in P \cup {i} BY <2>e
      <3>2. P \cup {i} \subseteq {c.actor} \cup Parties(c) BY <2>d, <2>e
      <3>3. ASSUME NEW k \in (P \cup {i}) \ {c.actor}, NEW j \in Parties(c) \ (P \cup {i})
            PROVE  k < j
        <4>1. ASSUME k = i PROVE k < j
          <5>1. i <= j /\ j # i BY <2>e, <4>1
          <5>2. j \in Nat BY <2>b
          <5> QED BY <2>c, <4>1, <5>1, <5>2
        <4> QED BY <2>d, <4>1
      <3> QED BY <1>2, <1>4, <1>8, <1>9, <2>a, <3>1, <3>2, <3>3 DEF InOrder
    <2>2. Passed(s, c)' BY <1>2, <1>8 DEF Passed
    <2>4. \A j \in DOMAIN tx'[s].people : tx'[s].people[j] = identities'[j]
      BY <1>2, <1>8, <1>11, <1>13 DEF StaysSo
    <2>5. c.action # "CREATE" =>
       /\ activities'[c.activity].state # "none"
       /\ tx'[s].sees = activities'[c.activity].state
      BY <1>2, <1>4, <1>8, <1>11, <1>13 DEF StaysSo
    <2>6. c.action = "CREATE" => (tx'[s].offers <=> c.service \in offered')
      BY <1>2, <1>4, <1>9, <1>11, <1>13, Zenon DEF StaysSo
    <2>7. tx'[s].stage # "looked" BY <1>2, <1>8
    <2>8. StaysSo(s, c)' BY <2>4, <2>5, <2>6, <2>7, Zenon DEF StaysSo
    <2> QED BY <2>1, <2>2, <2>8
  <1>16. \A o \in Sessions \ {s} : Held(s)' \cap Held(o) = {}
    <2>1. Held(s) = P BY <1>10 DEF Held
    <2>2. Held(s)' \subseteq P \cup {i} BY <1>2, <1>8 DEF Held
    <2>3. \A o \in Sessions \ {s} : i \notin Held(o) BY DEF TakePerson
    <2>4. \A o \in Sessions \ {s} : P \cap Held(o) = {} BY <2>1 DEF IInv, Apart
    <2> QED BY <2>2, <2>3, <2>4
  <1>17. \A o \in Sessions \ {s} : RootHeld(s)' \cap RootHeld(o) = {}
    <2>1. RootHeld(s) = {Root(C)} BY <1>4, <1>10 DEF RootHeld
    <2>2. RootHeld(s)' \subseteq {Root(C)} BY <1>2, <1>8 DEF RootHeld, Root
    <2> QED BY <2>1, <2>2 DEF IInv, Apart
  <1> QED BY <1>1, <1>6, <1>7, <1>13, <1>14, <1>15, <1>16, <1>17, QuietPreserves

LEMMA EarlierIs ==
  ASSUME NEW c
  PROVE  Earlier(c) \subseteq transitions
  BY DEF Earlier

LEMMA LookPreserves ==
  ASSUME IInv, NEW s \in Sessions, Look(s)
  PROVE  IInv'
  <1> DEFINE r == tx[s]
             P == DOMAIN r.people
             C == r.command
             n == Ending(r, "looked", Earlier(C))
  <1>0. r.stage = "locking" /\ Complete(s) /\ ~Faulty(s) BY DEF Look
  <1>1. r \in Working /\ Becomes(s, n) BY <1>0, OnEnding DEF IInv, Look
  <1>2. tx'[s] = n BY <1>1, Zenon DEF Becomes
  <1>3. C \in Commands /\ r.found \in SUBSET Transition BY <1>1, WorkingIs
  <1>4. Earlier(C) \subseteq transitions /\ Earlier(C) \in SUBSET Transition
    BY EarlierIs DEF IInv, Typed
  <1>5. n \in Working /\ n.found = Earlier(C) BY <1>1, <1>4, EndingTyped
  <1>6. /\ n.stage = "looked" /\ n.command = C /\ n.people = r.people /\ n.sees = r.sees
        /\ n.found = Earlier(C)
    BY DEF Ending
  <1>7. (n.rooted <=> r.rooted) /\ (n.offers <=> r.offers) BY Zenon DEF Ending
  <1> HIDE DEF n
  <1>10. Live(s) BY <1>0 DEF Live
  <1>11. InOrder(s, C) /\ StaysSo(s, C) BY <1>3, <1>10 DEF IInv, Sounds, Sound
  <1>12. r.rooted /\ P = {C.actor} \cup Parties(C) BY <1>0 DEF Complete
  <1>13. UNCHANGED <<identities, offered, activities, transitions>> BY DEF Look
  <1>14. RefusedSo(s)' /\ AnsweredSo(s)' BY <1>2, <1>6 DEF RefusedSo, AnsweredSo
  <1>15. ASSUME NEW c \in Commands PROVE Sound(s, c)'
    <2> SUFFICES ASSUME c = C PROVE InOrder(s, c)' /\ Passed(s, c)' /\ StaysSo(s, c)'
      BY <1>2, <1>6 DEF Sound
    <2>a. /\ Parties(c)' = Parties(c) /\ (Furnished(c)' <=> Furnished(c))
          /\ Earlier(c)' = Earlier(c)
      BY <1>13, SameFor
    <2>1. InOrder(s, c)' BY <1>2, <1>6, <1>7, <1>11, <1>12, <2>a DEF InOrder
    <2>2. Passed(s, c)'
      <3>1. r.people[c.actor].state = "active" /\ Furnished(c)
        BY <1>0, <1>12 DEF Faulty, Read
      <3>2. c.action = "ASSIGN" => c.assignee \in P BY <1>12 DEF Parties
      <3>3. c.action = "ASSIGN" => r.people[c.assignee].state = "active"
        BY <1>0, <3>2 DEF Faulty, Read
      <3>4. tx'[s].people[c.actor].state = "active" /\ Furnished(c)' BY <1>2, <1>6, <2>a, <3>1
      <3>5. c.action = "ASSIGN" => tx'[s].people[c.assignee].state = "active"
        BY <1>2, <1>6, <3>3
      <3> QED BY <3>4, <3>5, Zenon DEF Passed
    <2>4. \A j \in DOMAIN tx'[s].people : tx'[s].people[j] = identities'[j]
      BY <1>2, <1>6, <1>11, <1>13 DEF StaysSo
    <2>5. c.action # "CREATE" =>
       /\ activities'[c.activity].state # "none"
       /\ tx'[s].sees = activities'[c.activity].state
      BY <1>2, <1>6, <1>11, <1>12, <1>13 DEF StaysSo
    <2>6. c.action = "CREATE" => (tx'[s].offers <=> c.service \in offered')
      BY <1>2, <1>7, <1>11, <1>12, <1>13, Zenon DEF StaysSo
    <2>7. tx'[s].found = Earlier(c)' BY <1>2, <1>6, <2>a
    <2>8. StaysSo(s, c)' BY <2>4, <2>5, <2>6, <2>7, Zenon DEF StaysSo
    <2> QED BY <2>1, <2>2, <2>8
  <1>16. Held(s)' \subseteq Held(s) BY <1>2, <1>6, <1>10 DEF Held
  <1>17. RootHeld(s)' \subseteq RootHeld(s) BY <1>2, <1>6, <1>7, <1>10, <1>12 DEF RootHeld, Root
  <1>18. \A o \in Sessions \ {s} : /\ Held(s)' \cap Held(o) = {}
                                   /\ RootHeld(s)' \cap RootHeld(o) = {}
    BY <1>16, <1>17 DEF IInv, Apart
  <1> QED BY <1>1, <1>4, <1>5, <1>13, <1>14, <1>15, <1>18, QuietPreserves

LEMMA RefusePreserves ==
  ASSUME IInv, NEW s \in Sessions, Refuse(s)
  PROVE  IInv'
  <1> DEFINE r == tx[s]
             C == r.command
             n == Ending(r, "refused", Earlier(C))
  <1>0. r.stage \in {"locking", "looked"} BY DEF Refuse
  <1>1. r \in Working /\ Becomes(s, n) BY <1>0, OnEnding DEF IInv, Refuse
  <1>2. tx'[s] = n BY <1>1, Zenon DEF Becomes
  <1>3. C \in Commands BY <1>1, WorkingIs
  <1>4. Earlier(C) \subseteq transitions /\ Earlier(C) \in SUBSET Transition
    BY EarlierIs DEF IInv, Typed
  <1>5. n \in Working /\ n.found = Earlier(C) BY <1>1, <1>4, EndingTyped
  <1>6. n.stage = "refused" /\ n.command = C /\ n.people = r.people BY DEF Ending
  <1> HIDE DEF n
  <1>10. Live(s) BY <1>0 DEF Live
  <1>11. StaysSo(s, C) BY <1>3, <1>10 DEF IInv, Sounds, Sound
  <1>13. UNCHANGED <<identities, offered, activities, transitions>> BY DEF Refuse
  <1>14. AnsweredSo(s)' BY <1>2, <1>6 DEF AnsweredSo
  <1>15. RefusedSo(s)'
    <2> SUFFICES ASSUME C.actor \in DOMAIN r.people, r.people[C.actor].state = "active",
                        NEW t \in Earlier(C), t.epoch = r.people[C.actor].epoch, t.command = C
                 PROVE  /\ C.action = "ASSIGN" /\ C.assignee \in DOMAIN r.people
                        /\ r.people[C.assignee].state # "active"
      BY <1>2, <1>5, <1>6 DEF RefusedSo, Repeats, Read, Epoch, Exact
    <2>1. t \in transitions BY EarlierIs
    <2>2. activities[C.activity].state # "none" /\ Furnished(C) BY <2>1 DEF IInv, Kept
    <2>3. r.stage # "looked"
      <3> SUFFICES ASSUME r.stage = "looked" PROVE FALSE OBVIOUS
      <3>1. r.found = Earlier(C) BY <1>11 DEF StaysSo
      <3>2. t \in Replayed(s) BY <3>1 DEF Replayed, Exact, Epoch, Read
      <3> QED BY <3>1, <3>2 DEF Refuse
    <2>4. Faulty(s) BY <2>3 DEF Refuse
    <2> QED BY <2>2, <2>4 DEF Faulty, Read
  <1>16. n.stage \notin {"locking", "looked"} BY <1>6
  <1> QED BY <1>1, <1>4, <1>5, <1>13, <1>14, <1>15, <1>16, RestPreserves

LEMMA ReplayPreserves ==
  ASSUME IInv, NEW s \in Sessions, Replay(s)
  PROVE  IInv'
  <1>1. tx[s].stage = "looked" BY DEF Replay
  <1>2. PICK t \in Replayed(s) : tx' = Answered(s, ResultOf(t)) BY DEF Replay
  <1> DEFINE r == tx[s]
             n == Answering(r, ResultOf(t))
  <1>3. Becomes(s, n) BY <1>2, OnAnswer DEF IInv
  <1>4. r \in Working BY <1>1, IsWorking DEF IInv
  <1>5. t \in r.found /\ t.command = r.command BY DEF Replayed, Exact
  <1>6. t \in transitions /\ t \in Transition BY <1>4, <1>5 DEF IInv, Typed
  <1>7. ResultOf(t) \in [to : States, sequence : Nat] BY <1>6 DEF Transition, ResultOf
  <1>8. n \in Done BY <1>4, <1>7, AnsweringTyped
  <1>9. n \notin Working BY <1>8, NotWorking
  <1>10. tx'[s] = n BY <1>3, Zenon DEF Becomes
  <1>11. n.stage = "answered" /\ n.command = r.command /\ n.answer = ResultOf(t) BY DEF Answering
  <1> HIDE DEF n
  <1>12. UNCHANGED <<identities, offered, activities, transitions>> BY DEF Replay
  <1>13. RefusedSo(s)' BY <1>10, <1>11 DEF RefusedSo
  <1>14. AnsweredSo(s)'
    <2>1. t \in transitions' /\ t.command = tx'[s].command /\ tx'[s].answer = ResultOf(t)
      BY <1>5, <1>6, <1>10, <1>11, <1>12
    <2> QED BY <2>1 DEF AnsweredSo, ResultOf
  <1>15. n.stage \notin {"locking", "looked"} BY <1>11
  <1> QED BY <1>3, <1>8, <1>9, <1>12, <1>13, <1>14, <1>15, RestPreserves

LEMMA FurnishedGrows ==
  ASSUME NEW c, transitions \subseteq transitions', Furnished(c)
  PROVE  Furnished(c)'
  <1>1. /\ Assignees(c.activity) \subseteq Assignees(c.activity)'
        /\ Reviewers(c.activity) \subseteq Reviewers(c.activity)'
    BY DEF Assignees, Reviewers, By
  <1> QED BY <1>1 DEF Furnished

LEMMA PartiesGrow ==
  ASSUME NEW c, NEW t, transitions' = transitions \cup {t},
         c.action = "CREATE" \/ t.command.activity # c.activity
  PROVE  Parties(c)' = Parties(c)
  <1>1. ASSUME t.command.activity # c.activity PROVE Parties(c)' = Parties(c)
    <2>1. \A action : By(c.activity, action)' = By(c.activity, action) BY <1>1 DEF By
    <2>2. /\ Assignees(c.activity)' = Assignees(c.activity)
          /\ Creators(c.activity)' = Creators(c.activity)
          /\ Reviewers(c.activity)' = Reviewers(c.activity)
      BY <2>1, Zenon DEF Assignees, Creators, Reviewers
    <2> QED BY <2>2, Zenon DEF Parties
  <1>2. ASSUME c.action = "CREATE" PROVE Parties(c)' = Parties(c) BY <1>2 DEF Parties
  <1> QED BY <1>1, <1>2

LEMMA RecordPreserves ==
  ASSUME IInv, NEW s \in Sessions, Record(s)
  PROVE  IInv'
  <1> DEFINE r == tx[s]
             C == r.command
  <1>1. r.stage = "looked" BY DEF Record
  <1>2. r \in Working BY <1>1, IsWorking DEF IInv
  <1>3. C \in Commands BY <1>2, WorkingIs
  <1>4. Live(s) BY <1>1 DEF Live
  <1>5. InOrder(s, C) /\ Passed(s, C) /\ StaysSo(s, C) BY <1>3, <1>4 DEF IInv, Sounds, Sound
  <1>6. r.rooted /\ C.actor \in DOMAIN r.people BY <1>1, <1>5 DEF InOrder
  <1>7. PICK t \in Transition :
            /\ t = [command |-> C, epoch |-> Epoch(s), to |-> To[C.action],
                    sequence |-> activities[C.activity].sequence + 1]
            /\ C.action = "CREATE" => activities[C.activity].state = "none"
            /\ transitions' = transitions \cup {t}
            /\ activities' = [activities EXCEPT ![C.activity] =
                 [state |-> t.to, sequence |-> t.sequence]]
            /\ Becomes(s, Answering(r, ResultOf(t)))
            /\ ResultOf(t) \in [to : States, sequence : Nat]
            /\ activities' \in [Activities -> Head]
            /\ C.activity \in Activities
            /\ identities' = identities /\ offered' = offered
    BY <1>2, <1>6, RecordStep, Zenon DEF IInv
  <1>8. t.command = C BY <1>7
  <1> DEFINE n == Answering(r, ResultOf(t))
  <1>9. n \in Done /\ n \notin Working BY <1>2, <1>7, AnsweringTyped, NotWorking
  <1>10. /\ tx'[s] = n /\ \A o \in Sessions \ {s} : tx'[o] = tx[o]
    BY <1>7, Zenon DEF Becomes
  <1>11. n.stage = "answered" /\ n.command = C /\ n.answer = ResultOf(t) BY DEF Answering
  <1>12. transitions \subseteq transitions' BY <1>7
  <1>13. Typed'
    <2>1. /\ tx' \in [Sessions -> {Idle} \cup Working \cup Done]
          /\ \A o \in Sessions : tx'[o] \in Working => tx'[o].found \subseteq transitions'
      BY <1>7, <1>9, <1>12, TypedStep DEF IInv
    <2> QED BY <1>7, <2>1 DEF IInv, Typed
  <1> HIDE DEF n
  <1>14. \A c \in Commands : Sound(s, c)' BY <1>10, <1>11, AtRest
  <1>15. Held(s)' = {} /\ RootHeld(s)' = {} BY <1>10, <1>11, AtRest
  <1>16. Apart' BY <1>10, <1>15, StillApart DEF IInv
  <1>17. RefusedSo(s)' BY <1>10, <1>11 DEF RefusedSo
  <1>18. AnsweredSo(s)' BY <1>7, <1>8, <1>10, <1>11 DEF AnsweredSo, ResultOf
  <1>19. Kept'
    <2>1. t.to # "none" BY <1>7 DEF Transition, States
    <2>2. \A a \in Activities : activities[a].state # "none" => activities'[a].state # "none"
      BY <1>7, <2>1 DEF IInv, Typed
    <2>3. activities'[C.activity].state # "none" BY <1>7, <2>1 DEF IInv, Typed
    <2>4. Furnished(t.command)'
      <3>1. Furnished(t.command) BY <1>1, <1>5, <1>8 DEF Passed
      <3> QED BY <1>12, <3>1, FurnishedGrows
    <2>5. ASSUME NEW u \in transitions
          PROVE  activities'[u.command.activity].state # "none" /\ Furnished(u.command)'
      <3>1. activities[u.command.activity].state # "none" /\ Furnished(u.command)
        BY DEF IInv, Kept
      <3>2. u.command.activity \in Activities
        BY CommandAssumption DEF IInv, Typed, Transition, Command
      <3> QED BY <1>12, <2>2, <3>1, <3>2, FurnishedGrows
    <2>6. Furnished(t.command)' /\ activities'[t.command.activity].state # "none"
      BY <1>8, <2>3, <2>4
    <2> QED BY <1>7, <2>5, <2>6 DEF Kept
  <1>20. ASSUME NEW o \in Sessions \ {s}, NEW d \in Commands PROVE Sound(o, d)'
    <2>1. Sound(o, d) /\ tx'[o] = tx[o] BY <1>10 DEF IInv, Sounds
    <2>2. ASSUME Live(o), tx[o].command = d
          PROVE  /\ tx[o].rooted \/ DOMAIN tx[o].people # {} => Parties(d)' = Parties(d)
                 /\ Furnished(d) => Furnished(d)'
                 /\ tx[o].stage = "looked" => Earlier(d)' = Earlier(d)
                 /\ \A i \in DOMAIN tx[o].people : identities'[i] = identities[i]
                 /\ tx[o].rooted /\ d.action # "CREATE" =>
                      activities'[d.activity].state = activities[d.activity].state
                 /\ tx[o].rooted /\ d.action = "CREATE" =>
                      (d.service \in offered' <=> d.service \in offered)
      <3>1. InOrder(o, d) /\ StaysSo(o, d) BY <2>1, <2>2 DEF Sound
      <3>2. ASSUME tx[o].rooted, d.action # "CREATE" PROVE d.activity # C.activity
        <4>1. activities[d.activity].state # "none" BY <3>1, <3>2 DEF StaysSo
        <4>2. ASSUME C.action # "CREATE" PROVE d.activity # C.activity
          <5>1. Root(C) \in RootHeld(s) /\ Root(d) \in RootHeld(o)
            BY <1>4, <1>6, <2>2, <3>2 DEF RootHeld
          <5>2. Root(C) # Root(d) BY <5>1 DEF IInv, Apart
          <5> QED BY <3>2, <4>2, <5>2 DEF Root
        <4> QED BY <1>7, <4>1, <4>2
      <3>3. tx[o].rooted => Parties(d)' = Parties(d)
        BY <1>7, <1>8, <3>2, PartiesGrow
      <3>4. DOMAIN tx[o].people # {} => tx[o].rooted BY <3>1 DEF InOrder
      <3>5. Furnished(d) => Furnished(d)' BY <1>12, FurnishedGrows
      <3>6. ASSUME tx[o].stage = "looked" PROVE Earlier(d)' = Earlier(d)
        <4>1. d.actor \in Held(o) BY <2>2, <3>1, <3>6 DEF InOrder, Held
        <4>2. C.actor \in Held(s) BY <1>4, <1>6 DEF Held
        <4>3. C.actor # d.actor BY <4>1, <4>2 DEF IInv, Apart
        <4> QED BY <1>7, <1>8, <4>3 DEF Earlier
      <3>7. tx[o].rooted /\ d.action # "CREATE" =>
                      activities'[d.activity].state = activities[d.activity].state
        <4>1. d.activity \in Activities BY CommandAssumption DEF Command
        <4> QED BY <1>7, <3>2, <4>1 DEF IInv, Typed
      <3> QED BY <1>7, <3>3, <3>4, <3>5, <3>6, <3>7
    <2> QED BY <2>1, <2>2, StillSound
  <1>21. \A o \in Sessions \ {s} : RefusedSo(o)' /\ AnsweredSo(o)'
    BY <1>10, <1>12, SameRefused, SameAnswered DEF IInv, Sounds
  <1>22. Sounds' BY <1>14, <1>17, <1>18, <1>20, <1>21 DEF Sounds
  <1> QED BY <1>13, <1>16, <1>19, <1>22 DEF IInv

\* Access changes and withdrawals leave alone what a live transaction holds.
LEMMA OutsidePreserves ==
  ASSUME IInv, UNCHANGED <<activities, transitions, tx>>,
         identities' \in [Identities -> Identity], offered' \subseteq offered,
         \A s \in Sessions : \A i \in Held(s) : identities'[i] = identities[i],
         \A s \in Sessions, v \in Services :
           <<"service", v>> \in RootHeld(s) => (v \in offered' <=> v \in offered)
  PROVE  IInv'
  <1>1. Typed' BY DEF IInv, Typed
  <1>2. Apart'
    <2>1. \A s \in Sessions : Held(s)' = Held(s) /\ RootHeld(s)' = RootHeld(s) BY SameHeld
    <2> QED BY <2>1 DEF IInv, Apart
  <1>3. Kept' BY StillKept DEF IInv
  <1>4. ASSUME NEW s \in Sessions PROVE RefusedSo(s)' /\ AnsweredSo(s)'
    BY SameRefused, SameAnswered DEF IInv, Sounds
  <1>5. ASSUME NEW s \in Sessions, NEW c \in Commands PROVE Sound(s, c)'
    <2>1. Sound(s, c) BY DEF IInv, Sounds
    <2>2. Parties(c)' = Parties(c) /\ (Furnished(c)' <=> Furnished(c)) /\ Earlier(c)' = Earlier(c)
      BY SameFor
    <2>3. ASSUME Live(s), tx[s].command = c
          PROVE  /\ \A i \in DOMAIN tx[s].people : identities'[i] = identities[i]
                 /\ tx[s].rooted /\ c.action = "CREATE" =>
                      (c.service \in offered' <=> c.service \in offered)
      <3>1. Held(s) = DOMAIN tx[s].people BY <2>3 DEF Held
      <3>2. tx[s].rooted /\ c.action = "CREATE" => <<"service", c.service>> \in RootHeld(s)
        BY <2>3 DEF RootHeld, Root
      <3>3. c.service \in Services BY CommandAssumption DEF Command
      <3> QED BY <3>1, <3>2, <3>3
    <2> QED BY <2>1, <2>2, <2>3, StillSound
  <1>6. Sounds' BY <1>4, <1>5 DEF Sounds
  <1> QED BY <1>1, <1>2, <1>3, <1>6 DEF IInv

LEMMA ChangeAccessPreserves ==
  ASSUME IInv, NEW i \in Identities, NEW state \in {"active", "restricted", "deactivated"},
         ChangeAccess(i, state)
  PROVE  IInv'
  <1>1. identities \in [Identities -> Identity] BY DEF IInv, Typed
  <1>2. identities[i].epoch \in 1..MaxEpoch BY <1>1 DEF Identity
  <1>3. identities[i].epoch < MaxEpoch BY DEF ChangeAccess
  <1>4. identities[i].epoch + 1 \in 1..MaxEpoch BY <1>2, <1>3, EpochAssumption
  <1> DEFINE row == [state |-> state, epoch |-> identities[i].epoch + 1]
  <1>5. row \in Identity BY <1>4 DEF Identity
  <1>6. identities' = [identities EXCEPT ![i] = row] BY DEF ChangeAccess
  <1> HIDE DEF row
  <1>7. identities' \in [Identities -> Identity] BY <1>1, <1>5, <1>6
  <1>8. \A s \in Sessions : \A j \in Held(s) : identities'[j] = identities[j]
    <2>1. \A s \in Sessions : i \notin Held(s) BY DEF ChangeAccess
    <2>2. ASSUME NEW s \in Sessions, NEW j \in Held(s) PROVE j \in Identities
      <3>1. Live(s) /\ j \in DOMAIN tx[s].people BY DEF Held
      <3>2. tx[s] \in Working BY <3>1, IsWorking DEF Live, IInv
      <3> QED BY <3>1, <3>2, WorkingIs, ReadsAre
    <2> QED BY <1>1, <1>6, <2>1, <2>2
  <1>9. UNCHANGED <<offered, activities, transitions, tx>> BY DEF ChangeAccess
  <1>10. offered' \subseteq offered BY <1>9
  <1> QED BY <1>7, <1>8, <1>9, <1>10, OutsidePreserves

LEMMA WithdrawPreserves ==
  ASSUME IInv, NEW v \in Services, Withdraw(v)
  PROVE  IInv'
  <1>1. UNCHANGED <<identities, activities, transitions, tx>> BY DEF Withdraw
  <1>2. offered' = offered \ {v} BY DEF Withdraw
  <1>3. \A s \in Sessions, w \in Services :
           <<"service", w>> \in RootHeld(s) => (w \in offered' <=> w \in offered)
    BY <1>2 DEF Withdraw
  <1>4. identities' \in [Identities -> Identity] BY <1>1 DEF IInv, Typed
  <1>5. \A s \in Sessions : \A i \in Held(s) : identities'[i] = identities[i] BY <1>1
  <1> QED BY <1>1, <1>2, <1>3, <1>4, <1>5, OutsidePreserves

LEMMA StutterPreserves ==
  ASSUME IInv, UNCHANGED vars
  PROVE  IInv'
  <1>1. UNCHANGED <<identities, offered, activities, transitions, tx>> BY DEF vars
  <1>2. identities' \in [Identities -> Identity] BY <1>1 DEF IInv, Typed
  <1> QED BY <1>1, <1>2, OutsidePreserves

LEMMA InitIInv == Init => IInv
  <1> SUFFICES ASSUME Init PROVE IInv OBVIOUS
  <1>1. \A s \in Sessions : tx[s] = Idle /\ tx[s].stage = "idle" BY DEF Init, Idle
  <1>2. [state |-> "active", epoch |-> 1] \in Identity BY EpochAssumption DEF Identity
  <1>3. [state |-> "none", sequence |-> 0] \in Head BY DEF Head
  <1>4. \A s \in Sessions : tx[s] \notin Working BY <1>1, NotWorking
  <1>5. Typed BY <1>2, <1>3, <1>4 DEF Init, Typed
  <1>6. Apart BY <1>1 DEF Apart, Held, RootHeld, Live
  <1>7. Kept BY DEF Init, Kept
  <1>8. Sounds BY <1>1 DEF Sounds, RefusedSo, AnsweredSo, Sound, Live
  <1> QED BY <1>5, <1>6, <1>7, <1>8 DEF IInv

LEMMA NextIInv == IInv /\ [Next]_vars => IInv'
  <1> SUFFICES ASSUME IInv, [Next]_vars PROVE IInv' OBVIOUS
  <1>1. ASSUME NEW s \in Sessions, NEW c \in Commands, Begin(s, c) PROVE IInv'
    BY <1>1, BeginPreserves
  <1>2. ASSUME NEW s \in Sessions, TakeRoot(s) PROVE IInv' BY <1>2, TakeRootPreserves
  <1>3. ASSUME NEW s \in Sessions, NEW i \in Identities, TakePerson(s, i) PROVE IInv'
    BY <1>3, TakePersonPreserves
  <1>4. ASSUME NEW s \in Sessions, Look(s) PROVE IInv' BY <1>4, LookPreserves
  <1>5. ASSUME NEW s \in Sessions, Replay(s) PROVE IInv' BY <1>5, ReplayPreserves
  <1>6. ASSUME NEW s \in Sessions, Record(s) PROVE IInv' BY <1>6, RecordPreserves
  <1>7. ASSUME NEW s \in Sessions, Refuse(s) PROVE IInv' BY <1>7, RefusePreserves
  <1>8. ASSUME NEW s \in Sessions, Fail(s) \/ Leave(s) PROVE IInv'
    BY <1>8, IdlePreserves DEF Fail, Leave
  <1>9. ASSUME NEW i \in Identities, NEW state \in {"active", "restricted", "deactivated"},
               ChangeAccess(i, state)
        PROVE  IInv'
    BY <1>9, ChangeAccessPreserves
  <1>10. ASSUME NEW v \in Services, Withdraw(v) PROVE IInv' BY <1>10, WithdrawPreserves
  <1>11. ASSUME UNCHANGED vars PROVE IInv' BY <1>11, StutterPreserves
  <1> QED BY <1>1, <1>2, <1>3, <1>4, <1>5, <1>6, <1>7, <1>8, <1>9, <1>10, <1>11 DEF Next

LEMMA Inductive == Spec => []IInv
  BY InitIInv, NextIInv, PTL DEF Spec

-----------------------------------------------------------------------------
(* The theorems. *)

\* Every reachable state is of its type: a transaction reads Identities and
\* has found transitions that are there.
THEOREM TypeCorrect == Spec => []TypeOK
  <1>1. IInv => TypeOK
    <2> SUFFICES ASSUME IInv PROVE TypeOK OBVIOUS
    <2>1. /\ identities \in [Identities -> Identity]
          /\ offered \subseteq Services
          /\ activities \in [Activities -> Head]
          /\ transitions \subseteq Transition
      BY DEF IInv, Typed
    <2>2. ASSUME NEW s \in Sessions, tx[s] # Idle
          PROVE  /\ tx[s].stage \in {"locking", "looked", "refused", "answered"}
                 /\ tx[s].command \in Commands
                 /\ tx[s].stage # "answered" =>
                      DOMAIN tx[s].people \subseteq Identities /\ tx[s].found \subseteq transitions
      <3>1. ASSUME tx[s] \in Working
            PROVE  /\ tx[s].stage \in {"locking", "looked", "refused", "answered"}
                   /\ tx[s].command \in Commands
                   /\ DOMAIN tx[s].people \subseteq Identities /\ tx[s].found \subseteq transitions
        BY <3>1, WorkingIs, ReadsAre DEF IInv, Typed
      <3>2. ASSUME tx[s] \in Done
            PROVE  tx[s].stage = "answered" /\ tx[s].command \in Commands
        BY <3>2 DEF Done
      <3> QED BY <2>2, <3>1, <3>2 DEF IInv, Typed
    <2> QED BY <2>1, <2>2 DEF TypeOK
  <1> QED BY <1>1, Inductive, PTL

\* Whatever other sessions, access changes and withdrawals do, all a command
\* has read stays so until it commits.
THEOREM ReadUntilCommit == Spec => []ReadStaysSo
  <1>1. IInv => ReadStaysSo
    <2> SUFFICES ASSUME IInv, NEW s \in Sessions, Live(s)
                 PROVE  LET c == tx[s].command IN
          /\ \A i \in DOMAIN tx[s].people : Read(s, i) = identities[i]
          /\ tx[s].rooted /\ c.action # "CREATE" => tx[s].sees = activities[c.activity].state
          /\ tx[s].rooted /\ c.action = "CREATE" => tx[s].offers = (c.service \in offered)
          /\ tx[s].stage = "looked" => tx[s].found = Earlier(c)
      BY Zenon DEF ReadStaysSo
    <2>1. tx[s] \in Working BY IsWorking DEF Live, IInv
    <2>2. tx[s].command \in Commands /\ tx[s].offers \in BOOLEAN BY <2>1, WorkingIs
    <2>3. StaysSo(s, tx[s].command) BY <2>2 DEF IInv, Sounds, Sound
    <2>4. \A i \in DOMAIN tx[s].people : Read(s, i) = identities[i]
      BY <2>3 DEF StaysSo, Read
    <2>5. tx[s].rooted /\ tx[s].command.action # "CREATE" =>
            tx[s].sees = activities[tx[s].command.activity].state
      BY <2>3 DEF StaysSo
    <2>6. tx[s].rooted /\ tx[s].command.action = "CREATE" =>
            tx[s].offers = (tx[s].command.service \in offered)
      <3>1. \A a, b \in BOOLEAN : (a <=> b) => a = b OBVIOUS
      <3>2. (tx[s].command.service \in offered) \in BOOLEAN OBVIOUS
      <3>3. tx[s].rooted /\ tx[s].command.action = "CREATE" =>
              (tx[s].offers <=> tx[s].command.service \in offered)
        BY <2>3, Zenon DEF StaysSo
      <3> QED BY <2>2, <3>1, <3>2, <3>3, Zenon
    <2>7. tx[s].stage = "looked" => tx[s].found = Earlier(tx[s].command)
      BY <2>3 DEF StaysSo
    <2> QED BY <2>4, <2>5, <2>6, <2>7, Zenon
  <1> QED BY <1>1, Inductive, PTL

\* For any number of sessions, an exact replay is refused in one case only.
THEOREM RefusedAssignOnly == Spec => []RefusedReplay
  <1>1. IInv => RefusedReplay BY Zenon DEF IInv, Sounds, RefusedSo, RefusedReplay
  <1> QED BY <1>1, Inductive, PTL

\* For any number of sessions, an answer is what this very command recorded.
THEOREM AnswersRecorded == Spec => []AnswersAgree
  <1>1. IInv => AnswersAgree BY Zenon DEF IInv, Sounds, AnsweredSo, AnswersAgree, ResultOf
  <1> QED BY <1>1, Inductive, PTL

\* No access change comes between the check of the actor, or of the proposed
\* assignee, and the transition.
THEOREM RecordedWhenEligible == Spec => EligibleWhenRecorded
  <1>1. IInv /\ [Next]_vars => [\A t \in transitions' \ transitions :
          /\ identities[t.command.actor] = [state |-> "active", epoch |-> t.epoch]
          /\ t.command.action = "ASSIGN" => identities[t.command.assignee].state = "active"]_vars
    <2> SUFFICES ASSUME IInv, Next, NEW t \in transitions' \ transitions
                 PROVE  /\ identities[t.command.actor] = [state |-> "active", epoch |-> t.epoch]
                        /\ t.command.action = "ASSIGN" =>
                             identities[t.command.assignee].state = "active"
      OBVIOUS
    <2>1. PICK s \in Sessions : Record(s)
      BY DEF Next, Begin, TakeRoot, TakePerson, Look, Replay, Refuse, Fail, Leave, ChangeAccess,
             Withdraw
    <2>2. tx[s].stage = "looked" BY <2>1 DEF Record
    <2>3. tx[s] \in Working BY <2>2, IsWorking DEF IInv
    <2>4. PICK c \in Commands : c = tx[s].command BY <2>3, WorkingIs
    <2>5. InOrder(s, c) /\ Passed(s, c) /\ StaysSo(s, c)
      BY <2>2, <2>4 DEF IInv, Sounds, Sound, Live
    <2>6. t.command = c /\ t.epoch = tx[s].people[c.actor].epoch
      BY <2>1, <2>4 DEF Record, Epoch, Read
    <2>7. DOMAIN tx[s].people = {c.actor} \cup Parties(c) BY <2>2, <2>5 DEF InOrder
    <2>8. identities[c.actor] = tx[s].people[c.actor] /\ identities[c.actor].state = "active"
      BY <2>2, <2>5, <2>7 DEF StaysSo, Passed
    <2>9. identities[c.actor] \in Identity BY PartiesAre DEF IInv, Typed
    <2>10. identities[c.actor] = [state |-> "active", epoch |-> t.epoch]
      BY <2>6, <2>8, <2>9 DEF Identity
    <2>11. c.action = "ASSIGN" => c.assignee \in Parties(c) BY DEF Parties
    <2>12. c.action = "ASSIGN" => identities[c.assignee].state = "active"
      BY <2>2, <2>5, <2>7, <2>11 DEF StaysSo, Passed
    <2> QED BY <2>6, <2>10, <2>12
  <1> QED BY <1>1, Inductive, PTL DEF Spec, EligibleWhenRecorded

-----------------------------------------------------------------------------
(* The Activities' histories.  Every step leads further along the life of an *)
(* Activity, so no action can be taken twice and no life is longer than six. *)

Rank == [none |-> 0, unassigned |-> 1, assigned |-> 2, in_progress |-> 3, submitted |-> 4,
         reviewed |-> 5, completed |-> 6, declined |-> 6, cancelled |-> 6]

LEMMA RankType == \A x \in States \cup {"none"} : Rank[x] \in 0..6
  BY DEF Rank, States

LEMMA Onward ==
  ASSUME NEW x \in Actions, NEW y \in From[x]
  PROVE  Rank[y] < Rank[To[x]] /\ To[x] \in States
  <1>1. CASE x \in {"CREATE", "ASSIGN", "ACCEPT", "DECLINE"}
    BY <1>1 DEF From, To, Rank, States
  <1>2. CASE x \in {"SUBMIT", "REVIEW", "COMPLETE"}
    BY <1>2 DEF From, To, Rank, States
  <1>3. CASE x = "CANCEL"
    BY <1>3 DEF From, To, Rank, States
  <1> QED BY <1>1, <1>2, <1>3 DEF Actions

Story(a) == LET last == activities[a].sequence IN
  /\ \A t \in Past(a) : /\ t.sequence \in 1..last /\ t.to = To[t.command.action]
                        /\ Rank[t.to] <= Rank[activities[a].state]
                        /\ t.sequence = 1 => t.command.action = "CREATE"
                        /\ t.sequence = last => t.to = activities[a].state
  /\ \A n \in 1..last : \E t \in Past(a) : t.sequence = n
  /\ \A t, u \in Past(a) : t.sequence = u.sequence => t = u
  /\ \A t, u \in Past(a) : t.command.action = u.command.action => t = u
  /\ \A t, u \in Past(a) : u.sequence = t.sequence + 1 => t.to \in From[u.command.action]
  /\ last = 0 => activities[a].state = "none"
  /\ last <= Rank[activities[a].state]

Stories == \A a \in Activities : Story(a)

\* What a Record adds is a permitted step from where the Activity stands.
LEMMA RecordContinues ==
  ASSUME IInv, NEW s \in Sessions, Record(s)
  PROVE  \E t \in Transition :
           LET a == t.command.activity IN
           /\ a \in Activities /\ t.command.action \in Actions
           /\ t.to = To[t.command.action] /\ t.sequence = activities[a].sequence + 1
           /\ activities[a].state \in From[t.command.action]
           /\ transitions' = transitions \cup {t}
           /\ activities' = [activities EXCEPT ![a] = [state |-> t.to, sequence |-> t.sequence]]
  <1> DEFINE r == tx[s]
             C == r.command
  <1>1. r.stage = "looked" BY DEF Record
  <1>2. r \in Working BY <1>1, IsWorking DEF IInv
  <1>3. C \in Commands /\ C \in Command BY <1>2, WorkingIs
  <1>4. InOrder(s, C) /\ StaysSo(s, C) BY <1>1, <1>3 DEF IInv, Sounds, Sound, Live
  <1>5. r.rooted /\ C.actor \in DOMAIN r.people BY <1>1, <1>4 DEF InOrder
  <1>6. activities[C.activity].state \in From[C.action]
    <2>1. CASE C.action = "CREATE"
      BY <2>1 DEF Record, From
    <2>2. CASE C.action # "CREATE"
      BY <1>4, <1>5, <2>2 DEF Record, Permitted, StaysSo
    <2> QED BY <2>1, <2>2
  <1>7. PICK t \in Transition :
            /\ t = [command |-> C, epoch |-> Epoch(s), to |-> To[C.action],
                    sequence |-> activities[C.activity].sequence + 1]
            /\ transitions' = transitions \cup {t}
            /\ activities' = [activities EXCEPT ![C.activity] =
                 [state |-> t.to, sequence |-> t.sequence]]
    BY <1>2, <1>5, RecordStep, Zenon DEF IInv
  <1>8. /\ t.command = C /\ t.to = To[C.action]
        /\ t.sequence = activities[C.activity].sequence + 1
    BY <1>7
  <1>9. C.activity \in Activities /\ C.action \in Actions BY <1>3 DEF Command
  <1> HIDE DEF C
  <1> QED BY <1>6, <1>7, <1>8, <1>9

LEMMA StoryContinues ==
  ASSUME IInv, Stories, NEW s \in Sessions, Record(s)
  PROVE  Stories'
  <1>1. PICK t \in Transition :
           LET a == t.command.activity IN
           /\ a \in Activities /\ t.command.action \in Actions
           /\ t.to = To[t.command.action] /\ t.sequence = activities[a].sequence + 1
           /\ activities[a].state \in From[t.command.action]
           /\ transitions' = transitions \cup {t}
           /\ activities' = [activities EXCEPT ![a] = [state |-> t.to, sequence |-> t.sequence]]
    BY RecordContinues
  <1> DEFINE b == t.command.activity
             last == activities[b].sequence
             old == activities[b].state
  <1>2. activities \in [Activities -> Head] /\ transitions \subseteq Transition
    BY DEF IInv, Typed
  <1>3. SUFFICES ASSUME NEW a \in Activities PROVE Story(a)'
    BY DEF Stories
  <1>4. Story(a) BY DEF Stories
  <1>5. CASE a # b
    <2>1. activities'[a] = activities[a] /\ Past(a)' = Past(a)
      BY <1>1, <1>2, <1>5 DEF Past
    <2> QED BY <1>4, <2>1 DEF Story
  <1>6. CASE a = b
    <2>1. /\ activities'[a].state = t.to /\ activities'[a].sequence = last + 1
          /\ Past(a)' = Past(a) \cup {t}
      BY <1>1, <1>2, <1>6 DEF Past
    <2>2. last \in Nat /\ old \in States \cup {"none"}
      BY <1>1, <1>2 DEF Head
    <2>3. /\ Rank[old] < Rank[t.to] /\ Rank[old] \in Nat /\ Rank[t.to] \in Nat
      BY <1>1, <2>2, Onward, RankType
    <2>4. \A u \in Past(a) : /\ u.sequence \in 1..last /\ u.sequence \in Nat
                             /\ u.to = To[u.command.action]
                             /\ Rank[u.to] \in Nat /\ Rank[u.to] < Rank[t.to]
                             /\ u.sequence = 1 => u.command.action = "CREATE"
                             /\ u.sequence = last => u.to = old
      <3>1. \A u \in Past(a) : u.to \in States /\ Rank[u.to] \in Nat
        BY <1>2, RankType DEF Past, Transition
      <3> QED BY <1>4, <1>6, <2>2, <2>3, <3>1 DEF Story
    <2>5. \A u \in Past(a) : u.command.action # t.command.action
      BY <1>1, <2>3, <2>4
    <2>6. last = 0 => t.command.action = "CREATE"
      <3>1. last = 0 => old = "none"
        BY <1>4, <1>6 DEF Story
      <3> QED BY <1>1, <3>1 DEF Actions, From
    <2>7. \A u \in Past(a)' : /\ u.sequence \in 1..last + 1 /\ u.to = To[u.command.action]
                              /\ Rank[u.to] <= Rank[t.to]
                              /\ u.sequence = 1 => u.command.action = "CREATE"
                              /\ u.sequence = last + 1 => u.to = t.to
      BY <1>1, <2>1, <2>2, <2>3, <2>4, <2>6
    <2>8. \A n \in 1..last + 1 : \E u \in Past(a)' : u.sequence = n
      <3> SUFFICES ASSUME NEW n \in 1..last + 1 PROVE \E u \in Past(a)' : u.sequence = n
        OBVIOUS
      <3>1. CASE n = last + 1
        BY <1>1, <2>1, <3>1
      <3>2. CASE n # last + 1
        <4>1. n \in 1..last BY <2>2, <3>2
        <4> QED BY <1>4, <1>6, <2>1, <4>1 DEF Story
      <3> QED BY <3>1, <3>2
    <2>9. \A u, v \in Past(a)' : /\ u.sequence = v.sequence => u = v
                                 /\ u.command.action = v.command.action => u = v
                                 /\ v.sequence = u.sequence + 1 => u.to \in From[v.command.action]
      <3> SUFFICES ASSUME NEW u \in Past(a)', NEW v \in Past(a)'
                   PROVE  /\ u.sequence = v.sequence => u = v
                          /\ u.command.action = v.command.action => u = v
                          /\ v.sequence = u.sequence + 1 => u.to \in From[v.command.action]
        OBVIOUS
      <3>1. CASE u \in Past(a) /\ v \in Past(a)
        BY <1>4, <3>1 DEF Story
      <3>2. CASE u = t /\ v = t
        BY <1>1, <2>2, <3>2
      <3>3. CASE u = t /\ v \in Past(a)
        BY <1>1, <2>2, <2>4, <2>5, <3>3
      <3>4. CASE u \in Past(a) /\ v = t
        BY <1>1, <2>2, <2>4, <2>5, <3>4
      <3> QED BY <2>1, <3>1, <3>2, <3>3, <3>4
    <2>10. last + 1 <= Rank[t.to] /\ last + 1 # 0
      <3>1. last <= Rank[old] BY <1>4, <1>6 DEF Story
      <3> QED BY <2>2, <2>3, <3>1
    <2> HIDE DEF last, old, b
    <2> QED BY <2>1, <2>7, <2>8, <2>9, <2>10 DEF Story
  <1> QED BY <1>5, <1>6

LEMMA StoriesHold == Spec => []Stories
  <1>1. Init => Stories
    <2> SUFFICES ASSUME Init, NEW a \in Activities PROVE Story(a) BY DEF Stories
    <2>1. Past(a) = {} /\ activities[a].sequence = 0 /\ activities[a].state = "none"
      BY DEF Init, Past
    <2> QED BY <2>1 DEF Story, Rank
  <1>2. IInv /\ Stories /\ [Next]_vars => Stories'
    <2> SUFFICES ASSUME IInv, Stories, [Next]_vars PROVE Stories' OBVIOUS
    <2>1. (\E s \in Sessions : Record(s)) \/ UNCHANGED <<activities, transitions>>
      BY DEF Next, Begin, TakeRoot, TakePerson, Look, Replay, Refuse, Fail, Leave, ChangeAccess,
             Withdraw, vars
    <2>2. CASE UNCHANGED <<activities, transitions>>
      BY <2>2 DEF Stories, Story, Past
    <2> QED BY <2>1, <2>2, StoryContinues
  <1> QED BY <1>1, <1>2, Inductive, PTL DEF Spec

\* Whatever sessions command an Activity at once, its transitions are a path
\* through its states without gap or double that ends where its row stands.
THEOREM HistoriesArePaths == Spec => []HistoryIsAPath
  <1>1. IInv /\ Stories => HistoryIsAPath
    <2> SUFFICES ASSUME IInv, Stories, NEW a \in Activities
                 PROVE  LET last == activities[a].sequence IN
          /\ {t.sequence : t \in Past(a)} = 1..last
          /\ \A t, u \in Past(a) : t.sequence = u.sequence => t = u
          /\ \A t \in Past(a) : t.sequence = 1 => t.command.action = "CREATE"
          /\ \A t, u \in Past(a) : u.sequence = t.sequence + 1 => t.to \in From[u.command.action]
          /\ \A t \in Past(a) : t.sequence = last => t.to = activities[a].state
          /\ last = 0 => activities[a].state = "none"
      BY DEF HistoryIsAPath
    <2>1. Story(a) BY DEF Stories
    <2>2. {t.sequence : t \in Past(a)} = 1..activities[a].sequence
      <3>1. \A t \in Past(a) : t.sequence \in 1..activities[a].sequence BY <2>1 DEF Story
      <3>2. \A n \in 1..activities[a].sequence : \E t \in Past(a) : t.sequence = n
        BY <2>1 DEF Story
      <3> QED BY <3>1, <3>2
    <2> QED BY <2>1, <2>2 DEF Story
  <1> QED BY <1>1, StoriesHold, Inductive, PTL

\* No action is taken twice on an Activity, by whatever keys and sessions, and no
\* life has more than the six steps the bound of the run allows.
THEOREM EachActionOnce == Spec => []OneOfEach
  <1>1. IInv /\ Stories => OneOfEach
    <2> SUFFICES ASSUME IInv, Stories PROVE OneOfEach OBVIOUS
    <2>1. ASSUME NEW t \in transitions, NEW u \in transitions,
                 t.command.activity = u.command.activity, t.command.action = u.command.action
          PROVE  t = u
      <3>1. t.command \in Command BY CommandAssumption DEF IInv, Typed, Transition
      <3>2. t.command.activity \in Activities BY <3>1 DEF Command
      <3> QED BY <2>1, <3>2 DEF Stories, Story, Past
    <2>2. ASSUME NEW a \in Activities PROVE activities[a].sequence <= 6
      <3>1. activities[a] \in Head BY DEF IInv, Typed
      <3>2. activities[a].state \in States \cup {"none"} /\ activities[a].sequence \in Nat
        BY <3>1 DEF Head
      <3>3. Rank[activities[a].state] \in 0..6 BY <3>2, RankType
      <3>4. activities[a].sequence <= Rank[activities[a].state] BY DEF Stories, Story
      <3> QED BY <3>2, <3>3, <3>4
    <2> QED BY <2>1, <2>2 DEF OneOfEach
  <1> QED BY <1>1, StoriesHold, Inductive, PTL

-----------------------------------------------------------------------------
(* Circles of waiting. *)

Less == {p \in Nat \X Nat : p[1] < p[2]}

LEMMA Least ==
  ASSUME NEW T, T \subseteq Nat, T # {}
  PROVE  \E x \in T : \A y \in T : x <= y
  <1>1. IsWellFoundedOn(Less, Nat)
    BY NatLessThanWellFounded DEF OpToRel, Less
  <1>2. PICK x \in T : \A y \in T : ~ (<<y, x>> \in Less)
    BY <1>1, WFMin, Zenon
  <1>3. \A y, z \in Nat : y < z => <<y, z>> \in Less
    BY DEF Less
  <1>4. \A y \in T : ~(y < x) BY <1>2, <1>3
  <1> QED BY <1>4

LEMMA Greatest ==
  ASSUME NEW T, NEW m \in Nat, T \subseteq 0..m, T # {}
  PROVE  \E x \in T : \A y \in T : y <= x
  <1> DEFINE D == {m - x : x \in T}
  <1>1. D \subseteq Nat OBVIOUS
  <1>2. PICK z \in T : TRUE OBVIOUS
  <1>3. m - z \in D OBVIOUS
  <1>4. D # {} BY <1>3
  <1>5. PICK d \in D : \A e \in D : d <= e
    <2> HIDE DEF D
    <2> QED BY <1>1, <1>4, Least
  <1>6. PICK x \in T : d = m - x OBVIOUS
  <1>7. \A y \in T : m - y \in D OBVIOUS
  <1>8. \A y \in T : d <= m - y BY <1>5, <1>7
  <1> QED BY <1>6, <1>8

\* One for whom another waits holds its root.
LEMMA AwaitedIsRooted ==
  ASSUME IInv, NEW s \in Sessions, NEW o \in Sessions, Awaits(s, o)
  PROVE  /\ Live(o) /\ tx[o].rooted /\ tx[o].command \in Commands
         /\ InOrder(o, tx[o].command)
  <1>1. RootHeld(o) # {} \/ Held(o) # {} BY DEF Awaits
  <1>2. Live(o) BY <1>1 DEF RootHeld, Held
  <1>3. tx[o].command \in Commands BY <1>2, IsWorking, WorkingIs DEF Live, IInv
  <1>4. InOrder(o, tx[o].command) BY <1>2, <1>3 DEF IInv, Sounds, Sound
  <1>5. tx[o].rooted BY <1>1, <1>4 DEF RootHeld, Held, InOrder
  <1> QED BY <1>2, <1>3, <1>4, <1>5

\* In a circle all have their root, and wait for an Identity.
LEMMA CircleIsRooted ==
  ASSUME IInv, NEW D \in SUBSET Sessions, Circle(D), NEW s \in D
  PROVE  /\ Live(s) /\ tx[s].rooted /\ tx[s].command \in Commands
         /\ InOrder(s, tx[s].command)
         /\ tx[s].stage = "locking"
         /\ \E o \in D : \E i \in Held(o) : Awaits(s, o) /\ WantsPerson(s, i)
  <1>1. PICK o \in D : Awaits(o, s) BY DEF Circle
  <1>2. Live(s) /\ tx[s].rooted /\ tx[s].command \in Commands /\ InOrder(s, tx[s].command)
    BY <1>1, AwaitedIsRooted
  <1>3. PICK b \in D : Awaits(s, b) BY DEF Circle
  <1>4. tx[s].stage = "locking" /\ \E i \in Held(b) : WantsPerson(s, i)
    BY <1>2, <1>3 DEF Awaits, WantsRoot
  <1> QED BY <1>2, <1>3, <1>4

LEMMA CircleLocksOthers ==
  ASSUME IInv, NEW D \in SUBSET Sessions, Circle(D), NEW s \in D
  PROVE  tx[s].command.action \in {"ASSIGN", "REVIEW", "COMPLETE", "CANCEL"}
  <1> DEFINE c == tx[s].command
             P == DOMAIN tx[s].people
  <1> SUFFICES ASSUME c.action \notin {"ASSIGN", "REVIEW", "COMPLETE", "CANCEL"} PROVE FALSE
    OBVIOUS
  <1>1. Parties(c) = {} BY DEF Parties
  <1>2. Live(s) /\ InOrder(s, c) BY CircleIsRooted
  <1>3. PICK i : WantsPerson(s, i) BY CircleIsRooted
  <1>4. c.actor \notin P BY <1>1, <1>3 DEF WantsPerson
  <1>5. P = {} BY <1>2, <1>4 DEF InOrder
  <1>6. Held(s) = {} BY <1>5 DEF Held
  <1>7. PICK o \in D : Awaits(o, s) BY DEF Circle
  <1>8. tx[o].rooted BY CircleIsRooted
  <1> QED BY <1>6, <1>7, <1>8 DEF Awaits, WantsRoot

LEMMA CircleIsOfMany ==
  ASSUME IInv, NEW D \in SUBSET Sessions, Circle(D), NEW s \in D, NEW o \in D \ {s}
  PROVE  tx[s].command.activity # tx[o].command.activity
  <1>1. Live(s) /\ tx[s].rooted /\ Live(o) /\ tx[o].rooted BY CircleIsRooted
  <1>2. tx[s].command.action # "CREATE" /\ tx[o].command.action # "CREATE"
    BY CircleLocksOthers
  <1>3. /\ RootHeld(s) = {<<"activity", tx[s].command.activity>>}
        /\ RootHeld(o) = {<<"activity", tx[o].command.activity>>}
    BY <1>1, <1>2 DEF RootHeld, Root
  <1>4. RootHeld(s) \cap RootHeld(o) = {} BY DEF IInv, Apart
  <1> QED BY <1>3, <1>4

\* Rows taken in the order of keys close no circle: whoever holds the greatest
\* Identity that is waited for waits for none, unless it is its own actor's.
LEMMA CircleTakesAnActor ==
  ASSUME NEW m \in Nat, Identities \subseteq 0..m,
         IInv, NEW D \in SUBSET Sessions, Circle(D)
  PROVE  \E s, o \in D : Awaits(s, o) /\ WantsPerson(s, tx[o].command.actor)
  <1> SUFFICES ASSUME \A s, o \in D : ~(Awaits(s, o) /\ WantsPerson(s, tx[o].command.actor))
               PROVE  FALSE
    OBVIOUS
  <1> DEFINE Wanted == {i \in Identities :
        \E s, o \in D : i \in Held(o) /\ Awaits(s, o) /\ WantsPerson(s, i)}
  <1>1. \A s \in D : Held(s) \subseteq Identities
    <2> SUFFICES ASSUME NEW s \in D PROVE Held(s) \subseteq Identities OBVIOUS
    <2>1. tx[s].stage = "locking" BY CircleIsRooted
    <2>2. tx[s] \in Working BY <2>1, IsWorking DEF IInv
    <2>3. DOMAIN tx[s].people \subseteq Identities BY <2>2, WorkingIs, ReadsAre
    <2> QED BY <2>3 DEF Held
  <1>2. \A s \in D : \E i \in Wanted, o \in D : Awaits(s, o) /\ i \in Held(o) /\ WantsPerson(s, i)
    <2> SUFFICES ASSUME NEW s \in D
                 PROVE  \E i \in Wanted, o \in D :
                          Awaits(s, o) /\ i \in Held(o) /\ WantsPerson(s, i)
      OBVIOUS
    <2>1. PICK o \in D : \E i \in Held(o) : Awaits(s, o) /\ WantsPerson(s, i) BY CircleIsRooted
    <2>2. PICK i \in Held(o) : Awaits(s, o) /\ WantsPerson(s, i) BY <2>1
    <2>3. i \in Wanted BY <1>1, <2>2
    <2> QED BY <2>2, <2>3
  <1>3. Wanted # {} BY <1>2 DEF Circle
  <1>4. Wanted \subseteq 0..m OBVIOUS
  <1>5. PICK i \in Wanted : \A j \in Wanted : j <= i
    <2> HIDE DEF Wanted
    <2> QED BY <1>3, <1>4, Greatest
  <1>6. PICK s \in D, o \in D : i \in Held(o) /\ Awaits(s, o) /\ WantsPerson(s, i) OBVIOUS
  <1> DEFINE c == tx[o].command
             P == DOMAIN tx[o].people
  <1>7. i # c.actor BY <1>6
  <1>8. i \in P BY <1>6 DEF Held
  <1>9. InOrder(o, c) BY CircleIsRooted
  <1>10. PICK j \in Wanted : WantsPerson(o, j)
    <2> HIDE DEF Wanted
    <2> QED BY <1>2
  <1>11. j \in Parties(c) \ P BY <1>8, <1>9, <1>10 DEF InOrder, WantsPerson
  <1>12. i < j BY <1>7, <1>8, <1>9, <1>11 DEF InOrder
  <1>13. j <= i BY <1>5
  <1>14. i \in Nat /\ j \in Nat BY <1>4
  <1> QED BY <1>12, <1>13, <1>14

\* For any number of sessions, Activities and Identities with keys up to some
\* greatest one: commands on one Activity never wait in a circle, and a circle
\* goes through the row of a command's own actor.
THEOREM DeadlocksByActor ==
  ASSUME NEW m \in Nat, Identities \subseteq 0..m
  PROVE  Spec => []CirclesApart
  <1>1. IInv => CirclesApart
    <2> SUFFICES ASSUME IInv, NEW D \in SUBSET Sessions, Circle(D)
                 PROVE  /\ \A s \in D :
                             /\ tx[s].command.action \in {"ASSIGN", "REVIEW", "COMPLETE", "CANCEL"}
                             /\ \A o \in D \ {s} :
                                  tx[s].command.activity # tx[o].command.activity
                        /\ \E s, o \in D : Awaits(s, o) /\ WantsPerson(s, tx[o].command.actor)
      BY DEF CirclesApart
    <2> QED BY CircleLocksOthers, CircleIsOfMany, CircleTakesAnActor
  <1> QED BY <1>1, Inductive, PTL
=============================================================================
