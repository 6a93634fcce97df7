--------------------------- MODULE ServiceActivity ---------------------------
(***************************************************************************)
(* The eight commands on Service Activities (S012), each one transaction   *)
(* of a session, step by step as it takes its row locks: the Activity (for *)
(* CREATE, the Service), the actor's Identity, the other Identities it     *)
(* names.  Then it looks for a transition its key already made, and        *)
(* replays it, refuses, or writes and commits.                             *)
(*                                                                         *)
(* Left out: the authority provider, which may only refuse (Fail); the     *)
(* texts and references of a command, which make it distinct; evidence.    *)
(* A row lock outlasts the statement that took it, to the end of its       *)
(* transaction.  The locks on transitions and on assignments, submissions  *)
(* and reviews are taken last or under the Activity's, and nobody who has  *)
(* one waits for another row: they are not told apart.                     *)
(***************************************************************************)
EXTENDS Naturals

CONSTANTS
  Sessions,    \* connections that execute commands
  Identities,  \* primary keys of Identity rows
  Activities,
  Services,
  Commands,    \* the commands sessions may be given
  Changing,    \* bound: the Identities whose access changes
  MaxEpoch     \* bound on an Identity's access epoch

Actions == {"CREATE", "ASSIGN", "ACCEPT", "DECLINE", "SUBMIT", "REVIEW", "COMPLETE", "CANCEL"}

States == {"unassigned", "assigned", "in_progress", "submitted", "reviewed",
           "completed", "declined", "cancelled"}

\* The action, what it is about and who asks; assignee is about ASSIGN and
\* service about CREATE.
Command == [action : Actions, activity : Activities, service : Services,
            actor : Identities, assignee : Identities, key : Nat]

ASSUME IdentityAssumption == Identities \subseteq Nat
ASSUME CommandAssumption == Commands \subseteq Command
ASSUME EpochAssumption == MaxEpoch \in Nat \ {0}

Identity == [state : {"active", "restricted", "deactivated"}, epoch : 1..MaxEpoch]

\* Head of the Activity's lineage; state is "none" before it is created.
Head == [state : States \cup {"none"}, sequence : Nat]

Transition == [command : Commands, epoch : 1..MaxEpoch, sequence : Nat, to : States]

VARIABLES
  identities,   \* Identity rows, each with its credential
  offered,      \* Services PUBLISHED at the version the commands name
  activities,   \* ServiceActivity rows
  transitions,  \* ServiceActivityTransition rows and their child rows
  tx            \* what each session's transaction has done

vars == <<identities, offered, activities, transitions, tx>>

Idle == [stage |-> "idle"]

Init ==
  /\ identities = [i \in Identities |-> [state |-> "active", epoch |-> 1]]
  /\ offered = Services
  /\ activities = [a \in Activities |-> [state |-> "none", sequence |-> 0]]
  /\ transitions = {}
  /\ tx = [s \in Sessions |-> Idle]

-----------------------------------------------------------------------------
\* Transitions of an Activity, by the command that made them.
By(a, action) == {t \in transitions : t.command.activity = a /\ t.command.action = action}

Creators(a) == {t.command.actor : t \in By(a, "CREATE")}
Assignees(a) == {t.command.assignee : t \in By(a, "ASSIGN")}
Reviewers(a) == {t.command.actor : t \in By(a, "REVIEW")}

\* The Identities a command locks after its actor's.
Parties(c) ==
  IF c.action = "ASSIGN" THEN {c.assignee}
  ELSE IF c.action \notin {"REVIEW", "COMPLETE", "CANCEL"} THEN {}
  ELSE Assignees(c.activity) \cup Creators(c.activity) \cup
         (IF c.action = "REVIEW" THEN {} ELSE Reviewers(c.activity))

\* The child rows a command reads exist, and name its actor where they must.
Furnished(c) ==
  /\ c.action \in {"ACCEPT", "DECLINE", "SUBMIT"} => c.actor \in Assignees(c.activity)
  /\ c.action \in {"REVIEW", "COMPLETE"} => Assignees(c.activity) # {}
  /\ c.action = "COMPLETE" => Reviewers(c.activity) # {}

\* The states an action may find and the one it leaves.
From == [CREATE |-> {"none"}, ASSIGN |-> {"unassigned"}, ACCEPT |-> {"assigned"},
  DECLINE |-> {"assigned"}, SUBMIT |-> {"in_progress"}, REVIEW |-> {"submitted"},
  COMPLETE |-> {"reviewed"},
  CANCEL |-> {"unassigned", "assigned", "in_progress", "submitted", "reviewed"}]

To == [CREATE |-> "unassigned", ASSIGN |-> "assigned", ACCEPT |-> "in_progress",
  DECLINE |-> "declined", SUBMIT |-> "submitted", REVIEW |-> "reviewed",
  COMPLETE |-> "completed", CANCEL |-> "cancelled"]

\* _check_replay: the transition under this actor, action and key, of any Activity.
Earlier(c) == {t \in transitions : t.command.actor = c.actor
  /\ t.command.action = c.action /\ t.command.key = c.key}

\* _resolve_replay and the reconstruction: made under the same epoch by the same payload.
Exact(c, t, epoch) == t.epoch = epoch /\ t.command = c

-----------------------------------------------------------------------------
\* Row locks.
Live(s) == tx[s].stage \in {"locking", "looked"}

\* Mutant: only the actors' rows are locked; the others are merely read.
Held_ByActors(s) == IF Live(s) THEN DOMAIN tx[s].people \cap {tx[s].command.actor} ELSE {}

\* Mutant: the actors' rows are not locked.
Held_Others(s) == IF Live(s) THEN DOMAIN tx[s].people \ {tx[s].command.actor} ELSE {}

\* Identity rows a session holds.
Held(s) == IF Live(s) THEN DOMAIN tx[s].people ELSE {}

Root(c) == IF c.action = "CREATE" THEN <<"service", c.service>> ELSE <<"activity", c.activity>>

RootHeld(s) == IF Live(s) /\ tx[s].rooted THEN {Root(tx[s].command)} ELSE {}

\* The next row a locking session asks for is the Activity's, or the Service's.
WantsRoot(s) == ~tx[s].rooted

\* Mutant: the others in no order.
WantsPerson_Unordered(s, i) ==
  LET c == tx[s].command IN
  IF c.actor \notin DOMAIN tx[s].people THEN i = c.actor
  ELSE i \in Parties(c) \ DOMAIN tx[s].people

\* The Identity it asks for otherwise: the actor, then the others by primary key.
WantsPerson(s, i) ==
  LET c == tx[s].command
      rest == Parties(c) \ DOMAIN tx[s].people
  IN IF c.actor \notin DOMAIN tx[s].people THEN i = c.actor
     ELSE i \in rest /\ \A j \in rest : i <= j

Read(s, i) == tx[s].people[i]

\* A check made while locking fails: _lock_actor, _get_assignment and the like,
\* _require_active_identity of the assignee.
Faulty(s) == LET c == tx[s].command IN
  \/ c.action # "CREATE" /\ activities[c.activity].state = "none"
  \/ c.actor \in DOMAIN tx[s].people /\
       (Read(s, c.actor).state # "active" \/ ~Furnished(c))
  \/ c.action = "ASSIGN" /\ c.assignee \in DOMAIN tx[s].people
       /\ Read(s, c.assignee).state # "active"

Complete(s) == tx[s].rooted /\ ({tx[s].command.actor} \cup Parties(tx[s].command)) = DOMAIN tx[s].people

-----------------------------------------------------------------------------
Begin(s, c) ==
  /\ tx[s].stage = "idle"
  /\ tx' = [tx EXCEPT ![s] = [stage |-> "locking", command |-> c, rooted |-> FALSE,
       people |-> <<>>, sees |-> "none", offers |-> FALSE, found |-> {}]]
  /\ UNCHANGED <<identities, offered, activities, transitions>>

TakeRoot(s) ==
  /\ tx[s].stage = "locking" /\ WantsRoot(s) /\ ~Faulty(s)
  /\ \A o \in Sessions \ {s} : Root(tx[s].command) \notin RootHeld(o)
  /\ LET c == tx[s].command IN
       tx' = [tx EXCEPT ![s].rooted = TRUE,
                        ![s].sees = activities[c.activity].state,
                        ![s].offers = c.service \in offered]
  /\ UNCHANGED <<identities, offered, activities, transitions>>

TakePerson(s, i) ==
  /\ tx[s].stage = "locking" /\ ~WantsRoot(s) /\ ~Faulty(s) /\ WantsPerson(s, i)
  /\ \A o \in Sessions \ {s} : i \notin Held(o)
  /\ tx' = [tx EXCEPT ![s].people =
       [j \in DOMAIN @ \cup {i} |-> IF j = i THEN identities[i] ELSE @[j]]]
  /\ UNCHANGED <<identities, offered, activities, transitions>>

Look(s) ==
  /\ tx[s].stage = "locking" /\ Complete(s) /\ ~Faulty(s)
  /\ tx' = [tx EXCEPT ![s].stage = "looked", ![s].found = Earlier(tx[s].command)]
  /\ UNCHANGED <<identities, offered, activities, transitions>>

Epoch(s) == Read(s, tx[s].command.actor).epoch

\* The result rebuilt from a transition.
ResultOf(t) == [to |-> t.to, sequence |-> t.sequence]

Answered(s, answer) == [tx EXCEPT ![s] =
  [stage |-> "answered", command |-> tx[s].command, answer |-> answer]]

\* The state checks of a first execution; CREATE's is of the Service.
Permitted(s) == LET c == tx[s].command IN
  IF c.action = "CREATE" THEN tx[s].offers ELSE tx[s].sees \in From[c.action]

\* Mutant: an earlier execution is looked for once the state allows another.
Replayed_Permitted(s) == {t \in tx[s].found : Exact(tx[s].command, t, Epoch(s)) /\ Permitted(s)}

\* The transition a replay returns.
Replayed(s) == {t \in tx[s].found : Exact(tx[s].command, t, Epoch(s))}

Replay(s) ==
  /\ tx[s].stage = "looked"
  /\ \E t \in Replayed(s) : tx' = Answered(s, ResultOf(t))
  /\ UNCHANGED <<identities, offered, activities, transitions>>

\* activity_id is unique.
Record(s) ==
  /\ tx[s].stage = "looked" /\ tx[s].found = {} /\ Permitted(s)
  /\ LET c == tx[s].command
         t == [command |-> c, epoch |-> Epoch(s), to |-> To[c.action],
               sequence |-> activities[c.activity].sequence + 1]
     IN /\ c.action = "CREATE" => activities[c.activity].state = "none"
        /\ transitions' = transitions \cup {t}
        /\ activities' = [activities EXCEPT ![c.activity] =
             [state |-> t.to, sequence |-> t.sequence]]
        /\ tx' = Answered(s, [to |-> t.to, sequence |-> t.sequence])
  /\ UNCHANGED <<identities, offered>>

Taken(s) == tx[s].command.action = "CREATE" /\ activities[tx[s].command.activity].state # "none"

\* found is what the key had made by then, though a check failed before it was looked for.
Refuse(s) ==
  /\ \/ tx[s].stage = "locking" /\ Faulty(s)
     \/ tx[s].stage = "looked" /\ tx[s].found # {} /\ Replayed(s) = {}
     \/ tx[s].stage = "looked" /\ tx[s].found = {} /\ (~Permitted(s) \/ Taken(s))
  /\ tx' = [tx EXCEPT ![s].stage = "refused", ![s].found = Earlier(tx[s].command)]
  /\ UNCHANGED <<identities, offered, activities, transitions>>

\* The authority refuses, the connection is lost, or PostgreSQL makes the
\* transaction the victim of a deadlock.
Fail(s) ==
  /\ Live(s)
  /\ tx' = [tx EXCEPT ![s] = Idle]
  /\ UNCHANGED <<identities, offered, activities, transitions>>

Leave(s) ==
  /\ tx[s].stage \in {"answered", "refused"}
  /\ tx' = [tx EXCEPT ![s] = Idle]
  /\ UNCHANGED <<identities, offered, activities, transitions>>

AccessEdges == {<<"active", "restricted">>, <<"active", "deactivated">>,
                <<"restricted", "deactivated">>, <<"deactivated", "active">>}

\* change_access, in a transaction that holds the Identity.
ChangeAccess(i, state) ==
  /\ \A s \in Sessions : i \notin Held(s)
  /\ <<identities[i].state, state>> \in AccessEdges
  /\ i \in Changing /\ identities[i].epoch < MaxEpoch
  /\ identities' = [identities EXCEPT ![i] = [state |-> state, epoch |-> @.epoch + 1]]
  /\ UNCHANGED <<offered, activities, transitions, tx>>

\* A Service is withdrawn, or takes another version; its row is held.
Withdraw(v) ==
  /\ \A s \in Sessions : <<"service", v>> \notin RootHeld(s)
  /\ v \in offered
  /\ offered' = offered \ {v}
  /\ UNCHANGED <<identities, activities, transitions, tx>>

Next ==
  \/ \E s \in Sessions :
       \/ \E c \in Commands : Begin(s, c)
       \/ TakeRoot(s)
       \/ \E i \in Identities : TakePerson(s, i)
       \/ Look(s) \/ Replay(s) \/ Record(s) \/ Refuse(s) \/ Fail(s) \/ Leave(s)
  \/ \E i \in Identities, state \in {"active", "restricted", "deactivated"} : ChangeAccess(i, state)
  \/ \E v \in Services : Withdraw(v)

Spec == Init /\ [][Next]_vars

-----------------------------------------------------------------------------
TypeOK ==
  /\ identities \in [Identities -> Identity]
  /\ offered \subseteq Services
  /\ activities \in [Activities -> Head]
  /\ transitions \subseteq Transition
  /\ \A s \in Sessions : tx[s] = Idle \/
       /\ tx[s].stage \in {"locking", "looked", "refused", "answered"}
       /\ tx[s].command \in Commands
       /\ tx[s].stage # "answered" =>
            DOMAIN tx[s].people \subseteq Identities /\ tx[s].found \subseteq transitions

\* s waits for a row o holds.
Awaits(s, o) ==
  /\ s # o /\ tx[s].stage = "locking" /\ ~Faulty(s)
  /\ IF WantsRoot(s) THEN Root(tx[s].command) \in RootHeld(o)
     ELSE \E i \in Held(o) : WantsPerson(s, i)

\* D waits in a circle: PostgreSQL will make one of D a victim.
Circle(D) == D # {} /\ \A s \in D :
  (\E o \in D : Awaits(s, o)) /\ (\E o \in D : Awaits(o, s))

\* Two commands on one Activity never wait in a circle, nor does one that
\* locks no Identity besides its actor's: the Activity's row is locked first.
\* And a circle always runs through the row of some command's own actor, locked
\* out of the order of keys; the rows locked in that order close none.
CirclesApart == \A D \in SUBSET Sessions : Circle(D) =>
  /\ \A s \in D :
       /\ tx[s].command.action \in {"ASSIGN", "REVIEW", "COMPLETE", "CANCEL"}
       /\ \A o \in D \ {s} : tx[s].command.activity # tx[o].command.activity
  /\ \E s, o \in D : Awaits(s, o) /\ WantsPerson(s, tx[o].command.actor)

\* Until it commits, all a command has read stays so: the Identities, the
\* Activity, and that its key has made nothing, on this Activity or another.
\* So the recovery from a lost race for the key never runs.
ReadStaysSo == \A s \in Sessions : Live(s) => LET c == tx[s].command IN
  /\ \A i \in DOMAIN tx[s].people : Read(s, i) = identities[i]
  /\ tx[s].rooted /\ c.action # "CREATE" => tx[s].sees = activities[c.activity].state
  /\ tx[s].rooted /\ c.action = "CREATE" => tx[s].offers = (c.service \in offered)
  /\ tx[s].stage = "looked" => tx[s].found = Earlier(c)

\* When a transition is recorded its actor is active under the epoch it
\* bears, and so is the assignee a first assignment proposes.
EligibleWhenRecorded == [][\A t \in transitions' \ transitions :
  /\ identities[t.command.actor] = [state |-> "active", epoch |-> t.epoch]
  /\ t.command.action = "ASSIGN" => identities[t.command.assignee].state = "active"]_vars

Past(a) == {t \in transitions : t.command.activity = a}

\* An Activity's row and its transitions are one story, whoever commanded at
\* once: the transitions number 1 to the row's sequence without a gap or a
\* double, each was permitted in the state the one before it left, and the last
\* left the row's.
HistoryIsAPath == \A a \in Activities : LET last == activities[a].sequence IN
  /\ {t.sequence : t \in Past(a)} = 1..last
  /\ \A t, u \in Past(a) : t.sequence = u.sequence => t = u
  /\ \A t \in Past(a) : t.sequence = 1 => t.command.action = "CREATE"
  /\ \A t, u \in Past(a) : u.sequence = t.sequence + 1 => t.to \in From[u.command.action]
  /\ \A t \in Past(a) : t.sequence = last => t.to = activities[a].state
  /\ last = 0 => activities[a].state = "none"

\* Under whatever keys and by whomever a command is repeated, an Activity is
\* assigned, submitted, reviewed or ended at most once, and so has one creator,
\* one assignee and one reviewer; its life has six transitions at the most.
OneOfEach ==
  /\ \A t, u \in transitions :
       t.command.activity = u.command.activity /\ t.command.action = u.command.action => t = u
  /\ \A a \in Activities : activities[a].sequence <= 6

\* Whatever has happened to the Activity since, an answer is what this very
\* command recorded.
AnswersAgree == \A s \in Sessions : tx[s].stage = "answered" =>
  \E t \in transitions : t.command = tx[s].command /\
    tx[s].answer = [to |-> t.to, sequence |-> t.sequence]

\* The command was recorded before, under the epoch its actor now has.
Repeats(s) == LET c == tx[s].command IN
  /\ c.actor \in DOMAIN tx[s].people /\ Read(s, c.actor).state = "active"
  /\ \E t \in tx[s].found : Exact(c, t, Epoch(s))

\* An exact replay is refused in one case: an ASSIGN whose assignee is no
\* longer active.
RefusedReplay == \A s \in Sessions :
  tx[s].stage = "refused" /\ Repeats(s) =>
    LET c == tx[s].command IN
    c.action = "ASSIGN" /\ c.assignee \in DOMAIN tx[s].people /\ Read(s, c.assignee).state # "active"

\* An exact replay is never refused.
ExactReplayReturns == \A s \in Sessions :
  tx[s].stage = "refused" => ~Repeats(s)
=============================================================================
