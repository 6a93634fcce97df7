--------------------------- MODULE RecordLifecycle ---------------------------
(***************************************************************************)
(* One governed record (an Event, a Service or a Library resource) and the *)
(* concurrent calls of its service.  Every command runs in one             *)
(* transaction: it takes its time of occurrence first, then the record's   *)
(* row lock, checks the state and the authority, moves the record and      *)
(* appends a transition to its lineage.  The transition names its          *)
(* predecessor: the latest by time of occurrence, then by primary key.     *)
(* The column is unique, so a transition has one successor at most.        *)
(*                                                                         *)
(* An authority's answer is the caller's affair and left open: any call    *)
(* may be refused.  Evidence references, titles and contents are left out. *)
(***************************************************************************)
EXTENDS LifecycleGraphs, Sequences, FiniteSets

CONSTANTS
  None,      \* no call
  Caller,    \* concurrent calls
  MaxClock,  \* bound on the server's clock
  Supplied,  \* times of occurrence a caller may supply; without one it is now
  MaxLog     \* bound on the transitions of the record

Request == UNION {[command : Commands(k), version : 0..MaxLog] : k \in Kinds}
Row == [state : States, version : 0..MaxLog]
Entry == [from : States, to : States, at : 0..MaxClock, previous : 0..MaxLog,
          version : 1..MaxLog]

ASSUME BoundAssumption == MaxClock \in Nat /\ MaxLog \in Nat
ASSUME SuppliedAssumption == Supplied \subseteq 0..MaxClock
ASSUME NoneAssumption == None \notin Caller \union Request \union Row

VARIABLES
  clock,    \* timezone.now()
  kind,     \* which record this is
  state,    \* the record's state
  version,  \* the number of its current version
  log,      \* its transitions, in the order of their primary keys
  links,    \* the versions associated with a resource or an Event
  lock,     \* the call whose transaction holds the record's row
  pc,       \* a call's next statement
  req,      \* its command and, for an association, the version it names
  at,       \* its time of occurrence
  seen      \* the state and version it read under the lock

vars == <<clock, kind, state, version, log, links, lock, pc, req, at, seen>>

Init ==
  /\ clock = 0
  /\ kind \in Kinds
  /\ state = Absent /\ version = 0 /\ log = <<>> /\ links = {}
  /\ lock = None
  /\ pc = [c \in Caller |-> "idle"]
  /\ req = [c \in Caller |-> None]
  /\ at = [c \in Caller |-> 0]
  /\ seen = [c \in Caller |-> None]

-----------------------------------------------------------------------------
\* The transition the next one names as its predecessor.
IsLatest(entries, i) == \A j \in DOMAIN entries :
  entries[j].at < entries[i].at \/ (entries[j].at = entries[i].at /\ j <= i)

\* Mutant: previous_transition is a plain foreign key.
Succeeded_Never(entries, i) == FALSE

Succeeded(entries, i) == \E j \in DOMAIN entries : entries[j].previous = i

\* A service's method is called; it takes the supplied time, or the clock's,
\* before anything else, and compares it with nothing.
Call(c, command, v, time) ==
  /\ pc[c] = "idle"
  /\ pc' = [pc EXCEPT ![c] = "called"]
  /\ req' = [req EXCEPT ![c] = [command |-> command, version |-> v]]
  /\ at' = [at EXCEPT ![c] = time]
  /\ UNCHANGED <<clock, kind, state, version, log, links, lock, seen>>

Release(c) == IF lock = c THEN None ELSE lock

\* A call ends: its transaction, if it had one, with it.
End(c) ==
  /\ pc' = [pc EXCEPT ![c] = "idle"]
  /\ req' = [req EXCEPT ![c] = None]
  /\ at' = [at EXCEPT ![c] = 0]
  /\ seen' = [seen EXCEPT ![c] = None]
  /\ lock' = Release(c)
  /\ UNCHANGED <<clock, kind>>

\* The call ends without a trace: the record is missing, the identifier is
\* taken, the command is not allowed from the state, the authority refuses,
\* the lineage refuses the predecessor, or the transaction is lost.
Refuse(c) ==
  /\ pc[c] \in {"called", "locked"}
  /\ End(c)
  /\ UNCHANGED <<state, version, log, links>>

\* Mutant: the record is read without FOR UPDATE.
Free_Unlocked == TRUE

Free == lock = None

Lock(c) ==
  /\ pc[c] = "called"
  /\ state # Absent
  /\ Free
  /\ lock' = c
  /\ pc' = [pc EXCEPT ![c] = "locked"]
  /\ seen' = [seen EXCEPT ![c] = [state |-> state, version |-> version]]
  /\ UNCHANGED <<clock, kind, state, version, log, links, req, at>>

\* The transition is appended and the call committed.
Write(c, m, from, base, previous) ==
  /\ Len(log) < MaxLog
  /\ m.command = req[c].command
  /\ m.from = from
  /\ state' = m.to
  /\ version' = base + m.versions
  /\ log' = Append(log, [from |-> from, to |-> m.to, at |-> at[c],
                         previous |-> previous, version |-> base + m.versions])
  /\ End(c)
  /\ UNCHANGED links

\* create_event, create_service, create_resource: the identifier is unique.
Create(c, m) ==
  /\ pc[c] = "called"
  /\ state = Absent
  /\ Write(c, m, Absent, 0, 0)

Move(c, m) ==
  /\ pc[c] = "locked"
  /\ m.from # Absent
  /\ \E i \in DOMAIN log : /\ IsLatest(log, i)
                           /\ ~Succeeded(log, i)
                           /\ Write(c, m, seen[c].state, seen[c].version, i)

\* An association needs the current version of a published Service.
Associate(c) ==
  /\ pc[c] = "locked"
  /\ req[c].command \in Associations(kind)
  /\ seen[c] = [state |-> "published", version |-> req[c].version]
  /\ links' = links \union {req[c].version}
  /\ End(c)
  /\ UNCHANGED <<state, version, log>>

Tick ==
  /\ clock < MaxClock
  /\ clock' = clock + 1
  /\ UNCHANGED <<kind, state, version, log, links, lock, pc, req, at, seen>>

Next ==
  \/ \E c \in Caller :
       \/ \E time \in Supplied \union {clock} :
            \/ \E m \in Moves(kind) : Call(c, m.command, 0, time)
            \/ \E a \in Associations(kind), v \in 1..version : Call(c, a, v, time)
       \/ Refuse(c)
       \/ Lock(c)
       \/ \E m \in Moves(kind) : Create(c, m) \/ Move(c, m)
       \/ Associate(c)
  \/ Tick

Spec == Init /\ [][Next]_vars

-----------------------------------------------------------------------------
\* Types; the record's row is locked by the call that works under it.
TypeOK ==
  /\ clock \in 0..MaxClock
  /\ kind \in Kinds /\ state \in States /\ version \in 0..MaxLog
  /\ log \in Seq(Entry) /\ Len(log) <= MaxLog
  /\ links \subseteq 1..MaxLog
  /\ lock \in Caller \union {None}
  /\ pc \in [Caller -> {"idle", "called", "locked"}]
  /\ req \in [Caller -> Request \union {None}]
  /\ at \in [Caller -> 0..MaxClock]
  /\ seen \in [Caller -> Row \union {None}]
  /\ \A c \in Caller : /\ req[c] = None <=> pc[c] = "idle"
                       /\ seen[c] = None <=> pc[c] # "locked"
                       /\ pc[c] = "locked" <=> lock = c

\* The lineage is the record's history: whatever the times of occurrence, each
\* transition follows the one committed before it, starts where that one
\* ended, and the last one says what the record's row says.
LineageIsHistory ==
  /\ log = <<>> <=> state = Absent
  /\ \A i \in DOMAIN log : /\ log[i].previous = i - 1
                           /\ i > 1 => log[i].from = log[i - 1].to
  /\ log # <<>> => log[Len(log)].to = state /\ log[Len(log)].version = version

InOrder == \A i, j \in DOMAIN log : i < j => log[i].at <= log[j].at

\* The next transition has a predecessor to name.  The services' docstrings
\* state no other condition for the one allowed command of a state
\* (event_service.py:199) than the state and the authority.
LineageOpen == \A i \in DOMAIN log : IsLatest(log, i) => ~Succeeded(log, i)

\* As long as transitions were committed in the order of their times of
\* occurrence, equal times included, the lineage can be continued.
OpenInOrder == InOrder => LineageOpen

\* The lineage can be continued exactly when no transition occurred after the
\* one committed last: a single command whose time of occurrence was supplied,
\* or read, ahead of the next one's closes it.
OpenIffLastIsLatest ==
  LineageOpen <=> \A i \in DOMAIN log : log[i].at <= log[Len(log)].at

\* A record whose lineage is closed never moves again: whatever is called, and
\* at whatever time, _record_transition has no predecessor it may name.
ClosedForGood == [][~LineageOpen => UNCHANGED <<state, version, log>>]_vars

\* A version that a resource or an Event is associated with was published: the
\* check made under the row lock is about the version the association names.
LinksWerePublished == \A v \in links :
  \E i \in DOMAIN log : log[i].to = "published" /\ log[i].version = v

\* The services keep the promise of LifecyclePromise.
Promise == INSTANCE LifecyclePromise
PromiseKept == Promise!Spec
=============================================================================
