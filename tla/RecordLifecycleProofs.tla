------------------------ MODULE RecordLifecycleProofs ------------------------
(***************************************************************************)
(* Proofs about RecordLifecycle, for any number of calls and any bounds.   *)
(*                                                                         *)
(* The inductive invariant adds to the types and to LineageIsHistory that  *)
(* what a call read under the row lock is still what the row says, and     *)
(* that a record has at most as many versions as transitions.              *)
(***************************************************************************)
EXTENDS RecordLifecycle, SequenceTheorems, TLAPS

\* What a call read under the lock stays true until it lets go of it.
SeenIsRow == \A c \in Caller : pc[c] = "locked" =>
  state # Absent /\ seen[c] = [state |-> state, version |-> version]

VersionBound == version <= Len(log)

Inv == TypeOK /\ LineageIsHistory /\ SeenIsRow /\ VersionBound

LEMMA MoveTypes ==
  ASSUME NEW k \in Kinds, NEW m \in Moves(k)
  PROVE  /\ m.from \in States /\ m.to \in States /\ m.to # Absent
         /\ m.versions \in {0, 1}
         /\ m.from = Absent => m.versions = 1
         /\ m.command \in Commands(k)
<1>1. CASE k = "event"
  BY <1>1 DEF Moves, EventMoves, Step, States, Absent, Commands
<1>2. CASE k = "service"
  BY <1>2 DEF Moves, ServiceMoves, Step, States, Absent, Commands
<1>3. CASE k = "library"
  BY <1>3 DEF Moves, LibraryMoves, Step, States, Absent, Commands
<1>4. QED
  BY <1>1, <1>2, <1>3 DEF Kinds

\* A transition without a successor is the last one of a history.
LEMMA OpenIsLast ==
  ASSUME Inv, log # <<>>, NEW i \in DOMAIN log, ~Succeeded(log, i)
  PROVE  i = Len(log)
<1>1. Len(log) \in Nat /\ DOMAIN log = 1..Len(log)
  BY DEF Inv, TypeOK
<1>2. SUFFICES ASSUME i < Len(log) PROVE FALSE
  BY <1>1
<1>3. i + 1 \in DOMAIN log /\ log[i + 1].previous = i
  BY <1>1, <1>2 DEF Inv, LineageIsHistory
<1>4. QED
  BY <1>3 DEF Succeeded

LEMMA Initially == Init => Inv
<1> SUFFICES ASSUME Init PROVE Inv
  OBVIOUS
<1>1. TypeOK
  BY BoundAssumption, NoneAssumption DEF Init, TypeOK, States, Absent
<1>2. LineageIsHistory
  BY DEF Init, LineageIsHistory
<1>3. SeenIsRow /\ VersionBound
  BY DEF Init, SeenIsRow, VersionBound
<1>4. QED
  BY <1>1, <1>2, <1>3 DEF Inv

\* A call that ends leaves the others as they are and frees its lock.
LEMMA Ends ==
  ASSUME Inv, NEW c \in Caller, End(c)
  PROVE  /\ clock' \in 0..MaxClock /\ kind' \in Kinds
         /\ lock' \in Caller \union {None}
         /\ pc' \in [Caller -> {"idle", "called", "locked"}]
         /\ req' \in [Caller -> Request \union {None}]
         /\ at' \in [Caller -> 0..MaxClock]
         /\ seen' \in [Caller -> Row \union {None}]
         /\ \A d \in Caller : /\ req'[d] = None <=> pc'[d] = "idle"
                              /\ seen'[d] = None <=> pc'[d] # "locked"
                              /\ pc'[d] = "locked" <=> lock' = d
         /\ \A d \in Caller : pc'[d] = "locked" => d # c /\ pc[d] = "locked" /\ lock = d
                                                  /\ seen'[d] = seen[d]
BY BoundAssumption, NoneAssumption DEF Inv, TypeOK, End, Release

\* The step that appends a transition, its predecessor being the last one.
LEMMA Writes ==
  ASSUME Inv, NEW c \in Caller, NEW m \in Moves(kind),
         Write(c, m, state, version, Len(log)),
         lock \in {None, c},
         state = Absent => m.from = Absent /\ version = 0,
         at[c] \in 0..MaxClock
  PROVE  Inv'
<1> DEFINE entry == [from |-> m.from, to |-> m.to, at |-> at[c],
                     previous |-> Len(log), version |-> version + m.versions]
<1>1. /\ m.from \in States /\ m.to \in States /\ m.to # Absent
      /\ m.versions \in {0, 1} /\ (m.from = Absent => m.versions = 1)
  BY MoveTypes DEF Inv, TypeOK
<1>2. /\ log \in Seq(Entry) /\ Len(log) \in Nat /\ Len(log) < MaxLog
      /\ version \in Nat /\ version <= Len(log) /\ m.from = state
      /\ MaxLog \in Nat /\ DOMAIN log = 1..Len(log)
  BY BoundAssumption DEF Inv, TypeOK, VersionBound, Write
<1>3. state # Absent => version >= 1
  <2> SUFFICES ASSUME state # Absent PROVE version >= 1
    OBVIOUS
  <2>1. log # <<>> /\ log[Len(log)].version = version
    BY DEF Inv, LineageIsHistory
  <2>2. Len(log) \in DOMAIN log
    BY <1>2, <2>1
  <2>3. log[Len(log)] \in Entry
    BY <1>2, <2>2
  <2>4. QED
    BY <1>2, <2>1, <2>3 DEF Entry
<1>4. version + m.versions \in 1..MaxLog /\ version + m.versions <= Len(log) + 1
  BY <1>1, <1>2, <1>3
<1>5. entry \in Entry
  BY <1>1, <1>2, <1>4 DEF Entry
<1>6. /\ log' = Append(log, entry) /\ state' = m.to /\ version' = version + m.versions
      /\ End(c) /\ links' = links
  BY DEF Write
<1> HIDE DEF entry
<1>7. /\ log' \in Seq(Entry) /\ Len(log') = Len(log) + 1
      /\ DOMAIN log' = 1..(Len(log) + 1)
      /\ log'[Len(log) + 1] = entry
      /\ \A i \in DOMAIN log : log'[i] = log[i]
  BY <1>2, <1>5, <1>6
<1>8. TypeOK'
  BY <1>1, <1>2, <1>4, <1>6, <1>7, Ends DEF Inv, TypeOK
<1>9. LineageIsHistory'
  <2>1. entry.previous = Len(log) /\ entry.from = state /\ entry.to = m.to
        /\ entry.version = version + m.versions
    BY <1>2 DEF entry
  <2>2. log' # <<>> /\ state' # Absent
    BY <1>1, <1>2, <1>6, <1>7
  <2>3. ASSUME NEW i \in DOMAIN log'
        PROVE  /\ log'[i].previous = i - 1
               /\ i > 1 => log'[i].from = log'[i - 1].to
    <3>1. CASE i \in DOMAIN log
      <4>1. /\ log[i].previous = i - 1 /\ log'[i] = log[i]
            /\ i > 1 => log[i].from = log[i - 1].to /\ log'[i - 1] = log[i - 1]
        BY <3>1, <1>2, <1>7 DEF Inv, LineageIsHistory
      <4>2. QED
        BY <4>1
    <3>2. CASE i = Len(log) + 1
      <4>1. log'[i] = entry /\ log'[i].previous = i - 1
        BY <3>2, <1>2, <1>7, <2>1
      <4>2. i > 1 => log # <<>> /\ log'[i - 1] = log[Len(log)]
        BY <3>2, <1>2, <1>7
      <4>3. i > 1 => log[Len(log)].to = state
        BY <4>2 DEF Inv, LineageIsHistory
      <4>4. QED
        BY <2>1, <4>1, <4>2, <4>3
    <3>3. QED
      BY <2>3, <3>1, <3>2, <1>2, <1>7
  <2>4. log'[Len(log')].to = state' /\ log'[Len(log')].version = version'
    BY <1>6, <1>7, <2>1
  <2>5. QED
    BY <2>2, <2>3, <2>4 DEF LineageIsHistory
<1>10. SeenIsRow'
  BY <1>6, Ends, NoneAssumption DEF SeenIsRow
<1>11. VersionBound'
  BY <1>2, <1>4, <1>6, <1>7 DEF VersionBound
<1>12. QED
  BY <1>8, <1>9, <1>10, <1>11 DEF Inv

LEMMA Calls ==
  ASSUME Inv, NEW c \in Caller, NEW command \in Commands(kind),
         NEW v \in 0..MaxLog, NEW time \in 0..MaxClock, Call(c, command, v, time)
  PROVE  Inv'
<1> DEFINE r == [command |-> command, version |-> v]
<1>1. r \in Request /\ r # None
  BY NoneAssumption DEF Inv, TypeOK, Request
<1>2. req' = [req EXCEPT ![c] = r]
  BY DEF Call
<1> HIDE DEF r
<1>3. TypeOK'
  BY <1>1, <1>2 DEF Inv, TypeOK, Call
<1>4. LineageIsHistory' /\ VersionBound'
  BY DEF Inv, LineageIsHistory, VersionBound, Call
<1>5. SeenIsRow'
  BY DEF Inv, TypeOK, SeenIsRow, Call
<1>6. QED
  BY <1>3, <1>4, <1>5 DEF Inv

LEMMA Locks ==
  ASSUME Inv, NEW c \in Caller, Lock(c)
  PROVE  Inv'
<1> DEFINE r == [state |-> state, version |-> version]
<1>1. r \in Row /\ r # None
  BY NoneAssumption DEF Inv, TypeOK, Row
<1>2. seen' = [seen EXCEPT ![c] = r]
  BY DEF Lock
<1>3. \A d \in Caller : pc[d] # "locked"
  BY NoneAssumption DEF Inv, TypeOK, Lock, Free
<1>4. SeenIsRow'
  BY <1>2, <1>3 DEF Inv, TypeOK, SeenIsRow, Lock
<1> HIDE DEF r
<1>5. TypeOK'
  BY <1>1, <1>2, <1>3, NoneAssumption DEF Inv, TypeOK, Lock
<1>6. LineageIsHistory' /\ VersionBound'
  BY DEF Inv, LineageIsHistory, VersionBound, Lock
<1>7. QED
  BY <1>4, <1>5, <1>6 DEF Inv

\* A call that ends without touching lineage and row.
LEMMA Leaves ==
  ASSUME Inv, NEW c \in Caller, End(c), UNCHANGED <<state, version, log>>,
         links' \subseteq 1..MaxLog
  PROVE  Inv'
<1>1. TypeOK'
  BY Ends DEF Inv, TypeOK
<1>2. LineageIsHistory' /\ VersionBound'
  BY DEF Inv, LineageIsHistory, VersionBound
<1>3. SeenIsRow'
  BY Ends DEF Inv, SeenIsRow
<1>4. QED
  BY <1>1, <1>2, <1>3 DEF Inv

\* The current version of an existing record is a positive number.
LEMMA VersionPositive ==
  ASSUME Inv, state # Absent
  PROVE  version \in 1..MaxLog
<1>1. log # <<>> /\ log[Len(log)].version = version
  BY DEF Inv, LineageIsHistory
<1>2. Len(log) \in DOMAIN log /\ log \in Seq(Entry)
  BY <1>1 DEF Inv, TypeOK
<1>3. log[Len(log)] \in Entry
  BY <1>2
<1>4. QED
  BY <1>1, <1>3 DEF Entry

LEMMA Associates ==
  ASSUME Inv, NEW c \in Caller, Associate(c)
  PROVE  Inv' /\ Promise!Associate
<1>1. seen[c] = [state |-> state, version |-> version]
  BY DEF Inv, SeenIsRow, Associate
<1>2. state = "published" /\ req[c].version = version
  BY <1>1 DEF Associate
<1>3. version \in 1..MaxLog
  BY <1>2, VersionPositive DEF Absent
<1>4. End(c) /\ UNCHANGED <<state, version, log>> /\ links' \subseteq 1..MaxLog
  BY <1>2, <1>3 DEF Inv, TypeOK, Associate
<1>5. Inv'
  BY <1>4, Leaves
<1>6. Promise!Associate
  BY <1>2 DEF Promise!Associate, Promise!Associations, Associations, Associate, End
<1>7. QED
  BY <1>5, <1>6

\* Whatever a call writes moves the row and appends to the lineage's end.
LEMMA Moving ==
  ASSUME Inv, NEW c \in Caller, NEW m \in Moves(kind), Create(c, m) \/ Move(c, m)
  PROVE  /\ Write(c, m, state, version, Len(log))
         /\ lock \in {None, c}
         /\ state = Absent => m.from = Absent /\ version = 0
         /\ at[c] \in 0..MaxClock
<1>1. CASE Create(c, m)
  <2>1. state = Absent /\ log = <<>> /\ Len(log) = 0 /\ version = 0
    BY <1>1 DEF Create, Inv, TypeOK, LineageIsHistory, VersionBound
  <2>2. Write(c, m, state, version, Len(log))
    BY <1>1, <2>1 DEF Create
  <2>3. lock = None
    BY <2>1, NoneAssumption DEF Inv, TypeOK, SeenIsRow
  <2>4. QED
    BY <2>1, <2>2, <2>3 DEF Inv, TypeOK, Write
<1>2. CASE Move(c, m)
  <2>1. /\ seen[c] = [state |-> state, version |-> version]
        /\ lock = c /\ state # Absent
    BY <1>2 DEF Inv, TypeOK, SeenIsRow, Move
  <2>2. log # <<>>
    BY <2>1 DEF Inv, LineageIsHistory
  <2>3. PICK i \in DOMAIN log :
          ~Succeeded(log, i) /\ Write(c, m, seen[c].state, seen[c].version, i)
    BY <1>2 DEF Move
  <2>4. i = Len(log)
    BY <2>2, <2>3, OpenIsLast
  <2>5. QED
    BY <2>1, <2>3, <2>4 DEF Inv, TypeOK
<1>3. QED
  BY <1>1, <1>2

\* Every step keeps the invariant.
LEMMA Preserved == Inv /\ [Next]_vars => Inv'
<1> SUFFICES ASSUME Inv, [Next]_vars PROVE Inv'
  OBVIOUS
<1>1. ASSUME NEW c \in Caller, NEW m \in Moves(kind),
             NEW time \in Supplied \union {clock}, Call(c, m.command, 0, time)
      PROVE  Inv'
  <2>1. m.command \in Commands(kind) /\ 0 \in 0..MaxLog
    BY MoveTypes, BoundAssumption DEF Inv, TypeOK
  <2>2. time \in 0..MaxClock
    BY SuppliedAssumption DEF Inv, TypeOK
  <2>3. QED
    BY <1>1, <2>1, <2>2, Calls
<1>2. ASSUME NEW c \in Caller, NEW a \in Associations(kind), NEW v \in 1..version,
             NEW time \in Supplied \union {clock}, Call(c, a, v, time)
      PROVE  Inv'
  <2>1. a \in Commands(kind) /\ v \in 0..MaxLog
    BY BoundAssumption DEF Commands, Inv, TypeOK
  <2>2. time \in 0..MaxClock
    BY SuppliedAssumption DEF Inv, TypeOK
  <2>3. QED
    BY <1>2, <2>1, <2>2, Calls
<1>3. ASSUME NEW c \in Caller, Refuse(c) PROVE Inv'
  BY <1>3, Leaves DEF Refuse, Inv, TypeOK
<1>4. ASSUME NEW c \in Caller, Lock(c) PROVE Inv'
  BY <1>4, Locks
<1>5. ASSUME NEW c \in Caller, NEW m \in Moves(kind), Create(c, m) \/ Move(c, m)
      PROVE  Inv'
  BY <1>5, Moving, Writes
<1>6. ASSUME NEW c \in Caller, Associate(c) PROVE Inv'
  BY <1>6, Associates
<1>7. CASE Tick
  BY <1>7, BoundAssumption
     DEF Tick, Inv, TypeOK, LineageIsHistory, SeenIsRow, VersionBound
<1>8. CASE UNCHANGED vars
  BY <1>8 DEF vars, Inv, TypeOK, LineageIsHistory, SeenIsRow, VersionBound
<1>9. QED
  BY <1>1, <1>2, <1>3, <1>4, <1>5, <1>6, <1>7, <1>8 DEF Next

\* The inductive invariant of every execution.
THEOREM Invariance == Spec => []Inv
<1>1. Init => Inv
  BY Initially
<1>2. Inv /\ [Next]_vars => Inv'
  BY Preserved
<1>3. QED
  BY <1>1, <1>2, PTL DEF Spec

\* The rows, the calls and the row lock have their types, and only the call
\* that holds the row lock is past it.
THEOREM TypeCorrect == Spec => []TypeOK
<1>1. Inv => TypeOK
  BY DEF Inv
<1>2. QED
  BY <1>1, Invariance, PTL

\* The lineage _record_transition writes is the row's history, also when times
\* of occurrence were read in another order than the row was locked.
THEOREM LineageFaithful == Spec => []LineageIsHistory
<1>1. Inv => LineageIsHistory
  BY DEF Inv
<1>2. QED
  BY <1>1, Invariance, PTL

\* With times of occurrence in order, the latest transition is the last one,
\* and the last one has no successor.
LEMMA OrderOpens == Inv => OpenInOrder
<1> SUFFICES ASSUME Inv, InOrder, NEW i \in DOMAIN log, IsLatest(log, i)
             PROVE  ~Succeeded(log, i)
  BY DEF OpenInOrder, LineageOpen
<1>1. /\ DOMAIN log = 1..Len(log) /\ Len(log) \in Nat
      /\ \A j \in DOMAIN log : log[j].at \in Nat
  <2>1. DOMAIN log = 1..Len(log) /\ Len(log) \in Nat
    BY DEF Inv, TypeOK
  <2>2. ASSUME NEW j \in DOMAIN log PROVE log[j].at \in Nat
    <3>1. log[j] \in Entry
      BY DEF Inv, TypeOK
    <3>2. QED
      BY <3>1, BoundAssumption DEF Entry
  <2>3. QED
    BY <2>1, <2>2
<1>2. i = Len(log)
  <2>1. SUFFICES ASSUME i < Len(log) PROVE FALSE
    BY <1>1
  <2>2. Len(log) \in DOMAIN log /\ log[i].at <= log[Len(log)].at
    BY <1>1, <2>1 DEF InOrder
  <2>3. log[Len(log)].at < log[i].at
        \/ (log[Len(log)].at = log[i].at /\ Len(log) <= i)
    BY <2>2 DEF IsLatest
  <2>4. QED
    BY <1>1, <2>1, <2>2, <2>3
<1>3. SUFFICES ASSUME NEW j \in DOMAIN log, log[j].previous = i PROVE FALSE
  BY DEF Succeeded
<1>4. log[j].previous = j - 1
  BY DEF Inv, LineageIsHistory
<1>5. QED
  BY <1>1, <1>2, <1>3, <1>4

\* Commands committed in the order of their times never block the record.
THEOREM ContinuesInOrder == Spec => []OpenInOrder
BY OrderOpens, Invariance, PTL

\* Every step of the services is a step the lifecycle allows, or none.
LEMMA StepsKeepPromise ==
  ASSUME Inv, [Next]_vars
  PROVE  [Promise!Next]_<<kind, state, version, links>>
<1>1. ASSUME NEW c \in Caller, NEW m \in Moves(kind), Create(c, m) \/ Move(c, m)
      PROVE  Promise!Next
  <2>1. Write(c, m, state, version, Len(log))
    BY <1>1, Moving
  <2>2. Promise!Move(m)
    BY <2>1 DEF Promise!Move, Write, End
  <2>3. m \in Promise!Moves(kind)
    BY DEF Moves, EventMoves, ServiceMoves, LibraryMoves, Step, Promise!Moves,
           Promise!EventMoves, Promise!ServiceMoves, Promise!LibraryMoves,
           Promise!Step, Absent, Promise!Absent
  <2>4. QED
    BY <2>2, <2>3 DEF Promise!Next
<1>2. ASSUME NEW c \in Caller, Associate(c) PROVE Promise!Next
  BY <1>2, Associates DEF Promise!Next
<1>3. ASSUME NEW c \in Caller,
             \/ \E time \in Supplied \union {clock} :
                  \/ \E m \in Moves(kind) : Call(c, m.command, 0, time)
                  \/ \E a \in Associations(kind), v \in 1..version : Call(c, a, v, time)
             \/ Refuse(c)
             \/ Lock(c)
      PROVE  UNCHANGED <<kind, state, version, links>>
  BY <1>3 DEF Call, Refuse, Lock, End
<1>4. CASE Tick
  BY <1>4 DEF Tick
<1>5. CASE UNCHANGED vars
  BY <1>5 DEF vars
<1>6. QED
  BY <1>1, <1>2, <1>3, <1>4, <1>5 DEF Next

\* The three services implement LifecyclePromise: allowed commands only, no gap
\* in the version numbers, associations of current published versions only.
THEOREM RecordKeepsPromise == Spec => PromiseKept
<1>1. Init => Promise!Init
  BY DEF Init, Promise!Init, Kinds, Promise!Kinds, Absent, Promise!Absent
<1>2. Inv /\ [Next]_vars => [Promise!Next]_<<kind, state, version, links>>
  BY StepsKeepPromise
<1>3. QED
  BY <1>1, <1>2, Invariance, PTL DEF Spec, PromiseKept, Promise!Spec

-----------------------------------------------------------------------------
\* How the lineage closes, and that it stays closed.

\* Every step leaves row and lineage alone, or is a call's one write.
LEMMA WritesOnly ==
  ASSUME Inv, [Next]_vars
  PROVE  \/ UNCHANGED <<state, version, log>>
         \/ \E c \in Caller, m \in Moves(kind) : Create(c, m) \/ Move(c, m)
<1>1. ASSUME NEW c \in Caller,
             \/ \E time \in Supplied \union {clock} :
                  \/ \E m \in Moves(kind) : Call(c, m.command, 0, time)
                  \/ \E a \in Associations(kind), v \in 1..version : Call(c, a, v, time)
             \/ Refuse(c) \/ Lock(c) \/ Associate(c)
      PROVE  UNCHANGED <<state, version, log>>
  BY <1>1 DEF Call, Refuse, Lock, Associate
<1>2. Tick \/ UNCHANGED vars => UNCHANGED <<state, version, log>>
  BY DEF Tick, vars
<1>3. QED
  BY <1>1, <1>2 DEF Next

\* The transitions have numbers, and their times are numbers.
LEMMA TimesAreNumbers ==
  ASSUME Inv
  PROVE  /\ DOMAIN log = 1..Len(log) /\ Len(log) \in Nat /\ log \in Seq(Entry)
         /\ \A i \in DOMAIN log : log[i].at \in Nat
<1>1. DOMAIN log = 1..Len(log) /\ Len(log) \in Nat /\ log \in Seq(Entry)
  BY DEF Inv, TypeOK
<1>2. ASSUME NEW i \in DOMAIN log PROVE log[i].at \in Nat
  <2>1. log[i] \in Entry
    BY <1>1
  <2>2. QED
    BY <2>1, BoundAssumption DEF Entry
<1>3. QED
  BY <1>1, <1>2

\* What a write appends: the lineage grows by an entry with a number for its
\* time, the entry naming the row's new state and version.
LEMMA Appended ==
  ASSUME Inv, NEW c \in Caller, NEW m \in Moves(kind), Create(c, m) \/ Move(c, m)
  PROVE  \E e \in Entry :
           /\ log' = Append(log, e) /\ Len(log') = Len(log) + 1
           /\ DOMAIN log' = 1..(Len(log) + 1) /\ log'[Len(log) + 1] = e
           /\ \A i \in DOMAIN log : i \in DOMAIN log' /\ log'[i] = log[i]
           /\ e.at \in Nat /\ links' = links
<1>1. Inv' /\ Write(c, m, state, version, Len(log))
  BY Moving, Writes
<1> DEFINE e == [from |-> state, to |-> m.to, at |-> at[c],
                 previous |-> Len(log), version |-> version + m.versions]
<1>2. log' = Append(log, e) /\ links' = links
  BY <1>1 DEF Write
<1> HIDE DEF e
<1>3. /\ Len(log') = Len(log) + 1 /\ DOMAIN log' = 1..(Len(log) + 1)
      /\ log'[Len(log) + 1] = e
      /\ \A i \in DOMAIN log : i \in DOMAIN log' /\ log'[i] = log[i]
  BY <1>2, TimesAreNumbers
<1>4. log' \in Seq(Entry) /\ Len(log) + 1 \in DOMAIN log'
  BY <1>1, <1>3, TimesAreNumbers DEF Inv, TypeOK
<1>5. e \in Entry
  BY <1>3, <1>4
<1>6. e.at \in Nat
  BY <1>5, BoundAssumption DEF Entry
<1>7. QED
  BY <1>2, <1>3, <1>5, <1>6

\* A lineage that exists has a latest transition.
LatestThere == log # <<>> => \E i \in DOMAIN log : IsLatest(log, i)

LEMMA LatestStays == Inv /\ LatestThere /\ [Next]_vars => LatestThere'
<1> SUFFICES ASSUME Inv, LatestThere, [Next]_vars PROVE LatestThere'
  OBVIOUS
<1>1. CASE UNCHANGED <<state, version, log>>
  BY <1>1 DEF LatestThere, IsLatest
<1>2. ASSUME NEW c \in Caller, NEW m \in Moves(kind), Create(c, m) \/ Move(c, m)
      PROVE  LatestThere'
  <2>1. PICK e \in Entry :
           /\ log' = Append(log, e) /\ Len(log') = Len(log) + 1
           /\ DOMAIN log' = 1..(Len(log) + 1) /\ log'[Len(log) + 1] = e
           /\ \A i \in DOMAIN log : i \in DOMAIN log' /\ log'[i] = log[i]
           /\ e.at \in Nat
    BY <1>2, Appended
  <2>2. \A j \in DOMAIN log' : j \in DOMAIN log \/ j = Len(log) + 1
    BY <2>1, TimesAreNumbers
  <2>3. CASE log = <<>>
    <3>1. DOMAIN log' = {1} /\ log'[1].at \in Nat
      BY <2>1, <2>3
    <3>2. IsLatest(log', 1)
      BY <3>1 DEF IsLatest
    <3>3. QED
      BY <3>1, <3>2 DEF LatestThere
  <2>4. CASE log # <<>>
    <3>1. PICK i \in DOMAIN log : IsLatest(log, i)
      BY <2>4 DEF LatestThere
    <3>2. CASE e.at < log[i].at
      <4>1. IsLatest(log', i)
        BY <2>1, <2>2, <3>1, <3>2, TimesAreNumbers DEF IsLatest
      <4>2. QED
        BY <2>1, <3>1, <4>1 DEF LatestThere
    <3>3. CASE log[i].at <= e.at
      <4>1. ASSUME NEW j \in DOMAIN log PROVE log[j].at <= e.at
        BY <2>1, <3>1, <3>3, TimesAreNumbers DEF IsLatest
      <4>2. IsLatest(log', Len(log) + 1)
        BY <2>1, <2>2, <4>1, TimesAreNumbers DEF IsLatest
      <4>3. Len(log) + 1 \in DOMAIN log'
        BY <2>1, TimesAreNumbers
      <4>4. QED
        BY <4>2, <4>3 DEF LatestThere
    <3>4. QED
      BY <2>1, <3>2, <3>3, TimesAreNumbers
  <2>5. QED
    BY <2>3, <2>4
<1>3. QED
  BY <1>1, <1>2, WritesOnly

\* In a history every transition but the last has a successor.
LEMMA OthersSucceeded ==
  ASSUME Inv, NEW i \in DOMAIN log
  PROVE  Succeeded(log, i) <=> i < Len(log)
<1>1. DOMAIN log = 1..Len(log) /\ Len(log) \in Nat
  BY TimesAreNumbers
<1>2. \A j \in DOMAIN log : log[j].previous = j - 1
  BY DEF Inv, LineageIsHistory
<1>3. ASSUME i < Len(log) PROVE i + 1 \in DOMAIN log /\ (i + 1) - 1 = i
  BY <1>1, <1>3
<1>4. QED
  BY <1>1, <1>2, <1>3 DEF Succeeded

LEMMA OpenMeansLast == Inv /\ LatestThere => OpenIffLastIsLatest
<1> SUFFICES ASSUME Inv, LatestThere PROVE OpenIffLastIsLatest
  OBVIOUS
<1>1. ASSUME LineageOpen, NEW i \in DOMAIN log
      PROVE  log[i].at <= log[Len(log)].at
  <2>1. PICK k \in DOMAIN log : IsLatest(log, k)
    BY <1>1, TimesAreNumbers DEF LatestThere
  <2>2. k = Len(log)
    BY <1>1, <2>1, OthersSucceeded, TimesAreNumbers DEF LineageOpen
  <2>3. QED
    BY <2>1, <2>2, TimesAreNumbers DEF IsLatest
<1>2. ASSUME \A i \in DOMAIN log : log[i].at <= log[Len(log)].at,
             NEW i \in DOMAIN log, IsLatest(log, i)
      PROVE  ~Succeeded(log, i)
  <2>1. Len(log) \in DOMAIN log
    BY TimesAreNumbers
  <2>2. i = Len(log)
    BY <1>2, <2>1, TimesAreNumbers DEF IsLatest
  <2>3. QED
    BY <2>2, OthersSucceeded, TimesAreNumbers
<1>3. QED
  BY <1>1, <1>2 DEF OpenIffLastIsLatest, LineageOpen

\* The services can record another transition exactly when none occurred after
\* the one committed last.
THEOREM OpenExactly == Spec => []OpenIffLastIsLatest
<1>1. Init => LatestThere
  BY DEF Init, LatestThere
<1>2. Inv /\ LatestThere /\ [Next]_vars => LatestThere'
  BY LatestStays
<1>3. Inv /\ LatestThere => OpenIffLastIsLatest
  BY OpenMeansLast
<1>4. QED
  BY <1>1, <1>2, <1>3, Invariance, PTL DEF Spec

\* A closed lineage has a latest transition with a successor; it is the one
\* latest transition, and a write needs a latest one without.
LEMMA ClosedStays ==
  Inv /\ [Next]_vars => (~LineageOpen => UNCHANGED <<state, version, log>>)
<1> SUFFICES ASSUME Inv, ~LineageOpen,
                    NEW c \in Caller, NEW m \in Moves(kind),
                    Create(c, m) \/ Move(c, m)
             PROVE  FALSE
  BY WritesOnly
<1>1. PICK i \in DOMAIN log : IsLatest(log, i) /\ Succeeded(log, i)
  BY DEF LineageOpen
<1>2. CASE Create(c, m)
  BY <1>1, <1>2 DEF Create, Inv, LineageIsHistory
<1>3. CASE Move(c, m)
  <2>1. PICK k \in DOMAIN log : IsLatest(log, k) /\ ~Succeeded(log, k)
    BY <1>3 DEF Move
  <2>2. k = i
    BY <1>1, <2>1, TimesAreNumbers DEF IsLatest
  <2>3. QED
    BY <1>1, <2>1, <2>2
<1>4. QED
  BY <1>2, <1>3

\* Once a transition was committed behind a later time, the record is stuck: no
\* call moves it, changes its version or adds to its lineage ever again.
THEOREM StuckForGood == Spec => ClosedForGood
<1>1. Inv /\ [Next]_vars => [~LineageOpen => UNCHANGED <<state, version, log>>]_vars
  BY ClosedStays
<1>2. QED
  BY <1>1, Invariance, PTL DEF Spec, ClosedForGood

-----------------------------------------------------------------------------
\* The last transition into a published state is about the version linked.
LEMMA LinksStay == Inv /\ LinksWerePublished /\ [Next]_vars => LinksWerePublished'
<1> SUFFICES ASSUME Inv, LinksWerePublished, [Next]_vars, NEW v \in links'
             PROVE  \E i \in DOMAIN log' : /\ log'[i].to = "published"
                                           /\ log'[i].version = v
  BY DEF LinksWerePublished
<1>1. \A w \in links :
        \E i \in DOMAIN log : log[i].to = "published" /\ log[i].version = w
  BY DEF LinksWerePublished
<1>2. ASSUME NEW c \in Caller, NEW m \in Moves(kind), Create(c, m) \/ Move(c, m)
      PROVE  \E i \in DOMAIN log' : log'[i].to = "published" /\ log'[i].version = v
  <2>1. /\ \A i \in DOMAIN log : i \in DOMAIN log' /\ log'[i] = log[i]
        /\ links' = links
    BY <1>2, Appended
  <2>2. PICK i \in DOMAIN log : log[i].to = "published" /\ log[i].version = v
    BY <1>1, <2>1
  <2>3. QED
    BY <2>1, <2>2
<1>3. ASSUME NEW c \in Caller, Associate(c)
      PROVE  \E i \in DOMAIN log' : log'[i].to = "published" /\ log'[i].version = v
  <2>1. /\ state = "published" /\ req[c].version = version
        /\ links' = links \union {version} /\ log' = log
    BY <1>3 DEF Inv, SeenIsRow, Associate
  <2>2. CASE v \in links
    BY <1>1, <2>1, <2>2
  <2>3. CASE v = version
    <3>1. /\ log # <<>> /\ log[Len(log)].to = state /\ log[Len(log)].version = version
      BY <2>1 DEF Inv, LineageIsHistory, Absent
    <3>2. Len(log) \in DOMAIN log
      BY <3>1, TimesAreNumbers
    <3>3. QED
      BY <2>1, <2>3, <3>1, <3>2
  <2>4. QED
    BY <2>1, <2>2, <2>3
<1>4. CASE UNCHANGED <<log, links>>
  BY <1>1, <1>4
<1>5. ASSUME NEW c \in Caller,
             \/ \E time \in Supplied \union {clock} :
                  \/ \E m \in Moves(kind) : Call(c, m.command, 0, time)
                  \/ \E a \in Associations(kind), w \in 1..version : Call(c, a, w, time)
             \/ Refuse(c) \/ Lock(c)
      PROVE  UNCHANGED <<log, links>>
  BY <1>5 DEF Call, Refuse, Lock
<1>6. Tick \/ UNCHANGED vars => UNCHANGED <<log, links>>
  BY DEF Tick, vars
<1>7. QED
  BY <1>2, <1>3, <1>4, <1>5, <1>6 DEF Next

\* Whoever associates a resource or an Event with a version finds a transition
\* that published this very version, whatever happened to the Service since.
THEOREM LinkedIsPublished == Spec => []LinksWerePublished
<1>1. Init => LinksWerePublished
  BY DEF Init, LinksWerePublished
<1>2. Inv /\ LinksWerePublished /\ [Next]_vars => LinksWerePublished'
  BY LinksStay
<1>3. QED
  BY <1>1, <1>2, Invariance, PTL DEF Spec
=============================================================================
