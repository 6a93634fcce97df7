-------------------------- MODULE LifecyclePromise ---------------------------
(***************************************************************************)
(* What a governed record promises, whoever calls its service and whenever: *)
(* it moves along its lifecycle one allowed command at a time, its versions *)
(* are numbered without a gap, and only the version that is current, while  *)
(* it is published, is ever associated with anything.                       *)
(***************************************************************************)
EXTENDS LifecycleGraphs

VARIABLES kind, state, version, links

Init == kind \in Kinds /\ state = Absent /\ version = 0 /\ links = {}

Move(m) ==
  /\ state = m.from
  /\ state' = m.to
  /\ version' = version + m.versions
  /\ UNCHANGED <<kind, links>>

Associate ==
  /\ Associations(kind) # {}
  /\ state = "published"
  /\ links' = links \union {version}
  /\ UNCHANGED <<kind, state, version>>

Next == (\E m \in Moves(kind) : Move(m)) \/ Associate

Spec == Init /\ [][Next]_<<kind, state, version, links>>
=============================================================================
