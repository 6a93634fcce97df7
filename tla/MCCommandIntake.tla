-------------------------- MODULE MCCommandIntake ---------------------------
(***************************************************************************)
(* Instances of CommandIntake for TLC.                                     *)
(***************************************************************************)
EXTENDS CommandIntake, TLC

CONSTANTS x1, x2, k1, b1, b2

Ask(entry, body) == [actor |-> x1, entry |-> entry, key |-> k1, body |-> body]

\* One request key for a Birthing and a beta activation: their elections share
\* a slot.
ElectionRequests == {Ask("BIRTHING", b1), Ask("ACTIVATE_BETA", b1)}

\* A compound seating and a decision of its own, which shares its action and
\* key, by one actor, and a phase transition by another, who meets them at the
\* organism's lock.
EitherActors == {Ask("SEAT_GOVERNANCE_CIRCLE", b1), Ask("DECIDE_GOVERNANCE_SEAT", b1),
                 [Ask("ADVANCE_PHASE", b1) EXCEPT !.actor = x2]}

Symmetry == Permutations(Attempt)
=============================================================================
