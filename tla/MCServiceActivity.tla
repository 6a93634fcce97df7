-------------------------- MODULE MCServiceActivity --------------------------
(***************************************************************************)
(* An instance of ServiceActivity for TLC: one Activity taken through its  *)
(* whole life and another that is created, assigned the other way round    *)
(* and cancelled.                                                          *)
(***************************************************************************)
EXTENDS ServiceActivity, FiniteSets, TLC

CONSTANTS s1, s2, a1, a2, v1

Asked(action, activity, actor, assignee) ==
  [action |-> action, activity |-> activity, service |-> v1,
   actor |-> actor, assignee |-> assignee, key |-> 1]

\* Every command has the one key: 3 cancels either Activity under it, so one
\* cancellation is the other's key with another payload.
TwoLives == {
  Asked("CREATE", a1, 1, 1), Asked("ASSIGN", a1, 1, 2),
  Asked("ACCEPT", a1, 2, 2), Asked("DECLINE", a1, 2, 2),
  Asked("SUBMIT", a1, 2, 2), Asked("REVIEW", a1, 4, 4),
  Asked("COMPLETE", a1, 1, 1), Asked("CANCEL", a1, 3, 3),
  Asked("CREATE", a2, 2, 2),
  Asked("ASSIGN", a2, 2, 1), Asked("CANCEL", a2, 3, 3)}

\* Bound: as many transitions as one whole life has.
OneLifeLong == Cardinality(transitions) <= 6

Alike == Permutations(Sessions)
=============================================================================
