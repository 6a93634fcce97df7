----------------------------- MODULE IntakeSlots -----------------------------
(***************************************************************************)
(* The vocabulary of the durable intake (command_intake.py): the entries   *)
(* it serves, the action each records, and the slots -- (action, request   *)
(* key) pairs -- under which the receipts and authority decisions of one   *)
(* admitted request may lie.  An entry that is not named here has its own  *)
(* action and one direct slot, as ADVANCE_PHASE has.                       *)
(*                                                                         *)
(* A request is [actor, entry, key, body]: body stands for the request     *)
(* reference and everything else the fingerprint covers.  A stage's key is *)
(* derived from the request's, so a slot's key is tagged with how it was   *)
(* derived: "own", or the prefix of _compound_stage_identifiers.           *)
(***************************************************************************)
EXTENDS Integers, Sequences

Compound == {"SEAT_GOVERNANCE_CIRCLE", "DECIDE_GOVERNANCE_SEAT_COMPOUND"}

ActionOf ==
  [ADVANCE_PHASE |-> "TRANSITION_LIVING_ORGANISM",
   BIRTHING |-> "TRANSITION_LIVING_ORGANISM",
   ACTIVATE_BETA |-> "EFFECT_ENTITLEMENT_ELECTION",
   REQUEST_GOVERNANCE_SEAT |-> "REQUEST_GOVERNANCE_SEAT",
   DECIDE_GOVERNANCE_SEAT |-> "ADMIT_CIRCLE_PARTICIPANT",
   DECIDE_GOVERNANCE_SEAT_COMPOUND |-> "ADMIT_CIRCLE_PARTICIPANT",
   SEAT_GOVERNANCE_CIRCLE |-> "ADMIT_CIRCLE_PARTICIPANT"]

Entries == DOMAIN ActionOf
Actions == {"TRANSITION_LIVING_ORGANISM", "EFFECT_ENTITLEMENT_ELECTION",
            "REQUEST_GOVERNANCE_SEAT", "ADMIT_CIRCLE_PARTICIPANT"}

Slot(action, form, key) == [action |-> action, form |-> form, key |-> key]

\* The pair the intake row itself is stored, and unique, under.
OwnSlot(r) == Slot(ActionOf[r.entry], "own", r.key)

\* The transactions an entry's executor runs, each under its slot, in order:
\* one, or the two stages of a compound request.
Stages(r) ==
  IF r.entry \in Compound
  THEN <<Slot("REQUEST_GOVERNANCE_SEAT", "request", r.key),
         Slot("ADMIT_CIRCLE_PARTICIPANT", "admit", r.key)>>
  ELSE <<OwnSlot(r)>>

\* Clause C1: a Birthing elects an entitlement under its own key.  The
\* election has a decision there and never a receipt.
ElectionSlot(r) == Slot("EFFECT_ENTITLEMENT_ELECTION", "own", r.key)

ReceiptSlots(r) == {Stages(r)[n] : n \in DOMAIN Stages(r)}

Slots(r) == ReceiptSlots(r)
              \union (IF r.entry = "BIRTHING" THEN {ElectionSlot(r)} ELSE {})

\* Does binding b account for record g, a receipt or a decision?
AccountsFor(b, g) ==
  /\ g.actor = b.actor
  /\ \/ g.kind = "receipt" /\ g.slot \in ReceiptSlots(b)
     \/ g.kind = "decision" /\ g.slot \in Slots(b) /\ g.at = b.at
=============================================================================
