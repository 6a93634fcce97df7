--------------------------- MODULE CommandPromise ----------------------------
(***************************************************************************)
(* What the durable intake promises its callers, whatever attempts, losses *)
(* and retries there are: a request key of an actor is bound once, to one  *)
(* content and one receipt time; what a bound request governs is done at   *)
(* most once, under that binding; and a compound request's second stage is *)
(* done only after its first.                                              *)
(***************************************************************************)
EXTENDS IntakeSlots

VARIABLES received,   \* bindings
          performed   \* [actor, slot, of]: slot of binding of has been performed

Init == received = {} /\ performed = {}

SameKey(b, c) == b.actor = c.actor /\ OwnSlot(b) = OwnSlot(c)

Receive ==
  /\ \E b \in received' : /\ \A c \in received : ~SameKey(b, c)
                          /\ received' = received \union {b}
  /\ UNCHANGED performed

Deed(b, slot) == [actor |-> b.actor, slot |-> slot, of |-> b]

Perform ==
  /\ \E b \in received : \E n \in DOMAIN Stages(b) :
       /\ \A p \in performed : ~(p.actor = b.actor /\ p.slot = Stages(b)[n])
       /\ \A m \in 1..n - 1 : Deed(b, Stages(b)[m]) \in performed
       /\ performed' = performed \union {Deed(b, Stages(b)[n])}
  /\ UNCHANGED received

Next == Receive \/ Perform

Spec == Init /\ [][Next]_<<received, performed>>
=============================================================================
