-------------------------- MODULE DeliveryPromise ---------------------------
(***************************************************************************)
(* What the email foundation promises of every intent, whatever workers,   *)
(* leases and recovery passes do (the module comment of worker.py: "no     *)
(* blind uncertain retry").  Status is the intent's outcome as its row     *)
(* tells it, sent the number of times an inbox provider accepted it.       *)
(***************************************************************************)
EXTENDS Integers

CONSTANT Intent
VARIABLES status, sent

Init == /\ status = [i \in Intent |-> "none"]
        /\ sent = [i \in Intent |-> 0]

To(i, s, n) == status'[i] = s /\ sent'[i] = n

\* An intent is recorded.
Ask(i) == status[i] = "none" /\ To(i, "pending", sent[i])

\* It is accepted, once.
Accept(i) == status[i] = "pending" /\ sent[i] = 0 /\ To(i, "accepted", 1)

\* It is given up without having been accepted.
GiveUp(i) == /\ status[i] = "pending" /\ sent[i] = 0
             /\ To(i, "failed", 0) \/ To(i, "suppressed", 0)

\* Nobody can tell whether it was accepted.
Lose(i) == /\ status[i] = "pending" /\ sent[i] = 0
           /\ To(i, "uncertain", 0) \/ To(i, "uncertain", 1)

\* The uncertainty is resolved by what really happened: an accepted intent is
\* never pending again, one that was not is never reported as accepted.
Resolve(i) ==
  /\ status[i] = "uncertain"
  /\ \/ sent[i] = 1 /\ To(i, "accepted", 1)
     \/ sent[i] = 0 /\ (To(i, "pending", 0) \/ To(i, "failed", 0))

Same(i) == To(i, status[i], sent[i])

Move(i) == Ask(i) \/ Accept(i) \/ GiveUp(i) \/ Lose(i) \/ Resolve(i)

Next == \A i \in Intent : Move(i) \/ Same(i)

Spec == Init /\ [][Next]_<<status, sent>>
=============================================================================
