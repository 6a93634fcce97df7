----------------------------- MODULE SeatPromise -----------------------------
(***************************************************************************)
(* What the seats of a Governance Circle promise, whatever was received,   *)
(* executed or backdated in what order: a seat has one holder at a time,   *)
(* a person one seat at a time, and a term that is closed stays closed at  *)
(* the instant it was closed.                                              *)
(***************************************************************************)
EXTENDS Naturals

CONSTANTS Members, Seats, Times

VARIABLES
  terms,   \* [id, seat, member, from]: every term begun
  closed   \* [of, at]: the terms that were closed, and when

Over(t, at) == \E c \in closed : c.of = t.id /\ c.at <= at

Init == terms = {} /\ closed = {}

\* A term begins where every earlier holder's and every earlier term of the
\* person is over.
Begin(seat, member, from) ==
  /\ \A t \in terms : t.seat = seat \/ t.member = member => Over(t, from)
  /\ \E id \in Times : /\ \A t \in terms : t.id < id
                      /\ terms' = terms \union
                           {[id |-> id, seat |-> seat, member |-> member, from |-> from]}
  /\ UNCHANGED closed

\* A member goes: every term they still hold closes at the same instant.
Close(member, at) ==
  /\ \A t \in terms : t.member = member => t.from <= at
  /\ closed' = closed \union
       {[of |-> t.id, at |-> at] : t \in {u \in terms :
          u.member = member /\ \A c \in closed : c.of # u.id}}
  /\ UNCHANGED terms

Next == \E member \in Members : \E at \in Times :
  Close(member, at) \/ \E seat \in Seats : Begin(seat, member, at)

Spec == Init /\ [][Next]_<<terms, closed>>
=============================================================================
