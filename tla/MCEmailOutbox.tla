--------------------------- MODULE MCEmailOutbox ----------------------------
(***************************************************************************)
(* Instances of EmailOutbox for TLC.  Rows c1 and c2 are one identity's    *)
(* inbox challenges, n a notice to it.                                     *)
(***************************************************************************)
EXTENDS EmailOutbox, TLC

\* The one identity is the recipient of every row.
AllToOne == [i \in Intent |-> CHOOSE identity \in Person : TRUE]

Symmetry == Permutations(Lease) \union Permutations(Worker) \union Permutations(Address)
=============================================================================
