------------------------------ MODULE MCCombat ------------------------------
(***************************************************************************)
(* Combat on a small instance: a slot for each of two sessions.            *)
(***************************************************************************)
EXTENDS Combat

CONSTANTS c1, c2, m1

OwnSlot == [c \in Conn |-> IF c = c1 THEN 0 ELSE 1]

=============================================================================
