---------------------------- MODULE MCPathSearch ----------------------------
(***************************************************************************)
(* Two searches whose windows share no walkable index: the first walks     *)
(* 0-1-2 along a passage, the second 3-4.                                  *)
(***************************************************************************)
EXTENDS PathSearch, TLC

CONSTANTS first, second

MCStart == (first :> 0) @@ (second :> 3)
MCGoal  == (first :> 2) @@ (second :> 4)

Rows == {0 .. 2, 3 .. 4}

(* DX, DY: to the right, then to the left.                                 *)
Steps(i) ==
  LET R == CHOOSE S \in Rows : i \in S
      in(j) == IF j \in R THEN <<<<j, 10>>>> ELSE <<>>
  IN in(i + 1) \o in(i - 1)

MCAround   == [w \in Searcher |-> [i \in Cell |-> Steps(i)]]
MCEstimate == [w \in Searcher |-> [i \in Cell |->
                 10 * (IF i < MCGoal[w] THEN MCGoal[w] - i ELSE i - MCGoal[w])]]
=============================================================================
