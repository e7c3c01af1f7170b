------------------------------ MODULE MCWorld ------------------------------
(***************************************************************************)
(* Instances of World for TLC: a world of sectors in a row, numbered from  *)
(* 0; neighbours differ by one and waves alternate, as one row of the grid *)
(* does.                                                                   *)
(***************************************************************************)
EXTENDS World

MCNear == [s \in Sector |-> {t \in Sector : t - s \in -1 .. 1}]
MCWave == [s \in Sector |-> s % 2]

(* All spawn points in sector 1; sector 0 is within reach of them or not.  *)
MCHome      == [n \in Npc |-> 1]
AtHome      == [n \in Npc |-> {1}]
NearBorder  == [n \in Npc |-> {0, 1}]
=============================================================================
