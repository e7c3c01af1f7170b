---------------------------- MODULE MCMonsterAi ----------------------------
(***************************************************************************)
(* Instances of MonsterAi for TLC: an open field, with a passive and with  *)
(* an aggressive monster; a winding trail; a wall with a way around either *)
(* end; and the trail with a corner that holds the monster and searches    *)
(* that miss the way.  Places are numbered along the trail or around the   *)
(* wall and have coordinates; a sector is one place wide.                  *)
(***************************************************************************)
EXTENDS MonsterAi, Sequences, FiniteSetsExt

Apart(a, b)   == IF a < b THEN b - a ELSE a - b
Crow(a, b)    == Max({Apart(a[1], b[1]), Apart(a[2], b[2])})
Places(spots) == 0 .. Len(spots) - 1
Pairs(spots)  == Places(spots) \X Places(spots)
Crows(spots)  == [e \in Pairs(spots) |-> Crow(spots[e[1] + 1], spots[e[2] + 1])]
Line(n)       == [e \in (0 .. n - 1) \X (0 .. n - 1) |-> Apart(e[1], e[2])]
Ring(n)       == [e \in (0 .. n - 1) \X (0 .. n - 1) |->
                    Min({Apart(e[1], e[2]), n - Apart(e[1], e[2])})]

Scene(spots, way, aggressive, guests) ==
  [aggressive |-> aggressive, guests |-> guests,
   place |-> Places(spots), dist |-> Crows(spots), way |-> way,
   near |-> {e \in Pairs(spots) : Crows(spots)[e] <= 1},
   sees |-> {e \in Pairs(spots) : way[e] <= 1},
   snags |-> {}, unfound |-> {}]

(* One player in each slot at a time, or one after the other in slot 0.    *)
SideBySide == [i \in Slot |-> 1]
InTurn     == [i \in Slot |-> IF i = 0 THEN 2 ELSE 0]

Straight4 == <<<<0, 0>>, <<1, 0>>, <<2, 0>>, <<3, 0>>>>
Bent5     == <<<<0, 0>>, <<1, 1>>, <<2, 0>>, <<3, 1>>, <<4, 0>>>>

(* The wall runs along the top of places 0, 1 and 2, which lie in a row;   *)
(* 7 is at its left end, 3 at its right end, and 4, 5, 6 are on top of it. *)
Around8 == <<<<0, 0>>, <<1, 0>>, <<2, 0>>, <<3, 1>>, <<2, 1>>, <<1, 1>>, <<0, 1>>, <<-1, 0>>>>

Field(aggressive) == [Scene(Straight4, Line(4), aggressive, SideBySide)
                        EXCEPT !.sees = Pairs(Straight4)]
Trail  == Scene(Bent5, Line(5), TRUE, InTurn)
Wall   == [Scene(Around8, Ring(8), FALSE, InTurn)
             EXCEPT !.sees = @ \cup {<<7, 1>>, <<1, 7>>, <<0, 2>>, <<2, 0>>, <<7, 2>>, <<2, 7>>,
                                     <<3, 5>>, <<5, 3>>, <<4, 6>>, <<6, 4>>, <<3, 6>>, <<6, 3>>}]
Corner == [Scene(Bent5, Line(5), FALSE, InTurn)
             EXCEPT !.snags = {<<2, 1>>}, !.unfound = {<<3, 0>>, <<1, 3>>}]

Built == [field |-> Field(FALSE), pack |-> Field(TRUE), trail |-> Trail,
          wall |-> Wall, corner |-> Corner]
MCScenes == [s \in DOMAIN Built |-> Built[s]]
=============================================================================
