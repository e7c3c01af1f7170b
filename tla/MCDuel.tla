------------------------------- MODULE MCDuel -------------------------------
(***************************************************************************)
(* A room of four columns and three rows, with walls in its middle: on the *)
(* corner of four sectors, and on the lower left corner of the world.      *)
(***************************************************************************)
EXTENDS Duel
Corners == {<<62, 62>>, <<0, 0>>}

Part(o, columns, rows) == {<<o[1] + x, o[2] + y>> : x \in columns, y \in rows}

MCOpenSets ==
  UNION {{Part(o, 0 .. 3, 0 .. 2) \ walls : walls \in SUBSET Part(o, 1 .. 2, 0 .. 2)} :
           o \in Corners}

At(o, c, dx, dy) ==
  [x |-> ToWorld(Next8(o, c)).x + dx, y |-> ToWorld(Next8(o, c)).y + dy]

MCMobStarts  == {At(o, <<0, 0>>, 0, 0) : o \in Corners}
MCHeroStarts == {At(o, <<3, 0>>, 0, 0) : o \in Corners} \cup
                {At(o, <<3, 2>>, -95, 0) : o \in Corners}

(* A slope: ten centimetres for each corner of the height grid.            *)
MCHeightAt(gx, gy) == 10 * gx

(* The client stands still; sprints up and down again, faster than it may, *)
(* and jumps; or runs away to the left when the monster has come, with two *)
(* inputs in every other tick.                                             *)
Run(x, y, jump) == <<[x |-> x, y |-> y, sprint |-> TRUE, jump |-> jump]>>

MCScripts ==
  {<<>>,
   [k \in 1 .. 12 |-> Run(-2000, IF k < 9 THEN 2000 ELSE -2000, k = 2)],
   [k \in 1 .. 84 |-> IF k < 60 \/ k % 2 = 0 THEN <<>>
                          ELSE Run(-700, -400, FALSE) \o Run(-700, -400, FALSE)]}

(* Yaw 180, 190 and 218.4 degrees.                                         *)
Aims == {<<-10000, 0>>, <<-9848, -1736>>, <<-7837, -6211>>}

(* A fireball is cast at a monster that comes through an open room.        *)
MCCasts(cells, inputs) ==
  {None} \cup (IF inputs = <<>> /\ Cardinality(cells) >= 11
                 THEN [aim : Aims, delay : 0 .. 6] ELSE {})
=============================================================================
