------------------------------ MODULE Movement ------------------------------
(***************************************************************************)
(* The arithmetic of moving (movement.h, MoveToward of monster_ai.h), in   *)
(* integers, as server and client both compute it.                         *)
(***************************************************************************)
EXTENDS Terrain

(* MoveState: the position, the vertical velocity, and the rests of the    *)
(* last divisions in thousandths of a centimetre.  The horizontal velocity *)
(* is computed anew in each step and so is part of the step only.          *)
Fraction == {f \in Int : -999 <= f /\ f <= 999}

MoveState == [x : Int, y : Int, z : Int, vz : Int,
              fx : Fraction, fy : Fraction, fz : Fraction, grounded : BOOLEAN]

(* MoveInput: the direction as the client sends it, and the buttons.       *)
Input == [x : Int, y : Int, sprint : BOOLEAN, jump : BOOLEAN]

TICK_MS        == 33
WALK_SPEED     == 600
SPRINT_SPEED   == 900
GRAVITY        == 1960
JUMP_VELOCITY  == 700
STEP_TOLERANCE == 45

Within(v, lo, hi) == IF v < lo THEN lo ELSE IF v > hi THEN hi ELSE v

(* ISqrt: Newton's iteration from n downwards.                             *)
ISqrt(n) ==
  LET down[x \in Nat \ {0}] == LET y == (x + n \div x) \div 2
                         IN IF y < x THEN down[y] ELSE x
  IN IF n <= 0 THEN 0 ELSE down[n]

(* (Mistake to test the properties: a diagonal is not shortened.)          *)
SanitizeBox(in) == [x |-> Within(in.x, -1000, 1000), y |-> Within(in.y, -1000, 1000)]

(* SanitizeInput: no component and no diagonal beyond 1000.                *)
Shortened(v, size) ==
  IF size > 1000 * 1000 THEN Quot(v * 1000, ISqrt(size)) ELSE v

SanitizeInput(in) ==
  LET x    == Within(in.x, -1000, 1000)
      y    == Within(in.y, -1000, 1000)
      size == x * x + y * y
  IN [x |-> Shortened(x, size), y |-> Shortened(y, size)]

(* What is travelled in a tick at velocity v with rest f, and the new rest.*)
Travel(v, f) == Quot(v * TICK_MS + f, 1000)
Rest(v, f)   == Rem(v * TICK_MS + f, 1000)

(* The axes along which a step by <<dx, dy>> from p goes: both, or the one *)
(* along which it slides on a wall, or none.                               *)
Axes(p, dx, dy) ==
  LET Free(x, y) == IsWalkable([x |-> p.x + x, y |-> p.y + y])
  IN IF Free(dx, dy) THEN {"x", "y"}
     ELSE IF dx # 0 /\ Free(dx, 0) THEN {"x"}
     ELSE IF dy # 0 /\ Free(0, dy) THEN {"y"}
     ELSE {}

(* (Mistake: a step that a wall blocks is taken along both axes if it can  *)
(* be taken along one.)                                                    *)
SlideAnyway(p, dx, dy) ==
  IF Axes(p, dx, dy) = {} THEN [x |-> p.x, y |-> p.y]
                          ELSE [x |-> p.x + dx, y |-> p.y + dy]

Slide(p, dx, dy) ==
  LET axes == Axes(p, dx, dy)
  IN [x |-> IF "x" \in axes THEN p.x + dx ELSE p.x,
      y |-> IF "y" \in axes THEN p.y + dy ELSE p.y]

(* The horizontal half of SimulateStep.  A wall takes the rest of an axis  *)
(* that it blocks.                                                         *)
Walk(s, in) ==
  LET clean == SanitizeInput(in)
      speed == IF in.sprint THEN SPRINT_SPEED ELSE WALK_SPEED
      vx    == Quot(clean.x * speed, 1000)
      vy    == Quot(clean.y * speed, 1000)
      dx    == Travel(vx, s.fx)
      dy    == Travel(vy, s.fy)
      to    == Slide(s, dx, dy)
      axes  == Axes(s, dx, dy)
  IN [x  |-> Within(to.x, WORLD_MIN_CM, WORLD_MAX_CM - 1),
      y  |-> Within(to.y, WORLD_MIN_CM, WORLD_MAX_CM - 1),
      fx |-> IF "x" \in axes THEN Rest(vx, s.fx) ELSE 0,
      fy |-> IF "y" \in axes THEN Rest(vy, s.fy) ELSE 0]

(* The vertical half: jump, gravity, landing.                              *)
Fall(s, in, ground) ==
  LET jumps  == s.grounded /\ in.jump
      aloft  == jumps \/ ~s.grounded
      thrust == IF jumps THEN JUMP_VELOCITY ELSE s.vz
      vz     == IF aloft THEN thrust - Quot(GRAVITY * TICK_MS, 1000) ELSE s.vz
      z      == s.z + Travel(vz, s.fz)
      lands  == z <= ground \/ (vz <= 0 /\ z - ground < STEP_TOLERANCE)
  IN IF lands THEN [z |-> ground, vz |-> 0, fz |-> 0, grounded |-> TRUE]
              ELSE [z |-> z, vz |-> vz, fz |-> Rest(vz, s.fz), grounded |-> FALSE]

(* How far a step may get: the 29.7 centimetres of a sprint of one tick,   *)
(* the rests of two divisions, which add less than two, rounded up.  It    *)
(* bounds the steps of SimulateStep (theorem HeroStepsLegal).              *)
MAX_STEP == Quot(SPRINT_SPEED * TICK_MS, 1000) + 3

SimulateStep(s, in) ==
  LET w == Walk(s, in)
      f == Fall(s, in, SampleHeight(w))
  IN [x  |-> w.x,  y  |-> w.y,  z  |-> f.z, vz |-> f.vz,
      fx |-> w.fx, fy |-> w.fy, fz |-> f.fz, grounded |-> f.grounded]

(* MoveToward at a speed for dt milliseconds: the new position of a        *)
(* monster, the old one when there is no step to take.                     *)
MoveToward(p, goal, speed, dt) ==
  LET dx   == goal.x - p.x
      dy   == goal.y - p.y
      dist == ISqrt(dx * dx + dy * dy)
      far  == Quot(speed * dt, 1000)
  IN IF dx * dx + dy * dy = 0 \/ far <= 0 THEN p
     ELSE IF dist <= far THEN Slide(p, dx, dy)
     ELSE Slide(p, Quot(dx * far, dist), Quot(dy * far, dist))
=============================================================================
