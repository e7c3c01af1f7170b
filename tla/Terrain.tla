------------------------------ MODULE Terrain ------------------------------
(***************************************************************************)
(* The navigation data (nav_grid.h): where a body may stand, how high the  *)
(* ground is, and the cells of path finding (pathfinding.h).  A cell is a  *)
(* pair of indices <<cx, cy>>.                                             *)
(***************************************************************************)
EXTENDS SectorGeometry

CONSTANT HeightAt(_, _)   \* NavGrid::HeightAt of a corner of the height grid

VARIABLE open   \* m_walkable, as the set of the cells whose bit is set

NAV_CELL_SIZE    == 200
HEIGHT_CELL_SIZE == 800
HEIGHT_DIM       == (WORLD_MAX_CM - WORLD_MIN_CM) \div HEIGHT_CELL_SIZE + 1

ASSUME HeightAssumption ==
  \A gx, gy \in 0 .. HEIGHT_DIM - 1 : HeightAt(gx, gy) \in Int

(* Division of C++ and its remainder: towards zero, for d > 0.             *)
Quot(n, d) == IF n >= 0 THEN n \div d ELSE -((-n) \div d)
Rem(n, d)  == n - d * Quot(n, d)

InWorld(v) == WORLD_MIN_CM <= v /\ v < WORLD_MAX_CM

(* ToCellX, ToCellY; ToWorldX, ToWorldY: the middle of a cell.             *)
ToCell(p) == <<Quot(p.x - WORLD_MIN_CM, NAV_CELL_SIZE),
               Quot(p.y - WORLD_MIN_CM, NAV_CELL_SIZE)>>

ToWorld(c) == [x |-> WORLD_MIN_CM + c[1] * NAV_CELL_SIZE + NAV_CELL_SIZE \div 2,
               y |-> WORLD_MIN_CM + c[2] * NAV_CELL_SIZE + NAV_CELL_SIZE \div 2]

IsWalkable(p) == InWorld(p.x) /\ InWorld(p.y) /\ ToCell(p) \in open

(* SampleHeight: between the corners of a cell of the height grid, in      *)
(* fractions of 1024 (a shift to the right rounds down).                   *)
ClampGrid(v) == IF v < 0 THEN 0 ELSE IF v >= HEIGHT_DIM THEN HEIGHT_DIM - 1 ELSE v

Blend(h, k, t) == h + ((k - h) * t) \div 1024

SampleHeight(p) ==
  LET fx == p.x - WORLD_MIN_CM
      fy == p.y - WORLD_MIN_CM
      gx == ClampGrid(Quot(fx, HEIGHT_CELL_SIZE))
      gy == ClampGrid(Quot(fy, HEIGHT_CELL_SIZE))
      tx == Quot((fx - gx * HEIGHT_CELL_SIZE) * 1024, HEIGHT_CELL_SIZE)
      ty == Quot((fy - gy * HEIGHT_CELL_SIZE) * 1024, HEIGHT_CELL_SIZE)
      Row(g) == Blend(HeightAt(gx, g), HeightAt(ClampGrid(gx + 1), g), tx)
  IN Blend(Row(gy), Row(ClampGrid(gy + 1)), ty)
=============================================================================
