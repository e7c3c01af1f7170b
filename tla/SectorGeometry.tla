--------------------------- MODULE SectorGeometry ---------------------------
(***************************************************************************)
(* The arithmetic of the sector grid: the sector of a position, the block  *)
(* of sectors that QueryNear visits, the wave of a sector, and the view    *)
(* range.  Positions are pairs of centimetres, anywhere; z plays no part.  *)
(* The constants are those of protocol.h.                                  *)
(***************************************************************************)
EXTENDS Integers

WORLD_MIN_CM == -500000
WORLD_MAX_CM == 500000
SECTOR_SIZE  == 12800
VIEW_RANGE   == 10000

(* WorldGrid::GRID_DIM, the length rounded up to whole sectors.            *)
GRID_DIM == (WORLD_MAX_CM - WORLD_MIN_CM + SECTOR_SIZE - 1) \div SECTOR_SIZE

(* Division of C++: towards zero.                                          *)
Quotient(x) == IF x >= 0 THEN x \div SECTOR_SIZE ELSE -((-x) \div SECTOR_SIZE)

Clamp(v) == IF v < 0 THEN 0 ELSE IF v >= GRID_DIM THEN GRID_DIM - 1 ELSE v

Column(x) == Clamp(Quotient(x - WORLD_MIN_CM))

ToSector(p) == [sx |-> Column(p.x), sy |-> Column(p.y)]

SectorIndex(s) == s.sy * GRID_DIM + s.sx

(* WaveOf undoes SectorIndex, then takes the lowest bits.                  *)
WaveOf(index) == (((index \div GRID_DIM) % 2) * 2) + ((index % GRID_DIM) % 2)

(* (Mistake to test the properties: the loops end one too early.)          *)
VisitsHalf(c, s) == s.sx - c.sx \in -1 .. 0 /\ s.sy - c.sy \in -1 .. 0

(* QueryNear around a position in sector c visits sector s.                *)
Visits(c, s) == s.sx - c.sx \in -1 .. 1 /\ s.sy - c.sy \in -1 .. 1

Distance2DSq(p, q) == (p.x - q.x) * (p.x - q.x) + (p.y - q.y) * (p.y - q.y)

(* The code squares in 64 bits.  A difference beyond the range is sorted   *)
(* out before it is squared here, which TLC's 32 bits need and which makes *)
(* no difference (lemma ViewRangeIsEuclidean of PursuitProofs).            *)
Reach(d) == -VIEW_RANGE <= d /\ d <= VIEW_RANGE

IsInViewRange(p, q) ==
  /\ Reach(p.x - q.x) /\ Reach(p.y - q.y)
  /\ Distance2DSq(p, q) <= VIEW_RANGE * VIEW_RANGE

-----------------------------------------------------------------------------
(* What the sector grid promises of two bodies at p and q.                 *)

Position == [x : Int, y : Int]

(* The 3x3 query around p finds the body at q if the two see each other,   *)
(* even at the edge of the world or beyond it.  (world_grid.h:16:          *)
(* VIEW_RANGE <= SECTOR_SIZE is to ensure it.)                             *)
QueryCovers(p, q) == IsInViewRange(p, q) => Visits(ToSector(p), ToSector(q))

(* Two bodies in different sectors of one wave do not see each other, so   *)
(* the workers of a wave have nothing to say to each other.                *)
(* (docs/DECISIONS.md, 12.)                                                *)
SameWave(p, q) == WaveOf(SectorIndex(ToSector(p))) = WaveOf(SectorIndex(ToSector(q)))

WaveIsBlind(p, q) == SameWave(p, q) /\ ToSector(p) # ToSector(q) => ~IsInViewRange(p, q)

(* The index identifies the sector, and stays in the array.                *)
IndexIsSound(p, q) ==
  /\ SectorIndex(ToSector(p)) \in 0 .. GRID_DIM * GRID_DIM - 1
  /\ SectorIndex(ToSector(p)) = SectorIndex(ToSector(q)) => ToSector(p) = ToSector(q)
=============================================================================
