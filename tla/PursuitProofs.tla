--------------------------- MODULE PursuitProofs ---------------------------
(***************************************************************************)
(* Proofs about a hunt and the arithmetic it is made of: the geometry of   *)
(* the real grid, for every position; the steps of players and monsters,   *)
(* for every state, input and terrain; FindPath, for every terrain, start  *)
(* and goal; Pursuit, for every terrain and every client; and the flight   *)
(* of a bolt in Duel.                                                      *)
(***************************************************************************)
EXTENDS Duel, FiniteSetTheorems, WellFoundedInduction, TLAPS

-----------------------------------------------------------------------------
(* The geometry of the real grid.                                          *)

LEMMA GridDimValue == GRID_DIM = 79
  BY SMT DEF GRID_DIM, WORLD_MIN_CM, WORLD_MAX_CM, SECTOR_SIZE

LEMMA SquareBeyond ==
  ASSUME NEW d \in Int, d * d <= 100000000
  PROVE  -10000 <= d /\ d <= 10000
  <1>1. CASE d > 10000
    <2>1. d * d > 10000 * 10000
      BY <1>1, SMTT(30)
    <2>2. QED
      BY <2>1, SMT
  <1>2. CASE d < -10000
    <2>1. d * d > 10000 * 10000
      BY <1>2, SMTT(30)
    <2>2. QED
      BY <2>1, SMT
  <1>3. QED
    BY <1>1, <1>2, SMT

LEMMA SquareNonNegative ==
  ASSUME NEW d \in Int
  PROVE  d * d \in Nat
  BY SMTT(30)

(* IsInViewRange is the test of the code: the square of the horizontal     *)
(* distance against the square of VIEW_RANGE.                              *)
LEMMA ViewRangeIsEuclidean ==
  ASSUME NEW p \in Position, NEW q \in Position
  PROVE  IsInViewRange(p, q) <=> Distance2DSq(p, q) <= VIEW_RANGE * VIEW_RANGE
  <1> DEFINE dx == p.x - q.x
             dy == p.y - q.y
  <1>1. dx \in Int /\ dy \in Int
    BY SMT DEF Position
  <1>2. dx * dx \in Nat /\ dy * dy \in Nat
    BY <1>1, SquareNonNegative, SMT
  <1>3. ASSUME dx * dx + dy * dy <= 100000000
        PROVE  Reach(dx) /\ Reach(dy)
    <2>1. dx * dx <= 100000000 /\ dy * dy <= 100000000
      BY <1>2, <1>3, SMT
    <2>2. QED
      BY <1>1, <2>1, SquareBeyond, SMT DEF Reach, VIEW_RANGE
  <1>4. QED
    BY <1>3, SMT DEF IsInViewRange, Distance2DSq, VIEW_RANGE

(* The column of a coordinate, and how it moves with it.                   *)
LEMMA ColumnRange ==
  ASSUME NEW x \in Int
  PROVE  Column(x) \in 0 .. 78
  BY GridDimValue, SMT DEF Column, Quotient, Clamp, SECTOR_SIZE, WORLD_MIN_CM

LEMMA ColumnNear ==
  ASSUME NEW x \in Int, NEW y \in Int, -12800 <= x - y, x - y <= 12800
  PROVE  Column(x) - Column(y) \in -1 .. 1
  BY GridDimValue, SMT DEF Column, Quotient, Clamp, SECTOR_SIZE, WORLD_MIN_CM

(* The sectors of two positions at most a sector's length apart.           *)
LEMMA NearVisits ==
  ASSUME NEW p \in Position, NEW q \in Position,
         -12800 <= p.x - q.x, p.x - q.x <= 12800,
         -12800 <= p.y - q.y, p.y - q.y <= 12800
  PROVE  Visits(ToSector(p), ToSector(q))
  <1>1. p.x \in Int /\ p.y \in Int /\ q.x \in Int /\ q.y \in Int
    BY SMT DEF Position
  <1>2. /\ Column(q.x) - Column(p.x) \in -1 .. 1
        /\ Column(q.y) - Column(p.y) \in -1 .. 1
    <2>1. /\ Column(p.x) - Column(q.x) \in -1 .. 1
          /\ Column(p.y) - Column(q.y) \in -1 .. 1
      BY <1>1, ColumnNear, SMT
    <2>2. /\ Column(p.x) \in Int /\ Column(q.x) \in Int
          /\ Column(p.y) \in Int /\ Column(q.y) \in Int
      BY <1>1, ColumnRange, SMT
    <2>3. QED
      BY <2>1, <2>2, SMT
  <1>3. QED
    BY <1>2, SMT DEF Visits, ToSector

(* Whatever the positions: the sectors that QueryNear visits around one    *)
(* contain every object in view of it.  (QueryNear, IsInViewRange.)        *)
LEMMA QueryNearCovers ==
  ASSUME NEW p \in Position, NEW q \in Position, IsInViewRange(p, q)
  PROVE  Visits(ToSector(p), ToSector(q))
  <1>1. /\ p.x \in Int /\ p.y \in Int /\ q.x \in Int /\ q.y \in Int
        /\ -12800 <= p.x - q.x /\ p.x - q.x <= 12800
        /\ -12800 <= p.y - q.y /\ p.y - q.y <= 12800
    BY SMT DEF Position, IsInViewRange, Reach, VIEW_RANGE
  <1>2. QED
    BY <1>1, NearVisits

GridSector == [sx : 0 .. 78, sy : 0 .. 78]

LEMMA SectorType ==
  ASSUME NEW p \in Position
  PROVE  ToSector(p) \in GridSector
  <1>1. p.x \in Int /\ p.y \in Int
    BY SMT DEF Position
  <1>2. QED
    BY <1>1, ColumnRange, SMT DEF ToSector, GridSector

(* Division by the length of a row undoes the index.                       *)
LEMMA RowAndColumn ==
  ASSUME NEW x \in Int, NEW y \in Int, NEW n \in Int,
         0 <= x, x <= 78, 0 <= y, n = y * 79 + x
  PROVE  n \div 79 = y /\ n % 79 = x
  <1>1. n \div 79 \in Int /\ n % 79 \in Int
    BY SMT
  <1>2. 0 <= n % 79 /\ n % 79 <= 78 /\ n = 79 * (n \div 79) + (n % 79)
    BY SMTT(30)
  <1>3. QED
    BY <1>1, <1>2, SMTT(30)

(* WaveOf finds the parities of the sector's coordinates.                  *)
LEMMA WaveOfIndex ==
  ASSUME NEW s \in GridSector
  PROVE  WaveOf(SectorIndex(s)) = ((s.sy % 2) * 2) + (s.sx % 2)
  <1>1. s.sx \in 0 .. 78 /\ s.sy \in 0 .. 78
    BY SMT DEF GridSector
  <1>2. SectorIndex(s) \div 79 = s.sy /\ SectorIndex(s) % 79 = s.sx
    <2>1. s.sx \in Int /\ s.sy \in Int /\ 0 <= s.sx /\ s.sx <= 78 /\ 0 <= s.sy
      BY <1>1, SMT
    <2>2. SectorIndex(s) = s.sy * 79 + s.sx
      BY GridDimValue DEF SectorIndex
    <2>3. SectorIndex(s) \in Int
      BY <2>1, <2>2, SMT
    <2>4. QED
      BY <2>1, <2>2, <2>3, RowAndColumn
  <1>3. QED
    BY <1>2, GridDimValue, SMT DEF WaveOf

LEMMA SameParityApart ==
  ASSUME NEW m \in Int, NEW n \in Int, n - m \in -1 .. 1, m % 2 = n % 2
  PROVE  m = n
  <1>1. n = m - 1 \/ n = m \/ n = m + 1
    BY SMT
  <1>2. n # m - 1
    BY SMT
  <1>3. n # m + 1
    BY SMT
  <1>4. QED
    BY <1>1, <1>2, <1>3

(* GridSector of one wave that are not the same are not neighbours.           *)
LEMMA SameWaveApart ==
  ASSUME NEW s \in GridSector, NEW t \in GridSector,
         WaveOf(SectorIndex(s)) = WaveOf(SectorIndex(t)), Visits(s, t)
  PROVE  s = t
  <1>1. s.sx \in 0 .. 78 /\ s.sy \in 0 .. 78 /\ t.sx \in 0 .. 78 /\ t.sy \in 0 .. 78
    BY SMT DEF GridSector
  <1>2. ((s.sy % 2) * 2) + (s.sx % 2) = ((t.sy % 2) * 2) + (t.sx % 2)
    BY WaveOfIndex, SMT
  <1>3. s.sx % 2 = t.sx % 2 /\ s.sy % 2 = t.sy % 2
    BY <1>1, <1>2, SMT
  <1>a. /\ s.sx \in Int /\ t.sx \in Int /\ t.sx - s.sx \in -1 .. 1
        /\ s.sy \in Int /\ t.sy \in Int /\ t.sy - s.sy \in -1 .. 1
    BY <1>1, SMT DEF Visits
  <1>4. s.sx = t.sx /\ s.sy = t.sy
    <2>1. s.sx = t.sx
      BY <1>a, <1>3, SameParityApart
    <2>2. s.sy = t.sy
      BY <1>a, <1>3, SameParityApart
    <2>3. QED
      BY <2>1, <2>2
  <1>5. QED
    BY <1>4, SMT DEF GridSector

(* A step of at most a sector's length along each axis ends in the sector  *)
(* where it begins or in a neighbour: what World assumes of SimulateRead   *)
(* and MonsterMove.                                                        *)
THEOREM StepsStayNear ==
  \A p, q \in Position :
    (/\ -SECTOR_SIZE <= p.x - q.x /\ p.x - q.x <= SECTOR_SIZE
     /\ -SECTOR_SIZE <= p.y - q.y /\ p.y - q.y <= SECTOR_SIZE)
    => Visits(ToSector(p), ToSector(q))
  <1> SUFFICES ASSUME NEW p \in Position, NEW q \in Position,
                      -SECTOR_SIZE <= p.x - q.x, p.x - q.x <= SECTOR_SIZE,
                      -SECTOR_SIZE <= p.y - q.y, p.y - q.y <= SECTOR_SIZE
               PROVE  Visits(ToSector(p), ToSector(q))
    OBVIOUS
  <1>1. /\ p.x \in Int /\ p.y \in Int /\ q.x \in Int /\ q.y \in Int
        /\ -12800 <= p.x - q.x /\ p.x - q.x <= 12800
        /\ -12800 <= p.y - q.y /\ p.y - q.y <= 12800
    BY SMT DEF Position, SECTOR_SIZE
  <1>2. QED
    BY <1>1, NearVisits

(* Bodies that see each other are found by each other's 3x3 query,         *)
(* wherever they are.                                                      *)
THEOREM ViewCovered == \A p, q \in Position : QueryCovers(p, q)
  BY QueryNearCovers DEF QueryCovers

(* Bodies in different sectors of one wave never see each other: what the  *)
(* lock-free waves rest on.                                                *)
THEOREM WavesBlind == \A p, q \in Position : WaveIsBlind(p, q)
  BY QueryNearCovers, SectorType, SameWaveApart DEF WaveIsBlind, SameWave

(* Every position has an index in the array of sectors, and two sectors    *)
(* never share one.                                                        *)
THEOREM IndexSound == \A p, q \in Position : IndexIsSound(p, q)
  <1>1. ASSUME NEW s \in GridSector, NEW t \in GridSector
        PROVE  /\ SectorIndex(s) \in 0 .. GRID_DIM * GRID_DIM - 1
               /\ SectorIndex(s) = SectorIndex(t) => s = t
    <2>1. s.sx \in 0 .. 78 /\ s.sy \in 0 .. 78 /\ t.sx \in 0 .. 78 /\ t.sy \in 0 .. 78
      BY DEF GridSector
    <2>2. SectorIndex(s) = s.sy * 79 + s.sx /\ SectorIndex(t) = t.sy * 79 + t.sx
      BY GridDimValue DEF SectorIndex
    <2>3. SectorIndex(s) = SectorIndex(t) => s.sx = t.sx /\ s.sy = t.sy
      <3>1. \A u, v, x, y \in Int :
              /\ 0 <= u /\ u <= 78 /\ 0 <= v /\ 0 <= x /\ x <= 78 /\ 0 <= y
              /\ v * 79 + u = y * 79 + x
              => u = x /\ v = y
        BY SMT
      <3>2. /\ s.sx \in Int /\ s.sy \in Int /\ t.sx \in Int /\ t.sy \in Int
            /\ 0 <= s.sx /\ s.sx <= 78 /\ 0 <= s.sy
            /\ 0 <= t.sx /\ t.sx <= 78 /\ 0 <= t.sy
        BY <2>1, SMT
      <3>3. QED
        BY <2>2, <3>1, <3>2
    <2>4. SectorIndex(s) \in 0 .. 79 * 79 - 1
      <3>1. \A u, v \in 0 .. 78 : v * 79 + u \in 0 .. 79 * 79 - 1
        BY SMT
      <3>2. QED
        BY <2>1, <2>2, <3>1
    <2>5. SectorIndex(s) \in 0 .. GRID_DIM * GRID_DIM - 1
      BY <2>4, GridDimValue
    <2>6. SectorIndex(s) = SectorIndex(t) => s = t
      BY <2>3 DEF GridSector
    <2>7. QED
      BY <2>5, <2>6
  <1>2. QED
    BY <1>1, SectorType DEF IndexIsSound

(* The real grid is one of those World is about: its 3x3 blocks and wave   *)
(* numbers meet the assumptions on Near and Wave.                          *)
Block      == [s \in GridSector |-> {t \in GridSector : Visits(s, t)}]
WaveNumber == [s \in GridSector |-> WaveOf(SectorIndex(s))]

THEOREM GridFitsWorld ==
  /\ Block \in [GridSector -> SUBSET GridSector]
  /\ \A s \in GridSector : s \in Block[s]
  /\ WaveNumber \in [GridSector -> 0 .. 3]
  <1>1. ASSUME NEW s \in GridSector PROVE Visits(s, s) /\ WaveOf(SectorIndex(s)) \in 0 .. 3
    <2>1. s.sx \in Int /\ s.sy \in Int
      BY SMT DEF GridSector
    <2>2. Visits(s, s)
      BY <2>1, SMT DEF Visits
    <2>3. ((s.sy % 2) * 2) + (s.sx % 2) \in 0 .. 3
      BY <2>1, SMT
    <2>4. QED
      BY <2>2, <2>3, WaveOfIndex
  <1>2. QED
    BY <1>1 DEF Block, WaveNumber

-----------------------------------------------------------------------------
(* The arithmetic of moving.                                               *)

(* Every set of natural numbers that is not empty has a least element:     *)
(* with it a recursive function is shown to be what it is, since there is  *)
(* no least number for which it is not.                                    *)
LEMMA LeastOf ==
  ASSUME NEW T \in SUBSET Nat, T # {}
  PROVE  \E m \in T : \A k \in T : m <= k
  <1>1. PICK R : R = {ss \in Nat \X Nat : ss[1] < ss[2]}
    OBVIOUS
  <1>2. IsWellFoundedOn({ss \in Nat \X Nat : ss[1] < ss[2]}, Nat)
    BY NatLessThanWellFounded DEF OpToRel
  <1>3. IsWellFoundedOn(R, Nat)
    BY <1>1, <1>2
  <1>4. PICK m \in T : \A k \in T : ~ (<<k, m>> \in R)
    BY <1>3, WFMin
  <1> QED
    <2> SUFFICES ASSUME NEW k \in T PROVE m <= k
      OBVIOUS
    <2>1. m \in Nat /\ k \in Nat
      OBVIOUS
    <2>2. ~ (<<k, m>> \in R)
      BY <1>4
    <2>3. ~ (k < m)
      BY <2>1, <2>2, <1>1
    <2> QED
      BY <2>1, <2>3

(* The square root, rounded down.                                          *)
IsRoot(r, n) == r \in Nat /\ r * r <= n /\ n < (r + 1) * (r + 1)

LEMMA RootExists ==
  ASSUME NEW n \in Nat
  PROVE  \E r \in Nat : IsRoot(r, n)
  <1> PICK T : T = {k \in Nat : k * k > n}
    OBVIOUS
  <1>1. (n + 1) * (n + 1) > n
    OBVIOUS
  <1>2. n + 1 \in T
    BY <1>1
  <1>3. PICK m \in T : \A k \in T : m <= k
    BY <1>2, LeastOf
  <1>4. m \in Nat /\ m * m > n /\ m # 0
    BY <1>3
  <1>5. PICK r \in Nat : r + 1 = m
    <2>1. m - 1 \in Nat /\ (m - 1) + 1 = m
      BY <1>4
    <2> QED
      BY <2>1
  <1>6. r \notin T
    BY <1>3, <1>4, <1>5
  <1>7. r * r <= n
    BY <1>6
  <1>8. (r + 1) * (r + 1) > n
    BY <1>4, <1>5
  <1> QED
    BY <1>7, <1>8 DEF IsRoot

(* A quotient is at least k exactly from k times the divisor on.           *)
LEMMA QuotientAtLeast ==
  ASSUME NEW n \in Nat, NEW x \in Nat \ {0}, NEW k \in Int
  PROVE  /\ n \div x \in Nat
         /\ k <= n \div x <=> k * x <= n
  <1>1. PICK q \in Int : q = n \div x
    OBVIOUS
  <1>2. PICK e \in Int : e = n % x
    OBVIOUS
  <1>3. n = x * q + e /\ 0 <= e /\ e < x
    BY <1>1, <1>2
  <1>4. q >= 0
    <2> SUFFICES ASSUME q <= -1 PROVE FALSE
      BY <1>1
    <2>1. x * q <= x * (-1)
      OBVIOUS
    <2> QED
      BY <2>1, <1>3
  <1>5. ASSUME k <= q PROVE k * x <= n
    <2>1. k * x <= x * q
      BY <1>5
    <2> QED
      BY <2>1, <1>3
  <1>6. ASSUME k > q PROVE k * x > n
    <2>1. k * x >= x * (q + 1)
      BY <1>6
    <2>2. x * (q + 1) = x * q + x
      OBVIOUS
    <2> QED
      BY <2>1, <2>2, <1>3
  <1> QED
    BY <1>1, <1>4, <1>5, <1>6

(* Newton's step from x: not down from the root or below, and else down,   *)
(* but not below the root.                                                 *)
LEMMA NewtonStep ==
  ASSUME NEW n \in Nat, NEW r \in Nat \ {0}, IsRoot(r, n), NEW x \in Nat \ {0},
         NEW y \in Int, y = (x + n \div x) \div 2
  PROVE  /\ y \in Nat \ {0}
         /\ x <= r => ~(y < x)
         /\ x > r => y < x /\ y >= r
  <1>1. PICK q \in Nat : q = n \div x
    BY QuotientAtLeast
  <1>2. \A k \in Int : k <= q <=> k * x <= n
    BY <1>1, QuotientAtLeast
  <1>3. y = (x + q) \div 2
    BY <1>1
  <1>4. r * r <= n /\ n < (r + 1) * (r + 1)
    BY DEF IsRoot
  <1>5. ASSUME x <= r PROVE ~(y < x)
    <2>1. x * x <= r * r
      BY <1>5
    <2>2. x <= q
      BY <2>1, <1>2, <1>4
    <2> QED
      BY <2>2, <1>3
  <1>6. ASSUME x > r PROVE y < x /\ y >= r
    <2>1. x >= r + 1
      BY <1>6
    <2>2. x * x >= (r + 1) * (r + 1)
      BY <2>1
    <2>3. ~(x <= q)
      BY <2>2, <1>2, <1>4
    <2>4. PICK e \in Nat : x = r + e
      <3>1. x - r \in Nat /\ x = r + (x - r)
        BY <1>6
      <3> QED
        BY <3>1
    <2>5. (r - e) * x <= n
      <3>1. (r - e) * (r + e) = r * r - e * e
        OBVIOUS
      <3>2. e * e >= 0
        OBVIOUS
      <3> QED
        BY <3>1, <3>2, <2>4, <1>4
    <2>6. r - e <= q
      BY <2>5, <1>2
    <2> QED
      BY <2>3, <2>4, <2>6, <1>3
  <1> QED
    BY <1>3, <1>5, <1>6

(* Newton's iteration ends at the root.                                    *)
LEMMA ISqrtIsRoot ==
  ASSUME NEW n \in Nat, NEW r \in Nat, IsRoot(r, n)
  PROVE  ISqrt(n) = r
  <1>1. CASE n = 0
    <2>1. r = 0
      BY <1>1 DEF IsRoot
    <2> QED
      BY <1>1, <2>1 DEF ISqrt
  <1>2. CASE n # 0
    <2> DEFINE Newton(g, x) == LET y == (x + n \div x) \div 2 IN IF y < x THEN g[y] ELSE x
               Down(g) == [x \in Nat \ {0} |-> Newton(g, x)]
    <2>1. r \in Nat \ {0}
      BY <1>2 DEF IsRoot
    <2>2. PICK f : f = [x \in Nat \ {0} |-> IF x <= r THEN x ELSE r]
      OBVIOUS
    <2>3. ASSUME NEW x \in Nat \ {0} PROVE f[x] = Newton(f, x)
      <3>1. PICK y \in Int : y = (x + n \div x) \div 2
        BY QuotientAtLeast
      <3> HIDE DEF Newton, Down
      <3>2. /\ y \in Nat \ {0}
            /\ x <= r => ~(y < x)
            /\ x > r => y < x /\ y >= r
        BY <3>1, <2>1, NewtonStep
      <3> USE DEF Newton
      <3>3. Newton(f, x) = IF y < x THEN f[y] ELSE x
        BY <3>1
      <3>4. f[x] = IF x <= r THEN x ELSE r
        BY <2>2
      <3>5. f[y] = IF y <= r THEN y ELSE r
        BY <2>2, <3>2
      <3> HIDE DEF Newton
      <3>6. CASE x <= r
        BY <3>2, <3>3, <3>4, <3>6
      <3>7. CASE x > r
        BY <3>2, <3>3, <3>4, <3>5, <3>7
      <3> QED
        BY <3>6, <3>7
    <2>4. f = Down(f)
      BY <2>2, <2>3
    <2>5. PICK d : d = CHOOSE g : g = Down(g)
      OBVIOUS
    <2>6. d = Down(d)
      BY <2>4, <2>5
    <2>7. ASSUME NEW x \in Nat \ {0} PROVE d[x] = Newton(d, x)
      BY <2>6
    <2>8. \A x \in Nat \ {0} : d[x] = f[x]
      <3> SUFFICES ASSUME NEW z \in Nat \ {0}, d[z] # f[z] PROVE FALSE
        OBVIOUS
      <3>1. PICK T : T = {x \in Nat \ {0} : d[x] # f[x]}
        OBVIOUS
      <3>2. T \in SUBSET Nat /\ T # {}
        BY <3>1
      <3>3. PICK m \in T : \A k \in T : m <= k
        BY <3>2, LeastOf
      <3>4. m \in Nat \ {0} /\ d[m] # f[m]
        BY <3>1
      <3>5. PICK y \in Int : y = (m + n \div m) \div 2
        BY <3>4, QuotientAtLeast
      <3>6. y \in Nat \ {0}
        BY <3>5, <3>4, <2>1, NewtonStep
      <3>7. d[m] = IF y < m THEN d[y] ELSE m
        BY <3>5, <3>4, <2>7
      <3>8. f[m] = IF y < m THEN f[y] ELSE m
        BY <3>5, <3>4, <2>3
      <3>9. y < m /\ d[y] # f[y]
        BY <3>4, <3>7, <3>8
      <3> QED
        BY <3>1, <3>3, <3>4, <3>6, <3>9
    <2>9. ISqrt(n) = d[n]
      BY <1>2, <2>5 DEF ISqrt
    <2>10. f[n] = r
      <3>1. r <= r * r
        BY <2>1
      <3>2. r <= n
        BY <3>1 DEF IsRoot
      <3> QED
        BY <3>2, <1>2, <2>2
    <2> QED
      BY <1>2, <2>8, <2>9, <2>10
  <1> QED
    BY <1>1, <1>2

(* The size of a number, and how squares go with it.                       *)
Abs(v) == IF v >= 0 THEN v ELSE -v

LEMMA SquareUp ==
  ASSUME NEW a \in Nat, NEW b \in Nat, a <= b
  PROVE  a * a <= b * b
  <1>1. a * a <= a * b
    OBVIOUS
  <1>2. a * b <= b * b
    OBVIOUS
  <1> QED
    BY <1>1, <1>2

LEMMA SquareDown ==
  ASSUME NEW a \in Nat, NEW b \in Nat, a * a <= b * b
  PROVE  a <= b
  <1> SUFFICES ASSUME b + 1 <= a PROVE FALSE
    OBVIOUS
  <1>1. (b + 1) * (b + 1) <= a * a
    BY SquareUp
  <1>2. (b + 1) * (b + 1) = b * b + b + b + 1
    OBVIOUS
  <1> QED
    BY <1>1, <1>2

LEMMA AbsSquare ==
  ASSUME NEW v \in Int
  PROVE  Abs(v) \in Nat /\ Abs(v) * Abs(v) = v * v
  BY DEF Abs

(* Division of C++ never rounds away from zero, and its rest is smaller    *)
(* than the divisor.                                                       *)
LEMMA QuotBounds ==
  ASSUME NEW n \in Int, NEW d \in Nat \ {0}
  PROVE  /\ Quot(n, d) \in Int /\ Rem(n, d) \in Int
         /\ Abs(Quot(n, d)) * d <= Abs(n)
         /\ Abs(Rem(n, d)) < d
  <1>1. ASSUME NEW m \in Nat
        PROVE  \E q \in Nat, e \in Nat : m = q * d + e /\ e < d /\ q = m \div d
    <2>1. PICK q \in Nat : q = m \div d
      BY QuotientAtLeast
    <2>2. q * d <= m
      BY <2>1, QuotientAtLeast
    <2>3. ~((q + 1) * d <= m)
      BY <2>1, QuotientAtLeast
    <2>4. (q + 1) * d = q * d + d
      OBVIOUS
    <2>5. m - q * d \in Nat /\ m - q * d < d /\ m = q * d + (m - q * d)
      BY <2>2, <2>3, <2>4
    <2> QED
      BY <2>1, <2>5
  <1>2. PICK m \in Nat : m = Abs(n)
    BY AbsSquare
  <1>3. PICK q \in Nat, e \in Nat : m = q * d + e /\ e < d /\ q = m \div d
    BY <1>1
  <1>4. CASE n >= 0
    <2>1. n = m
      BY <1>2, <1>4 DEF Abs
    <2>2. Quot(n, d) = q
      BY <2>1, <1>3, <1>4 DEF Quot
    <2>3. Rem(n, d) = e
      BY <2>1, <2>2, <1>3 DEF Rem
    <2> QED
      BY <2>2, <2>3, <1>2, <1>3 DEF Abs
  <1>5. CASE n < 0
    <2>1. -n = m
      BY <1>2, <1>5 DEF Abs
    <2>2. Quot(n, d) = -q
      BY <2>1, <1>3, <1>5 DEF Quot
    <2>3. Rem(n, d) = -e
      <3>1. d * (-q) = -(q * d)
        OBVIOUS
      <3> QED
        BY <2>1, <2>2, <3>1, <1>3 DEF Rem
    <2>4. Abs(-q) = q /\ Abs(-e) = e
      BY DEF Abs
    <2> QED
      BY <2>2, <2>3, <2>4, <1>2, <1>3
  <1> QED
    BY <1>4, <1>5

LEMMA SquareScaled ==
  ASSUME NEW a \in Nat, NEW b \in Nat, NEW d \in Nat, a * d <= b
  PROVE  (a * a) * (d * d) <= b * b
  <1>1. a * d \in Nat
    OBVIOUS
  <1>2. (a * d) * (a * d) <= b * b
    BY <1>1, SquareUp
  <1>3. (a * d) * (a * d) = (a * a) * (d * d)
    OBVIOUS
  <1> QED
    BY <1>2, <1>3

(* The square of a quotient.                                               *)
LEMMA QuotSquare ==
  ASSUME NEW n \in Int, NEW d \in Nat \ {0}, NEW q \in Int, q = Quot(n, d)
  PROVE  (q * q) * (d * d) <= n * n
  <1>1. PICK a \in Nat : a = Abs(q)
    BY AbsSquare
  <1>2. PICK b \in Nat : b = Abs(n)
    BY AbsSquare
  <1>3. a * d <= b
    BY <1>1, <1>2, QuotBounds
  <1>4. (a * a) * (d * d) <= b * b
    BY <1>3, SquareScaled
  <1>5. a * a = q * q /\ b * b = n * n
    BY <1>1, <1>2, AbsSquare
  <1> QED
    BY <1>4, <1>5

(* No input is longer than 1001 thousandths once it is sanitized: the root *)
(* is rounded down, which may leave one above 1000 as it is.               *)
LEMMA SanitizeBounds ==
  ASSUME NEW in \in Input
  PROVE  /\ SanitizeInput(in).x \in Int /\ SanitizeInput(in).y \in Int
         /\ SanitizeInput(in).x * SanitizeInput(in).x +
            SanitizeInput(in).y * SanitizeInput(in).y <= 1002001
  <1>1. PICK x \in Int : x = Within(in.x, -1000, 1000) /\ -1000 <= x /\ x <= 1000
    BY SMTT(20) DEF Within, Input
  <1>2. PICK y \in Int : y = Within(in.y, -1000, 1000) /\ -1000 <= y /\ y <= 1000
    BY SMTT(20) DEF Within, Input
  <1>3. PICK X \in Nat : X = x * x
    BY AbsSquare, SMTT(20)
  <1>4. PICK Y \in Nat : Y = y * y
    BY AbsSquare, SMTT(20)
  <1>5. PICK size \in Nat : size = X + Y
    BY SMTT(20)
  <1>a. x * x + y * y = size
    BY <1>3, <1>4, <1>5, SMTT(20)
  <1>b. PICK t : t = SanitizeInput(in)
    BY SMTT(20)
  <1>c. t.x = Shortened(x, size) /\ t.y = Shortened(y, size)
    BY <1>1, <1>2, <1>a, <1>b, SMTT(20) DEF SanitizeInput
  <1>6. CASE size <= 1000000
    <2>1. x = Shortened(x, size) /\ y = Shortened(y, size)
      BY <1>6, SMTT(20) DEF Shortened
    <2>2. t.x = x /\ t.y = y
      BY <1>c, <2>1, SMTT(20)
    <2>3. x * x + y * y <= 1002001
      BY <1>3, <1>4, <1>5, <1>6, SMTT(20)
    <2> QED
      BY <1>b, <2>2, <2>3, SMTT(20)
  <1>7. CASE size > 1000000
    <2>1. PICK r \in Nat : IsRoot(r, size)
      BY RootExists, SMTT(20)
    <2>2. ISqrt(size) = r
      BY <2>1, ISqrtIsRoot, SMTT(20)
    <2>3. r >= 1000 /\ size < (r + 1) * (r + 1)
      <3> SUFFICES ASSUME r + 1 <= 1000 PROVE FALSE
        BY <2>1, SMTT(20) DEF IsRoot
      <3>1. (r + 1) * (r + 1) <= 1000 * 1000
        BY SquareUp, SMTT(20)
      <3> QED
        BY <3>1, <2>1, <1>7, SMTT(20) DEF IsRoot
    <2>4. PICK cx \in Int : cx = Quot(x * 1000, r)
      BY <2>3, QuotBounds, SMTT(20)
    <2>5. PICK cy \in Int : cy = Quot(y * 1000, r)
      BY <2>3, QuotBounds, SMTT(20)
    <2>6. t.x = cx /\ t.y = cy
      <3>1. cx = Shortened(x, size) /\ cy = Shortened(y, size)
        BY <1>7, <2>2, <2>4, <2>5, SMTT(20) DEF Shortened
      <3> QED
        BY <1>c, <3>1, SMTT(20)
    <2>7. PICK C \in Nat : C = cx * cx
      BY AbsSquare, SMTT(20)
    <2>8. PICK D \in Nat : D = cy * cy
      BY AbsSquare, SMTT(20)
    <2>9. PICK R \in Nat : R = r * r
      BY AbsSquare, SMTT(20)
    <2>10. C * R <= 1000000 * X
      <3>1. (cx * cx) * (r * r) <= (x * 1000) * (x * 1000)
        BY <2>3, <2>4, QuotSquare, SMTT(20)
      <3>2. (x * 1000) * (x * 1000) = 1000000 * (x * x)
        BY SMTT(20)
      <3> QED
        BY <3>1, <3>2, <1>3, <2>7, <2>9, SMTT(20)
    <2>11. D * R <= 1000000 * Y
      <3>1. (cy * cy) * (r * r) <= (y * 1000) * (y * 1000)
        BY <2>3, <2>5, QuotSquare, SMTT(20)
      <3>2. (y * 1000) * (y * 1000) = 1000000 * (y * y)
        BY SMTT(20)
      <3> QED
        BY <3>1, <3>2, <1>4, <2>8, <2>9, SMTT(20)
    <2>12. (C + D) * R < 1000000 * (R + 2 * r + 1)
      <3>1. (r + 1) * (r + 1) = R + 2 * r + 1
        BY <2>9, SMTT(20)
      <3>2. size < R + 2 * r + 1
        BY <2>3, <3>1, SMTT(20)
      <3>3. (C + D) * R = C * R + D * R
        BY SMTT(20)
      <3> QED
        BY <3>2, <3>3, <2>10, <2>11, <1>5, SMTT(20)
    <2>13. C + D <= 1002001
      <3> SUFFICES ASSUME C + D >= 1002002 PROVE FALSE
        BY SMTT(20)
      <3>1. 1002002 * R <= (C + D) * R
        BY SMTT(20)
      <3>2. R >= 1000 * r
        BY <2>3, <2>9, SMTT(20)
      <3>3. 2002 * R >= 2002 * (1000 * r)
        BY <3>2, SMTT(20)
      <3> QED
        BY <3>1, <3>3, <2>3, <2>12, SMTT(20)
    <2>14. cx * cx + cy * cy <= 1002001
      BY <2>7, <2>8, <2>13, SMTT(20)
    <2> QED
      BY <1>b, <2>6, <2>14, SMTT(20)
  <1> QED
    BY <1>6, <1>7, SMTT(20)

(* A product of natural numbers grows with each of them.                   *)
LEMMA ProductUp ==
  ASSUME NEW a \in Nat, NEW b \in Nat, NEW c \in Nat, NEW d \in Nat, a <= c, b <= d
  PROVE  a * b <= c * d
  <1>1. a * b <= c * b
    OBVIOUS
  <1>2. c * b <= c * d
    OBVIOUS
  <1>3. a * b \in Nat /\ c * b \in Nat /\ c * d \in Nat
    OBVIOUS
  <1> QED
    BY <1>1, <1>2, <1>3

(* The velocities of a step: at most 901 centimetres per second together.  *)
LEMMA VelocityBounds ==
  ASSUME NEW x \in Int, NEW y \in Int, x * x + y * y <= 1002001,
         NEW speed \in Nat, speed <= 900,
         NEW vx \in Int, vx = Quot(x * speed, 1000),
         NEW vy \in Int, vy = Quot(y * speed, 1000)
  PROVE  vx * vx + vy * vy <= 811620
  <1>1. PICK X \in Nat : X = x * x
    BY AbsSquare, SMTT(20)
  <1>2. PICK Y \in Nat : Y = y * y
    BY AbsSquare, SMTT(20)
  <1>3. PICK S \in Nat : S = speed * speed /\ S <= 810000
    <2>1. speed * speed <= 900 * 900
      BY SquareUp, SMTT(20)
    <2> QED
      BY <2>1, SMTT(20)
  <1>4. PICK A \in Nat : A = vx * vx
    BY AbsSquare, SMTT(20)
  <1>5. PICK B \in Nat : B = vy * vy
    BY AbsSquare, SMTT(20)
  <1>6. A * 1000000 <= X * S
    <2>1. (vx * vx) * (1000 * 1000) <= (x * speed) * (x * speed)
      BY QuotSquare, SMTT(20)
    <2>2. (x * speed) * (x * speed) = (x * x) * (speed * speed)
      BY SMTT(20)
    <2> QED
      BY <2>1, <2>2, <1>1, <1>3, <1>4, SMTT(20)
  <1>7. B * 1000000 <= Y * S
    <2>1. (vy * vy) * (1000 * 1000) <= (y * speed) * (y * speed)
      BY QuotSquare, SMTT(20)
    <2>2. (y * speed) * (y * speed) = (y * y) * (speed * speed)
      BY SMTT(20)
    <2> QED
      BY <2>1, <2>2, <1>2, <1>3, <1>5, SMTT(20)
  <1>8. X * S + Y * S <= 1002001 * 810000
    <2>1. X * S + Y * S = (X + Y) * S
      BY SMTT(20)
    <2>2. X + Y <= 1002001
      BY <1>1, <1>2, SMTT(20)
    <2>3. (X + Y) * S <= 1002001 * 810000
      BY <2>2, <1>3, ProductUp, SMTT(20)
    <2> QED
      BY <2>1, <2>3, SMTT(20)
  <1>9. A + B <= 811620
    BY <1>6, <1>7, <1>8, SMTT(20)
  <1> QED
    BY <1>4, <1>5, <1>9, SMTT(20)

(* The way of a step along one axis, with the rest carried over.           *)
LEMMA TravelTypes ==
  ASSUME NEW v \in Int, NEW f \in Fraction
  PROVE  Travel(v, f) \in Int /\ Rest(v, f) \in Fraction
  <1>1. PICK n \in Int : n = v * TICK_MS + f
    BY DEF Fraction, TICK_MS
  <1>2. Quot(n, 1000) \in Int
    BY QuotBounds
  <1>3. PICK e \in Int : e = Rem(n, 1000) /\ Abs(e) < 1000
    BY QuotBounds
  <1>4. e \in Fraction
    BY <1>3 DEF Fraction, Abs
  <1> QED
    BY <1>1, <1>2, <1>3, <1>4 DEF Travel, Rest

LEMMA TravelBounds ==
  ASSUME NEW v \in Int, NEW f \in Fraction
  PROVE  (Travel(v, f) * Travel(v, f)) * 1000000
           <= 1089 * (v * v) + 65934 * Abs(v) + 998001
  <1>1. PICK n \in Int : n = v * TICK_MS + f
    BY SMTT(20) DEF Fraction, TICK_MS
  <1>2. PICK d \in Int : d = Quot(n, 1000)
    BY QuotBounds, SMTT(20)
  <1>4. (d * d) * (1000 * 1000) <= n * n
    BY <1>2, QuotSquare, SMTT(20)
  <1>5. PICK a \in Nat : a = Abs(v) /\ a * a = v * v
    BY AbsSquare
  <1>6. PICK b \in Nat : b = Abs(n) /\ b * b = n * n
    BY AbsSquare
  <1>7. b <= 33 * a + 999
    BY <1>1, <1>5, <1>6, SMTT(20) DEF Abs, Fraction, TICK_MS
  <1>8. b * b <= (33 * a + 999) * (33 * a + 999)
    BY <1>7, SquareUp, SMTT(20)
  <1>9. (33 * a + 999) * (33 * a + 999) = 1089 * (a * a) + 65934 * a + 998001
    BY SMTT(20)
  <1>10. Travel(v, f) = d
    BY <1>1, <1>2, SMTT(20) DEF Travel
  <1>11. (d * d) * 1000000 <= 1089 * (v * v) + 65934 * Abs(v) + 998001
    BY <1>4, <1>5, <1>6, <1>8, <1>9, SMTT(20)
  <1> QED
    BY <1>10, <1>11, SMTT(20)

(* Both axes together stay within MAX_STEP.                                *)
LEMMA StepBounds ==
  ASSUME NEW vx \in Int, NEW vy \in Int, vx * vx + vy * vy <= 811620,
         NEW fx \in Fraction, NEW fy \in Fraction,
         NEW dx \in Int, dx = Travel(vx, fx), NEW dy \in Int, dy = Travel(vy, fy)
  PROVE  dx * dx + dy * dy <= 969
  <1>1. PICK a \in Nat : a = Abs(vx) /\ a * a = vx * vx
    BY AbsSquare, SMTT(20)
  <1>2. PICK b \in Nat : b = Abs(vy) /\ b * b = vy * vy
    BY AbsSquare, SMTT(20)
  <1>3. PICK A \in Nat : A = a * a
    BY SMTT(20)
  <1>4. PICK B \in Nat : B = b * b
    BY SMTT(20)
  <1>5. A + B <= 811620
    BY <1>1, <1>2, <1>3, <1>4, SMTT(20)
  <1>6. a + b <= 1274
    <2>1. (a + b) * (a + b) + (a - b) * (a - b) = 2 * A + 2 * B
      BY <1>3, <1>4, SMTT(20)
    <2>2. (a - b) * (a - b) >= 0
      <3>1. \A e \in Int : e * e >= 0
        BY AbsSquare, SMTT(20)
      <3> QED
        BY <3>1, SMTT(20)
    <2>3. PICK t \in Nat : t = a + b
      BY SMTT(20)
    <2>4. t * t <= 1274 * 1274
      BY <2>1, <2>2, <2>3, <1>5, SMTT(20)
    <2> QED
      BY <2>3, <2>4, SquareDown, SMTT(20)
  <1>7. PICK C \in Nat : C = dx * dx
    BY AbsSquare, SMTT(20)
  <1>8. PICK D \in Nat : D = dy * dy
    BY AbsSquare, SMTT(20)
  <1>9. C * 1000000 <= 1089 * A + 65934 * a + 998001
    BY <1>1, <1>3, <1>7, TravelBounds, SMTT(20)
  <1>10. D * 1000000 <= 1089 * B + 65934 * b + 998001
    BY <1>2, <1>4, <1>8, TravelBounds, SMTT(20)
  <1>11. C + D <= 969
    BY <1>5, <1>6, <1>9, <1>10, SMTT(20)
  <1> QED
    BY <1>7, <1>8, <1>11, SMTT(20)

(* The axes along which somebody who stands in an open cell goes lead to   *)
(* an open cell, and not further than the step.                            *)
LEMMA SlideOpen ==
  ASSUME NEW p, p.x \in Int, p.y \in Int, IsWalkable(p),
         NEW dx \in Int, NEW dy \in Int, NEW t, t = Slide(p, dx, dy)
  PROVE  /\ t.x \in Int /\ t.y \in Int /\ IsWalkable(t)
         /\ Distance2DSq(p, t) <= dx * dx + dy * dy
  <1>1. ASSUME NEW x \in Int, NEW y \in Int, t = [x |-> p.x + x, y |-> p.y + y],
               x = 0 \/ x = dx, y = 0 \/ y = dy, IsWalkable(t)
        PROVE  /\ t.x \in Int /\ t.y \in Int /\ IsWalkable(t)
               /\ Distance2DSq(p, t) <= dx * dx + dy * dy
    <2>1. t.x = p.x + x /\ t.y = p.y + y
      BY <1>1
    <2>2. PICK X \in Nat : X = dx * dx
      BY AbsSquare
    <2>3. PICK Y \in Nat : Y = dy * dy
      BY AbsSquare
    <2>4. Distance2DSq(p, t) = x * x + y * y
      <3>1. p.x - t.x = -x /\ p.y - t.y = -y
        BY <2>1
      <3>2. \A v \in Int : (-v) * (-v) = v * v
        OBVIOUS
      <3> QED
        BY <3>1, <3>2 DEF Distance2DSq
    <2>5. x * x <= X /\ y * y <= Y
      BY <1>1, <2>2, <2>3
    <2> QED
      BY <1>1, <2>1, <2>2, <2>3, <2>4, <2>5
  <1>2. PICK axes : axes = Axes(p, dx, dy)
    OBVIOUS
  <1>3. t = [x |-> IF "x" \in axes THEN p.x + dx ELSE p.x,
             y |-> IF "y" \in axes THEN p.y + dy ELSE p.y]
    BY <1>2 DEF Slide
  <1>4. \/ axes = {"x", "y"} /\ IsWalkable([x |-> p.x + dx, y |-> p.y + dy])
        \/ axes = {"x"} /\ IsWalkable([x |-> p.x + dx, y |-> p.y + 0])
        \/ axes = {"y"} /\ IsWalkable([x |-> p.x + 0, y |-> p.y + dy])
        \/ axes = {}
    BY <1>2 DEF Axes
  <1>5. CASE axes = {"x", "y"} /\ IsWalkable([x |-> p.x + dx, y |-> p.y + dy])
    <2>1. t = [x |-> p.x + dx, y |-> p.y + dy]
      BY <1>3, <1>5
    <2> QED
      BY <1>1, <1>5, <2>1
  <1>6. CASE axes = {"x"} /\ IsWalkable([x |-> p.x + dx, y |-> p.y + 0])
    <2>1. t = [x |-> p.x + dx, y |-> p.y + 0]
      BY <1>3, <1>6
    <2> QED
      BY <1>1, <1>6, <2>1
  <1>7. CASE axes = {"y"} /\ IsWalkable([x |-> p.x + 0, y |-> p.y + dy])
    <2>1. t = [x |-> p.x + 0, y |-> p.y + dy]
      BY <1>3, <1>7
    <2> QED
      BY <1>1, <1>7, <2>1
  <1>8. CASE axes = {}
    <2>1. t = [x |-> p.x + 0, y |-> p.y + 0]
      BY <1>3, <1>8
    <2>2. t.x = p.x /\ t.y = p.y
      BY <2>1
    <2>3. IsWalkable(t)
      BY <2>2 DEF IsWalkable, ToCell
    <2> QED
      BY <1>1, <2>1, <2>3
  <1> QED
    BY <1>4, <1>5, <1>6, <1>7, <1>8

LEMMA HeightDimValue == HEIGHT_DIM = 1251
  BY DEF HEIGHT_DIM, HEIGHT_CELL_SIZE, WORLD_MIN_CM, WORLD_MAX_CM

LEMMA BlendInt ==
  ASSUME NEW h \in Int, NEW k \in Int, NEW t \in Int
  PROVE  Blend(h, k, t) \in Int
  <1>1. PICK m \in Int : m = (k - h) * t
    OBVIOUS
  <1>2. m \div 1024 \in Int
    OBVIOUS
  <1> QED
    BY <1>1, <1>2 DEF Blend

LEMMA SampleInt ==
  ASSUME NEW p, p.x \in Int, p.y \in Int
  PROVE  SampleHeight(p) \in Int
  <1>1. \A v \in Int : ClampGrid(v) \in 0 .. HEIGHT_DIM - 1
    BY HeightDimValue DEF ClampGrid
  <1>2. PICK fx \in Int : fx = p.x - WORLD_MIN_CM
    BY DEF WORLD_MIN_CM
  <1>3. PICK fy \in Int : fy = p.y - WORLD_MIN_CM
    BY DEF WORLD_MIN_CM
  <1>4. \A v \in Int : Quot(v, HEIGHT_CELL_SIZE) \in Int
    BY QuotBounds DEF HEIGHT_CELL_SIZE
  <1>5. PICK gx \in 0 .. HEIGHT_DIM - 1 : gx = ClampGrid(Quot(fx, HEIGHT_CELL_SIZE))
    BY <1>1, <1>4
  <1>6. PICK gy \in 0 .. HEIGHT_DIM - 1 : gy = ClampGrid(Quot(fy, HEIGHT_CELL_SIZE))
    BY <1>1, <1>4
  <1>7. gx \in Int /\ gy \in Int
    BY HeightDimValue
  <1>8. PICK nx \in 0 .. HEIGHT_DIM - 1 : nx = ClampGrid(gx + 1)
    BY <1>1, <1>7
  <1>9. PICK ny \in 0 .. HEIGHT_DIM - 1 : ny = ClampGrid(gy + 1)
    BY <1>1, <1>7
  <1>10. PICK tx \in Int : tx = Quot((fx - gx * HEIGHT_CELL_SIZE) * 1024, HEIGHT_CELL_SIZE)
    <2>1. (fx - gx * HEIGHT_CELL_SIZE) * 1024 \in Int
      BY <1>7 DEF HEIGHT_CELL_SIZE
    <2> QED
      BY <2>1, <1>4
  <1>11. PICK ty \in Int : ty = Quot((fy - gy * HEIGHT_CELL_SIZE) * 1024, HEIGHT_CELL_SIZE)
    <2>1. (fy - gy * HEIGHT_CELL_SIZE) * 1024 \in Int
      BY <1>7 DEF HEIGHT_CELL_SIZE
    <2> QED
      BY <2>1, <1>4
  <1>12. PICK near \in Int : near = Blend(HeightAt(gx, gy), HeightAt(nx, gy), tx)
    BY BlendInt, HeightAssumption
  <1>13. PICK far \in Int : far = Blend(HeightAt(gx, ny), HeightAt(nx, ny), tx)
    BY BlendInt, HeightAssumption
  <1>14. SampleHeight(p) = Blend(near, far, ty)
    BY <1>2, <1>3, <1>5, <1>6, <1>8, <1>9, <1>10, <1>11, <1>12, <1>13 DEF SampleHeight
  <1> QED
    BY <1>14, BlendInt

LEMMA WalkOpen ==
  ASSUME NEW s \in MoveState, IsWalkable(s), NEW in \in Input, NEW w, w = Walk(s, in)
  PROVE  /\ w.x \in Int /\ w.y \in Int /\ w.fx \in Fraction /\ w.fy \in Fraction
         /\ IsWalkable(w) /\ Distance2DSq(s, w) <= 969
  <1>0. /\ s.x \in Int /\ s.y \in Int /\ s.fx \in Fraction /\ s.fy \in Fraction
        /\ in.sprint \in BOOLEAN
    BY SMTT(20) DEF MoveState, Input
  <1>1. PICK x \in Int : x = SanitizeInput(in).x
    BY SanitizeBounds, SMTT(20)
  <1>2. PICK y \in Int : y = SanitizeInput(in).y
    BY SanitizeBounds, SMTT(20)
  <1>3. x * x + y * y <= 1002001
    BY <1>1, <1>2, SanitizeBounds, SMTT(20)
  <1>4. PICK speed \in Nat : /\ speed = (IF in.sprint THEN SPRINT_SPEED ELSE WALK_SPEED)
                             /\ speed <= 900
    BY <1>0, SMTT(20) DEF SPRINT_SPEED, WALK_SPEED
  <1>5. PICK vx \in Int : vx = Quot(x * speed, 1000)
    BY QuotBounds, SMTT(20)
  <1>6. PICK vy \in Int : vy = Quot(y * speed, 1000)
    BY QuotBounds, SMTT(20)
  <1>7. vx * vx + vy * vy <= 811620
    BY <1>3, <1>4, <1>5, <1>6, VelocityBounds, SMTT(20)
  <1>8. PICK dx \in Int : dx = Travel(vx, s.fx)
    BY <1>0, TravelTypes
  <1>9. PICK dy \in Int : dy = Travel(vy, s.fy)
    BY <1>0, TravelTypes
  <1>10. dx * dx + dy * dy <= 969
    BY <1>0, <1>7, <1>8, <1>9, StepBounds, SMTT(20)
  <1>11. PICK to : to = Slide(s, dx, dy)
    BY SMTT(20)
  <1>12. /\ to.x \in Int /\ to.y \in Int /\ IsWalkable(to)
         /\ Distance2DSq(s, to) <= dx * dx + dy * dy
    BY <1>0, <1>11, SlideOpen, SMTT(20)
  <1>13. PICK axes : axes = Axes(s, dx, dy)
    BY SMTT(20)
  <1>14. w = [x  |-> Within(to.x, WORLD_MIN_CM, WORLD_MAX_CM - 1),
              y  |-> Within(to.y, WORLD_MIN_CM, WORLD_MAX_CM - 1),
              fx |-> IF "x" \in axes THEN Rest(vx, s.fx) ELSE 0,
              fy |-> IF "y" \in axes THEN Rest(vy, s.fy) ELSE 0]
    BY <1>1, <1>2, <1>4, <1>5, <1>6, <1>8, <1>9, <1>11, <1>13, SMTT(20) DEF Walk
  <1>15. /\ Within(to.x, WORLD_MIN_CM, WORLD_MAX_CM - 1) = to.x
         /\ Within(to.y, WORLD_MIN_CM, WORLD_MAX_CM - 1) = to.y
    BY <1>12, SMTT(20) DEF IsWalkable, InWorld, Within, WORLD_MIN_CM, WORLD_MAX_CM
  <1>16. w.x = to.x /\ w.y = to.y
    BY <1>14, <1>15, SMTT(20)
  <1>17. w.fx \in Fraction /\ w.fy \in Fraction
    <2>1. Rest(vx, s.fx) \in Fraction /\ Rest(vy, s.fy) \in Fraction /\ 0 \in Fraction
      <3>1. 0 \in Fraction
        BY SMTT(20) DEF Fraction
      <3> QED
        BY <3>1, <1>0, TravelTypes
    <2> QED
      BY <1>14, <2>1, SMTT(20)
  <1>18. IsWalkable(w)
    BY <1>12, <1>16, SMTT(20) DEF IsWalkable, ToCell
  <1>19. Distance2DSq(s, w) <= 969
    <2>1. Distance2DSq(s, w) = Distance2DSq(s, to)
      BY <1>16, SMTT(20) DEF Distance2DSq
    <2>2. PICK m \in Int : m = Distance2DSq(s, to)
      BY <1>0, <1>12, SMTT(20) DEF Distance2DSq
    <2>3. PICK k \in Int : k = dx * dx + dy * dy
      BY SMTT(20)
    <2> QED
      BY <2>1, <2>2, <2>3, <1>10, <1>12, SMTT(20)
  <1> QED
    BY <1>12, <1>16, <1>17, <1>18, <1>19, SMTT(20)

LEMMA FallLands ==
  ASSUME NEW s \in MoveState, NEW in \in Input, NEW ground \in Int,
         NEW f, f = Fall(s, in, ground)
  PROVE  /\ f.z \in Int /\ f.vz \in Int /\ f.fz \in Fraction /\ f.grounded \in BOOLEAN
         /\ f.z >= ground /\ (f.grounded => f.z = ground)
  <1>1. /\ s.z \in Int /\ s.vz \in Int /\ s.fz \in Fraction
        /\ s.grounded \in BOOLEAN /\ in.jump \in BOOLEAN
    BY DEF MoveState, Input
  <1>2. PICK drop \in Int : drop = Quot(GRAVITY * TICK_MS, 1000)
    BY QuotBounds DEF GRAVITY, TICK_MS
  <1>4. PICK thrust \in Int : thrust = IF s.grounded /\ in.jump THEN JUMP_VELOCITY ELSE s.vz
    BY <1>1 DEF JUMP_VELOCITY
  <1>5. PICK vz \in Int :
          vz = IF (s.grounded /\ in.jump) \/ ~s.grounded THEN thrust - drop ELSE s.vz
    <2>1. thrust - drop \in Int
      OBVIOUS
    <2> QED
      BY <1>1, <2>1, Zenon
  <1>6. PICK d \in Int : d = Travel(vz, s.fz)
    BY <1>1, TravelTypes
  <1>7. PICK z \in Int : z = s.z + d
    BY <1>1
  <1>8. Rest(vz, s.fz) \in Fraction /\ 0 \in Fraction
    <2>1. 0 \in Fraction
      BY DEF Fraction
    <2> QED
      BY <2>1, <1>1, TravelTypes
  <1>9. f = IF z <= ground \/ (vz <= 0 /\ z - ground < STEP_TOLERANCE)
            THEN [z |-> ground, vz |-> 0, fz |-> 0, grounded |-> TRUE]
            ELSE [z |-> z, vz |-> vz, fz |-> Rest(vz, s.fz), grounded |-> FALSE]
    BY <1>2, <1>4, <1>5, <1>6, <1>7 DEF Fall
  <1>10. CASE z <= ground \/ (vz <= 0 /\ z - ground < STEP_TOLERANCE)
    <2>1. f = [z |-> ground, vz |-> 0, fz |-> 0, grounded |-> TRUE]
      BY <1>9, <1>10
    <2> QED
      BY <2>1, <1>8
  <1>11. CASE ~(z <= ground \/ (vz <= 0 /\ z - ground < STEP_TOLERANCE))
    <2>1. f = [z |-> z, vz |-> vz, fz |-> Rest(vz, s.fz), grounded |-> FALSE]
      BY <1>9, <1>11
    <2>2. z > ground
      BY <1>11
    <2> QED
      BY <2>1, <2>2, <1>8
  <1> QED
    BY <1>10, <1>11

LEMMA MaxStepValue == MAX_STEP = 32
  BY DEF MAX_STEP, SPRINT_SPEED, TICK_MS, Quot

(* Two bodies that close are in neighbouring sectors.                      *)
LEMMA CloseVisits ==
  ASSUME NEW p, p.x \in Int, p.y \in Int, NEW q, q.x \in Int, q.y \in Int,
         NEW d \in Nat, d <= SECTOR_SIZE, Distance2DSq(p, q) <= d * d
  PROVE  Visits(ToSector(p), ToSector(q))
  <1>1. PICK a \in Int : a = p.x - q.x
    BY SMTT(20)
  <1>2. PICK b \in Int : b = p.y - q.y
    BY SMTT(20)
  <1>3. \A e \in Int : e * e <= d * d => -12800 <= e /\ e <= 12800
    <2> SUFFICES ASSUME NEW e \in Int, e * e <= d * d PROVE -12800 <= e /\ e <= 12800
      BY SMTT(20)
    <2>1. PICK m \in Nat : m = Abs(e)
      BY AbsSquare, SMTT(20)
    <2>2. m * m <= d * d
      BY <2>1, AbsSquare, SMTT(20)
    <2>3. m <= d
      BY <2>2, SquareDown, SMTT(20)
    <2> QED
      BY <2>1, <2>3, SMTT(20) DEF Abs, SECTOR_SIZE
  <1>4. -12800 <= a /\ a <= 12800 /\ -12800 <= b /\ b <= 12800
    <2>1. PICK A \in Nat : A = a * a
      BY AbsSquare, SMTT(20)
    <2>2. PICK B \in Nat : B = b * b
      BY AbsSquare, SMTT(20)
    <2>3. A + B <= d * d
      BY <1>1, <1>2, <2>1, <2>2, SMTT(20) DEF Distance2DSq
    <2>4. a * a <= d * d /\ b * b <= d * d
      BY <2>1, <2>2, <2>3, SMTT(20)
    <2> QED
      BY <1>3, <2>4, SMTT(20)
  <1>5. PICK m \in Position : m = [x |-> p.x, y |-> p.y]
    BY DEF Position
  <1>6. PICK n \in Position : n = [x |-> q.x, y |-> q.y]
    BY DEF Position
  <1>7. Visits(ToSector(m), ToSector(n))
    BY <1>1, <1>2, <1>4, <1>5, <1>6, NearVisits, SMTT(20)
  <1>8. ToSector(m) = ToSector(p) /\ ToSector(n) = ToSector(q)
    BY <1>5, <1>6, SMTT(20) DEF ToSector
  <1> QED
    BY <1>7, <1>8, SMTT(20)

(* A step of SimulateStep, whatever the client sends, from every open spot *)
(* of every terrain and with every rest of the steps before: it ends on    *)
(* an open spot in the world, not below the ground and on it if grounded,  *)
(* no further than MAX_STEP away, in the sector where it began or in a     *)
(* neighbour (what World assumes of SimulateRead), and with rests that are *)
(* rests.                                                                  *)
THEOREM HeroStepsLegal ==
  \A s \in MoveState, in \in Input :
    IsWalkable(s) =>
      LET t == SimulateStep(s, in)
      IN /\ t \in MoveState /\ IsWalkable(t)
         /\ Distance2DSq(s, t) <= MAX_STEP * MAX_STEP
         /\ t.z >= SampleHeight(t) /\ (t.grounded => t.z = SampleHeight(t))
         /\ Visits(ToSector(s), ToSector(t))
  <1> SUFFICES ASSUME NEW s \in MoveState, NEW in \in Input, IsWalkable(s),
                      NEW t, t = SimulateStep(s, in)
               PROVE  /\ t \in MoveState /\ IsWalkable(t)
                      /\ Distance2DSq(s, t) <= MAX_STEP * MAX_STEP
                      /\ t.z >= SampleHeight(t) /\ (t.grounded => t.z = SampleHeight(t))
                      /\ Visits(ToSector(s), ToSector(t))
    BY SMTT(20)
  <1>1. PICK w : w = Walk(s, in)
    BY SMTT(20)
  <1>2. /\ w.x \in Int /\ w.y \in Int /\ w.fx \in Fraction /\ w.fy \in Fraction
        /\ IsWalkable(w) /\ Distance2DSq(s, w) <= 969
    BY <1>1, WalkOpen, SMTT(20)
  <1>3. PICK ground \in Int : ground = SampleHeight(w)
    BY <1>2, SampleInt, SMTT(20)
  <1>4. PICK f : f = Fall(s, in, ground)
    BY SMTT(20)
  <1>5. /\ f.z \in Int /\ f.vz \in Int /\ f.fz \in Fraction /\ f.grounded \in BOOLEAN
        /\ f.z >= ground /\ (f.grounded => f.z = ground)
    BY <1>4, FallLands, SMTT(20)
  <1>6. t = [x  |-> w.x,  y  |-> w.y,  z  |-> f.z, vz |-> f.vz,
             fx |-> w.fx, fy |-> w.fy, fz |-> f.fz, grounded |-> f.grounded]
    BY <1>1, <1>3, <1>4, SMTT(20) DEF SimulateStep
  <1>7. t \in MoveState
    BY <1>2, <1>5, <1>6, SMTT(20) DEF MoveState
  <1>8. t.x = w.x /\ t.y = w.y /\ t.z = f.z /\ t.grounded = f.grounded
    BY <1>6, SMTT(20)
  <1>9. IsWalkable(t)
    BY <1>2, <1>8, SMTT(20) DEF IsWalkable, ToCell
  <1>10. SampleHeight(t) = ground
    BY <1>3, <1>8, SMTT(20) DEF SampleHeight
  <1>11. Distance2DSq(s, t) <= 969
    BY <1>2, <1>8, SMTT(20) DEF Distance2DSq
  <1>12. Distance2DSq(s, t) <= MAX_STEP * MAX_STEP
    <2>1. Distance2DSq(s, t) \in Int
      BY <1>2, <1>8, SMTT(20) DEF Distance2DSq, MoveState
    <2> QED
      BY <1>11, <2>1, MaxStepValue, SMTT(20)
  <1>13. Visits(ToSector(s), ToSector(t))
    <2>1. s.x \in Int /\ s.y \in Int /\ t.x \in Int /\ t.y \in Int
      BY <1>2, <1>8, SMTT(20) DEF MoveState
    <2>2. MAX_STEP \in Nat /\ MAX_STEP <= SECTOR_SIZE
      BY MaxStepValue, SMTT(20) DEF SECTOR_SIZE
    <2> QED
      BY <1>12, <2>1, <2>2, CloseVisits, SMTT(20)
  <1> QED
    BY <1>5, <1>7, <1>8, <1>9, <1>10, <1>12, <1>13, SMTT(20)

(* A step of MoveToward, whatever the goal, the speed and the time: it     *)
(* ends on an open spot, at most a centimetre further than the way that    *)
(* the monster makes in that time, and, unless that is a whole sector, in  *)
(* the same or a neighbouring sector (what World assumes of MonsterMove).  *)
THEOREM MonsterStepsLegal ==
  \A p, goal \in Position, speed \in Int, dt \in Nat :
    IsWalkable(p) =>
      LET t == MoveToward(p, goal, speed, dt)
          far == Quot(speed * dt, 1000)
      IN /\ t \in Position /\ IsWalkable(t)
         /\ far <= 0 => t = p
         /\ far >= 0 => Distance2DSq(p, t) <= (far + 1) * (far + 1)
         /\ far < SECTOR_SIZE => Visits(ToSector(p), ToSector(t))
  <1> SUFFICES ASSUME NEW p \in Position, NEW goal \in Position,
                      NEW speed \in Int, NEW dt \in Nat, IsWalkable(p),
                      NEW t, t = MoveToward(p, goal, speed, dt),
                      NEW far, far = Quot(speed * dt, 1000)
               PROVE  /\ t \in Position /\ IsWalkable(t)
                      /\ far <= 0 => t = p
                      /\ far >= 0 => Distance2DSq(p, t) <= (far + 1) * (far + 1)
                      /\ far < SECTOR_SIZE => Visits(ToSector(p), ToSector(t))
    OBVIOUS
  <1>1. far \in Int
    <2>1. speed * dt \in Int
      OBVIOUS
    <2> QED
      BY <2>1, QuotBounds
  <1>2. p.x \in Int /\ p.y \in Int /\ goal.x \in Int /\ goal.y \in Int
    BY DEF Position
  <1>3. PICK dx \in Int : dx = goal.x - p.x
    BY <1>2
  <1>4. PICK dy \in Int : dy = goal.y - p.y
    BY <1>2
  <1>5. PICK D \in Nat : D = dx * dx + dy * dy
    <2>1. dx * dx \in Nat /\ dy * dy \in Nat
      BY AbsSquare
    <2> QED
      BY <2>1
  <1>6. PICK r \in Nat : IsRoot(r, D)
    BY RootExists
  <1>7. ISqrt(D) = r
    BY <1>6, ISqrtIsRoot
  <1>8. t = IF D = 0 \/ far <= 0 THEN p
            ELSE IF r <= far THEN Slide(p, dx, dy)
            ELSE Slide(p, Quot(dx * far, r), Quot(dy * far, r))
    BY <1>3, <1>4, <1>5, <1>7 DEF MoveToward
  <1> DEFINE Legal == /\ t \in Position /\ IsWalkable(t)
                      /\ far <= 0 => t = p
                      /\ far >= 0 => Distance2DSq(p, t) <= (far + 1) * (far + 1)
  <1>9. \A u, v, q : q = Slide(p, u, v) => q = [x |-> q.x, y |-> q.y]
    BY DEF Slide
  <1>10. ASSUME D = 0 \/ far <= 0 PROVE Legal
    <2>1. t = p
      BY <1>8, <1>10
    <2>2. Distance2DSq(p, t) = 0
      BY <1>2, <2>1 DEF Distance2DSq
    <2>3. far >= 0 => (far + 1) * (far + 1) >= 0
      BY <1>1, AbsSquare
    <2> QED
      BY <2>1, <2>2, <2>3
  <1>11. ASSUME D # 0 /\ far > 0 /\ r <= far PROVE Legal
    <2>1. t = Slide(p, dx, dy)
      BY <1>8, <1>11, <1>1
    <2>2. /\ t.x \in Int /\ t.y \in Int /\ IsWalkable(t)
          /\ Distance2DSq(p, t) <= D
      BY <1>2, <1>5, <2>1, SlideOpen
    <2>3. (r + 1) * (r + 1) <= (far + 1) * (far + 1)
      BY <1>1, <1>11, SquareUp
    <2>4. D < (r + 1) * (r + 1)
      BY <1>6 DEF IsRoot
    <2>5. PICK m \in Int : m = Distance2DSq(p, t)
      BY <1>2, <2>2 DEF Distance2DSq
    <2>6. m <= (far + 1) * (far + 1)
      BY <1>1, <2>2, <2>3, <2>4, <2>5
    <2>7. t \in Position
      BY <1>9, <2>1, <2>2 DEF Position
    <2> QED
      BY <1>1, <1>11, <2>2, <2>5, <2>6, <2>7
  <1>12. ASSUME D # 0 /\ far > 0 /\ r > far PROVE Legal
    <2>1. r \in Nat \ {0} /\ far \in Nat
      BY <1>1, <1>12
    <2>2. PICK u \in Int : u = Quot(dx * far, r)
      BY <2>1, QuotBounds
    <2>3. PICK v \in Int : v = Quot(dy * far, r)
      BY <2>1, QuotBounds
    <2>4. t = Slide(p, u, v)
      BY <1>1, <1>8, <1>12, <2>2, <2>3
    <2>5. /\ t.x \in Int /\ t.y \in Int /\ IsWalkable(t)
          /\ Distance2DSq(p, t) <= u * u + v * v
      BY <1>2, <2>4, SlideOpen
    <2>6. PICK U \in Nat : U = u * u
      BY AbsSquare
    <2>7. PICK V \in Nat : V = v * v
      BY AbsSquare
    <2>8. PICK R \in Nat : R = r * r
      BY AbsSquare
    <2>9. PICK F \in Nat : F = far * far
      BY <2>1, AbsSquare
    <2>10. U * R <= (dx * dx) * F
      <3>1. (u * u) * (r * r) <= (dx * far) * (dx * far)
        BY <2>1, <2>2, QuotSquare
      <3>2. (dx * far) * (dx * far) = (dx * dx) * (far * far)
        BY <2>1
      <3> QED
        BY <3>1, <3>2, <2>6, <2>8, <2>9
    <2>11. V * R <= (dy * dy) * F
      <3>1. (v * v) * (r * r) <= (dy * far) * (dy * far)
        BY <2>1, <2>3, QuotSquare
      <3>2. (dy * far) * (dy * far) = (dy * dy) * (far * far)
        BY <2>1
      <3> QED
        BY <3>1, <3>2, <2>7, <2>8, <2>9
    <2>12. (U + V) * R <= D * F
      <3>1. (U + V) * R = U * R + V * R
        OBVIOUS
      <3>2. (dx * dx) * F + (dy * dy) * F = D * F
        BY <1>5
      <3> QED
        BY <3>1, <3>2, <2>10, <2>11
    <2>13. PICK w \in Nat : w = (far + 1) * (far + 1)
      BY <2>1
    <2>14. D * F <= w * R
      <3>1. D <= (r + 1) * (r + 1)
        BY <1>6 DEF IsRoot
      <3>2. D * F <= ((r + 1) * (r + 1)) * F
        BY <3>1, ProductUp
      <3>3. ((r + 1) * (r + 1)) * F = ((r + 1) * far) * ((r + 1) * far)
        BY <2>1, <2>9
      <3>4. (r + 1) * far <= (far + 1) * r
        BY <1>12, <2>1
      <3>5. ((r + 1) * far) * ((r + 1) * far) <= ((far + 1) * r) * ((far + 1) * r)
        <4>1. (r + 1) * far \in Nat /\ (far + 1) * r \in Nat
          BY <2>1
        <4> QED
          BY <3>4, <4>1, SquareUp
      <3>6. ((far + 1) * r) * ((far + 1) * r) = w * R
        BY <2>1, <2>8, <2>13
      <3> QED
        BY <3>2, <3>3, <3>5, <3>6
    <2>15. U + V <= w
      <3> SUFFICES ASSUME w + 1 <= U + V PROVE FALSE
        OBVIOUS
      <3>1. (w + 1) * R <= (U + V) * R
        BY ProductUp
      <3>2. (w + 1) * R = w * R + R
        OBVIOUS
      <3>3. R >= 1
        BY <2>1, <2>8
      <3> QED
        BY <3>1, <3>2, <3>3, <2>12, <2>14
    <2>16. PICK m \in Int : m = Distance2DSq(p, t)
      BY <1>2, <2>5 DEF Distance2DSq
    <2>17. m <= (far + 1) * (far + 1)
      BY <2>5, <2>6, <2>7, <2>13, <2>15, <2>16
    <2>18. t \in Position
      BY <1>9, <2>4, <2>5 DEF Position
    <2> QED
      BY <1>1, <1>12, <2>5, <2>16, <2>17, <2>18
  <1>13. t \in Position /\ IsWalkable(t) /\ (far <= 0 => t = p)
    BY <1>1, <1>10, <1>11, <1>12
  <1>14. far >= 0 => Distance2DSq(p, t) <= (far + 1) * (far + 1)
    BY <1>1, <1>10, <1>11, <1>12
  <1>15. far < SECTOR_SIZE => Visits(ToSector(p), ToSector(t))
    <2> SUFFICES ASSUME far < SECTOR_SIZE PROVE Visits(ToSector(p), ToSector(t))
      OBVIOUS
    <2>1. t.x \in Int /\ t.y \in Int
      BY <1>13 DEF Position
    <2>2. CASE far >= 0
      <3>1. far + 1 \in Nat /\ far + 1 <= SECTOR_SIZE
        BY <1>1, <2>2 DEF SECTOR_SIZE
      <3> QED
        BY <1>2, <1>14, <2>1, <2>2, <3>1, CloseVisits
    <2>3. CASE far < 0
      <3>1. t = p
        BY <1>1, <1>13, <2>3
      <3>2. Distance2DSq(p, t) <= 0 * 0
        BY <1>2, <3>1 DEF Distance2DSq
      <3> QED
        BY <1>2, <3>1, <3>2, CloseVisits DEF SECTOR_SIZE
    <2> QED
      BY <1>1, <2>2, <2>3
  <1> QED
    BY <1>13, <1>14, <1>15

-----------------------------------------------------------------------------
(* Recursion.                                                              *)

Unfolds(f, b, F) == f[0] = b /\ \A n \in Nat \ {0} : f[n] = F[<<n, f[n - 1]>>]

(* A recursion over the natural numbers has a solution, if each step leads *)
(* from S to S.                                                            *)
LEMMA RecursionExists ==
  ASSUME NEW S, NEW b \in S, NEW F \in [Nat \X S -> S]
  PROVE  \E f \in [Nat -> S] : Unfolds(f, b, F)
  <1> DEFINE Solves(n, h) == /\ h[0] = b
                             /\ \A k \in 1 .. n : h[k] = F[<<k, h[k - 1]>>]
  <1>1. \A n \in Nat : \E h \in [0 .. n -> S] : Solves(n, h)
    <2> SUFFICES ASSUME NEW z \in Nat, ~ \E h \in [0 .. z -> S] : Solves(z, h) PROVE FALSE
      OBVIOUS
    <2>1. PICK T : T = {n \in Nat : ~ \E h \in [0 .. n -> S] : Solves(n, h)}
      OBVIOUS
    <2> HIDE DEF Solves
    <2>2. PICK m \in T : \A k \in T : m <= k
      BY <2>1, LeastOf
    <2>3. m \in Nat /\ ~ \E h \in [0 .. m -> S] : Solves(m, h)
      BY <2>1
    <2>4. CASE m = 0
      <3>1. [k \in 0 .. 0 |-> b] \in [0 .. m -> S]
        BY <2>4
      <3>2. Solves(m, [k \in 0 .. 0 |-> b])
        BY <2>4 DEF Solves
      <3> QED
        BY <2>3, <3>1, <3>2
    <2>5. CASE m # 0
      <3>1. m - 1 \in Nat /\ m - 1 \notin T
        BY <2>2, <2>3, <2>5
      <3>2. PICK h \in [0 .. m - 1 -> S] : Solves(m - 1, h)
        BY <2>1, <3>1
      <3>3. F[<<m, h[m - 1]>>] \in S
        BY <2>3, <2>5
      <3>4. PICK j : j = [k \in 0 .. m |-> IF k = m THEN F[<<m, h[m - 1]>>] ELSE h[k]]
        OBVIOUS
      <3>5. j \in [0 .. m -> S]
        BY <2>3, <2>5, <3>3, <3>4
      <3>6. Solves(m, j)
        <4>1. j[0] = b
          BY <2>3, <2>5, <3>2, <3>4 DEF Solves
        <4>2. ASSUME NEW k \in 1 .. m PROVE j[k] = F[<<k, j[k - 1]>>]
          <5>1. k - 1 \in 0 .. m /\ k - 1 # m /\ k \in 0 .. m
            BY <2>3
          <5>2. j[k - 1] = h[k - 1]
            BY <3>4, <5>1
          <5>3. CASE k = m
            BY <3>4, <5>1, <5>2, <5>3
          <5>4. CASE k # m
            <6>1. k \in 1 .. m - 1
              BY <2>3, <5>4
            <6>2. j[k] = h[k]
              BY <3>4, <5>1, <5>4
            <6> QED
              BY <3>2, <5>2, <6>1, <6>2 DEF Solves
          <5> QED
            BY <5>3, <5>4
        <4> QED
          BY <4>1, <4>2 DEF Solves
      <3> QED
        BY <2>3, <3>5, <3>6
    <2> QED
      BY <2>4, <2>5
  <1>2. \A n \in Nat : \A h, j : Solves(n, h) /\ Solves(n + 1, j) => \A k \in 0 .. n : h[k] = j[k]
    <2> SUFFICES ASSUME NEW n \in Nat, NEW h, NEW j, Solves(n, h), Solves(n + 1, j),
                        NEW z \in 0 .. n, h[z] # j[z]
                 PROVE  FALSE
      OBVIOUS
    <2>1. PICK T : T = {k \in 0 .. n : h[k] # j[k]}
      OBVIOUS
    <2>2. T \in SUBSET Nat /\ T # {}
      BY <2>1
    <2>3. PICK m \in T : \A k \in T : m <= k
      BY <2>2, LeastOf
    <2>4. m \in 0 .. n /\ h[m] # j[m]
      BY <2>1
    <2>5. m # 0
      BY <2>4
    <2>6. m - 1 \in 0 .. n /\ m - 1 \notin T
      BY <2>3, <2>4, <2>5
    <2>7. h[m - 1] = j[m - 1]
      BY <2>1, <2>6
    <2>8. m \in 1 .. n /\ m \in 1 .. n + 1
      BY <2>4, <2>5
    <2> QED
      BY <2>4, <2>7, <2>8
  <1>3. PICK hs : hs = [n \in Nat |-> CHOOSE h \in [0 .. n -> S] : Solves(n, h)]
    OBVIOUS
  <1> HIDE DEF Solves
  <1>4. \A n \in Nat : hs[n] \in [0 .. n -> S] /\ Solves(n, hs[n])
    BY <1>1, <1>3
  <1>5. PICK f : f = [n \in Nat |-> hs[n][n]]
    OBVIOUS
  <1>6. f \in [Nat -> S]
    BY <1>4, <1>5
  <1>7. ASSUME NEW n \in Nat PROVE f[n] = IF n = 0 THEN b ELSE F[<<n, f[n - 1]>>]
    <2>1. CASE n = 0
      BY <1>4, <1>5, <2>1 DEF Solves
    <2>2. CASE n # 0
      <3>1. n - 1 \in Nat /\ n \in 1 .. n /\ (n - 1) + 1 = n /\ n - 1 \in 0 .. n - 1
        BY <2>2
      <3>2. Solves(n, hs[n]) /\ Solves(n - 1, hs[n - 1])
        BY <1>4, <3>1
      <3>3. hs[n - 1][n - 1] = hs[n][n - 1]
        BY <1>2, <3>1, <3>2
      <3>4. hs[n][n] = F[<<n, hs[n][n - 1]>>]
        BY <3>1, <3>2 DEF Solves
      <3> QED
        BY <1>5, <2>2, <3>1, <3>3, <3>4
    <2> QED
      BY <2>1, <2>2
  <1> QED
    BY <1>6, <1>7 DEF Unfolds

-----------------------------------------------------------------------------
(* Path finding.                                                           *)

Cell == Int \X Int

StepCost(m, k) == COST(<<k[1] - m[1], k[2] - m[2]>>)

LEMMA CostValue == \A m, k : StepCost(m, k) \in {10, 14}
  BY DEF StepCost, COST

LEMMA HeuristicType ==
  ASSUME NEW k \in Cell, NEW d \in Cell
  PROVE  Heuristic(k, d) \in Nat /\ Heuristic(d, d) = 0
  <1>1. k[1] \in Int /\ k[2] \in Int /\ d[1] \in Int /\ d[2] \in Int
    BY DEF Cell
  <1> QED
    BY <1>1 DEF Heuristic, Size, Least, Greatest

(* A step to a neighbour brings the goal nearer by no more than it costs.  *)
LEMMA HeuristicStep ==
  ASSUME NEW m \in Cell, NEW k \in Cell, NEW d \in Cell, m # k,
         \A i \in {1, 2} : k[i] - m[i] \in -1 .. 1
  PROVE  Heuristic(m, d) <= StepCost(m, k) + Heuristic(k, d)
  <1>1. /\ m[1] \in Int /\ m[2] \in Int /\ d[1] \in Int /\ d[2] \in Int
        /\ k[1] - m[1] \in -1 .. 1 /\ k[2] - m[2] \in -1 .. 1
        /\ k[1] \in Int /\ k[2] \in Int
    BY DEF Cell
  <1>2. PICK x \in Int, y \in Int, u \in -1 .. 1, v \in -1 .. 1 :
          /\ x = d[1] - m[1] /\ y = d[2] - m[2]
          /\ u = k[1] - m[1] /\ v = k[2] - m[2]
    BY <1>1
  <1>3. u # 0 \/ v # 0
    BY <1>1, <1>2 DEF Cell
  <1>4. d[1] - k[1] = x - u /\ d[2] - k[2] = y - v
    BY <1>1, <1>2
  <1> DEFINE Octile(a, b) == 14 * Least(a, b) + 10 * (Greatest(a, b) - Least(a, b))
  <1>5. /\ Heuristic(m, d) = Octile(Size(x), Size(y))
        /\ Heuristic(k, d) = Octile(Size(x - u), Size(y - v))
    BY <1>2, <1>4 DEF Heuristic
  <1>6. StepCost(m, k) = IF u # 0 /\ v # 0 THEN 14 ELSE 10
    BY <1>2 DEF StepCost, COST
  <1> HIDE DEF Octile
  <1>7. \A a, b, e, f \in Nat :
          /\ a <= e + 1 /\ b <= f + 1
          => /\ Octile(a, b) <= 14 + Octile(e, f)
             /\ a = e \/ b = f => Octile(a, b) <= 10 + Octile(e, f)
    BY DEF Octile, Least, Greatest
  <1>8. /\ Size(x) \in Nat /\ Size(y) \in Nat /\ Size(x - u) \in Nat /\ Size(y - v) \in Nat
        /\ Size(x) <= Size(x - u) + 1 /\ Size(y) <= Size(y - v) + 1
        /\ u = 0 => Size(x) = Size(x - u)
        /\ v = 0 => Size(y) = Size(y - v)
    BY DEF Size
  <1> QED
    BY <1>3, <1>5, <1>6, <1>7, <1>8

(* The cells that Better looks at are the neighbours of the references.    *)
LEMMA NearIff ==
  ASSUME open \subseteq Cell, NEW c, NEW d, NEW m \in open, NEW k
  PROVE  k \in Neighbours(c, d, m) <=>
           /\ k \in {Next8(m, dir) : dir \in {dir \in Directions : Passable(m, dir)}}
           /\ InWindow(c, d, k)
  <1>1. m \in Cell /\ m[1] \in Int /\ m[2] \in Int /\ m = <<m[1], m[2]>>
    BY DEF Cell
  <1>2. ASSUME k \in Neighbours(c, d, m)
        PROVE  k \in {Next8(m, dir) : dir \in {dir \in Directions : Passable(m, dir)}}
    <2>1. k \in open \ {m} /\ k \in Cell /\ k[1] \in Int /\ k[2] \in Int /\ k = <<k[1], k[2]>>
      BY <1>2 DEF Neighbours, Cell
    <2>2. k[1] - m[1] \in -1 .. 1 /\ k[2] - m[2] \in -1 .. 1
      BY <1>2 DEF Neighbours
    <2>3. PICK dir : dir = <<k[1] - m[1], k[2] - m[2]>>
      OBVIOUS
    <2>4. dir \in (-1 .. 1) \X (-1 .. 1) /\ dir[1] = k[1] - m[1] /\ dir[2] = k[2] - m[2]
      BY <2>2, <2>3
    <2>5. m[1] + dir[1] = k[1] /\ m[2] + dir[2] = k[2]
      BY <1>1, <2>1, <2>4
    <2>6. dir # <<0, 0>>
      BY <1>1, <2>1, <2>5
    <2>7. Next8(m, dir) = k
      BY <2>1, <2>5 DEF Next8
    <2>8. <<m[1], k[2]>> \in open /\ <<k[1], m[2]>> \in open
      BY <1>2 DEF Neighbours
    <2>9. Passable(m, dir)
      BY <2>1, <2>5, <2>7, <2>8 DEF Passable
    <2> QED
      BY <2>4, <2>6, <2>7, <2>9 DEF Directions
  <1>3. ASSUME NEW dir \in Directions, Passable(m, dir), k = Next8(m, dir), InWindow(c, d, k)
        PROVE  k \in Neighbours(c, d, m)
    <2>1. dir[1] \in -1 .. 1 /\ dir[2] \in -1 .. 1 /\ dir = <<dir[1], dir[2]>>
      BY <1>3 DEF Directions
    <2>2. dir[1] # 0 \/ dir[2] # 0
      BY <1>3, <2>1 DEF Directions
    <2>3. k \in open /\ k = <<m[1] + dir[1], m[2] + dir[2]>>
      BY <1>3 DEF Passable, Next8
    <2>4. k[1] = m[1] + dir[1] /\ k[2] = m[2] + dir[2]
      BY <2>3
    <2>5. k # m
      BY <1>1, <2>1, <2>2, <2>4
    <2>6. k[1] - m[1] \in -1 .. 1 /\ k[2] - m[2] \in -1 .. 1
      BY <1>1, <2>1, <2>4
    <2>7. <<k[1], m[2]>> \in open /\ <<m[1], k[2]>> \in open
      BY <1>3, <2>4 DEF Passable
    <2> QED
      BY <1>3, <2>3, <2>5, <2>6, <2>7 DEF Neighbours
  <1> QED
    <2>1. k \in Neighbours(c, d, m) => InWindow(c, d, k)
      BY DEF Neighbours
    <2> QED
      BY <1>2, <1>3, <2>1

LEMMA NeighbourFacts ==
  ASSUME open \subseteq Cell, NEW c, NEW d \in Cell, NEW m \in open, NEW k \in Neighbours(c, d, m)
  PROVE  /\ k \in open /\ k # m /\ k \in Cell /\ m \in Cell
         /\ InWindow(c, d, k)
         /\ StepCost(m, k) \in Nat \ {0}
         /\ Heuristic(m, d) <= StepCost(m, k) + Heuristic(k, d)
  <1>1. k \in open /\ k # m /\ InWindow(c, d, k) /\ \A i \in {1, 2} : k[i] - m[i] \in -1 .. 1
    BY DEF Neighbours
  <1> QED
    BY <1>1, HeuristicStep, CostValue

(* What the scratch buffer may hold.                                       *)
Entry == Nat \X Int \X Int

Scratch ==
  [g      : UNION {[D -> Nat] : D \in SUBSET open},
   parent : UNION {[D -> open] : D \in SUBSET open},
   heap   : SUBSET Entry]

LEMMA ScratchFacts ==
  ASSUME NEW s \in Scratch
  PROVE  /\ s.g \in [DOMAIN s.g -> Nat] /\ DOMAIN s.g \subseteq open
         /\ s.parent \in [DOMAIN s.parent -> open]
         /\ s.heap \in SUBSET Entry
  <1>1. PICK D \in SUBSET open : s.g \in [D -> Nat]
    BY DEF Scratch
  <1>2. PICK E \in SUBSET open : s.parent \in [E -> open]
    BY DEF Scratch
  <1> QED
    BY <1>1, <1>2 DEF Scratch

LEMMA ScratchMade ==
  ASSUME NEW D \in SUBSET open, NEW g \in [D -> Nat], NEW p \in [D -> open],
         NEW h \in SUBSET Entry
  PROVE  [g |-> g, parent |-> p, heap |-> h] \in Scratch
  <1>1. g \in UNION {[E -> Nat] : E \in SUBSET open}
    OBVIOUS
  <1>2. p \in UNION {[E -> open] : E \in SUBSET open}
    OBVIOUS
  <1> QED
    BY <1>1, <1>2 DEF Scratch

LEMMA EntryFacts ==
  ASSUME NEW e \in Entry
  PROVE  /\ e[1] \in Nat /\ e[2] \in Int /\ e[3] \in Int
         /\ e = <<e[1], e[2], e[3]>>
         /\ CellOf(e) \in Cell /\ CellOf(e)[1] = e[3] /\ CellOf(e)[2] = e[2]
  BY DEF Entry, CellOf, Cell

(* The entry under which a cell was entered last, and the cells of which   *)
(* this entry has left the heap.                                           *)
Key(d, s, k) == <<s.g[k] + Heuristic(k, d), k[2], k[1]>>

Shut(d, s) == {k \in DOMAIN s.g : Key(d, s, k) \notin s.heap}

(* The invariant of the search from c to d.  The parents lead back to c,   *)
(* each at a cost that is lower by that of the step at least; no entry is  *)
(* below the cost of its cell; the neighbours of a shut cell are known, at *)
(* the cost of the way through it at most; and what is shut has no higher  *)
(* rank than what is in the heap.                                          *)
Rooted(c, s) == c \in DOMAIN s.g /\ s.g[c] = 0 /\ s.parent[c] = c

Linked(c, d, s) ==
  \A k \in DOMAIN s.g \ {c} :
    /\ s.parent[k] \in DOMAIN s.g
    /\ k \in Neighbours(c, d, s.parent[k])
    /\ s.g[k] >= s.g[s.parent[k]] + StepCost(s.parent[k], k)

Entered(d, s) ==
  \A e \in s.heap : CellOf(e) \in DOMAIN s.g /\ e[1] >= s.g[CellOf(e)] + Heuristic(CellOf(e), d)

Relaxing(c, d, s) ==
  \A k \in Shut(d, s) : \A n \in Neighbours(c, d, k) :
    n \in DOMAIN s.g /\ s.g[n] <= s.g[k] + StepCost(k, n)

Ranked(d, s) ==
  \A k \in Shut(d, s), e \in s.heap : s.g[k] + Heuristic(k, d) <= e[1]

Searching(c, d, s) ==
  /\ s \in Scratch /\ DOMAIN s.parent = DOMAIN s.g
  /\ \A k \in DOMAIN s.g : InWindow(c, d, k)
  /\ IsFiniteSet(s.heap) /\ d \notin Shut(d, s)
  /\ Rooted(c, s) /\ Linked(c, d, s) /\ Entered(d, s)
  /\ Relaxing(c, d, s) /\ Ranked(d, s)

LEMMA SearchingFacts ==
  ASSUME open \subseteq Cell, NEW c \in open, NEW d \in open, NEW s, Searching(c, d, s)
  PROVE  /\ s.g \in [DOMAIN s.g -> Nat] /\ DOMAIN s.g \subseteq open
         /\ s.parent \in [DOMAIN s.g -> open]
         /\ s.heap \in SUBSET Entry
         /\ \A k \in DOMAIN s.g :
              /\ k \in Cell /\ s.g[k] \in Nat /\ Heuristic(k, d) \in Nat
              /\ Key(d, s, k) \in Entry /\ CellOf(Key(d, s, k)) = k
              /\ Key(d, s, k)[1] = s.g[k] + Heuristic(k, d)
  <1>1. /\ s.g \in [DOMAIN s.g -> Nat] /\ DOMAIN s.g \subseteq open
        /\ s.parent \in [DOMAIN s.g -> open]
        /\ s.heap \in SUBSET Entry
    BY ScratchFacts DEF Searching
  <1>2. ASSUME NEW k \in DOMAIN s.g
        PROVE  /\ k \in Cell /\ s.g[k] \in Nat /\ Heuristic(k, d) \in Nat
               /\ Key(d, s, k) \in Entry /\ CellOf(Key(d, s, k)) = k
               /\ Key(d, s, k)[1] = s.g[k] + Heuristic(k, d)
    <2>1. k \in Cell /\ d \in Cell /\ s.g[k] \in Nat
      BY <1>1
    <2>2. Heuristic(k, d) \in Nat
      BY <2>1, HeuristicType
    <2>3. k[1] \in Int /\ k[2] \in Int /\ k = <<k[1], k[2]>>
      BY <2>1 DEF Cell
    <2> QED
      BY <2>1, <2>2, <2>3 DEF Key, Entry, CellOf
  <1> QED
    BY <1>1, <1>2

(* The top of a heap that is not empty has the least rank.                 *)
LEMMA TopLeast ==
  ASSUME NEW heap \in SUBSET Entry, heap # {}, NEW x \in Int, NEW y \in Int,
         \A e \in heap : e[2] >= y /\ e[3] >= x
  PROVE  Top(heap) \in heap /\ \A e \in heap : Top(heap)[1] <= e[1]
  <1> DEFINE Before(e, k) == \/ e[1] < k[1]
                             \/ e[1] = k[1] /\ e[2] < k[2]
                             \/ e[1] = k[1] /\ e[2] = k[2] /\ e[3] <= k[3]
  <1>1. \A e \in heap : e[1] \in Nat /\ e[2] \in Int /\ e[3] \in Int /\ e[2] - y \in Nat /\ e[3] - x \in Nat
    BY EntryFacts
  <1>2. PICK a \in heap : \A e \in heap : a[1] <= e[1]
    <2>1. PICK T : T = {e[1] : e \in heap}
      OBVIOUS
    <2>2. T \in SUBSET Nat /\ T # {}
      BY <2>1, <1>1
    <2>3. PICK m \in T : \A k \in T : m <= k
      BY <2>2, LeastOf
    <2> QED
      BY <2>1, <2>3
  <1>3. PICK b \in heap : b[1] = a[1] /\ \A e \in heap : e[1] = a[1] => b[2] <= e[2]
    <2>1. PICK T : T = {e[2] - y : e \in {e \in heap : e[1] = a[1]}}
      OBVIOUS
    <2>2. T \in SUBSET Nat /\ T # {}
      BY <2>1, <1>1
    <2>3. PICK m \in T : \A k \in T : m <= k
      BY <2>2, LeastOf
    <2>4. PICK b \in heap : b[1] = a[1] /\ m = b[2] - y
      BY <2>1
    <2>5. ASSUME NEW e \in heap, e[1] = a[1] PROVE b[2] <= e[2]
      <3>1. e[2] - y \in T
        BY <2>1, <2>5
      <3> QED
        BY <3>1, <2>3, <2>4, <1>1
    <2> QED
      BY <2>4, <2>5
  <1>4. PICK t \in heap : t[1] = a[1] /\ t[2] = b[2] /\ \A e \in heap : e[1] = a[1] /\ e[2] = b[2] => t[3] <= e[3]
    <2>1. PICK T : T = {e[3] - x : e \in {e \in heap : e[1] = a[1] /\ e[2] = b[2]}}
      OBVIOUS
    <2>2. T \in SUBSET Nat /\ T # {}
      BY <2>1, <1>1, <1>3
    <2>3. PICK m \in T : \A k \in T : m <= k
      BY <2>2, LeastOf
    <2>4. PICK t \in heap : t[1] = a[1] /\ t[2] = b[2] /\ m = t[3] - x
      BY <2>1
    <2>5. ASSUME NEW e \in heap, e[1] = a[1], e[2] = b[2] PROVE t[3] <= e[3]
      <3>1. e[3] - x \in T
        BY <2>1, <2>5
      <3> QED
        BY <3>1, <2>3, <2>4, <1>1
    <2> QED
      BY <2>4, <2>5
  <1>5. \A e \in heap : Before(t, e)
    BY <1>1, <1>2, <1>3, <1>4
  <1>6. Top(heap) = CHOOSE e \in heap : \A k \in heap : Before(e, k)
    BY DEF Top
  <1> HIDE DEF Before
  <1>7. Top(heap) \in heap /\ \A k \in heap : Before(Top(heap), k)
    BY <1>5, <1>6
  <1> QED
    BY <1>1, <1>7 DEF Before

LEMMA HeapTop ==
  ASSUME open \subseteq Cell, NEW c \in open, NEW d \in open, NEW s, Searching(c, d, s),
         s.heap # {}
  PROVE  Top(s.heap) \in s.heap /\ \A e \in s.heap : Top(s.heap)[1] <= e[1]
  <1>1. /\ Least(c[1], d[1]) \in Int /\ Least(c[2], d[2]) \in Int
    BY DEF Cell, Least
  <1>2. ASSUME NEW e \in s.heap
        PROVE  e[2] >= Least(c[2], d[2]) - MARGIN /\ e[3] >= Least(c[1], d[1]) - MARGIN
    <2>1. e \in Entry /\ CellOf(e) \in DOMAIN s.g
      BY SearchingFacts DEF Searching, Entered
    <2>2. InWindow(c, d, CellOf(e))
      BY <2>1 DEF Searching
    <2>3. CellOf(e)[1] = e[3] /\ CellOf(e)[2] = e[2] /\ e[2] \in Int /\ e[3] \in Int
      BY <2>1, EntryFacts
    <2>4. /\ e[3] - (Least(c[1], d[1]) - MARGIN) \in 0 .. WINDOW - 1
          /\ e[2] - (Least(c[2], d[2]) - MARGIN) \in 0 .. WINDOW - 1
      BY <2>2, <2>3 DEF InWindow
    <2> QED
      BY <1>1, <2>3, <2>4 DEF MARGIN, WINDOW
  <1>3. PICK x \in Int, y \in Int : x = Least(c[1], d[1]) - MARGIN /\ y = Least(c[2], d[2]) - MARGIN
    BY <1>1 DEF MARGIN
  <1>4. \A e \in s.heap : e[2] >= y /\ e[3] >= x
    BY <1>2, <1>3
  <1> QED
    BY <1>4, SearchingFacts, TopLeast

(* The search begins well.                                                 *)
LEMMA StartInWindow ==
  ASSUME NEW c \in Cell, NEW d \in Cell, Fits(c, d)
  PROVE  InWindow(c, d, c)
  <1>1. c[1] \in Int /\ c[2] \in Int /\ d[1] \in Int /\ d[2] \in Int
    BY DEF Cell
  <1> QED
    BY <1>1 DEF Fits, InWindow, Size, Least, MARGIN, WINDOW

LEMMA StartSearching ==
  ASSUME open \subseteq Cell, NEW c \in open, NEW d \in open, Fits(c, d)
  PROVE  /\ Searching(c, d, Start(c, d)) /\ Shut(d, Start(c, d)) = {}
         /\ Cardinality(Start(c, d).heap) = 1
  <1>1. PICK s : s = Start(c, d)
    OBVIOUS
  <1>2. PICK h : h = Heuristic(c, d)
    OBVIOUS
  <1>3. /\ s.g = [k \in {c} |-> 0] /\ s.parent = [k \in {c} |-> c]
        /\ s.heap = {<<h, c[2], c[1]>>}
    BY <1>1, <1>2 DEF Start
  <1>4. h \in Nat /\ c \in Cell /\ c[1] \in Int /\ c[2] \in Int /\ c = <<c[1], c[2]>>
    BY <1>2, HeuristicType DEF Cell
  <1>5. DOMAIN s.g = {c} /\ s.g[c] = 0 /\ s.parent[c] = c /\ DOMAIN s.parent = {c}
    BY <1>3
  <1>6. s \in Scratch
    <2>1. s = [g |-> s.g, parent |-> s.parent, heap |-> s.heap]
      BY <1>1 DEF Start
    <2>2. s.g \in [{c} -> Nat] /\ s.parent \in [{c} -> open]
      BY <1>3
    <2>3. s.heap \in SUBSET Entry
      BY <1>3, <1>4 DEF Entry
    <2> QED
      BY <2>1, <2>2, <2>3, ScratchMade
  <1>7. Key(d, s, c) \in s.heap
    BY <1>2, <1>3, <1>4, <1>5 DEF Key
  <1>8. Shut(d, s) = {}
    BY <1>5, <1>7 DEF Shut
  <1>9. Entered(d, s)
    <2>1. ASSUME NEW e \in s.heap PROVE CellOf(e) = c /\ e[1] = h
      BY <1>3, <1>4 DEF CellOf
    <2> QED
      BY <2>1, <1>2, <1>4, <1>5 DEF Entered
  <1>10. IsFiniteSet(s.heap) /\ Cardinality(s.heap) = 1
    <2>1. PICK e : s.heap = {e}
      BY <1>3
    <2> QED
      BY <2>1, FS_Singleton, Zenon
  <1>11. \A k \in DOMAIN s.g : InWindow(c, d, k)
    <2>1. InWindow(c, d, c)
      BY StartInWindow
    <2> QED
      BY <1>5, <2>1
  <1>12. Rooted(c, s) /\ Linked(c, d, s) /\ Relaxing(c, d, s) /\ Ranked(d, s)
    BY <1>5, <1>8 DEF Rooted, Linked, Relaxing, Ranked
  <1>13. Searching(c, d, s)
    BY <1>5, <1>6, <1>8, <1>9, <1>10, <1>11, <1>12 DEF Searching
  <1> QED
    BY <1>1, <1>8, <1>10, <1>13

(* What a turn improves are neighbours of its cell, at most eight.         *)
LEMMA DirectionsCount == IsFiniteSet(Directions) /\ Cardinality(Directions) = 8
  <1>1. IsFiniteSet(-1 .. 1) /\ Cardinality(-1 .. 1) = 3
    <2>1. \A a, b \in Int : IsFiniteSet(a .. b) /\ Cardinality(a .. b) = IF a > b THEN 0 ELSE b - a + 1
      BY FS_Interval
    <2>2. -1 \in Int /\ 1 \in Int /\ ~(-1 > 1) /\ 1 - (-1) + 1 = 3
      OBVIOUS
    <2> QED
      BY <2>1, <2>2
  <1>2. IsFiniteSet((-1 .. 1) \X (-1 .. 1)) /\ Cardinality((-1 .. 1) \X (-1 .. 1)) = 9
    BY <1>1, FS_Product
  <1>3. <<0, 0>> \in (-1 .. 1) \X (-1 .. 1)
    OBVIOUS
  <1>4. Directions = ((-1 .. 1) \X (-1 .. 1)) \ {<<0, 0>>}
    BY DEF Directions
  <1> QED
    BY <1>2, <1>3, <1>4, FS_RemoveElement

(* The image of a finite set.                                              *)
LEMMA ImageCount ==
  ASSUME NEW S, IsFiniteSet(S), NEW f, DOMAIN f = S, NEW T, T \subseteq {f[x] : x \in S}
  PROVE  IsFiniteSet(T) /\ Cardinality(T) <= Cardinality(S) /\ Cardinality(T) \in Nat
  <1>1. PICK R : R = {f[x] : x \in S}
    OBVIOUS
  <1>2. PICK h : h = [x \in S |-> f[x]]
    OBVIOUS
  <1>3. h \in Surjection(S, R)
    BY <1>1, <1>2 DEF Surjection
  <1>4. IsFiniteSet(R) /\ Cardinality(R) <= Cardinality(S)
    BY <1>3, FS_Surjection
  <1>5. T \in SUBSET R
    BY <1>1
  <1>6. IsFiniteSet(T) /\ Cardinality(T) <= Cardinality(R)
    BY <1>4, <1>5, FS_Subset
  <1> QED
    BY <1>4, <1>6, FS_CardinalityType

LEMMA BetterFacts ==
  ASSUME open \subseteq Cell, NEW c, NEW d \in open, NEW s, NEW m \in open
  PROVE  /\ \A k : k \in Better(c, d, s, m) <=>
                     /\ k \in Neighbours(c, d, m)
                     /\ k \in DOMAIN s.g => s.g[k] > Through(s, m, k)
         /\ IsFiniteSet(Better(c, d, s, m)) /\ Cardinality(Better(c, d, s, m)) \in 0 .. 8
  <1>1. \A k : k \in Better(c, d, s, m) <=>
                 /\ k \in Neighbours(c, d, m)
                 /\ k \in DOMAIN s.g => s.g[k] > Through(s, m, k)
    BY NearIff DEF Better
  <1>2. PICK f : f = [dir \in Directions |-> Next8(m, dir)]
    OBVIOUS
  <1>3. Better(c, d, s, m) \subseteq {f[dir] : dir \in Directions}
    <2>1. ASSUME NEW k \in Better(c, d, s, m) PROVE \E dir \in Directions : k = Next8(m, dir)
      BY <2>1 DEF Better
    <2> QED
      BY <1>2, <2>1
  <1>4. /\ IsFiniteSet(Better(c, d, s, m)) /\ Cardinality(Better(c, d, s, m)) \in Nat
        /\ Cardinality(Better(c, d, s, m)) <= 8
    BY <1>2, <1>3, ImageCount, DirectionsCount
  <1> QED
    BY <1>1, <1>4

(* A turn that finds its entry out of date only takes it away.             *)
LEMMA TurnStale ==
  ASSUME open \subseteq Cell, IsFiniteSet(open), NEW c \in open, NEW d \in open, NEW s,
         Searching(c, d, s), s.heap # {}, NEW e, e = Top(s.heap),
         NEW m, m = CellOf(e), e # Key(d, s, m), NEW t, t = Expand(c, d, s, e)
  PROVE  /\ Searching(c, d, t) /\ Shut(d, t) = Shut(d, s)
         /\ t.heap = s.heap \ {e}
  <1>1. e \in s.heap /\ \A k \in s.heap : e[1] <= k[1]
    BY HeapTop
  <1>2. e \in Entry /\ m \in DOMAIN s.g /\ e[1] >= s.g[m] + Heuristic(m, d)
    BY <1>1, SearchingFacts DEF Searching, Entered
  <1>3. /\ m \in Cell /\ m \in open /\ s.g[m] \in Nat /\ Heuristic(m, d) \in Nat
        /\ Key(d, s, m)[1] = s.g[m] + Heuristic(m, d)
    BY <1>2, SearchingFacts
  <1>4. e[1] \in Nat /\ e = <<e[1], m[2], m[1]>>
    BY <1>2, EntryFacts
  <1>5. e[1] # s.g[m] + Heuristic(m, d)
    BY <1>4 DEF Key
  <1>6. Key(d, s, m) \notin s.heap
    BY <1>1, <1>2, <1>3, <1>4, <1>5
  <1>7. m \in Shut(d, s)
    BY <1>2, <1>6 DEF Shut
  <1>8. Better(c, d, s, m) = {}
    <2> SUFFICES ASSUME NEW k \in Better(c, d, s, m) PROVE FALSE
      OBVIOUS
    <2>1. k \in Neighbours(c, d, m) /\ (k \in DOMAIN s.g => s.g[k] > Through(s, m, k))
      BY <1>3, BetterFacts
    <2>2. k \in DOMAIN s.g /\ s.g[k] <= s.g[m] + StepCost(m, k)
      BY <1>7, <2>1 DEF Searching, Relaxing
    <2>3. Through(s, m, k) = s.g[m] + StepCost(m, k)
      BY DEF Through, StepCost
    <2>4. s.g[k] \in Nat /\ StepCost(m, k) \in Nat
      BY <2>2, SearchingFacts, CostValue
    <2> QED
      BY <1>3, <2>1, <2>2, <2>3, <2>4
  <1>9. t.g = s.g /\ t.parent = s.parent /\ t.heap = s.heap \ {e} /\ t = [g |-> s.g, parent |-> s.parent, heap |-> s.heap \ {e}]
    <2>1. t = [g |-> [k \in DOMAIN s.g |-> s.g[k]], parent |-> [k \in DOMAIN s.g |-> s.parent[k]],
               heap |-> s.heap \ {e}]
      <3>1. PICK better : better = Better(c, d, s, m)
        OBVIOUS
      <3>2. t = [g |-> [k \in better \cup DOMAIN s.g |-> IF k \in better THEN Through(s, m, k) ELSE s.g[k]],
                 parent |-> [k \in better \cup DOMAIN s.g |-> IF k \in better THEN m ELSE s.parent[k]],
                 heap |-> (s.heap \ {e}) \cup
                   {<<Through(s, m, k) + Heuristic(k, d), k[2], k[1]>> : k \in better}]
        BY <3>1 DEF Expand
      <3>3. better = {}
        BY <1>8, <3>1
      <3>4. better \cup DOMAIN s.g = DOMAIN s.g
        BY <3>3
      <3>5. {<<Through(s, m, k) + Heuristic(k, d), k[2], k[1]>> : k \in better} = {}
        BY <3>3
      <3>6. [k \in DOMAIN s.g |-> IF k \in better THEN Through(s, m, k) ELSE s.g[k]]
              = [k \in DOMAIN s.g |-> s.g[k]]
        BY <3>3
      <3>7. [k \in DOMAIN s.g |-> IF k \in better THEN m ELSE s.parent[k]]
              = [k \in DOMAIN s.g |-> s.parent[k]]
        BY <3>3
      <3>8. (s.heap \ {e}) \cup {<<Through(s, m, k) + Heuristic(k, d), k[2], k[1]>> : k \in better}
              = s.heap \ {e}
        BY <3>5
      <3> QED
        BY <3>2, <3>4, <3>6, <3>7, <3>8
    <2>2. s.g = [k \in DOMAIN s.g |-> s.g[k]] /\ s.parent = [k \in DOMAIN s.g |-> s.parent[k]]
      BY SearchingFacts
    <2> QED
      BY <2>1, <2>2
  <1>10. Shut(d, t) = Shut(d, s)
    <2>1. ASSUME NEW k \in DOMAIN s.g PROVE Key(d, t, k) = Key(d, s, k) /\ Key(d, s, k) # e
      <3>1. Key(d, t, k) = Key(d, s, k)
        BY <1>9 DEF Key
      <3>2. CellOf(Key(d, s, k)) = k
        BY SearchingFacts
      <3> QED
        BY <3>1, <3>2
    <2> QED
      BY <1>9, <2>1 DEF Shut
  <1>11. t \in Scratch
    <2>1. s.heap \ {e} \in SUBSET Entry /\ s.parent \in [DOMAIN s.g -> open]
          /\ s.g \in [DOMAIN s.g -> Nat] /\ DOMAIN s.g \in SUBSET open
      BY SearchingFacts
    <2> QED
      BY <1>9, <2>1, ScratchMade
  <1>12. IsFiniteSet(t.heap)
    BY <1>9, FS_RemoveElement DEF Searching
  <1>13. DOMAIN t.parent = DOMAIN t.g /\ (\A k \in DOMAIN t.g : InWindow(c, d, k)) /\ d \notin Shut(d, t)
    BY <1>9, <1>10 DEF Searching
  <1>14. Rooted(c, t) /\ Linked(c, d, t)
    BY <1>9 DEF Searching, Rooted, Linked
  <1>15. Entered(d, t)
    BY <1>9 DEF Searching, Entered
  <1>16. Relaxing(c, d, t)
    BY <1>9, <1>10 DEF Searching, Relaxing
  <1>17. Ranked(d, t)
    BY <1>9, <1>10 DEF Searching, Ranked
  <1> QED
    BY <1>9, <1>10, <1>11, <1>12, <1>13, <1>14, <1>15, <1>16, <1>17 DEF Searching

Taken(c, d, s, e, m, t) ==
  s.heap # {} /\ e = Top(s.heap) /\ m = CellOf(e) /\ t = Expand(c, d, s, e)

Current(d, s, e, m) == e = Key(d, s, m)

(* A turn that finds its entry current shuts its cell, and nothing that is *)
(* shut is entered again.                                                  *)
LEMMA TurnFresh ==
  ASSUME open \subseteq Cell, IsFiniteSet(open), NEW c \in open, NEW d \in open, NEW s,
         Searching(c, d, s), NEW e, NEW m, NEW t, Taken(c, d, s, e, m, t),
         Current(d, s, e, m), m # d
  PROVE  /\ Searching(c, d, t) /\ Shut(d, t) = Shut(d, s) \cup {m}
         /\ m \in open \ Shut(d, s)
         /\ Cardinality(t.heap) <= Cardinality(s.heap) + 7
  <1>1. e \in s.heap /\ \A k \in s.heap : e[1] <= k[1]
    BY HeapTop DEF Taken
  <1>2. m \in DOMAIN s.g
    BY <1>1 DEF Searching, Entered, Taken
  <1>3. /\ m \in Cell /\ m \in open /\ s.g[m] \in Nat /\ Heuristic(m, d) \in Nat
        /\ e[1] = s.g[m] + Heuristic(m, d) /\ d \in Cell
    BY <1>2, SearchingFacts DEF Current
  <1> DEFINE r == s.g[m] + Heuristic(m, d)
  <1>30. r \in Nat /\ e[1] = r
    BY <1>3
  <1>31. \A a, b, p, q, w \in Nat : a + b <= p + q /\ q <= w + b => a <= p + w
    OBVIOUS
  <1>4. PICK better : better = Better(c, d, s, m)
    OBVIOUS
  <1>5. PICK heap : heap = {<<Through(s, m, k) + Heuristic(k, d), k[2], k[1]>> : k \in better}
    OBVIOUS
  <1>6. \A k : k \in better <=> /\ k \in Neighbours(c, d, m)
                                /\ k \in DOMAIN s.g => s.g[k] > Through(s, m, k)
    BY <1>3, <1>4, BetterFacts
  <1>7. ASSUME NEW k \in Neighbours(c, d, m)
        PROVE  /\ k \in open /\ k # m /\ k \in Cell /\ InWindow(c, d, k)
               /\ Through(s, m, k) = s.g[m] + StepCost(m, k) /\ Through(s, m, k) \in Nat
               /\ StepCost(m, k) \in Nat \ {0} /\ Heuristic(k, d) \in Nat
               /\ Heuristic(m, d) <= StepCost(m, k) + Heuristic(k, d)
    <2>1. /\ k \in open /\ k # m /\ k \in Cell /\ InWindow(c, d, k)
          /\ StepCost(m, k) \in Nat \ {0}
          /\ Heuristic(m, d) <= StepCost(m, k) + Heuristic(k, d)
      BY <1>3, NeighbourFacts
    <2>2. Through(s, m, k) = s.g[m] + StepCost(m, k)
      BY DEF Through, StepCost
    <2> QED
      BY <1>3, <2>1, <2>2, HeuristicType
  <1>8. ASSUME NEW k \in better
        PROVE  /\ k \in open /\ k # m /\ k \in Cell /\ k \in Neighbours(c, d, m) /\ k # c
               /\ k \notin Shut(d, s)
    <2>1. k \in Neighbours(c, d, m) /\ (k \in DOMAIN s.g => s.g[k] > Through(s, m, k))
      BY <1>6
    <2>2. k # c
      BY <1>7, <2>1 DEF Searching, Rooted
    <2>3. ASSUME k \in Shut(d, s) PROVE FALSE
      <3>1. k \in DOMAIN s.g /\ s.g[k] + Heuristic(k, d) <= e[1]
        BY <1>1, <2>3 DEF Searching, Ranked, Shut
      <3>2. s.g[k] \in Nat
        BY <3>1, SearchingFacts
      <3>3. /\ Through(s, m, k) = s.g[m] + StepCost(m, k) /\ StepCost(m, k) \in Nat
            /\ Heuristic(k, d) \in Nat /\ Heuristic(m, d) <= StepCost(m, k) + Heuristic(k, d)
        BY <1>7, <2>1
      <3>4. s.g[k] > s.g[m] + StepCost(m, k)
        BY <2>1, <3>1, <3>3
      <3>5. s.g[k] + Heuristic(k, d) <= s.g[m] + Heuristic(m, d)
        BY <1>30, <3>1
      <3>6. s.g[k] <= s.g[m] + StepCost(m, k)
        BY <1>3, <1>31, <3>2, <3>3, <3>5
      <3>7. s.g[m] + StepCost(m, k) \in Nat
        BY <1>3, <3>3
      <3> QED
        BY <3>2, <3>4, <3>6, <3>7
    <2> QED
      BY <1>7, <2>1, <2>2, <2>3
  <1>9. /\ t = [g |-> t.g, parent |-> t.parent, heap |-> t.heap]
        /\ t.g = [k \in better \cup DOMAIN s.g |-> IF k \in better THEN Through(s, m, k) ELSE s.g[k]]
        /\ t.parent = [k \in better \cup DOMAIN s.g |-> IF k \in better THEN m ELSE s.parent[k]]
        /\ t.heap = (s.heap \ {e}) \cup heap
    BY <1>4, <1>5 DEF Expand, Taken
  <1>10. /\ DOMAIN t.g = better \cup DOMAIN s.g /\ DOMAIN t.parent = DOMAIN t.g
         /\ \A k \in better : t.g[k] = Through(s, m, k) /\ t.parent[k] = m
         /\ \A k \in DOMAIN s.g \ better : t.g[k] = s.g[k] /\ t.parent[k] = s.parent[k]
    BY <1>9
  <1>11. m \notin better /\ t.g[m] = s.g[m] /\ m \in DOMAIN t.g
    BY <1>2, <1>8, <1>10
  <1>12. \A k \in DOMAIN s.g : k \in DOMAIN t.g /\ t.g[k] \in Nat /\ s.g[k] \in Nat /\ t.g[k] <= s.g[k]
    <2> SUFFICES ASSUME NEW k \in DOMAIN s.g PROVE t.g[k] \in Nat /\ s.g[k] \in Nat /\ t.g[k] <= s.g[k]
      BY <1>10
    <2>1. s.g[k] \in Nat
      BY SearchingFacts
    <2>2. CASE k \in better
      BY <1>6, <1>7, <1>10, <2>1, <2>2
    <2>3. CASE k \notin better
      BY <1>10, <2>1, <2>3
    <2> QED
      BY <2>2, <2>3
  <1>13. \A k \in better : t.g[k] = s.g[m] + StepCost(m, k) /\ t.g[k] \in Nat
    BY <1>7, <1>8, <1>10
  <1>14. \A k \in better : <<Through(s, m, k) + Heuristic(k, d), k[2], k[1]>> = Key(d, t, k)
    BY <1>10 DEF Key
  <1>15. \A x \in heap : \E k \in better : x = Key(d, t, k)
    BY <1>5, <1>14
  <1>16. \A k \in better : Key(d, t, k) \in heap
    BY <1>5, <1>14
  <1>17. ASSUME NEW k \in DOMAIN t.g
         PROVE  /\ k \in open /\ k \in Cell /\ t.g[k] \in Nat /\ Heuristic(k, d) \in Nat
                /\ Key(d, t, k) \in Entry /\ CellOf(Key(d, t, k)) = k
                /\ Key(d, t, k)[1] = t.g[k] + Heuristic(k, d)
    <2>1. k \in open /\ k \in Cell /\ t.g[k] \in Nat
      BY <1>8, <1>10, <1>12, <1>13, SearchingFacts
    <2>2. Heuristic(k, d) \in Nat
      BY <2>1, HeuristicType
    <2>3. k[1] \in Int /\ k[2] \in Int /\ k = <<k[1], k[2]>>
      BY <2>1 DEF Cell
    <2> QED
      BY <2>1, <2>2, <2>3 DEF Key, Entry, CellOf
  <1>18. t \in Scratch
    <2>1. t.g \in [DOMAIN t.g -> Nat]
      BY <1>9, <1>10, <1>17
    <2>2. ASSUME NEW k \in DOMAIN t.g PROVE t.parent[k] \in open
      BY <1>3, <1>10, SearchingFacts
    <2>3. t.parent \in [DOMAIN t.g -> open]
      BY <1>9, <1>10, <2>2
    <2>4. t.heap \in SUBSET Entry
      <3>1. heap \in SUBSET Entry
        BY <1>10, <1>15, <1>17
      <3> QED
        BY <1>9, <3>1, SearchingFacts
    <2>5. DOMAIN t.g \in SUBSET open
      BY <1>17
    <2> QED
      BY <1>9, <2>1, <2>3, <2>4, <2>5, ScratchMade
  <1>19. Shut(d, t) = Shut(d, s) \cup {m}
    <2>1. ASSUME NEW k \in Shut(d, t) PROVE k \in Shut(d, s) \cup {m}
      <3>1. k \in DOMAIN t.g /\ Key(d, t, k) \notin t.heap
        BY <2>1 DEF Shut
      <3>2. k \notin better
        BY <1>9, <1>16, <3>1
      <3>3. k \in DOMAIN s.g /\ t.g[k] = s.g[k]
        BY <1>10, <3>1, <3>2
      <3>4. Key(d, t, k) = Key(d, s, k)
        BY <3>3 DEF Key
      <3>5. Key(d, s, k) \notin s.heap \/ Key(d, s, k) = e
        BY <1>9, <3>1, <3>4
      <3>6. CellOf(Key(d, s, k)) = k
        BY <3>3, SearchingFacts
      <3> QED
        BY <3>3, <3>5, <3>6 DEF Shut, Taken
    <2>2. ASSUME NEW k \in Shut(d, s) \cup {m} PROVE k \in Shut(d, t)
      <3>1. k \in DOMAIN s.g /\ k \notin better
        BY <1>2, <1>8, <1>11 DEF Shut
      <3>2. k \in DOMAIN t.g /\ t.g[k] = s.g[k]
        BY <1>10, <3>1
      <3>3. Key(d, t, k) = Key(d, s, k)
        BY <3>2 DEF Key
      <3>4. Key(d, s, k) \notin s.heap \ {e}
        BY <2>2 DEF Shut, Current
      <3>5. Key(d, t, k) \notin heap
        <4> SUFFICES ASSUME Key(d, t, k) \in heap PROVE FALSE
          OBVIOUS
        <4>1. PICK n \in better : Key(d, t, k) = Key(d, t, n)
          BY <1>15
        <4>2. CellOf(Key(d, t, k)) = k /\ CellOf(Key(d, t, n)) = n
          BY <1>10, <1>17, <3>2
        <4> QED
          BY <3>1, <4>1, <4>2
      <3> QED
        BY <1>9, <3>2, <3>3, <3>4, <3>5 DEF Shut
    <2> QED
      BY <2>1, <2>2
  <1>20. /\ \A k \in Shut(d, s) : k \in DOMAIN s.g /\ k \in DOMAIN t.g /\ t.g[k] = s.g[k] /\ s.g[k] \in Nat
    BY <1>8, <1>10, <1>12 DEF Shut
  <1>21. Rooted(c, t)
    BY <1>8, <1>10 DEF Searching, Rooted
  <1>22. Linked(c, d, t)
    <2> SUFFICES ASSUME NEW k \in DOMAIN t.g \ {c}
                 PROVE  /\ t.parent[k] \in DOMAIN t.g
                        /\ k \in Neighbours(c, d, t.parent[k])
                        /\ t.g[k] >= t.g[t.parent[k]] + StepCost(t.parent[k], k)
      BY DEF Linked
    <2>1. CASE k \in better
      BY <1>3, <1>8, <1>10, <1>11, <1>13, <2>1, CostValue
    <2>2. CASE k \notin better
      <3>1. k \in DOMAIN s.g \ {c} /\ t.g[k] = s.g[k] /\ t.parent[k] = s.parent[k]
        BY <1>10, <2>2
      <3>2. PICK p : p = s.parent[k]
        OBVIOUS
      <3>3. p \in DOMAIN s.g /\ k \in Neighbours(c, d, p) /\ s.g[k] >= s.g[p] + StepCost(p, k)
        BY <3>1, <3>2 DEF Searching, Linked
      <3>4. p \in DOMAIN t.g /\ t.g[p] \in Nat /\ s.g[p] \in Nat /\ t.g[p] <= s.g[p] /\ s.g[k] \in Nat
        BY <1>12, <3>1, <3>3
      <3>5. StepCost(p, k) \in Nat
        BY CostValue
      <3> QED
        BY <3>1, <3>2, <3>3, <3>4, <3>5
    <2> QED
      BY <2>1, <2>2
  <1>23. Entered(d, t)
    <2> SUFFICES ASSUME NEW x \in t.heap
                 PROVE  CellOf(x) \in DOMAIN t.g /\ x[1] >= t.g[CellOf(x)] + Heuristic(CellOf(x), d)
      BY DEF Entered
    <2>1. CASE x \in heap
      <3>1. PICK k \in better : x = Key(d, t, k)
        BY <1>15, <2>1
      <3>2. CellOf(x) = k /\ x[1] = t.g[k] + Heuristic(k, d) /\ x[1] \in Nat
        BY <1>10, <1>17, <3>1
      <3> QED
        BY <1>10, <3>2
    <2>2. CASE x \notin heap
      <3>1. x \in s.heap /\ x[1] \in Nat
        BY <1>9, <2>2, SearchingFacts, EntryFacts
      <3>2. PICK k : k = CellOf(x)
        OBVIOUS
      <3>3. k \in DOMAIN s.g /\ x[1] >= s.g[k] + Heuristic(k, d)
        BY <3>1, <3>2 DEF Searching, Entered
      <3>4. k \in DOMAIN t.g /\ t.g[k] \in Nat /\ s.g[k] \in Nat /\ t.g[k] <= s.g[k]
        BY <1>12, <3>3
      <3>5. Heuristic(k, d) \in Nat
        BY <1>17, <3>4
      <3> QED
        BY <3>1, <3>2, <3>3, <3>4, <3>5
    <2> QED
      BY <2>1, <2>2
  <1>24. Relaxing(c, d, t)
    <2> SUFFICES ASSUME NEW k \in Shut(d, t), NEW n \in Neighbours(c, d, k)
                 PROVE  n \in DOMAIN t.g /\ t.g[n] <= t.g[k] + StepCost(k, n)
      BY DEF Relaxing
    <2>1. CASE k \in Shut(d, s)
      <3>1. n \in DOMAIN s.g /\ s.g[n] <= s.g[k] + StepCost(k, n)
        BY <2>1 DEF Searching, Relaxing
      <3>2. n \in DOMAIN t.g /\ t.g[n] \in Nat /\ s.g[n] \in Nat /\ t.g[n] <= s.g[n]
        BY <1>12, <3>1
      <3>3. t.g[k] = s.g[k] /\ s.g[k] \in Nat
        BY <1>20, <2>1
      <3>4. StepCost(k, n) \in Nat
        BY CostValue
      <3> QED
        BY <3>1, <3>2, <3>3, <3>4
    <2>2. CASE k = m
      <3>1. Through(s, m, n) = s.g[m] + StepCost(m, n) /\ Through(s, m, n) \in Nat
        BY <1>7, <2>2
      <3>2. CASE n \in better
        <4>1. n \in DOMAIN t.g /\ t.g[n] = s.g[m] + StepCost(m, n) /\ t.g[n] \in Nat
          BY <1>10, <1>13, <3>2
        <4>2. t.g[k] = s.g[m] /\ k = m
          BY <1>11, <2>2
        <4> QED
          BY <4>1, <4>2
      <3>3. CASE n \notin better
        <4>1. n \in DOMAIN s.g /\ ~(s.g[n] > Through(s, m, n))
          BY <1>6, <2>2, <3>3
        <4>2. n \in DOMAIN t.g /\ t.g[n] = s.g[n] /\ s.g[n] \in Nat
          BY <1>10, <1>12, <3>3, <4>1
        <4>3. t.g[k] = s.g[m] /\ k = m
          BY <1>11, <2>2
        <4>4. s.g[n] <= Through(s, m, n)
          BY <3>1, <4>1, <4>2
        <4> QED
          BY <3>1, <4>2, <4>3, <4>4
      <3> QED
        BY <3>2, <3>3
    <2> QED
      BY <1>19, <2>1, <2>2
  <1>25. Ranked(d, t)
    <2> SUFFICES ASSUME NEW k \in Shut(d, t), NEW x \in t.heap
                 PROVE  t.g[k] + Heuristic(k, d) <= x[1]
      BY DEF Ranked
    <2>1. t.g[k] + Heuristic(k, d) <= e[1] /\ t.g[k] + Heuristic(k, d) \in Nat
      <3>1. CASE k \in Shut(d, s)
        <4>1. s.g[k] + Heuristic(k, d) <= e[1]
          BY <1>1, <3>1 DEF Searching, Ranked
        <4>2. t.g[k] = s.g[k] /\ s.g[k] \in Nat /\ k \in DOMAIN s.g
          BY <1>20, <3>1
        <4> QED
          BY <4>1, <4>2, SearchingFacts
      <3>2. CASE k = m
        <4>1. t.g[k] + Heuristic(k, d) = r
          BY <1>11, <3>2
        <4> QED
          BY <1>30, <4>1
      <3> QED
        BY <1>19, <3>1, <3>2
    <2>2. e[1] <= x[1] /\ x[1] \in Nat
      <3>1. CASE x \in heap
        <4>1. PICK n \in better : x = Key(d, t, n)
          BY <1>15, <3>1
        <4>2. x[1] = t.g[n] + Heuristic(n, d) /\ t.g[n] = s.g[m] + StepCost(m, n) /\ x[1] \in Nat
          BY <1>10, <1>13, <1>17, <4>1
        <4>3. Heuristic(m, d) <= StepCost(m, n) + Heuristic(n, d) /\ StepCost(m, n) \in Nat /\ Heuristic(n, d) \in Nat
          BY <1>7, <1>8
        <4>4. x[1] = s.g[m] + StepCost(m, n) + Heuristic(n, d)
          BY <4>2
        <4>5. \A p, q, v, w \in Nat : q <= v + w => p + q <= p + v + w
          OBVIOUS
        <4>6. r <= s.g[m] + StepCost(m, n) + Heuristic(n, d)
          BY <1>3, <4>3, <4>5
        <4> HIDE DEF r
        <4>7. r <= x[1]
          BY <4>4, <4>6
        <4>8. e[1] <= x[1]
          BY <1>30, <4>7, Zenon
        <4> QED
          BY <4>2, <4>8
      <3>2. CASE x \notin heap
        <4>1. x \in s.heap
          BY <1>9, <3>2
        <4> QED
          BY <1>1, <4>1, SearchingFacts, EntryFacts
      <3> QED
        BY <3>1, <3>2
    <2>3. \A u, v, w \in Nat : u <= v /\ v <= w => u <= w
      OBVIOUS
    <2> QED
      BY <1>30, <2>1, <2>2, <2>3
  <1>26. IsFiniteSet(t.heap) /\ Cardinality(t.heap) <= Cardinality(s.heap) + 7
    <2>1. IsFiniteSet(better) /\ Cardinality(better) \in 0 .. 8
      BY <1>3, <1>4, BetterFacts
    <2>2. PICK f : f = [k \in better |-> <<Through(s, m, k) + Heuristic(k, d), k[2], k[1]>>]
      OBVIOUS
    <2>3. heap \subseteq {f[k] : k \in better} /\ DOMAIN f = better
      BY <1>5, <2>2
    <2>4. IsFiniteSet(heap) /\ Cardinality(heap) <= Cardinality(better) /\ Cardinality(heap) \in Nat
      BY <2>1, <2>3, ImageCount
    <2>5. IsFiniteSet(s.heap) /\ Cardinality(s.heap) \in Nat
      BY FS_CardinalityType DEF Searching
    <2>6. IsFiniteSet(s.heap \ {e}) /\ Cardinality(s.heap \ {e}) = Cardinality(s.heap) - 1
      BY <1>1, <2>5, FS_RemoveElement
    <2>7. /\ IsFiniteSet((s.heap \ {e}) \cup heap)
          /\ Cardinality((s.heap \ {e}) \cup heap) =
               Cardinality(s.heap \ {e}) + Cardinality(heap) - Cardinality((s.heap \ {e}) \cap heap)
      BY <2>4, <2>6, FS_Union
    <2>8. Cardinality((s.heap \ {e}) \cap heap) \in Nat
      BY <2>6, FS_Intersection, FS_CardinalityType
    <2> QED
      BY <1>9, <2>1, <2>4, <2>5, <2>6, <2>7, <2>8
  <1>27. m \notin Shut(d, s)
    BY <1>1 DEF Shut, Current
  <1>28. \A k \in DOMAIN t.g : InWindow(c, d, k)
    BY <1>7, <1>8, <1>10 DEF Searching
  <1>29. d \notin Shut(d, t)
    BY <1>19 DEF Searching
  <1> QED
    BY <1>3, <1>10, <1>18, <1>19, <1>21, <1>22, <1>23, <1>24, <1>25, <1>26, <1>27, <1>28, <1>29
       DEF Searching

(* The loop ends: each turn shuts a cell and enters eight at most, or it   *)
(* takes an entry away.                                                    *)
Room(c, d) == {k \in open : InWindow(c, d, k)}

Done(d, s) == s.heap = {} \/ Found(d, s)

Work(c, d, s) == 8 * Cardinality(Room(c, d) \ Shut(d, s)) + Cardinality(s.heap)

LEMMA TurnWorks ==
  ASSUME open \subseteq Cell, IsFiniteSet(open), NEW c \in open, NEW d \in open, NEW s,
         Searching(c, d, s)
  PROVE  /\ Searching(c, d, Turn(c, d, s))
         /\ Work(c, d, s) \in Nat /\ (Work(c, d, s) = 0 => Done(d, s))
         /\ Done(d, s) => Turn(c, d, s) = s
         /\ ~Done(d, s) => Work(c, d, Turn(c, d, s)) < Work(c, d, s)
  <1>1. IsFiniteSet(s.heap) /\ Cardinality(s.heap) \in Nat
    BY FS_CardinalityType DEF Searching
  <1>2. Room(c, d) \in SUBSET open
    BY DEF Room
  <1>3. IsFiniteSet(Room(c, d))
    BY <1>2, FS_Subset
  <1>4. \A R : /\ IsFiniteSet(Room(c, d) \ R)
               /\ Cardinality(Room(c, d) \ R) \in Nat
    BY <1>3, FS_Difference, FS_CardinalityType
  <1>5. Work(c, d, s) \in Nat
    <2>1. PICK q \in Nat : q = Cardinality(Room(c, d) \ Shut(d, s))
      BY <1>4
    <2> QED
      BY <1>1, <2>1 DEF Work
  <1>6. Work(c, d, s) = 0 => Done(d, s)
    <2> SUFFICES ASSUME Work(c, d, s) = 0 PROVE s.heap = {}
      BY DEF Done
    <2>1. Cardinality(Room(c, d) \ Shut(d, s)) \in Nat
      BY <1>4
    <2>2. Cardinality(s.heap) = 0
      BY <1>1, <2>1 DEF Work
    <2> QED
      BY <1>1, <2>2, FS_EmptySet
  <1>7. Done(d, s) => Turn(c, d, s) = s
    BY DEF Done, Turn
  <1>8. ASSUME ~Done(d, s)
        PROVE  Searching(c, d, Turn(c, d, s)) /\ Work(c, d, Turn(c, d, s)) < Work(c, d, s)
    <2>1. PICK e : e = Top(s.heap)
      OBVIOUS
    <2>2. PICK m : m = CellOf(e)
      OBVIOUS
    <2>3. PICK t : t = Turn(c, d, s)
      OBVIOUS
    <2>4. s.heap # {} /\ m # d /\ t = Expand(c, d, s, e)
      BY <1>8, <2>1, <2>2, <2>3 DEF Done, Found, Turn
    <2>5. e \in s.heap
      BY <2>1, <2>4, HeapTop
    <2>6. CASE e = Key(d, s, m)
      <3>1. /\ Searching(c, d, t) /\ Shut(d, t) = Shut(d, s) \cup {m}
            /\ m \in open \ Shut(d, s)
            /\ Cardinality(t.heap) <= Cardinality(s.heap) + 7
        <4>1. Taken(c, d, s, e, m, t)
          BY <2>1, <2>2, <2>4 DEF Taken
        <4>2. Current(d, s, e, m) /\ m # d
          BY <2>4, <2>6 DEF Current
        <4> QED
          BY <4>1, <4>2, TurnFresh
      <3>2. m \in DOMAIN s.g
        BY <2>2, <2>5 DEF Searching, Entered
      <3>3. m \in Room(c, d) \ Shut(d, s)
        BY <3>1, <3>2 DEF Searching, Room
      <3>4. Room(c, d) \ Shut(d, t) = (Room(c, d) \ Shut(d, s)) \ {m}
        BY <3>1
      <3>5. Cardinality(Room(c, d) \ Shut(d, t)) = Cardinality(Room(c, d) \ Shut(d, s)) - 1
        <4>1. PICK Q : Q = Room(c, d) \ Shut(d, s)
          OBVIOUS
        <4>2. IsFiniteSet(Q) /\ m \in Q
          BY <1>4, <3>3, <4>1
        <4>3. Cardinality(Q \ {m}) = Cardinality(Q) - 1
          BY <4>2, FS_RemoveElement
        <4> QED
          BY <3>4, <4>1, <4>3
      <3>6. Cardinality(t.heap) \in Nat
        BY <3>1, FS_CardinalityType DEF Searching
      <3>7. Cardinality(Room(c, d) \ Shut(d, s)) \in Nat
        BY <1>4
      <3>8. \A p, q, h, k \in Int : p = q - 1 /\ h <= k + 7 => 8 * p + h < 8 * q + k
        OBVIOUS
      <3>9. Work(c, d, t) < Work(c, d, s)
        <4>1. Cardinality(Room(c, d) \ Shut(d, t)) \in Nat
          BY <1>4
        <4> QED
          BY <1>1, <3>1, <3>5, <3>6, <3>7, <3>8, <4>1 DEF Work
      <3> QED
        BY <2>3, <3>1, <3>9
    <2>7. CASE e # Key(d, s, m)
      <3>1. Searching(c, d, t) /\ Shut(d, t) = Shut(d, s) /\ t.heap = s.heap \ {e}
        BY <2>1, <2>2, <2>4, <2>7, TurnStale
      <3>2. Cardinality(t.heap) = Cardinality(s.heap) - 1
        BY <1>1, <2>5, <3>1, FS_RemoveElement
      <3>3. Cardinality(Room(c, d) \ Shut(d, s)) \in Nat
        BY <1>4
      <3>4. Work(c, d, t) < Work(c, d, s)
        BY <1>1, <3>1, <3>2, <3>3 DEF Work
      <3> QED
        BY <2>3, <3>1, <3>4
    <2> QED
      BY <2>6, <2>7
  <1> QED
    BY <1>5, <1>6, <1>7, <1>8

LEMMA TurnsFacts ==
  ASSUME IsFiniteSet(open), NEW c, NEW d
  PROVE  /\ Turns \in Nat /\ Cardinality(Room(c, d)) \in Nat
         /\ Cardinality(Room(c, d)) <= 1023 => 8 * Cardinality(Room(c, d)) + 1 <= Turns
  <1>1. Room(c, d) \in SUBSET open
    BY DEF Room
  <1>2. Cardinality(open) \in Nat /\ Cardinality(Room(c, d)) \in Nat /\ Cardinality(Room(c, d)) <= Cardinality(open)
    BY <1>1, FS_Subset, FS_CardinalityType
  <1>3. Turns = IF 8190 < 8 * Cardinality(open) + 1 THEN 8190 ELSE 8 * Cardinality(open) + 1
    BY DEF Turns, Least, WINDOW
  <1> QED
    BY <1>2, <1>3

(* What the search leaves: the invariant holds, and where no more than     *)
(* 1023 cells of the window are open, it has not been cut short.           *)
LEMMA SearchEnds ==
  ASSUME open \subseteq Cell, IsFiniteSet(open), NEW c \in open, NEW d \in open, Fits(c, d)
  PROVE  /\ Searching(c, d, Searched(c, d))
         /\ Cardinality(Room(c, d)) <= 1023 => Done(d, Searched(c, d))
  <1>1. PICK S : S = {s \in Scratch : Searching(c, d, s)}
    OBVIOUS
  <1>2. \A s : s \in S <=> Searching(c, d, s)
    BY <1>1 DEF Searching
  <1>3. Start(c, d) \in S
    BY <1>2, StartSearching
  <1>4. PICK F : F = [p \in Nat \X S |-> Turn(c, d, p[2])]
    OBVIOUS
  <1>5. \A n \in Nat, s \in S : F[<<n, s>>] = Turn(c, d, s) /\ F[<<n, s>>] \in S
    BY <1>2, <1>4, TurnWorks
  <1>6. F \in [Nat \X S -> S]
    BY <1>2, <1>4, TurnWorks
  <1>7. PICK f \in [Nat -> S] : Unfolds(f, Start(c, d), F)
    BY <1>3, <1>6, RecursionExists
  <1> DEFINE Step(h) == [n \in Nat |-> IF n = 0 THEN Start(c, d) ELSE Turn(c, d, h[n - 1])]
  <1>8. f = Step(f)
    <2>1. ASSUME NEW n \in Nat
          PROVE  f[n] = IF n = 0 THEN Start(c, d) ELSE Turn(c, d, f[n - 1])
      <3>1. n # 0 => n - 1 \in Nat /\ f[n - 1] \in S
        BY <1>7
      <3>2. f[n] = IF n = 0 THEN Start(c, d) ELSE F[<<n, f[n - 1]>>]
        BY <1>7 DEF Unfolds
      <3> QED
        BY <1>5, <3>1, <3>2
    <2> QED
      BY <1>7, <2>1
  <1>9. PICK a : a = CHOOSE h : h = Step(h)
    OBVIOUS
  <1>10. a = Step(a)
    BY <1>8, <1>9
  <1>11. \A n \in Nat : a[n] = IF n = 0 THEN Start(c, d) ELSE Turn(c, d, a[n - 1])
    BY <1>10
  <1>12. Searched(c, d) = a[Turns]
    BY <1>9 DEF Searched
  <1> HIDE DEF Step
  <1>13. PICK w : w = 8 * Cardinality(Room(c, d)) + 1
    OBVIOUS
  <1> DEFINE Good(n) == /\ Searching(c, d, a[n])
                        /\ Done(d, a[n]) \/ Work(c, d, a[n]) + n <= w
  <1>14. \A n \in Nat : Good(n)
    <2>1. Good(0)
      <3>1. a[0] = Start(c, d)
        BY <1>11
      <3>2. /\ Searching(c, d, a[0]) /\ Shut(d, a[0]) = {} /\ Cardinality(a[0].heap) = 1
        BY <3>1, StartSearching
      <3>3. Room(c, d) \ Shut(d, a[0]) = Room(c, d)
        BY <3>2
      <3>4. Work(c, d, a[0]) = w
        BY <1>13, <3>2, <3>3 DEF Work
      <3>5. Work(c, d, a[0]) \in Nat
        BY <3>2, TurnWorks
      <3> QED
        BY <3>2, <3>4, <3>5
    <2>2. ASSUME NEW n \in Nat, n # 0, Good(n - 1) PROVE Good(n)
      <3>1. PICK s : s = a[n - 1]
        OBVIOUS
      <3>2. a[n] = Turn(c, d, s) /\ Searching(c, d, s)
        BY <1>11, <2>2, <3>1
      <3>3. Searching(c, d, a[n])
        BY <3>2, TurnWorks
      <3>4. CASE Done(d, s)
        BY <3>2, <3>3, <3>4, TurnWorks
      <3>5. CASE ~Done(d, s)
        <4>1. Work(c, d, a[n]) < Work(c, d, s) /\ Work(c, d, s) \in Nat
          BY <3>2, <3>5, TurnWorks
        <4>2. Work(c, d, a[n]) \in Nat
          BY <3>3, TurnWorks
        <4>3. Work(c, d, s) + (n - 1) <= w
          BY <2>2, <3>1, <3>5
        <4>4. w \in Int
          BY <1>13, TurnsFacts
        <4>5. Work(c, d, a[n]) + n <= w
          BY <4>1, <4>2, <4>3, <4>4
        <4> QED
          BY <3>3, <4>5
      <3> QED
        BY <3>4, <3>5
    <2> HIDE DEF Good
    <2> SUFFICES ASSUME NEW z \in Nat, ~Good(z) PROVE FALSE
      OBVIOUS
    <2>3. PICK T : T = {n \in Nat : ~Good(n)}
      OBVIOUS
    <2>4. PICK n \in T : \A k \in T : n <= k
      BY <2>3, LeastOf
    <2>5. n \in Nat /\ ~Good(n)
      BY <2>3
    <2>6. n # 0
      BY <2>1, <2>5
    <2>7. n - 1 \in Nat /\ n - 1 \notin T
      BY <2>4, <2>5, <2>6
    <2> QED
      BY <2>2, <2>3, <2>5, <2>6, <2>7
  <1>15. Good(Turns) /\ Turns \in Nat
    BY <1>14, TurnsFacts
  <1>16. ASSUME Cardinality(Room(c, d)) <= 1023 PROVE Done(d, a[Turns])
    <2>1. w <= Turns /\ w \in Nat
      BY <1>13, <1>16, TurnsFacts
    <2>2. Work(c, d, a[Turns]) \in Nat /\ (Work(c, d, a[Turns]) = 0 => Done(d, a[Turns]))
      BY <1>15, TurnWorks
    <2> QED
      BY <1>15, <2>1, <2>2
  <1> QED
    BY <1>12, <1>15, <1>16

(* The reference: a round of Costs keeps or lowers what is known, knows    *)
(* all neighbours at the cost of any way over one step at most, and knows  *)
(* nothing that is not the cost of such a way.                             *)
Known == UNION {[D -> Nat] : D \in SUBSET open}

LEMMA KnownFacts ==
  ASSUME NEW f \in Known
  PROVE  f \in [DOMAIN f -> Nat] /\ DOMAIN f \in SUBSET open /\ \A k \in DOMAIN f : f[k] \in Nat
  <1>1. PICK D \in SUBSET open : f \in [D -> Nat]
    BY DEF Known
  <1> QED
    BY <1>1

LEMMA KnownMade ==
  ASSUME NEW D \in SUBSET open, NEW f \in [D -> Nat]
  PROVE  f \in Known
  BY DEF Known

LEMMA LengthenedFacts ==
  ASSUME open \subseteq Cell, NEW c, NEW d, NEW f \in Known, NEW h, h = Lengthened(c, d, f)
  PROVE  /\ h \in Known
         /\ \A k \in DOMAIN f : k \in DOMAIN h /\ h[k] <= f[k]
         /\ \A m \in DOMAIN f : \A k \in Neighbours(c, d, m) :
              k \in DOMAIN h /\ h[k] <= f[m] + StepCost(m, k)
         /\ \A k \in DOMAIN h :
              \/ k \in DOMAIN f /\ h[k] = f[k]
              \/ \E m \in DOMAIN f : k \in Neighbours(c, d, m) /\ h[k] = f[m] + StepCost(m, k)
  <1>1. PICK D : D = (UNION {Neighbours(c, d, m) : m \in DOMAIN f}) \cup DOMAIN f
    OBVIOUS
  <1> DEFINE Cheapest(k) == CHOOSE w \in Ways(c, d, f, k) : \A v \in Ways(c, d, f, k) : w <= v
  <1>2. DOMAIN h = D /\ h = [k \in D |-> h[k]] /\ \A k \in D : h[k] = Cheapest(k)
    <2>1. h = [k \in (UNION {Neighbours(c, d, m) : m \in DOMAIN f}) \cup DOMAIN f |-> Cheapest(k)]
      BY Zenon DEF Lengthened
    <2> HIDE DEF Cheapest
    <2> QED
      BY <1>1, <2>1
  <1>3. \A k \in D : k \in DOMAIN f \/ \E m \in DOMAIN f : k \in Neighbours(c, d, m)
    BY <1>1
  <1>4. \A k, w : w \in Ways(c, d, f, k) <=>
                   \/ k \in DOMAIN f /\ w = f[k]
                   \/ \E m \in DOMAIN f : k \in Neighbours(c, d, m) /\ w = f[m] + StepCost(m, k)
    BY DEF Ways, StepCost
  <1>5. \A k \in DOMAIN f : f[k] \in Nat /\ k \in open
    BY KnownFacts
  <1>6. \A m, k : StepCost(m, k) \in Nat
    BY CostValue
  <1>7. ASSUME NEW k \in D
        PROVE  h[k] \in Nat /\ h[k] \in Ways(c, d, f, k) /\ \A v \in Ways(c, d, f, k) : h[k] <= v
    <2>1. PICK W : W = Ways(c, d, f, k)
      OBVIOUS
    <2>2. W \in SUBSET Nat
      BY <1>4, <1>5, <1>6, <2>1
    <2>3. W # {}
      <3>1. CASE k \in DOMAIN f
        BY <1>4, <2>1, <3>1
      <3>2. CASE k \notin DOMAIN f
        <4>1. PICK m \in DOMAIN f : k \in Neighbours(c, d, m)
          BY <1>3, <3>2
        <4>2. f[m] + StepCost(m, k) \in W
          BY <1>4, <2>1, <4>1
        <4> QED
          BY <4>2
      <3> QED
        BY <3>1, <3>2
    <2>4. \E w \in W : \A v \in W : w <= v
      BY <2>2, <2>3, LeastOf
    <2>5. h[k] = CHOOSE w \in W : \A v \in W : w <= v
      BY <1>2, <2>1
    <2>6. h[k] \in W /\ \A v \in W : h[k] <= v
      BY <2>4, <2>5
    <2> QED
      BY <2>1, <2>2, <2>6
  <1>8. DOMAIN h = D /\ D \in SUBSET open
    <2>1. \A k \in D : k \in open
      BY <1>3, <1>5 DEF Neighbours
    <2> QED
      BY <1>2, <2>1
  <1>9. h \in [D -> Nat]
    BY <1>2, <1>7
  <1>10. h \in Known
    BY <1>8, <1>9, KnownMade
  <1>11. \A k \in DOMAIN f : k \in DOMAIN h /\ h[k] <= f[k]
    BY <1>1, <1>4, <1>7, <1>8
  <1>12. ASSUME NEW m \in DOMAIN f, NEW k \in Neighbours(c, d, m)
         PROVE  k \in DOMAIN h /\ h[k] <= f[m] + StepCost(m, k)
    <2>1. k \in D
      BY <1>1
    <2> QED
      BY <1>4, <1>7, <1>8, <2>1
  <1> QED
    BY <1>4, <1>7, <1>8, <1>10, <1>11, <1>12

LEMMA CostsKnown ==
  ASSUME open \subseteq Cell, NEW c \in open, NEW d
  PROVE  \E a : /\ \A n \in Nat : a[n] \in Known
                /\ a[0] = [k \in {c} |-> 0]
                /\ \A n \in Nat : a[n + 1] = Lengthened(c, d, a[n])
                /\ Costs(c, d) = a[Cardinality(open)]
  <1>1. PICK b : b = [k \in {c} |-> 0]
    OBVIOUS
  <1>2. b \in Known
    <2>1. b \in [{c} -> Nat] /\ {c} \in SUBSET open
      BY <1>1
    <2> QED
      BY <2>1 DEF Known
  <1>3. PICK F : F = [p \in Nat \X Known |-> Lengthened(c, d, p[2])]
    OBVIOUS
  <1>4. \A f \in Known : Lengthened(c, d, f) \in Known
    BY LengthenedFacts
  <1>5. \A n \in Nat, f \in Known : F[<<n, f>>] = Lengthened(c, d, f)
    BY <1>3
  <1>6. F \in [Nat \X Known -> Known]
    BY <1>3, <1>4
  <1>7. PICK f \in [Nat -> Known] : Unfolds(f, b, F)
    BY <1>2, <1>6, RecursionExists
  <1> DEFINE Round(h) == [n \in Nat |-> IF n = 0 THEN [k \in {c} |-> 0] ELSE Lengthened(c, d, h[n - 1])]
  <1>8. f = Round(f)
    <2>1. ASSUME NEW n \in Nat
          PROVE  f[n] = IF n = 0 THEN [k \in {c} |-> 0] ELSE Lengthened(c, d, f[n - 1])
      <3>1. n # 0 => n - 1 \in Nat /\ f[n - 1] \in Known
        BY <1>7
      <3>2. f[n] = IF n = 0 THEN b ELSE F[<<n, f[n - 1]>>]
        BY <1>7 DEF Unfolds
      <3> QED
        BY <1>1, <1>5, <3>1, <3>2
    <2> QED
      BY <1>7, <2>1
  <1>9. PICK a : a = CHOOSE h : h = Round(h)
    OBVIOUS
  <1>10. a = Round(a)
    BY <1>8, <1>9
  <1>11. \A n \in Nat : a[n] = IF n = 0 THEN [k \in {c} |-> 0] ELSE Lengthened(c, d, a[n - 1])
    BY <1>10
  <1>12. Costs(c, d) = a[Cardinality(open)]
    BY <1>9 DEF Costs
  <1> HIDE DEF Round
  <1>13. a[0] = b
    BY <1>1, <1>11
  <1>14. ASSUME NEW n \in Nat PROVE a[n + 1] = Lengthened(c, d, a[n])
    <2>1. n + 1 \in Nat /\ n + 1 # 0 /\ (n + 1) - 1 = n
      OBVIOUS
    <2> QED
      BY <1>11, <2>1
  <1>15. \A n \in Nat : a[n] \in Known
    <2> SUFFICES ASSUME NEW z \in Nat, a[z] \notin Known PROVE FALSE
      OBVIOUS
    <2>1. PICK T : T = {n \in Nat : a[n] \notin Known}
      OBVIOUS
    <2>2. PICK n \in T : \A k \in T : n <= k
      BY <2>1, LeastOf
    <2>3. n \in Nat /\ a[n] \notin Known
      BY <2>1
    <2>4. n # 0
      BY <1>2, <1>13, <2>3
    <2>5. n - 1 \in Nat /\ n - 1 \notin T /\ (n - 1) + 1 = n
      BY <2>2, <2>3, <2>4
    <2>6. a[n - 1] \in Known
      BY <2>1, <2>5
    <2>7. a[n] = Lengthened(c, d, a[n - 1])
      BY <1>14, <2>5
    <2> QED
      BY <1>4, <2>3, <2>6, <2>7
  <1> QED
    BY <1>1, <1>12, <1>13, <1>14, <1>15

(* The way back: the parents lead from d to c, at falling costs, so that   *)
(* no cell is passed twice.                                                *)
LEMMA ParentFacts ==
  ASSUME open \subseteq Cell, NEW c \in open, NEW d \in open, NEW s, Searching(c, d, s),
         NEW k \in DOMAIN s.g, NEW p, p = s.parent[k]
  PROVE  /\ p \in DOMAIN s.g /\ s.g[p] \in Nat /\ s.g[k] \in Nat
         /\ k # c => /\ k \in Neighbours(c, d, p)
                     /\ s.g[k] >= s.g[p] + StepCost(p, k) /\ s.g[p] < s.g[k]
  <1>1. p \in DOMAIN s.g
    BY DEF Searching, Rooted, Linked
  <1>2. s.g[p] \in Nat /\ s.g[k] \in Nat
    BY <1>1, SearchingFacts
  <1>3. ASSUME k # c PROVE k \in Neighbours(c, d, p) /\ s.g[k] >= s.g[p] + StepCost(p, k)
    BY <1>3 DEF Searching, Linked
  <1>4. StepCost(p, k) \in {10, 14}
    BY CostValue
  <1> QED
    BY <1>1, <1>2, <1>3, <1>4

LEMMA BackFacts ==
  ASSUME open \subseteq Cell, NEW c \in open, NEW d \in open, NEW s, Searching(c, d, s),
         d \in DOMAIN s.g
  PROVE  /\ Back(d, s)[0] = d
         /\ \A n \in Nat : Back(d, s)[n + 1] = s.parent[Back(d, s)[n]]
         /\ \A n \in Nat : Back(d, s)[n] \in DOMAIN s.g
  <1>1. PICK K : K = DOMAIN s.g
    OBVIOUS
  <1>2. \A k \in K : s.parent[k] \in K
    BY <1>1, ParentFacts
  <1>3. PICK F : F = [p \in Nat \X K |-> s.parent[p[2]]]
    OBVIOUS
  <1>4. \A n \in Nat, k \in K : F[<<n, k>>] = s.parent[k]
    BY <1>3
  <1>5. F \in [Nat \X K -> K]
    BY <1>2, <1>3
  <1>6. d \in K
    BY <1>1
  <1>7. PICK f \in [Nat -> K] : Unfolds(f, d, F)
    BY <1>5, <1>6, RecursionExists
  <1> DEFINE Climb(h) == [n \in Nat |-> IF n = 0 THEN d ELSE s.parent[h[n - 1]]]
  <1>8. f = Climb(f)
    <2>1. ASSUME NEW n \in Nat PROVE f[n] = IF n = 0 THEN d ELSE s.parent[f[n - 1]]
      <3>1. n # 0 => n - 1 \in Nat /\ f[n - 1] \in K
        BY <1>7
      <3>2. f[n] = IF n = 0 THEN d ELSE F[<<n, f[n - 1]>>]
        BY <1>7 DEF Unfolds
      <3> QED
        BY <1>4, <3>1, <3>2
    <2> QED
      BY <1>7, <2>1
  <1>9. PICK up : up = CHOOSE h : h = Climb(h)
    OBVIOUS
  <1>10. up = Climb(up)
    BY <1>8, <1>9
  <1>11. \A n \in Nat : up[n] = IF n = 0 THEN d ELSE s.parent[up[n - 1]]
    BY <1>10
  <1>12. Back(d, s) = up
    BY <1>9 DEF Back
  <1> HIDE DEF Climb
  <1>13. ASSUME NEW n \in Nat PROVE up[n + 1] = s.parent[up[n]]
    <2>1. n + 1 \in Nat /\ n + 1 # 0 /\ (n + 1) - 1 = n
      OBVIOUS
    <2> QED
      BY <1>11, <2>1
  <1>14. \A n \in Nat : up[n] \in K
    <2> SUFFICES ASSUME NEW z \in Nat, up[z] \notin K PROVE FALSE
      OBVIOUS
    <2>1. PICK T : T = {n \in Nat : up[n] \notin K}
      OBVIOUS
    <2>2. PICK n \in T : \A k \in T : n <= k
      BY <2>1, LeastOf
    <2>3. n \in Nat /\ up[n] \notin K
      BY <2>1
    <2>4. n # 0
      BY <1>6, <1>11, <2>3
    <2>5. n - 1 \in Nat /\ n - 1 \notin T
      BY <2>2, <2>3, <2>4
    <2>6. up[n - 1] \in K
      BY <2>1, <2>5
    <2> QED
      BY <1>2, <1>11, <2>3, <2>4, <2>6
  <1> QED
    BY <1>1, <1>11, <1>12, <1>13, <1>14

LEMMA StepsFacts ==
  ASSUME open \subseteq Cell, IsFiniteSet(open), NEW c \in open, NEW d \in open, NEW s,
         Searching(c, d, s), d \in DOMAIN s.g
  PROVE  /\ Steps(c, d, s) \in Nat /\ Steps(c, d, s) + 1 <= Cardinality(open)
         /\ Back(d, s)[Steps(c, d, s)] = c
         /\ \A m \in 0 .. Steps(c, d, s) - 1 : Back(d, s)[m] # c
  <1>1. PICK up : up = Back(d, s)
    OBVIOUS
  <1>2. PICK K : K = DOMAIN s.g
    OBVIOUS
  <1>3. up[0] = d /\ \A n \in Nat : up[n + 1] = s.parent[up[n]] /\ up[n] \in K
    BY <1>1, <1>2, BackFacts
  <1>4. PICK cost : cost = [n \in Nat |-> s.g[up[n]]]
    OBVIOUS
  <1>5. ASSUME NEW n \in Nat
        PROVE  cost[n] \in Nat /\ (up[n] # c => cost[n + 1] < cost[n])
    <2>1. up[n] \in DOMAIN s.g /\ up[n + 1] = s.parent[up[n]]
      BY <1>2, <1>3
    <2>2. s.g[up[n]] \in Nat /\ (up[n] # c => s.g[up[n + 1]] < s.g[up[n]])
      BY <2>1, ParentFacts
    <2> QED
      BY <1>4, <2>2
  <1>6. \E n \in Nat : up[n] = c
    <2> SUFFICES ASSUME \A n \in Nat : up[n] # c PROVE FALSE
      OBVIOUS
    <2>1. PICK T : T = {cost[n] : n \in Nat}
      OBVIOUS
    <2>2. T \in SUBSET Nat /\ T # {}
      BY <1>5, <2>1
    <2>3. PICK v \in T : \A w \in T : v <= w
      BY <2>2, LeastOf
    <2>4. PICK n \in Nat : v = cost[n]
      BY <2>1
    <2>5. cost[n + 1] \in T /\ cost[n + 1] < cost[n] /\ cost[n + 1] \in Nat /\ cost[n] \in Nat
      BY <1>5, <2>1
    <2> QED
      BY <2>3, <2>4, <2>5
  <1>7. PICK n \in Nat : up[n] = c /\ \A m \in 0 .. n - 1 : up[m] # c
    <2>1. PICK T : T = {k \in Nat : up[k] = c}
      OBVIOUS
    <2>2. PICK n \in T : \A k \in T : n <= k
      BY <1>6, <2>1, LeastOf
    <2>3. n \in Nat /\ up[n] = c
      BY <2>1
    <2>4. ASSUME NEW m \in 0 .. n - 1 PROVE up[m] # c
      BY <2>1, <2>2, <2>3
    <2> QED
      BY <2>3, <2>4
  <1>8. \A N \in Nat : (\A m \in 0 .. N - 1 : up[m] # c) => N + 1 <= Cardinality(K)
    <2> SUFFICES ASSUME NEW N \in Nat, \A m \in 0 .. N - 1 : up[m] # c
                 PROVE  N + 1 <= Cardinality(K)
      OBVIOUS
    <2>1. ASSUME NEW i \in 0 .. N, NEW z \in i + 1 .. N, ~(cost[z] < cost[i]) PROVE FALSE
      <3>1. PICK T : T = {j \in i + 1 .. N : ~(cost[j] < cost[i])}
        OBVIOUS
      <3>2. T \in SUBSET Nat /\ T # {}
        BY <2>1, <3>1
      <3>3. PICK j \in T : \A k \in T : j <= k
        BY <3>2, LeastOf
      <3>4. j \in i + 1 .. N /\ ~(cost[j] < cost[i])
        BY <3>1
      <3>5. j - 1 \in Nat /\ j - 1 \notin T /\ j - 1 \in 0 .. N - 1 /\ (j - 1) + 1 = j
        BY <3>3, <3>4
      <3>6. cost[j] < cost[j - 1] /\ cost[j] \in Nat /\ cost[j - 1] \in Nat /\ cost[i] \in Nat
        BY <1>5, <3>4, <3>5
      <3>7. CASE j = i + 1
        BY <3>4, <3>6, <3>7
      <3>8. CASE j # i + 1
        <4>1. j - 1 \in i + 1 .. N
          BY <3>4, <3>8
        <4>2. cost[j - 1] < cost[i]
          BY <3>1, <3>5, <4>1
        <4> QED
          BY <3>4, <3>6, <4>2
      <3> QED
        BY <3>7, <3>8
    <2>2. ASSUME NEW x \in 0 .. N, NEW y \in 0 .. N, x < y PROVE up[x] # up[y]
      <3>1. y \in x + 1 .. N
        BY <2>2
      <3>2. cost[y] < cost[x] /\ cost[y] \in Nat /\ cost[x] \in Nat
        BY <1>5, <2>1, <3>1
      <3>3. cost[y] = s.g[up[y]] /\ cost[x] = s.g[up[x]]
        BY <1>4
      <3> QED
        BY <3>2, <3>3
    <2>3. ASSUME NEW x \in 0 .. N, NEW y \in 0 .. N, x # y PROVE up[x] # up[y]
      <3>1. x < y \/ y < x
        BY <2>3
      <3> QED
        BY <2>2, <3>1
    <2>4. K \in SUBSET open
      BY <1>2, SearchingFacts
    <2>5. IsFiniteSet(K) /\ Cardinality(K) \in Nat
      BY <2>4, FS_Subset, FS_CardinalityType
    <2>6. IsFiniteSet(0 .. N) /\ Cardinality(0 .. N) = N + 1
      <3>1. \A a, b \in Int : IsFiniteSet(a .. b) /\ Cardinality(a .. b) = IF a > b THEN 0 ELSE b - a + 1
        BY FS_Interval
      <3>2. 0 \in Int /\ N \in Int /\ ~(0 > N) /\ N - 0 + 1 = N + 1
        OBVIOUS
      <3> QED
        BY <3>1, <3>2
    <2>7. PICK f : f = [k \in 0 .. N |-> up[k]]
      OBVIOUS
    <2>8. f \in [0 .. N -> K]
      BY <1>3, <2>7
    <2>9. ASSUME Cardinality(K) < Cardinality(0 .. N) PROVE FALSE
      <3>1. PICK x \in 0 .. N, y \in 0 .. N : x # y /\ f[x] = f[y]
        BY <2>5, <2>6, <2>8, <2>9, FS_PigeonHole
      <3> QED
        BY <2>3, <2>7, <3>1
    <2> QED
      BY <2>5, <2>6, <2>9
  <1>9. K \in SUBSET open /\ Cardinality(K) \in Nat /\ Cardinality(K) <= Cardinality(open) /\ Cardinality(open) \in Nat
    <2>1. K \in SUBSET open
      BY <1>2, SearchingFacts
    <2> QED
      BY <2>1, FS_Subset, FS_CardinalityType
  <1>10. n \in 0 .. Cardinality(K)
    BY <1>7, <1>8, <1>9
  <1>11. PICK N : N = Steps(c, d, s)
    OBVIOUS
  <1>12. N = CHOOSE k \in 0 .. Cardinality(K) : up[k] = c /\ \A m \in 0 .. k - 1 : up[m] # c
    BY <1>1, <1>2, <1>11 DEF Steps
  <1>13. N \in 0 .. Cardinality(K) /\ up[N] = c /\ \A m \in 0 .. N - 1 : up[m] # c
    BY <1>7, <1>10, <1>12
  <1>14. N \in Nat /\ N + 1 <= Cardinality(K)
    BY <1>8, <1>9, <1>13
  <1> QED
    BY <1>1, <1>9, <1>11, <1>13, <1>14

(* The chain leads from c to d over neighbours.                            *)
LEMMA ChainFacts ==
  ASSUME open \subseteq Cell, IsFiniteSet(open), NEW c \in open, NEW d \in open, NEW s,
         Searching(c, d, s), d \in DOMAIN s.g, NEW chain, chain = Chain(c, d, s)
  PROVE  /\ chain \in Seq(open) /\ Len(chain) \in 1 .. Cardinality(open)
         /\ chain[1] = c /\ chain[Len(chain)] = d
         /\ \A k \in 1 .. Len(chain) : chain[k] \in DOMAIN s.g
         /\ \A k \in 2 .. Len(chain) :
              /\ chain[k] \in Neighbours(c, d, chain[k - 1])
              /\ s.g[chain[k]] >= s.g[chain[k - 1]] + StepCost(chain[k - 1], chain[k])
  <1>1. PICK n : n = Steps(c, d, s)
    OBVIOUS
  <1>2. PICK up : up = Back(d, s)
    OBVIOUS
  <1>3. /\ n \in Nat /\ n + 1 <= Cardinality(open) /\ up[n] = c /\ \A m \in 0 .. n - 1 : up[m] # c
    BY <1>1, <1>2, StepsFacts
  <1>4. /\ up[0] = d /\ \A m \in Nat : up[m + 1] = s.parent[up[m]] /\ up[m] \in DOMAIN s.g
    BY <1>2, BackFacts
  <1>5. chain = [k \in 1 .. n + 1 |-> up[n + 1 - k]]
    BY <1>1, <1>2 DEF Chain
  <1>6. \A k \in 1 .. n + 1 : chain[k] = up[n + 1 - k] /\ n + 1 - k \in Nat /\ chain[k] \in DOMAIN s.g
    BY <1>3, <1>4, <1>5
  <1>7. DOMAIN s.g \subseteq open
    BY SearchingFacts
  <1>8. chain \in [1 .. n + 1 -> open]
    BY <1>5, <1>6, <1>7
  <1>9. chain \in Seq(open) /\ Len(chain) = n + 1
    BY <1>3, <1>8
  <1>10. Cardinality(open) \in Nat
    BY FS_CardinalityType
  <1>11. chain[1] = c /\ chain[Len(chain)] = d
    <2>1. chain[1] = up[n + 1 - 1] /\ chain[n + 1] = up[n + 1 - (n + 1)]
      BY <1>3, <1>6
    <2>2. n + 1 - 1 = n /\ n + 1 - (n + 1) = 0
      BY <1>3
    <2> QED
      BY <1>3, <1>4, <1>9, <2>1, <2>2
  <1>12. ASSUME NEW k \in 2 .. Len(chain)
         PROVE  /\ chain[k] \in Neighbours(c, d, chain[k - 1])
                /\ s.g[chain[k]] >= s.g[chain[k - 1]] + StepCost(chain[k - 1], chain[k])
    <2>1. k \in 2 .. n + 1
      BY <1>9
    <2>2. n + 1 - k \in 0 .. n - 1 /\ n + 1 - (k - 1) = (n + 1 - k) + 1 /\ k \in 1 .. n + 1 /\ k - 1 \in 1 .. n + 1
      BY <1>3, <2>1
    <2>3. PICK m : m = n + 1 - k
      OBVIOUS
    <2>4. m \in 0 .. n - 1 /\ m \in Nat
      BY <1>3, <2>2, <2>3
    <2>5. chain[k] = up[m] /\ chain[k - 1] = up[m + 1]
      BY <1>6, <2>2, <2>3
    <2>6. chain[k] \in DOMAIN s.g /\ chain[k - 1] = s.parent[chain[k]] /\ chain[k] # c
      BY <1>3, <1>4, <2>4, <2>5
    <2> QED
      BY <2>6, ParentFacts
  <1> QED
    BY <1>3, <1>6, <1>9, <1>10, <1>11, <1>12

(* The length of a chain is the sum of its steps.                          *)
LEMMA LengthFacts ==
  ASSUME NEW chain, Len(chain) \in Nat
  PROVE  \E sum : /\ \A k \in Nat : sum[k] \in Nat
                  /\ sum[1] = 0
                  /\ \A k \in Nat : k >= 2 => sum[k] = sum[k - 1] + StepCost(chain[k - 1], chain[k])
                  /\ Length(chain) = sum[Len(chain)]
  <1>1. PICK F : F = [p \in Nat \X Nat |-> IF p[1] < 2 THEN 0 ELSE p[2] + StepCost(chain[p[1] - 1], chain[p[1]])]
    OBVIOUS
  <1>2. \A n \in Nat, v \in Nat :
          F[<<n, v>>] = IF n < 2 THEN 0 ELSE v + StepCost(chain[n - 1], chain[n])
    BY <1>1
  <1>3. \A n \in Nat, v \in Nat : v + StepCost(chain[n - 1], chain[n]) \in Nat
    BY CostValue
  <1>4. F \in [Nat \X Nat -> Nat]
    BY <1>1, <1>3
  <1>5. PICK f \in [Nat -> Nat] : Unfolds(f, 0, F)
    BY <1>4, RecursionExists
  <1> DEFINE Added(h) == [k \in Nat |-> IF k < 2 THEN 0 ELSE h[k - 1] +
                            COST(<<chain[k][1] - chain[k - 1][1], chain[k][2] - chain[k - 1][2]>>)]
  <1>6. f = Added(f)
    <2>1. ASSUME NEW k \in Nat
          PROVE  f[k] = IF k < 2 THEN 0 ELSE f[k - 1] +
                          COST(<<chain[k][1] - chain[k - 1][1], chain[k][2] - chain[k - 1][2]>>)
      <3>1. CASE k = 0
        BY <1>5, <3>1 DEF Unfolds
      <3>2. CASE k # 0
        <4>1. k - 1 \in Nat /\ f[k - 1] \in Nat
          BY <1>5, <3>2
        <4>2. f[k] = F[<<k, f[k - 1]>>]
          BY <1>5, <3>2 DEF Unfolds
        <4>3. f[k] = IF k < 2 THEN 0 ELSE f[k - 1] + StepCost(chain[k - 1], chain[k])
          BY <1>2, <4>1, <4>2
        <4> QED
          BY <4>3 DEF StepCost
      <3> QED
        BY <3>1, <3>2
    <2> QED
      BY <1>5, <2>1
  <1>7. PICK sum : sum = CHOOSE h : h = Added(h)
    OBVIOUS
  <1>8. sum = Added(sum)
    BY <1>6, <1>7
  <1>9. ASSUME NEW k \in Nat
        PROVE  sum[k] = IF k < 2 THEN 0 ELSE sum[k - 1] + StepCost(chain[k - 1], chain[k])
    BY <1>8 DEF StepCost
  <1>10. Length(chain) = sum[Len(chain)]
    BY <1>7 DEF Length
  <1> HIDE DEF Added
  <1>11. \A k \in Nat : sum[k] \in Nat
    <2> SUFFICES ASSUME NEW z \in Nat, sum[z] \notin Nat PROVE FALSE
      OBVIOUS
    <2>1. PICK T : T = {n \in Nat : sum[n] \notin Nat}
      OBVIOUS
    <2>2. PICK n \in T : \A k \in T : n <= k
      BY <2>1, LeastOf
    <2>3. n \in Nat /\ sum[n] \notin Nat
      BY <2>1
    <2>4. ~(n < 2)
      BY <1>9, <2>3
    <2>5. n - 1 \in Nat /\ n - 1 \notin T
      BY <2>2, <2>3, <2>4
    <2>6. sum[n - 1] \in Nat
      BY <2>1, <2>5
    <2>7. StepCost(chain[n - 1], chain[n]) \in Nat
      BY CostValue
    <2>8. sum[n] = sum[n - 1] + StepCost(chain[n - 1], chain[n])
      BY <1>9, <2>3, <2>4
    <2>9. PICK p \in Nat, w \in Nat : p = sum[n - 1] /\ w = StepCost(chain[n - 1], chain[n])
      BY <2>6, <2>7
    <2>10. sum[n] = p + w /\ p + w \in Nat
      <3>1. sum[n] = p + w
        BY <2>8, <2>9, Zenon
      <3> QED
        BY <3>1
    <2>11. sum[n] \in Nat
      BY <2>10, Zenon
    <2> QED
      BY <2>3, <2>11
  <1>12. sum[1] = 0
    BY <1>9
  <1>13. ASSUME NEW k \in Nat, k >= 2 PROVE sum[k] = sum[k - 1] + StepCost(chain[k - 1], chain[k])
    BY <1>9, <1>13
  <1> QED
    BY <1>10, <1>11, <1>12, <1>13

(* What the search has not found yet costs no less than the top of its     *)
(* heap promises.                                                          *)
Promised(c, d, s, k, v) ==
  \/ k \in DOMAIN s.g /\ s.g[k] <= v
  \/ s.heap # {} /\ Top(s.heap)[1] <= v + Heuristic(k, d)

LEMMA PromiseKept ==
  ASSUME open \subseteq Cell, NEW c \in open, NEW d \in open, NEW s, Searching(c, d, s),
         NEW f \in Known, \A k \in DOMAIN f : Promised(c, d, s, k, f[k]),
         NEW h, h = Lengthened(c, d, f)
  PROVE  \A k \in DOMAIN h : Promised(c, d, s, k, h[k])
  <1> SUFFICES ASSUME NEW k \in DOMAIN h PROVE Promised(c, d, s, k, h[k])
    OBVIOUS
  <1>1. \/ k \in DOMAIN f /\ h[k] = f[k]
        \/ \E m \in DOMAIN f : k \in Neighbours(c, d, m) /\ h[k] = f[m] + StepCost(m, k)
    BY LengthenedFacts
  <1>2. CASE k \in DOMAIN f /\ h[k] = f[k]
    BY <1>2
  <1>3. CASE \E m \in DOMAIN f : k \in Neighbours(c, d, m) /\ h[k] = f[m] + StepCost(m, k)
    <2>1. PICK m \in DOMAIN f : k \in Neighbours(c, d, m) /\ h[k] = f[m] + StepCost(m, k)
      BY <1>3
    <2>2. m \in open /\ m \in Cell /\ d \in Cell /\ f[m] \in Nat
      BY KnownFacts
    <2>3. /\ StepCost(m, k) \in Nat /\ k \in Cell /\ h[k] \in Nat
          /\ Heuristic(m, d) <= StepCost(m, k) + Heuristic(k, d)
      BY <2>1, <2>2, NeighbourFacts
    <2>4. Heuristic(m, d) \in Nat /\ Heuristic(k, d) \in Nat
      BY <2>2, <2>3, HeuristicType
    <2>5. Promised(c, d, s, m, f[m])
      OBVIOUS
    <2>6. s.heap # {} => Top(s.heap)[1] \in Nat /\ \A e \in s.heap : Top(s.heap)[1] <= e[1]
      <3> SUFFICES ASSUME s.heap # {} PROVE Top(s.heap)[1] \in Nat /\ \A e \in s.heap : Top(s.heap)[1] <= e[1]
        OBVIOUS
      <3>1. Top(s.heap) \in s.heap /\ \A e \in s.heap : Top(s.heap)[1] <= e[1]
        BY HeapTop
      <3>2. Top(s.heap) \in Entry
        BY <3>1, SearchingFacts
      <3> QED
        BY <3>1, <3>2, EntryFacts
    <2>7. ASSUME s.heap # {}, Top(s.heap)[1] <= f[m] + Heuristic(m, d)
          PROVE  Promised(c, d, s, k, h[k])
      <3>1. PICK r \in Nat : r = Top(s.heap)[1]
        BY <2>6, <2>7
      <3>2. r <= h[k] + Heuristic(k, d)
        BY <2>1, <2>2, <2>3, <2>4, <2>7, <3>1
      <3> QED
        BY <2>7, <3>1, <3>2 DEF Promised
    <2>8. ASSUME m \in DOMAIN s.g, s.g[m] <= f[m]
          PROVE  Promised(c, d, s, k, h[k])
      <3>1. s.g[m] \in Nat /\ Key(d, s, m)[1] = s.g[m] + Heuristic(m, d)
        BY <2>8, SearchingFacts
      <3>2. CASE m \in Shut(d, s)
        <4>1. k \in DOMAIN s.g /\ s.g[k] <= s.g[m] + StepCost(m, k)
          BY <2>1, <3>2 DEF Searching, Relaxing
        <4>2. s.g[k] \in Nat
          BY <4>1, SearchingFacts
        <4>3. s.g[k] <= h[k]
          BY <2>1, <2>2, <2>3, <2>8, <3>1, <4>1, <4>2
        <4> QED
          BY <4>1, <4>3 DEF Promised
      <3>3. CASE m \notin Shut(d, s)
        <4>1. Key(d, s, m) \in s.heap
          BY <2>8, <3>3 DEF Shut
        <4>2. s.heap # {} /\ Top(s.heap)[1] <= Key(d, s, m)[1]
          BY <2>6, <4>1
        <4>3. Top(s.heap)[1] \in Nat
          BY <2>6, <4>2
        <4>4. Top(s.heap)[1] <= f[m] + Heuristic(m, d)
          BY <2>2, <2>4, <2>8, <3>1, <4>2, <4>3
        <4> QED
          BY <2>7, <4>2, <4>4
      <3> QED
        BY <3>2, <3>3
    <2> QED
      BY <2>5, <2>7, <2>8 DEF Promised
  <1> QED
    BY <1>1, <1>2, <1>3

LEMMA CostsPromised ==
  ASSUME open \subseteq Cell, IsFiniteSet(open), NEW c \in open, NEW d \in open, NEW s,
         Searching(c, d, s)
  PROVE  /\ Costs(c, d) \in Known
         /\ \A k \in DOMAIN Costs(c, d) : Promised(c, d, s, k, Costs(c, d)[k])
  <1>1. PICK a : /\ \A n \in Nat : a[n] \in Known
                 /\ a[0] = [k \in {c} |-> 0]
                 /\ \A n \in Nat : a[n + 1] = Lengthened(c, d, a[n])
                 /\ Costs(c, d) = a[Cardinality(open)]
    BY CostsKnown
  <1> DEFINE Holds(n) == \A k \in DOMAIN a[n] : Promised(c, d, s, k, a[n][k])
  <1>2. Holds(0)
    <2>1. c \in DOMAIN s.g /\ s.g[c] = 0
      BY DEF Searching, Rooted
    <2>2. DOMAIN a[0] = {c} /\ a[0][c] = 0
      BY <1>1
    <2>3. Promised(c, d, s, c, 0)
      BY <2>1 DEF Promised
    <2> QED
      BY <2>2, <2>3
  <1>3. \A n \in Nat : Holds(n) => Holds(n + 1)
    <2> SUFFICES ASSUME NEW n \in Nat, Holds(n) PROVE Holds(n + 1)
      OBVIOUS
    <2>1. a[n] \in Known /\ a[n + 1] = Lengthened(c, d, a[n])
      BY <1>1
    <2> QED
      BY <2>1, PromiseKept
  <1> HIDE DEF Holds
  <1>4. \A n \in Nat : Holds(n)
    <2> SUFFICES ASSUME NEW z \in Nat, ~Holds(z) PROVE FALSE
      OBVIOUS
    <2>1. PICK T : T = {n \in Nat : ~Holds(n)}
      OBVIOUS
    <2>2. PICK n \in T : \A k \in T : n <= k
      BY <2>1, LeastOf
    <2>3. n \in Nat /\ ~Holds(n)
      BY <2>1
    <2>4. n # 0
      BY <1>2, <2>3
    <2>5. n - 1 \in Nat /\ n - 1 \notin T /\ (n - 1) + 1 = n
      BY <2>2, <2>3, <2>4
    <2>6. Holds(n - 1)
      BY <2>1, <2>5
    <2> QED
      BY <1>3, <2>3, <2>5, <2>6
  <1>5. Cardinality(open) \in Nat
    BY FS_CardinalityType
  <1> QED
    BY <1>1, <1>4, <1>5 DEF Holds

(* The least cost of a way is no higher than the length of a chain.        *)
LEMMA ChainCosts ==
  ASSUME open \subseteq Cell, IsFiniteSet(open), NEW c \in open, NEW d \in open,
         NEW chain \in Seq(open), Len(chain) \in 1 .. Cardinality(open), chain[1] = c,
         \A k \in 2 .. Len(chain) : chain[k] \in Neighbours(c, d, chain[k - 1])
  PROVE  LET last == chain[Len(chain)]
         IN last \in DOMAIN Costs(c, d) /\ Costs(c, d)[last] <= Length(chain)
  <1>1. PICK a : /\ \A n \in Nat : a[n] \in Known
                 /\ a[0] = [k \in {c} |-> 0]
                 /\ \A n \in Nat : a[n + 1] = Lengthened(c, d, a[n])
                 /\ Costs(c, d) = a[Cardinality(open)]
    BY CostsKnown
  <1>2. Len(chain) \in Nat
    OBVIOUS
  <1>3. PICK sum : /\ \A k \in Nat : sum[k] \in Nat
                   /\ sum[1] = 0
                   /\ \A k \in Nat : k >= 2 => sum[k] = sum[k - 1] + StepCost(chain[k - 1], chain[k])
                   /\ Length(chain) = sum[Len(chain)]
    BY <1>2, LengthFacts
  <1> DEFINE Reached(n, i) == chain[i] \in DOMAIN a[n] /\ a[n][chain[i]] <= sum[i]
             Holds(n) == \A i \in 1 .. Len(chain) : i <= n + 1 => Reached(n, i)
  <1>4. Holds(0)
    <2> SUFFICES ASSUME NEW i \in 1 .. Len(chain), i <= 0 + 1 PROVE Reached(0, i)
      OBVIOUS
    <2>1. i = 1
      OBVIOUS
    <2>2. DOMAIN a[0] = {c} /\ a[0][c] = 0
      BY <1>1
    <2> QED
      BY <1>3, <2>1, <2>2
  <1>5. ASSUME NEW n \in Nat, Holds(n) PROVE Holds(n + 1)
    <2> SUFFICES ASSUME NEW i \in 1 .. Len(chain), i <= (n + 1) + 1 PROVE Reached(n + 1, i)
      OBVIOUS
    <2>1. PICK f \in Known, h \in Known : f = a[n] /\ h = a[n + 1] /\ h = Lengthened(c, d, f)
      <3>1. n + 1 \in Nat
        OBVIOUS
      <3>2. a[n] \in Known /\ a[n + 1] \in Known /\ a[n + 1] = Lengthened(c, d, a[n])
        BY <1>1, <3>1
      <3> QED
        BY <3>2
    <2>2. /\ \A k \in DOMAIN f : k \in DOMAIN h /\ h[k] <= f[k]
          /\ \A m \in DOMAIN f : \A k \in Neighbours(c, d, m) :
               k \in DOMAIN h /\ h[k] <= f[m] + StepCost(m, k)
      BY <2>1, LengthenedFacts
    <2>3. (\A k \in DOMAIN f : f[k] \in Nat) /\ (\A k \in DOMAIN h : h[k] \in Nat)
      BY KnownFacts
    <2>4. CASE i <= n + 1
      <3>1. chain[i] \in DOMAIN f /\ f[chain[i]] <= sum[i]
        BY <1>5, <2>1, <2>4
      <3>2. PICK k : k = chain[i]
        OBVIOUS
      <3>3. k \in DOMAIN h /\ h[k] <= f[k] /\ h[k] \in Nat /\ f[k] \in Nat /\ sum[i] \in Nat
        BY <1>3, <2>2, <2>3, <3>1, <3>2
      <3>4. h[k] <= sum[i]
        BY <3>1, <3>2, <3>3
      <3> QED
        BY <2>1, <3>2, <3>3, <3>4
    <2>5. CASE i = n + 2
      <3>1. i - 1 \in 1 .. Len(chain) /\ i - 1 <= n + 1 /\ i \in 2 .. Len(chain) /\ i \in Nat /\ i >= 2
        BY <2>5
      <3>2. PICK k, m : k = chain[i] /\ m = chain[i - 1]
        OBVIOUS
      <3>3. m \in DOMAIN f /\ f[m] <= sum[i - 1]
        BY <1>5, <2>1, <3>1, <3>2
      <3>4. k \in Neighbours(c, d, m)
        BY <3>1, <3>2
      <3>5. k \in DOMAIN h /\ h[k] <= f[m] + StepCost(m, k)
        BY <2>2, <3>3, <3>4
      <3>6. sum[i] = sum[i - 1] + StepCost(m, k) /\ sum[i - 1] \in Nat
        BY <1>3, <3>1, <3>2
      <3>7. StepCost(m, k) \in Nat /\ h[k] \in Nat /\ f[m] \in Nat
        BY <2>3, <3>3, <3>5, CostValue
      <3>8. h[k] <= sum[i]
        BY <3>3, <3>5, <3>6, <3>7
      <3> QED
        BY <2>1, <3>2, <3>5, <3>8
    <2> QED
      BY <2>4, <2>5
  <1> HIDE DEF Holds
  <1>6. \A n \in Nat : Holds(n)
    <2> SUFFICES ASSUME NEW z \in Nat, ~Holds(z) PROVE FALSE
      OBVIOUS
    <2>1. PICK T : T = {n \in Nat : ~Holds(n)}
      OBVIOUS
    <2>2. PICK n \in T : \A k \in T : n <= k
      BY <2>1, LeastOf
    <2>3. n \in Nat /\ ~Holds(n)
      BY <2>1
    <2>4. n # 0
      BY <1>4, <2>3
    <2>5. n - 1 \in Nat /\ n - 1 \notin T /\ (n - 1) + 1 = n
      BY <2>2, <2>3, <2>4
    <2>6. Holds(n - 1)
      BY <2>1, <2>5
    <2> QED
      BY <1>5, <2>3, <2>5, <2>6
  <1>7. PICK N \in Nat : N = Cardinality(open)
    BY FS_CardinalityType
  <1>8. Len(chain) \in 1 .. Len(chain) /\ Len(chain) <= N + 1
    BY <1>2, <1>7
  <1>9. Reached(N, Len(chain))
    BY <1>6, <1>7, <1>8 DEF Holds
  <1> QED
    BY <1>1, <1>3, <1>7, <1>9

(* A chain by the parents is no longer than the cost of its end.           *)
LEMMA ChainLength ==
  ASSUME open \subseteq Cell, NEW c \in open, NEW d \in open, NEW s, Searching(c, d, s),
         NEW chain \in Seq(open), Len(chain) \in Nat \ {0},
         \A k \in 1 .. Len(chain) : chain[k] \in DOMAIN s.g,
         \A k \in 2 .. Len(chain) :
           s.g[chain[k]] >= s.g[chain[k - 1]] + StepCost(chain[k - 1], chain[k])
  PROVE  Length(chain) \in Nat /\ Length(chain) <= s.g[chain[Len(chain)]]
  <1>1. PICK sum : /\ \A k \in Nat : sum[k] \in Nat
                   /\ sum[1] = 0
                   /\ \A k \in Nat : k >= 2 => sum[k] = sum[k - 1] + StepCost(chain[k - 1], chain[k])
                   /\ Length(chain) = sum[Len(chain)]
    BY LengthFacts
  <1>2. \A k \in 1 .. Len(chain) : s.g[chain[k]] \in Nat
    BY SearchingFacts
  <1>3. \A k \in 1 .. Len(chain) : sum[k] <= s.g[chain[k]]
    <2> SUFFICES ASSUME NEW z \in 1 .. Len(chain), ~(sum[z] <= s.g[chain[z]]) PROVE FALSE
      OBVIOUS
    <2>1. PICK T : T = {k \in 1 .. Len(chain) : ~(sum[k] <= s.g[chain[k]])}
      OBVIOUS
    <2>2. T \in SUBSET Nat /\ T # {}
      BY <2>1
    <2>3. PICK k \in T : \A j \in T : k <= j
      BY <2>2, LeastOf
    <2>4. k \in 1 .. Len(chain) /\ ~(sum[k] <= s.g[chain[k]])
      BY <2>1
    <2>5. s.g[chain[k]] \in Nat
      BY <1>2, <2>4
    <2>6. k # 1
      BY <1>1, <2>4, <2>5
    <2>7. k \in 2 .. Len(chain) /\ k - 1 \in 1 .. Len(chain) /\ k - 1 \notin T /\ k \in Nat /\ k >= 2 /\ k - 1 \in Nat
      BY <2>3, <2>4, <2>6
    <2>8. sum[k - 1] <= s.g[chain[k - 1]] /\ s.g[chain[k - 1]] \in Nat
      BY <1>2, <2>1, <2>7
    <2>9. PICK w \in Nat : w = StepCost(chain[k - 1], chain[k])
      BY CostValue
    <2>10. s.g[chain[k]] >= s.g[chain[k - 1]] + w
      BY <2>7, <2>9
    <2>11. sum[k] = sum[k - 1] + w /\ sum[k] \in Nat /\ sum[k - 1] \in Nat
      BY <1>1, <2>7, <2>9
    <2> QED
      BY <2>4, <2>5, <2>8, <2>10, <2>11
  <1> QED
    BY <1>1, <1>3

LEMMA FoundRight ==
  ASSUME open \subseteq Cell, IsFiniteSet(open), NEW c \in open, NEW d \in open, NEW s,
         Searching(c, d, s), Found(d, s), NEW chain, chain = Chain(c, d, s)
  PROVE  /\ d \in DOMAIN Costs(c, d)
         /\ chain # <<>> /\ chain[1] = c /\ chain[Len(chain)] = d
         /\ \A k \in 2 .. Len(chain) : chain[k] \in Neighbours(c, d, chain[k - 1])
         /\ Length(chain) = Costs(c, d)[d]
  <1>1. PICK e : e = Top(s.heap)
    OBVIOUS
  <1>2. s.heap # {} /\ CellOf(e) = d /\ e \in s.heap /\ \A k \in s.heap : e[1] <= k[1]
    BY <1>1, HeapTop DEF Found
  <1>3. d \in DOMAIN s.g /\ e[1] >= s.g[d] + Heuristic(d, d)
    BY <1>2 DEF Searching, Entered
  <1>4. Heuristic(d, d) = 0 /\ s.g[d] \in Nat
    BY <1>3, HeuristicType, SearchingFacts
  <1>5. Key(d, s, d) \in s.heap /\ Key(d, s, d)[1] = s.g[d] + Heuristic(d, d)
    BY <1>3, SearchingFacts DEF Searching, Shut
  <1>6. e[1] <= s.g[d]
    BY <1>2, <1>4, <1>5
  <1>7. /\ chain \in Seq(open) /\ Len(chain) \in 1 .. Cardinality(open)
        /\ chain[1] = c /\ chain[Len(chain)] = d
        /\ \A k \in 1 .. Len(chain) : chain[k] \in DOMAIN s.g
        /\ \A k \in 2 .. Len(chain) :
             /\ chain[k] \in Neighbours(c, d, chain[k - 1])
             /\ s.g[chain[k]] >= s.g[chain[k - 1]] + StepCost(chain[k - 1], chain[k])
    BY <1>3, ChainFacts
  <1>8. Cardinality(open) \in Nat
    BY FS_CardinalityType
  <1>9. Len(chain) \in Nat \ {0} /\ chain # <<>>
    BY <1>7, <1>8
  <1>10. d \in DOMAIN Costs(c, d) /\ Costs(c, d)[d] <= Length(chain)
    BY <1>7, ChainCosts
  <1>11. Length(chain) \in Nat /\ Length(chain) <= s.g[d]
    BY <1>7, <1>9, ChainLength
  <1>12. PICK v \in Nat : v = Costs(c, d)[d]
    BY <1>10, CostsPromised, KnownFacts
  <1>13. Promised(c, d, s, d, v)
    BY <1>10, <1>12, CostsPromised
  <1>14. s.g[d] <= v
    <2>1. CASE s.g[d] <= v
      BY <2>1
    <2>2. CASE e[1] <= v + Heuristic(d, d)
      <3>1. e \in Entry
        BY <1>2, SearchingFacts
      <3>2. e[1] \in Nat
        BY <3>1, EntryFacts
      <3> QED
        BY <1>3, <1>4, <1>12, <2>2, <3>2
    <2> QED
      BY <1>1, <1>13, <2>1, <2>2 DEF Promised
  <1>15. Length(chain) = v
    BY <1>4, <1>10, <1>11, <1>12, <1>14
  <1> QED
    BY <1>7, <1>9, <1>10, <1>12, <1>15

(* What the search finds is right, even where its loop were cut short: a   *)
(* way from c to d that goes from one open cell of the window to the next, *)
(* cuts no corner, and is as short as any.  (FindPath.)                    *)
THEOREM FoundIsShortest ==
  ASSUME open \subseteq Cell, IsFiniteSet(open)
  PROVE  \A c \in open : \A d, chain :
           chain = AStar(c, d) /\ chain # <<>> =>
             /\ Fits(c, d) /\ d \in DOMAIN Costs(c, d)
             /\ chain[1] = c /\ chain[Len(chain)] = d
             /\ \A k \in 2 .. Len(chain) : chain[k] \in Neighbours(c, d, chain[k - 1])
             /\ Length(chain) = Costs(c, d)[d]
  <1> SUFFICES ASSUME NEW c \in open, NEW d, NEW chain, chain = AStar(c, d), chain # <<>>
               PROVE  /\ Fits(c, d) /\ d \in DOMAIN Costs(c, d)
                      /\ chain[1] = c /\ chain[Len(chain)] = d
                      /\ \A k \in 2 .. Len(chain) : chain[k] \in Neighbours(c, d, chain[k - 1])
                      /\ Length(chain) = Costs(c, d)[d]
    OBVIOUS
  <1>1. PICK s : s = Searched(c, d)
    OBVIOUS
  <1>2. Fits(c, d) /\ d \in open /\ Found(d, s) /\ chain = Chain(c, d, s)
    BY <1>1 DEF AStar
  <1>3. Searching(c, d, s)
    BY <1>1, <1>2, SearchEnds
  <1> QED
    BY <1>2, <1>3, FoundRight

(* And it finds one where there is one, unless more than 1023 cells of the *)
(* window are open: the loop then may stop short of the goal.  Up to that  *)
(* number it ends with the goal or with nothing left to look at, for a     *)
(* turn shuts a cell for good or takes one of the eight entries away that  *)
(* a cell can have made.  (FindPath: the limit of the loop.)               *)
THEOREM WayIsFound ==
  ASSUME open \subseteq Cell, IsFiniteSet(open)
  PROVE  \A c \in open : \A d :
           /\ Fits(c, d) /\ d \in DOMAIN Costs(c, d)
           /\ Cardinality({k \in open : InWindow(c, d, k)}) <= 1023
           => AStar(c, d) # <<>>
  <1> SUFFICES ASSUME NEW c \in open, NEW d, Fits(c, d), d \in DOMAIN Costs(c, d),
                      Cardinality({k \in open : InWindow(c, d, k)}) <= 1023
               PROVE  AStar(c, d) # <<>>
    OBVIOUS
  <1>1. d \in open
    <2>1. PICK a : /\ \A n \in Nat : a[n] \in Known
                   /\ Costs(c, d) = a[Cardinality(open)]
      BY CostsKnown
    <2>2. Cardinality(open) \in Nat
      BY FS_CardinalityType
    <2>3. Costs(c, d) \in Known
      BY <2>1, <2>2
    <2> QED
      BY <2>3, KnownFacts
  <1>2. PICK s : s = Searched(c, d)
    OBVIOUS
  <1>3. Searching(c, d, s) /\ Done(d, s)
    BY <1>1, <1>2, SearchEnds DEF Room
  <1>4. Found(d, s)
    <2> SUFFICES ASSUME s.heap = {} PROVE FALSE
      BY <1>3 DEF Done
    <2>1. Promised(c, d, s, d, Costs(c, d)[d])
      BY <1>1, <1>3, CostsPromised
    <2>2. d \in DOMAIN s.g
      BY <2>1 DEF Promised
    <2> QED
      BY <1>3, <2>2 DEF Searching, Shut
  <1>5. AStar(c, d) = Chain(c, d, s)
    BY <1>1, <1>2, <1>4 DEF AStar
  <1> QED
    BY <1>1, <1>3, <1>4, <1>5, FoundRight

-----------------------------------------------------------------------------
(* The hunt.                                                               *)

(* Ways that add up: the third side of a triangle.                         *)
LEMMA WaysAdd ==
  ASSUME NEW p, p.x \in Int, p.y \in Int, NEW q, q.x \in Int, q.y \in Int,
         NEW r, r.x \in Int, r.y \in Int, NEW a \in Nat, NEW b \in Nat,
         Distance2DSq(p, q) <= a * a, Distance2DSq(q, r) <= b * b
  PROVE  Distance2DSq(p, r) <= (a + b) * (a + b)
  <1>1. PICK u \in Int, v \in Int : u = p.x - q.x /\ v = p.y - q.y
    OBVIOUS
  <1>2. PICK w \in Int, z \in Int : w = q.x - r.x /\ z = q.y - r.y
    OBVIOUS
  <1>3. p.x - r.x = u + w /\ p.y - r.y = v + z
    BY <1>1, <1>2
  <1>4. u * u + v * v <= a * a /\ w * w + z * z <= b * b
    BY <1>1, <1>2 DEF Distance2DSq
  <1>5. Distance2DSq(p, r) = (u + w) * (u + w) + (v + z) * (v + z)
    BY <1>3 DEF Distance2DSq
  <1>6. PICK dot \in Int, cross \in Int : dot = u * w + v * z /\ cross = u * z - v * w
    OBVIOUS
  <1>7. PICK M \in Nat : M = u * u + v * v
    <2>1. u * u \in Nat /\ v * v \in Nat
      BY AbsSquare
    <2> QED
      BY <2>1
  <1>8. PICK N \in Nat : N = w * w + z * z
    <2>1. w * w \in Nat /\ z * z \in Nat
      BY AbsSquare
    <2> QED
      BY <2>1
  <1>9. dot * dot + cross * cross = M * N
    BY <1>6, <1>7, <1>8
  <1>10. PICK A \in Nat, B \in Nat : A = a * a /\ B = b * b
    OBVIOUS
  <1>11. M * N <= A * B
    BY <1>4, <1>7, <1>8, <1>10, ProductUp
  <1>12. A * B = (a * b) * (a * b) /\ a * b \in Nat
    BY <1>10
  <1>13. dot * dot <= (a * b) * (a * b)
    <2>1. cross * cross \in Nat /\ dot * dot \in Nat
      BY AbsSquare
    <2>2. M * N \in Nat /\ A * B \in Nat
      OBVIOUS
    <2> QED
      BY <2>1, <2>2, <1>9, <1>11, <1>12
  <1>14. dot <= a * b
    <2>1. PICK e \in Nat : e = Abs(dot) /\ e * e = dot * dot
      BY AbsSquare
    <2>2. e <= a * b
      BY <2>1, <1>12, <1>13, SquareDown
    <2> QED
      BY <2>1, <2>2, <1>12 DEF Abs
  <1>15. (u + w) * (u + w) + (v + z) * (v + z) = M + N + 2 * dot
    BY <1>6, <1>7, <1>8
  <1>16. (a + b) * (a + b) = A + B + 2 * (a * b)
    BY <1>10
  <1> QED
    BY <1>4, <1>5, <1>7, <1>8, <1>10, <1>12, <1>14, <1>15, <1>16

(* A recursion over an interval.                                           *)
UnfoldsTo(f, b, F, n) == f[0] = b /\ \A k \in 1 .. n : f[k] = F[<<k, f[k - 1]>>]

LEMMA RecursionUpTo ==
  ASSUME NEW S, NEW b \in S, NEW F \in [Nat \X S -> S], NEW n \in Nat
  PROVE  \E f \in [0 .. n -> S] : UnfoldsTo(f, b, F, n)
  <1>1. PICK h \in [Nat -> S] : Unfolds(h, b, F)
    BY RecursionExists
  <1>2. PICK f : f = [k \in 0 .. n |-> h[k]]
    OBVIOUS
  <1>3. f \in [0 .. n -> S] /\ f[0] = b
    BY <1>1, <1>2 DEF Unfolds
  <1>4. ASSUME NEW k \in 1 .. n PROVE f[k] = F[<<k, f[k - 1]>>]
    <2>1. k \in Nat \ {0} /\ k \in 0 .. n /\ k - 1 \in 0 .. n
      OBVIOUS
    <2>2. f[k] = h[k] /\ f[k - 1] = h[k - 1]
      BY <1>2, <2>1
    <2> QED
      BY <1>1, <2>1, <2>2 DEF Unfolds
  <1> QED
    BY <1>3, <1>4 DEF UnfoldsTo

Standing == {s \in MoveState : IsWalkable(s) /\ s.z >= SampleHeight(s)}

LEMMA StepStands ==
  ASSUME NEW s \in Standing, NEW in \in Input, NEW t, t = SimulateStep(s, in)
  PROVE  t \in Standing /\ Distance2DSq(s, t) <= 32 * 32
  <1>1. s \in MoveState /\ IsWalkable(s)
    BY DEF Standing
  <1>2. /\ t \in MoveState /\ IsWalkable(t) /\ t.z >= SampleHeight(t)
        /\ Distance2DSq(s, t) <= MAX_STEP * MAX_STEP
    BY <1>1, HeroStepsLegal, Zenon
  <1> QED
    BY <1>2, MaxStepValue, Zenon DEF Standing

(* The inputs of a tick, one after the other.                              *)
LEMMA HeroSteps ==
  ASSUME NEW s \in Standing, NEW inputs \in Seq(Input)
  PROVE  /\ Simulated(s, inputs) \in Standing
         /\ Distance2DSq(s, Simulated(s, inputs)) <= (32 * Len(inputs)) * (32 * Len(inputs))
  <1>1. PICK n \in Nat : n = Len(inputs)
    OBVIOUS
  <1>2. \A k \in 1 .. n : inputs[k] \in Input
    BY <1>1
  <1>3. PICK F : F = [p \in Nat \X Standing |->
                        IF p[1] \in 1 .. n THEN SimulateStep(p[2], inputs[p[1]]) ELSE p[2]]
    OBVIOUS
  <1>4. \A k \in 1 .. n, t \in Standing : SimulateStep(t, inputs[k]) \in Standing
    BY <1>2, StepStands
  <1>5. F \in [Nat \X Standing -> Standing]
    <2>1. ASSUME NEW p \in Nat \X Standing
          PROVE  (IF p[1] \in 1 .. n THEN SimulateStep(p[2], inputs[p[1]]) ELSE p[2]) \in Standing
      <3>1. p[2] \in Standing
        OBVIOUS
      <3>2. p[1] \in 1 .. n => SimulateStep(p[2], inputs[p[1]]) \in Standing
        BY <1>4, <3>1, Zenon
      <3> QED
        BY <3>1, <3>2, Zenon
    <2> DEFINE Value(p) == IF p[1] \in 1 .. n THEN SimulateStep(p[2], inputs[p[1]]) ELSE p[2]
    <2>2. F = [p \in Nat \X Standing |-> Value(p)]
      BY <1>3
    <2>3. \A p \in Nat \X Standing : Value(p) \in Standing
      BY <2>1
    <2> HIDE DEF Value
    <2> QED
      BY <2>2, <2>3
  <1>6. PICK f \in [0 .. n -> Standing] : f[0] = s /\ \A k \in 1 .. n : f[k] = F[<<k, f[k - 1]>>]
    <2>1. \E f \in [0 .. n -> Standing] : UnfoldsTo(f, s, F, n)
      BY <1>5, RecursionUpTo
    <2> QED
      BY <2>1 DEF UnfoldsTo
  <1>7. ASSUME NEW k \in 1 .. n
        PROVE  f[k] = SimulateStep(f[k - 1], inputs[k]) /\ f[k - 1] \in Standing
    <2>1. k - 1 \in 0 .. n /\ k \in Nat
      OBVIOUS
    <2>2. f[k - 1] \in Standing
      BY <2>1
    <2> QED
      BY <1>3, <1>6, <2>1, <2>2
  <1> DEFINE After(h) == [k \in 0 .. Len(inputs) |->
                            IF k = 0 THEN s ELSE SimulateStep(h[k - 1], inputs[k])]
  <1>8. f = After(f)
    <2>1. ASSUME NEW k \in 0 .. n
          PROVE  f[k] = IF k = 0 THEN s ELSE SimulateStep(f[k - 1], inputs[k])
      <3>1. k # 0 => k \in 1 .. n
        OBVIOUS
      <3> QED
        BY <1>6, <1>7, <3>1
    <2> QED
      BY <1>1, <1>6, <2>1
  <1>9. PICK a : a = CHOOSE h : h = After(h)
    OBVIOUS
  <1>10. a = After(a)
    BY <1>8, <1>9
  <1>11. \A k \in 0 .. n : a[k] = IF k = 0 THEN s ELSE SimulateStep(a[k - 1], inputs[k])
    BY <1>1, <1>10
  <1>12. Simulated(s, inputs) = a[n]
    BY <1>1, <1>9 DEF Simulated
  <1> HIDE DEF After
  <1> DEFINE Good(k) == a[k] \in Standing /\ Distance2DSq(s, a[k]) <= (32 * k) * (32 * k)
  <1>13. Good(0)
    <2>1. a[0] = s
      BY <1>11
    <2>2. s.x \in Int /\ s.y \in Int
      BY DEF Standing, MoveState
    <2>3. Distance2DSq(s, s) = 0
      BY <2>2 DEF Distance2DSq
    <2> QED
      BY <2>1, <2>3
  <1>14. ASSUME NEW k \in 1 .. n, Good(k - 1) PROVE Good(k)
    <2>1. PICK p \in Standing : p = a[k - 1]
      BY <1>14
    <2>2. PICK q : q = a[k]
      OBVIOUS
    <2>3. k \in 0 .. n /\ k # 0
      OBVIOUS
    <2>4. q = SimulateStep(p, inputs[k])
      BY <1>11, <2>1, <2>2, <2>3
    <2>5. q \in Standing /\ Distance2DSq(p, q) <= 32 * 32
      BY <1>2, <2>4, StepStands
    <2>6. /\ s.x \in Int /\ s.y \in Int /\ p.x \in Int /\ p.y \in Int
          /\ q.x \in Int /\ q.y \in Int
      BY <2>5 DEF Standing, MoveState
    <2>7. PICK e \in Nat : e = 32 * (k - 1)
      OBVIOUS
    <2>8. Distance2DSq(s, p) <= e * e
      BY <1>14, <2>1, <2>7
    <2>9. Distance2DSq(s, q) <= (e + 32) * (e + 32)
      BY <2>5, <2>6, <2>8, WaysAdd
    <2>10. e + 32 = 32 * k
      BY <2>7
    <2> QED
      BY <2>2, <2>5, <2>9, <2>10
  <1>15. Good(n)
    <2> SUFFICES ASSUME ~ Good(n) PROVE FALSE
      OBVIOUS
    <2>1. PICK T : T = {k \in 0 .. n : ~ Good(k)}
      OBVIOUS
    <2>2. T \in SUBSET Nat /\ n \in T
      BY <2>1
    <2>3. PICK m \in T : \A k \in T : m <= k
      BY <2>2, LeastOf
    <2> HIDE DEF Good
    <2>4. m \in 0 .. n /\ ~ Good(m)
      BY <2>1
    <2>5. m # 0
      BY <1>13, <2>4
    <2>6. m \in 1 .. n /\ m - 1 \in 0 .. n /\ m - 1 \notin T
      BY <2>3, <2>4, <2>5
    <2>7. Good(m - 1)
      BY <2>1, <2>6
    <2> QED
      BY <1>14, <2>4, <2>6, <2>7
  <1> QED
    BY <1>1, <1>12, <1>15

(* What path finding returns.                                              *)
LEMMA AStarFacts ==
  ASSUME open \subseteq Cell, IsFiniteSet(open), NEW c \in open, NEW d
  PROVE  AStar(c, d) \in Seq(open)
  <1>1. PICK s : s = Searched(c, d)
    OBVIOUS
  <1>2. CASE Fits(c, d) /\ d \in open /\ Found(d, s)
    <2>1. AStar(c, d) = Chain(c, d, s)
      BY <1>1, <1>2 DEF AStar
    <2>2. Searching(c, d, s)
      BY <1>1, <1>2, SearchEnds
    <2>3. d \in DOMAIN s.g
      <3>1. Top(s.heap) \in s.heap
        BY <1>2, <2>2, HeapTop DEF Found
      <3> QED
        BY <1>2, <2>2, <3>1 DEF Found, Searching, Entered
    <2> QED
      BY <1>2, <2>1, <2>2, <2>3, ChainFacts
  <1>3. CASE ~ (Fits(c, d) /\ d \in open /\ Found(d, s))
    <2>1. AStar(c, d) = <<>>
      BY <1>1, <1>3 DEF AStar
    <2> QED
      BY <2>1
  <1> QED
    BY <1>2, <1>3

LEMMA ToWorldPosition ==
  ASSUME NEW c \in Cell
  PROVE  ToWorld(c) \in Position
  <1>1. c[1] \in Int /\ c[2] \in Int
    BY DEF Cell
  <1> QED
    BY <1>1 DEF ToWorld, Position, WORLD_MIN_CM, NAV_CELL_SIZE

(* String pulling keeps the first waypoint and the last.                   *)
LEMMA PulledFacts ==
  ASSUME NEW chain \in Seq(Cell), Len(chain) >= 2
  PROVE  Pulled(chain) \in Seq(Position) /\ Len(Pulled(chain)) >= 2
  <1>1. PICK n \in Nat : n = Len(chain) /\ n >= 2
    OBVIOUS
  <1>2. \A k \in 1 .. n : chain[k] \in Cell /\ ToWorld(chain[k]) \in Position
    BY <1>1, ToWorldPosition
  <1>3. PICK S : S = {w \in Seq(Position) : Len(w) >= 1}
    OBVIOUS
  <1> DEFINE Kept(out, k) == IF Skips(chain, k, out) THEN out ELSE Append(out, ToWorld(chain[k]))
  <1>4. ASSUME NEW out \in S, NEW k \in 1 .. n
        PROVE  Kept(out, k) \in S
    <2>1. out \in Seq(Position) /\ Len(out) >= 1
      BY <1>3
    <2>2. Append(out, ToWorld(chain[k])) \in Seq(Position)
      BY <1>2, <2>1
    <2>3. Len(Append(out, ToWorld(chain[k]))) = Len(out) + 1
      BY <2>1
    <2>4. Append(out, ToWorld(chain[k])) \in S
      BY <1>3, <2>1, <2>2, <2>3
    <2> QED
      BY <2>4, Zenon
  <1>5. PICK b : b = <<ToWorld(chain[1])>>
    OBVIOUS
  <1>6. b \in S
    BY <1>1, <1>2, <1>3, <1>5
  <1> HIDE DEF Kept
  <1>7. PICK F : F = [p \in Nat \X S |-> IF p[1] \in 1 .. n - 1 THEN Kept(p[2], p[1] + 1) ELSE p[2]]
    OBVIOUS
  <1>8. F \in [Nat \X S -> S]
    <2>1. ASSUME NEW p \in Nat \X S
          PROVE  (IF p[1] \in 1 .. n - 1 THEN Kept(p[2], p[1] + 1) ELSE p[2]) \in S
      <3>1. p[2] \in S
        OBVIOUS
      <3>2. p[1] \in 1 .. n - 1 => p[1] + 1 \in 1 .. n
        OBVIOUS
      <3>3. p[1] \in 1 .. n - 1 => Kept(p[2], p[1] + 1) \in S
        BY <1>4, <3>1, <3>2, Zenon
      <3> QED
        BY <3>1, <3>3, Zenon
    <2> DEFINE Value(p) == IF p[1] \in 1 .. n - 1 THEN Kept(p[2], p[1] + 1) ELSE p[2]
    <2>2. F = [p \in Nat \X S |-> Value(p)]
      BY <1>7
    <2>3. \A p \in Nat \X S : Value(p) \in S
      BY <2>1
    <2> HIDE DEF Value
    <2> QED
      BY <2>2, <2>3
  <1>9. n - 1 \in Nat
    BY <1>1
  <1>10. PICK h \in [0 .. n - 1 -> S] : h[0] = b /\ \A k \in 1 .. n - 1 : h[k] = F[<<k, h[k - 1]>>]
    <2>1. \E h \in [0 .. n - 1 -> S] : UnfoldsTo(h, b, F, n - 1)
      BY <1>6, <1>8, <1>9, RecursionUpTo
    <2> QED
      BY <2>1 DEF UnfoldsTo
  <1>11. PICK f : f = [k \in 1 .. n |-> h[k - 1]]
    OBVIOUS
  <1>12. ASSUME NEW k \in 1 .. n
         PROVE  /\ f[k] \in S
                /\ f[k] = IF k = 1 THEN b ELSE Kept(f[k - 1], k)
    <2>1. k - 1 \in 0 .. n - 1 /\ f[k] = h[k - 1]
      BY <1>11
    <2>2. CASE k = 1
      BY <1>10, <2>1, <2>2
    <2>3. CASE k # 1
      <3>1. k - 1 \in 1 .. n - 1 /\ k - 1 \in 1 .. n /\ (k - 1) - 1 \in 0 .. n - 1
            /\ (k - 1) + 1 = k /\ k - 1 \in Nat
        BY <2>3
      <3>2. f[k - 1] = h[(k - 1) - 1] /\ f[k - 1] \in S
        BY <1>10, <1>11, <3>1
      <3>3. h[k - 1] = F[<<k - 1, f[k - 1]>>]
        BY <1>10, <3>1, <3>2
      <3>4. F[<<k - 1, f[k - 1]>>] = Kept(f[k - 1], (k - 1) + 1)
        BY <1>7, <3>1, <3>2
      <3> QED
        BY <1>10, <2>1, <2>3, <3>1, <3>3, <3>4
    <2> QED
      BY <2>2, <2>3
  <1> DEFINE Pull(g) == [k \in 1 .. Len(chain) |->
                          IF k = 1 THEN <<ToWorld(chain[1])>>
                          ELSE IF Skips(chain, k, g[k - 1]) THEN g[k - 1]
                          ELSE Append(g[k - 1], ToWorld(chain[k]))]
  <1>13. f = Pull(f)
    <2>1. ASSUME NEW k \in 1 .. n
          PROVE  f[k] = IF k = 1 THEN <<ToWorld(chain[1])>>
                        ELSE IF Skips(chain, k, f[k - 1]) THEN f[k - 1]
                        ELSE Append(f[k - 1], ToWorld(chain[k]))
      BY <1>5, <1>12, Zenon DEF Kept
    <2> QED
      BY <1>1, <1>11, <2>1
  <1>14. PICK a : a = CHOOSE g : g = Pull(g)
    OBVIOUS
  <1>15. a = Pull(a)
    BY <1>13, <1>14
  <1>16. Pulled(chain) = a[n]
    BY <1>1, <1>14 DEF Pulled
  <1>17. \A k \in 1 .. n : a[k] = IF k = 1 THEN b ELSE Kept(a[k - 1], k)
    BY <1>1, <1>5, <1>15 DEF Kept
  <1> HIDE DEF Pull
  <1>18. \A k \in 1 .. n : a[k] \in S
    <2> SUFFICES ASSUME NEW z \in 1 .. n, a[z] \notin S PROVE FALSE
      OBVIOUS
    <2>1. PICK T : T = {k \in 1 .. n : a[k] \notin S}
      OBVIOUS
    <2>2. T \in SUBSET Nat /\ T # {}
      BY <2>1
    <2>3. PICK m \in T : \A k \in T : m <= k
      BY <2>2, LeastOf
    <2>4. m \in 1 .. n /\ a[m] \notin S
      BY <2>1
    <2>5. m # 1
      BY <1>6, <1>17, <2>4
    <2>6. m - 1 \in 1 .. n /\ m - 1 \notin T
      BY <2>3, <2>4, <2>5
    <2>7. a[m - 1] \in S
      BY <2>1, <2>6
    <2>8. a[m] = Kept(a[m - 1], m)
      BY <1>17, <2>4, <2>5
    <2> QED
      BY <1>4, <2>4, <2>7, <2>8
  <1>19. n \in 1 .. n /\ n # 1 /\ n - 1 \in 1 .. n
    BY <1>1
  <1>20. PICK out \in S : out = a[n - 1]
    BY <1>18, <1>19
  <1>21. a[n] = Append(out, ToWorld(chain[n]))
    <2>1. ~ Skips(chain, n, out)
      BY <1>1 DEF Skips
    <2>2. a[n] = Kept(out, n)
      BY <1>17, <1>19, <1>20
    <2> QED
      BY <2>1, <2>2 DEF Kept
  <1>22. out \in Seq(Position) /\ Len(out) >= 1
    BY <1>3
  <1> QED
    BY <1>2, <1>16, <1>19, <1>21, <1>22

LEMMA PathFacts ==
  ASSUME open \subseteq Cell, IsFiniteSet(open), NEW p, NEW q, ToCell(p) \in open,
         NEW way, way = FindPath(p, q)
  PROVE  way \in Seq(Position) /\ (way # <<>> => Len(way) >= 2)
  <1>1. PICK chain : chain = AStar(ToCell(p), ToCell(q))
    OBVIOUS
  <1>2. chain \in Seq(open) /\ chain \in Seq(Cell)
    <2>1. chain \in Seq(open)
      BY <1>1, AStarFacts
    <2> QED
      BY <2>1
  <1>3. CASE Len(chain) < 2
    BY <1>1, <1>3 DEF FindPath
  <1>4. CASE ~ (Len(chain) < 2)
    <2>1. way = Pulled(chain)
      BY <1>1, <1>4 DEF FindPath
    <2>2. Len(chain) >= 2
      BY <1>2, <1>4
    <2> QED
      BY <1>2, <2>1, <2>2, PulledFacts
  <1> QED
    BY <1>3, <1>4

(* The invariant of a hunt: everything is what it is said to be, and       *)
(* monster and player stand where one may stand.                           *)
HuntType ==
  /\ open \in OpenSets
  /\ mob \in Position /\ hero \in MoveState
  /\ script \in Seq(Seq(Input))
  /\ path \in Seq(Position) /\ next \in Nat \ {0}
  /\ due \in 0 .. AI_TICK_INTERVAL

HuntInv == HuntType /\ IsWalkable(mob) /\ hero \in Standing

LEMMA OpenFacts ==
  ASSUME open \in OpenSets
  PROVE  open \subseteq Cell /\ IsFiniteSet(open)
  BY HuntAssumption DEF Cell

LEMMA SteppedFacts ==
  ASSUME HuntInv, NEW goal \in Position, NEW t, t = Stepped(goal)
  PROVE  /\ t \in Position /\ IsWalkable(t)
         /\ Distance2DSq(mob, t) <= MobStep * MobStep
  <1>1. mob \in Position /\ IsWalkable(mob) /\ MobSpeed \in Int
    BY HuntAssumption DEF HuntInv, HuntType
  <1>2. TICK_MS * AI_TICK_INTERVAL = 99 /\ MobSpeed * TICK_MS * AI_TICK_INTERVAL = MobSpeed * 99
    BY <1>1 DEF TICK_MS, AI_TICK_INTERVAL
  <1>3. t = MoveToward(mob, goal, MobSpeed, 99)
    BY <1>2, Zenon DEF Stepped
  <1>4. PICK far \in Int : far = Quot(MobSpeed * 99, 1000)
    <2>1. PICK n \in Int : n = MobSpeed * 99
      BY <1>1
    <2>2. Quot(n, 1000) \in Int
      BY QuotBounds
    <2> QED
      BY <2>1, <2>2
  <1>5. /\ t \in Position /\ IsWalkable(t)
        /\ far <= 0 => t = mob
        /\ far >= 0 => Distance2DSq(mob, t) <= (far + 1) * (far + 1)
    <2>1. PICK dt \in Nat : dt = 99
      OBVIOUS
    <2>2. t = MoveToward(mob, goal, MobSpeed, dt) /\ far = Quot(MobSpeed * dt, 1000)
      BY <1>3, <1>4, <2>1
    <2> DEFINE u == MoveToward(mob, goal, MobSpeed, dt)
               v == Quot(MobSpeed * dt, 1000)
    <2>3. /\ u \in Position /\ IsWalkable(u)
          /\ v <= 0 => u = mob
          /\ v >= 0 => Distance2DSq(mob, u) <= (v + 1) * (v + 1)
      BY <1>1, MonsterStepsLegal
    <2> QED
      <3> HIDE DEF u, v
      <3>1. t = u /\ far = v
        BY <2>2 DEF u, v
      <3> QED
        BY <2>3, <3>1
  <1>6. MobStep = far + 1
    <2>1. PICK n : n = MobSpeed * 99
      OBVIOUS
    <2>2. n = MobSpeed * TICK_MS * AI_TICK_INTERVAL /\ far = Quot(n, 1000)
      BY <1>2, <1>4, <2>1
    <2> QED
      BY <2>2, Zenon DEF MobStep
  <1>7. Distance2DSq(mob, t) <= (far + 1) * (far + 1)
    <2>1. CASE far >= 0
      BY <1>5, <2>1
    <2>2. CASE far < 0
      <3>1. t = mob /\ mob.x \in Int /\ mob.y \in Int
        BY <1>1, <1>4, <1>5, <2>2 DEF Position
      <3>2. Distance2DSq(mob, t) = 0
        BY <3>1 DEF Distance2DSq
      <3>3. (far + 1) * (far + 1) \in Nat
        BY AbsSquare
      <3> QED
        BY <3>2, <3>3
    <2> QED
      BY <1>4, <2>1, <2>2
  <1> QED
    BY <1>5, <1>6, <1>7

(* A step of the monster, or none.                                         *)
MobGoes == /\ mob' \in Position /\ IsWalkable(mob')
           /\ Distance2DSq(mob, mob') <= MobStep * MobStep

LEMMA MobStays ==
  ASSUME HuntInv, mob' = mob
  PROVE  MobGoes
  <1>1. mob \in Position /\ IsWalkable(mob) /\ mob.x \in Int /\ mob.y \in Int
    BY DEF HuntInv, HuntType, Position
  <1>2. Distance2DSq(mob, mob) = 0
    BY <1>1 DEF Distance2DSq
  <1>3. PICK m \in Int : m = MobStep
    <2>1. MobSpeed * TICK_MS * AI_TICK_INTERVAL \in Int
      BY HuntAssumption DEF TICK_MS, AI_TICK_INTERVAL
    <2>2. PICK n \in Int : n = MobSpeed * TICK_MS * AI_TICK_INTERVAL
      BY <2>1
    <2>3. Quot(n, 1000) + 1 \in Int
      BY QuotBounds
    <2> QED
      BY <2>2, <2>3, Zenon DEF MobStep
  <1>4. m * m \in Nat
    BY AbsSquare
  <1>5. Distance2DSq(mob, mob) <= MobStep * MobStep
    BY <1>2, <1>3, <1>4
  <1> QED
    BY <1>1, <1>5 DEF MobGoes

LEMMA AlongFacts ==
  ASSUME HuntInv, NEW way \in Seq(Position), NEW k \in 1 .. Len(way), Along(way, k)
  PROVE  next' \in Nat \ {0} /\ MobGoes
  <1>1. PICK to \in {k, k + 1} :
          /\ next' = to
          /\ mob' = IF to > Len(way) THEN mob ELSE Stepped(way[to])
    BY DEF Along
  <1>2. to \in Nat \ {0} /\ Len(way) \in Nat
    OBVIOUS
  <1>3. CASE to > Len(way)
    BY <1>1, <1>2, <1>3, MobStays
  <1>4. CASE ~ (to > Len(way))
    <2>1. way[to] \in Position /\ mob' = Stepped(way[to])
      BY <1>1, <1>2, <1>4
    <2> QED
      BY <1>1, <1>2, <2>1, SteppedFacts DEF MobGoes
  <1> QED
    BY <1>3, <1>4

LEMMA GoalPosition ==
  ASSUME HuntInv
  PROVE  Goal \in Position /\ Goal.x = hero.x /\ Goal.y = hero.y
  BY DEF HuntInv, HuntType, Goal, Spot, MoveState, Position

(* What every step does: the player goes no further than the inputs allow, *)
(* or the monster goes.                                                    *)
HeroGoes == /\ hero' \in Standing
            /\ Distance2DSq(hero, hero') <= (32 * Sent) * (32 * Sent)

Kept == path' \in Seq(Position) /\ next' \in Nat \ {0} /\ due' \in 0 .. AI_TICK_INTERVAL

LEMMA HeroStays ==
  ASSUME HuntInv, hero' = hero
  PROVE  HeroGoes
  <1>1. hero \in Standing /\ hero.x \in Int /\ hero.y \in Int /\ script \in Seq(Seq(Input))
    BY DEF HuntInv, HuntType, MoveState
  <1>2. Distance2DSq(hero, hero) = 0
    BY <1>1 DEF Distance2DSq
  <1>3. PICK n \in Nat : n = Sent
    <2>1. script # <<>> => Head(script) \in Seq(Input)
      BY <1>1
    <2> QED
      BY <2>1 DEF Sent
  <1>4. (32 * n) * (32 * n) \in Nat
    OBVIOUS
  <1> QED
    BY <1>1, <1>2, <1>3, <1>4 DEF HeroGoes

LEMMA TickFacts ==
  ASSUME HuntInv, Tick
  PROVE  due' \in 0 .. AI_TICK_INTERVAL
  BY DEF HuntInv, HuntType, Tick, AI_TICK_INTERVAL

(* Gravity draws nobody aside.                                             *)
LEMMA IdleStays ==
  ASSUME NEW s \in Standing, NEW t, t = SimulateStep(s, Idle)
  PROVE  t \in Standing /\ t.x = s.x /\ t.y = s.y
  <1>1. Idle \in Input
    BY DEF Idle, Input
  <1>2. t \in Standing
    BY <1>1, StepStands
  <1>3. s.x \in Int /\ s.y \in Int /\ s.fx \in Fraction /\ s.fy \in Fraction /\ IsWalkable(s)
    BY DEF Standing, MoveState
  <1>4. PICK w : w = Walk(s, Idle)
    OBVIOUS
  <1>5. t.x = w.x /\ t.y = w.y
    BY <1>4 DEF SimulateStep
  <1>6. SanitizeInput(Idle).x = 0 /\ SanitizeInput(Idle).y = 0
    BY DEF SanitizeInput, Shortened, Within, Idle
  <1>7. Quot(0 * WALK_SPEED, 1000) = 0
    BY DEF Quot, WALK_SPEED
  <1>8. ASSUME NEW f \in Fraction PROVE Travel(0, f) = 0
    <2>1. 0 * TICK_MS + f = f /\ -999 <= f /\ f <= 999 /\ f \in Int
      BY DEF TICK_MS, Fraction
    <2>2. Quot(f, 1000) = 0
      BY <2>1 DEF Quot
    <2> QED
      BY <2>1, <2>2 DEF Travel
  <1>9. Idle.sprint = FALSE
    BY DEF Idle
  <1>10. PICK to : to = Slide(s, 0, 0)
    OBVIOUS
  <1>11. to.x = s.x /\ to.y = s.y
    <2>1. \A v \in Int : v + 0 = v
      OBVIOUS
    <2> QED
      BY <1>3, <1>10, <2>1 DEF Slide
  <1>12. /\ w.x = Within(to.x, WORLD_MIN_CM, WORLD_MAX_CM - 1)
         /\ w.y = Within(to.y, WORLD_MIN_CM, WORLD_MAX_CM - 1)
    <2>1. Travel(0, s.fx) = 0 /\ Travel(0, s.fy) = 0
      BY <1>3, <1>8
    <2> QED
      BY <1>4, <1>6, <1>7, <1>9, <1>10, <2>1, SMTT(20) DEF Walk
  <1>13. w.x = s.x /\ w.y = s.y
    BY <1>3, <1>11, <1>12 DEF IsWalkable, InWorld, Within, WORLD_MIN_CM, WORLD_MAX_CM
  <1> QED
    BY <1>2, <1>5, <1>13

LEMMA HuntInit == Init => HuntInv
  <1> SUFFICES ASSUME Init PROVE HuntInv
    OBVIOUS
  <1>1. PICK p \in HeroStarts :
          /\ IsWalkable(p)
          /\ hero = [x |-> p.x, y |-> p.y, z |-> SampleHeight(p), vz |-> 0,
                     fx |-> 0, fy |-> 0, fz |-> 0, grounded |-> TRUE]
    BY DEF Init
  <1>2. p.x \in Int /\ p.y \in Int
    BY HuntAssumption DEF Position
  <1>3. PICK g \in Int : g = SampleHeight(p)
    BY <1>2, SampleInt
  <1>4. hero \in MoveState /\ hero.x = p.x /\ hero.y = p.y /\ hero.z = g
    <2>1. 0 \in Fraction
      BY DEF Fraction
    <2> QED
      BY <1>1, <1>2, <1>3, <2>1 DEF MoveState
  <1>5. IsWalkable(hero) /\ SampleHeight(hero) = g
    <2>1. IsWalkable(hero)
      BY <1>1, <1>4 DEF IsWalkable, ToCell
    <2>2. SampleHeight(hero) = SampleHeight(p)
      BY <1>4 DEF SampleHeight
    <2> QED
      BY <1>3, <2>1, <2>2
  <1>6. hero \in Standing
    BY <1>3, <1>4, <1>5 DEF Standing
  <1>7. mob \in Position /\ IsWalkable(mob)
    BY HuntAssumption DEF Init
  <1>8. script \in Seq(Seq(Input)) /\ path \in Seq(Position) /\ next \in Nat \ {0}
    BY HuntAssumption DEF Init
  <1>9. open \in OpenSets /\ due \in 0 .. AI_TICK_INTERVAL
    BY DEF Init, AI_TICK_INTERVAL
  <1> QED
    BY <1>4, <1>6, <1>7, <1>8, <1>9 DEF HuntInv, HuntType

(* What every step does to monster and player.                             *)
LEMMA HuntSteps ==
  ASSUME HuntInv, Next
  PROVE  /\ open' = open /\ script' \in Seq(Seq(Input))
         /\ MobGoes /\ HeroGoes /\ Kept
  <1>0. /\ open \in OpenSets /\ open \subseteq Cell /\ IsFiniteSet(open)
        /\ hero \in Standing /\ script \in Seq(Seq(Input))
        /\ path \in Seq(Position) /\ next \in Nat \ {0}
    BY OpenFacts DEF HuntInv, HuntType
  <1>1. CASE Act
    <2>1. /\ script # <<>> /\ Head(script) # <<>>
          /\ hero' = Simulated(hero, Head(script)) /\ script' = Tail(script)
          /\ Tick /\ open' = open /\ mob' = mob /\ path' = path /\ next' = next
      BY <1>1 DEF Act, Move
    <2>2. PICK inputs \in Seq(Input) : inputs = Head(script)
      BY <1>0, <2>1
    <2>3. Sent = Len(inputs)
      BY <2>1, <2>2 DEF Sent
    <2>4. HeroGoes
      BY <1>0, <2>1, <2>2, <2>3, HeroSteps DEF HeroGoes
    <2>5. Tail(script) \in Seq(Seq(Input))
      BY <1>0, <2>1
    <2> QED
      BY <1>0, <2>1, <2>4, <2>5, MobStays, TickFacts DEF Kept
  <1>2. CASE Wait
    <2>1. /\ hero' = IF hero.grounded THEN hero ELSE SimulateStep(hero, Idle)
          /\ script' = IF script = <<>> THEN script ELSE Tail(script)
          /\ Tick /\ open' = open /\ mob' = mob /\ path' = path /\ next' = next
      BY <1>2 DEF Wait, Move
    <2>2. HeroGoes
      <3>1. CASE hero.grounded
        BY <2>1, <3>1, HeroStays
      <3>2. CASE ~ hero.grounded
        <4>1. hero' \in Standing /\ hero'.x = hero.x /\ hero'.y = hero.y
          BY <1>0, <2>1, <3>2, IdleStays
        <4>2. Distance2DSq(hero, hero') = Distance2DSq(hero, hero)
          BY <4>1 DEF Distance2DSq
        <4>3. hero.x \in Int /\ hero.y \in Int
          BY <1>0 DEF Standing, MoveState
        <4>4. Distance2DSq(hero, hero') = 0
          BY <4>2, <4>3 DEF Distance2DSq
        <4>5. PICK n \in Nat : n = Sent
          <5>1. script # <<>> => Head(script) \in Seq(Input)
            BY <1>0
          <5> QED
            BY <5>1 DEF Sent
        <4>6. (32 * n) * (32 * n) \in Nat
          OBVIOUS
        <4> QED
          BY <4>1, <4>4, <4>5, <4>6 DEF HeroGoes
      <3> QED
        BY <3>1, <3>2
    <2>3. script # <<>> => Tail(script) \in Seq(Seq(Input))
      BY <1>0
    <2> QED
      BY <1>0, <2>1, <2>2, <2>3, MobStays, TickFacts DEF Kept
  <1>3. ASSUME Update PROVE open' = open /\ script' = script /\ HeroGoes /\ due' \in 0 .. AI_TICK_INTERVAL
    BY <1>3, HeroStays, TickFacts DEF Update
  <1>4. ASSUME mob' = Stepped(Goal) PROVE MobGoes
    BY <1>4, GoalPosition, SteppedFacts DEF MobGoes
  <1>5. <<>> \in Seq(Position) /\ 1 \in Nat \ {0}
    OBVIOUS
  <1>6. CASE Approach
    <2>1. Update /\ path' = <<>> /\ next' = 1 /\ mob' = Stepped(Goal)
      BY <1>6 DEF Approach, Chasing
    <2> QED
      BY <1>0, <1>3, <1>4, <1>5, <2>1 DEF Kept
  <1>7. CASE Press
    <2>1. Update /\ path' = <<>> /\ next' = next /\ mob' = Stepped(Goal)
      BY <1>7 DEF Press, Search, Chasing
    <2> QED
      BY <1>0, <1>3, <1>4, <1>5, <2>1 DEF Kept
  <1>8. CASE Detour
    <2>1. Update /\ path' = FindPath(mob, Goal) /\ path' # <<>> /\ Along(path', 2)
      BY <1>8 DEF Detour, Search, Chasing
    <2>2. ToCell(mob) \in open
      BY DEF HuntInv, IsWalkable
    <2>3. PICK way : way = path'
      OBVIOUS
    <2>4. way \in Seq(Position) /\ Len(way) >= 2 /\ Along(way, 2)
      BY <1>0, <2>1, <2>2, <2>3, PathFacts
    <2>5. 2 \in 1 .. Len(way)
      BY <2>4
    <2>6. next' \in Nat \ {0} /\ MobGoes
      BY <2>4, <2>5, AlongFacts
    <2> QED
      BY <1>0, <1>3, <2>1, <2>3, <2>4, <2>6 DEF Kept
  <1>9. CASE Follow
    <2>1. Update /\ path' = path /\ ~ NeedsPath /\ Along(path, next)
      BY <1>9 DEF Follow, Chasing
    <2>2. next \in 1 .. Len(path)
      BY <1>0, <2>1 DEF NeedsPath
    <2>3. next' \in Nat \ {0} /\ MobGoes
      BY <1>0, <2>1, <2>2, AlongFacts
    <2> QED
      BY <1>0, <1>3, <2>1, <2>3 DEF Kept
  <1>10. CASE Engage
    <2>1. Update /\ path' = <<>> /\ next' = next /\ mob' = mob
      BY <1>10 DEF Engage
    <2> QED
      BY <1>0, <1>3, <1>5, <2>1, MobStays DEF Kept
  <1>11. CASE Attack
    <2>1. Update /\ path' = path /\ next' = next /\ mob' = mob
      BY <1>11 DEF Attack
    <2> QED
      BY <1>0, <1>3, <2>1, MobStays DEF Kept
  <1> QED
    BY <1>1, <1>2, <1>6, <1>7, <1>8, <1>9, <1>10, <1>11 DEF Next

LEMMA HuntNext ==
  ASSUME HuntInv, [Next]_vars
  PROVE  HuntInv'
  <1>1. CASE Next
    <2>1. /\ open' = open /\ script' \in Seq(Seq(Input))
          /\ MobGoes /\ HeroGoes /\ Kept
      BY <1>1, HuntSteps
    <2>2. Standing' = Standing
      BY <2>1 DEF Standing, IsWalkable
    <2>3. hero' \in Standing' /\ hero' \in MoveState
      BY <2>1, <2>2 DEF HeroGoes, Standing
    <2>4. mob' \in Position /\ IsWalkable(mob)'
      BY <2>1 DEF MobGoes, IsWalkable
    <2>5. open' \in OpenSets
      BY <2>1 DEF HuntInv, HuntType
    <2> QED
      BY <2>1, <2>3, <2>4, <2>5 DEF HuntInv, HuntType, Kept
  <1>2. CASE UNCHANGED vars
    <2>1. /\ open' = open /\ hero' = hero /\ mob' = mob /\ script' = script
          /\ path' = path /\ next' = next /\ due' = due
      BY <1>2 DEF vars
    <2>2. Standing' = Standing
      BY <2>1 DEF Standing, IsWalkable
    <2> QED
      BY <2>1, <2>2 DEF HuntInv, HuntType, IsWalkable
  <1> QED
    BY <1>1, <1>2

LEMMA HuntInvariant == Spec => []HuntInv
  BY HuntInit, HuntNext, PTL DEF Spec

(* A player and a monster in view of each other are found by a 3x3 query   *)
(* around either, in every hunt. (WorldGrid::QueryNear.)                   *)
THEOREM HuntQueried == Spec => []QueryCoversView
  <1>1. HuntInv => QueryCoversView
    <2> SUFFICES ASSUME HuntInv PROVE QueryCoversView
      OBVIOUS
    <2>1. Spot(hero) \in Position /\ mob \in Position
      BY GoalPosition DEF Goal, HuntInv, HuntType
    <2> QED
      BY <2>1, ViewCovered DEF QueryCoversView
  <1> QED
    BY <1>1, HuntInvariant, PTL

(* Who stands where one may is in an open cell.                            *)
LEMMA OpenCell ==
  ASSUME open \subseteq Cell, NEW p, p.x \in Int, p.y \in Int, IsWalkable(p)
  PROVE  InOpenCell(p)
  <1>1. PICK c \in open : c = ToCell(p)
    BY DEF IsWalkable
  <1>2. c[1] = Quot(p.x - WORLD_MIN_CM, NAV_CELL_SIZE) /\ c[2] = Quot(p.y - WORLD_MIN_CM, NAV_CELL_SIZE)
    BY <1>1 DEF ToCell
  <1>3. ASSUME NEW v \in Int, InWorld(v), NEW k \in Int, k = Quot(v - WORLD_MIN_CM, NAV_CELL_SIZE)
        PROVE  2 * (v - (WORLD_MIN_CM + k * NAV_CELL_SIZE + NAV_CELL_SIZE \div 2))
                 \in -NAV_CELL_SIZE .. NAV_CELL_SIZE - 1
    BY <1>3, SMTT(20) DEF Quot, InWorld, WORLD_MIN_CM, NAV_CELL_SIZE
  <1>4. c[1] \in Int /\ c[2] \in Int /\ InWorld(p.x) /\ InWorld(p.y)
    BY DEF Cell, IsWalkable
  <1>5. /\ 2 * (p.x - ToWorld(c).x) \in -NAV_CELL_SIZE .. NAV_CELL_SIZE - 1
        /\ 2 * (p.y - ToWorld(c).y) \in -NAV_CELL_SIZE .. NAV_CELL_SIZE - 1
    BY <1>2, <1>3, <1>4 DEF ToWorld
  <1> QED
    BY <1>5 DEF InOpenCell

(* What a step may never do, whatever the client sends and wherever the    *)
(* walls are: nobody enters a wall or leaves the world, sinks into the     *)
(* ground, or goes further than the inputs or the speed of the monster     *)
(* allow.  (SanitizeInput, SimulateStep, MoveToward, StepTowardGoal.)      *)
THEOREM HuntStepsLegal == Spec => StepIsLegal
  <1> DEFINE Legal ==
        /\ Distance2DSq(hero, hero') <= (MAX_STEP * Sent) * (MAX_STEP * Sent)
        /\ Distance2DSq(mob, mob') <= MobStep * MobStep
        /\ InOpenCell(hero)' /\ InOpenCell(mob)'
        /\ hero'.z >= SampleHeight(hero')
  <1>1. HuntInv /\ HuntInv' /\ [Next]_vars => [Legal]_vars
    <2> SUFFICES ASSUME HuntInv, HuntInv', Next PROVE Legal
      OBVIOUS
    <2>1. open' = open /\ MobGoes /\ HeroGoes
      BY HuntSteps
    <2>2. open \subseteq Cell
      BY OpenFacts DEF HuntInv, HuntType
    <2>3. /\ hero' \in Standing /\ hero'.x \in Int /\ hero'.y \in Int /\ IsWalkable(hero')
          /\ mob'.x \in Int /\ mob'.y \in Int /\ IsWalkable(mob')
      BY <2>1 DEF HeroGoes, MobGoes, Standing, MoveState, Position
    <2>4. InOpenCell(hero') /\ InOpenCell(mob')
      BY <2>2, <2>3, OpenCell
    <2>5. InOpenCell(hero)' /\ InOpenCell(mob)'
      BY <2>1, <2>4 DEF InOpenCell
    <2>6. Distance2DSq(hero, hero') <= (MAX_STEP * Sent) * (MAX_STEP * Sent)
      BY <2>1, MaxStepValue, Zenon DEF HeroGoes
    <2>7. hero'.z >= SampleHeight(hero')
      BY <2>3 DEF Standing
    <2> QED
      BY <2>1, <2>5, <2>6, <2>7 DEF MobGoes
  <1>2. [][Legal]_vars => StepIsLegal
    <2>1. [Legal]_vars => [/\ Distance2DSq(hero, hero') <= (HeroStep * Sent) * (HeroStep * Sent)
                           /\ Distance2DSq(mob, mob') <= MobStep * MobStep
                           /\ InOpenCell(hero)' /\ InOpenCell(mob)'
                           /\ hero'.z >= SampleHeight(hero')]_vars
      BY DEF HeroStep
    <2> QED
      BY <2>1, PTL DEF StepIsLegal
  <1> HIDE DEF Legal
  <1> QED
    BY <1>1, <1>2, HuntInvariant, PTL DEF Spec

IsRight(c, d, chain) ==
  LET g == Costs(c, d)
      exists == Fits(c, d) /\ d \in DOMAIN g
  IN /\ chain # <<>> =>
          /\ exists /\ chain[1] = c /\ chain[Len(chain)] = d
          /\ \A k \in 2 .. Len(chain) : chain[k] \in Neighbours(c, d, chain[k - 1])
          /\ Length(chain) = g[d]
     /\ chain = <<>> => ~exists \/ Crowded(c, d)

LEMMA SearchRight ==
  ASSUME open \in OpenSets, NEW c \in open, NEW d \in open
  PROVE  IsRight(c, d, AStar(c, d))
  <1>0. open \subseteq Cell /\ IsFiniteSet(open)
    BY OpenFacts
  <1>1. PICK chain : chain = AStar(c, d)
    OBVIOUS
  <1>2. PICK g : g = Costs(c, d)
    OBVIOUS
  <1>3. CASE chain # <<>>
    <2>1. /\ Fits(c, d) /\ d \in DOMAIN g
          /\ chain[1] = c /\ chain[Len(chain)] = d
          /\ \A k \in 2 .. Len(chain) : chain[k] \in Neighbours(c, d, chain[k - 1])
          /\ Length(chain) = g[d]
      BY <1>0, <1>1, <1>2, <1>3, FoundIsShortest
    <2> QED
      BY <1>1, <1>2, <1>3, <2>1 DEF IsRight
  <1>4. CASE chain = <<>>
    <2>1. PICK n : n = Cardinality({k \in open : InWindow(c, d, k)})
      OBVIOUS
    <2>2. n \in Nat
      BY <1>0, <2>1, FS_Subset, FS_CardinalityType
    <2>3. CASE n <= 1023
      <3>1. Cardinality({k \in open : InWindow(c, d, k)}) <= 1023
        BY <2>1, <2>3, Zenon
      <3>2. ~ (Fits(c, d) /\ d \in DOMAIN g)
        <4>1. Fits(c, d) /\ d \in DOMAIN Costs(c, d) => AStar(c, d) # <<>>
          BY <1>0, <3>1, WayIsFound
        <4> QED
          BY <1>1, <1>2, <1>4, <4>1
      <3> QED
        BY <1>1, <1>2, <1>4, <3>2 DEF IsRight
    <2>4. CASE n > 1023
      BY <1>1, <1>4, <2>1, <2>4 DEF IsRight, Crowded
    <2> QED
      BY <2>2, <2>3, <2>4
  <1> QED
    BY <1>3, <1>4

(* In every hunt, on every terrain, what a search finds is one of the      *)
(* shortest ways in its window, and where it finds none there is none, or  *)
(* the window is crowded.  (StepTowardGoal, FindPath.)                     *)
THEOREM HuntSearchesRight == Spec => []SearchIsRight
  <1>1. Init => SearchIsRight
    BY DEF Init, SearchIsRight
  <1>2. HuntInv /\ SearchIsRight /\ [Next]_vars => SearchIsRight'
    <2> SUFFICES ASSUME HuntInv, SearchIsRight, [Next]_vars PROVE SearchIsRight'
      OBVIOUS
    <2>1. open' = open
      <3>1. CASE Next
        BY <3>1, HuntSteps
      <3>2. CASE UNCHANGED vars
        BY <3>2 DEF vars
      <3> QED
        BY <3>1, <3>2
    <2>a. /\ \A c, d : Costs(c, d)' = Costs(c, d)
          /\ \A c, d, k : Neighbours(c, d, k)' = Neighbours(c, d, k)
      BY <2>1 DEF Costs, Lengthened, Ways, Neighbours
    <2>b. \A c, d : Crowded(c, d)' = Crowded(c, d)
      BY <2>1 DEF Crowded
    <2>2. CASE search' = search
      BY <2>a, <2>b, <2>2 DEF SearchIsRight
    <2>3. CASE search' = NoSearch
      BY <2>3 DEF SearchIsRight
    <2>4. CASE Search
      <3>1. PICK c, d : c = ToCell(mob) /\ d = ToCell(hero)
        OBVIOUS
      <3>2. c \in open /\ d \in open /\ open \in OpenSets
        BY <3>1 DEF HuntInv, HuntType, Standing, IsWalkable
      <3>3. PICK chain : chain = AStar(c, d)
        OBVIOUS
      <3>4. search' = [from |-> c, to |-> d, chain |-> chain]
        BY <2>4, <3>1, <3>3 DEF Search
      <3>5. search'.from = c /\ search'.to = d /\ search'.chain = chain
        BY <3>4
      <3>6. IsRight(c, d, chain)
        BY <3>2, <3>3, SearchRight
      <3> QED
        BY <2>a, <2>b, <3>5, <3>6 DEF SearchIsRight, IsRight
    <2>5. search' = search \/ search' = NoSearch \/ Search
      BY DEF Next, vars, Act, Wait, Move, Approach, Press, Detour, Follow, Engage, Attack
    <2> QED
      BY <2>2, <2>3, <2>4, <2>5
  <1> QED
    BY <1>1, <1>2, HuntInvariant, PTL DEF Spec

-----------------------------------------------------------------------------
(* The fireball.                                                           *)

(* The combat phase moves neither player nor monster: a hunt with a        *)
(* fireball is a hunt, and what is proved of every hunt holds of it.       *)
(* (CombatTick.)                                                           *)
THEOREM DuelIsHunt == DuelSpec => Spec
  <1>1. DuelInit => Init
    BY DEF DuelInit
  <1>2. [DuelNext]_allVars => [Next]_vars
    BY DEF DuelNext, allVars, World, Combat, Calm, Expire, HitWall, HitTarget, Fly, EndTick
  <1> QED
    BY <1>1, <1>2, PTL DEF DuelSpec, Spec

(* How far a bolt flies in a tick: somewhere, and so little that the legs  *)
(* of the triangle, half of it and Core, have no hypotenuse longer than    *)
(* ACTOR_RADIUS.                                                           *)
Squares(u, v) == u * u + v * v

FlightOf(v) == <<Quot(v[1] * TICK_MS, 1000), Quot(v[2] * TICK_MS, 1000)>>

Hop == 1 .. 3744

Slow(v) == Squares(FlightOf(v)[1], FlightOf(v)[2]) \in Hop

(* What the numbers of the tables must be for it: the bolts slow, whatever *)
(* the yaw of the cast, and a monster that cannot leave the 3x3 block      *)
(* where the grid has it while it is within the radius.                    *)
BoltsMeet ==
  /\ MobStep \in 0 .. SECTOR_SIZE - ACTOR_RADIUS
  /\ \A cells \in OpenSets, inputs \in Scripts : \A cast \in Casts(cells, inputs) :
       cast = None \/ Slow(Velocity(cast.aim))

(* The geometry.                                                           *)
Dot(u, v, s, t)   == u * s + v * t
Cross(u, v, s, t) == u * t - v * s

LEMMA Lagrange ==
  ASSUME NEW u \in Int, NEW v \in Int, NEW s \in Int, NEW t \in Int
  PROVE  Squares(Dot(u, v, s, t), Cross(u, v, s, t)) = Squares(u, v) * Squares(s, t)
  <1>1. (u * s + v * t) * (u * s + v * t) + (u * t - v * s) * (u * t - v * s)
          = (u * u + v * v) * (s * s + t * t)
    OBVIOUS
  <1> QED
    BY <1>1, Zenon DEF Squares, Dot, Cross

LEMMA SquaresNat ==
  ASSUME NEW u \in Int, NEW v \in Int
  PROVE  Squares(u, v) \in Nat
  <1>1. u * u \in Nat /\ v * v \in Nat
    BY AbsSquare
  <1> QED
    BY <1>1 DEF Squares

(* L is the square length of a step, M the square distance from one of its *)
(* ends to the centre, a and c are the parts of that along and across, in  *)
(* lengths of the step; it is the nearer end.                              *)
NearerEnd(L, M, a, c) ==
  /\ L \in 1 .. 3744 /\ M \in Nat /\ M >= 2026 /\ a \in Int /\ c \in Int
  /\ Squares(a, c) = M * L
  /\ -L <= 2 * a /\ 2 * a <= L

LEMMA PassedOutside ==
  ASSUME NEW L, NEW M, NEW a, NEW c, NearerEnd(L, M, a, c)
  PROVE  c * c > 1089 * L
  <1>1. L \in Nat /\ L >= 1 /\ L <= 3744 /\ M \in Nat /\ M >= 2026 /\ a \in Int /\ c \in Int
    BY DEF NearerEnd
  <1>2. PICK w \in Int : w = 2 * a
    BY <1>1
  <1>3. PICK b \in Nat : b = Abs(w)
    BY AbsSquare
  <1>4. b * b = w * w
    BY <1>3, AbsSquare
  <1>5. b <= L
    BY <1>1, <1>2, <1>3 DEF NearerEnd, Abs
  <1>6. b * b <= L * L
    BY <1>1, <1>5, SquareUp
  <1>7. w * w = 4 * (a * a)
    BY <1>1, <1>2
  <1>8. L * L <= 3744 * L
    BY <1>1, ProductUp
  <1>9. 2026 * L <= M * L
    BY <1>1, ProductUp
  <1>10. PICK A \in Int, C \in Int, N \in Int : A = a * a /\ C = c * c /\ N = M * L
    BY <1>1
  <1>11. A + C = N
    BY <1>10 DEF NearerEnd, Squares
  <1>12. 4 * A <= 3744 * L
    BY <1>1, <1>4, <1>6, <1>7, <1>8, <1>10
  <1>13. C > 1089 * L
    BY <1>1, <1>9, <1>10, <1>11, <1>12
  <1> QED
    BY <1>10, <1>13

(* A step whose two ends are further than the radius from the centre       *)
(* passes it further off than Core.                                        *)
Passes(d, e, s, t) ==
  /\ Squares(s, t) \in Hop
  /\ Squares(d, e) > 2025 /\ Squares(d - s, e - t) > 2025
  /\ 0 <= Dot(d, e, s, t) /\ Dot(d, e, s, t) <= Squares(s, t)

LEMMA NearMiss ==
  ASSUME NEW s \in Int, NEW t \in Int, NEW d \in Int, NEW e \in Int, Passes(d, e, s, t)
  PROVE  Cross(d, e, s, t) * Cross(d, e, s, t) > 1089 * Squares(s, t)
  <1>0. /\ Squares(s, t) \in 1 .. 3744
        /\ Squares(d, e) > 2025 /\ Squares(d - s, e - t) > 2025
        /\ 0 <= Dot(d, e, s, t) /\ Dot(d, e, s, t) <= Squares(s, t)
    BY DEF Passes, Hop
  <1>1. PICK L \in 1 .. 3744 : L = Squares(s, t)
    BY <1>0
  <1>2. PICK a \in Int : a = Dot(d, e, s, t) /\ 0 <= a /\ a <= L
    BY <1>0, <1>1 DEF Dot
  <1>3. PICK c \in Int : c = Cross(d, e, s, t)
    BY DEF Cross
  <1>4. CASE 2 * a <= L
    <2>1. PICK M \in Nat : M = Squares(d, e) /\ M >= 2026
      BY <1>0, SquaresNat
    <2>2. Squares(a, c) = M * L
      BY <1>1, <1>2, <1>3, <2>1, Lagrange
    <2>3. NearerEnd(L, M, a, c)
      BY <1>2, <1>4, <2>1, <2>2 DEF NearerEnd
    <2> QED
      BY <1>1, <1>3, <2>3, PassedOutside
  <1>5. CASE 2 * a > L
    <2>1. PICK u \in Int, v \in Int : u = d - s /\ v = e - t
      OBVIOUS
    <2>2. PICK M \in Nat : M = Squares(u, v) /\ M >= 2026
      BY <1>0, <2>1, SquaresNat
    <2>3. PICK b \in Int : b = Dot(u, v, s, t)
      BY DEF Dot
    <2>4. b = a - L
      BY <1>1, <1>2, <2>1, <2>3 DEF Dot, Squares
    <2>5. c = Cross(u, v, s, t)
      BY <1>3, <2>1 DEF Cross
    <2>6. Squares(b, c) = M * L
      BY <1>1, <2>2, <2>3, <2>5, Lagrange
    <2>7. NearerEnd(L, M, b, c)
      BY <1>2, <1>5, <2>2, <2>4, <2>6 DEF NearerEnd
    <2> QED
      BY <1>1, <1>3, <2>7, PassedOutside
  <1> QED
    BY <1>2, <1>4, <1>5

Bolt == [x : Int, y : Int, v : Int \X Int, left : Int]

Cast == [aim : Int \X Int, delay : Int]

(* Everything is what it is said to be; the grid has the monster where it  *)
(* was at the end of the last tick, at most a step of the AI from where it *)
(* is now, and there is one cast, or one bolt of it that did not touch the *)
(* monster then.                                                           *)
DuelType ==
  /\ pending = None \/ pending \in Cast
  /\ bolts \in SUBSET Bolt
  /\ stood \in Position /\ listed = ToSector(stood)

Nearly ==
  /\ turn \in {"world", "combat"} /\ (turn = "world" => mob = stood)
  /\ Distance2DSq(mob, stood) <= MobStep * MobStep

Beyond(p, q) == Distance2DSq(p, q) > 2025

Clear(b) == Slow(b.v) /\ Beyond(b, stood)

OneBolt ==
  /\ pending = None \/ Slow(Velocity(pending.aim))
  /\ bolts # {} => pending = None
  /\ \A b, c \in bolts : b = c
  /\ \A b \in bolts : Clear(b)

DuelInv == HuntInv /\ DuelType /\ Nearly /\ OneBolt

LEMMA DistanceTurned ==
  ASSUME NEW p, p.x \in Int, p.y \in Int, NEW q, q.x \in Int, q.y \in Int
  PROVE  Distance2DSq(p, q) \in Nat /\ Distance2DSq(p, q) = Distance2DSq(q, p)
  <1>1. PICK u \in Int, v \in Int : u = p.x - q.x /\ v = p.y - q.y
    OBVIOUS
  <1>2. u * u \in Nat /\ v * v \in Nat
    BY AbsSquare
  <1>3. Distance2DSq(p, q) = u * u + v * v
    BY <1>1 DEF Distance2DSq
  <1>4. q.x - p.x = -u /\ q.y - p.y = -v
    BY <1>1
  <1>5. (-u) * (-u) = u * u /\ (-v) * (-v) = v * v
    OBVIOUS
  <1>6. Distance2DSq(q, p) = u * u + v * v
    BY <1>4, <1>5 DEF Distance2DSq
  <1> QED
    BY <1>2, <1>3, <1>6

LEMMA DuelStart == BoltsMeet /\ DuelInit => DuelInv
  <1> SUFFICES ASSUME BoltsMeet, DuelInit PROVE DuelInv
    OBVIOUS
  <1>1. Init /\ HuntInv
    BY HuntInit DEF DuelInit
  <1>2. open \in OpenSets /\ script \in Scripts /\ pending \in Casts(open, script)
    BY DEF DuelInit, Init
  <1>3. pending = None \/ pending \in Cast
    BY <1>2, DuelAssumption DEF Cast
  <1>4. pending = None \/ Slow(Velocity(pending.aim))
    BY <1>2 DEF BoltsMeet
  <1>5. mob \in Position
    BY <1>1 DEF HuntInv, HuntType
  <1>6. bolts = {} /\ listed = ToSector(mob) /\ turn = "world" /\ stood = mob
    BY DEF DuelInit
  <1>7. Distance2DSq(mob, mob) <= MobStep * MobStep
    <2>1. mob.x \in Int /\ mob.y \in Int
      BY <1>5 DEF Position
    <2>2. Distance2DSq(mob, mob) = 0
      BY <2>1 DEF Distance2DSq
    <2>3. PICK m \in Nat : m = MobStep
      BY DEF BoltsMeet, SECTOR_SIZE, ACTOR_RADIUS
    <2>4. m * m \in Nat
      OBVIOUS
    <2> QED
      BY <2>2, <2>3, <2>4
  <1> QED
    BY <1>1, <1>3, <1>4, <1>5, <1>6, <1>7 DEF DuelInv, DuelType, Nearly, OneBolt

(* What is not struck is further than the radius from where the monster    *)
(* is, though the grid has it where it was.                                *)
LEMMA StruckIfNear ==
  ASSUME BoltsMeet, HuntInv, DuelType, Nearly, NEW b, b.x \in Int, b.y \in Int, ~ Touches(b)
  PROVE  Beyond(b, mob)
  <1> SUFFICES ASSUME ~ Beyond(b, mob) PROVE FALSE
    OBVIOUS
  <1>1. /\ mob.x \in Int /\ mob.y \in Int /\ stood.x \in Int /\ stood.y \in Int
        /\ listed = ToSector(stood)
    BY DEF HuntInv, HuntType, DuelType, Position
  <1>2. PICK m \in Nat : m = MobStep /\ 45 + m <= SECTOR_SIZE
    BY DEF BoltsMeet, SECTOR_SIZE, ACTOR_RADIUS
  <1>3. Distance2DSq(b, mob) <= 45 * 45
    <2>1. Distance2DSq(b, mob) \in Nat
      BY <1>1, DistanceTurned
    <2> QED
      BY <2>1 DEF Beyond
  <1>4. Distance2DSq(mob, stood) <= m * m
    BY <1>2 DEF Nearly
  <1>5. Distance2DSq(b, stood) <= (45 + m) * (45 + m)
    BY <1>1, <1>2, <1>3, <1>4, WaysAdd
  <1>6. Nearby(b)
    <2>1. 45 + m \in Nat
      OBVIOUS
    <2>2. Visits(ToSector(b), ToSector(stood))
      BY <1>1, <1>2, <1>5, <2>1, CloseVisits
    <2> QED
      BY <1>1, <2>2 DEF Nearby
  <1>7. IsInViewRange(b, mob)
    <2>1. PICK p \in Position : p = [x |-> b.x, y |-> b.y]
      BY DEF Position
    <2>2. mob \in Position
      BY DEF HuntInv, HuntType
    <2>3. Distance2DSq(p, mob) = Distance2DSq(b, mob)
      BY <2>1 DEF Distance2DSq
    <2>4. Distance2DSq(p, mob) <= VIEW_RANGE * VIEW_RANGE
      <3>1. PICK k \in Int : k = Distance2DSq(b, mob)
        BY <1>1 DEF Distance2DSq
      <3> QED
        BY <1>3, <2>3, <3>1 DEF VIEW_RANGE
    <2>5. IsInViewRange(p, mob)
      BY <2>2, <2>4, ViewRangeIsEuclidean
    <2> QED
      BY <2>1, <2>5 DEF IsInViewRange, Distance2DSq
  <1> QED
    BY <1>3, <1>6, <1>7 DEF Touches, ACTOR_RADIUS

LEMMA BoltTurned ==
  ASSUME NEW V, NEW b \in [x : Int, y : Int, v : V, left : Int],
         NEW e \in Int, NEW f \in Int, NEW g \in Int,
         NEW m, m = [b EXCEPT !.x = e, !.y = f, !.left = g]
  PROVE  m \in [x : Int, y : Int, v : V, left : Int] /\ m.x = e /\ m.y = f /\ m.v = b.v
  OBVIOUS

LEMMA MovedFacts ==
  ASSUME NEW b \in Bolt
  PROVE  /\ Moved(b) \in Bolt /\ Moved(b).v = b.v
         /\ Moved(b).x = b.x + FlightOf(b.v)[1] /\ Moved(b).y = b.y + FlightOf(b.v)[2]
         /\ FlightOf(b.v)[1] \in Int /\ FlightOf(b.v)[2] \in Int
  <1>1. b.v[1] * TICK_MS \in Int /\ b.v[2] * TICK_MS \in Int
    BY DEF Bolt, TICK_MS
  <1>2. PICK s \in Int, t \in Int : /\ s = Quot(b.v[1] * TICK_MS, 1000)
                                    /\ t = Quot(b.v[2] * TICK_MS, 1000)
    <2>1. \A n \in Int : Quot(n, 1000) \in Int
      BY QuotBounds
    <2> QED
      BY <1>1, <2>1
  <1>3. FlightOf(b.v)[1] = s /\ FlightOf(b.v)[2] = t
    BY <1>2 DEF FlightOf
  <1>4. PICK e \in Int, f \in Int, g \in Int : e = b.x + s /\ f = b.y + t /\ g = b.left - 1
    BY DEF Bolt
  <1>5. Moved(b) = [b EXCEPT !.x = e, !.y = f, !.left = g]
    <2> DEFINE u == Quot(b.v[1] * TICK_MS, 1000)
               w == Quot(b.v[2] * TICK_MS, 1000)
    <2>1. Moved(b) = [b EXCEPT !.x = @ + u, !.y = @ + w, !.left = @ - 1]
      BY DEF Moved
    <2>2. u = s /\ w = t
      BY <1>2
    <2> HIDE DEF u, w
    <2>3. Moved(b) = [b EXCEPT !.x = @ + s, !.y = @ + t, !.left = @ - 1]
      BY <2>1, <2>2, Zenon
    <2> QED
      BY <1>4, <2>3, Zenon
  <1> QED
    BY <1>3, <1>4, <1>5, BoltTurned DEF Bolt

LEMMA SpawnFacts ==
  ASSUME HuntInv, DuelType, OneBolt, Due
  PROVE  Spawn \in Bolt /\ Slow(Spawn.v)
  <1>1. hero.x \in Int /\ hero.y \in Int
    BY DEF HuntInv, HuntType, MoveState
  <1>2. pending # None /\ pending \in Cast /\ Slow(Velocity(pending.aim))
    BY DEF Due, DuelType, OneBolt
  <1>3. pending.aim[1] \in Int /\ pending.aim[2] \in Int /\ ProjSpeed \in Int /\ ProjLife \in Int
    BY <1>2, DuelAssumption DEF Cast
  <1>4. \A n \in Int : Quot(n, 10000) \in Int
    BY QuotBounds
  <1>5. Velocity(pending.aim) \in Int \X Int
    <2>1. pending.aim[1] * ProjSpeed \in Int /\ pending.aim[2] * ProjSpeed \in Int
      BY <1>3
    <2> QED
      BY <1>4, <2>1 DEF Velocity
  <1>6. Spawn.v = Velocity(pending.aim)
    BY DEF Spawn
  <1>7. Spawn \in Bolt
    BY <1>1, <1>3, <1>5 DEF Spawn, Bolt
  <1> QED
    BY <1>2, <1>6, <1>7

(* The simulation and the AI.                                              *)
LEMMA WorldKeeps ==
  ASSUME BoltsMeet, DuelInv, World
  PROVE  DuelInv'
  <1>1. /\ turn = "world" /\ Next /\ mob = stood
        /\ turn' = (IF due' = 0 THEN "world" ELSE "combat")
        /\ pending' = pending /\ bolts' = bolts /\ listed' = listed /\ stood' = stood
    BY DEF World, DuelInv, Nearly
  <1>2. HuntInv'
    BY <1>1, HuntNext DEF DuelInv
  <1>3. DuelType'
    BY <1>1 DEF DuelInv, DuelType
  <1>4. OneBolt'
    BY <1>1 DEF DuelInv, OneBolt, Clear, Beyond
  <1>5. Nearly'
    <2>1. MobGoes
      BY <1>1, HuntSteps DEF DuelInv
    <2>2. mob \in Position /\ mob' \in Position
      BY <1>2, <2>1 DEF DuelInv, HuntInv, HuntType, MobGoes
    <2>3. Distance2DSq(mob, mob') <= MobStep * MobStep
      BY <2>1 DEF MobGoes
    <2>4. Distance2DSq(mob', stood) <= MobStep * MobStep
      <3>1. PICK p \in Position : p = mob'
        BY <2>2
      <3>2. Distance2DSq(p, mob) = Distance2DSq(mob, p)
        BY <2>2, DistanceTurned DEF Position
      <3> QED
        BY <1>1, <2>3, <3>1, <3>2
    <2>5. Distance2DSq(mob', stood') <= MobStep * MobStep
      BY <1>1, <2>4
    <2>6. turn' \in {"world", "combat"}
      BY <1>1
    <2>7. ASSUME turn' = "world" PROVE mob' = stood'
      <3>1. due' = 0
        BY <1>1, <2>7
      <3>2. due > 0
        BY <3>1, <1>1 DEF Next, Act, Wait, Approach, Press, Detour, Follow, Engage, Attack,
                          Move, Chasing, Search, Update, Tick, AI_TICK_INTERVAL
      <3>3. mob' = mob
        BY <1>1, <3>2 DEF Next, Act, Wait, Approach, Press, Detour, Follow, Engage, Attack,
                          Move, Chasing, Search, Update
      <3> QED
        BY <1>1, <3>3
    <2> QED
      BY <2>5, <2>6, <2>7 DEF Nearly
  <1> QED
    BY <1>2, <1>3, <1>4, <1>5 DEF DuelInv

(* The end of the combat phase, but for the bolts.                         *)
LEMMA EndKeeps ==
  ASSUME BoltsMeet, DuelInv, EndTick
  PROVE  /\ HuntInv' /\ Nearly' /\ stood' \in Position /\ listed' = ToSector(stood')
         /\ pending' = None \/ (pending' \in Cast /\ Slow(Velocity(pending'.aim)))
         /\ (pending = None \/ Due) => pending' = None
  <1>1. /\ UNCHANGED vars /\ mob' = mob
        /\ listed' = ToSector(mob) /\ stood' = mob /\ turn' = "world"
        /\ pending' = IF pending = None \/ Due THEN None ELSE [pending EXCEPT !.delay = @ - 1]
    BY DEF EndTick, vars
  <1>2. HuntInv'
    BY <1>1, HuntNext DEF DuelInv
  <1>3. mob \in Position
    BY DEF DuelInv, HuntInv, HuntType
  <1>4. stood' \in Position /\ listed' = ToSector(stood')
    BY <1>1, <1>3
  <1>5. Nearly'
    <2>1. mob.x \in Int /\ mob.y \in Int
      BY <1>3 DEF Position
    <2>2. Distance2DSq(mob, mob) = 0
      BY <2>1 DEF Distance2DSq
    <2>3. PICK m \in Nat : m = MobStep
      BY DEF BoltsMeet, SECTOR_SIZE, ACTOR_RADIUS
    <2>4. m * m \in Nat
      OBVIOUS
    <2>5. Distance2DSq(mob, mob) <= MobStep * MobStep
      BY <2>2, <2>3, <2>4
    <2> QED
      BY <1>1, <2>5 DEF Nearly
  <1>6. pending' = None \/ (pending' \in Cast /\ Slow(Velocity(pending'.aim)))
    <2>1. CASE pending = None \/ Due
      BY <1>1, <2>1
    <2>2. CASE ~ (pending = None \/ Due)
      <3>1. pending \in Cast /\ Slow(Velocity(pending.aim))
        BY <2>2 DEF DuelInv, DuelType, OneBolt
      <3>2. pending' = [pending EXCEPT !.delay = pending.delay - 1]
        BY <1>1, <2>2
      <3>3. pending' \in Cast /\ pending'.aim = pending.aim
        BY <3>1, <3>2 DEF Cast
      <3> QED
        BY <3>1, <3>3
    <2> QED
      BY <2>1, <2>2
  <1> QED
    BY <1>1, <1>2, <1>4, <1>5, <1>6

LEMMA FlyingFacts ==
  ASSUME DuelInv, NEW b \in Flying
  PROVE  b \in Bolt /\ Slow(b.v) /\ (pending = None \/ Due)
  <1>1. CASE b \in bolts
    BY <1>1 DEF DuelInv, DuelType, OneBolt, Clear
  <1>2. CASE b \notin bolts
    <2>1. Due /\ b = Spawn
      BY <1>2 DEF Flying
    <2> QED
      BY <2>1, SpawnFacts DEF DuelInv
  <1> QED
    BY <1>1, <1>2

LEMMA CombatKeeps ==
  ASSUME BoltsMeet, DuelInv, Combat
  PROVE  DuelInv'
  <1>1. EndTick
    BY DEF Combat, Calm, Expire, HitWall, HitTarget, Fly
  <1>2. /\ HuntInv' /\ Nearly' /\ stood' \in Position /\ listed' = ToSector(stood')
        /\ pending' = None \/ (pending' \in Cast /\ Slow(Velocity(pending'.aim)))
        /\ (pending = None \/ Due) => pending' = None
    BY <1>1, EndKeeps
  <1>3. stood' = mob
    BY <1>1 DEF EndTick
  <1>4. CASE bolts' = {}
    BY <1>2, <1>4 DEF DuelInv, DuelType, OneBolt
  <1>5. CASE Fly
    <2>1. PICK b \in Flying : ~ Strikes(b) /\ bolts' = {Moved(b)}
      BY <1>5 DEF Fly
    <2>2. b \in Bolt /\ Slow(b.v) /\ pending' = None
      BY <1>2, FlyingFacts
    <2>3. PICK m : m = Moved(b)
      OBVIOUS
    <2>4. m \in Bolt /\ m.v = b.v
      BY <2>2, <2>3, MovedFacts
    <2>5. m.x \in Int /\ m.y \in Int
      BY <2>4 DEF Bolt
    <2>6. ~ Touches(m)
      BY <2>1, <2>3 DEF Strikes
    <2>7. Beyond(m, mob)
      BY <2>5, <2>6, StruckIfNear DEF DuelInv
    <2>8. Clear(m)'
      BY <1>3, <2>2, <2>4, <2>7 DEF Clear, Beyond
    <2>9. bolts' = {m}
      BY <2>1, <2>3
    <2> QED
      BY <1>2, <2>2, <2>4, <2>8, <2>9 DEF DuelInv, DuelType, OneBolt
  <1> QED
    BY <1>4, <1>5 DEF Combat, Calm, Expire, HitWall, HitTarget

LEMMA DuelKeeps == BoltsMeet /\ DuelInv /\ [DuelNext]_allVars => DuelInv'
  <1>1. CASE DuelNext
    BY <1>1, WorldKeeps, CombatKeeps DEF DuelNext
  <1>2. ASSUME DuelInv, UNCHANGED allVars
        PROVE  DuelInv'
    <2>1. UNCHANGED vars /\ UNCHANGED duelVars
      BY <1>2 DEF allVars
    <2>2. HuntInv'
      BY <1>2, <2>1, HuntNext DEF DuelInv
    <2>3. mob' = mob
      BY <2>1 DEF vars
    <2> QED
      BY <1>2, <2>1, <2>2, <2>3
      DEF DuelInv, DuelType, Nearly, OneBolt, Clear, Beyond, duelVars
  <1> QED
    BY <1>1, <1>2

(* A fireball does not fly through a monster that stands, whatever ground, *)
(* input, casts and speeds, as long as a bolt flies less than 61 in a tick *)
(* and a monster less than a sector in a step.  (AdvanceProjectiles.)      *)
THEOREM NeverFlownThrough ==
  ASSUME BoltsMeet
  PROVE  DuelSpec => NoFlyThrough
  <1>1. ASSUME DuelInv, Combat, stood = mob, NEW p \in bolts, NEW q \in bolts',
               PassedWithin(p, q, mob, Core)
        PROVE  FALSE
    <2>1. pending = None /\ p \in Bolt /\ Clear(p) /\ \A c \in bolts : c = p
      BY <1>1 DEF DuelInv, DuelType, OneBolt
    <2>2. Flying = bolts
      BY <2>1 DEF Flying, Due
    <2>3. Fly
      BY <1>1 DEF Combat, Calm, Expire, HitWall, HitTarget
    <2>4. q = Moved(p) /\ ~ Touches(q)
      BY <1>1, <2>1, <2>2, <2>3 DEF Fly, Strikes
    <2>5. PICK s \in Int, t \in Int : /\ s = FlightOf(p.v)[1] /\ t = FlightOf(p.v)[2]
                                      /\ q.x = p.x + s /\ q.y = p.y + t
      BY <2>1, <2>4, MovedFacts
    <2>6. p.x \in Int /\ p.y \in Int /\ q.x \in Int /\ q.y \in Int
      BY <2>1, <2>5 DEF Bolt
    <2>7. mob.x \in Int /\ mob.y \in Int
      BY <1>1 DEF DuelInv, HuntInv, HuntType, Position
    <2>8. PICK d \in Int, e \in Int : d = mob.x - p.x /\ e = mob.y - p.y
      BY <2>6, <2>7
    <2>9. Squares(s, t) \in Hop
      <3>1. Slow(p.v)
        BY <2>1 DEF Clear
      <3>2. PICK v : v = p.v
        OBVIOUS
      <3>3. Squares(FlightOf(v)[1], FlightOf(v)[2]) \in Hop
        BY <3>1, <3>2, Zenon DEF Slow
      <3>4. s = FlightOf(v)[1] /\ t = FlightOf(v)[2]
        BY <2>5, <3>2, Zenon
      <3> QED
        BY <3>3, <3>4, Zenon
    <2>10. Squares(d, e) > 2025
      <3>1. Distance2DSq(mob, p) > 2025
        BY <1>1, <2>1, <2>6, <2>7, DistanceTurned DEF Clear, Beyond
      <3> QED
        BY <2>8, <3>1 DEF Distance2DSq, Squares
    <2>11. Squares(d - s, e - t) > 2025
      <3>1. Beyond(q, mob)
        BY <1>1, <2>4, <2>6, StruckIfNear DEF DuelInv
      <3>2. Distance2DSq(mob, q) > 2025
        BY <2>6, <2>7, <3>1, DistanceTurned DEF Beyond
      <3>3. mob.x - q.x = d - s /\ mob.y - q.y = e - t
        BY <2>5, <2>6, <2>7, <2>8
      <3> QED
        BY <3>2, <3>3 DEF Distance2DSq, Squares
    <2>12. s = q.x - p.x /\ t = q.y - p.y
      BY <2>5, <2>6
    <2>13. /\ 0 <= Dot(d, e, s, t) /\ Dot(d, e, s, t) <= Squares(s, t)
           /\ Cross(d, e, s, t) * Cross(d, e, s, t) <= 1089 * Squares(s, t)
      <3>1. /\ 0 <= d * s + e * t /\ d * s + e * t <= s * s + t * t
            /\ (d * t - e * s) * (d * t - e * s) <= (33 * 33) * (s * s + t * t)
        BY <1>1, <2>8, <2>12 DEF PassedWithin, Core
      <3>2. /\ Dot(d, e, s, t) = d * s + e * t /\ Squares(s, t) = s * s + t * t
            /\ Cross(d, e, s, t) = d * t - e * s
        BY Zenon DEF Dot, Cross, Squares
      <3>3. PICK a \in Int, c \in Int, L \in Int :
                   a = d * s + e * t /\ c = d * t - e * s /\ L = s * s + t * t
        OBVIOUS
      <3>4. 0 <= a /\ a <= L /\ c * c <= 1089 * L
        BY <3>1, <3>3
      <3>5. Dot(d, e, s, t) = a /\ Squares(s, t) = L /\ Cross(d, e, s, t) = c
        BY <3>2, <3>3, Zenon
      <3> QED
        BY <3>4, <3>5
    <2> QED
      <3>1. PICK c \in Int, L \in Int : c = Cross(d, e, s, t) /\ L = Squares(s, t)
        BY DEF Cross, Squares
      <3>2. c * c <= 1089 * L
        BY <2>13, <3>1
      <3>3. Cross(d, e, s, t) * Cross(d, e, s, t) > 1089 * Squares(s, t)
        <4>1. Passes(d, e, s, t)
          BY <2>9, <2>10, <2>11, <2>13 DEF Passes
        <4> QED
          BY <4>1, NearMiss
      <3>4. c * c > 1089 * L
        BY <3>1, <3>3
      <3>5. PICK n \in Int, k \in Int : n = c * c /\ k = 1089 * L
        OBVIOUS
      <3> QED
        BY <3>2, <3>4, <3>5
  <1>2. ASSUME DuelInv, [DuelNext]_allVars
        PROVE  [turn = "combat" /\ stood = mob =>
                  \A p \in bolts, q \in bolts' : ~PassedWithin(p, q, mob, Core)]_allVars
    BY <1>1, <1>2 DEF DuelNext, World
  <1>3. DuelSpec => []DuelInv
    BY DuelStart, DuelKeeps, PTL DEF DuelSpec
  <1> QED
    BY <1>2, <1>3, PTL DEF DuelSpec, NoFlyThrough

=============================================================================
