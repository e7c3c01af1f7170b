---------------------------- MODULE PathFinding ----------------------------
(***************************************************************************)
(* HasLineOfSight and FindPath (pathfinding.h): a local A* over the cells  *)
(* of a window around start and goal, then string pulling.                 *)
(*                                                                         *)
(* A search is a record of what the scratch buffer holds for it: the       *)
(* functions g (g_cost) and parent, whose common domain is the set of the  *)
(* cells that carry the current stamp, and the open heap, as a set.  A     *)
(* heap entry is <<f, y, x>>: the heap orders equal f by the index of the  *)
(* cell, which is by rows.                                                 *)
(***************************************************************************)
EXTENDS Movement, Sequences, FiniteSets

WINDOW == 64
MARGIN == 8

Size(v) == IF v < 0 THEN -v ELSE v
Least(u, v)    == IF u < v THEN u ELSE v
Greatest(u, v) == IF u < v THEN v ELSE u

(* HasLineOfSight: a walk over the cells, along one axis at a time, that   *)
(* meets open ones only.                                                   *)
HasLineOfSight(from, to) ==
  LET c  == ToCell(from)
      d  == ToCell(to)
      dx == Size(d[1] - c[1])
      dy == -Size(d[2] - c[2])
      sx == IF c[1] < d[1] THEN 1 ELSE -1
      sy == IF c[2] < d[2] THEN 1 ELSE -1
      clear[s \in (Int \X Int) \X Int] ==
        LET cell == s[1]
            err  == s[2]
        IN IF cell \notin open THEN FALSE
           ELSE IF cell = d THEN TRUE
           ELSE IF 2 * err >= dy THEN clear[<<<<cell[1] + sx, cell[2]>>, err + dy>>]
           ELSE clear[<<<<cell[1], cell[2] + sy>>, err + dx>>]
  IN clear[<<c, dx + dy>>]

(* The window of a search, if start and goal fit into one.                 *)
Fits(c, d) == \A i \in {1, 2} : Size(d[i] - c[i]) + 1 + 2 * MARGIN <= WINDOW

InWindow(c, d, cell) ==
  \A i \in {1, 2} : cell[i] - (Least(c[i], d[i]) - MARGIN) \in 0 .. WINDOW - 1

(* The octile distance.                                                    *)
Heuristic(c, d) ==
  LET dx == Size(d[1] - c[1])
      dy == Size(d[2] - c[2])
  IN 14 * Least(dx, dy) + 10 * (Greatest(dx, dy) - Least(dx, dy))

Directions == {dir \in (-1 .. 1) \X (-1 .. 1) : dir # <<0, 0>>}
COST(d) == IF d[1] # 0 /\ d[2] # 0 THEN 14 ELSE 10
Next8(c, d) == <<c[1] + d[1], c[2] + d[2]>>

(* (Mistake to test the properties: a diagonal may cut a corner.)          *)
PassableCut(c, d) == Next8(c, d) \in open

(* A step from c in direction d: into an open cell, and diagonally only    *)
(* between two open ones.                                                  *)
Passable(c, d) ==
  /\ Next8(c, d) \in open
  /\ <<c[1] + d[1], c[2]>> \in open \cup {c}
  /\ <<c[1], c[2] + d[2]>> \in open \cup {c}

Start(c, d) ==
  [g      |-> [k \in {c} |-> 0],
   parent |-> [k \in {c} |-> c],
   heap   |-> {<<Heuristic(c, d), c[2], c[1]>>}]

Top(heap) ==
  CHOOSE e \in heap : \A k \in heap : \/ e[1] < k[1]
                                      \/ e[1] = k[1] /\ e[2] < k[2]
                                      \/ e[1] = k[1] /\ e[2] = k[2] /\ e[3] <= k[3]

CellOf(e) == <<e[3], e[2]>>

(* The cost of the way to k that leads through cell, and the neighbours of *)
(* cell that are new, or reached at a higher cost so far.                  *)
Through(s, cell, k) == s.g[cell] + COST(<<k[1] - cell[1], k[2] - cell[2]>>)

Better(c, d, s, cell) ==
  {k \in {Next8(cell, dir) : dir \in {dir \in Directions : Passable(cell, dir)}} :
     /\ InWindow(c, d, k)
     /\ k \in DOMAIN s.g => s.g[k] > Through(s, cell, k)}

(* The turn of the loop that pops entry e.                                 *)
Expand(c, d, s, e) ==
  LET cell   == CellOf(e)
      better == Better(c, d, s, cell)
      cells  == better \cup DOMAIN s.g
  IN [g      |-> [k \in cells |-> IF k \in better THEN Through(s, cell, k) ELSE s.g[k]],
      parent |-> [k \in cells |-> IF k \in better THEN cell ELSE s.parent[k]],
      heap   |-> (s.heap \ {e}) \cup
                 {<<Through(s, cell, k) + Heuristic(k, d), k[2], k[1]>> : k \in better}]

Found(d, s) == s.heap # {} /\ CellOf(Top(s.heap)) = d

Turn(c, d, s) ==
  IF s.heap = {} \/ Found(d, s) THEN s ELSE Expand(c, d, s, Top(s.heap))

(* The loop, until the goal is on top of the heap or the heap is empty.    *)
(* The code looks at the top 2 * WINDOW * WINDOW - 1 times, so that one    *)
(* turn less is made; where few cells are open, fewer are enough (theorem  *)
(* WayIsFound of PursuitProofs).                                           *)
Turns == Least(2 * WINDOW * WINDOW - 2, 8 * Cardinality(open) + 1)

Searched(c, d) ==
  LET after[n \in Nat] == IF n = 0 THEN Start(c, d) ELSE Turn(c, d, after[n - 1])
  IN after[Turns]

(* The way back from d to c, by the parents; it is walked no further than  *)
(* there are cells.                                                        *)
Back(d, s) ==
  LET up[n \in Nat] == IF n = 0 THEN d ELSE s.parent[up[n - 1]] IN up

Steps(c, d, s) ==
  CHOOSE n \in 0 .. Cardinality(DOMAIN s.g) :
    Back(d, s)[n] = c /\ \A m \in 0 .. n - 1 : Back(d, s)[m] # c

Chain(c, d, s) ==
  LET n == Steps(c, d, s) IN [k \in 1 .. n + 1 |-> Back(d, s)[n + 1 - k]]

(* What A* finds: a chain of cells from c to d, or none.                   *)
AStar(c, d) ==
  IF ~Fits(c, d) \/ d \notin open THEN <<>>
  ELSE LET s == Searched(c, d) IN IF Found(d, s) THEN Chain(c, d, s) ELSE <<>>

(* (Mistake: a waypoint is left out if it is in sight itself.)             *)
SkipsSeen(chain, k, out) ==
  k < Len(chain) /\ HasLineOfSight(out[Len(out)], ToWorld(chain[k]))

(* String pulling: a waypoint is left out if the one after it is in sight  *)
(* of the last one kept.                                                   *)
Skips(chain, k, out) ==
  k < Len(chain) /\ HasLineOfSight(out[Len(out)], ToWorld(chain[k + 1]))

Pulled(chain) ==
  LET kept[k \in 1 .. Len(chain)] ==
        IF k = 1 THEN <<ToWorld(chain[1])>>
        ELSE IF Skips(chain, k, kept[k - 1]) THEN kept[k - 1]
        ELSE Append(kept[k - 1], ToWorld(chain[k]))
  IN kept[Len(chain)]

(* FindPath: the waypoints, the first of them in the cell of the searcher; *)
(* none when there is no path.                                             *)
FindPath(from, to) ==
  LET chain == AStar(ToCell(from), ToCell(to))
  IN IF Len(chain) < 2 THEN <<>> ELSE Pulled(chain)
=============================================================================
