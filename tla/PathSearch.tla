----------------------------- MODULE PathSearch -----------------------------
(***************************************************************************)
(* Searches of FindPath (pathfinding.h) that run at the same time: the     *)
(* monsters of one wave are updated by several workers, and each search    *)
(* works in the one static AStarScratch.  The heap, the loop counters and  *)
(* the path are locals of the call.                                        *)
(*                                                                         *)
(* Cells are indices of the scratch buffer; what a search finds walkable   *)
(* at an index depends on the window it has laid, so the terrain is a      *)
(* parameter of the search.  PathFinding models a single search in full;   *)
(* here a step is one pass of an inner loop.  The code's steps are finer:  *)
(* every interleaving below is one of the program's, not every one of the  *)
(* program's is below.                                                     *)
(***************************************************************************)
EXTENDS Integers, Sequences, Bags

CONSTANTS
  Searcher,  \* the searches, each made once
  Cell,      \* indices into the scratch buffer
  Start,     \* Start[w]: index of the cell where w's monster stands
  Goal,      \* Goal[w]: index of the cell to be reached
  Around,    \* Around[w][i]: the steps <<cell, cost>> w may take from i, in order
  Estimate,  \* Estimate[w][i]: Heuristic from i to w's goal
  Limit      \* WINDOW_CELLS * 2

(* The parent of a start; no index is negative.                            *)
NoCell == -1

VARIABLES
  current,   \* AStarScratch: current_stamp,
  stamp,     \*   stamp[i],
  g,         \*   g_cost[i]
  parent,    \*   and parent[i]
  pc,        \* pc[w]: where search w is
  open,      \* open[w]: its heap, a bag of <<f, index>>
  guard,     \* guard[w]: passes of the main loop
  at,        \* at[w]: the cell w expands, or has come to in its backtracking
  base,      \* base[w]: base_cost
  rest       \* rest[w]: the steps of Around[w][at[w]] still to be relaxed

scratch == <<current, stamp, g, parent>>
locals  == <<open, guard, at, base, rest>>
vars    == <<scratch, pc, locals>>

Init ==
  /\ current = 0
  /\ stamp = [i \in Cell |-> 0] /\ g = [i \in Cell |-> 0] /\ parent = [i \in Cell |-> 0]
  /\ pc = [w \in Searcher |-> "begin"]
  /\ open = [w \in Searcher |-> EmptyBag]
  /\ guard = [w \in Searcher |-> 0]
  /\ at = [w \in Searcher |-> NoCell]
  /\ base = [w \in Searcher |-> 0]
  /\ rest = [w \in Searcher |-> <<>>]

Goto(w, l) == pc' = [pc EXCEPT ![w] = l]

Push(w, f, i) == open' = [open EXCEPT ![w] = @ (+) SetToBag({<<f, i>>})]

(* The entry a heap ordered by std::greater gives up first.                *)
Top(w) ==
  CHOOSE n \in BagToSet(open[w]) :
    \A m \in BagToSet(open[w]) : n[1] < m[1] \/ (n[1] = m[1] /\ n[2] <= m[2])

(* ++s.current_stamp, which makes all of the buffer unvisited.             *)
Begin(w) ==
  /\ pc[w] = "begin"
  /\ current' = current + 1
  /\ Goto(w, "place")
  /\ UNCHANGED <<stamp, g, parent, locals>>

Place(w) ==
  /\ pc[w] = "place"
  /\ stamp' = [stamp EXCEPT ![Start[w]] = current]
  /\ g' = [g EXCEPT ![Start[w]] = 0]
  /\ parent' = [parent EXCEPT ![Start[w]] = NoCell]
  /\ Push(w, Estimate[w][Start[w]], Start[w])
  /\ Goto(w, "pick")
  /\ UNCHANGED <<current, guard, at, base, rest>>

(* The loop ends without the goal: the heap is empty or the guard is up.   *)
GiveUp(w) ==
  /\ pc[w] = "pick"
  /\ open[w] = EmptyBag \/ guard[w] + 1 >= Limit
  /\ Goto(w, "done")
  /\ UNCHANGED <<scratch, locals>>

Pick(w) ==
  /\ pc[w] = "pick"
  /\ open[w] # EmptyBag /\ guard[w] + 1 < Limit
  /\ LET i == Top(w)[2] IN
     /\ at' = [at EXCEPT ![w] = i]
     /\ base' = [base EXCEPT ![w] = g[i]]
     /\ rest' = [rest EXCEPT ![w] = Around[w][i]]
     /\ Goto(w, IF i = Goal[w] THEN "trace" ELSE "relax")
  /\ open' = [open EXCEPT ![w] = @ (-) SetToBag({Top(w)})]
  /\ guard' = [guard EXCEPT ![w] = @ + 1]
  /\ UNCHANGED scratch

(* The cell carries the stamp that is now current and a cost as low.       *)
Settled(i, cost) == stamp[i] = current /\ g[i] <= cost

Relax(w) ==
  /\ pc[w] = "relax" /\ rest[w] # <<>>
  /\ LET i    == Head(rest[w])[1]
         cost == base[w] + Head(rest[w])[2] IN
     \/ /\ Settled(i, cost)
        /\ UNCHANGED <<stamp, g, parent, open>>
     \/ /\ ~Settled(i, cost)
        /\ stamp' = [stamp EXCEPT ![i] = current]
        /\ g' = [g EXCEPT ![i] = cost]
        /\ parent' = [parent EXCEPT ![i] = at[w]]
        /\ Push(w, cost + Estimate[w][i], i)
  /\ rest' = [rest EXCEPT ![w] = Tail(@)]
  /\ UNCHANGED <<current, pc, guard, at, base>>

Relaxed(w) ==
  /\ pc[w] = "relax" /\ rest[w] = <<>>
  /\ Goto(w, "pick")
  /\ UNCHANGED <<scratch, locals>>

(* Backtracking: from the goal along the parents, with no guard.           *)
Trace(w) ==
  /\ pc[w] = "trace"
  /\ \/ parent[at[w]] = NoCell /\ Goto(w, "done") /\ UNCHANGED at
     \/ /\ parent[at[w]] # NoCell
        /\ at' = [at EXCEPT ![w] = parent[@]]
        /\ UNCHANGED pc
  /\ UNCHANGED <<scratch, open, guard, base, rest>>

Search(w) ==
  Begin(w) \/ Place(w) \/ GiveUp(w) \/ Pick(w) \/ Relax(w) \/ Relaxed(w) \/ Trace(w)

Next == \E w \in Searcher : Search(w)

(* No worker of the pool is stopped for good.                              *)
FairSpec == Init /\ [][Next]_vars /\ \A w \in Searcher : WF_vars(Search(w))

(* pathfinding.h:86: the static buffer may be shared.  A search that ends  *)
(* when it is alone must end: the wave, and with it the tick, waits for    *)
(* the worker that makes it.                                               *)
SearchEnds == \A w \in Searcher : <>(pc[w] = "done")
=============================================================================
