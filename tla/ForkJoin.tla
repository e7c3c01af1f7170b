------------------------------ MODULE ForkJoin ------------------------------
(***************************************************************************)
(* What the tick loop relies on when it runs a phase in parallel: a call   *)
(* gives every partition the task once, and returns only when all of them  *)
(* have executed it.                                                       *)
(***************************************************************************)
EXTENDS Integers

CONSTANT Part   \* the partitions

VARIABLES
  round,   \* calls made so far
  forked,  \* a call is running
  done     \* done[p]: how often partition p has executed a task

call == <<round, forked, done>>

Init == round = 0 /\ forked = FALSE /\ done = [p \in Part |-> 0]

Fork ==
  /\ ~forked
  /\ forked' = TRUE /\ round' = round + 1
  /\ UNCHANGED done

Execute(p) ==
  /\ forked /\ done[p] = round - 1
  /\ done' = [done EXCEPT ![p] = round]
  /\ UNCHANGED <<round, forked>>

Join ==
  /\ forked /\ \A p \in Part : done[p] = round
  /\ forked' = FALSE
  /\ UNCHANGED <<round, done>>

Next == Fork \/ Join \/ \E p \in Part : Execute(p)

Spec == Init /\ [][Next]_call
=============================================================================
