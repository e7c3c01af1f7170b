--------------------------- MODULE TickWorkerPool ---------------------------
(***************************************************************************)
(* The pool that runs the phases of a tick: helper threads that live as    *)
(* long as the pool, a mutex, and one condition variable for each          *)
(* direction.  The tick thread is the caller; it executes partition 0.     *)
(*                                                                         *)
(* A critical section under m_mutex is one step.  A wait on a condition    *)
(* variable is two: the predicate is evaluated with the mutex held and     *)
(* either lets the thread pass or puts it to sleep; a notification, or a   *)
(* spurious wake-up, makes it evaluate the predicate again.                *)
(*                                                                         *)
(* A pool without helpers just calls the function (tick_worker_pool.h:65); *)
(* the server never makes one (server_main.cpp:703).                       *)
(***************************************************************************)
EXTENDS Integers, FiniteSets

CONSTANTS
  Helper,    \* the threads of the pool, named by their partitions
  Caller,    \* the tick thread, which is partition 0
  None,
  MaxRound   \* bound on the calls of RunParallel

ASSUME PoolAssumption ==
  /\ IsFiniteSet(Helper) /\ Helper # {} /\ MaxRound \in Nat
  /\ Caller \notin Helper /\ None \notin Nat

VARIABLES
  task,        \* m_task: the round whose function it points to
  generation,  \* m_generation
  pending,     \* m_pending
  shutdown,    \* m_shutdown
  caller,      \* where the tick thread is
  helper,      \* helper[h]: where helper h is
  last,        \* last[h]: its last_generation
  held,        \* held[h]: the task it has copied
  round,       \* history: calls of RunParallel so far
  done         \* history: done[p] counts the executions of partition p

shared  == <<task, generation, pending, shutdown>>
threads == <<caller, helper, last, held>>
vars    == <<shared, threads, round, done>>

Part == Helper \cup {Caller}

Init ==
  /\ task = None /\ generation = 0 /\ pending = 0 /\ shutdown = FALSE
  /\ caller = "idle"
  /\ helper = [h \in Helper |-> "check"]
  /\ last = [h \in Helper |-> 0]
  /\ held = [h \in Helper |-> None]
  /\ round = 0
  /\ done = [p \in Part |-> 0]

Wake(T) == [h \in Helper |-> IF h \in T /\ helper[h] = "asleep" THEN "check"
                                                                ELSE helper[h]]

-----------------------------------------------------------------------------
(* RunParallel: the task is published under the mutex.                     *)
Dispatch ==
  /\ caller = "idle" /\ round < MaxRound
  /\ round' = round + 1
  /\ task' = round + 1
  /\ pending' = Cardinality(Helper)
  /\ generation' = generation + 1
  /\ caller' = "notify"
  /\ UNCHANGED <<shutdown, helper, last, held, done>>

NotifyStart ==
  /\ caller = "notify"
  /\ helper' = Wake(Helper)
  /\ caller' = "own"
  /\ UNCHANGED <<shared, last, held, round, done>>

(* fn(0, m_partitions) has been executed.                                  *)
OwnShare ==
  /\ caller = "own"
  /\ done' = [done EXCEPT ![Caller] = @ + 1]
  /\ caller' = "wait"
  /\ UNCHANGED <<shared, helper, last, held, round>>

(* m_done_cv.wait evaluates m_pending == 0; then the call returns, and     *)
(* with it the function that m_task pointed to is gone.                    *)
CallerSleep ==
  /\ caller = "wait" /\ pending # 0
  /\ caller' = "asleep"
  /\ UNCHANGED <<shared, helper, last, held, round, done>>

(* (Mistake to test the properties: the wait has no predicate.)            *)
ReturnUnchecked ==
  /\ caller = "wait"
  /\ task' = None
  /\ caller' = "idle"
  /\ UNCHANGED <<generation, pending, shutdown, helper, last, held, round, done>>

Return ==
  /\ caller = "wait" /\ pending = 0
  /\ task' = None
  /\ caller' = "idle"
  /\ UNCHANGED <<generation, pending, shutdown, helper, last, held, round, done>>

CallerSpurious ==
  /\ caller = "asleep"
  /\ caller' = "wait"
  /\ UNCHANGED <<shared, helper, last, held, round, done>>

-----------------------------------------------------------------------------
(* WorkerLoop: m_start_cv.wait evaluates its predicate.                    *)
HelperSleep(h) ==
  /\ helper[h] = "check" /\ ~shutdown /\ generation = last[h]
  /\ helper' = [helper EXCEPT ![h] = "asleep"]
  /\ UNCHANGED <<shared, caller, last, held, round, done>>

HelperQuit(h) ==
  /\ helper[h] = "check" /\ shutdown
  /\ helper' = [helper EXCEPT ![h] = "gone"]
  /\ UNCHANGED <<shared, caller, last, held, round, done>>

(* (Mistake: the generation is not remembered.)                            *)
HelperTakeForgets(h) ==
  /\ helper[h] = "check" /\ ~shutdown /\ generation # last[h]
  /\ held' = [held EXCEPT ![h] = task]
  /\ helper' = [helper EXCEPT ![h] = "run"]
  /\ UNCHANGED <<shared, caller, last, round, done>>

HelperTake(h) ==
  /\ helper[h] = "check" /\ ~shutdown /\ generation # last[h]
  /\ last' = [last EXCEPT ![h] = generation]
  /\ held' = [held EXCEPT ![h] = task]
  /\ helper' = [helper EXCEPT ![h] = "run"]
  /\ UNCHANGED <<shared, caller, round, done>>

(* The task, if there is one, has been executed.                           *)
HelperRun(h) ==
  /\ helper[h] = "run"
  /\ done' = [done EXCEPT ![h] = IF held[h] = None THEN @ ELSE @ + 1]
  /\ helper' = [helper EXCEPT ![h] = "finish"]
  /\ UNCHANGED <<shared, caller, last, held, round>>

HelperFinish(h) ==
  /\ helper[h] = "finish"
  /\ pending' = pending - 1
  /\ helper' = [helper EXCEPT ![h] = "notify"]
  /\ UNCHANGED <<task, generation, shutdown, caller, last, held, round, done>>

(* (Mistake: nobody is notified.)                                          *)
HelperNotifyNobody(h) ==
  /\ helper[h] = "notify"
  /\ helper' = [helper EXCEPT ![h] = "check"]
  /\ UNCHANGED <<shared, caller, last, held, round, done>>

(* m_done_cv.notify_one, after the mutex was released.                     *)
HelperNotify(h) ==
  /\ helper[h] = "notify"
  /\ caller' = IF caller = "asleep" THEN "wait" ELSE caller
  /\ helper' = [helper EXCEPT ![h] = "check"]
  /\ UNCHANGED <<shared, last, held, round, done>>

HelperSpurious(h) ==
  /\ helper[h] = "asleep"
  /\ helper' = Wake({h})
  /\ UNCHANGED <<shared, caller, last, held, round, done>>

-----------------------------------------------------------------------------
(* ~TickWorkerPool: by the thread that calls RunParallel, or after it.     *)
Shutdown ==
  /\ caller = "idle"
  /\ shutdown' = TRUE
  /\ caller' = "notifyStop"
  /\ UNCHANGED <<task, generation, pending, helper, last, held, round, done>>

(* (Mistake: notify_one in the place of notify_all.)                       *)
NotifyStopOne ==
  /\ caller = "notifyStop"
  /\ \E h \in Helper : helper' = Wake({h})
  /\ caller' = "join"
  /\ UNCHANGED <<shared, last, held, round, done>>

NotifyStop ==
  /\ caller = "notifyStop"
  /\ helper' = Wake(Helper)
  /\ caller' = "join"
  /\ UNCHANGED <<shared, last, held, round, done>>

JoinAll ==
  /\ caller = "join" /\ \A h \in Helper : helper[h] = "gone"
  /\ caller' = "gone"
  /\ UNCHANGED <<shared, helper, last, held, round, done>>

-----------------------------------------------------------------------------
CallStep    == Dispatch \/ NotifyStart \/ OwnShare \/ CallerSleep \/ Return
DestroyStep == Shutdown \/ NotifyStop \/ JoinAll
CallerStep  == CallStep \/ DestroyStep

HelperStep(h) ==
  \/ HelperSleep(h) \/ HelperQuit(h) \/ HelperTake(h) \/ HelperRun(h)
  \/ HelperFinish(h) \/ HelperNotify(h)

Next ==
  \/ CallerStep \/ CallerSpurious
  \/ \E h \in Helper : HelperStep(h) \/ HelperSpurious(h)

Spec == Init /\ [][Next]_vars

-----------------------------------------------------------------------------
(* Every variable stays in its range: in particular m_pending never goes   *)
(* below zero and a helper never starts without a task.                    *)
TypeOK ==
  /\ task \in Nat \cup {None} /\ generation \in Nat /\ pending \in Nat
  /\ shutdown \in BOOLEAN
  /\ caller \in {"idle", "notify", "own", "wait", "asleep",
                 "notifyStop", "join", "gone"}
  /\ helper \in [Helper -> {"check", "asleep", "run", "finish", "notify", "gone"}]
  /\ last \in [Helper -> Nat]
  /\ held \in [Helper -> Nat \cup {None}]
  /\ round \in Nat
  /\ done \in [Part -> Nat]

(* RunParallel is a barrier: when it has returned, every partition has     *)
(* executed every task exactly once.                                       *)
Barrier == caller \in {"idle", "notifyStop", "join", "gone"} => \A p \in Part : done[p] = round

(* A helper that executes a task executes the function of the call that is *)
(* running: m_task points into the caller's frame.                         *)
TaskAlive == \A h \in Helper : helper[h] = "run" => held[h] = round /\ task = round

(* RunParallel implements the fork and join that the tick loop relies on.  *)
Call == INSTANCE ForkJoin WITH
          forked <- caller \in {"notify", "own", "wait", "asleep"}
CallSpec == Call!Spec

(* Every call returns: no notification is lost.                            *)
Returns == caller = "notify" ~> caller = "idle"
=============================================================================
