------------------------ MODULE TickWorkerPoolProofs ------------------------
(***************************************************************************)
(* Proofs about TickWorkerPool and the server around it, for every number  *)
(* of helpers, calls and dispatchers.                                      *)
(***************************************************************************)
EXTENDS ServerShutdown, FiniteSetTheorems, TLAPS

Forked == caller \in {"notify", "own", "wait", "asleep"}

(* The helpers that still owe the current call their decrement: those that *)
(* have not seen its generation, and those between the two locks.          *)
Owing == {h \in Helper : last[h] # generation \/ helper[h] \in {"run", "finish"}}

(* m_pending counts them, so that a call cannot return while one is left.  *)
Counted == pending = Cardinality(Owing)

(* Nobody owes anything outside a call, and a call has its task.           *)
Calls ==
  /\ Owing # {} => Forked
  /\ Forked => task = round
  /\ generation = round
  /\ shutdown => caller \in {"notifyStop", "join", "gone"}

(* Where a helper is, what it has taken, and what it has executed.         *)
Helpers ==
  \A h \in Helper :
    /\ last[h] # generation => helper[h] \in {"check", "asleep", "notify"}
    /\ helper[h] = "run" => held[h] = round
    /\ helper[h] = "gone" => shutdown
    /\ done[h] = IF last[h] # generation \/ helper[h] = "run" THEN round - 1
                                                             ELSE round

CallerShare ==
  done[Caller] = IF caller \in {"notify", "own"} THEN round - 1 ELSE round

IInv == TypeOK /\ Counted /\ Calls /\ Helpers /\ CallerShare

LEMMA OwingFinite == IsFiniteSet(Owing) /\ Cardinality(Owing) \in Nat
  BY PoolAssumption, FS_Subset, FS_CardinalityType DEF Owing

LEMMA NobodyOwes == ASSUME Counted, pending = 0 PROVE Owing = {}
  BY OwingFinite, FS_EmptySet DEF Counted

LEMMA InitIInv == Init => IInv
  <1> SUFFICES ASSUME Init PROVE IInv
    OBVIOUS
  <1> USE PoolAssumption DEF Init
  <1>1. Owing = {}
    BY DEF Owing
  <1>2. Counted
    BY <1>1, FS_EmptySet DEF Counted
  <1>3. TypeOK
    BY DEF TypeOK, Part
  <1>4. Calls /\ Helpers /\ CallerShare
    BY <1>1 DEF Calls, Helpers, CallerShare, Forked, Part
  <1>5. QED
    BY <1>2, <1>3, <1>4 DEF IInv

-----------------------------------------------------------------------------
(* A step that leaves the debts and the round alone keeps the count.       *)
LEMMA SameDebts ==
  ASSUME IInv, Owing' = Owing, UNCHANGED pending
  PROVE  Counted'
  BY DEF IInv, Counted

LEMMA WakeType ==
  ASSUME TypeOK, NEW T, helper' = Wake(T)
  PROVE  /\ helper' \in [Helper -> {"check", "asleep", "run", "finish", "notify", "gone"}]
         /\ \A h \in Helper :
              \/ helper'[h] = helper[h]
              \/ helper[h] = "asleep" /\ helper'[h] = "check"
  BY DEF TypeOK, Wake

(* A wake-up changes nothing that matters.                                 *)
LEMMA WakeIInv ==
  ASSUME IInv, NEW T, helper' = Wake(T),
         UNCHANGED <<shared, last, held, round, done>>,
         \/ UNCHANGED caller
         \/ caller = "notify" /\ caller' = "own"
         \/ caller = "notifyStop" /\ caller' = "join"
  PROVE  IInv'
  <1> USE DEF IInv, shared
  <1>1. \A h \in Helper :
              \/ helper'[h] = helper[h]
              \/ helper[h] = "asleep" /\ helper'[h] = "check"
    BY WakeType
  <1>2. Owing' = Owing
    BY <1>1 DEF Owing
  <1>3. Counted'
    BY <1>2, SameDebts
  <1>4. TypeOK'
    BY WakeType DEF TypeOK
  <1>5. Calls'
    BY <1>2 DEF Calls, Forked
  <1>6. Helpers'
    BY <1>1 DEF Helpers
  <1>7. CallerShare'
    BY DEF CallerShare
  <1>8. QED
    BY <1>3, <1>4, <1>5, <1>6, <1>7

LEMMA CallerIInv ==
  ASSUME IInv, CallerStep \/ CallerSpurious
  PROVE  IInv'
  <1> USE PoolAssumption DEF IInv, shared
  <1>1. CASE Dispatch
    <2>1. Owing = {}
      BY <1>1 DEF Calls, Forked, Dispatch
    <2>2. Owing' = Helper
      BY <1>1, <2>1 DEF Owing, Dispatch, TypeOK
    <2>3. Counted'
      BY <1>1, <2>2 DEF Counted, Dispatch
    <2>4. TypeOK'
      BY <1>1, FS_CardinalityType DEF TypeOK, Dispatch
    <2>5. Calls'
      BY <1>1 DEF Calls, Forked, Dispatch, TypeOK
    <2>6. Helpers'
      <3>1. \A h \in Helper : /\ last[h] = generation /\ generation \in Nat
                              /\ helper[h] \notin {"run", "finish"}
        BY <2>1 DEF Owing, TypeOK
      <3>2. \A h \in Helper : helper[h] \in {"check", "asleep", "notify", "gone"}
        BY <3>1 DEF TypeOK
      <3>3. QED
        BY <1>1, <3>1, <3>2 DEF Helpers, Calls, Dispatch, TypeOK
    <2>7. CallerShare'
      BY <1>1 DEF CallerShare, Dispatch, TypeOK
    <2>8. QED
      BY <2>3, <2>4, <2>5, <2>6, <2>7
  <1>2. CASE NotifyStart
    BY <1>2, WakeIInv DEF NotifyStart
  <1>3. CASE OwnShare
    <2>1. Owing' = Owing /\ Caller \in Part
      BY <1>3 DEF OwnShare, Owing, Part
    <2>2. \A h \in Helper : done'[h] = done[h]
      BY <1>3 DEF OwnShare, TypeOK, Part
    <2>3. done'[Caller] = round
      BY <1>3, <2>1 DEF OwnShare, CallerShare, TypeOK
    <2>4. QED
      BY <1>3, <2>1, <2>2, <2>3, SameDebts
      DEF OwnShare, TypeOK, Counted, Calls, Helpers, CallerShare, Forked
  <1>4. CASE CallerSleep \/ CallerSpurious
    <2>1. Owing' = Owing
      BY <1>4 DEF CallerSleep, CallerSpurious, Owing
    <2>2. QED
      BY <1>4, <2>1, SameDebts
      DEF CallerSleep, CallerSpurious, TypeOK, Counted, Calls, Helpers,
          CallerShare, Forked
  <1>5. CASE Return
    <2>1. Owing' = Owing /\ Owing = {}
      BY <1>5, NobodyOwes DEF Return, Owing
    <2>2. QED
      BY <1>5, <2>1, SameDebts
      DEF Return, TypeOK, Counted, Calls, Helpers, CallerShare, Forked
  <1>6. CASE Shutdown
    <2>1. Owing' = Owing
      BY <1>6 DEF Shutdown, Owing
    <2>2. QED
      BY <1>6, <2>1, SameDebts
      DEF Shutdown, TypeOK, Counted, Calls, Helpers, CallerShare, Forked
  <1>7. CASE NotifyStop
    BY <1>7, WakeIInv DEF NotifyStop
  <1>8. CASE JoinAll
    <2>1. Owing' = Owing
      BY <1>8 DEF JoinAll, Owing
    <2>2. QED
      BY <1>8, <2>1, SameDebts
      DEF JoinAll, TypeOK, Counted, Calls, Helpers, CallerShare, Forked
  <1>9. QED
    BY <1>1, <1>2, <1>3, <1>4, <1>5, <1>6, <1>7, <1>8 DEF CallerStep, CallStep, DestroyStep

(* The other helpers do not notice what a helper does.                     *)
LEMMA HelperIInv ==
  ASSUME IInv, NEW h \in Helper, HelperStep(h) \/ HelperSpurious(h)
  PROVE  IInv'
  <1> USE PoolAssumption DEF IInv, shared
  <1>1. CASE HelperSleep(h)
    <2>1. Owing' = Owing
      BY <1>1 DEF HelperSleep, Owing, TypeOK
    <2>2. QED
      BY <1>1, <2>1, SameDebts
      DEF HelperSleep, TypeOK, Counted, Calls, Helpers, CallerShare, Forked
  <1>2. CASE HelperQuit(h)
    <2>1. h \notin Owing
      BY <1>2 DEF HelperQuit, Calls, Forked
    <2>2. Owing' = Owing
      BY <1>2 DEF HelperQuit, Owing, TypeOK
    <2>3. QED
      BY <1>2, <2>1, <2>2, SameDebts
      DEF HelperQuit, TypeOK, Counted, Calls, Helpers, CallerShare, Forked, Owing
  <1>3. CASE HelperTake(h)
    <2>1. h \in Owing
      BY <1>3 DEF HelperTake, Owing
    <2>2. Owing' = Owing
      BY <1>3, <2>1 DEF HelperTake, Owing, TypeOK
    <2>3. Forked /\ task = round
      BY <2>1 DEF Calls
    <2>4. TypeOK'
      BY <1>3 DEF HelperTake, TypeOK
    <2>5. Calls'
      BY <1>3, <2>2 DEF HelperTake, Calls, Forked
    <2>6. Helpers'
      BY <1>3, <2>3 DEF HelperTake, Helpers, TypeOK
    <2>7. QED
      BY <1>3, <2>2, <2>4, <2>5, <2>6, SameDebts DEF HelperTake, CallerShare
  <1>4. CASE HelperRun(h)
    <2>1. held[h] # None
      BY <1>4 DEF HelperRun, Helpers, TypeOK
    <2>2. /\ done' = [done EXCEPT ![h] = done[h] + 1]
          /\ h \in Part /\ h # Caller
      BY <1>4, <2>1 DEF HelperRun, Part
    <2>3. last[h] = generation /\ done[h] = round - 1
      BY <1>4 DEF HelperRun, Helpers
    <2>4. Owing' = Owing
      BY <1>4 DEF HelperRun, Owing, TypeOK
    <2>5. TypeOK'
      BY <1>4, <2>2 DEF HelperRun, TypeOK
    <2>6. Helpers'
      BY <1>4, <2>2, <2>3 DEF HelperRun, Helpers, TypeOK, Part
    <2>7. CallerShare'
      BY <1>4, <2>2 DEF HelperRun, CallerShare, TypeOK, Part
    <2>8. QED
      BY <1>4, <2>4, <2>5, <2>6, <2>7, SameDebts DEF HelperRun, Calls, Forked
  <1>5. CASE HelperFinish(h)
    <2>1. h \in Owing /\ last[h] = generation
      BY <1>5 DEF HelperFinish, Owing, Helpers
    <2>2. Owing' = Owing \ {h}
      BY <1>5, <2>1 DEF HelperFinish, Owing, TypeOK
    <2>3. Cardinality(Owing') = pending - 1
      BY <2>1, <2>2, OwingFinite, FS_RemoveElement DEF Counted
    <2>4. pending - 1 \in Nat
      BY <2>1, OwingFinite, FS_EmptySet DEF Counted
    <2>5. TypeOK' /\ Counted'
      BY <1>5, <2>3, <2>4 DEF HelperFinish, TypeOK, Counted
    <2>6. Calls'
      BY <1>5, <2>1, <2>2 DEF HelperFinish, Calls, Forked
    <2>7. Helpers' /\ CallerShare'
      BY <1>5, <2>1 DEF HelperFinish, Helpers, CallerShare, TypeOK
    <2>8. QED
      BY <2>5, <2>6, <2>7
  <1>6. CASE HelperNotify(h)
    <2>1. Owing' = Owing
      BY <1>6 DEF HelperNotify, Owing, TypeOK
    <2>2. \/ caller' = caller
          \/ caller = "asleep" /\ caller' = "wait"
      BY <1>6 DEF HelperNotify
    <2>3. TypeOK'
      BY <1>6, <2>2 DEF HelperNotify, TypeOK
    <2>4. Calls' /\ CallerShare'
      BY <1>6, <2>1, <2>2 DEF HelperNotify, Calls, CallerShare, Forked
    <2>5. Helpers'
      BY <1>6 DEF HelperNotify, Helpers, TypeOK
    <2>6. QED
      BY <1>6, <2>1, <2>3, <2>4, <2>5, SameDebts DEF HelperNotify
  <1>7. CASE HelperSpurious(h)
    BY <1>7, WakeIInv DEF HelperSpurious
  <1>8. QED
    BY <1>1, <1>2, <1>3, <1>4, <1>5, <1>6, <1>7 DEF HelperStep

LEMMA NextIInv == IInv /\ [Next]_vars => IInv'
  <1> SUFFICES ASSUME IInv, [Next]_vars
               PROVE  IInv'
    OBVIOUS
  <1>1. CASE UNCHANGED vars
    BY <1>1 DEF vars, shared, threads, IInv, TypeOK, Counted, Calls, Helpers,
                CallerShare, Forked, Owing
  <1>2. QED
    BY <1>1, CallerIInv, HelperIInv DEF Next

LEMMA Invariant == Spec => []IInv
  <1>1. QED
    BY InitIInv, NextIInv, PTL DEF Spec

-----------------------------------------------------------------------------
(* The variables stay in their ranges: m_pending never goes below zero.    *)
THEOREM PoolTypeOK == Spec => []TypeOK
  <1>1. IInv => TypeOK
    BY DEF IInv
  <1>2. QED
    BY <1>1, Invariant, PTL

(* What every partition has executed when no call is running.              *)
LEMMA AllDone ==
  ASSUME IInv, pending = 0, caller \notin {"notify", "own"}
  PROVE  \A p \in Part : done[p] = round
  <1>1. Owing = {}
    BY NobodyOwes DEF IInv
  <1>2. \A h \in Helper : done[h] = round
    BY <1>1 DEF IInv, Helpers, Owing
  <1>3. done[Caller] = round
    BY DEF IInv, CallerShare
  <1>4. QED
    BY <1>2, <1>3 DEF Part

(* When RunParallel has returned, every partition has executed every task  *)
(* exactly once, however many helpers there are.                           *)
THEOREM BarrierHolds == Spec => []Barrier
  <1>1. ASSUME IInv, caller \in {"idle", "notifyStop", "join", "gone"}
        PROVE  \A p \in Part : done[p] = round
    <2>1. Owing = {}
      BY <1>1 DEF IInv, Calls, Forked
    <2>2. pending = 0
      BY <1>1, <2>1, FS_EmptySet DEF IInv, Counted
    <2>3. QED
      BY <1>1, <2>2, AllDone
  <1>2. IInv => Barrier
    BY <1>1 DEF Barrier
  <1>3. QED
    BY <1>2, Invariant, PTL

(* A helper never executes a function whose call has returned.             *)
THEOREM NoDanglingTask == Spec => []TaskAlive
  <1>1. ASSUME IInv, NEW h \in Helper, helper[h] = "run"
        PROVE  held[h] = round /\ task = round
    <2>1. h \in Owing
      BY <1>1 DEF Owing
    <2>2. QED
      BY <1>1, <2>1 DEF IInv, Calls, Helpers
  <1>2. IInv => TaskAlive
    BY <1>1 DEF TaskAlive
  <1>3. QED
    BY <1>2, Invariant, PTL

-----------------------------------------------------------------------------
(* The refinement: a share is executed once in its call, and the return is *)
(* the join.                                                               *)
LEMMA CallerMaps ==
  ASSUME IInv, CallerStep \/ CallerSpurious
  PROVE  [Call!Next]_(Call!call)
  <1> USE DEF IInv, shared
  <1>1. CASE Dispatch
    BY <1>1 DEF Dispatch, Call!Next, Call!Fork
  <1>2. CASE OwnShare
    <2>1. Caller \in Part /\ done[Caller] = round - 1 /\ round \in Nat
      BY <1>2 DEF OwnShare, CallerShare, TypeOK, Part
    <2>2. done' = [done EXCEPT ![Caller] = round]
      BY <1>2, <2>1 DEF OwnShare
    <2>3. Call!Execute(Caller)
      BY <1>2, <2>1, <2>2 DEF OwnShare, Call!Execute
    <2>4. QED
      BY <2>1, <2>3 DEF Call!Next
  <1>3. CASE Return
    <2>1. \A p \in Part : done[p] = round
      BY <1>3, AllDone DEF Return
    <2>2. QED
      BY <1>3, <2>1 DEF Return, Call!Next, Call!Join
  <1>4. CASE NotifyStart \/ CallerSleep \/ CallerSpurious
    BY <1>4 DEF NotifyStart, CallerSleep, CallerSpurious, Call!call
  <1>5. CASE Shutdown \/ NotifyStop \/ JoinAll
    BY <1>5 DEF Shutdown, NotifyStop, JoinAll, Call!call
  <1>6. QED
    BY <1>1, <1>2, <1>3, <1>4, <1>5 DEF CallerStep, CallStep, DestroyStep

LEMMA HelperMaps ==
  ASSUME IInv, NEW h \in Helper, HelperStep(h) \/ HelperSpurious(h)
  PROVE  [Call!Next]_(Call!call)
  <1> USE DEF IInv, shared
  <1>1. CASE HelperRun(h)
    <2>1. h \in Owing /\ Forked
      BY <1>1 DEF HelperRun, Calls, Owing
    <2>2. done[h] = round - 1 /\ round \in Nat /\ h \in Part /\ held[h] # None
      <3>1. held[h] = round /\ done[h] = round - 1
        BY <1>1 DEF HelperRun, Helpers
      <3>2. round \in Nat /\ round # None /\ h \in Part
        BY PoolAssumption DEF TypeOK, Part
      <3>3. QED
        BY <3>1, <3>2
    <2>3. done' = [done EXCEPT ![h] = round]
      <3>1. done' = [done EXCEPT ![h] = done[h] + 1]
        BY <1>1, <2>2 DEF HelperRun
      <3>2. done[h] + 1 = round
        BY <2>2
      <3>3. QED
        BY <3>1, <3>2
    <2>4. Call!Execute(h)
      BY <1>1, <2>1, <2>2, <2>3 DEF HelperRun, Forked, Call!Execute
    <2>5. QED
      BY <2>2, <2>4 DEF Call!Next
  <1>2. CASE HelperNotify(h)
    BY <1>2 DEF HelperNotify, Call!call
  <1>3. CASE \/ HelperSleep(h) \/ HelperQuit(h) \/ HelperTake(h)
             \/ HelperFinish(h) \/ HelperSpurious(h)
    BY <1>3 DEF HelperSleep, HelperQuit, HelperTake, HelperFinish,
                HelperSpurious, Call!call
  <1>4. QED
    BY <1>1, <1>2, <1>3 DEF HelperStep

(* RunParallel implements the fork and join that the tick loop relies on,  *)
(* however many helpers there are.                                         *)
THEOREM Refinement == Spec => CallSpec
  <1>1. Init => Call!Init
    BY DEF Init, Call!Init
  <1>2. ASSUME IInv, [Next]_vars
        PROVE  [Call!Next]_(Call!call)
    <2>1. CASE UNCHANGED vars
      BY <2>1 DEF vars, shared, threads, Call!call
    <2>2. QED
      BY <1>2, <2>1, CallerMaps, HelperMaps DEF Next
  <1>3. QED
    BY <1>1, <1>2, Invariant, PTL DEF Spec, CallSpec, Call!Spec
-----------------------------------------------------------------------------
(* The pool in the server.                                                 *)

(* The server uses its pool as the pool may be used: calls by the tick     *)
(* thread only, and one destruction after the last of them.  What is       *)
(* proved of the pool holds in it.  (GameTickLoop::Run, main.)             *)
THEOREM ServerUsesPool == ServerSpec => Spec
  <1>1. ServerInit => Init
    BY DEF ServerInit
  <1>2. [ServerNext]_serverVars => [Next]_vars
    <2> SUFFICES ASSUME [ServerNext]_serverVars, ~ UNCHANGED vars PROVE Next
      OBVIOUS
    <2>1. ServerNext
      BY DEF serverVars
    <2>2. CASE MainStep
      <3>1. DestroyStep
        BY <2>2 DEF MainStep, MakePort, StartThreads, JoinDispatchers, JoinRest, Destroy
      <3> QED
        BY <3>1 DEF Next, CallerStep
    <2>3. CASE TickStep
      <3>1. CallStep
        BY <2>3 DEF TickStep, TickBegin, PoolCall, TickEnd, TickQuit
      <3> QED
        BY <3>1 DEF Next, CallerStep
    <2>4. CASE StatsStep \/ CtrlC \/ PostQuit \/ \E d \in Dispatcher : TakeQuit(d)
      BY <2>4 DEF StatsStep, CtrlC, PostQuit, TakeQuit
    <2>5. CASE \E h \in Helper : Worker(h)
      BY <2>5 DEF Worker, Next
    <2>6. CASE CallerSpurious \/ \E h \in Helper : HelperSpurious(h)
      BY <2>6 DEF Next
    <2> QED
      BY <2>1, <2>2, <2>3, <2>4, <2>5, <2>6 DEF ServerNext
  <1> QED
    BY <1>1, <1>2, PTL DEF ServerSpec, Spec

(* In the server, from its start to its end, the pool is fork and join,    *)
(* and no helper runs the function of a call that has returned.            *)
THEOREM ServerForksAndJoins == ServerSpec => []TaskAlive /\ CallSpec
  BY ServerUsesPool, NoDanglingTask, Refinement, PTL

(* Where the threads are in each part of main.                             *)
Where ==
  /\ main \in {"setup", "port", "join", "joinRest", "exit"}
  /\ main \in {"setup", "port"} => ticker = "off"
  /\ Forked => ticker = "tick"
  /\ main \in {"joinRest", "exit"} => alive = {} /\ ~ running
  /\ main = "exit" => ticker = "ended" /\ stats = "ended"
  /\ caller \in {"notifyStop", "join", "gone"} => main = "exit"
  /\ caller = "gone" => \A h \in Helper : helper[h] = "gone"

(* When main has returned, nobody is left who could use what it destroys:  *)
(* no dispatcher, no statistics, no tick and no call of the pool; and when *)
(* the pool is gone, so are its helpers.                                   *)
Orderly ==
  /\ main = "exit" => /\ alive = {} /\ ticker = "ended" /\ stats = "ended"
                      /\ ~ Forked
  /\ caller = "gone" => \A h \in Helper : helper[h] = "gone"

LEMMA CallsWhileForked ==
  ASSUME CallStep
  PROVE  /\ caller \notin {"notifyStop", "join", "gone"}
         /\ caller' \notin {"notifyStop", "join", "gone"}
  BY DEF CallStep, Dispatch, NotifyStart, OwnShare, CallerSleep, Return

LEMMA HelperLeavesCaller ==
  ASSUME TypeOK, NEW h \in Helper, HelperStep(h) \/ HelperSpurious(h)
  PROVE  /\ Forked' <=> Forked
         /\ caller \in {"notifyStop", "join", "gone"} \/ caller' \in {"notifyStop", "join", "gone"}
              => caller' = caller
         /\ \A k \in Helper : helper[k] = "gone" => helper'[k] = "gone"
  BY DEF HelperStep, HelperSpurious, HelperSleep, HelperQuit, HelperTake, HelperRun,
         HelperFinish, HelperNotify, Forked, TypeOK, Wake

LEMMA WhereKept == TypeOK /\ Where /\ [ServerNext]_serverVars => Where'
  <1> SUFFICES ASSUME TypeOK, Where, [ServerNext]_serverVars PROVE Where'
    OBVIOUS
  <1>1. CASE UNCHANGED serverVars
    BY <1>1 DEF Where, Forked, serverVars, server, vars, shared, threads
  <1>2. CASE MakePort \/ StartThreads \/ JoinDispatchers \/ JoinRest
    BY <1>2 DEF MakePort, StartThreads, JoinDispatchers, JoinRest, Where, Forked, vars, threads
  <1>3. CASE Destroy
    BY <1>3 DEF Destroy, DestroyStep, Shutdown, NotifyStop, JoinAll, Where, Forked, server, threads
  <1>4. CASE TickBegin \/ TickEnd \/ TickQuit
    BY <1>4 DEF TickBegin, TickEnd, TickQuit, Where, Forked, vars, threads
  <1>5. CASE PoolCall
    <2>1. CallStep /\ ticker = "tick" /\ UNCHANGED server
      BY <1>5 DEF PoolCall
    <2>2. /\ caller \notin {"notifyStop", "join", "gone"}
          /\ caller' \notin {"notifyStop", "join", "gone"}
      BY <2>1, CallsWhileForked
    <2> QED
      BY <2>1, <2>2 DEF Where, server
  <1>6. CASE StatsStep \/ CtrlC \/ PostQuit \/ \E d \in Dispatcher : TakeQuit(d)
    BY <1>6 DEF StatsStep, CtrlC, PostQuit, TakeQuit, Where, Forked, vars, threads
  <1>7. CASE \E h \in Helper : Worker(h) \/ (HelperSpurious(h) /\ UNCHANGED server)
    <2>1. PICK h \in Helper : (HelperStep(h) \/ HelperSpurious(h)) /\ UNCHANGED server
      BY <1>7 DEF Worker
    <2>2. /\ Forked' <=> Forked
          /\ caller \in {"notifyStop", "join", "gone"} \/ caller' \in {"notifyStop", "join", "gone"}
               => caller' = caller
          /\ \A k \in Helper : helper[k] = "gone" => helper'[k] = "gone"
      BY <2>1, HelperLeavesCaller
    <2> QED
      BY <2>1, <2>2 DEF Where, server
  <1>8. CASE CallerSpurious /\ UNCHANGED server
    BY <1>8 DEF CallerSpurious, Where, Forked, server
  <1> QED
    BY <1>1, <1>2, <1>3, <1>4, <1>5, <1>6, <1>7, <1>8 DEF ServerNext, MainStep, TickStep

(* main and the tick thread come to an end in the right order, whenever    *)
(* and however often Ctrl-C is pressed.  (main, GameTickLoop::Run,         *)
(* ~TickWorkerPool.)                                                       *)
THEOREM OrderlyEnd == ServerSpec => []Orderly
  <1>1. ServerInit => Where
    BY DEF ServerInit, Init, Where, Forked
  <1>2. Where => Orderly
    BY DEF Where, Orderly
  <1>3. ServerSpec => []TypeOK
    BY ServerUsesPool, PoolTypeOK, PTL
  <1> QED
    BY <1>1, <1>2, <1>3, WhereKept, PTL DEF ServerSpec

=============================================================================
