------------------------------ MODULE ViewSync ------------------------------
(***************************************************************************)
(* One observing player and what its client is told to show: the view list *)
(* of the session, the ADD and REMOVE packets that UpdateViewList derives  *)
(* from it, and the client that follows them.                              *)
(*                                                                         *)
(* The list is computed by the tick, every VIEW_UPDATE_INTERVAL ticks, and *)
(* once by the I/O thread of the login (UpdateViewNow).  The computation   *)
(* holds m_view_update_lock, but its packets are queued for sending after  *)
(* the lock was released.  Meanwhile other players come and go, and a slot *)
(* that was freed is given to the next one who comes.                      *)
(*                                                                         *)
(* An NPC is, for a client, a player that never leaves.  Distances are     *)
(* reduced to being in view range or not.                                  *)
(***************************************************************************)
EXTENDS Integers, FiniteSets, Functions

CONSTANTS
  Slot,     \* the ids of the others
  Cap,      \* MAX_VIEW_OBJECTS
  MaxGen    \* bound: sessions that ever log in

ASSUME ViewAssumption ==
  IsFiniteSet(Slot) /\ Cap \in Nat \ {0} /\ MaxGen \in Nat

Updater == {"tick", "login"}

VARIABLES
  stage,    \* stage[i]: how far the session in slot i is, "free" without one
  gen,      \* gen[i]: the sessions slot i has had; the last is in it now
  inRange,  \* those whose position is in the observer's view range
  pc,       \* pc[u]: where updater u is in UpdateViewList
  lock,     \* who holds m_view_update_lock
  ids,      \* ids[u]: what QueryNear gave to u
  current,  \* current[u]: the view list u has computed
  batch,    \* batch[u]: the packets u has assembled and not queued yet
  view,     \* m_view_list
  shown,    \* shown[i]: the session whose avatar the client shows as i, or 0
  raced     \* history: a view was computed before an older batch was queued

others   == <<stage, gen, inRange>>
update   == <<pc, lock, ids, current, batch>>
viewVars == <<others, update, view, shown, raced>>

Nobody  == "nobody"
NoBatch == [add |-> {}, remove |-> {}]

(* The ids that are in the grid, and those TryGetSnapshot finds.           *)
InGrid     == {i \in Slot : stage[i] \in {"in", "closing"}}
Resolvable == {i \in Slot : stage[i] \in {"playing", "in"}}

ViewInit ==
  /\ stage = [i \in Slot |-> "free"]
  /\ gen = [i \in Slot |-> 0]
  /\ inRange \in SUBSET Slot
  /\ pc = [u \in Updater |-> "idle"]
  /\ lock = Nobody
  /\ ids = [u \in Updater |-> {}]
  /\ current = [u \in Updater |-> {}]
  /\ batch = [u \in Updater |-> NoBatch]
  /\ view = {}
  /\ shown = [i \in Slot |-> 0]
  /\ raced = FALSE

-----------------------------------------------------------------------------
(* The others.  HandleLogin: Playing, then in the grid.                    *)
Logins == FoldFunction(LAMBDA a, b : a + b, 0, gen)

Login(i) ==
  /\ stage[i] = "free" /\ Logins < MaxGen
  /\ stage' = [stage EXCEPT ![i] = "playing"]
  /\ gen' = [gen EXCEPT ![i] = @ + 1]
  /\ inRange' \in {inRange \cup {i}, inRange \ {i}}
  /\ UNCHANGED <<update, view, shown, raced>>

(* The rest of a session: into the grid; Closing; out of the grid; and out *)
(* of the slot, which is then free for the next session.                   *)
After == [playing |-> "in", in |-> "closing", closing |-> "removed",
          removed |-> "free"]

Advance(i) ==
  /\ stage[i] # "free"
  /\ stage' = [stage EXCEPT ![i] = After[@]]
  /\ UNCHANGED <<gen, inRange, update, view, shown, raced>>

(* Somebody moves, the observer too: never while the tick updates views.   *)
Move(i) ==
  /\ pc["tick"] = "idle"
  /\ stage[i] = "in"
  /\ inRange' = IF i \in inRange THEN inRange \ {i} ELSE inRange \cup {i}
  /\ UNCHANGED <<stage, gen, update, view, shown, raced>>

-----------------------------------------------------------------------------
(* UpdateViewList, with the lock held: QueryNear...                        *)
Query(u) ==
  /\ pc[u] = "idle" /\ lock = Nobody
  /\ lock' = u
  /\ ids' = [ids EXCEPT ![u] = InGrid]
  /\ pc' = [pc EXCEPT ![u] = "resolve"]
  /\ UNCHANGED <<others, current, batch, view, shown, raced>>

(* ... the candidates, of which no more than MAX_VIEW_OBJECTS are kept...  *)
Nearest(S) ==
  IF Cardinality(S) <= Cap THEN {S}
  ELSE {T \in SUBSET S : Cardinality(T) = Cap}

Resolve(u) ==
  /\ pc[u] = "resolve"
  /\ \E T \in Nearest(ids[u] \cap Resolvable \cap inRange) :
       current' = [current EXCEPT ![u] = T]
  /\ pc' = [pc EXCEPT ![u] = "diff"]
  /\ UNCHANGED <<others, lock, ids, batch, view, shown, raced>>

(* (Mistakes to test the properties: an ADD for all; no REMOVE; the old    *)
(* list stays.)                                                            *)
AddsAll(u)     == {<<i, gen[i]>> : i \in current[u] \cap Resolvable}
RemovesNone(u) == {}
KeptView(u)    == view \cup current[u]

(* The ADD packets, the REMOVE packets and the new list of an update.      *)
Adds(u)     == {<<i, gen[i]>> : i \in (current[u] \ view) \cap Resolvable}
Removes(u)  == view \ current[u]
NextView(u) == current[u]

(* ... and the difference to the old list.  A newcomer is looked up again  *)
(* for its ADD; if it has gone by now there is no ADD, but its id enters   *)
(* the list.  Then the lock is released.                                   *)
Diff(u) ==
  /\ pc[u] = "diff"
  /\ batch' = [batch EXCEPT ![u] = [add |-> Adds(u), remove |-> Removes(u)]]
  /\ view' = NextView(u)
  /\ lock' = Nobody
  /\ pc' = [pc EXCEPT ![u] = "flush"]
  /\ raced' = (raced \/ \E v \in Updater \ {u} : pc[v] = "flush")
  /\ UNCHANGED <<others, ids, current, shown>>

(* FlushSendBatch.  The client applies what it gets in order.  The tick    *)
(* will do it again; the login is done.                                    *)
Applied(b, i) ==
  IF \E g \in 1 .. MaxGen : <<i, g>> \in b.add
    THEN CHOOSE g \in 1 .. MaxGen : <<i, g>> \in b.add
    ELSE IF i \in b.remove THEN 0 ELSE shown[i]

Flush(u) ==
  /\ pc[u] = "flush"
  /\ shown' = [i \in Slot |-> Applied(batch[u], i)]
  /\ batch' = [batch EXCEPT ![u] = NoBatch]
  /\ ids' = [ids EXCEPT ![u] = {}]
  /\ current' = [current EXCEPT ![u] = {}]
  /\ pc' = [pc EXCEPT ![u] = IF u = "tick" THEN "idle" ELSE "done"]
  /\ UNCHANGED <<others, lock, view, raced>>

Update(u) == Query(u) \/ Resolve(u) \/ Diff(u) \/ Flush(u)

ViewNext ==
  \/ \E i \in Slot : Login(i) \/ Advance(i) \/ Move(i)
  \/ \E u \in Updater : Update(u)

ViewSpec == ViewInit /\ [][ViewNext]_viewVars

(* View updates go on for ever; the login's thread is not stopped for      *)
(* ever.  What the others do is up to them.                                *)
FairViewSpec ==
  ViewSpec /\ SF_viewVars(Update("tick")) /\ WF_viewVars(Update("login"))

-----------------------------------------------------------------------------
Quiet == \A u \in Updater : pc[u] # "flush"

(* The client shows nothing that is not in the view list, so never more    *)
(* than MAX_VIEW_OBJECTS; the two are changed at different moments by      *)
(* different threads.  (Unless a batch has overtaken another.)             *)
ShownIsInView ==
  /\ Cardinality(view) <= Cap
  /\ Quiet /\ ~raced => \A i \in Slot : shown[i] # 0 => i \in view

(* The client is not told to add what it shows already: what the lock is   *)
(* for.  (Unless a batch has overtaken another.)                           *)
AddedOnce ==
  ~raced => \A u \in Updater : \A a \in batch[u].add : shown[a[1]] = 0

(* Who has left and is not replaced disappears from the client, by the     *)
(* view updates alone.                                                     *)
LeaverDisappears ==
  \A i \in Slot :
    <>[](stage[i] \in {"removed", "free"}) => <>[](shown[i] = 0 \/ raced)

(* Who comes into view and stays is shown, if the list has room for all    *)
(* who are near and the slot was not handed on under the observer's eyes.  *)
NeighbourAppears ==
  \A i \in Slot :
    <>[](stage[i] = "in" /\ i \in inRange /\ gen[i] = 1 /\ Cardinality(inRange) <= Cap)
      => <>[](shown[i] = 1 \/ raced)

-----------------------------------------------------------------------------
(* What a comment of the code says, refuted by a run of its own.           *)

(* game_tick.h:387: whoever has disconnected is removed by the next        *)
(* updates.                                                                *)
DepartedIsRemoved ==
  \A i \in Slot : \A g \in 1 .. MaxGen :
    (shown[i] = g /\ gen[i] > g) ~> (shown[i] # g)
=============================================================================
