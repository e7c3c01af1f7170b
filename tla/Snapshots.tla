----------------------------- MODULE Snapshots -----------------------------
(***************************************************************************)
(* A whole tick around the inputs of InputQueue: the set of those who have *)
(* moved, the snapshot ticks, and an observer who has one object in view,  *)
(* the player itself or a monster, near or far.                            *)
(*                                                                         *)
(* What the client of the observer shows is represented by its age, the    *)
(* number of ticks for which it has not been the position of the object.   *)
(***************************************************************************)
EXTENDS InputQueue

VARIABLES
  tick,    \* m_tick, modulo FAR_SNAPSHOT_INTERVAL
  other,   \* the object in view: "player" or "monster"
  near,    \* whether it is within NEAR_RANGE
  moved,   \* whether g_moved contains it
  age,     \* history: the age of what the observer is shown of it
  steady   \* history: at how many occasions in a row it has moved

SNAPSHOT_INTERVAL     == 2
FAR_SNAPSHOT_INTERVAL == 6
AI_TICK_INTERVAL      == 3

viewVars == <<tick, other, near, moved, age, steady>>
allVars  == <<vars, viewVars>>

InitAll ==
  /\ Init
  /\ tick = 0 /\ moved = FALSE /\ age = 0 /\ steady = 0
  /\ other \in {"player", "monster"} /\ near \in BOOLEAN

Every(interval) == tick % interval = 0

-----------------------------------------------------------------------------
(* The next tick begins: MovedSet::Clear and the player's inputs.          *)
Begin ==
  /\ PopInputs
  /\ tick' = (tick + 1) % FAR_SNAPSHOT_INTERVAL
  /\ moved' = FALSE
  /\ UNCHANGED <<other, near, age, steady>>

Simulate == SimulateInput /\ UNCHANGED viewVars

(* The player moves if it had inputs, a monster may in an AI tick: each is *)
(* marked, and the marks are merged.                                       *)
MayMove == other = "player" \/ Every(AI_TICK_INTERVAL)

UpTo(bound, n) == IF n > bound THEN bound ELSE n

Mark ==
  /\ SetMoveState
  /\ moved' \in IF other = "player" THEN {state # pos} ELSE {FALSE, MayMove}
  /\ steady' = IF moved' THEN UpTo(FAR_SNAPSHOT_INTERVAL, steady + 1)
               ELSE IF MayMove THEN 0 ELSE steady
  /\ UNCHANGED <<tick, other, near, age>>

(* (Mistake to test the properties: far observers have their turn in odd   *)
(* ticks.)                                                                 *)
SendsOdd == Every(SNAPSHOT_INTERVAL) /\ moved /\ (near \/ tick = FAR_SNAPSHOT_INTERVAL - 1)

(* BuildSnapshots for the observer: S2C_MOVE_OBJECT.                       *)
Sends == Every(SNAPSHOT_INTERVAL) /\ moved /\ (near \/ Every(FAR_SNAPSHOT_INTERVAL))

Older == IF age = 0 /\ ~moved THEN 0 ELSE UpTo(FAR_SNAPSHOT_INTERVAL, age + 1)

(* The snapshots end a tick, with S2C_SELF_STATE for the player itself.    *)
PhaseSendSnapshots ==
  /\ IF Every(SNAPSHOT_INTERVAL) THEN SendSelfState ELSE SendNothing
  /\ age' = IF Sends THEN 0 ELSE Older
  /\ UNCHANGED <<tick, other, near, moved, steady>>

Run == Begin \/ Simulate \/ Mark \/ PhaseSendSnapshots

NextAll == Run \/ \E n \in 0 .. MaxSeq : PushInput(n) /\ UNCHANGED viewVars

(* The tick thread runs on.                                                *)
FairSpec == InitAll /\ [][NextAll]_allVars /\ WF_allVars(Run)

-----------------------------------------------------------------------------
(* Who keeps moving is followed: a player who moves in every tick is shown *)
(* to others where it was less than two ticks ago, or six if they are far, *)
(* and a monster that moves in every AI tick where it was less than six    *)
(* ticks ago.  (MovedSet, SNAPSHOT_INTERVAL, FAR_SNAPSHOT_INTERVAL.)       *)
Lag == IF other = "player" /\ near THEN SNAPSHOT_INTERVAL ELSE FAR_SNAPSHOT_INTERVAL

FollowedClosely == phase = "idle" /\ steady >= Lag => age < Lag

=============================================================================
