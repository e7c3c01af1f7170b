----------------------------- MODULE InputQueue -----------------------------
(***************************************************************************)
(* The inputs of one player: from C2S_INPUT on an I/O thread to the        *)
(* acknowledgement in S2C_SELF_STATE.                                      *)
(*                                                                         *)
(* The client predicts: it applies its own inputs at once and, when a      *)
(* S2C_SELF_STATE arrives, replays on the server's position those inputs   *)
(* that are newer than last_processed_input.  That only works if position  *)
(* and acknowledgement always belong together.  A position is represented  *)
(* by the set of the inputs that have been simulated into it.              *)
(***************************************************************************)
EXTENDS Integers, Sequences, FiniteSets

CONSTANTS
  MaxQueue,  \* MAX_INPUT_QUEUE
  PerTick,   \* MAX_INPUTS_PER_TICK
  MaxSeq     \* bound: the sequence numbers a client uses

ASSUME QueueAssumption ==
  /\ MaxQueue \in Nat \ {0} /\ PerTick \in Nat \ {0} /\ MaxSeq \in Nat

VARIABLES
  queue,      \* m_input_queue
  queued,     \* m_last_queued_sequence
  processed,  \* m_last_processed
  phase,      \* where the tick thread is
  inputs,     \* the inputs SimulateSector has popped and not simulated yet
  state,      \* its copy of the move state
  pos,        \* m_move
  shown,      \* the last S2C_SELF_STATE: acknowledgement and position
  accepted    \* history: the inputs PushInput has taken

ioVars   == <<queue, queued, accepted>>
tickVars == <<processed, phase, inputs, state, pos, shown>>
vars     == <<ioVars, tickVars>>

Input == 1 .. MaxSeq

Init ==
  /\ queue = <<>> /\ queued = 0 /\ processed = 0
  /\ phase = "idle" /\ inputs = <<>> /\ state = {} /\ pos = {}
  /\ shown = [ack |-> 0, pos |-> {}] /\ accepted = {}

-----------------------------------------------------------------------------
(* (Mistake to test the properties: the newest input is refused.)          *)
NewestRefused(q) == IF Len(q) > MaxQueue THEN SubSeq(q, 1, MaxQueue) ELSE q

(* (Mistake: an overflow throws the backlog away.)                         *)
NewestAlone(q) == IF Len(q) > MaxQueue THEN SubSeq(q, MaxQueue, Len(q)) ELSE q

(* Session::PushInput.  The client may repeat and reorder its numbers; a   *)
(* queue that overflows loses its oldest input.                            *)
Newest(q) == IF Len(q) > MaxQueue THEN Tail(q) ELSE q

(* (Mistake: an old input is not recognised.)                              *)
PushInputAny(n) ==
  /\ queued' = n
  /\ queue' = Newest(Append(queue, n))
  /\ accepted' = accepted \cup {n}
  /\ UNCHANGED tickVars

PushInput(n) ==
  /\ n > queued
  /\ queued' = n
  /\ queue' = Newest(Append(queue, n))
  /\ accepted' = accepted \cup {n}
  /\ UNCHANGED tickVars

(* Session::PopInputs, and the copy of the move state.                     *)
Count == IF Len(queue) < PerTick THEN Len(queue) ELSE PerTick

PopInputs ==
  /\ phase = "idle"
  /\ inputs' = SubSeq(queue, 1, Count)
  /\ queue' = SubSeq(queue, Count + 1, Len(queue))
  /\ state' = pos
  /\ phase' = "simulate"
  /\ UNCHANGED <<queued, accepted, processed, pos, shown>>

(* SimulateStep and SetLastProcessedInput.                                 *)
SimulateInput ==
  /\ phase = "simulate" /\ inputs # <<>>
  /\ state' = state \cup {Head(inputs)}
  /\ processed' = Head(inputs)
  /\ inputs' = Tail(inputs)
  /\ UNCHANGED <<ioVars, phase, pos, shown>>

(* (Mistake: the result is not stored.)                                    *)
SetMoveStateNever ==
  /\ phase = "simulate" /\ inputs = <<>>
  /\ phase' = "send"
  /\ UNCHANGED <<ioVars, processed, inputs, state, pos, shown>>

SetMoveState ==
  /\ phase = "simulate" /\ inputs = <<>>
  /\ pos' = state
  /\ phase' = "send"
  /\ UNCHANGED <<ioVars, processed, inputs, state, shown>>

(* BuildSnapshots, in a snapshot tick.  (Snapshots.tla says which are.)    *)
SendSelfState ==
  /\ phase = "send"
  /\ shown' = [ack |-> processed, pos |-> pos]
  /\ phase' = "idle"
  /\ UNCHANGED <<ioVars, processed, inputs, state, pos>>

(* In the other ticks nothing is sent.                                     *)
SendNothing ==
  /\ phase = "send"
  /\ phase' = "idle"
  /\ UNCHANGED <<ioVars, processed, inputs, state, pos, shown>>

Tick == PopInputs \/ SimulateInput \/ SetMoveState \/ SendSelfState \/ SendNothing

Next == Tick \/ \E n \in 0 .. MaxSeq : PushInput(n)

Spec == Init /\ [][Next]_vars

-----------------------------------------------------------------------------
(* Every variable has its type; the queue keeps its limit.                 *)
TypeOK ==
  /\ queue \in Seq(Input) /\ Len(queue) <= MaxQueue
  /\ queued \in 0 .. MaxSeq /\ processed \in 0 .. MaxSeq
  /\ phase \in {"idle", "simulate", "send"}
  /\ inputs \in Seq(Input) /\ Len(inputs) <= PerTick
  /\ state \subseteq Input /\ pos \subseteq Input
  /\ shown \in [ack : 0 .. MaxSeq, pos : SUBSET Input]
  /\ accepted \subseteq Input

(* An input is simulated at most once, and in the order of the numbers,    *)
(* whatever the client repeats and however the two threads interleave.     *)
InOrder == [][SimulateInput => \A k \in state : k < Head(inputs)]_vars

(* Position and acknowledgement belong together: the position a client is  *)
(* shown contains the input it acknowledges and none that is newer.        *)
AckMatches ==
  /\ shown.pos = {} => shown.ack = 0
  /\ shown.pos # {} => shown.ack \in shown.pos /\ \A n \in shown.pos : n <= shown.ack

(* Only old inputs are ever dropped: one that is neither simulated nor on  *)
(* its way has been followed by at least MaxQueue newer ones               *)
(* (world_object.h: the newest inputs are the player's intention).         *)
OnTheWay(n) ==
  \/ n \in state
  \/ \E i \in DOMAIN inputs : inputs[i] = n
  \/ \E i \in DOMAIN queue : queue[i] = n
RecentKept ==
  \A n \in accepted : ~OnTheWay(n) => Cardinality({k \in accepted : k > n}) >= MaxQueue

(* The newest input of a client that stops sending is acknowledged.        *)
LatestIsAcked == \A n \in Input : (queued = n) ~> (shown.ack >= n)

=============================================================================
