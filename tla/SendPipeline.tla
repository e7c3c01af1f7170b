---------------------------- MODULE SendPipeline ----------------------------
(***************************************************************************)
(* The send side of one Session: the pending buffer that any thread may    *)
(* append to, the active buffer that the kernel reads, and the SendWorker  *)
(* coroutine that swaps the two.                                           *)
(*                                                                         *)
(* Producers are the threads that call SendPacket and FlushSendBatch: the  *)
(* session's own handlers, the tick thread and its workers, the handlers   *)
(* of other sessions.  A critical section under m_send_lock is one step.   *)
(* The kernel reads m_send_active at any moment between WSASend and its    *)
(* completion; the model lets it read at the completion, so that whatever  *)
(* overwrites the buffer in between is seen on the wire.                   *)
(*                                                                         *)
(* Messages (a packet, or the batch of packets of one call) are numbered   *)
(* in the order in which they enter the pending buffer.                    *)
(***************************************************************************)
EXTENDS Integers, Sequences

CONSTANTS
  Producer,  \* threads that enqueue
  Worker,    \* SendWorker coroutines that may exist at a time
  MaxMsg     \* bound on the messages ever accepted

ASSUME PipelineAssumption ==
  /\ MaxMsg \in Nat
  /\ Producer \cap Worker = {}

VARIABLES
  closing,   \* m_state is SessionState::Closing
  pending,   \* m_send_pending
  active,    \* m_send_active
  sending,   \* m_is_sending
  prod,      \* prod[p]: where producer p is
  worker,    \* worker[w]: where coroutine w is, "none" if it does not exist
  accepted,  \* history: messages accepted so far
  wire       \* history: what the socket has taken

vars == <<closing, pending, active, sending, prod, worker, accepted, wire>>

Init ==
  /\ closing = FALSE
  /\ pending = <<>> /\ active = <<>> /\ sending = FALSE
  /\ prod = [p \in Producer |-> "idle"]
  /\ worker = [w \in Worker |-> "none"]
  /\ accepted = 0 /\ wire = <<>>

-----------------------------------------------------------------------------
(* EnqueueSend, EnqueueSendBatch: the state is looked at before the lock   *)
(* is taken...                                                             *)
Check(p) ==
  /\ prod[p] = "idle" /\ accepted < MaxMsg
  /\ ~closing
  /\ prod' = [prod EXCEPT ![p] = "checked"]
  /\ UNCHANGED <<closing, pending, active, sending, worker, accepted, wire>>

(* (Mistake to test the properties: m_is_sending is not looked at.)        *)
EnqueueAlwaysSpawns(p) ==
  /\ prod[p] = "checked" /\ accepted < MaxMsg
  /\ pending' = Append(pending, accepted + 1)
  /\ accepted' = accepted + 1
  /\ sending' = TRUE
  /\ prod' = [prod EXCEPT ![p] = "spawn"]
  /\ UNCHANGED <<closing, active, worker, wire>>

(* ... so a session may start to close before the append.                  *)
Enqueue(p) ==
  /\ prod[p] = "checked" /\ accepted < MaxMsg
  /\ pending' = Append(pending, accepted + 1)
  /\ accepted' = accepted + 1
  /\ sending' = TRUE
  /\ prod' = [prod EXCEPT ![p] = IF sending THEN "idle" ELSE "spawn"]
  /\ UNCHANGED <<closing, active, worker, wire>>

(* SendPacket, FlushSendBatch: g_scope.spawn(SendWorker(session)).  The    *)
(* coroutine runs on the producer's thread up to its first suspension;     *)
(* the producer is let go at once, which only adds interleavings.          *)
Spawn(p, w) ==
  /\ prod[p] = "spawn" /\ worker[w] = "none"
  /\ worker' = [worker EXCEPT ![w] = "swap"]
  /\ prod' = [prod EXCEPT ![p] = "idle"]
  /\ UNCHANGED <<closing, pending, active, sending, accepted, wire>>

(* (Mistake: the flag stays up.)                                           *)
SwapEmptyKeepsFlag(w) ==
  /\ worker[w] = "swap" /\ pending = <<>>
  /\ worker' = [worker EXCEPT ![w] = "none"]
  /\ UNCHANGED <<closing, pending, active, sending, prod, accepted, wire>>

(* SwapSendBuffer finds nothing: the coroutine ends.                       *)
SwapEmpty(w) ==
  /\ worker[w] = "swap" /\ pending = <<>>
  /\ sending' = FALSE
  /\ worker' = [worker EXCEPT ![w] = "none"]
  /\ UNCHANGED <<closing, pending, active, prod, accepted, wire>>

(* (Mistake: the pending buffer is copied and not emptied.)                *)
SwapFullCopies(w) ==
  /\ worker[w] = "swap" /\ pending # <<>>
  /\ active' = pending
  /\ worker' = [worker EXCEPT ![w] = "flight"]
  /\ UNCHANGED <<closing, pending, sending, prod, accepted, wire>>

(* SwapSendBuffer, then WSASend with the active buffer.                    *)
SwapFull(w) ==
  /\ worker[w] = "swap" /\ pending # <<>>
  /\ active' = pending /\ pending' = <<>>
  /\ worker' = [worker EXCEPT ![w] = "flight"]
  /\ UNCHANGED <<closing, sending, prod, accepted, wire>>

(* The completion of an overlapped send: it took the whole buffer...       *)
Complete(w) ==
  /\ worker[w] = "flight"
  /\ wire' = wire \o active
  /\ worker' = [worker EXCEPT ![w] = "swap"]
  /\ UNCHANGED <<closing, pending, active, sending, prod, accepted>>

(* ... or failed, at once or later.                                        *)
Fail(w) ==
  /\ worker[w] = "flight"
  /\ worker' = [worker EXCEPT ![w] = "failed"]
  /\ UNCHANGED <<closing, pending, active, sending, prod, accepted, wire>>

(* (Mistake: the pending buffer is kept.)                                  *)
AbortKeepsPending(w) ==
  /\ worker[w] = "failed"
  /\ sending' = FALSE /\ active' = <<>>
  /\ worker' = [worker EXCEPT ![w] = "none"]
  /\ UNCHANGED <<closing, pending, prod, accepted, wire>>

(* AbortSending: what was appended since the failure goes too.             *)
Abort(w) ==
  /\ worker[w] = "failed"
  /\ sending' = FALSE /\ pending' = <<>> /\ active' = <<>>
  /\ worker' = [worker EXCEPT ![w] = "none"]
  /\ UNCHANGED <<closing, prod, accepted, wire>>

(* HandleSession, at its end.                                              *)
Close ==
  /\ ~closing
  /\ closing' = TRUE
  /\ UNCHANGED <<pending, active, sending, prod, worker, accepted, wire>>

Send(w) == SwapEmpty(w) \/ SwapFull(w) \/ Complete(w) \/ Fail(w) \/ Abort(w)

Next ==
  \/ \E p \in Producer :
       \/ Check(p) \/ Enqueue(p)
       \/ \E w \in Worker : Spawn(p, w)
  \/ \E w \in Worker : Send(w)
  \/ Close

Spec == Init /\ [][Next]_vars

(* A producer that has to spawn does so, a dispatcher resumes a coroutine  *)
(* whose send completed, and every send completes: the peer reads, or the  *)
(* connection dies.  The server sets no send timeout of its own.           *)
Fairness ==
  /\ \A p \in Producer : WF_vars(\E w \in Worker : Spawn(p, w))
  /\ \A w \in Worker : WF_vars(Send(w))

FairSpec == Spec /\ Fairness

-----------------------------------------------------------------------------
(* Who is responsible for emptying the pending buffer.                     *)
Driving(x) ==
  \/ x \in Producer /\ prod[x] = "spawn"
  \/ x \in Worker /\ worker[x] # "none"

(* Every variable stays in its range; the buffers hold nothing that was    *)
(* not enqueued.                                                           *)
TypeOK ==
  /\ closing \in BOOLEAN /\ sending \in BOOLEAN
  /\ pending \in Seq(1 .. MaxMsg) /\ active \in Seq(1 .. MaxMsg)
  /\ wire \in Seq(1 .. MaxMsg)
  /\ prod \in [Producer -> {"idle", "checked", "spawn"}]
  /\ worker \in [Worker -> {"none", "swap", "flight", "failed"}]
  /\ accepted \in 0 .. MaxMsg

(* At most one coroutine, running or about to be spawned, works for a      *)
(* session, however many threads enqueue; the flag is up exactly while     *)
(* there is one.  (m_is_sending in EnqueueSend, SwapSendBuffer and         *)
(* AbortSending.)                                                          *)
OneSender ==
  /\ \A x, y \in Producer \cup Worker : Driving(x) /\ Driving(y) => x = y
  /\ sending <=> \E x \in Producer \cup Worker : Driving(x)

(* Nothing waits without a sender: no wake-up is lost between the worker   *)
(* that finds the buffer empty and the producer that fills it.             *)
NoLostWakeup == pending # <<>> => \E x \in Producer \cup Worker : Driving(x)

(* net_core.h:111: the buffer given to SendSender stays as it is until the *)
(* send has completed.                                                     *)
BufferPinned ==
  [][\A w \in Worker :
       worker[w] = "flight" /\ worker'[w] = "flight" => active' = active]_vars

(* The messages that have been accepted and neither sent nor lost.         *)
Backlog ==
  (IF \E w \in Worker : worker[w] \in {"flight", "failed"} THEN active ELSE <<>>)
  \o pending

Stream == INSTANCE ByteStream WITH backlog <- Backlog

(* The pipeline implements ByteStream: packets leave in the order in which *)
(* they were enqueued, none twice, none skipped unless a send failed.      *)
StreamSpec == Stream!Spec

(* Everything that was accepted eventually leaves or is given up: no       *)
(* message is stuck behind a flag that nobody will clear.                  *)
Waiting == {Backlog[k] : k \in DOMAIN Backlog}

Drains == \A n \in 1 .. MaxMsg : n \in Waiting ~> n \notin Waiting
=============================================================================
