--------------------------- MODULE OutgoingProofs ---------------------------
(***************************************************************************)
(* Proofs about what a client is sent: the pipeline of its session         *)
(* (SendPipeline), for every number of producers, coroutines and messages, *)
(* and its view list (ViewSync), for any slots, any bound of the list and  *)
(* any number of logins.                                                   *)
(***************************************************************************)
EXTENDS SendPipeline, ViewSync, SequenceTheorems, FiniteSetTheorems, TLAPS

Driver == Producer \cup Worker

(* The inductive invariant.  Besides the properties it says that a send in *)
(* flight has something to send: a completion then moves messages, which   *)
(* the abstract Take requires.                                             *)
FullInFlight == \A w \in Worker : worker[w] = "flight" => active # <<>>

IInv == TypeOK /\ OneSender /\ NoLostWakeup /\ FullInFlight

LEMMA InitIInv == Init => IInv
  <1> SUFFICES ASSUME Init PROVE IInv
    OBVIOUS
  <1>1. TypeOK
    <2>1. <<>> \in Seq(1 .. MaxMsg)
      BY EmptySeq
    <2>2. accepted \in 0 .. MaxMsg
      BY PipelineAssumption, SMT DEF Init
    <2>3. QED
      BY <2>1, <2>2 DEF Init, TypeOK
  <1>2. \A x \in Producer \cup Worker : ~Driving(x)
    BY PipelineAssumption DEF Init, Driving
  <1>3. QED
    BY <1>1, <1>2 DEF Init, IInv, OneSender, NoLostWakeup, FullInFlight

-----------------------------------------------------------------------------
(* One lemma per action.                                                   *)

LEMMA CheckIInv ==
  ASSUME IInv, NEW p \in Producer, Check(p)
  PROVE  IInv'
  BY PipelineAssumption
  DEF Check, IInv, TypeOK, OneSender, NoLostWakeup, FullInFlight, Driving

(* The producer that finds the flag down is the only driver, and the flag  *)
(* is up from then on.                                                     *)
LEMMA EnqueueIInv ==
  ASSUME IInv, NEW p \in Producer, Enqueue(p)
  PROVE  IInv'
  <1> USE PipelineAssumption DEF IInv
  <1>1. TypeOK'
    <2>1. accepted + 1 \in 1 .. MaxMsg
      BY DEF Enqueue, TypeOK
    <2>2. pending' \in Seq(1 .. MaxMsg)
      BY <2>1, AppendProperties DEF Enqueue, TypeOK
    <2>3. QED
      BY <2>1, <2>2 DEF Enqueue, TypeOK
  <1>2. OneSender' /\ NoLostWakeup'
    <2>1. CASE sending
      BY <2>1 DEF Enqueue, TypeOK, OneSender, NoLostWakeup, Driving
    <2>2. CASE ~sending
      <3>1. \A x \in Producer \cup Worker : ~Driving(x)
        BY <2>2 DEF OneSender
      <3>2. \A x \in Producer \cup Worker : Driving(x)' <=> x = p
        BY <2>2, <3>1 DEF Enqueue, TypeOK, Driving
      <3>3. QED
        BY <3>2 DEF Enqueue, OneSender, NoLostWakeup
    <2>3. QED
      BY <2>1, <2>2
  <1>3. FullInFlight'
    BY DEF Enqueue, FullInFlight
  <1>4. QED
    BY <1>1, <1>2, <1>3

(* The coroutine takes over from the producer.                             *)
LEMMA SpawnIInv ==
  ASSUME IInv, NEW p \in Producer, NEW w \in Worker, Spawn(p, w)
  PROVE  IInv'
  <1> USE PipelineAssumption DEF IInv
  <1>1. TypeOK'
    BY DEF Spawn, TypeOK
  <1>2. Driving(p) /\ \A x \in Producer \cup Worker : Driving(x) => x = p
    BY DEF Spawn, OneSender, Driving
  <1>3. \A x \in Producer \cup Worker : Driving(x)' <=> x = w
    BY <1>2 DEF Spawn, TypeOK, Driving
  <1>4. sending'
    BY <1>2 DEF Spawn, OneSender
  <1>5. OneSender' /\ NoLostWakeup'
    BY <1>3, <1>4 DEF OneSender, NoLostWakeup
  <1>6. FullInFlight'
    BY DEF Spawn, TypeOK, FullInFlight
  <1>7. QED
    BY <1>1, <1>5, <1>6

(* A coroutine at work is the only driver.                                 *)
LEMMA OnlyWorker ==
  ASSUME IInv, NEW w \in Worker, worker[w] # "none"
  PROVE  /\ sending
         /\ \A v \in Worker : worker[v] # "none" => v = w
         /\ \A x \in Producer \cup Worker : Driving(x) <=> x = w
  BY PipelineAssumption DEF IInv, OneSender, Driving

(* A coroutine that goes on, and one that ends.                            *)
LEMMA GoesOn ==
  ASSUME IInv, NEW w \in Worker, worker[w] # "none",
         NEW s \in {"swap", "flight", "failed"},
         worker' = [worker EXCEPT ![w] = s], UNCHANGED <<prod, sending>>
  PROVE  OneSender' /\ NoLostWakeup'
  <1>1. \A x \in Producer \cup Worker : Driving(x)' <=> x = w
    BY OnlyWorker, PipelineAssumption DEF IInv, TypeOK, Driving
  <1>2. QED
    BY <1>1, OnlyWorker DEF OneSender, NoLostWakeup

LEMMA Ends ==
  ASSUME IInv, NEW w \in Worker, worker[w] # "none",
         worker' = [worker EXCEPT ![w] = "none"], UNCHANGED prod,
         sending' = FALSE, pending' = <<>>
  PROVE  OneSender' /\ NoLostWakeup'
  <1>1. \A x \in Producer \cup Worker : ~Driving(x)'
    BY OnlyWorker, PipelineAssumption DEF IInv, TypeOK, Driving
  <1>2. QED
    BY <1>1 DEF OneSender, NoLostWakeup

LEMMA SendIInv ==
  ASSUME IInv, NEW w \in Worker, Send(w)
  PROVE  IInv'
  <1> USE DEF IInv
  <1>1. CASE SwapEmpty(w)
    <2>1. OneSender' /\ NoLostWakeup'
      BY <1>1, Ends DEF SwapEmpty
    <2>2. QED
      BY <1>1, <2>1 DEF SwapEmpty, TypeOK, FullInFlight
  <1>2. CASE SwapFull(w)
    <2>1. OneSender' /\ NoLostWakeup'
      BY <1>2, GoesOn DEF SwapFull
    <2>2. TypeOK'
      BY <1>2, EmptySeq DEF SwapFull, TypeOK
    <2>3. FullInFlight'
      BY <1>2 DEF SwapFull, FullInFlight
    <2>4. QED
      BY <2>1, <2>2, <2>3
  <1>3. CASE Complete(w)
    <2>1. OneSender' /\ NoLostWakeup'
      BY <1>3, GoesOn DEF Complete
    <2>2. wire' \in Seq(1 .. MaxMsg)
      BY <1>3, ConcatProperties DEF Complete, TypeOK
    <2>3. QED
      BY <1>3, <2>1, <2>2 DEF Complete, TypeOK, FullInFlight
  <1>4. CASE Fail(w)
    <2>1. OneSender' /\ NoLostWakeup'
      BY <1>4, GoesOn DEF Fail
    <2>2. QED
      BY <1>4, <2>1 DEF Fail, TypeOK, FullInFlight
  <1>5. CASE Abort(w)
    <2>1. OneSender' /\ NoLostWakeup'
      BY <1>5, Ends DEF Abort
    <2>2. TypeOK'
      BY <1>5, EmptySeq DEF Abort, TypeOK
    <2>3. FullInFlight'
      <3>1. \A v \in Worker : worker'[v] = "none"
        BY <1>5, OnlyWorker DEF Abort, TypeOK
      <3>2. QED
        BY <3>1 DEF FullInFlight
    <2>4. QED
      BY <2>1, <2>2, <2>3
  <1>6. QED
    BY <1>1, <1>2, <1>3, <1>4, <1>5 DEF Send

LEMMA NextIInv == IInv /\ [Next]_vars => IInv'
  <1> SUFFICES ASSUME IInv, [Next]_vars
               PROVE  IInv'
    OBVIOUS
  <1>1. CASE Close
    BY <1>1
    DEF Close, IInv, TypeOK, OneSender, NoLostWakeup, FullInFlight, Driving
  <1>2. CASE UNCHANGED vars
    BY <1>2
    DEF vars, IInv, TypeOK, OneSender, NoLostWakeup, FullInFlight, Driving
  <1>3. QED
    BY <1>1, <1>2, CheckIInv, EnqueueIInv, SpawnIInv, SendIInv DEF Next

LEMMA Invariant == Spec => []IInv
  <1>1. QED
    BY InitIInv, NextIInv, PTL DEF Spec

-----------------------------------------------------------------------------
(* The variables stay in their ranges.                                     *)
THEOREM PipelineTypeOK == Spec => []TypeOK
  <1>1. IInv => TypeOK
    BY DEF IInv
  <1>2. QED
    BY <1>1, Invariant, PTL

(* However many threads enqueue, a session never has two senders, and the  *)
(* flag says whether it has one.                                           *)
THEOREM SingleSender == Spec => []OneSender
  <1>1. IInv => OneSender
    BY DEF IInv
  <1>2. QED
    BY <1>1, Invariant, PTL

(* What waits has a sender.                                                *)
THEOREM WakeupKept == Spec => []NoLostWakeup
  <1>1. IInv => NoLostWakeup
    BY DEF IInv
  <1>2. QED
    BY <1>1, Invariant, PTL

(* Nothing touches the active buffer while the kernel reads it: every step *)
(* that writes it belongs to the only coroutine there is, which is not in  *)
(* flight, or no longer.                                                   *)
THEOREM Pinned == Spec => BufferPinned
  <1>1. ASSUME IInv, [Next]_vars, NEW w \in Worker,
               worker[w] = "flight", worker'[w] = "flight"
        PROVE  active' = active
    <2>1. ASSUME NEW v \in Worker, Send(v)
          PROVE  active' = active
      <3>1. worker[v] # "none"
        BY <2>1 DEF Send, SwapEmpty, SwapFull, Complete, Fail, Abort
      <3>2. v = w
        BY <1>1, <3>1, OnlyWorker
      <3>3. QED
        BY <1>1, <2>1, <3>2
        DEF Send, SwapEmpty, SwapFull, Complete, Fail, Abort
    <2>2. ASSUME NEW p \in Producer,
                 \/ Check(p) \/ Enqueue(p)
                 \/ \E v \in Worker : Spawn(p, v)
          PROVE  active' = active
      BY <2>2 DEF Check, Enqueue, Spawn
    <2>3. CASE Close \/ UNCHANGED vars
      BY <2>3 DEF Close, vars
    <2>4. QED
      BY <1>1, <2>1, <2>2, <2>3 DEF Next
  <1>2. IInv /\ [Next]_vars =>
          [\A w \in Worker :
             worker[w] = "flight" /\ worker'[w] = "flight" => active' = active]_vars
    BY <1>1
  <1>3. QED
    BY <1>2, Invariant, PTL DEF Spec, BufferPinned

-----------------------------------------------------------------------------
(* The refinement.                                                         *)

Sent == \E w \in Worker : worker[w] \in {"flight", "failed"}

(* Taking a whole prefix of a concatenation.                               *)
LEMMA TakePrefix ==
  ASSUME NEW S, NEW s \in Seq(S), NEW t \in Seq(S), s # <<>>
  PROVE  /\ Len(s) \in 1 .. Len(s \o t)
         /\ SubSeq(s \o t, 1, Len(s)) = s
         /\ SubSeq(s \o t, Len(s) + 1, Len(s \o t)) = t
  <1>1. Len(s) \in Nat /\ Len(s) > 0 /\ Len(t) \in Nat /\ Len(s \o t) = Len(s) + Len(t)
    BY EmptySeq, LenProperties, ConcatProperties
  <1>2. SubSeq(s \o t, 1, Len(s)) = s
    <2>1. SubSeq(s \o t, 1, Len(s)) = SubSeq(s, 1, Len(s))
      BY <1>1, SubSeqOfConcat1
    <2>2. QED
      BY <2>1, SubSeqFull
  <1>3. SubSeq(s \o t, Len(s) + 1, Len(s \o t)) = t
    <2>1. CASE t = <<>>
      <3>1. Len(s \o t) = Len(s)
        BY <1>1, <2>1
      <3>2. QED
        BY <1>1, <2>1, <3>1, SubSeqEmpty
    <2>2. CASE t # <<>>
      <3>1. Len(t) > 0
        BY <1>1, <2>2, EmptySeq
      <3>2. SubSeq(s \o t, Len(s) + 1, Len(s) + Len(t)) = SubSeq(t, 1, Len(t))
        <4>1. /\ Len(s) + 1 \in Len(s) + 1 .. Len(s) + Len(t)
              /\ Len(s) + Len(t) \in Len(s) + 1 .. Len(s) + Len(t)
              /\ Len(s) + 1 - Len(s) = 1 /\ Len(s) + Len(t) - Len(s) = Len(t)
          BY <1>1, <3>1
        <4>2. QED
          BY <4>1, SubSeqOfConcat2
      <3>3. QED
        BY <1>1, <3>2, SubSeqFull
    <2>3. QED
      BY <2>1, <2>2
  <1>4. QED
    BY <1>1, <1>2, <1>3

(* What the backlog is, with and without a coroutine that holds messages.  *)
LEMMA BacklogValue ==
  ASSUME IInv
  PROVE  /\ Sent => Backlog = active \o pending
         /\ ~Sent => Backlog = pending
         /\ Backlog \in Seq(1 .. MaxMsg)
  <1>1. pending \in Seq(1 .. MaxMsg) /\ active \in Seq(1 .. MaxMsg)
    BY DEF IInv, TypeOK
  <1>2. <<>> \o pending = pending
    BY <1>1, ConcatEmptySeq
  <1>3. active \o pending \in Seq(1 .. MaxMsg)
    BY <1>1, ConcatProperties
  <1>4. QED
    BY <1>1, <1>2, <1>3 DEF Backlog, Sent

(* The backlog after a step, in terms of what the step left.               *)
LEMMA BacklogNext ==
  ASSUME IInv'
  PROVE  /\ Sent' => Backlog' = active' \o pending'
         /\ ~Sent' => Backlog' = pending'
  <1>1. pending' \in Seq(1 .. MaxMsg)
    BY DEF IInv, TypeOK
  <1>2. <<>> \o pending' = pending'
    BY <1>1, ConcatEmptySeq
  <1>3. QED
    BY <1>2 DEF Backlog, Sent

(* A producer appends to the backlog, or leaves it alone.                  *)
LEMMA ProducerMaps ==
  ASSUME IInv, IInv', NEW p \in Producer,
         Check(p) \/ Enqueue(p) \/ \E w \in Worker : Spawn(p, w)
  PROVE  Stream!Put \/ UNCHANGED Stream!stream
  <1>1. Sent' <=> Sent
    BY DEF IInv, TypeOK, Sent, Check, Enqueue, Spawn
  <1>2. CASE Check(p) \/ \E w \in Worker : Spawn(p, w)
    <2>1. Backlog' = Backlog
      BY <1>1, <1>2 DEF Backlog, Sent, Check, Spawn
    <2>2. QED
      BY <1>2, <2>1 DEF Check, Spawn, Stream!stream
  <1>3. CASE Enqueue(p)
    <2>1. /\ pending \in Seq(1 .. MaxMsg) /\ active \in Seq(1 .. MaxMsg)
          /\ accepted + 1 \in 1 .. MaxMsg
      BY <1>3 DEF IInv, TypeOK, Enqueue
    <2>2. active \o Append(pending, accepted + 1)
            = Append(active \o pending, accepted + 1)
      <3>1. <<accepted + 1>> \in Seq(1 .. MaxMsg)
        BY <2>1
      <3>2. active \o pending \in Seq(1 .. MaxMsg)
        BY <2>1, ConcatProperties
      <3>3. Append(pending, accepted + 1) = pending \o <<accepted + 1>>
        BY <2>1, AppendIsConcat
      <3>4. Append(active \o pending, accepted + 1)
              = (active \o pending) \o <<accepted + 1>>
        BY <2>1, <3>2, AppendIsConcat
      <3>5. QED
        BY <2>1, <3>1, <3>3, <3>4, ConcatAssociative
    <2>3. Backlog' = Append(Backlog, accepted + 1)
      BY <1>1, <1>3, <2>2, BacklogValue, BacklogNext DEF Enqueue
    <2>4. QED
      BY <1>3, <2>3 DEF Enqueue, Stream!Put
  <1>4. QED
    BY <1>2, <1>3

(* A completion takes the active buffer off the front, an abort loses all, *)
(* and the other steps of the coroutine move nothing.                      *)
LEMMA WorkerMaps ==
  ASSUME IInv, IInv', NEW w \in Worker, Send(w)
  PROVE  Stream!Take \/ Stream!Lose \/ UNCHANGED Stream!stream
  <1>1. /\ pending \in Seq(1 .. MaxMsg) /\ active \in Seq(1 .. MaxMsg)
        /\ worker \in [Worker -> {"none", "swap", "flight", "failed"}]
    BY DEF IInv, TypeOK
  <1>2. \A v \in Worker : worker[v] # "none" => v = w
    BY OnlyWorker DEF Send, SwapEmpty, SwapFull, Complete, Fail, Abort
  <1>3. CASE SwapEmpty(w)
    <2>1. ~Sent /\ ~Sent'
      BY <1>1, <1>2, <1>3 DEF SwapEmpty, Sent
    <2>2. QED
      BY <1>3, <2>1, BacklogValue, BacklogNext DEF SwapEmpty, Stream!stream
  <1>4. CASE SwapFull(w)
    <2>1. ~Sent /\ Sent'
      BY <1>1, <1>2, <1>4 DEF SwapFull, Sent
    <2>2. Backlog' = active' \o pending'
      BY <2>1, BacklogNext
    <2>3. active' \o pending' = pending
      BY <1>1, <1>4, ConcatEmptySeq DEF SwapFull
    <2>4. QED
      BY <1>4, <2>1, <2>2, <2>3, BacklogValue DEF SwapFull, Stream!stream
  <1>5. CASE Complete(w)
    <2>1. Sent /\ ~Sent'
      BY <1>1, <1>2, <1>5 DEF Complete, Sent
    <2>2. Backlog = active \o pending /\ Backlog' = pending
      BY <1>5, <2>1, BacklogValue, BacklogNext DEF Complete
    <2>3. active # <<>>
      BY <1>5 DEF IInv, FullInFlight, Complete
    <2>4. /\ Len(active) \in 1 .. Len(Backlog)
          /\ SubSeq(Backlog, 1, Len(active)) = active
          /\ SubSeq(Backlog, Len(active) + 1, Len(Backlog)) = pending
      BY <1>1, <2>2, <2>3, TakePrefix
    <2>5. QED
      BY <1>5, <2>2, <2>4 DEF Complete, Stream!Take
  <1>6. CASE Fail(w)
    <2>1. Sent /\ Sent'
      BY <1>1, <1>6 DEF Fail, Sent
    <2>2. QED
      BY <1>6, <2>1, BacklogValue, BacklogNext DEF Fail, Stream!stream
  <1>7. CASE Abort(w)
    <2>1. ~Sent'
      BY <1>1, <1>2, <1>7 DEF Abort, Sent
    <2>2. QED
      BY <1>7, <2>1, BacklogNext DEF Abort, Stream!Lose
  <1>8. QED
    BY <1>3, <1>4, <1>5, <1>6, <1>7 DEF Send

(* The pipeline implements ByteStream: the socket takes the messages in    *)
(* the order in which they were enqueued, none twice, and none is skipped  *)
(* unless everything that waits is lost with it.                           *)
THEOREM Refinement == Spec => StreamSpec
  <1>1. Init => Stream!Init
    <2>1. ASSUME Init PROVE Backlog = <<>>
      <3>1. <<>> \o <<>> = <<>>
        BY ConcatEmptySeq, EmptySeq
      <3>2. QED
        BY <2>1, <3>1 DEF Init, Backlog
    <2>2. QED
      BY <2>1 DEF Init, Stream!Init
  <1>2. ASSUME IInv, IInv', [Next]_vars
        PROVE  [Stream!Next]_(Stream!stream)
    <2>1. CASE Close \/ UNCHANGED vars
      BY <2>1 DEF Close, vars, Backlog, Stream!stream
    <2>2. QED
      BY <1>2, <2>1, ProducerMaps, WorkerMaps DEF Next, Stream!Next
  <1>3. QED
    BY <1>1, <1>2, Invariant, PTL DEF Spec, StreamSpec, Stream!Spec

-----------------------------------------------------------------------------
(* The view list.  Between Diff, which changes the list, and Flush, which  *)
(* tells the client of it, the two differ by the batch.  As long as no     *)
(* other Diff falls between them, there is one batch at a time, and what   *)
(* the client shows and the list does not hold is what this batch removes. *)

(* Who computes a list holds the lock, and a list has room for Cap.        *)
LockInv ==
  /\ pc \in [Updater -> {"idle", "resolve", "diff", "flush", "done"}]
  /\ \A u \in Updater : pc[u] \in {"resolve", "diff"} => lock = u
  /\ current \in [Updater -> SUBSET Slot] /\ view \in SUBSET Slot
  /\ Cardinality(view) <= Cap
  /\ \A u \in Updater : pc[u] = "diff" => Cardinality(current[u]) <= Cap

(* The batches; those of updaters that do not send are empty.              *)
Batch == [add : SUBSET (Slot \X Nat), remove : SUBSET Slot]

BatchInv ==
  /\ gen \in [Slot -> Nat] /\ shown \in [Slot -> Nat] /\ raced \in BOOLEAN
  /\ batch \in [Updater -> Batch]
  /\ \A u \in Updater : pc[u] # "flush" => batch[u] = NoBatch
  /\ ~raced => \A u, v \in Updater : pc[u] = "flush" /\ pc[v] = "flush" => u = v

(* The client follows the list, up to the batch that is on its way.        *)
Follows(b) ==
  /\ \A a \in b.add : a[1] \in view /\ shown[a[1]] = 0
  /\ b.remove \cap view = {}
  /\ \A i \in Slot : shown[i] # 0 => i \in view \cup b.remove

FollowInv ==
  ~raced => /\ Quiet => \A i \in Slot : shown[i] # 0 => i \in view
            /\ \A u \in Updater : pc[u] = "flush" => Follows(batch[u])

ViewInv == LockInv /\ BatchInv /\ FollowInv

-----------------------------------------------------------------------------
LEMMA InitView == ViewInit => ViewInv
<1> SUFFICES ASSUME ViewInit PROVE ViewInv
  OBVIOUS
<1>1. NoBatch \in Batch
  BY DEF NoBatch, Batch
<1>2. Cardinality({}) <= Cap
  BY FS_EmptySet, ViewAssumption DEF ViewAssumption
<1>3. LockInv
  BY <1>2 DEF ViewInit, LockInv
<1>4. BatchInv
  BY <1>1 DEF ViewInit, BatchInv
<1>5. FollowInv
  BY DEF ViewInit, FollowInv
<1>6. QED
  BY <1>3, <1>4, <1>5 DEF ViewInv

(* What is kept of the candidates fits into the list.                      *)
LEMMA NearestFits ==
  ASSUME NEW S, S \subseteq Slot, NEW T \in Nearest(S)
  PROVE  T \subseteq S /\ Cardinality(T) <= Cap
<1>1. Cardinality(S) \in Nat
  BY ViewAssumption, FS_Subset, FS_CardinalityType DEF ViewAssumption
<1>2. QED
  BY <1>1, ViewAssumption DEF Nearest, ViewAssumption

(* The others do not touch the updates, nor does the observer's moving.    *)
LEMMA OthersStep ==
  ASSUME ViewInv, NEW i \in Slot, Login(i) \/ Advance(i) \/ Move(i)
  PROVE  ViewInv'
<1>1. UNCHANGED <<update, view, shown, raced>> /\ gen' \in [Slot -> Nat]
  BY DEF Login, Advance, Move, ViewInv, BatchInv
<1>2. QED
  BY <1>1 DEF update, ViewInv, LockInv, BatchInv, FollowInv, Follows, Quiet

LEMMA QueryStep ==
  ASSUME ViewInv, NEW u \in Updater, Query(u)
  PROVE  ViewInv'
<1>1. /\ pc[u] = "idle" /\ lock = Nobody /\ lock' = u /\ pc' = [pc EXCEPT ![u] = "resolve"]
      /\ UNCHANGED <<gen, current, batch, view, shown, raced>>
  BY DEF Query, others
<1>2. pc' \in [Updater -> {"idle", "resolve", "diff", "flush", "done"}]
  BY <1>1 DEF ViewInv, LockInv
<1>3. \A v \in Updater : pc'[v] = IF v = u THEN "resolve" ELSE pc[v]
  BY <1>1 DEF ViewInv, LockInv
<1>4. LockInv'
  BY <1>1, <1>2, <1>3 DEF ViewInv, LockInv, Nobody, Updater
<1>5. BatchInv'
  BY <1>1, <1>3 DEF ViewInv, BatchInv
<1>6. FollowInv'
  BY <1>1, <1>3 DEF ViewInv, FollowInv, Follows, Quiet
<1>7. QED
  BY <1>4, <1>5, <1>6 DEF ViewInv

LEMMA ResolveStep ==
  ASSUME ViewInv, NEW u \in Updater, Resolve(u)
  PROVE  ViewInv'
<1>1. PICK T \in Nearest(ids[u] \cap Resolvable \cap inRange) :
        current' = [current EXCEPT ![u] = T]
  BY DEF Resolve
<1>2. /\ pc[u] = "resolve" /\ pc' = [pc EXCEPT ![u] = "diff"]
      /\ UNCHANGED <<gen, lock, batch, view, shown, raced>>
  BY DEF Resolve, others
<1>3. T \subseteq Slot /\ Cardinality(T) <= Cap
  <2>1. ids[u] \cap Resolvable \cap inRange \subseteq Slot
    BY DEF Resolvable
  <2>2. QED
    BY <2>1, NearestFits
<1>4. /\ pc' \in [Updater -> {"idle", "resolve", "diff", "flush", "done"}]
      /\ current' \in [Updater -> SUBSET Slot]
  BY <1>1, <1>2, <1>3 DEF ViewInv, LockInv
<1>5. \A v \in Updater : /\ pc'[v] = IF v = u THEN "diff" ELSE pc[v]
                         /\ current'[v] = IF v = u THEN T ELSE current[v]
  BY <1>1, <1>2 DEF ViewInv, LockInv
<1>6. LockInv'
  BY <1>2, <1>3, <1>4, <1>5 DEF ViewInv, LockInv
<1>7. BatchInv'
  BY <1>2, <1>5 DEF ViewInv, BatchInv
<1>8. FollowInv'
  BY <1>2, <1>5 DEF ViewInv, FollowInv, Follows, Quiet
<1>9. QED
  BY <1>6, <1>7, <1>8 DEF ViewInv

(* Diff: no other batch is on its way, or it has been overtaken.           *)
LEMMA DiffStep ==
  ASSUME ViewInv, NEW u \in Updater, Diff(u)
  PROVE  ViewInv'
<1>0. PICK b : b = [add |-> Adds(u), remove |-> Removes(u)]
  OBVIOUS
<1>1. /\ pc[u] = "diff" /\ pc' = [pc EXCEPT ![u] = "flush"] /\ lock' = Nobody
      /\ batch' = [batch EXCEPT ![u] = b] /\ view' = current[u]
      /\ raced' = (raced \/ \E v \in Updater \ {u} : pc[v] = "flush")
      /\ UNCHANGED <<gen, current, shown>>
  BY <1>0 DEF Diff, NextView, others
<1>2. current[u] \subseteq Slot /\ Cardinality(current[u]) <= Cap
  BY <1>1 DEF ViewInv, LockInv
<1>3. b \in Batch /\ (\A a \in b.add : a[1] \in current[u] \ view) /\ b.remove = view \ current[u]
  <2>1. Adds(u) \subseteq Slot \X Nat
    BY <1>2 DEF Adds, ViewInv, BatchInv
  <2>2. \A a \in Adds(u) : a[1] \in current[u] \ view
    BY DEF Adds
  <2>3. QED
    BY <1>0, <2>1, <2>2 DEF Removes, Batch, ViewInv, LockInv
<1>4. /\ pc' \in [Updater -> {"idle", "resolve", "diff", "flush", "done"}]
      /\ batch' \in [Updater -> Batch] /\ raced' \in BOOLEAN
  BY <1>1, <1>3 DEF ViewInv, LockInv, BatchInv
<1>5. \A v \in Updater : /\ pc'[v] = IF v = u THEN "flush" ELSE pc[v]
                         /\ batch'[v] = IF v = u THEN b ELSE batch[v]
  BY <1>1 DEF ViewInv, LockInv, BatchInv
<1>6. LockInv'
  BY <1>1, <1>2, <1>4, <1>5 DEF ViewInv, LockInv
<1>7. ~raced' => ~raced /\ \A v \in Updater : pc[v] # "flush"
  BY <1>1 DEF ViewInv, BatchInv
<1>8. BatchInv'
  BY <1>1, <1>4, <1>5, <1>7 DEF ViewInv, BatchInv
<1>9. ~raced' => Follows(b)'
  <2> SUFFICES ASSUME ~raced' PROVE Follows(b)'
    OBVIOUS
  <2>1. \A i \in Slot : shown[i] # 0 => i \in view
    BY <1>7 DEF ViewInv, FollowInv, Quiet
  <2>2. QED
    BY <1>1, <1>2, <1>3, <2>1 DEF Follows
<1>10. FollowInv'
  BY <1>5, <1>7, <1>9 DEF FollowInv, Quiet
<1>11. QED
  BY <1>6, <1>8, <1>10 DEF ViewInv

(* Flush: the client does what the batch says, and follows the list again. *)
LEMMA FlushStep ==
  ASSUME ViewInv, NEW u \in Updater, Flush(u)
  PROVE  ViewInv'
<1>1. PICK p \in {"idle", "done"} : pc' = [pc EXCEPT ![u] = p]
  BY DEF Flush
<1>2. /\ pc[u] = "flush" /\ shown' = [i \in Slot |-> Applied(batch[u], i)]
      /\ batch' = [batch EXCEPT ![u] = NoBatch] /\ current' = [current EXCEPT ![u] = {}]
      /\ UNCHANGED <<gen, lock, view, raced>>
  BY DEF Flush, others
<1>3. NoBatch \in Batch
  BY DEF NoBatch, Batch
<1>4. /\ pc' \in [Updater -> {"idle", "resolve", "diff", "flush", "done"}]
      /\ batch' \in [Updater -> Batch] /\ current' \in [Updater -> SUBSET Slot]
  BY <1>1, <1>2, <1>3 DEF ViewInv, LockInv, BatchInv
<1>5. \A v \in Updater : /\ pc'[v] = IF v = u THEN p ELSE pc[v]
                         /\ batch'[v] = IF v = u THEN NoBatch ELSE batch[v]
                         /\ current'[v] = IF v = u THEN {} ELSE current[v]
  BY <1>1, <1>2 DEF ViewInv, LockInv, BatchInv
<1>6. LockInv'
  BY <1>1, <1>2, <1>4, <1>5 DEF ViewInv, LockInv
<1>7. \A i \in Slot : Applied(batch[u], i) \in Nat
  <2> SUFFICES ASSUME NEW i \in Slot PROVE Applied(batch[u], i) \in Nat
    OBVIOUS
  <2>1. CASE \E g \in 1 .. MaxGen : <<i, g>> \in batch[u].add
    BY <2>1, ViewAssumption DEF ViewAssumption, Applied
  <2>2. CASE ~ \E g \in 1 .. MaxGen : <<i, g>> \in batch[u].add
    BY <2>2 DEF Applied, ViewInv, BatchInv
  <2>3. QED
    BY <2>1, <2>2
<1>8. BatchInv'
  BY <1>1, <1>2, <1>4, <1>5, <1>7 DEF ViewInv, BatchInv
<1>9. ASSUME ~raced'
      PROVE  /\ \A v \in Updater : pc'[v] # "flush"
             /\ \A i \in Slot : shown'[i] # 0 => i \in view'
  <2>1. ~raced /\ Follows(batch[u])
    BY <1>2, <1>9 DEF ViewInv, FollowInv
  <2>2. \A v \in Updater : pc'[v] # "flush"
    BY <1>1, <1>2, <1>5, <2>1 DEF ViewInv, BatchInv
  <2>3. ASSUME NEW i \in Slot, shown'[i] # 0 PROVE i \in view
    <3>1. Applied(batch[u], i) # 0
      BY <1>2, <2>3
    <3>2. CASE \E g \in 1 .. MaxGen : <<i, g>> \in batch[u].add
      BY <2>1, <3>2 DEF Follows
    <3>3. CASE ~ \E g \in 1 .. MaxGen : <<i, g>> \in batch[u].add
      <4>1. i \notin batch[u].remove /\ shown[i] # 0
        BY <3>1, <3>3 DEF Applied
      <4>2. QED
        BY <2>1, <4>1 DEF Follows
    <3>4. QED
      BY <3>2, <3>3
  <2>4. QED
    BY <1>2, <2>2, <2>3
<1>10. FollowInv'
  BY <1>9 DEF FollowInv
<1>11. QED
  BY <1>6, <1>8, <1>10 DEF ViewInv

LEMMA ViewInvariant == ViewSpec => []ViewInv
<1>1. ViewInit => ViewInv
  BY InitView
<1>2. ViewInv /\ [ViewNext]_viewVars => ViewInv'
  <2> SUFFICES ASSUME ViewInv, [ViewNext]_viewVars PROVE ViewInv'
    OBVIOUS
  <2>1. CASE UNCHANGED viewVars
    BY <2>1 DEF viewVars, others, update, ViewInv, LockInv, BatchInv, FollowInv, Follows, Quiet
  <2>2. CASE ViewNext
    BY <2>2, OthersStep, QueryStep, ResolveStep, DiffStep, FlushStep DEF ViewNext, Update
  <2>3. QED
    BY <2>1, <2>2
<1>3. QED
  BY <1>1, <1>2, PTL DEF ViewSpec

(* The client shows nothing that is not in the view list, nor the list     *)
(* more than MAX_VIEW_OBJECTS, however the two updaters and the sessions   *)
(* of the others interleave, unless a batch has overtaken another.         *)
THEOREM ShownInView == ViewSpec => []ShownIsInView
<1>1. ViewInv => ShownIsInView
  BY DEF ViewInv, LockInv, FollowInv, ShownIsInView
<1>2. QED
  BY <1>1, ViewInvariant, PTL

(* No ADD packet is assembled for what the client shows already: the       *)
(* difference is taken under the lock.                                     *)
THEOREM AddsOnce == ViewSpec => []AddedOnce
<1>1. ViewInv => AddedOnce
  <2> SUFFICES ASSUME ViewInv, ~raced, NEW u \in Updater, NEW a \in batch[u].add
               PROVE  shown[a[1]] = 0
    BY DEF AddedOnce
  <2>1. pc[u] = "flush"
    BY DEF ViewInv, BatchInv, NoBatch
  <2>2. QED
    BY <2>1 DEF ViewInv, FollowInv, Follows
<1>2. QED
  BY <1>1, ViewInvariant, PTL
=============================================================================
