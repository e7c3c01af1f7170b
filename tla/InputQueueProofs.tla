-------------------------- MODULE InputQueueProofs --------------------------
(***************************************************************************)
(* Proofs about InputQueue and Snapshots, for every queue length, every    *)
(* number of inputs per tick and every sequence of numbers a client may    *)
(* send.                                                                   *)
(***************************************************************************)
EXTENDS Snapshots, FiniteSetTheorems, TLAPS

(* The inputs on the way are sorted: what is simulated, what is popped,    *)
(* what waits, what was queued last.                                       *)
Sorted ==
  /\ \A k \in state : k <= queued
  /\ \A k \in state, i \in 1 .. Len(inputs) : k < inputs[i]
  /\ \A k \in state, i \in 1 .. Len(queue) : k < queue[i]
  /\ \A i, j \in 1 .. Len(inputs) : i < j => inputs[i] < inputs[j]
  /\ \A i \in 1 .. Len(inputs), j \in 1 .. Len(queue) : inputs[i] < queue[j]
  /\ \A i, j \in 1 .. Len(queue) : i < j => queue[i] < queue[j]
  /\ \A i \in 1 .. Len(inputs) : inputs[i] <= queued
  /\ \A i \in 1 .. Len(queue) : queue[i] <= queued

(* n acknowledges exactly the inputs of S.                                 *)
Matches(n, S) ==
  /\ S = {} => n = 0
  /\ S # {} => n \in S /\ \A k \in S : k <= n

(* What is simulated is acknowledged, and stored when the inputs are done. *)
Acked ==
  /\ Matches(processed, state)
  /\ Matches(shown.ack, shown.pos)
  /\ phase # "simulate" => pos = state /\ inputs = <<>>
  /\ pos \subseteq state

IInv == TypeOK /\ Sorted /\ Acked

-----------------------------------------------------------------------------
(* What Append, SubSeq, Head and Tail return, for the provers.             *)
LEMMA Appended ==
  ASSUME NEW S, NEW q \in Seq(S), NEW n \in S
  PROVE  /\ Len(q) \in Nat
         /\ Append(q, n) \in Seq(S) /\ Len(Append(q, n)) = Len(q) + 1
         /\ \A i \in 1 .. Len(q) : Append(q, n)[i] = q[i]
         /\ Append(q, n)[Len(q) + 1] = n
OBVIOUS

LEMMA Beginning ==
  ASSUME NEW S, NEW q \in Seq(S), NEW c \in 0 .. Len(q)
  PROVE  /\ SubSeq(q, 1, c) \in Seq(S) /\ Len(SubSeq(q, 1, c)) = c
         /\ \A i \in 1 .. c : SubSeq(q, 1, c)[i] = q[i]
OBVIOUS

LEMMA Remainder ==
  ASSUME NEW S, NEW q \in Seq(S), NEW c \in 0 .. Len(q)
  PROVE  /\ SubSeq(q, c + 1, Len(q)) \in Seq(S) /\ Len(SubSeq(q, c + 1, Len(q))) = Len(q) - c
         /\ \A i \in 1 .. Len(q) - c : SubSeq(q, c + 1, Len(q))[i] = q[c + i]
OBVIOUS

LEMMA HeadAndTail ==
  ASSUME NEW S, NEW q \in Seq(S), q # <<>>
  PROVE  /\ Len(q) \in Nat \ {0} /\ Head(q) = q[1] /\ Head(q) \in S
         /\ Tail(q) \in Seq(S) /\ Len(Tail(q)) = Len(q) - 1
         /\ \A i \in 1 .. Len(q) - 1 : Tail(q)[i] = q[i + 1]
OBVIOUS

(* The inputs on the way are numbers, and what is on the way is bounded.    *)
LEMMA Numbers ==
  ASSUME IInv
  PROVE  /\ queue \in Seq(Input) /\ inputs \in Seq(Input)
         /\ Len(queue) \in Nat /\ Len(inputs) \in Nat /\ queued \in Nat
         /\ \A i \in 1 .. Len(queue) : queue[i] \in Nat /\ queue[i] <= queued
         /\ \A i \in 1 .. Len(inputs) : inputs[i] \in Nat /\ inputs[i] <= queued
         /\ \A k \in state : k \in Nat /\ k <= queued
<1>1. /\ queue \in Seq(Input) /\ inputs \in Seq(Input) /\ queued \in Nat
      /\ state \subseteq Input
  BY QueueAssumption DEF QueueAssumption, IInv, TypeOK
<1>2. Input \subseteq Nat
  BY DEF Input
<1>3. /\ Len(queue) \in Nat /\ Len(inputs) \in Nat
      /\ \A i \in 1 .. Len(queue) : queue[i] \in Input
      /\ \A i \in 1 .. Len(inputs) : inputs[i] \in Input
  BY <1>1
<1>4. /\ \A i \in 1 .. Len(queue) : queue[i] <= queued
      /\ \A i \in 1 .. Len(inputs) : inputs[i] <= queued
      /\ \A k \in state : k <= queued
  BY DEF IInv, Sorted
<1>5. QED
  BY <1>1, <1>2, <1>3, <1>4

LEMMA InitInv == Init => IInv
BY QueueAssumption
   DEF QueueAssumption, Init, IInv, TypeOK, Sorted, Acked, Matches, Input

(* Pushing: the new input goes to the end, behind everything that is older.*)
LEMMA PushStep ==
  ASSUME IInv, NEW n \in 0 .. MaxSeq, PushInput(n)
  PROVE  IInv'
<1> DEFINE q == Append(queue, n)
<1>0. /\ queue \in Seq(Input) /\ Len(queue) <= MaxQueue /\ n \in Input /\ n > queued
      /\ queued \in Nat /\ MaxQueue \in Nat \ {0} /\ state \subseteq Input
      /\ inputs \in Seq(Input)
  BY QueueAssumption DEF QueueAssumption, IInv, TypeOK, Input, PushInput
<1>1. /\ q \in Seq(Input) /\ Len(q) = Len(queue) + 1
      /\ \A i \in 1 .. Len(queue) : q[i] = queue[i]
      /\ q[Len(queue) + 1] = n /\ Len(queue) \in Nat
  BY <1>0, Appended
<1> HIDE DEF q
<1>2. \A i, j \in 1 .. Len(q) : i < j => q[i] < q[j]
  <2>1. \A i, j \in 1 .. Len(queue) : i < j => queue[i] < queue[j]
    BY DEF IInv, Sorted
  <2>2. \A i \in 1 .. Len(queue) : queue[i] < n
    <3>1. n \in Nat
      BY <1>0 DEF Input
    <3>2. QED
      BY <1>0, <3>1, Numbers
  <2>3. ASSUME NEW i \in 1 .. Len(q), NEW j \in 1 .. Len(q), i < j
        PROVE  q[i] < q[j]
    <3>1. i \in 1 .. Len(queue) /\ (j \in 1 .. Len(queue) \/ j = Len(queue) + 1)
      BY <1>1, <2>3
    <3>2. CASE j \in 1 .. Len(queue)
      <4>1. q[i] = queue[i] /\ q[j] = queue[j]
        BY <1>1, <3>1, <3>2
      <4>2. QED
        BY <2>1, <2>3, <3>1, <3>2, <4>1
    <3>3. CASE j = Len(queue) + 1
      <4>1. q[i] = queue[i] /\ q[j] = n
        BY <1>1, <3>1, <3>3
      <4>2. QED
        BY <2>2, <3>1, <4>1
    <3>4. QED
      BY <3>1, <3>2, <3>3
  <2>4. QED
    BY <2>3
<1>3. \A i \in 1 .. Len(q) : /\ q[i] <= n
                             /\ \A k \in state : k < q[i]
                             /\ \A j \in 1 .. Len(inputs) : inputs[j] < q[i]
  <2>1. \A i \in 1 .. Len(q) : q[i] = n \/ (i \in 1 .. Len(queue) /\ q[i] = queue[i])
    <3>1. \A i \in 1 .. Len(q) : i = Len(queue) + 1 \/ i \in 1 .. Len(queue)
      BY <1>1
    <3>2. QED
      BY <1>1, <3>1
  <2>2. n \in Nat
    BY <1>0 DEF Input
  <2>3. /\ \A i \in 1 .. Len(queue) : queue[i] <= n
        /\ \A k \in state : k < n
        /\ \A j \in 1 .. Len(inputs) : inputs[j] < n
    BY <1>0, <2>2, Numbers
  <2>4. /\ \A k \in state, i \in 1 .. Len(queue) : k < queue[i]
        /\ \A j \in 1 .. Len(inputs), i \in 1 .. Len(queue) : inputs[j] < queue[i]
    BY DEF IInv, Sorted
  <2>5. SUFFICES ASSUME NEW i \in 1 .. Len(q)
                 PROVE  /\ q[i] <= n
                        /\ \A k \in state : k < q[i]
                        /\ \A j \in 1 .. Len(inputs) : inputs[j] < q[i]
    OBVIOUS
  <2>6. CASE q[i] = n
    BY <2>2, <2>3, <2>6
  <2>7. CASE i \in 1 .. Len(queue) /\ q[i] = queue[i]
    BY <2>3, <2>4, <2>7
  <2>8. QED
    BY <2>1, <2>6, <2>7
<1>4. /\ queue' \in Seq(Input) /\ Len(queue') <= MaxQueue
      /\ \E d \in {0, 1} : /\ Len(queue') = Len(q) - d
                           /\ \A i \in 1 .. Len(queue') : queue'[i] = q[i + d]
  <2>1. CASE Len(q) > MaxQueue
    <3>1. queue' = Tail(q)
      BY <2>1 DEF PushInput, Newest, q
    <3>2. /\ Tail(q) \in Seq(Input) /\ Len(Tail(q)) = Len(q) - 1
          /\ \A i \in 1 .. Len(q) - 1 : Tail(q)[i] = q[i + 1]
      BY <1>0, <1>1, HeadAndTail
    <3>3. QED
      BY <1>0, <1>1, <3>1, <3>2
  <2>2. CASE ~(Len(q) > MaxQueue)
    <3>1. queue' = q
      BY <2>2 DEF PushInput, Newest, q
    <3>2. QED
      BY <1>0, <1>1, <2>2, <3>1
  <2>3. QED
    BY <2>1, <2>2
<1>5. TypeOK'
  BY <1>0, <1>4 DEF IInv, TypeOK, PushInput, tickVars, Input
<1>6. Sorted'
  <2>1. PICK d \in {0, 1} : /\ Len(queue') = Len(q) - d
                            /\ \A i \in 1 .. Len(queue') : queue'[i] = q[i + d]
    BY <1>4
  <2>2. \A i, j \in 1 .. Len(queue') : i < j => queue'[i] < queue'[j]
    BY <1>0, <1>1, <1>2, <2>1
  <2>3. \A i \in 1 .. Len(queue') : /\ queue'[i] <= n
                                    /\ \A k \in state : k < queue'[i]
                                    /\ \A j \in 1 .. Len(inputs) : inputs[j] < queue'[i]
    BY <1>0, <1>1, <1>3, <2>1
  <2>4. /\ \A k \in state : k <= n
        /\ \A i \in 1 .. Len(inputs) : inputs[i] <= n
    <3>1. n \in Nat
      BY <1>0 DEF Input
    <3>2. QED
      BY <1>0, <3>1, Numbers
  <2>5. state' = state /\ inputs' = inputs /\ queued' = n
    BY DEF PushInput, tickVars
  <2>6. QED
    BY <2>2, <2>3, <2>4, <2>5 DEF IInv, Sorted
<1>7. Acked'
  BY DEF IInv, PushInput, tickVars, Acked, Matches
<1>8. QED
  BY <1>5, <1>6, <1>7 DEF IInv

(* Popping: the oldest inputs of the queue move, in their order.           *)
LEMMA PopStep ==
  ASSUME IInv, PopInputs
  PROVE  IInv'
<1>0. /\ queue \in Seq(Input) /\ PerTick \in Nat
      /\ inputs' = SubSeq(queue, 1, Count) /\ queue' = SubSeq(queue, Count + 1, Len(queue))
  BY QueueAssumption DEF QueueAssumption, IInv, TypeOK, PopInputs
<1>1. Count \in 0 .. Len(queue) /\ Count <= PerTick
  BY <1>0 DEF Count
<1> HIDE DEF Count
<1>2. /\ inputs' \in Seq(Input) /\ Len(inputs') = Count
      /\ \A i \in 1 .. Count : inputs'[i] = queue[i]
  BY <1>0, <1>1, Beginning
<1>3. /\ queue' \in Seq(Input) /\ Len(queue') = Len(queue) - Count
      /\ \A i \in 1 .. Len(queue) - Count : queue'[i] = queue[Count + i]
  BY <1>0, <1>1, Remainder
<1>4. TypeOK'
  <2>1. Len(queue) \in Nat /\ Len(queue) <= MaxQueue /\ MaxQueue \in Nat
    BY <1>0, QueueAssumption DEF QueueAssumption, IInv, TypeOK
  <2>2. Len(queue') <= MaxQueue /\ Len(inputs') <= PerTick
    BY <1>0, <1>1, <1>2, <1>3, <2>1
  <2>3. QED
    BY <1>2, <1>3, <2>2 DEF PopInputs, IInv, TypeOK
<1>5. state' = state /\ queued' = queued
  BY DEF PopInputs, IInv, Acked
<1>6. Sorted'
  <2>0. Len(queue) \in Nat
    BY <1>0
  <2>1. /\ \A k \in state : k <= queued
        /\ \A k \in state, i \in 1 .. Len(queue) : k < queue[i]
        /\ \A i, j \in 1 .. Len(queue) : i < j => queue[i] < queue[j]
        /\ \A i \in 1 .. Len(queue) : queue[i] <= queued
    BY DEF IInv, Sorted
  <2>2. /\ \A k \in state, i \in 1 .. Len(inputs') : k < inputs'[i]
        /\ \A k \in state, i \in 1 .. Len(queue') : k < queue'[i]
    BY <1>0, <1>1, <1>2, <1>3, <2>1
  <2>3. \A i, j \in 1 .. Len(inputs') : i < j => inputs'[i] < inputs'[j]
    BY <1>1, <1>2, <2>0, <2>1
  <2>4. \A i, j \in 1 .. Len(queue') : i < j => queue'[i] < queue'[j]
    <3> SUFFICES ASSUME NEW i \in 1 .. Len(queue'), NEW j \in 1 .. Len(queue'), i < j
                 PROVE  queue'[i] < queue'[j]
      OBVIOUS
    <3>1. Count + i \in 1 .. Len(queue) /\ Count + j \in 1 .. Len(queue) /\ Count + i < Count + j
      BY <1>1, <1>3, <2>0
    <3>2. queue'[i] = queue[Count + i] /\ queue'[j] = queue[Count + j]
      BY <1>3
    <3>3. QED
      BY <2>1, <3>1, <3>2
  <2>5. \A i \in 1 .. Len(inputs') : i \in 1 .. Len(queue) /\ i <= Count /\ inputs'[i] = queue[i]
    BY <1>1, <1>2, <2>0
  <2>6. \A i \in 1 .. Len(queue') :
           Count + i \in 1 .. Len(queue) /\ Count < Count + i /\ queue'[i] = queue[Count + i]
    BY <1>1, <1>3, <2>0
  <2>7. \A i \in 1 .. Len(inputs'), j \in 1 .. Len(queue') : inputs'[i] < queue'[j]
    BY <1>1, <1>2, <1>3, <2>0, <2>1
  <2>8. /\ \A i \in 1 .. Len(inputs') : inputs'[i] <= queued
        /\ \A i \in 1 .. Len(queue') : queue'[i] <= queued
    BY <2>1, <2>5, <2>6
  <2>9. QED
    BY <1>5, <2>1, <2>2, <2>3, <2>4, <2>7, <2>8 DEF Sorted
<1>7. Acked'
  BY <1>5 DEF PopInputs, IInv, Acked, Matches
<1>8. QED
  BY <1>4, <1>6, <1>7 DEF IInv

(* Simulating: the oldest popped input is newer than all simulated ones.   *)
LEMMA SimulateStep ==
  ASSUME IInv, SimulateInput
  PROVE  IInv' /\ \A k \in state : k < Head(inputs)
<1>1. /\ inputs \in Seq(Input) /\ Len(inputs) >= 1
      /\ Head(inputs) = inputs[1] /\ Head(inputs) \in Input
      /\ inputs' \in Seq(Input) /\ Len(inputs') = Len(inputs) - 1
      /\ \A i \in 1 .. Len(inputs) - 1 : inputs'[i] = inputs[i + 1]
  <2>1. inputs \in Seq(Input) /\ inputs # <<>> /\ inputs' = Tail(inputs)
    BY DEF SimulateInput, IInv, TypeOK
  <2>2. QED
    BY <2>1, HeadAndTail
<1>2. \A k \in state : k < Head(inputs)
  BY <1>1 DEF IInv, Sorted
<1>3. TypeOK'
  <2>1. Len(inputs') <= PerTick
    <3>1. Len(inputs) \in Nat /\ PerTick \in Nat /\ Len(inputs) <= PerTick
      BY <1>1, QueueAssumption DEF QueueAssumption, IInv, TypeOK
    <3>2. QED
      BY <1>1, <3>1
  <2>2. state' \subseteq Input /\ processed' \in 0 .. MaxSeq
    <3>1. Input \subseteq 0 .. MaxSeq
      BY DEF Input
    <3>2. state \subseteq Input /\ state' = state \cup {Head(inputs)} /\ processed' = Head(inputs)
      BY DEF SimulateInput, IInv, TypeOK
    <3>3. QED
      BY <1>1, <3>1, <3>2
  <2>3. QED
    BY <1>1, <2>1, <2>2 DEF SimulateInput, ioVars, IInv, TypeOK
<1>4. Sorted'
  <2>1. state' = state \cup {inputs[1]} /\ queue' = queue /\ queued' = queued
    BY <1>1 DEF SimulateInput, ioVars
  <2>2. /\ \A k \in state : k <= queued
        /\ \A k \in state, i \in 1 .. Len(inputs) : k < inputs[i]
        /\ \A k \in state, i \in 1 .. Len(queue) : k < queue[i]
        /\ \A i, j \in 1 .. Len(inputs) : i < j => inputs[i] < inputs[j]
        /\ \A i \in 1 .. Len(inputs), j \in 1 .. Len(queue) : inputs[i] < queue[j]
        /\ \A i, j \in 1 .. Len(queue) : i < j => queue[i] < queue[j]
        /\ \A i \in 1 .. Len(inputs) : inputs[i] <= queued
        /\ \A i \in 1 .. Len(queue) : queue[i] <= queued
    BY DEF IInv, Sorted
  <2>3. Len(inputs) \in Nat /\ 1 \in 1 .. Len(inputs)
    BY <1>1
  <2>4. \A i \in 1 .. Len(inputs') : i + 1 \in 1 .. Len(inputs) /\ inputs'[i] = inputs[i + 1] /\ 1 < i + 1
    BY <1>1, <2>3
  <2>5. /\ \A k \in state' : k <= queued
        /\ \A k \in state', i \in 1 .. Len(inputs') : k < inputs'[i]
        /\ \A k \in state', i \in 1 .. Len(queue) : k < queue[i]
    BY <2>1, <2>2, <2>3, <2>4
  <2>6. \A i, j \in 1 .. Len(inputs') : i < j => inputs'[i] < inputs'[j]
    <3> SUFFICES ASSUME NEW i \in 1 .. Len(inputs'), NEW j \in 1 .. Len(inputs'), i < j
                 PROVE  inputs'[i] < inputs'[j]
      OBVIOUS
    <3>1. i + 1 < j + 1
      OBVIOUS
    <3>2. QED
      BY <2>2, <2>4, <3>1
  <2>7. /\ \A i \in 1 .. Len(inputs'), j \in 1 .. Len(queue) : inputs'[i] < queue[j]
        /\ \A i \in 1 .. Len(inputs') : inputs'[i] <= queued
    BY <2>2, <2>4
  <2>8. /\ \A k \in state' : k <= queued'
        /\ \A k \in state', i \in 1 .. Len(inputs') : k < inputs'[i]
        /\ \A k \in state', i \in 1 .. Len(queue') : k < queue'[i]
    <3>1. queue' = queue /\ queued' = queued
      BY <2>1
    <3>2. QED
      BY <2>5, <3>1
  <2>9. /\ \A i \in 1 .. Len(inputs'), j \in 1 .. Len(queue') : inputs'[i] < queue'[j]
        /\ \A i, j \in 1 .. Len(queue') : i < j => queue'[i] < queue'[j]
        /\ \A i \in 1 .. Len(inputs') : inputs'[i] <= queued'
        /\ \A i \in 1 .. Len(queue') : queue'[i] <= queued'
    BY <2>1, <2>2, <2>7
  <2>10. QED
    BY <2>6, <2>8, <2>9 DEF Sorted
<1>5. Acked'
  BY <1>1, <1>2 DEF SimulateInput, IInv, TypeOK, Acked, Matches, Input
<1>6. QED
  BY <1>2, <1>3, <1>4, <1>5 DEF IInv

(* Storing the result and sending it.                                      *)
LEMMA SendStep ==
  ASSUME IInv, SetMoveState \/ SendSelfState \/ SendNothing
  PROVE  IInv'
<1> USE DEF IInv, TypeOK
<1>1. TypeOK'
  BY DEF SetMoveState, SendSelfState, SendNothing, ioVars
<1>2. Sorted'
  BY DEF SetMoveState, SendSelfState, SendNothing, ioVars, Sorted
<1>3. Acked'
  BY DEF SetMoveState, SendSelfState, SendNothing, Acked, Matches
<1>4. QED
  BY <1>1, <1>2, <1>3

(* The inductive invariant holds in every reachable state.                 *)
THEOREM Invariant == Spec => []IInv
<1>1. IInv /\ [Next]_vars => IInv'
  <2>1. ASSUME IInv, UNCHANGED vars PROVE IInv'
    BY <2>1 DEF vars, ioVars, tickVars, IInv, TypeOK, Sorted, Acked, Matches
  <2>2. QED
    BY <2>1, PushStep, PopStep, SimulateStep, SendStep DEF Next, Tick
<1>2. QED
  BY InitInv, <1>1, PTL DEF Spec

(* Every variable keeps its type, the queue its limit.                     *)
THEOREM QueueTypeOK == Spec => []TypeOK
<1>1. IInv => TypeOK
  BY DEF IInv
<1>2. QED
  BY Invariant, <1>1, PTL

(* A client is only shown positions that match their acknowledgement.      *)
THEOREM AcksMatch == Spec => []AckMatches
<1>1. IInv => AckMatches
  BY DEF IInv, Acked, Matches, AckMatches
<1>2. QED
  BY Invariant, <1>1, PTL

(* Inputs are simulated once, in the order of their numbers.               *)
THEOREM InputsInOrder == Spec => InOrder
<1>1. IInv /\ [Next]_vars => [SimulateInput => \A k \in state : k < Head(inputs)]_vars
  BY SimulateStep
<1>2. QED
  BY Invariant, <1>1, PTL DEF Spec, InOrder

-----------------------------------------------------------------------------
(* What the queue holds was accepted.                                      *)
QueueAccepted == \A i \in 1 .. Len(queue) : queue[i] \in accepted

(* The inputs of A that are newer than n.                                  *)
Newer(A, n) == {k \in A : k > n}

LEMMA NewerGrows ==
  ASSUME NEW A, NEW B, A \subseteq B, B \subseteq Input, NEW n
  PROVE  /\ Cardinality(Newer(A, n)) \in Nat /\ Cardinality(Newer(B, n)) \in Nat
         /\ Cardinality(Newer(A, n)) <= Cardinality(Newer(B, n))
<1>1. IsFiniteSet(Input)
  BY FS_Interval, QueueAssumption DEF QueueAssumption, Input
<1>2. Newer(B, n) \subseteq Input /\ Newer(A, n) \subseteq Newer(B, n)
  BY DEF Newer
<1>3. IsFiniteSet(Newer(B, n))
  BY <1>1, <1>2, FS_Subset
<1>4. IsFiniteSet(Newer(A, n)) /\ Cardinality(Newer(A, n)) <= Cardinality(Newer(B, n))
  BY <1>2, <1>3, FS_Subset
<1>5. QED
  BY <1>3, <1>4, FS_CardinalityType

(* A full queue of newer inputs is that many newer inputs.                 *)
LEMMA FullOfNewer ==
  ASSUME NEW q \in Seq(Input), Len(q) = MaxQueue, NEW n, NEW A, A \subseteq Input,
         \A i, j \in 1 .. Len(q) : i < j => q[i] < q[j],
         \A i \in 1 .. Len(q) : q[i] \in A /\ q[i] > n
  PROVE  Cardinality(Newer(A, n)) >= MaxQueue
<1> DEFINE f == [i \in 1 .. MaxQueue |-> q[i]]
<1>1. MaxQueue \in Nat /\ \A i \in 1 .. MaxQueue : q[i] \in Nat
  BY QueueAssumption DEF QueueAssumption, Input
<1>2. f \in [1 .. MaxQueue -> Newer(A, n)]
  BY DEF Newer
<1>3. \A i, j \in DOMAIN f : f[i] = f[j] => i = j
  <2> SUFFICES ASSUME NEW i \in 1 .. MaxQueue, NEW j \in 1 .. MaxQueue, q[i] = q[j]
               PROVE  i = j
    OBVIOUS
  <2>1. (i < j => q[i] < q[j]) /\ (j < i => q[j] < q[i])
    OBVIOUS
  <2>2. QED
    BY <1>1, <2>1
<1>4. IsFiniteSet(Newer(A, n)) /\ Cardinality(Newer(A, n)) \in Nat
  <2>1. IsFiniteSet(Input)
    BY FS_Interval, QueueAssumption DEF QueueAssumption, Input
  <2>2. Newer(A, n) \subseteq Input
    BY DEF Newer
  <2>3. QED
    BY <2>1, <2>2, FS_Subset, FS_CardinalityType
<1> HIDE DEF f
<1>5. f \in Injection(1 .. MaxQueue, Newer(A, n))
  BY <1>2, <1>3 DEF Injection, IsInjective
<1>6. Cardinality(1 .. MaxQueue) <= Cardinality(Newer(A, n))
  BY <1>4, <1>5, FS_Injection
<1>7. Cardinality(1 .. MaxQueue) = MaxQueue
  BY <1>1, FS_Interval
<1>8. QED
  BY <1>1, <1>4, <1>6, <1>7

(* Pushing: only the oldest input goes, and only when the queue is full.   *)
LEMMA PushKeeps ==
  ASSUME IInv, IInv', QueueAccepted, RecentKept, NEW n \in 0 .. MaxSeq, PushInput(n)
  PROVE  QueueAccepted' /\ RecentKept'
<1>0. PICK q : q = Append(queue, n)
  OBVIOUS
<1>1. /\ queue \in Seq(Input) /\ n \in Input /\ Len(queue) \in Nat /\ Len(queue) <= MaxQueue
      /\ MaxQueue \in Nat \ {0} /\ queue' = Newest(q) /\ accepted' = accepted \cup {n}
      /\ accepted' \subseteq Input /\ UNCHANGED <<state, inputs>>
  BY <1>0, QueueAssumption, Numbers
  DEF QueueAssumption, IInv, TypeOK, Input, PushInput, tickVars
<1>2. /\ q \in Seq(Input) /\ Len(q) = Len(queue) + 1
      /\ \A i \in 1 .. Len(queue) : q[i] = queue[i]
      /\ q[Len(queue) + 1] = n
  BY <1>0, <1>1, Appended
<1>3. PICK d \in {0, 1} : /\ Len(queue') = Len(q) - d
                          /\ \A i \in 1 .. Len(queue') : queue'[i] = q[i + d]
                          /\ d = 1 => Len(queue') = MaxQueue
  <2>1. CASE Len(q) > MaxQueue
    <3>1. queue' = Tail(q) /\ Len(q) = MaxQueue + 1 /\ q # <<>>
      BY <1>1, <1>2, <2>1 DEF Newest
    <3>2. QED
      BY <1>1, <1>2, <3>1, HeadAndTail
  <2>2. CASE ~(Len(q) > MaxQueue)
    <3>1. queue' = q
      BY <1>1, <2>2 DEF Newest
    <3>2. QED
      BY <1>1, <1>2, <3>1
  <2>3. QED
    BY <2>1, <2>2
<1>4. \A i \in 1 .. Len(q) : q[i] \in accepted'
  <2>1. \A i \in 1 .. Len(q) : i \in 1 .. Len(queue) \/ i = Len(queue) + 1
    BY <1>1, <1>2
  <2>2. QED
    BY <1>1, <1>2, <2>1 DEF QueueAccepted
<1>5. QueueAccepted'
  <2>1. \A i \in 1 .. Len(queue') : i + d \in 1 .. Len(q)
    BY <1>1, <1>2, <1>3
  <2>2. QED
    BY <1>3, <1>4, <2>1 DEF QueueAccepted
<1>6. OnTheWay(n)'
  <2>1. Len(queue') \in 1 .. Len(queue') /\ Len(queue') + d = Len(queue) + 1
    BY <1>1, <1>2, <1>3
  <2>2. queue'[Len(queue')] = n
    BY <1>2, <1>3, <2>1
  <2>3. Len(queue') \in DOMAIN queue'
    BY <2>1 DEF IInv, TypeOK
  <2>4. QED
    BY <2>2, <2>3 DEF OnTheWay
<1>7. ASSUME NEW m \in accepted', ~OnTheWay(m)'
      PROVE  Cardinality(Newer(accepted', m)) >= MaxQueue
  <2>1. m \in accepted
    BY <1>1, <1>6, <1>7
  <2>2. CASE ~OnTheWay(m)
    <3>1. Cardinality(Newer(accepted, m)) >= MaxQueue
      BY <2>1, <2>2 DEF RecentKept, Newer
    <3>2. /\ Cardinality(Newer(accepted, m)) \in Nat
          /\ Cardinality(Newer(accepted', m)) \in Nat
          /\ Cardinality(Newer(accepted, m)) <= Cardinality(Newer(accepted', m))
      <4>1. accepted \subseteq accepted' /\ accepted' \subseteq Input
        BY <1>1
      <4>2. QED
        BY <4>1, NewerGrows
    <3>3. QED
      BY <1>1, <3>1, <3>2
  <2>3. CASE OnTheWay(m)
    <3>1. PICK i \in 1 .. Len(queue) : queue[i] = m
      BY <1>1, <1>7, <2>3 DEF OnTheWay
    <3>2. d = 1 /\ i = 1
      <4>1. SUFFICES ASSUME ~(d = 1 /\ i = 1) PROVE FALSE
        OBVIOUS
      <4>2. i - d \in 1 .. Len(queue') /\ queue'[i - d] = m
        BY <1>1, <1>2, <1>3, <3>1, <4>1
      <4>3. i - d \in DOMAIN queue'
        BY <4>2 DEF IInv, TypeOK
      <4>4. QED
        BY <1>7, <4>2, <4>3 DEF OnTheWay
    <3>3. \A j \in 1 .. Len(queue') : queue'[j] > m
      <4>1. SUFFICES ASSUME NEW j \in 1 .. Len(queue') PROVE queue'[j] > m
        OBVIOUS
      <4>2. queue'[j] = q[j + 1] /\ j + 1 \in 1 .. Len(queue) + 1
        BY <1>1, <1>2, <1>3, <3>2
      <4>3. m \in Nat /\ m <= queued /\ queued < n /\ queued \in Nat /\ n \in Nat
        BY <1>1, <3>1, Numbers DEF PushInput, Input
      <4>4. CASE j + 1 = Len(queue) + 1
        BY <1>2, <4>2, <4>3, <4>4
      <4>5. CASE j + 1 \in 1 .. Len(queue)
        <5>1. queue[1] < queue[j + 1] /\ queue[j + 1] \in Nat
          BY <1>1, <3>1, <3>2, <4>5, Numbers DEF IInv, Sorted
        <5>2. QED
          BY <1>2, <3>1, <3>2, <4>2, <4>3, <4>5, <5>1
      <4>6. QED
        BY <1>1, <4>2, <4>4, <4>5
    <3>4. /\ queue' \in Seq(Input) /\ Len(queue') = MaxQueue
          /\ \A j, k \in 1 .. Len(queue') : j < k => queue'[j] < queue'[k]
      BY <1>3, <3>2 DEF IInv, TypeOK, Sorted
    <3>5. QED
      BY <1>1, <1>5, <3>3, <3>4, FullOfNewer DEF QueueAccepted
  <2>4. QED
    BY <2>2, <2>3
<1>8. QED
  BY <1>5, <1>7 DEF RecentKept, Newer

(* The tick: what it pops and simulates stays on the way.                  *)
LEMMA TickKeeps ==
  ASSUME IInv, QueueAccepted, RecentKept, Tick
  PROVE  QueueAccepted' /\ RecentKept'
<1>1. accepted' = accepted
  BY DEF Tick, PopInputs, SimulateInput, SetMoveState, SendSelfState, SendNothing, ioVars
<1>2. ASSUME QueueAccepted', \A n \in accepted : OnTheWay(n) => OnTheWay(n)'
      PROVE  QueueAccepted' /\ RecentKept'
  BY <1>1, <1>2 DEF RecentKept
<1>3. CASE PopInputs
  <2>1. /\ queue \in Seq(Input) /\ PerTick \in Nat /\ Len(queue) \in Nat /\ state' = state
        /\ inputs = <<>>
        /\ inputs' = SubSeq(queue, 1, Count) /\ queue' = SubSeq(queue, Count + 1, Len(queue))
    BY <1>3, QueueAssumption DEF QueueAssumption, IInv, TypeOK, Acked, PopInputs
  <2>2. Count \in 0 .. Len(queue)
    BY <2>1 DEF Count
  <2> HIDE DEF Count
  <2>3. /\ DOMAIN inputs' = 1 .. Count
        /\ \A i \in 1 .. Count : inputs'[i] = queue[i]
        /\ DOMAIN queue' = 1 .. Len(queue) - Count /\ Len(queue') = Len(queue) - Count
        /\ \A i \in 1 .. Len(queue) - Count : queue'[i] = queue[Count + i]
    BY <2>1, <2>2, Beginning, Remainder
  <2>4. QueueAccepted'
    BY <1>1, <2>1, <2>2, <2>3 DEF QueueAccepted
  <2>5. ASSUME NEW n \in accepted, OnTheWay(n) PROVE OnTheWay(n)'
    <3>1. CASE n \in state
      BY <2>1, <3>1 DEF OnTheWay
    <3>2. ASSUME NEW i \in 1 .. Len(queue), queue[i] = n PROVE OnTheWay(n)'
      <4>1. CASE i <= Count
        BY <2>2, <2>3, <3>2, <4>1 DEF OnTheWay
      <4>2. CASE i > Count
        <5>1. i - Count \in 1 .. Len(queue) - Count /\ Count + (i - Count) = i
          BY <2>1, <2>2, <4>2
        <5>2. i - Count \in DOMAIN queue' /\ queue'[i - Count] = n
          BY <2>3, <3>2, <5>1
        <5>3. QED
          BY <5>2 DEF OnTheWay
      <4>3. QED
        BY <2>2, <4>1, <4>2
    <3>3. DOMAIN queue = 1 .. Len(queue) /\ DOMAIN inputs = {}
      BY <2>1
    <3>4. QED
      BY <2>5, <3>1, <3>2, <3>3 DEF OnTheWay
  <2>6. QED
    BY <1>2, <2>4, <2>5
<1>4. CASE SimulateInput
  <2>1. /\ inputs \in Seq(Input) /\ inputs # <<>> /\ inputs' = Tail(inputs) /\ queue' = queue
        /\ state' = state \cup {Head(inputs)}
    BY <1>4 DEF SimulateInput, ioVars, IInv, TypeOK
  <2>2. /\ DOMAIN inputs = 1 .. Len(inputs) /\ DOMAIN inputs' = 1 .. Len(inputs) - 1
        /\ Len(inputs) \in Nat /\ Head(inputs) = inputs[1]
        /\ \A i \in 1 .. Len(inputs) - 1 : inputs'[i] = inputs[i + 1]
    BY <2>1, HeadAndTail
  <2>3. \A i \in DOMAIN inputs : i = 1 \/ (i - 1 \in DOMAIN inputs' /\ inputs'[i - 1] = inputs[i])
    BY <2>2
  <2>4. \A n \in accepted : OnTheWay(n) => OnTheWay(n)'
    BY <2>1, <2>2, <2>3 DEF OnTheWay
  <2>5. QueueAccepted'
    BY <1>1, <2>1 DEF QueueAccepted
  <2>6. QED
    BY <1>2, <2>4, <2>5
<1>5. CASE SetMoveState \/ SendSelfState \/ SendNothing
  BY <1>2, <1>5 DEF SetMoveState, SendSelfState, SendNothing, ioVars, OnTheWay, QueueAccepted
<1>6. QED
  BY <1>3, <1>4, <1>5 DEF Tick

(* An input that was dropped has been followed by MAX_INPUT_QUEUE newer    *)
(* ones: overflow costs only what the player has overruled since.          *)
THEOREM RecentInputsKept == Spec => []RecentKept
<1> DEFINE Kept == QueueAccepted /\ RecentKept
<1>1. Init => Kept
  BY DEF Init, QueueAccepted, RecentKept
<1>2. IInv /\ IInv' /\ Kept /\ [Next]_vars => Kept'
  <2>1. ASSUME Kept, UNCHANGED vars PROVE Kept'
    BY <2>1 DEF vars, ioVars, tickVars, QueueAccepted, RecentKept, OnTheWay
  <2>2. QED
    BY <2>1, PushKeeps, TickKeeps DEF Next
<1>3. Kept => RecentKept
  OBVIOUS
<1> HIDE DEF Kept
<1>4. QED
  BY <1>1, <1>2, <1>3, Invariant, PTL DEF Spec

-----------------------------------------------------------------------------
(* A tick around the queue is a behaviour of the queue, so what is proved  *)
(* of InputQueue holds in it.                                              *)
THEOREM TicksRunQueue == FairSpec => Spec
<1>1. InitAll => Init
  BY DEF InitAll
<1>2. [NextAll]_allVars => [Next]_vars
  BY DEF NextAll, Run, Begin, Simulate, Mark, PhaseSendSnapshots, allVars, Next, Tick
<1>3. QED
  BY <1>1, <1>2, PTL DEF FairSpec, Spec

(* The ticks since the observer's last turn in tick t, the occasions to    *)
(* move that the object has had since (and in that tick), and that the     *)
(* client is no older than that turn if the object moved at all of them.   *)
Since(t)    == t % Lag
Chances(t)  == IF other = "player" THEN Since(t) + 1 ELSE (Since(t) \div AI_TICK_INTERVAL) + 1
Recent(t)   == steady >= Chances(t) => age <= Since(t)

(* The tick before, and the occasion that this tick has brought.           *)
Before == (tick + 5) % FAR_SNAPSHOT_INTERVAL
Occasion == IF MayMove THEN 1 ELSE 0

SnapInv ==
  /\ tick \in 0 .. 5 /\ age \in 0 .. 6 /\ steady \in 0 .. 6
  /\ other \in {"player", "monster"} /\ near \in BOOLEAN /\ moved \in BOOLEAN
  /\ phase \in {"idle", "simulate", "send"}
  /\ phase = "idle" => Recent(tick)
  /\ phase = "simulate" => Recent(Before)
  /\ phase = "send" => /\ MayMove /\ steady >= 1 => moved
                       /\ steady >= Chances(Before) + Occasion => age <= Since(Before)

(* The observer's turn, or one tick and perhaps one occasion later.        *)
LEMMA Turns ==
  ASSUME SnapInv
  PROVE  /\ Since(tick) \in Nat /\ Since(Before) \in Nat
         /\ Chances(tick) \in Nat /\ Chances(Before) \in Nat
         /\ Since(tick) = 0 => /\ Chances(tick) = 1 /\ MayMove /\ Every(SNAPSHOT_INTERVAL)
                               /\ near \/ Every(FAR_SNAPSHOT_INTERVAL)
         /\ Since(tick) # 0 =>
              /\ Since(tick) = Since(Before) + 1
              /\ Chances(tick) = Chances(Before) + Occasion /\ Occasion \in {0, 1}
<1> USE DEF SNAPSHOT_INTERVAL, FAR_SNAPSHOT_INTERVAL, AI_TICK_INTERVAL, Since, Chances, Before,
            Lag, MayMove, Every, Occasion
<1>1. /\ tick \in {0, 1, 2, 3, 4, 5} /\ other \in {"player", "monster"} /\ near \in BOOLEAN
  BY DEF SnapInv
<1>2. CASE other = "player" /\ near
  BY <1>1, <1>2
<1>3. CASE other = "player" /\ ~near
  BY <1>1, <1>3
<1>4. CASE other = "monster"
  BY <1>1, <1>4
<1>5. QED
  BY <1>1, <1>2, <1>3, <1>4

LEMMA SnapStep ==
  ASSUME SnapInv, [NextAll]_allVars
  PROVE  SnapInv'
<1> USE DEF SNAPSHOT_INTERVAL, FAR_SNAPSHOT_INTERVAL, AI_TICK_INTERVAL
<1>1. CASE UNCHANGED <<phase, viewVars>>
  BY <1>1 DEF viewVars, SnapInv, Recent, Chances, Since, Lag, Before, MayMove, Every, Occasion
<1>2. CASE Begin
  <2>1. /\ phase = "idle" /\ phase' = "simulate" /\ tick' = (tick + 1) % 6 /\ moved' = FALSE
        /\ UNCHANGED <<other, near, age, steady>>
    BY <1>2 DEF Begin, PopInputs
  <2>2. tick' \in 0 .. 5 /\ Before' = tick
    BY <2>1 DEF SnapInv, Before
  <2>3. QED
    BY <2>1, <2>2 DEF SnapInv, Recent, Chances, Since, Lag
<1>3. CASE Mark
  <2>1. /\ phase = "simulate" /\ phase' = "send" /\ moved' \in BOOLEAN
        /\ moved' => MayMove
        /\ steady' = IF moved' THEN UpTo(6, steady + 1) ELSE IF MayMove THEN 0 ELSE steady
        /\ UNCHANGED <<tick, other, near, age>>
    BY <1>3 DEF Mark, SetMoveState, MayMove
  <2>2. /\ Before' = Before /\ MayMove' = MayMove /\ Occasion' = Occasion
        /\ Since(Before)' = Since(Before) /\ Chances(Before)' = Chances(Before)
    BY <2>1 DEF Before, MayMove, Every, Occasion, Chances, Since, Lag
  <2>3. /\ steady' \in 0 .. 6 /\ (MayMove /\ steady' >= 1 => moved')
        /\ steady' <= steady + Occasion
    BY <2>1 DEF SnapInv, UpTo, Occasion
  <2>4. steady >= Chances(Before) => age <= Since(Before)
    BY <2>1 DEF SnapInv, Recent
  <2>5. steady' >= Chances(Before) + Occasion => age <= Since(Before)
    <3>1. PICK c : c = Chances(Before)
      OBVIOUS
    <3>2. c \in Nat /\ steady \in Nat /\ steady' \in Nat /\ Occasion \in {0, 1}
      BY <2>3, <3>1, Turns DEF SnapInv, Occasion
    <3>3. steady' >= c + Occasion => steady >= c
      BY <2>3, <3>2
    <3>4. QED
      BY <2>4, <3>1, <3>3
  <2>6. QED
    BY <2>1, <2>2, <2>3, <2>5 DEF SnapInv
<1>4. CASE PhaseSendSnapshots
  <2>1. /\ phase = "send" /\ phase' = "idle"
        /\ age' = IF Sends THEN 0 ELSE Older
        /\ UNCHANGED <<tick, other, near, moved, steady>>
    BY <1>4 DEF PhaseSendSnapshots, SendSelfState, SendNothing
  <2>2. /\ age' \in 0 .. 6 /\ age' <= age + 1
    BY <2>1 DEF SnapInv, Older, UpTo
  <2>3. /\ MayMove /\ steady >= 1 => moved
        /\ steady >= Chances(Before) + Occasion => age <= Since(Before)
    BY <2>1 DEF SnapInv, Recent
  <2>4. steady >= Chances(tick) => age' <= Since(tick)
    <3>1. CASE Since(tick) = 0
      BY <2>1, <2>3, <3>1, Turns DEF SnapInv, Sends
    <3>2. CASE Since(tick) # 0
      BY <2>2, <2>3, <3>2, Turns DEF SnapInv
    <3>3. QED
      BY <3>1, <3>2
  <2>5. Recent(tick)'
    BY <2>1, <2>4 DEF Recent, Since, Chances, Lag
  <2>6. QED
    BY <2>1, <2>2, <2>5 DEF SnapInv
<1>5. QED
  BY <1>1, <1>2, <1>3, <1>4 DEF NextAll, Run, Simulate, SimulateInput, PushInput, tickVars,
     allVars, vars

(* Who keeps moving is shown to the observer where it was less than one    *)
(* turn of the observer ago.                                               *)
THEOREM MoversFollowed == FairSpec => []FollowedClosely
<1>1. InitAll => SnapInv
  <2> SUFFICES ASSUME InitAll PROVE SnapInv
    OBVIOUS
  <2>1. /\ tick = 0 /\ age = 0 /\ steady = 0 /\ phase = "idle" /\ moved \in BOOLEAN
        /\ other \in {"player", "monster"} /\ near \in BOOLEAN
    BY DEF InitAll, Init
  <2>2. Since(tick) = 0
    BY <2>1 DEF Since, Lag, SNAPSHOT_INTERVAL, FAR_SNAPSHOT_INTERVAL
  <2>3. Recent(tick)
    BY <2>1, <2>2 DEF Recent
  <2>4. QED
    BY <2>1, <2>3 DEF SnapInv
<1>2. SnapInv /\ [NextAll]_allVars => SnapInv'
  BY SnapStep
<1>3. SnapInv => FollowedClosely
  <2> SUFFICES ASSUME SnapInv, phase = "idle", steady >= Lag PROVE age < Lag
    BY DEF FollowedClosely
  <2>1. steady >= Chances(tick) => age <= Since(tick)
    BY DEF SnapInv, Recent
  <2>2. Chances(tick) <= Lag /\ Since(tick) < Lag /\ Lag \in {2, 6}
    <3> USE DEF SNAPSHOT_INTERVAL, FAR_SNAPSHOT_INTERVAL, AI_TICK_INTERVAL, Since, Chances, Lag
    <3>1. tick \in {0, 1, 2, 3, 4, 5} /\ other \in {"player", "monster"} /\ near \in BOOLEAN
      BY DEF SnapInv
    <3>2. CASE other = "player" /\ near
      BY <3>1, <3>2
    <3>3. CASE other = "player" /\ ~near
      BY <3>1, <3>3
    <3>4. CASE other = "monster"
      BY <3>1, <3>4
    <3>5. QED
      BY <3>1, <3>2, <3>3, <3>4
  <2>3. QED
    BY <2>1, <2>2, Turns DEF SnapInv
<1>4. QED
  BY <1>1, <1>2, <1>3, PTL DEF FairSpec
=============================================================================
