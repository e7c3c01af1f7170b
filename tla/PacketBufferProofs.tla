------------------------- MODULE PacketBufferProofs -------------------------
(***************************************************************************)
(* Proofs about PacketBuffer, for every size of header, packet and buffer, *)
(* every content of the stream and every way of cutting it.                *)
(***************************************************************************)
EXTENDS PacketBuffer, SequenceTheorems, TLAPS

(* Where the next packet starts in the stream.                             *)
At == got - Available

(* The part of the buffer between the cursors is the end of what arrived.  *)
Contents ==
  /\ tail <= got
  /\ \A c \in Cell : head <= c /\ c < tail => data[c] = got - tail + c

(* Before a receive the rest of the last packet is at the front, and the   *)
(* loop never finds the buffer full.                                       *)
Ready == pc # "full" /\ (pc = "recv" => head = 0 /\ tail < MaxPacket)

IInv == TypeOK /\ Contents /\ Ready /\ Prompt

(* What TypeOK says of the cursors.                                        *)
LEMMA Cursors ==
  ASSUME TypeOK
  PROVE  /\ Header \in Nat /\ Header >= 1 /\ MaxPacket \in Nat /\ Capacity \in Nat
         /\ Header <= MaxPacket /\ MaxPacket <= Capacity /\ Stream \in Nat
         /\ head \in Nat /\ tail \in Nat /\ got \in Nat /\ got <= Stream
         /\ head <= tail /\ tail <= Capacity
         /\ Available \in Nat /\ Available <= Capacity
         /\ data \in [Cell -> Nat]
  BY BufferAssumption DEF TypeOK, Available

(* The size that is read at the head is the one the stream has there.      *)
LEMMA SizeAtHead ==
  ASSUME IInv, HasHeader
  PROVE  /\ head \in Cell /\ head < tail
         /\ data[head] = At /\ At \in 0 .. Stream - 1
         /\ Size = field[At] /\ Size \in Nat
  <1>1. TypeOK /\ Contents
    BY DEF IInv
  <1>2. head < tail /\ head \in Cell
    BY <1>1, Cursors DEF HasHeader, Available, Cell
  <1>3. data[head] = At
    BY <1>1, <1>2, Cursors DEF Contents, At, Available
  <1>4. At \in 0 .. Stream - 1
    BY <1>1, <1>2, Cursors DEF Contents, At, Available
  <1>5. field[At] \in Nat
    BY <1>1, <1>4, BufferAssumption DEF TypeOK
  <1>6. QED
    BY <1>2, <1>3, <1>4, <1>5 DEF Size

(* The packet at the head is a stretch of the stream.                      *)
LEMMA PacketIsStretch ==
  ASSUME IInv, PeekPacket
  PROVE  /\ Size \in Header .. MaxPacket /\ Size <= Available
         /\ Packet = [k \in 1 .. Size |-> At + k - 1]
         /\ Packet \in Seq(Nat)
  <1>1. /\ TypeOK /\ Contents /\ head < tail /\ Size = field[At] /\ Size \in Nat
        /\ At \in Nat
    BY SizeAtHead DEF IInv, PeekPacket
  <1>2. Size \in Header .. MaxPacket /\ Size <= Available
    BY <1>1, Cursors DEF PeekPacket, WellFormed
  <1>3. ASSUME NEW k \in 1 .. Size
        PROVE  data[head + k - 1] = At + k - 1
    <2>1. /\ head + k - 1 \in Cell
          /\ head <= head + k - 1 /\ head + k - 1 < tail
      <3>1. k \in Nat /\ 1 <= k /\ k <= tail - head
        BY <1>1, <1>2, Cursors DEF Available
      <3>2. head \in Nat /\ tail \in Nat /\ tail <= Capacity /\ Capacity \in Nat
        BY <1>1, Cursors
      <3>3. QED
        BY <3>1, <3>2 DEF Cell
    <2>2. data[head + k - 1] = got - tail + (head + k - 1)
      BY <1>1, <2>1 DEF Contents
    <2>3. QED
      BY <1>1, <2>2, Cursors DEF At, Available
  <1>4. Packet = [k \in 1 .. Size |-> At + k - 1]
    BY <1>3 DEF Packet
  <1>5. Packet \in [1 .. Size -> Nat]
    BY <1>1, <1>4
  <1>6. Packet \in Seq(Nat)
    BY <1>1, <1>5, SeqDef
  <1>7. QED
    BY <1>2, <1>4, <1>6

(* Compact keeps what is left of the stream, and puts it at the front.     *)
LEMMA CompactKeeps ==
  ASSUME IInv, Compact, UNCHANGED got
  PROVE  /\ head' = 0 /\ tail' = Available /\ Available' = Available
         /\ data' \in [Cell -> Nat] /\ Contents'
  <1>1. TypeOK /\ Contents
    BY DEF IInv
  <1>2. head' = 0 /\ tail' = Available /\ Available' = Available
    BY <1>1, Cursors DEF Compact, Available
  <1>3. Compacted \in [Cell -> Nat]
    BY <1>1, Cursors DEF Compacted
  <1>4. data' \in [Cell -> Nat]
    BY <1>1, <1>3, Cursors DEF Compact
  <1>5. ASSUME NEW c \in Cell, c < Available
        PROVE  data'[c] = got - Available + c
    <2>1. /\ c + head \in Cell /\ head <= c + head /\ c + head < tail
          /\ c \in Nat
      BY <1>1, <1>5, Cursors DEF Cell, Available
    <2>2. data[c + head] = got - tail + (c + head)
      BY <1>1, <2>1 DEF Contents
    <2>3. data'[c] = data[c + head]
      <3>1. CASE head = 0
        BY <2>1, <3>1 DEF Compact
      <3>2. CASE head # 0
        BY <1>5, <2>1, <3>2 DEF Compact, Compacted
      <3>3. QED
        BY <3>1, <3>2
    <2>4. QED
      BY <1>1, <2>1, <2>2, <2>3, Cursors DEF Available
  <1>6. Available <= got
    BY <1>1, Cursors DEF Contents, Available
  <1>7. Contents'
    BY <1>2, <1>5, <1>6 DEF Contents
  <1>8. QED
    BY <1>2, <1>4, <1>7

-----------------------------------------------------------------------------
LEMMA InitIInv == Init => IInv
  <1> SUFFICES ASSUME Init PROVE IInv
    OBVIOUS
  <1> USE BufferAssumption
  <1>1. <<>> \in Seq(Seq(Nat))
    BY EmptySeq
  <1>2. TypeOK
    BY <1>1 DEF Init, TypeOK, Cell
  <1>3. Contents /\ Ready
    BY DEF Init, Contents, Ready, Cell
  <1>4. Prompt
    BY DEF Init, Prompt, Available
  <1>5. QED
    BY <1>2, <1>3, <1>4 DEF IInv

LEMMA RecvIInv ==
  ASSUME IInv, NEW n \in 1 .. Capacity, Recv(n)
  PROVE  IInv'
  <1>1. TypeOK /\ Contents /\ Ready
    BY DEF IInv
  <1>2. n \in Nat /\ n <= Capacity - tail /\ got + n <= Stream
    BY <1>1, Cursors DEF Recv, Writable
  <1>3. data' \in [Cell -> Nat]
    <2>1. ASSUME NEW c \in Cell, c \in tail .. tail + n - 1
          PROVE  got + c - tail \in Nat
      <3>1. c \in Int /\ tail <= c
        BY <2>1, <1>1, Cursors DEF Cell
      <3>2. got \in Nat /\ tail \in Nat
        BY <1>1, Cursors
      <3>3. QED
        BY <3>1, <3>2
    <2>2. data \in [Cell -> Nat]
      BY <1>1 DEF TypeOK
    <2>3. QED
      BY <2>1, <2>2 DEF Recv
  <1>4. TypeOK'
    BY <1>1, <1>2, <1>3, Cursors DEF Recv, TypeOK
  <1>5. Contents'
    <2>1. ASSUME NEW c \in Cell, head <= c, c < tail + n
          PROVE  data'[c] = got - tail + c
      <3>1. CASE c < tail
        <4>1. c \notin tail .. tail + n - 1
          BY <3>1, <1>1, Cursors DEF Cell
        <4>2. data'[c] = data[c]
          BY <4>1 DEF Recv
        <4>3. QED
          BY <1>1, <2>1, <3>1, <4>2 DEF Contents
      <3>2. CASE c >= tail
        <4>1. c \in tail .. tail + n - 1
          BY <2>1, <3>2, <1>1, <1>2, Cursors DEF Cell
        <4>2. data'[c] = got + c - tail
          BY <4>1 DEF Recv
        <4>3. QED
          BY <1>1, <4>2, Cursors DEF Cell
      <3>3. QED
        BY <1>1, <3>1, <3>2, Cursors DEF Cell
    <2>2. \A c \in Cell : head' <= c /\ c < tail' => data'[c] = got' - tail' + c
      BY <1>1, <1>2, <2>1, Cursors DEF Recv, Cell
    <2>3. tail' <= got'
      BY <1>1, <1>2, Cursors DEF Contents, Recv
    <2>4. QED
      BY <2>2, <2>3 DEF Contents
  <1>6. Ready' /\ Prompt'
    BY DEF Recv, Ready, Prompt
  <1>7. QED
    BY <1>4, <1>5, <1>6 DEF IInv

LEMMA AcceptIInv ==
  ASSUME IInv, Accept
  PROVE  IInv'
  <1>1. TypeOK /\ Contents
    BY DEF IInv
  <1>2. Size \in Nat /\ head + Size <= tail
    BY <1>1, PacketIsStretch, SizeAtHead, Cursors DEF Accept, PeekPacket, Available
  <1>3. handled' \in Seq(Seq(Nat))
    BY <1>1, PacketIsStretch, AppendProperties DEF Accept, TypeOK
  <1>4. /\ head' \in Nat /\ tail' \in Nat /\ head' <= tail' /\ tail' <= Capacity
        /\ UNCHANGED <<field, got, data, pc>>
    BY <1>1, <1>2, Cursors DEF Accept
  <1>5. TypeOK'
    BY <1>1, <1>3, <1>4, Cursors DEF TypeOK
  <1>6. Contents'
    <2>1. CASE head + Size = tail
      <3>1. head' = 0 /\ tail' = 0
        BY <2>1 DEF Accept
      <3>2. QED
        BY <1>1, <1>4, <3>1, Cursors DEF Contents, Cell
    <2>2. CASE head + Size # tail
      <3>1. head <= head' /\ tail' = tail
        BY <1>1, <1>2, <2>2, Cursors DEF Accept
      <3>2. \A c \in Cell : head' <= c /\ c < tail => data[c] = got - tail + c
        BY <1>1, <1>4, <3>1, Cursors DEF Contents, Cell
      <3>3. QED
        BY <1>1, <1>4, <3>1, <3>2 DEF Contents
    <2>3. QED
      BY <2>1, <2>2
  <1>7. Ready' /\ Prompt'
    BY DEF Accept, Ready, Prompt
  <1>8. QED
    BY <1>5, <1>6, <1>7 DEF IInv

(* The cases of a loop that is left.                                       *)
LEMMA GivesUp ==
  ASSUME IInv, Hangup \/ Refuse \/ Corrupted
  PROVE  IInv'
  <1>1. TypeOK /\ Contents
    BY DEF IInv
  <1>2. CASE Hangup
    <2>1. TypeOK' /\ Contents'
      BY <1>1, <1>2 DEF Hangup, TypeOK, Contents
    <2>2. QED
      BY <1>2, <2>1 DEF Hangup, IInv, Ready, Prompt
  <1>3. CASE Refuse \/ Corrupted
    <2>1. /\ Compact /\ UNCHANGED <<field, got>> /\ pc' = "closed"
          /\ handled' \in Seq(Seq(Nat))
      <3>1. handled \in Seq(Seq(Nat))
        BY <1>1 DEF TypeOK
      <3>2. CASE Refuse
        <4>1. Packet \in Seq(Nat)
          BY <3>2, PacketIsStretch DEF Refuse
        <4>2. Append(handled, Packet) \in Seq(Seq(Nat))
          BY <3>1, <4>1, AppendProperties
        <4>3. QED
          BY <3>1, <3>2, <4>2 DEF Refuse
      <3>3. CASE Corrupted
        BY <3>1, <3>3 DEF Corrupted
      <3>4. QED
        BY <1>3, <3>2, <3>3
    <2>2. TypeOK'
      <3>1. /\ head' = 0 /\ tail' = Available /\ Available \in Nat
            /\ Available <= Capacity /\ data' \in [Cell -> Nat]
        BY <1>1, <2>1, CompactKeeps, Cursors
      <3>2. QED
        BY <1>1, <2>1, <3>1, Cursors DEF TypeOK
    <2>3. QED
      BY <2>1, <2>2, CompactKeeps DEF IInv, Ready, Prompt
  <1>4. QED
    BY <1>2, <1>3

(* What is left after the last complete packet is less than a packet, so   *)
(* that there is room behind it.                                           *)
LEMMA IncompleteLeavesLittle ==
  ASSUME IInv, Incomplete
  PROVE  /\ Available < MaxPacket
         /\ Available < Header \/ Available < field[At]
         /\ pc' = "recv"
  <1>1. TypeOK /\ Contents
    BY DEF IInv
  <1>2. /\ Available < MaxPacket
        /\ Available < Header \/ Available < field[At]
    <2>1. CASE ~HasHeader
      BY <1>1, <2>1, Cursors DEF HasHeader
    <2>2. CASE HasHeader
      <3>1. Size \in Nat /\ Size = field[At]
        BY <2>2, SizeAtHead
      <3>2. Size <= MaxPacket /\ Available < Size
        BY <1>1, <2>2, <3>1, Cursors
        DEF Incomplete, PeekPacket, IsCorrupted, WellFormed
      <3>3. QED
        BY <1>1, <3>1, <3>2, Cursors
    <2>3. QED
      BY <2>1, <2>2
  <1>3. Writable' # 0
    BY <1>1, <1>2, CompactKeeps, Cursors DEF Incomplete, Writable
  <1>4. QED
    BY <1>2, <1>3 DEF Incomplete

LEMMA IncompleteIInv ==
  ASSUME IInv, Incomplete
  PROVE  IInv'
  <1>1. TypeOK
    BY DEF IInv
  <1>2. /\ Compact /\ UNCHANGED <<field, got, handled>> /\ pc' = "recv"
        /\ Available < MaxPacket
        /\ Available < Header \/ Available < field[At]
    BY IncompleteLeavesLittle DEF Incomplete
  <1>3. TypeOK'
    BY <1>1, <1>2, CompactKeeps, Cursors DEF TypeOK
  <1>4. Ready' /\ Prompt'
    BY <1>2, CompactKeeps DEF Ready, Prompt, At
  <1>5. QED
    BY <1>2, <1>3, <1>4, CompactKeeps DEF IInv

LEMMA NextIInv == IInv /\ [Next]_vars => IInv'
  <1>1. ASSUME IInv, UNCHANGED vars
        PROVE  IInv'
    BY <1>1 DEF vars, IInv, TypeOK, Contents, Ready, Prompt, Available
  <1>2. QED
    BY <1>1, RecvIInv, AcceptIInv, GivesUp, IncompleteIInv DEF Next

LEMMA Invariant == Spec => []IInv
  <1>1. QED
    BY InitIInv, NextIInv, PTL DEF Spec

-----------------------------------------------------------------------------
(* The cursors never cross nor leave the array, and no byte is read that   *)
(* was not received.                                                       *)
THEOREM BufferTypeOK == Spec => []TypeOK
  <1>1. IInv => TypeOK
    BY DEF IInv
  <1>2. QED
    BY <1>1, Invariant, PTL

(* The branch of HandleSession that drops a session because its buffer is  *)
(* full is never taken, as long as a packet fits into the buffer.          *)
THEOREM FullBranchDead == Spec => []NeverFull
  <1>1. IInv => NeverFull
    BY Cursors DEF IInv, Ready, NeverFull, Writable
  <1>2. QED
    BY <1>1, Invariant, PTL

(* The loop never waits for bytes while it has a complete packet.          *)
THEOREM PromptHandling == Spec => []Prompt
  <1>1. IInv => Prompt
    BY DEF IInv
  <1>2. QED
    BY <1>1, Invariant, PTL

(* A session that goes on moves less than a packet when it compacts.       *)
THEOREM SmallMoves == Spec => MovesLittle
  <1>1. ASSUME IInv, [Next]_vars, pc = "parse", pc' = "recv"
        PROVE  tail' < MaxPacket
    <2>1. Incomplete
      BY <1>1 DEF Next, Recv, Hangup, Accept, Refuse, Corrupted, vars
    <2>2. QED
      BY <1>1, <2>1, IncompleteLeavesLittle, CompactKeeps DEF Incomplete
  <1>2. IInv /\ [Next]_vars => [pc = "parse" /\ pc' = "recv" => tail' < MaxPacket]_vars
    BY <1>1
  <1>3. QED
    BY <1>2, Invariant, PTL DEF Spec, MovesLittle

-----------------------------------------------------------------------------
(* The refinement: a packet at the head is the next packet of the stream.  *)
LEMMA NextPacket ==
  ASSUME IInv, PeekPacket
  PROVE  /\ At \in DOMAIN field
         /\ Packets!WellFormed(field[At])
         /\ Packet = Packets!Bytes(field[At])
  <1>1. TypeOK /\ At \in 0 .. Stream - 1 /\ Size = field[At]
    BY SizeAtHead DEF IInv, PeekPacket
  <1>2. QED
    BY <1>1, PacketIsStretch
    DEF TypeOK, At, Packets!WellFormed, Packets!Bytes

LEMMA StepMaps ==
  ASSUME IInv, [Next]_vars
  PROVE  [Packets!Handle \/ Packets!Stop]_(Packets!packets)
  <1>1. TypeOK
    BY DEF IInv
  <1>2. ASSUME NEW n \in 1 .. Capacity, Recv(n)
        PROVE  UNCHANGED Packets!packets
    BY <1>1, <1>2, Cursors DEF Recv, Available, Packets!packets
  <1>3. CASE Hangup
    BY <1>3 DEF Hangup, Available, Packets!Stop
  <1>4. CASE Accept
    <2>1. PeekPacket /\ Size = field[At] /\ Size \in Nat
      BY <1>4, SizeAtHead DEF Accept, PeekPacket
    <2>2. Available' = Available - Size
      BY <1>1, <1>4, <2>1, Cursors DEF Accept, Available
    <2>3. got' - Available' = At + field[At]
      BY <1>1, <1>4, <2>1, <2>2, Cursors DEF Accept, At
    <2>4. Packets!Handle
      BY <1>4, <2>1, <2>3, NextPacket DEF Accept, At, Packets!Handle
    <2>5. QED
      BY <2>4
  <1>5. CASE Refuse
    <2>1. got' - Available' = At
      BY <1>5, CompactKeeps DEF Refuse, At
    <2>2. CASE handled' = handled
      BY <1>5, <2>1, <2>2 DEF Refuse, At, Packets!Stop
    <2>3. CASE handled' = Append(handled, Packet)
      <3>1. PeekPacket
        BY <1>5 DEF Refuse
      <3>2. Packets!Handle
        BY <1>5, <2>1, <2>3, <3>1, NextPacket DEF Refuse, At, Packets!Handle
      <3>3. QED
        BY <3>2
    <2>4. QED
      BY <1>5, <2>2, <2>3 DEF Refuse
  <1>6. CASE Corrupted
    <2>1. got' - Available' = At
      BY <1>6, CompactKeeps DEF Corrupted, At
    <2>2. QED
      BY <1>6, <2>1 DEF Corrupted, At, Packets!Stop
  <1>7. CASE Incomplete
    <2>1. got' - Available' = At /\ pc' = "recv"
      BY <1>7, CompactKeeps, IncompleteLeavesLittle DEF Incomplete, At
    <2>2. QED
      BY <1>7, <2>1 DEF Incomplete, At, Packets!packets
  <1>8. CASE UNCHANGED vars
    BY <1>8 DEF vars, Available, Packets!packets
  <1>9. QED
    BY <1>2, <1>3, <1>4, <1>5, <1>6, <1>7, <1>8 DEF Next

(* The loop implements PacketStream: whatever the client sends and however *)
(* the network cuts it, the handlers get the packets of the stream, whole, *)
(* in order, each once, and nothing after the session has given up.        *)
THEOREM Refinement == Spec => PacketSpec
  <1>1. Init => Packets!Init
    BY DEF Init, Available, Packets!Init
  <1>2. QED
    BY <1>1, StepMaps, Invariant, PTL DEF Spec, PacketSpec, Packets!Spec
=============================================================================
