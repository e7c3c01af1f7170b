---------------------------- MODULE PacketBuffer ----------------------------
(***************************************************************************)
(* The receive side of one session: the fixed buffer with its two cursors  *)
(* and the loop of HandleSession that receives into it, cuts packets out   *)
(* of it and hands them to the handlers.                                   *)
(*                                                                         *)
(* The bytes of the connection are numbered from 0, in the order in which  *)
(* the client sends them, and a cell of the buffer holds the number of the *)
(* byte in it.  field[k] is the size that is read when byte k is taken for *)
(* the first byte of a header: of the content of the stream the loop looks *)
(* at nothing else, and a client may send anything.                        *)
(***************************************************************************)
EXTENDS Integers, Sequences

CONSTANTS
  Header,     \* sizeof(PacketHeader)
  MaxPacket,  \* MAX_PACKET_BYTES
  Capacity,   \* PacketBuffer::CAPACITY
  Field,      \* the values a size field may have
  Stream      \* bound: the bytes the client sends

ASSUME BufferAssumption ==
  /\ Header \in Nat \ {0} /\ MaxPacket \in Nat /\ Capacity \in Nat
  /\ Header <= MaxPacket /\ MaxPacket <= Capacity
  /\ Field \subseteq Nat /\ Stream \in Nat

VARIABLES
  field,    \* the content of the stream
  got,      \* bytes received so far
  data,     \* m_data
  head,     \* m_head
  tail,     \* m_tail
  pc,       \* where the loop is
  handled   \* history: the packets handed to handlers

vars == <<field, got, data, head, tail, pc, handled>>

Cell == 0 .. Capacity - 1

Init ==
  /\ field \in [0 .. Stream - 1 -> Field]
  /\ got = 0
  /\ data = [c \in Cell |-> 0]
  /\ head = 0 /\ tail = 0
  /\ pc = "recv"
  /\ handled = <<>>

Writable  == Capacity - tail
Available == tail - head

(* (Mistakes to test the properties: the bytes stay where they are; the    *)
(* early return is taken when it should not be.)                           *)
CompactedNot == data
CompactNever == UNCHANGED <<data, head, tail>>

(* Compact: what is left is moved to the front.                            *)
Compacted == [c \in Cell |-> IF c + head \in Cell /\ c < Available
                               THEN data[c + head] ELSE data[c]]

Compact ==
  /\ data' = IF head = 0 THEN data ELSE Compacted
  /\ head' = 0
  /\ tail' = Available

(* The size field at the head; PeekPacket and IsCorrupted look at it only  *)
(* when a whole header is there.                                           *)
Size      == field[data[head]]
HasHeader == Available >= Header

WellFormed  == Size >= Header /\ Size <= MaxPacket
PeekPacket  == HasHeader /\ WellFormed /\ Available >= Size
IsCorrupted == HasHeader /\ ~WellFormed

-----------------------------------------------------------------------------
(* RecvSender completes with between one byte and all that there is room   *)
(* for, wherever the network cut the stream.                               *)
Recv(n) ==
  /\ pc = "recv" /\ n <= Writable /\ got + n <= Stream
  /\ data' = [c \in Cell |-> IF c \in tail .. tail + n - 1 THEN got + c - tail
                                                           ELSE data[c]]
  /\ tail' = tail + n
  /\ got' = got + n
  /\ pc' = "parse"
  /\ UNCHANGED <<field, head, handled>>

(* The peer closed the connection, or it failed.                           *)
Hangup ==
  /\ pc = "recv"
  /\ pc' = "closed"
  /\ UNCHANGED <<field, got, data, head, tail, handled>>

Packet == [k \in 1 .. Size |-> data[head + k - 1]]

(* A handler takes the packet, and Consume moves past it...                *)
Accept ==
  /\ pc = "parse" /\ PeekPacket
  /\ handled' = Append(handled, Packet)
  /\ IF head + Size = tail THEN head' = 0 /\ tail' = 0
     ELSE head' = head + Size /\ UNCHANGED tail
  /\ UNCHANGED <<field, got, data, pc>>

(* ... or refuses it, or there is no handler for its type.                 *)
Refuse ==
  /\ pc = "parse" /\ PeekPacket
  /\ \/ handled' = Append(handled, Packet)
     \/ UNCHANGED handled
  /\ Compact
  /\ pc' = "closed"
  /\ UNCHANGED <<field, got>>

Corrupted ==
  /\ pc = "parse" /\ ~PeekPacket /\ IsCorrupted
  /\ Compact
  /\ pc' = "closed"
  /\ UNCHANGED <<field, got, handled>>

(* The packet at the head has not arrived completely.  Compact, and back   *)
(* to the top of the loop, which gives up if there is still no room (to    *)
(* compact once more, as it does first, changes nothing).                  *)
Incomplete ==
  /\ pc = "parse" /\ ~PeekPacket /\ ~IsCorrupted
  /\ Compact
  /\ pc' = IF Writable' = 0 THEN "full" ELSE "recv"
  /\ UNCHANGED <<field, got, handled>>

Next ==
  \/ \E n \in 1 .. Capacity : Recv(n)
  \/ Hangup \/ Accept \/ Refuse \/ Corrupted \/ Incomplete

Spec == Init /\ [][Next]_vars

-----------------------------------------------------------------------------
(* Every variable stays in its range; the cursors do not cross and stay in *)
(* the array.                                                              *)
TypeOK ==
  /\ field \in [0 .. Stream - 1 -> Field]
  /\ got \in 0 .. Stream
  /\ data \in [Cell -> Nat]
  /\ head \in 0 .. Capacity /\ tail \in head .. Capacity
  /\ pc \in {"recv", "parse", "full", "closed"}
  /\ handled \in Seq(Seq(Nat))

(* A session is never dropped because its buffer is full: whatever the     *)
(* client sends and however it is cut, there is room for the next receive. *)
(* (The branch "recv buffer full" of HandleSession.)                       *)
NeverFull == pc # "full" /\ (pc = "recv" => Writable > 0)

(* packet_buffer.h:85: what Compact moves for a session that goes on is    *)
(* less than one packet.                                                   *)
MovesLittle ==
  [][pc = "parse" /\ pc' = "recv" => tail' < MaxPacket]_vars

(* No complete packet waits in the buffer for the next bytes to arrive.    *)
Prompt ==
  pc = "recv" =>
    \/ Available < Header
    \/ Available < field[got - Available]

(* The loop implements PacketStream: the handlers get the packets of the   *)
(* stream, whole, in order and each once, whatever the fragmentation.      *)
Packets == INSTANCE PacketStream WITH
             at <- got - Available,
             open <- pc \in {"recv", "parse"}
PacketSpec == Packets!Spec
=============================================================================
