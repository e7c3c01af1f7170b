---------------------------- MODULE PacketStream ----------------------------
(***************************************************************************)
(* What the receiving side of a session promises to the packet handlers.   *)
(* The bytes of the connection are numbered from 0; field[k] is the size   *)
(* field that a packet header starting at byte k carries.  Packets follow  *)
(* one another without gaps, each handler call gets exactly the bytes of   *)
(* one packet, and nothing is handled after the session has given up.      *)
(***************************************************************************)
EXTENDS Integers, Sequences

CONSTANTS Header, MaxPacket

VARIABLES
  field,    \* the bytes the client sends, as far as framing sees them
  at,       \* where the next packet starts
  handled,  \* the packets handed to handlers, each the sequence of its bytes
  open      \* the receive loop is running

packets == <<field, at, handled, open>>

WellFormed(size) == size \in Header .. MaxPacket

Bytes(size) == [k \in 1 .. size |-> at + k - 1]

Handle ==
  /\ open /\ at \in DOMAIN field /\ WellFormed(field[at])
  /\ handled' = Append(handled, Bytes(field[at]))
  /\ \/ at' = at + field[at] /\ UNCHANGED open
     \/ open' = FALSE /\ UNCHANGED at
  /\ UNCHANGED field

Stop == open /\ open' = FALSE /\ UNCHANGED <<field, at, handled>>

Init == at = 0 /\ handled = <<>> /\ open = TRUE

Spec == Init /\ [][Handle \/ Stop]_packets
=============================================================================
