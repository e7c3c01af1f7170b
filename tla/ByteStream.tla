----------------------------- MODULE ByteStream -----------------------------
(***************************************************************************)
(* What the sending side of a session promises to those who enqueue        *)
(* packets: messages are numbered in the order in which they are accepted, *)
(* the socket takes them in that order, each at most once, and the only    *)
(* way to lose one is to lose everything that waits with it.               *)
(***************************************************************************)
EXTENDS Integers, Sequences

CONSTANT MaxMsg   \* bound on the messages ever accepted

VARIABLES
  accepted,  \* how many messages have been accepted
  backlog,   \* the accepted ones that neither left nor were lost
  wire       \* what the socket has taken

stream == <<accepted, backlog, wire>>

Init == accepted = 0 /\ backlog = <<>> /\ wire = <<>>

Put ==
  /\ accepted < MaxMsg
  /\ accepted' = accepted + 1
  /\ backlog' = Append(backlog, accepted + 1)
  /\ UNCHANGED wire

Take ==
  \E k \in 1 .. Len(backlog) :
    /\ wire' = wire \o SubSeq(backlog, 1, k)
    /\ backlog' = SubSeq(backlog, k + 1, Len(backlog))
    /\ UNCHANGED accepted

Lose ==
  /\ backlog' = <<>>
  /\ UNCHANGED <<accepted, wire>>

Next == Put \/ Take \/ Lose

Spec == Init /\ [][Next]_stream
=============================================================================
