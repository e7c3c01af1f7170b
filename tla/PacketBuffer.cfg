\* Seven bytes of any content, cut anywhere; packets of two or three bytes.
CONSTANTS
  Header = 2
  MaxPacket = 3
  Capacity = 5
  Field = {1, 2, 3, 4}
  Stream = 7
SPECIFICATION Spec
INVARIANT NeverFull
PROPERTY PacketSpec
\* A loop that was left, or a client that sends nothing more, stops.
CHECK_DEADLOCK FALSE
