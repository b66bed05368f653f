CONSTANTS
  Channels = {c1, c2}
  MaxFrames = 3
  MaxInt32 = 2
  Writers = {"program", "ping", "audio"}
  Messages <- MCMessages
  MaxMessages = 1
  MaximumPacketBytes = 6
  Nil = Nil
SPECIFICATION MCSpec
INVARIANTS StreamOnWire ResetIsDue RoundTrips
PROPERTIES RoutinesEnd ImplementsPacketLog
\* All frames and messages may have been written, or the connection be lost.
CHECK_DEADLOCK FALSE
