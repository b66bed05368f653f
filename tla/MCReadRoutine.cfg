CONSTANTS
  Callers = {g1, g2}
  MaxSyncs = 2
  Items = {1, 2, 3, 4}
  AudioItems = {i1, i2}
  Users = {u1, u2}
  MaxPackets = 3
  Nil = Nil
SPECIFICATION MCSpec
INVARIANTS DialAfterOnConnect EventsPaired ReasonTruthful StreamsUnbroken StayingAreCalled
PROPERTIES  DialReturns RoutinesEnd ReaderReturns
\* Every goroutine may have come to its end, and all packets been sent.
CHECK_DEADLOCK FALSE
