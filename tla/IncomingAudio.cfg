CONSTANTS
  Items = {i1, i2, i3}
  Users = {u1}
  MaxPackets = 1
  Nil = Nil
SPECIFICATION Spec
INVARIANTS AttachedHear
\* All packets may have been received.
CHECK_DEADLOCK FALSE
