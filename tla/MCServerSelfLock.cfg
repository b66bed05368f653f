\* Users that come and go.
CONSTANTS
  Root = 0
  ChannelIDs = {0, 1}
  Sessions = {s1}
  ChanRefs = {c1, c2}
  UserRefs = {u1, u2}
  UserIDs = {Unset, MaxUint32}
  MaxUint32 = MaxUint32
  Unset = Unset
  Values = {}
  Texts = {}
  Hashes = {}
  Nil = Nil
  Servers <- OnlyUsers
SYMMETRY Symmetry
SPECIFICATION MCSpec
INVARIANTS NeverSelfLocked
\* The server may have nothing more to send, or the objects run out.
CHECK_DEADLOCK FALSE
