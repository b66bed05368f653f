\* Channels that move and are linked.
CONSTANTS
  Root = 0
  ChannelIDs = {0, 1, 2}
  Sessions = {}
  ChanRefs = {c1, c2, c3, c4}
  UserRefs = {}
  UserIDs = {Unset, MaxUint32}
  MaxUint32 = MaxUint32
  Unset = Unset
  Values = {}
  Texts = {}
  Hashes = {}
  Nil = Nil
  Servers <- ChannelServers
SYMMETRY Symmetry
SPECIFICATION MCSpec
INVARIANTS TreeConsistent LinksMutual
\* The server may have nothing more to send, or the objects run out.
CHECK_DEADLOCK FALSE
