\* Packets that look objects up, and copied fields.
CONSTANTS
  Root = 0
  ChannelIDs = {0, 1}
  Sessions = {s1}
  ChanRefs = {c1, c2}
  UserRefs = {u1, u2}
  UserIDs = {Unset, id1, MaxUint32}
  MaxUint32 = MaxUint32
  Unset = Unset
  Values = {v1}
  Texts = {t1}
  Hashes = {h1}
  Nil = Nil
  Servers <- EventServers
SYMMETRY Symmetry
SPECIFICATION MCSpec
INVARIANTS EventObjectsUsable
 
\* The server may have nothing more to send, or the objects run out.
CHECK_DEADLOCK FALSE
