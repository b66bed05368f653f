\* Context actions.
CONSTANTS
  Root = 0
  ChannelIDs = {0}
  Sessions = {s1}
  ChanRefs = {c1}
  UserRefs = {u1}
  UserIDs = {Unset, MaxUint32}
  MaxUint32 = MaxUint32
  Unset = Unset
  Values = {}
  Texts = {}
  Hashes = {}
  Nil = Nil
  Servers <- OnlyActions
SYMMETRY Symmetry
SPECIFICATION MCSpec
PROPERTIES ContextActionsKept
\* The server may have nothing more to send, or the objects run out.
CHECK_DEADLOCK FALSE
