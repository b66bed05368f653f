CONSTANTS
  Nil = Nil
  Root = 0
  ChannelIDs = {0, 1, 2}
  Me = 1
  Sessions = {1, 2}
  ChanRefs = {101, 102, 103, 104}
  UserRefs = {201, 202, 203}
  MaxUint32 = MaxUint32
  UserIDs = {Unset, r1, MaxUint32}
  Unset = Unset
  Values = {v1, v2}
  Texts = {t1, t2}
  Hashes = {t1, t2}
  MaxChanges = 2
  Worlds <- MCWorlds
  Servers <- MCServers
SPECIFICATION MCSpec
INVARIANTS ReplicaFollows PathFinds
\* All changes may have been made and all packets been handled.
CHECK_DEADLOCK FALSE
