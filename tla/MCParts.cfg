CONSTANTS
  Nil = Nil
  Unset = Unset
  Players = {g1, g2}
  Procs = {p1, p2, p3}
  Ticks = 2
  UserIDs = {1, 2}
  Slots = 2
  Wrap = 4
  Users = {1}
  Buffers = 2
  MaxBanChanges = 3
  MaxUserChanges = 4
  MaxPings = 4
  MaxPackets = 2
SPECIFICATION MCSpec
INVARIANTS AnswerIsOwn BansKept AverageOfRecent SentInOrder StatsOfLastPacket
INVARIANTS OneForEachPause ReleasedOnce BuffersConserved
PROPERTIES PingReturns GroupsAnswered UntouchedStay  SourcesEnd
\* A program may ask for nothing more, and a stream may be stopped with its
\* callers left in Pause.
CHECK_DEADLOCK FALSE
