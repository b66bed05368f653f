CONSTANTS
  outer = outer
  inner = inner
  other = other
  NoCall = NoCall
  Calls <- MCCalls
  Outer <- MCOuter
  Writers = {g1, g2}
SPECIFICATION FairSpec
INVARIANTS UnlocksWhatIsLocked
PROPERTIES ImplementsRwLock LockProgress
