CONSTANTS
  MaxTime = 3
  Nil = Nil
SPECIFICATION Spec
INVARIANTS ReturnsByDeadline
\* DialWithDialer returns.
CHECK_DEADLOCK FALSE
