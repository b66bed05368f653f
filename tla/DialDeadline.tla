---------------------------- MODULE DialDeadline ----------------------------
(***************************************************************************)
(* How long DialWithDialer may take: the dialer's Timeout and Deadline,    *)
(* which tls.DialWithDialer keeps to, and the timer for the synchronization*)
(* that is made of them when the connection has been established.          *)
(*                                                                         *)
(* The clock starts at 0 with the call.  A timer fires on time.            *)
(***************************************************************************)
EXTENDS Integers, FiniteSetsExt

CONSTANTS MaxTime,   \* bound on Timeout and Deadline
          Nil

VARIABLES
  Timeout,   \* of the dialer, 0 for none
  Deadline,  \* of the dialer, Nil for none
  clock,
  dial,      \* where DialWithDialer is: dialing, selecting, returned
  timer      \* the time at which its timer fires, Nil for none

vars == <<Timeout, Deadline, clock, dial, timer>>

Init ==
  /\ Timeout \in 0..MaxTime /\ Deadline \in 1..MaxTime \cup {Nil}
  /\ clock = 0 /\ dial = "dialing" /\ timer = Nil

\* The earlier of the two; start is 0.
deadline ==
  LET limits == ({Timeout} \ {0}) \cup ({Deadline} \ {Nil})
  IN  IF limits = {} THEN Nil ELSE Min(limits)

Due(time) == time # Nil /\ clock >= time

Tick ==
  /\ clock < 2 * MaxTime
  /\ dial = "dialing" => ~Due(deadline)
  /\ dial = "selecting" => ~Due(timer)
  /\ clock' = clock + 1
  /\ UNCHANGED <<Timeout, Deadline, dial, timer>>

\* tls.DialWithDialer, the handshake included, is given up.
DialFails ==
  /\ dial = "dialing" /\ Due(deadline)
  /\ dial' = "returned"
  /\ UNCHANGED <<Timeout, Deadline, clock, timer>>

\* The timer is made with the whole of deadline.Sub(start).
DialConnects ==
  /\ dial = "dialing"
  /\ dial' = "selecting"
  /\ timer' = IF deadline = Nil THEN Nil ELSE clock + deadline
  /\ UNCHANGED <<Timeout, Deadline, clock>>

\* The server has synchronized the client or rejected it.
Answered ==
  /\ dial = "selecting"
  /\ dial' = "returned"
  /\ UNCHANGED <<Timeout, Deadline, clock, timer>>

TimerFires ==
  /\ dial = "selecting" /\ Due(timer)
  /\ dial' = "returned"
  /\ UNCHANGED <<Timeout, Deadline, clock, timer>>

Next == Tick \/ DialFails \/ DialConnects \/ Answered \/ TimerFires

Spec == Init /\ [][Next]_vars

-----------------------------------------------------------------------------
(***************************************************************************)
(* "nil and an error is returned if server synchronization does not        *)
(* complete by min(time.Now() + dialer.Timeout, dialer.Deadline)"          *)
(* (client.go:102-103): after that time DialWithDialer does not wait any   *)
(* more.                                                                   *)
(***************************************************************************)
ReturnsByDeadline == deadline # Nil /\ clock > deadline => dial = "returned"
=============================================================================
