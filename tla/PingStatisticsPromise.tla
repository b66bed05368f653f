----------------------- MODULE PingStatisticsPromise ------------------------
(***************************************************************************)
(* What PingStatistics promises, and the part of its state that the        *)
(* promise is about.                                                       *)
(***************************************************************************)
EXTENDS Integers, Sequences, Null

CONSTANTS Slots,   \* the length of tcpPingTimes, 12 in the code
          Wrap     \* the counter is kept modulo this, 2^32 in the code

VARIABLES
  tcpPingAvg, tcpPingVar,
  handler,   \* handlePing: idle, average, variance, panicked
  pinged,    \* the last ping that pingRoutine has sent, Nil for none
  history    \* the times of all pings received, Nil for one without a timestamp

\* What a loop over the slots up to last adds up.
Sum(values, last) ==
  LET sum[i \in 0..last] == values[i] + IF i = 0 THEN 0 ELSE sum[i - 1]
  IN  sum[last]

-----------------------------------------------------------------------------
(***************************************************************************)
(* If all pings have a timestamp, the average and the variance are those   *)
(* of the last pings, as many as there are slots for at most               *)
(* (handlers.go:196-221), up to the ping at which the counter wraps        *)
(* around.                                                                 *)
(***************************************************************************)
AverageOfRecent ==
  handler = "idle" /\ history # <<>> /\ (\A k \in DOMAIN history : history[k] # Nil) =>
    LET n == IF Len(history) < Slots THEN Len(history) ELSE Slots
        recent == [i \in 0..(n - 1) |-> history[Len(history) - n + 1 + i]]
        sum == Sum(recent, n - 1)
    IN  /\ tcpPingAvg = [of |-> Len(history), sum |-> sum, n |-> n]
        /\ tcpPingVar = [of |-> Len(history), n |-> n^3,
                         sum |-> Sum([i \in 0..(n - 1) |-> (sum - n * recent[i])^2], n - 1)]

(***************************************************************************)
(* The statistics that a ping carries may be of different pings, as they   *)
(* are read without a lock, but the variance is at most one ping with a    *)
(* time older than the average, and both are of pings that were counted    *)
(* (client.go:261-263, handlers.go:191, 220-221).                          *)
(***************************************************************************)
SentInOrder ==
  pinged # Nil =>
    /\ \A k \in (pinged.var.of + 1)..(pinged.avg.of - 1) : history[k] = Nil
    /\ Len(history) < Wrap => pinged.packets >= pinged.avg.of /\ pinged.packets >= pinged.var.of
=============================================================================
