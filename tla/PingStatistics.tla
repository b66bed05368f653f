---------------------------- MODULE PingStatistics ----------------------------
(***************************************************************************)
(* The statistics of the pings: handlePing, in the read routine, counts    *)
(* the server's pings and keeps the average and the variance of the last   *)
(* round trip times; pingRoutine sends them with its own pings.  The two   *)
(* share atomic variables and no lock.                                     *)
(***************************************************************************)
EXTENDS PingStatisticsPromise

CONSTANTS Times,     \* round trip times
          MaxPings   \* bound on the number of pings received

VARIABLES
  tcpPacketsReceived, tcpPingTimes,
  index,    \* of handlePing
  sender,   \* pingRoutine: waiting, average, variance, write
  local     \* its tcpPingAvg and tcpPingVar

statVars == <<tcpPacketsReceived, tcpPingTimes, tcpPingAvg, tcpPingVar, handler,
              index, sender, local, pinged, history>>

\* A value with the number of the ping it was made at.
Zero == [of |-> 0, sum |-> 0, n |-> 1]

StatsInit ==
  /\ tcpPacketsReceived = 0 /\ tcpPingTimes = [i \in 0..(Slots - 1) |-> 0]
  /\ tcpPingAvg = Zero /\ tcpPingVar = Zero
  /\ handler = "idle" /\ index = 0
  /\ sender = "average" /\ local = [avg |-> Zero, var |-> Zero]
  /\ pinged = Nil /\ history = <<>>

\* Sums over the slots up to index; the average is avg.sum / avg.n, and the
\* variance the same of the squares of n times the distances.
Average(times, last) ==
  [of |-> Len(history), sum |-> Sum([i \in 0..last |-> times[i]], last), n |-> last + 1]
Variance(times, last) ==
  LET n == last + 1
      sum == Sum([i \in 0..last |-> times[i]], last)
  IN  [of |-> Len(history),
       sum |-> Sum([i \in 0..last |-> (sum - n * times[i])^2], last), n |-> n^3]

\* Faulty: the times are not moved when the slots are used up.
Shift_None(times) == times

Shift(times) == [i \in 0..(Slots - 1) |-> IF i = Slots - 1 THEN times[i] ELSE times[i + 1]]

\* handlePing up to the time in its slot; a counter that has wrapped around
\* makes an index below 0.
HandlePing(time) ==
  LET count == (tcpPacketsReceived + 1) % Wrap
      full == count - 1 >= Slots
      at == IF full THEN Slots - 1 ELSE count - 1
  IN  /\ handler = "idle" /\ Len(history) < MaxPings
      /\ tcpPacketsReceived' = count
      /\ history' = Append(history, time)
      /\ IF time = Nil
         THEN UNCHANGED <<handler, index, tcpPingTimes>>
         ELSE IF at < 0
         THEN handler' = "panicked" /\ UNCHANGED <<index, tcpPingTimes>>
         ELSE /\ handler' = "average" /\ index' = at
              /\ tcpPingTimes' = [(IF full THEN Shift(tcpPingTimes) ELSE tcpPingTimes)
                                    EXCEPT ![at] = time]
      /\ UNCHANGED <<tcpPingAvg, tcpPingVar, sender, local, pinged>>

StoreAverage ==
  /\ handler = "average" /\ handler' = "variance"
  /\ tcpPingAvg' = Average(tcpPingTimes, index)
  /\ UNCHANGED <<tcpPacketsReceived, tcpPingTimes, tcpPingVar, index, sender, local, pinged,
                 history>>

StoreVariance ==
  /\ handler = "variance" /\ handler' = "idle"
  /\ tcpPingVar' = Variance(tcpPingTimes, index)
  /\ UNCHANGED <<tcpPacketsReceived, tcpPingTimes, tcpPingAvg, index, sender, local, pinged,
                 history>>

-----------------------------------------------------------------------------
(* pingRoutine                                                             *)

Unreceived ==
  UNCHANGED <<tcpPacketsReceived, tcpPingTimes, tcpPingAvg, tcpPingVar, handler, index, history>>

LoadAverage ==
  /\ sender = "average" /\ sender' = "variance"
  /\ local' = [local EXCEPT !.avg = tcpPingAvg]
  /\ UNCHANGED pinged /\ Unreceived

\* Faulty: the variance of the ping before.
LoadVariance_Kept ==
  /\ sender = "variance" /\ sender' = "write"
  /\ UNCHANGED <<local, pinged>> /\ Unreceived

LoadVariance ==
  /\ sender = "variance" /\ sender' = "write"
  /\ local' = [local EXCEPT !.var = tcpPingVar]
  /\ UNCHANGED pinged /\ Unreceived

\* The counter is read when the packet is marshalled.
WritePing ==
  /\ sender = "write" /\ sender' = "waiting"
  /\ pinged' = [avg |-> local.avg, var |-> local.var, packets |-> tcpPacketsReceived]
  /\ UNCHANGED local /\ Unreceived

Tick ==
  /\ sender = "waiting" /\ sender' = "average"
  /\ UNCHANGED <<local, pinged>> /\ Unreceived

StatsNext ==
  \/ \E time \in Times \cup {Nil} : HandlePing(time)
  \/ StoreAverage \/ StoreVariance
  \/ LoadAverage \/ LoadVariance \/ WritePing \/ Tick
=============================================================================
