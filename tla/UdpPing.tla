------------------------------- MODULE UdpPing -------------------------------
(***************************************************************************)
(* Ping: the goroutine that called it and waits for an answer until the    *)
(* deadline, the one that sends again at every interval, and the network,  *)
(* which loses, repeats and reorders datagrams and delivers others.        *)
(*                                                                         *)
(* A datagram from the server is a sequence of pieces of 12 bytes: the     *)
(* first of an answer holds the identifier, the second the numbers.        *)
(***************************************************************************)
EXTENDS UdpPingPromise

CONSTANTS Ids,        \* identifiers that rand.Read may give, one to each packet
          Foreign,    \* an identifier that it does not give
          Senders     \* the goroutines: "main" and, if interval > 0, "ticker"

VARIABLES
  pc,        \* of each sender: idle, built, registered, ended
  id,        \* the identifier of the packet it is sending
  ids,       \* the identifiers that are registered
  arrived,   \* the datagram in the socket, Nil for none
  incoming,  \* the pieces that were read
  deadline   \* it has passed

pingVars == <<pc, id, ids, sentIds, arrived, incoming, deadline, result, ignored, short>>

PingInit ==
  /\ pc = [s \in Senders |-> "idle"] /\ id = [s \in Senders |-> Nil]
  /\ ids = {} /\ sentIds = {} /\ arrived = Nil /\ incoming = <<>>
  /\ deadline = FALSE /\ result = Nil /\ ignored = {} /\ short = FALSE

-----------------------------------------------------------------------------
(* buildSendPacket, by the caller once and by the ticker's goroutine.      *)

Unsent == UNCHANGED <<arrived, incoming, deadline, result, ignored, short>>

Build(s, i) ==
  /\ pc[s] = "idle" /\ i \notin ids \cup {id[t] : t \in Senders}
  /\ pc' = [pc EXCEPT ![s] = "built"] /\ id' = [id EXCEPT ![s] = i]
  /\ UNCHANGED <<ids, sentIds>> /\ Unsent

After(s) == IF s = "main" THEN "reading" ELSE "idle"

\* rand.Read fails: nothing is sent.
BuildFails(s) ==
  /\ pc[s] = "idle"
  /\ pc' = [pc EXCEPT ![s] = After(s)]
  /\ UNCHANGED <<id, ids, sentIds>> /\ Unsent

\* Faulty: the packet goes out before its identifier is registered.
Register_Late(s) ==
  /\ pc[s] \in {"built", After(s)} /\ id[s] # Nil
  /\ IF pc[s] = "built"
     THEN pc' = [pc EXCEPT ![s] = "registered"] /\ UNCHANGED ids
     ELSE ids' = ids \cup {id[s]} /\ UNCHANGED pc
  /\ UNCHANGED <<id, sentIds>> /\ Unsent

Register(s) ==
  /\ pc[s] = "built"
  /\ pc' = [pc EXCEPT ![s] = "registered"] /\ ids' = ids \cup {id[s]}
  /\ UNCHANGED <<id, sentIds>> /\ Unsent

Write(s) ==
  /\ pc[s] = "registered"
  /\ pc' = [pc EXCEPT ![s] = After(s)]
  /\ sentIds' = sentIds \cup {id[s]}
  /\ UNCHANGED <<id, ids>> /\ Unsent

\* Ping has returned, and with it end is closed.
TickerEnds ==
  /\ "ticker" \in Senders /\ pc["ticker"] = "idle" /\ result # Nil
  /\ pc' = [pc EXCEPT !["ticker"] = "ended"]
  /\ UNCHANGED <<id, ids, sentIds>> /\ Unsent

-----------------------------------------------------------------------------
(* The network and the clock.                                              *)

Arrive ==
  /\ arrived = Nil /\ result = Nil
  /\ arrived' \in {Answer(i) : i \in sentIds \cup {Foreign}} \cup {<<Answer(Foreign)[1]>>}
                  \cup {Append(Answer(i), Answer(Foreign)[1]) : i \in sentIds}
  /\ short' = (short \/ Len(arrived') < 2)
  /\ UNCHANGED <<pc, id, ids, sentIds, incoming, deadline, result, ignored>>

Expire ==
  /\ ~deadline /\ deadline' = TRUE
  /\ UNCHANGED <<pc, id, ids, sentIds, arrived, incoming, result, ignored, short>>

-----------------------------------------------------------------------------
(* The caller.                                                             *)

\* io.ReadFull: what does not fit of a datagram is lost, and what is missing
\* is taken from the next one.  After the deadline every Read fails.
ReadPiece ==
  /\ pc["main"] = "reading" /\ result = Nil /\ ~deadline /\ arrived # Nil /\ Len(incoming) < 2
  /\ incoming' = incoming \o SubSeq(arrived, 1, IF Len(arrived) < 2 - Len(incoming)
                                               THEN Len(arrived) ELSE 2 - Len(incoming))
  /\ arrived' = Nil
  /\ UNCHANGED <<pc, id, ids, sentIds, deadline, result, ignored, short>>

Accept ==
  /\ pc["main"] = "reading" /\ Len(incoming) = 2 /\ result = Nil
  /\ LET got == incoming[1].id IN
       IF got \in ids
       THEN result' = incoming /\ UNCHANGED ignored
       ELSE ignored' = ignored \cup {got} /\ UNCHANGED result
  /\ incoming' = <<>>
  /\ UNCHANGED <<pc, id, ids, sentIds, arrived, deadline, short>>

\* Faulty: no deadline is set.
ReadFails_Never == FALSE /\ UNCHANGED pingVars

ReadFails ==
  /\ pc["main"] = "reading" /\ result = Nil /\ deadline /\ Len(incoming) < 2
  /\ result' = Error
  /\ UNCHANGED <<pc, id, ids, sentIds, arrived, incoming, deadline, ignored, short>>

PingNext ==
  \/ \E s \in Senders :
       (\E i \in Ids : Build(s, i)) \/ BuildFails(s) \/ Register(s) \/ Write(s)
  \/ TickerEnds \/ Arrive \/ Expire \/ ReadPiece \/ Accept \/ ReadFails

PingFairness ==
  /\ \A s \in Senders : WF_pingVars(Register(s)) /\ WF_pingVars(Write(s))
  /\ WF_pingVars(BuildFails("main") \/ \E i \in Ids : Build("main", i))
  /\ WF_pingVars(TickerEnds) /\ WF_pingVars(Expire)
  /\ WF_pingVars(Accept) /\ WF_pingVars(ReadFails)

-----------------------------------------------------------------------------
(***************************************************************************)
(* Ping returns, whatever arrives, and its goroutine ends (ping.go:35, 47, *)
(* 69).                                                                    *)
(***************************************************************************)
PingReturns == <>(result # Nil /\ \A s \in Senders \ {"main"} : pc[s] = "ended")
=============================================================================
