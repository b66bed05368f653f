--------------------------- MODULE UdpPingPromise ---------------------------
(***************************************************************************)
(* What UdpPing promises, and the part of its state that the promise is    *)
(* about.                                                                  *)
(***************************************************************************)
EXTENDS Naturals, Sequences, Null

VARIABLES
  sentIds,  \* the identifiers of the packets that were written
  result,   \* Nil, Error or the answer
  ignored,  \* history: the identifiers of the answers that were not accepted
  short     \* history: a datagram shorter than an answer has arrived

Answer(i) == <<[id |-> i], [numbers |-> i]>>
Error == <<>>

-----------------------------------------------------------------------------
(***************************************************************************)
(* The answer that Ping returns is the server's to a packet of this call,  *)
(* and no answer to one of its packets is passed over, however fast it     *)
(* comes (ping.go:60-63, 90-96).  Both hold until a datagram has come that *)
(* is shorter than an answer.                                              *)
(***************************************************************************)
AnswerIsOwn ==
  short \/ /\ result \notin {Nil, Error} => result \in {Answer(i) : i \in sentIds}
           /\ ignored \cap sentIds = {}
=============================================================================
