---------------------------- MODULE MCReadRoutine ----------------------------
(***************************************************************************)
(* What the read routine takes part in, one in each behaviour: the life of *)
(* the client, with two goroutines that disconnect and a server that may   *)
(* send ServerSync twice; two audio listeners that come and go while two   *)
(* users speak; and four event listeners that come and go while events are *)
(* reported.                                                               *)
(***************************************************************************)
EXTENDS ClientLifecycle, Listeners, IncomingAudioPromise, FiniteSets

CONSTANTS AudioItems, Users, MaxPackets

VARIABLES which,
  aHead, aTail, aPrev, aNext, aMade, aAttached, codec, decoder, present, gone,
  packets, sender, aItem, sending, streams, receiver, aStaying

audioVars == <<aHead, aTail, aPrev, aNext, aMade, aAttached, codec, decoder, present,
               gone, packets, sender, aItem, sending, streams, opened, receiver,
               received, spoken, aStaying>>
allVars == <<which, lifeVars, audioVars, vars>>

A == INSTANCE IncomingAudio WITH
       Items <- AudioItems, head <- aHead, tail <- aTail, prev <- aPrev,
       next <- aNext, made <- aMade, attached <- aAttached, item <- aItem,
       staying <- aStaying

\* A DialWithDialer that has returned an error.
NoClient ==
  /\ conn = "none" /\ state = "Connected" /\ connect = "open" /\ end = "open"
  /\ type = "Error" /\ self = "none"
  /\ dial = "returned" /\ result = "error" /\ hasDeadline = FALSE
  /\ read = "absent" /\ wasSynced = FALSE /\ ping = "absent"
  /\ call = [g \in Callers |-> "idle"]
  /\ known = FALSE /\ connected = FALSE /\ told = "none" /\ syncs = 0

MCInit ==
  /\ which \in {"life", "audio", "events"}
  /\ IF which = "life" THEN LifeInit ELSE NoClient
  /\ A!Init /\ Init

\* The items are interchangeable; they are made in order.
InOrder == made' = 1..Cardinality(made')

MCNext ==
  \/ /\ which = "life" /\ LifeNext
     /\ UNCHANGED <<which, audioVars, vars>>
  \/ /\ which = "audio" /\ A!Next
     /\ UNCHANGED <<which, lifeVars, vars>>
  \/ /\ which = "events" /\ Next /\ InOrder
     /\ UNCHANGED <<which, lifeVars, audioVars>>

\* No goroutine of a part that is not chosen can go on.
MCSpec == MCInit /\ [][MCNext]_allVars /\ LifeFairness /\ A!Fairness

-----------------------------------------------------------------------------
(***************************************************************************)
(* The read routine comes out of handing a packet to the streams           *)
(* (handlers.go:173; see IncomingAudio).                                   *)
(***************************************************************************)
ReaderReturns == A!ReaderReturns
=============================================================================
