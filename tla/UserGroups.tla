------------------------------ MODULE UserGroups ------------------------------
(***************************************************************************)
(* gumbleutil.UserGroups: calls for one channel, each in a goroutine of    *)
(* its own that then receives from the channel it was given, and the read  *)
(* routine, which calls the listeners that the calls have attached.        *)
(***************************************************************************)
EXTENDS Naturals, Sequences, SequencesExt

CONSTANTS Calls, Nil

VARIABLES
  pc,         \* of each call: start, attached, ready, returned
  result,     \* of its channel: open, sending, received, closed
  listeners,  \* the listeners of the calls, in the order of Config.Listeners
  packets,    \* on their way from the server
  asked,      \* requests on their way to the server
  event,      \* the event that is being reported, Nil for none
  called,     \* the listeners that have yet to be called with it
  removed,    \* the channel is no more: on the server, in the replica
  client      \* connected, disconnected, panicked

groupVars == <<pc, result, listeners, packets, asked, event, called, removed, client>>

GroupsInit ==
  /\ pc = [k \in Calls |-> "start"] /\ result = [k \in Calls |-> "open"]
  /\ listeners = <<>> /\ packets = <<>> /\ asked = 0 /\ event = Nil /\ called = <<>>
  /\ removed = [server |-> FALSE, replica |-> FALSE] /\ client = "connected"

-----------------------------------------------------------------------------
(* The calls.                                                              *)

\* A listener that is attached while an event is reported is called with it.
Begin(k, registered) ==
  /\ pc[k] = "start" /\ client # "panicked"
  /\ IF registered
     THEN /\ pc' = [pc EXCEPT ![k] = "attached"]
          /\ listeners' = Append(listeners, k)
          /\ called' = IF event = Nil THEN called ELSE Append(called, k)
          /\ UNCHANGED result
     ELSE /\ pc' = [pc EXCEPT ![k] = "returned"]
          /\ result' = [result EXCEPT ![k] = "closed"]
          /\ UNCHANGED <<listeners, called>>
  /\ UNCHANGED <<packets, asked, event, removed, client>>

\* The detacher is known only now.
Assign(k) ==
  /\ pc[k] = "attached" /\ client # "panicked"
  /\ pc' = [pc EXCEPT ![k] = "ready"]
  /\ UNCHANGED <<result, listeners, packets, asked, event, called, removed, client>>

\* A channel that was removed has no client to send with.
RequestACL(k) ==
  /\ pc[k] = "ready" /\ client # "panicked"
  /\ pc' = [pc EXCEPT ![k] = "returned"]
  /\ client' = IF removed.replica THEN "panicked" ELSE client
  /\ asked' = IF client = "connected" /\ ~removed.replica THEN asked + 1 ELSE asked
  /\ UNCHANGED <<result, listeners, packets, event, called, removed>>

Receive(k) ==
  /\ pc[k] = "returned" /\ result[k] = "sending"
  /\ result' = [result EXCEPT ![k] = "received"]
  /\ UNCHANGED <<pc, listeners, packets, asked, event, called, removed, client>>

-----------------------------------------------------------------------------
(* The server answers a request for a channel that it has.                 *)

Answer(packet) ==
  /\ asked > 0 /\ client = "connected"
  /\ asked' = asked - 1
  /\ packets' = IF removed.server THEN packets ELSE Append(packets, packet)
  /\ UNCHANGED <<pc, result, listeners, event, called, removed, client>>

RemoveChannel ==
  /\ ~removed.server /\ client = "connected"
  /\ removed' = [removed EXCEPT !.server = TRUE]
  /\ packets' = Append(packets, "Removed")
  /\ UNCHANGED <<pc, result, listeners, asked, event, called, client>>

-----------------------------------------------------------------------------
(* The read routine.                                                       *)

Report(e) ==
  /\ event' = e /\ called' = listeners
  /\ UNCHANGED <<pc, result, listeners, asked>>

Handle ==
  /\ client = "connected" /\ event = Nil /\ packets # <<>>
  /\ Report(Head(packets))
  /\ packets' = Tail(packets)
  /\ removed' = [removed EXCEPT !.replica = @ \/ Head(packets) = "Removed"]
  /\ UNCHANGED client

Disconnect ==
  /\ client = "connected" /\ event = Nil
  /\ client' = "disconnected"
  /\ Report("Disconnect")
  /\ UNCHANGED <<packets, removed>>

\* Faulty: nothing is done about a disconnect.
OnEvent_NoDisconnect(k) ==
  IF event = "Disconnect" THEN UNCHANGED <<result, listeners, client>>
  ELSE /\ listeners' = SelectSeq(listeners, LAMBDA l : l # k)
       /\ result' = [result EXCEPT ![k] = IF event = "ACL" THEN "sending" ELSE "closed"]
       /\ client' = IF pc[k] = "attached" THEN "panicked" ELSE client

\* The listener detaches itself, and closes its channel or is about to send.
OnEvent(k) ==
  /\ listeners' = SelectSeq(listeners, LAMBDA l : l # k)
  /\ result' = [result EXCEPT ![k] = IF event = "ACL" THEN "sending" ELSE "closed"]
  /\ client' = IF pc[k] = "attached" THEN "panicked" ELSE client

\* One listener after the other; one that sends holds up the rest.
Notify ==
  /\ event # Nil /\ client # "panicked"
  /\ \A k \in Calls : result[k] # "sending"
  /\ IF called = <<>>
     THEN event' = Nil /\ UNCHANGED <<called, result, listeners, client>>
     ELSE OnEvent(Head(called)) /\ called' = Tail(called) /\ UNCHANGED event
  /\ UNCHANGED <<pc, packets, asked, removed>>

GroupsNext ==
  \/ \E k \in Calls :
       (\E registered \in BOOLEAN : Begin(k, registered)) \/ Assign(k) \/ RequestACL(k) \/ Receive(k)
  \/ (\E p \in {"ACL", "PermissionDenied"} : Answer(p)) \/ RemoveChannel
  \/ Handle \/ Disconnect \/ Notify

GroupsFairness ==
  /\ \A k \in Calls : WF_groupVars(Assign(k)) /\ WF_groupVars(RequestACL(k)) /\ WF_groupVars(Receive(k))
  /\ WF_groupVars(\E p \in {"ACL", "PermissionDenied"} : Answer(p))
  /\ WF_groupVars(Handle) /\ WF_groupVars(Notify)

GroupsSpec == GroupsInit /\ [][GroupsNext]_groupVars /\ GroupsFairness

-----------------------------------------------------------------------------
(***************************************************************************)
(* A call that has attached its listener before the client was             *)
(* disconnected gets the names of the groups or has its channel closed,    *)
(* whether the answer, a denial, the removal of the channel or the end of  *)
(* the connection comes first (gumbleutil/acl.go:8-9), unless an event     *)
(* comes before the detacher is assigned, or the channel is removed before *)
(* the request, which are panics.                                          *)
(***************************************************************************)
GroupsAnswered ==
  \A k \in Calls :
    (client = "connected" /\ k \in ToSet(listeners))
      ~> (result[k] \in {"received", "closed"} \/ client = "panicked")
=============================================================================
