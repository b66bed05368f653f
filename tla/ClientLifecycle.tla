--------------------------- MODULE ClientLifecycle ---------------------------
(***************************************************************************)
(* The life of a Client: the goroutine that called DialWithDialer, the     *)
(* read routine and the ping routine it starts, goroutines of the program  *)
(* that call Disconnect, and the connection they share.                    *)
(*                                                                         *)
(* Of the packets only those matter that change the life of the client:    *)
(* ServerSync, Reject and the removal of the client's own user; any other  *)
(* one is the call of a listener.  Listeners are assumed to return.        *)
(***************************************************************************)
EXTENDS Naturals

CONSTANTS Callers,   \* goroutines of the program, each calls Disconnect once
          MaxSyncs   \* bound on the ServerSync packets the server sends

ASSUME MaxSyncsAssumption == MaxSyncs \in Nat

VARIABLES
  conn,        \* none, open, lost (the next read fails) or closed
  state,       \* Client.state
  connect,     \* the channel Client.connect: open or closed
  end,         \* the channel Client.end: open or closed
  type,        \* Client.disconnectEvent.Type
  self,        \* Client.Self: none, present in Users or removed
  dial,        \* where DialWithDialer is
  result,      \* what it returns
  hasDeadline, \* the dialer has a Timeout or a Deadline
  read,        \* where the read routine is
  wasSynced,   \* its local variable
  ping,        \* where the ping routine is
  call,        \* where each call of Disconnect is
  known,       \* the program has got hold of the client
  connected,   \* the OnConnect listeners have returned
  told,        \* the reason OnDisconnect was called with, or none
  syncs        \* ServerSync packets received

netVars == <<conn, connect, end>>
dialVars == <<dial, result, hasDeadline>>
readVars == <<read, wasSynced, self, state, connected, told, syncs>>
lifeVars == <<netVars, type, dialVars, readVars, ping, call, known>>

LifeInit ==
  /\ conn = "none" /\ state = "Connected" /\ connect = "open" /\ end = "open"
  /\ type = "Error" /\ self = "none"
  /\ dial = "dialing" /\ result = "none" /\ hasDeadline \in BOOLEAN
  /\ read = "absent" /\ wasSynced = FALSE /\ ping = "absent"
  /\ call = [g \in Callers |-> "idle"]
  /\ known = FALSE /\ connected = FALSE /\ told = "none" /\ syncs = 0

\* A panic of the read routine ends the program.
Alive == read # "panicked"

-----------------------------------------------------------------------------
(* DialWithDialer                                                          *)

DialFails ==
  /\ Alive /\ dial = "dialing"
  /\ dial' = "returned" /\ result' = "error"
  /\ UNCHANGED <<netVars, type, hasDeadline, readVars, ping, call, known>>

\* The client is made and the read routine started.
DialConnects ==
  /\ Alive /\ dial = "dialing"
  /\ conn' = "open" /\ dial' = "writing" /\ read' = "reading"
  /\ UNCHANGED <<connect, end, type, result, hasDeadline, wasSynced, self, state,
                 connected, told, syncs, ping, call, known>>

\* Version and Authenticate are sent, and the ping routine started; errors
\* are ignored.
DialWrites ==
  /\ Alive /\ dial = "writing"
  /\ dial' = "selecting" /\ ping' = "writing"
  /\ UNCHANGED <<netVars, type, result, hasDeadline, readVars, call, known>>

\* Faulty: the timer counts only while the connection stands.
DialTimeout_WhileOpen ==
  /\ Alive /\ dial = "selecting" /\ hasDeadline /\ conn = "open"
  /\ dial' = "closing" /\ result' = "timeout"
  /\ UNCHANGED <<netVars, type, hasDeadline, readVars, ping, call, known>>

DialTimeout ==
  /\ Alive /\ dial = "selecting" /\ hasDeadline
  /\ dial' = "closing" /\ result' = "timeout"
  /\ UNCHANGED <<netVars, type, hasDeadline, readVars, ping, call, known>>

\* Faulty: the state is looked at instead of the channel.
DialSynced_ByState ==
  /\ Alive /\ dial = "selecting" /\ state = "Synced"
  /\ dial' = "returned" /\ result' = "client" /\ known' = TRUE
  /\ UNCHANGED <<netVars, type, hasDeadline, readVars, ping, call>>

\* Receiving from the closed channel yields nil: the client is returned.
DialSynced ==
  /\ Alive /\ dial = "selecting" /\ connect = "closed"
  /\ dial' = "returned" /\ result' = "client" /\ known' = TRUE
  /\ UNCHANGED <<netVars, type, hasDeadline, readVars, ping, call>>

\* handleReject's send and the receive of DialWithDialer are one step.
DialRejected ==
  /\ Alive /\ dial = "selecting" /\ read = "sendReject"
  /\ dial' = "closing" /\ result' = "reject" /\ read' = "closeConn"
  /\ UNCHANGED <<netVars, type, hasDeadline, wasSynced, self, state, connected,
                 told, syncs, ping, call, known>>

\* Faulty: the connection stays open.
DialCloses_Leaks ==
  /\ Alive /\ dial = "closing"
  /\ dial' = "returned"
  /\ UNCHANGED <<netVars, type, result, hasDeadline, readVars, ping, call, known>>

DialCloses ==
  /\ Alive /\ dial = "closing"
  /\ conn' = "closed" /\ dial' = "returned"
  /\ UNCHANGED <<connect, end, type, result, hasDeadline, readVars, ping, call, known>>

-----------------------------------------------------------------------------
(* The handlers of the read routine                                        *)

\* The session of the packet may be one without a user.
HandleServerSync(user) ==
  /\ Alive /\ read = "reading" /\ conn = "open" /\ syncs < MaxSyncs
  /\ self' = user /\ state' = "Synced" /\ syncs' = syncs + 1
  /\ read' = "onConnect" /\ known' = TRUE
  /\ UNCHANGED <<netVars, type, dialVars, wasSynced, connected, told, ping, call>>

OnConnectReturns ==
  /\ Alive /\ read = "onConnect"
  /\ connected' = TRUE /\ read' = "closeConnect"
  /\ UNCHANGED <<netVars, type, dialVars, wasSynced, self, state, told, syncs,
                 ping, call, known>>

\* Closing a closed channel is a panic.
CloseConnect ==
  /\ Alive /\ read = "closeConnect"
  /\ connect' = "closed"
  /\ read' = IF connect = "closed" THEN "panicked" ELSE "reading"
  /\ UNCHANGED <<conn, end, type, dialVars, wasSynced, self, state, connected,
                 told, syncs, ping, call, known>>

\* Ignored once the client is synced.
HandleReject ==
  /\ Alive /\ read = "reading" /\ conn = "open" /\ state = "Connected"
  /\ read' = "sendReject"
  /\ UNCHANGED <<netVars, type, dialVars, wasSynced, self, state, connected,
                 told, syncs, ping, call, known>>

\* After its send has been received (DialRejected).
RejectCloses ==
  /\ Alive /\ read = "closeConn"
  /\ conn' = "closed" /\ read' = "reading"
  /\ UNCHANGED <<connect, end, type, dialVars, wasSynced, self, state, connected,
                 told, syncs, ping, call, known>>

\* handleUserRemove for the client's own user.
HandleSelfRemove(reason) ==
  /\ Alive /\ read = "reading" /\ conn = "open" /\ self = "present"
  /\ self' = "removed" /\ type' = reason
  /\ read' = "listener" /\ known' = TRUE
  /\ UNCHANGED <<netVars, dialVars, wasSynced, state, connected, told, syncs,
                 ping, call>>

\* Most other handlers call listeners, whatever the state.
HandleOther ==
  /\ Alive /\ read = "reading" /\ conn = "open"
  /\ read' = "listener" /\ known' = TRUE
  /\ UNCHANGED <<netVars, type, dialVars, wasSynced, self, state, connected,
                 told, syncs, ping, call>>

ListenerReturns ==
  /\ Alive /\ read = "listener"
  /\ read' = "reading"
  /\ UNCHANGED <<netVars, type, dialVars, wasSynced, self, state, connected,
                 told, syncs, ping, call, known>>

-----------------------------------------------------------------------------
(* The end of the read routine                                             *)

\* ReadPacket returns an error: the connection is gone, nothing came for
\* Conn.Timeout, or the packet is too large.
ReadFails ==
  /\ Alive /\ read = "reading"
  /\ read' = "exit"
  /\ UNCHANGED <<netVars, type, dialVars, wasSynced, self, state, connected,
                 told, syncs, ping, call, known>>

\* Faulty: the state is loaded after it was stored.
StoreDisconnected_First ==
  /\ Alive /\ read = "exit"
  /\ wasSynced' = FALSE /\ state' = "Disconnected"
  /\ read' = "closeEnd"
  /\ UNCHANGED <<netVars, type, dialVars, self, connected, told, syncs, ping,
                 call, known>>

\* Faulty: the event is initialised at the end.
StoreDisconnected_Resets ==
  /\ Alive /\ read = "exit"
  /\ wasSynced' = (state = "Synced") /\ state' = "Disconnected" /\ type' = "Error"
  /\ read' = "closeEnd"
  /\ UNCHANGED <<netVars, dialVars, self, connected, told, syncs, ping, call, known>>

StoreDisconnected ==
  /\ Alive /\ read = "exit"
  /\ wasSynced' = (state = "Synced") /\ state' = "Disconnected"
  /\ read' = "closeEnd"
  /\ UNCHANGED <<netVars, type, dialVars, self, connected, told, syncs, ping,
                 call, known>>

\* Faulty: end is left open.
CloseEnd_Not ==
  /\ Alive /\ read = "closeEnd"
  /\ read' = IF wasSynced THEN "onDisconnect" ELSE "done"
  /\ told' = IF wasSynced THEN type ELSE told
  /\ UNCHANGED <<netVars, type, dialVars, wasSynced, self, state, connected,
                 syncs, ping, call, known>>

\* OnDisconnect is handed the client's event, not a copy.
CloseEnd ==
  /\ Alive /\ read = "closeEnd"
  /\ end' = "closed"
  /\ read' = IF wasSynced THEN "onDisconnect" ELSE "done"
  /\ told' = IF wasSynced THEN type ELSE told
  /\ UNCHANGED <<conn, connect, type, dialVars, wasSynced, self, state, connected,
                 syncs, ping, call, known>>

OnDisconnectReturns ==
  /\ Alive /\ read = "onDisconnect"
  /\ read' = "done"
  /\ UNCHANGED <<netVars, type, dialVars, wasSynced, self, state, connected,
                 told, syncs, ping, call, known>>

-----------------------------------------------------------------------------
(* pingRoutine, Disconnect and the network                                 *)

PingWrites ==
  /\ Alive /\ ping = "writing"
  /\ ping' = "waiting"
  /\ UNCHANGED <<netVars, type, dialVars, readVars, call, known>>

PingTicks ==
  /\ Alive /\ ping = "waiting"
  /\ ping' = "writing"
  /\ UNCHANGED <<netVars, type, dialVars, readVars, call, known>>

PingEnds ==
  /\ Alive /\ ping = "waiting" /\ end = "closed"
  /\ ping' = "done"
  /\ UNCHANGED <<netVars, type, dialVars, readVars, call, known>>

DisconnectChecks(g) ==
  /\ Alive /\ known /\ call[g] = "idle"
  /\ call' = [call EXCEPT ![g] = IF state = "Disconnected" THEN "refused" ELSE "mark"]
  /\ UNCHANGED <<netVars, type, dialVars, readVars, ping, known>>

DisconnectMarks(g) ==
  /\ Alive /\ call[g] = "mark"
  /\ type' = "User" /\ call' = [call EXCEPT ![g] = "close"]
  /\ UNCHANGED <<netVars, dialVars, readVars, ping, known>>

DisconnectCloses(g) ==
  /\ Alive /\ call[g] = "close"
  /\ conn' = "closed" /\ call' = [call EXCEPT ![g] = "done"]
  /\ UNCHANGED <<connect, end, type, dialVars, readVars, ping, known>>

ConnectionLost ==
  /\ Alive /\ conn = "open"
  /\ conn' = "lost"
  /\ UNCHANGED <<connect, end, type, dialVars, readVars, ping, call, known>>

-----------------------------------------------------------------------------
DialNext == DialFails \/ DialConnects \/ DialWrites \/ DialTimeout \/ DialSynced
            \/ DialRejected \/ DialCloses

PacketNext ==
  \/ \E user \in {"none", "present"} : HandleServerSync(user)
  \/ HandleReject \/ HandleOther
  \/ \E reason \in {"Kicked", "Banned"} : HandleSelfRemove(reason)

\* The read routine between two packets and at its end.
ReadNext == OnConnectReturns \/ CloseConnect \/ RejectCloses \/ ListenerReturns
            \/ StoreDisconnected \/ CloseEnd \/ OnDisconnectReturns

LifeNext ==
  \/ DialNext \/ PacketNext \/ ReadFails \/ ReadNext
  \/ PingWrites \/ PingTicks \/ PingEnds
  \/ \E g \in Callers : DisconnectChecks(g) \/ DisconnectMarks(g) \/ DisconnectCloses(g)
  \/ ConnectionLost

LifeSpec == LifeInit /\ [][LifeNext]_lifeVars

(***************************************************************************)
(* Goroutines that can run do, and listeners return.  Nothing is assumed   *)
(* of the server or the network, and a read fails for sure only once the   *)
(* connection is gone.  The ticker fires every five seconds and select     *)
(* picks at random, so that the ping routine, which comes back to it again *)
(* and again, does not miss a closed end for ever (strong fairness).       *)
(***************************************************************************)
LifeFairness ==
  /\ WF_lifeVars(DialNext) /\ WF_lifeVars(ReadNext)
  /\ WF_lifeVars(ReadFails /\ conn # "open")
  /\ WF_lifeVars(PingWrites) /\ SF_lifeVars(PingEnds)
  /\ \A g \in Callers : WF_lifeVars(DisconnectMarks(g) \/ DisconnectCloses(g))

LifeFairSpec == LifeSpec /\ LifeFairness

-----------------------------------------------------------------------------
LifeTypeOK ==
  /\ conn \in {"none", "open", "lost", "closed"}
  /\ state \in {"Connected", "Synced", "Disconnected"}
  /\ connect \in {"open", "closed"} /\ end \in {"open", "closed"}
  /\ type \in {"Error", "User", "Kicked", "Banned"}
  /\ self \in {"none", "present", "removed"}
  /\ dial \in {"dialing", "writing", "selecting", "closing", "returned"}
  /\ result \in {"none", "error", "client", "timeout", "reject"}
  /\ read \in {"absent", "reading", "onConnect", "closeConnect", "sendReject",
               "closeConn", "listener", "exit", "closeEnd", "onDisconnect",
               "done", "panicked"}
  /\ ping \in {"absent", "writing", "waiting", "done"}
  /\ call \in [Callers -> {"idle", "refused", "mark", "close", "done"}]
  /\ hasDeadline \in BOOLEAN /\ wasSynced \in BOOLEAN
  /\ known \in BOOLEAN /\ connected \in BOOLEAN
  /\ told \in {"none", "Error", "User", "Kicked", "Banned"}
  /\ syncs \in Nat

(***************************************************************************)
(* DialWithDialer returns a client only after the OnConnect listeners have *)
(* returned (client.go:98-100, 209-213; handlers.go:275-276).              *)
(***************************************************************************)
DialAfterOnConnect == result = "client" => connected

(***************************************************************************)
(* handleReject never sends on the closed channel, which would panic, and  *)
(* never while OnConnect has been called (handlers.go:232-234, 244).       *)
(***************************************************************************)
RejectBeforeSync == read = "sendReject" => connect = "open" /\ ~connected

(***************************************************************************)
(* OnDisconnect is called only after OnConnect, and a read routine that    *)
(* ends has called both or neither (client.go:291-296).                    *)
(***************************************************************************)
EventsPaired ==
  /\ told # "none" => connected
  /\ read = "done" => (connected <=> told # "none")

(***************************************************************************)
(* The reason OnDisconnect is called with is a true one: User if Disconnect*)
(* was called, Kicked or Banned if the own user was removed, and Error only*)
(* if neither had happened (client.go:276-279, 319; handlers.go:469-475).  *)
(***************************************************************************)
ReasonTruthful ==
  LET marked == \E g \in Callers : call[g] \in {"close", "done"}
  IN  /\ told = "User" => marked
      /\ told \in {"Kicked", "Banned"} => self = "removed"
      /\ read = "closeEnd" /\ type = "Error" => ~marked /\ self # "removed"

(***************************************************************************)
(* Once DialWithDialer has returned an error, the read routine takes no    *)
(* further packet: at most the handler that was running finishes           *)
(* (client.go:206, 210).                                                   *)
(***************************************************************************)
NoPacketAfterError ==
  [][dial = "returned" /\ result # "client" /\ read = "reading"
       => read' \in {"reading", "exit"}]_lifeVars

(***************************************************************************)
(* With a Timeout or a Deadline DialWithDialer returns, whatever the server*)
(* does or does not send (client.go:185-207).  Without one it still returns*)
(* if the server answers: with a ServerSync or a Reject (client.go:208-213;*)
(* handlers.go:244, 276).                                                  *)
(***************************************************************************)
DialReturns ==
  (hasDeadline \/ connect = "closed" \/ read = "sendReject")
    ~> (dial = "returned" \/ ~Alive)

(***************************************************************************)
(* When the connection is gone the read routine ends, calls OnDisconnect if*)
(* it has to, and takes the ping routine with it (client.go:281-296, 265). *)
(* The exception is a Reject that came when DialWithDialer had given up:   *)
(* nobody receives from Client.connect any more (handlers.go:244).         *)
(***************************************************************************)
RoutinesEnd ==
  conn \in {"lost", "closed"} ~>
    \/ read = "done" /\ ping = "done"
    \/ read = "sendReject" /\ dial = "returned"
    \/ ~Alive
=============================================================================
