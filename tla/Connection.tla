----------------------------- MODULE Connection -----------------------------
(***************************************************************************)
(* One direction of a control connection (Conn): goroutines that write     *)
(* packets with WriteProto and WriteAudio, several Writes to each packet,  *)
(* and the read routine at the other end, which takes the packets off the  *)
(* wire with ReadPacket and hands each to the handler of its type.         *)
(*                                                                         *)
(* The wire holds units: the header of a packet is one, and so is each of  *)
(* the units of its content.  A message is its kind, its content and how   *)
(* far each Write of the content gets.  An error of the connection is for  *)
(* good.                                                                   *)
(***************************************************************************)
EXTENDS Integers, Sequences

CONSTANTS Writers,             \* goroutines that write
          Messages,            \* for each of them the messages it may write
          MaxMessages,         \* bound on the number of messages of each
          MaximumPacketBytes,  \* the limit of the reading end
          Nil

VARIABLES
  mutex,     \* the writer that holds Conn's mutex
  writing,   \* each writer's message
  next,      \* and the Write that is next: 0 when it has no mutex yet
  calls,     \* the number of its messages so far
  wire,      \* the units that were written
  taken,     \* how many of them have been read
  broken,    \* the connection has failed or was closed
  header,    \* the header that the reading end has read last, or Nil
  buffer,    \* its buffer
  reader,    \* running, or stopped by an error
  got,       \* the messages that were handed to a handler
  log        \* history: the messages that are complete on the wire

writeVars == <<mutex, writing, next, calls>>
readVars == <<taken, header, buffer, reader, got>>
vars == <<writeVars, wire, broken, readVars, log>>

(***************************************************************************)
(* The type numbers of WriteProto and, at the other end, the handlers in   *)
(* the order of their table.  UDPTunnel is the type of WriteAudio.         *)
(***************************************************************************)
ProtoType(kind) ==
  LET types ==
        [Version |-> 0, Authenticate |-> 2, Ping |-> 3, Reject |-> 4,
         ServerSync |-> 5, ChannelRemove |-> 6, ChannelState |-> 7,
         UserRemove |-> 8, UserState |-> 9, BanList |-> 10, TextMessage |-> 11,
         PermissionDenied |-> 12, ACL |-> 13, QueryUsers |-> 14,
         CryptSetup |-> 15, ContextActionModify |-> 16, ContextAction |-> 17,
         UserList |-> 18, VoiceTarget |-> 19, PermissionQuery |-> 20,
         CodecVersion |-> 21, UserStats |-> 22, RequestBlob |-> 23,
         ServerConfig |-> 24, SuggestConfig |-> 25]
  IN  IF kind = "UDPTunnel" THEN 1 ELSE types[kind]

handlers ==
  <<"Version", "UDPTunnel", "Authenticate", "Ping", "Reject", "ServerSync",
    "ChannelRemove", "ChannelState", "UserRemove", "UserState", "BanList",
    "TextMessage", "PermissionDenied", "ACL", "QueryUsers", "CryptSetup",
    "ContextActionModify", "ContextAction", "UserList", "VoiceTarget",
    "PermissionQuery", "CodecVersion", "UserStats", "RequestBlob",
    "ServerConfig", "SuggestConfig">>

Init ==
  /\ mutex = Nil /\ writing = [w \in Writers |-> Nil]
  /\ next = [w \in Writers |-> 0] /\ calls = [w \in Writers |-> 0]
  /\ wire = <<>> /\ taken = 0 /\ broken = FALSE
  /\ header = Nil /\ buffer = <<>> /\ reader = "running" /\ got = <<>>
  /\ log = <<>>

-----------------------------------------------------------------------------
(* Writing                                                                 *)

Header(m) == [type |-> ProtoType(m.kind), length |-> Len(m.data)]

\* The packet of a message.
Frame(m) == <<Header(m)>> \o m.data

\* The header has a Write of its own.
Writes(m) == 1 + Len(m.ends)

\* How much of the packet is on the wire after the first k Writes.
Out(m, k) == CASE k = 0 -> 0 [] k = 1 -> 1 [] k > 1 -> 1 + m.ends[k - 1]

\* The packet is on the wire before the k-th Write.
Complete(m, k) == Out(m, k - 1) = Len(Frame(m))

Call(w, m) ==
  /\ writing[w] = Nil /\ calls[w] < MaxMessages
  /\ calls' = [calls EXCEPT ![w] = @ + 1]
  /\ writing' = [writing EXCEPT ![w] = m]
  /\ UNCHANGED <<mutex, next, wire, broken, readVars, log>>

\* Faulty: no mutex.
Lock_None(w) ==
  /\ writing[w] # Nil /\ next[w] = 0
  /\ next' = [next EXCEPT ![w] = 1]
  /\ UNCHANGED <<mutex, writing, calls, wire, broken, readVars, log>>

Lock(w) ==
  /\ writing[w] # Nil /\ next[w] = 0 /\ mutex = Nil
  /\ mutex' = w /\ next' = [next EXCEPT ![w] = 1]
  /\ UNCHANGED <<writing, calls, wire, broken, readVars, log>>

Write(w) ==
  LET m == writing[w]
      k == next[w]
  IN
  /\ m # Nil /\ ~broken
  /\ k \in 1..Writes(m)
  /\ wire' = wire \o SubSeq(Frame(m), Out(m, k - 1) + 1, Out(m, k))
  /\ log' = IF ~Complete(m, k) /\ Complete(m, k + 1) THEN Append(log, m) ELSE log
  /\ next' = [next EXCEPT ![w] = k + 1]
  /\ UNCHANGED <<mutex, writing, calls, broken, readVars>>

\* The deferred Unlock.
Return(w) ==
  /\ writing' = [writing EXCEPT ![w] = Nil] /\ next' = [next EXCEPT ![w] = 0]
  /\ mutex' = Nil /\ UNCHANGED calls

WriteReturns(w) ==
  /\ writing[w] # Nil /\ next[w] > Writes(writing[w])
  /\ Return(w)
  /\ UNCHANGED <<wire, broken, readVars, log>>

\* A Write fails; some of its units may have gone out.
WriteFails(w) ==
  LET m == writing[w]
      k == next[w]
  IN
  /\ m # Nil /\ k \in 1..Writes(m)
  /\ \E n \in Out(m, k - 1)..Out(m, k) :
       /\ n = Out(m, k - 1) \/ (n < Out(m, k) /\ ~broken)
       /\ wire' = wire \o SubSeq(Frame(m), Out(m, k - 1) + 1, n)
  /\ broken' = TRUE
  /\ Return(w)
  /\ UNCHANGED <<readVars, log>>

-----------------------------------------------------------------------------
(* Reading                                                                 *)

ReadHeader ==
  /\ reader = "running" /\ header = Nil /\ taken < Len(wire)
  /\ header' = wire[taken + 1] /\ taken' = taken + 1
  /\ reader' = IF header'.length > MaximumPacketBytes THEN "stopped" ELSE reader
  /\ UNCHANGED <<writeVars, wire, broken, buffer, got, log>>

\* The contents replace as much of the buffer, or a larger one is made; the
\* handler of the type runs before the next packet is read.
ReadBody ==
  /\ reader = "running" /\ header # Nil /\ taken + header.length <= Len(wire)
  /\ taken' = taken + header.length
  /\ buffer' = SubSeq(wire, taken + 1, taken')
               \o SubSeq(buffer, header.length + 1, Len(buffer))
  /\ got' = Append(got, [kind |-> handlers[header.type + 1],
                         data |-> SubSeq(buffer', 1, header.length)])
  /\ header' = Nil
  /\ UNCHANGED <<writeVars, wire, broken, reader, log>>

\* The deadline passes while the packet is not complete, or the connection
\* fails.
ReadFails ==
  /\ reader = "running"
  /\ broken \/ taken = Len(wire) \/ (header # Nil /\ taken + header.length > Len(wire))
  /\ reader' = "stopped"
  /\ UNCHANGED <<writeVars, wire, taken, broken, header, buffer, got, log>>

\* The connection is closed or lost.
Break ==
  /\ ~broken
  /\ broken' = TRUE
  /\ UNCHANGED <<writeVars, wire, readVars, log>>

Next ==
  \/ \E w \in Writers :
       \/ \E m \in Messages[w] : Call(w, m)
       \/ Lock(w) \/ Write(w) \/ WriteReturns(w) \/ WriteFails(w)
  \/ ReadHeader \/ ReadBody \/ ReadFails \/ Break

Spec == Init /\ [][Next]_vars

-----------------------------------------------------------------------------
AllMessages == UNION {Messages[w] : w \in Writers}

\* What is known of the messages: the Writes of the content go through it and
\* to its end.
MessagesAreWritten ==
  \A m \in AllMessages :
    /\ m.kind \in {handlers[i] : i \in DOMAIN handlers}
    /\ m.data \in Seq(Nat) /\ m.ends \in Seq(0..Len(m.data)) /\ m.ends # <<>>
    /\ m.ends[Len(m.ends)] = Len(m.data)
    /\ \A i \in 1..(Len(m.ends) - 1) : m.ends[i] <= m.ends[i + 1]

\* A message as its reader sees it.
Seen(m) == [kind |-> m.kind, data |-> m.data]

Packets ==
  INSTANCE PacketLog WITH
    Messages <- {Seen(m) : m \in AllMessages},
    writing <- [w \in Writers |-> IF writing[w] = Nil THEN Nil ELSE Seen(writing[w])],
    logged <- {w \in Writers : writing[w] # Nil /\ next[w] > 0
                                     /\ Complete(writing[w], next[w])},
    log <- [k \in DOMAIN log |-> Seen(log[k])]

(***************************************************************************)
(* The mutex of Conn, the lengths in the headers, the type numbers and the *)
(* table of handlers together make the bytes of the connection a log of    *)
(* messages (conn.go:115-126, 184-188): whatever goroutines write at the   *)
(* same time and wherever the connection breaks, each handler is called    *)
(* with a message of its own type, whole, in the order of the writes.      *)
(***************************************************************************)
ImplementsPacketLog == Packets!Spec
=============================================================================
