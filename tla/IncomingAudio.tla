---------------------------- MODULE IncomingAudio ----------------------------
(***************************************************************************)
(* Incoming audio: handleUDPTunnel, the audio listeners it hands packets   *)
(* to, and the goroutines that receive from the streams it makes, one for  *)
(* each listener and user.  The channel of a stream is unbuffered: the     *)
(* read routine waits in the send until the receiver takes the packet.     *)
(*                                                                         *)
(* Users are User objects: a user who comes back under the same session is *)
(* another object.  Of a packet only its sender and its number matter.     *)
(* Attach and Detach run between two steps of the loop, as in Listeners.   *)
(***************************************************************************)
EXTENDS ItemList, IncomingAudioPromise

CONSTANTS Users,       \* User objects
          MaxPackets   \* bound on the audio packets

VARIABLES
  codec,      \* Client.audioCodec has been set
  decoder,    \* the users whose decoder has been made
  present,    \* the users in Client.Users
  gone,       \* the users that have been removed
  packets,    \* the number of audio packets received
  sender,     \* the user of the packet being handled, Nil if there is none
  item,       \* the item of the loop
  sending,    \* the read routine is in the send of the loop's body
  streams,    \* for each item the users with an entry in its streams
  receiver,   \* for each item and user: absent, waiting, busy or ended
  staying     \* the items attached since the last of them was

clientVars == <<codec, decoder, present, gone>>
loopVars == <<packets, sender, item, sending>>
streamVars == <<streams, opened, receiver, received>>
vars == <<listVars, clientVars, loopVars, streamVars, spoken, staying>>

Init ==
  /\ ListInit
  /\ codec = FALSE /\ decoder = {} /\ present = {} /\ gone = {}
  /\ packets = 0 /\ sender = Nil /\ item = Nil /\ sending = FALSE
  /\ streams = [i \in Items |-> {}]
  /\ opened = [i \in Items |-> [u \in Users |-> 0]]
  /\ receiver = [i \in Items |-> [u \in Users |-> "absent"]]
  /\ received = [i \in Items |-> [u \in Users |-> <<>>]]
  /\ spoken = [u \in Users |-> <<>>] /\ staying = {}

Idle == sender = Nil

-----------------------------------------------------------------------------
(* The listeners                                                           *)

\* The tail is set by the first item only.
Link(i) ==
  /\ prev' = [prev EXCEPT ![i] = tail]
  /\ head' = IF head = Nil THEN i ELSE head
  /\ tail' = IF tail = Nil THEN i ELSE tail
  /\ next' = IF tail = Nil THEN next ELSE [next EXCEPT ![tail] = i]

AttachAudio(i) ==
  /\ i \notin made
  /\ Link(i)
  /\ made' = made \cup {i} /\ attached' = Append(attached, i)
  /\ UNCHANGED <<clientVars, loopVars, streamVars, spoken, staying>>

DetachAudio(k) ==
  /\ DetachOne(k)
  /\ staying' = staying \ {attached[k]}
  /\ UNCHANGED <<clientVars, loopVars, streamVars, spoken>>

-----------------------------------------------------------------------------
(* The other handlers, between two audio packets                           *)

\* A server that supports Opus: the codec is set and never taken back.
HandleCodecVersion ==
  /\ Idle /\ ~codec
  /\ codec' = TRUE
  /\ UNCHANGED <<listVars, decoder, present, gone, loopVars, streamVars, spoken, staying>>

UserConnects(u) ==
  /\ Idle /\ u \notin present \cup gone
  /\ present' = present \cup {u}
  /\ UNCHANGED <<listVars, codec, decoder, gone, loopVars, streamVars,
                 spoken, staying>>

UserLeaves(u) ==
  /\ Idle /\ u \in present
  /\ present' = present \ {u} /\ gone' = gone \cup {u}
  /\ UNCHANGED <<listVars, codec, decoder, loopVars, streamVars, spoken, staying>>

-----------------------------------------------------------------------------
(* handleUDPTunnel                                                         *)

\* The decoder of the user is made before the rest of the packet is looked
\* at.  Other packets that are refused leave no trace.
Refused(u) ==
  /\ Idle /\ u \in present
  /\ u \notin decoder /\ codec
  /\ decoder' = decoder \cup {u}
  /\ UNCHANGED <<listVars, codec, present, gone, loopVars, streamVars, spoken, staying>>

\* The packet is decoded, and the loop begins if there is an item.
Decoded(u) ==
  /\ Idle /\ packets < MaxPackets /\ u \in present
  /\ u \in decoder \/ codec
  /\ packets' = packets + 1
  /\ decoder' = decoder \cup {u}
  /\ item' = head
  /\ sender' = IF head = Nil THEN Nil ELSE u
  /\ sending' = FALSE
  /\ spoken' = [spoken EXCEPT ![u] = Append(@, packets')]
  /\ staying' = Range(attached)
  /\ UNCHANGED <<listVars, codec, present, gone, streamVars>>

\* Faulty: the channel is not put into the map.
OpenStream_Forgets(i, u) == UNCHANGED streams

OpenStream(i, u) == streams' = [streams EXCEPT ![i] = @ \cup {u}]

\* Faulty: OnAudioStream is called after the first packet is sent.
Stream_Late ==
  /\ ~Idle /\ ~sending
  /\ sending' = TRUE
  /\ streams' = [streams EXCEPT ![item] = @ \cup {sender}]
  /\ UNCHANGED <<listVars, clientVars, packets, sender, item, opened, receiver,
                 received, spoken, staying>>

\* The stream is looked up, or made and given to OnAudioStream, which starts
\* a goroutine that receives from it.
Stream ==
  /\ ~Idle /\ ~sending
  /\ sending' = TRUE
  /\ IF sender \in streams[item]
     THEN UNCHANGED <<streams, opened, receiver>>
     ELSE /\ OpenStream(item, sender)
          /\ opened' = [opened EXCEPT ![item][sender] = @ + 1]
          /\ receiver' = [receiver EXCEPT ![item][sender] = "waiting"]
  /\ UNCHANGED <<listVars, clientVars, packets, sender, item, received,
                 spoken, staying>>

\* The send: the receiver takes the packet, and the loop goes on.
Send ==
  /\ ~Idle /\ sending /\ receiver[item][sender] = "waiting"
  /\ receiver' = [receiver EXCEPT ![item][sender] = "busy"]
  /\ received' = [received EXCEPT ![item][sender] = Append(@, packets)]
  /\ item' = next[item]
  /\ sender' = IF next[item] = Nil THEN Nil ELSE sender
  /\ sending' = FALSE
  /\ UNCHANGED <<listVars, clientVars, packets, streams, opened, spoken, staying>>

\* A receiver has processed a packet and comes back for the next one.
Receive(i, u) ==
  /\ receiver[i][u] = "busy"
  /\ receiver' = [receiver EXCEPT ![i][u] = "waiting"]
  /\ UNCHANGED <<listVars, clientVars, loopVars, streams, opened, received, spoken,
                 staying>>

Next ==
  \/ \E i \in Items : AttachAudio(i)
  \/ \E k \in DOMAIN attached : DetachAudio(k)
  \/ HandleCodecVersion
  \/ \E u \in Users : UserConnects(u) \/ UserLeaves(u) \/ Refused(u) \/ Decoded(u)
  \/ Stream
  \/ Send
  \/ \E i \in Items, u \in Users : Receive(i, u)

Spec == Init /\ [][Next]_vars

(***************************************************************************)
(* The read routine goes on when it can, and the goroutine of a listener   *)
(* continuously processes its channel, as audio.go:36 asks of it.          *)
(***************************************************************************)
Fairness ==
  /\ WF_vars(Stream) /\ WF_vars(Send)
  /\ \A i \in Items, u \in Users : WF_vars(Receive(i, u))

FairSpec == Spec /\ Fairness

-----------------------------------------------------------------------------
(***************************************************************************)
(* The read routine comes out of handleUDPTunnel again, provided that the  *)
(* listeners process their channels: no list makes its loop go round, and  *)
(* no send waits for a goroutine that was never started.                   *)
(***************************************************************************)
ReaderReturns == ~Idle ~> Idle

(***************************************************************************)
(* "Each attached listener is called in sequence when a new user audio     *)
(* stream begins" (audiolisteners.go:23): when the loop is over, the       *)
(* listeners that were attached all the time have got the packet.          *)
(***************************************************************************)
AttachedHear ==
  Idle => \A i \in staying : \E u \in Users :
            received[i][u] # <<>> /\ received[i][u][Len(received[i][u])] = packets
=============================================================================
