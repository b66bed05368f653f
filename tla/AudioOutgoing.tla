---------------------------- MODULE AudioOutgoing ----------------------------
(***************************************************************************)
(* Outgoing audio: the channels that AudioOutgoing makes, the goroutine    *)
(* behind each of them, which is one frame behind its channel so that it   *)
(* knows the last one, and writeAudio, which encodes a frame with the one  *)
(* encoder of the client and puts it on the connection.                    *)
(*                                                                         *)
(* A frame is its number in its channel.  A packet of WriteAudio goes out  *)
(* under the mutex of Conn and is one element of wire.                     *)
(***************************************************************************)
EXTENDS Naturals, Sequences

CONSTANTS Channels,    \* the channels that the program asks for
          MaxFrames,   \* bound on the frames sent to a channel
          MaxInt32     \* math.MaxInt32

ASSUME BoundsAssumption == MaxFrames \in Nat /\ MaxInt32 \in Nat \ {0}

VARIABLES
  encoder,    \* Client.AudioEncoder is not nil
  dirty,      \* it has encoded a frame since it was made or reset
  chan,       \* each channel: none, open or closed
  sent,       \* the number of frames sent to it
  routine,    \* where its goroutine is
  previous,   \* its variables: previous (0 for nil),
  p,          \* p,
  seq,        \* and seq
  lost,       \* its frames that were not encoded or not written
  audioWire        \* the audio packets on the connection

progVars == <<chan, sent>>
routineVars == <<routine, previous, p, seq>>
encodeVars == <<dirty, lost, audioWire>>
audioVars == <<encoder, progVars, routineVars, encodeVars>>

AudioInit ==
  /\ encoder = FALSE /\ dirty = FALSE /\ audioWire = <<>>
  /\ chan = [c \in Channels |-> "none"] /\ sent = [c \in Channels |-> 0]
  /\ routine = [c \in Channels |-> "absent"]
  /\ previous = [c \in Channels |-> 0] /\ p = [c \in Channels |-> 0]
  /\ seq = [c \in Channels |-> 0] /\ lost = [c \in Channels |-> {}]

\* An encoder is made, or made anew, by a server that supports Opus.
HandleCodecVersion ==
  /\ encoder' = TRUE /\ dirty' = FALSE
  /\ UNCHANGED <<progVars, routineVars, lost, audioWire>>

-----------------------------------------------------------------------------
(* The program                                                             *)

Open(c) ==
  /\ chan[c] = "none"
  /\ chan' = [chan EXCEPT ![c] = "open"]
  /\ routine' = [routine EXCEPT ![c] = "first"]
  /\ UNCHANGED <<encoder, sent, previous, p, seq, encodeVars>>

\* The channel is unbuffered: the goroutine takes the frame.
Send(c) ==
  /\ chan[c] = "open" /\ sent[c] < MaxFrames
  /\ sent' = [sent EXCEPT ![c] = @ + 1]
  /\ \/ /\ routine[c] = "first"
        /\ previous' = [previous EXCEPT ![c] = sent'[c]]
        /\ routine' = [routine EXCEPT ![c] = "range"]
        /\ UNCHANGED p
     \/ /\ routine[c] = "range"
        /\ p' = [p EXCEPT ![c] = sent'[c]]
        /\ routine' = [routine EXCEPT ![c] = "write"]
        /\ UNCHANGED previous
  /\ UNCHANGED <<encoder, chan, seq, encodeVars>>

Close(c) ==
  /\ chan[c] = "open"
  /\ chan' = [chan EXCEPT ![c] = "closed"]
  /\ UNCHANGED <<encoder, sent, routineVars, encodeVars>>

-----------------------------------------------------------------------------
(* The goroutine                                                           *)

Packet(c, final) ==
  [channel |-> c, frame |-> previous[c], seq |-> seq[c], final |-> final]

\* Faulty: the encoder is not reset when the last frame cannot be encoded.
WriteAudio_ResetLate(c, final) ==
  \/ /\ encoder
     /\ audioWire' = Append(audioWire, Packet(c, final)) /\ dirty' = ~final
     /\ UNCHANGED lost
  \/ /\ lost' = [lost EXCEPT ![c] = @ \cup {previous[c]}]
     /\ dirty' = encoder
     /\ UNCHANGED audioWire

\* The frame is encoded and written; or there is no encoder, or it fails, or
\* the connection does, and the frame is lost.  The last frame resets the
\* encoder in any case.
WriteAudio(c, final) ==
  /\ dirty' = (encoder /\ ~final)
  /\ \/ /\ encoder
        /\ audioWire' = Append(audioWire, Packet(c, final))
        /\ UNCHANGED lost
     \/ /\ lost' = [lost EXCEPT ![c] = @ \cup {previous[c]}]
        /\ UNCHANGED audioWire

\* Faulty: the goroutine receives until it has a frame.
FirstClosed_Spins(c) ==
  /\ routine[c] = "first" /\ chan[c] = "closed"
  /\ UNCHANGED audioVars

\* The channel is closed before its first frame: previous is nil, the range
\* is over at once, and nothing is written.
FirstClosed(c) ==
  /\ routine[c] = "first" /\ chan[c] = "closed"
  /\ routine' = [routine EXCEPT ![c] = "ended"]
  /\ UNCHANGED <<encoder, progVars, previous, p, seq, encodeVars>>

\* Faulty: the sequence number is not counted up.
RangeBody_SameSeq(c) ==
  /\ routine[c] = "write"
  /\ WriteAudio(c, FALSE)
  /\ previous' = [previous EXCEPT ![c] = p[c]]
  /\ routine' = [routine EXCEPT ![c] = "range"]
  /\ UNCHANGED <<encoder, progVars, p, seq>>

RangeBody(c) ==
  /\ routine[c] = "write"
  /\ WriteAudio(c, FALSE)
  /\ previous' = [previous EXCEPT ![c] = p[c]]
  /\ seq' = [seq EXCEPT ![c] = (@ + 1) % MaxInt32]
  /\ routine' = [routine EXCEPT ![c] = "range"]
  /\ UNCHANGED <<encoder, progVars, p>>

RangeEnds(c) ==
  /\ routine[c] = "range" /\ chan[c] = "closed"
  /\ WriteAudio(c, TRUE)
  /\ routine' = [routine EXCEPT ![c] = "ended"]
  /\ UNCHANGED <<encoder, progVars, previous, p, seq>>

AudioNext ==
  \/ HandleCodecVersion
  \/ \E c \in Channels : Open(c) \/ Send(c) \/ Close(c)
  \/ \E c \in Channels : FirstClosed(c) \/ RangeBody(c) \/ RangeEnds(c)

\* The goroutine of a channel goes on when it can; the write on the
\* connection returns, with or without an error.
AudioFairness ==
  \A c \in Channels :
    WF_audioVars(FirstClosed(c)) /\ WF_audioVars(RangeBody(c)) /\ WF_audioVars(RangeEnds(c))

AudioSpec == AudioInit /\ [][AudioNext]_audioVars /\ AudioFairness

-----------------------------------------------------------------------------
OnWire(c) == {k \in DOMAIN audioWire : audioWire[k].channel = c}

(***************************************************************************)
(* The packets of a channel are on the wire in the order of its frames,    *)
(* each at most once and under its own sequence number (client.go:234),    *)
(* and the terminator bit is on the last frame of a closed channel and on  *)
(* no other, although the goroutine writes one frame behind.  When it is   *)
(* done, every frame of the channel has been written or was lost to an     *)
(* error: the one it kept back as well (client.go:236).                    *)
(***************************************************************************)
StreamOnWire ==
  \A c \in Channels :
    /\ \A k \in OnWire(c) :
         /\ audioWire[k].seq = (audioWire[k].frame - 1) % MaxInt32
         /\ \A j \in OnWire(c) : j < k => audioWire[j].frame < audioWire[k].frame
         /\ audioWire[k].final <=> routine[c] = "ended" /\ audioWire[k].frame = sent[c]
    /\ routine[c] = "ended" =>
         {audioWire[k].frame : k \in OnWire(c)} \cup lost[c] = 1..sent[c]

(***************************************************************************)
(* An encoder that has encoded a frame will be reset: a goroutine is left  *)
(* that will write a last frame (audio.go:60), also when several channels  *)
(* share the encoder and when a frame cannot be encoded.                   *)
(***************************************************************************)
ResetIsDue == dirty => \E c \in Channels : routine[c] \in {"range", "write"}

(***************************************************************************)
(* The goroutine of a closed channel ends (client.go:228): none is left    *)
(* behind, not even for a channel to which nothing was sent.               *)
(***************************************************************************)
RoutinesEnd == \A c \in Channels : chan[c] = "closed" ~> routine[c] = "ended"
=============================================================================
