----------------------------- MODULE OpenALStream -----------------------------
(***************************************************************************)
(* gumbleopenal: the capture side, where StartSource and StopSource start  *)
(* and stop goroutines that send the captured sound, and the playback of   *)
(* one incoming stream through a fixed number of buffers.  OpenAL itself   *)
(* is modelled from its use.                                               *)
(***************************************************************************)
EXTENDS OpenALStreamPromise

CONSTANTS Routines,  \* capture goroutines that may be started
          Packets    \* bound on the number of audio packets

VARIABLES
  sourceStop,  \* Stream.sourceStop, the channel of the routine started last
  closed,      \* the stop channels that are closed
  device,      \* the capture device: stopped, capturing, closed
  resized,     \* the frame size is not the one the device was opened with
  capturePc,   \* of each routine: none, starting, opened, running, sending,
               \* ended, panicked
  stop,        \* its stop channel, Nil until it is read
  received     \* the number of packets so far

captureVars == <<sourceStop, closed, device, resized, capturePc, stop>>
playVars == <<player, emptyBufs, queue, processed, playing, received>>
alVars == <<captureVars, playVars>>

ALInit ==
  /\ sourceStop = Nil /\ closed = {} /\ device = "stopped" /\ resized \in BOOLEAN
  /\ capturePc = [r \in Routines |-> "none"] /\ stop = [r \in Routines |-> Nil]
  /\ player = "receiving" /\ emptyBufs = [b \in 1..Buffers |-> b] /\ queue = <<>>
  /\ processed = 0 /\ playing = FALSE /\ received = 0

-----------------------------------------------------------------------------
(* Capture.  The methods are called one after the other.                   *)

\* Routine r is the next one; its stop channel is named after it.
StartSource(r) ==
  /\ sourceStop = Nil /\ capturePc[r] = "none" /\ device # "closed"
  /\ device' = "capturing" /\ sourceStop' = r
  /\ capturePc' = [capturePc EXCEPT ![r] = "starting"]
  /\ UNCHANGED <<closed, resized, stop, playVars>>

\* Faulty: the channel is forgotten and not closed.
StopSource_Open ==
  /\ sourceStop # Nil
  /\ sourceStop' = Nil /\ device' = "stopped"
  /\ UNCHANGED <<closed, resized, capturePc, stop, playVars>>

StopSource ==
  /\ sourceStop # Nil
  /\ closed' = closed \cup {sourceStop}
  /\ sourceStop' = Nil /\ device' = "stopped"
  /\ UNCHANGED <<resized, capturePc, stop, playVars>>

\* StopSource and the end of the devices; a routine that is still running
\* finds no device.
Destroy ==
  /\ device # "closed"
  /\ closed' = closed \cup ({sourceStop} \ {Nil})
  /\ sourceStop' = Nil /\ device' = "closed"
  /\ UNCHANGED <<resized, capturePc, stop, playVars>>

\* sourceRoutine: the device is opened anew for another frame size, and is
\* not started.
Open(r) ==
  /\ capturePc[r] = "starting"
  /\ capturePc' = [capturePc EXCEPT ![r] =
       IF resized /\ device = "closed" THEN "panicked" ELSE "opened"]
  /\ device' = IF resized /\ device # "closed" THEN "stopped" ELSE device
  /\ resized' = FALSE
  /\ UNCHANGED <<sourceStop, closed, stop, playVars>>

\* It reads the field, which may be nil or another routine's by now.
ReadStop(r) ==
  /\ capturePc[r] = "opened"
  /\ stop' = [stop EXCEPT ![r] = sourceStop]
  /\ capturePc' = [capturePc EXCEPT ![r] = "running"]
  /\ UNCHANGED <<sourceStop, closed, device, resized, playVars>>

\* A frame is taken from the device and sent when the client receives it.
Capture(r) ==
  /\ capturePc[r] = "running"
  /\ capturePc' = [capturePc EXCEPT ![r] =
       CASE device = "capturing" -> "sending"
         [] device = "stopped" -> "running"
         [] device = "closed" -> "panicked"]
  /\ UNCHANGED <<sourceStop, closed, device, resized, stop, playVars>>

Sent(r) ==
  /\ capturePc[r] = "sending"
  /\ capturePc' = [capturePc EXCEPT ![r] = "running"]
  /\ UNCHANGED <<sourceStop, closed, device, resized, stop, playVars>>

\* It closes the channel of AudioOutgoing.
End(r) ==
  /\ capturePc[r] = "running" /\ stop[r] \in closed
  /\ capturePc' = [capturePc EXCEPT ![r] = "ended"]
  /\ UNCHANGED <<sourceStop, closed, device, resized, stop, playVars>>

-----------------------------------------------------------------------------
(* Playback: the goroutine of OnAudioStream.                               *)

Reclaimed == SubSeq(queue, 1, processed)

\* A packet is received, and the buffers that were played are reclaimed; the
\* packet is dropped if no buffer is empty.
OnPacket ==
  /\ player = "receiving" /\ received < Packets
  /\ received' = received + 1
  /\ LET empty == emptyBufs \o Reclaimed IN
       IF empty = <<>>
       THEN UNCHANGED <<player, emptyBufs>>
       ELSE emptyBufs' = empty /\ player' = "filling"
  /\ queue' = SubSeq(queue, processed + 1, Len(queue)) /\ processed' = 0
  /\ UNCHANGED <<playing, captureVars>>

\* Faulty: the buffer stays among the empty ones.
QueueBuffer_Keeps ==
  /\ player = "filling" /\ player' = "queued"
  /\ queue' = Append(queue, emptyBufs[Len(emptyBufs)])
  /\ UNCHANGED <<emptyBufs, processed, playing, received, captureVars>>

QueueBuffer ==
  /\ player = "filling" /\ player' = "queued"
  /\ LET last == Len(emptyBufs) IN
       queue' = Append(queue, emptyBufs[last]) /\ emptyBufs' = SubSeq(emptyBufs, 1, last - 1)
  /\ UNCHANGED <<processed, playing, received, captureVars>>

\* A source that has stopped starts over with the first buffer of its queue.
Play ==
  /\ player = "queued" /\ player' = "receiving"
  /\ playing' = TRUE
  /\ processed' = IF playing THEN processed ELSE 0
  /\ UNCHANGED <<emptyBufs, queue, received, captureVars>>

\* The source plays a buffer, and stops after the last one.
PlayBuffer ==
  /\ playing
  /\ processed' = processed + 1
  /\ playing' = (processed' < Len(queue))
  /\ UNCHANGED <<player, emptyBufs, queue, received, captureVars>>

ALNext ==
  \/ \E r \in Routines :
       StartSource(r) \/ Open(r) \/ ReadStop(r) \/ Capture(r) \/ Sent(r) \/ End(r)
  \/ StopSource \/ Destroy
  \/ OnPacket \/ QueueBuffer \/ Play \/ PlayBuffer

\* Goroutines that can go on do so, and a closed channel is noticed though
\* the ticker may be ready too.
ALFairness ==
  /\ \A r \in Routines :
       WF_alVars(Open(r)) /\ WF_alVars(ReadStop(r)) /\ WF_alVars(Sent(r)) /\ SF_alVars(End(r))
  /\ WF_alVars(QueueBuffer) /\ WF_alVars(Play) /\ WF_alVars(PlayBuffer)

-----------------------------------------------------------------------------
(***************************************************************************)
(* A capture goroutine that has got its stop channel ends, and so ends its *)
(* audio stream, once StopSource or Destroy has let go of that channel,    *)
(* also if another source has been started since (gumbleopenal/stream.go:  *)
(* 74-75, 132-140), unless Destroy has taken the device from it while it   *)
(* was capturing, which is a panic.                                        *)
(***************************************************************************)
SourcesEnd ==
  \A r \in Routines :
    (stop[r] \notin {Nil, sourceStop}) ~>
      (capturePc[r] = "ended" \/ \E q \in Routines : capturePc[q] = "panicked")
=============================================================================
