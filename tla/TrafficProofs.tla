--------------------------- MODULE TrafficProofs ----------------------------
(***************************************************************************)
(* What is sent and received beside the packets of the control connection: *)
(* the audio streams, out to the wire and in to the buffers of OpenAL, the *)
(* statistics of the pings, and the pings of servers; for any number of    *)
(* channels, frames, buffers, slots and packets.                           *)
(***************************************************************************)
EXTENDS AudioOutgoing, OpenALStreamPromise, PingStatisticsPromise, UdpPingPromise, TLAPS

-----------------------------------------------------------------------------
(***************************************************************************)
(* Outgoing audio (AudioOutgoing). The goroutine of a channel writes one   *)
(* frame behind, so that what is on the wire is one or two frames less     *)
(* than what was sent (Done).                                              *)
(***************************************************************************)

\* The packets that can be on the wire.
Packets == [channel : Channels, frame : Nat, seq : Nat, final : BOOLEAN]

\* The types of the variables.
AudioTypes ==
  /\ encoder \in BOOLEAN /\ dirty \in BOOLEAN
  /\ chan \in [Channels -> {"none", "open", "closed"}]
  /\ routine \in [Channels -> {"absent", "first", "range", "write", "ended"}]
  /\ sent \in [Channels -> Nat] /\ previous \in [Channels -> Nat]
  /\ p \in [Channels -> Nat] /\ seq \in [Channels -> Nat]
  /\ lost \in [Channels -> SUBSET Nat]
  /\ audioWire \in Seq(Packets)

\* The frames of channel c that its goroutine has dealt with: it keeps back
\* the last one it has taken, and one more while it writes.
Done(c) ==
  IF routine[c] = "range" THEN sent[c] - 1
  ELSE IF routine[c] = "write" THEN sent[c] - 2 ELSE sent[c]

\* Where the goroutine of channel c is, and what its variables hold there
\* (client.go:228-239).
Stage(c) ==
  /\ chan[c] = "none" <=> routine[c] = "absent"
  /\ routine[c] \in {"absent", "first"} => sent[c] = 0 /\ seq[c] = 0
  /\ routine[c] = "range" => sent[c] >= 1 /\ previous[c] = sent[c]
  /\ routine[c] = "write" => sent[c] >= 2 /\ previous[c] = sent[c] - 1 /\ p[c] = sent[c]
  /\ routine[c] \in {"range", "write"} => seq[c] = (previous[c] - 1) % MaxInt32
  /\ routine[c] = "ended" => chan[c] = "closed"

\* Of the first n frames of channel c each was written, in order and under
\* its number, or was lost; the last one is final if last says so, and no
\* other one is.
Streamed(c, n, last) ==
  /\ \A k \in OnWire(c) :
       /\ audioWire[k].frame \in 1..n
       /\ audioWire[k].seq = (audioWire[k].frame - 1) % MaxInt32
       /\ \A j \in OnWire(c) : j < k => audioWire[j].frame < audioWire[k].frame
       /\ audioWire[k].final <=> last /\ audioWire[k].frame = n
  /\ {audioWire[k].frame : k \in OnWire(c)} \cup lost[c] = 1..n

\* The inductive invariant.  StreamOnWire counts the frames that were sent;
\* it is Streamed that a step of the goroutine keeps.
AudioInv ==
  /\ AudioTypes
  /\ \A c \in Channels : Stage(c) /\ Streamed(c, Done(c), routine[c] = "ended")

\* Division with remainder, the other way round.
LEMMA Remainder ==
  ASSUME NEW M \in Nat \ {0}, NEW q \in Nat, NEW r \in 0..(M - 1)
  PROVE  (M * q + r) % M = r
OBVIOUS

\* A counter that is kept modulo M counts modulo M (client.go:234).
LEMMA RemainderOfNext ==
  ASSUME NEW M \in Nat \ {0}, NEW a \in Nat
  PROVE  ((a % M) + 1) % M = (a + 1) % M /\ a % M \in Nat
<1> DEFINE q == a \div M
           r == a % M
<1>1. q \in Nat /\ r \in 0..(M - 1) OBVIOUS
<1>2. a = M * q + (a % M) OBVIOUS
<1>3. a = M * q + r BY <1>2
<1> HIDE DEF q, r
<1>4. CASE r + 1 < M
  <2>1. (M * q + (r + 1)) % M = r + 1 /\ (M * 0 + (r + 1)) % M = r + 1
    BY <1>1, <1>4, Remainder
  <2>2. a + 1 = M * q + (r + 1) /\ r + 1 = M * 0 + (r + 1) BY <1>1, <1>3
  <2> QED BY <2>1, <2>2, <1>1 DEF r
<1>5. CASE r + 1 = M
  <2>1. (M * (q + 1) + 0) % M = 0 /\ (M * 1 + 0) % M = 0 BY <1>1, Remainder
  <2>2. a + 1 = M * (q + 1) + 0 /\ r + 1 = M * 1 + 0 BY <1>1, <1>3, <1>5
  <2> QED BY <2>1, <2>2, <1>1 DEF r
<1> QED BY <1>1, <1>4, <1>5

\* Frames stay dealt with while nothing is written or lost.
LEMMA UnwrittenStays ==
  ASSUME NEW c \in Channels, NEW n, NEW last, Streamed(c, n, last),
         UNCHANGED audioWire, lost'[c] = lost[c]
  PROVE  Streamed(c, n, last)'
BY DEF Streamed, OnWire

\* A frame of channel c says nothing of the frames of another channel.
LEMMA OthersStay ==
  ASSUME AudioTypes, NEW c \in Channels, NEW final \in BOOLEAN, WriteAudio(c, final),
         NEW d \in Channels, d # c, NEW n, NEW last, Streamed(d, n, last)
  PROVE  Streamed(d, n, last)'
<1>1. lost'[d] = lost[d] BY DEF WriteAudio, AudioTypes
<1>2. CASE UNCHANGED audioWire BY <1>1, <1>2, UnwrittenStays
<1>3. CASE audioWire' = Append(audioWire, Packet(c, final))
  <2>1. /\ Len(audioWire) \in Nat /\ DOMAIN audioWire = 1..Len(audioWire)
        /\ DOMAIN audioWire' = 1..(Len(audioWire) + 1)
        /\ \A k \in 1..Len(audioWire) : audioWire'[k] = audioWire[k]
        /\ audioWire'[Len(audioWire) + 1].channel = c
    BY <1>3 DEF AudioTypes, Packet
  <2>2. OnWire(d)' = OnWire(d) BY <2>1 DEF OnWire
  <2>3. \A k \in OnWire(d) : audioWire'[k] = audioWire[k] BY <2>1 DEF OnWire
  <2> QED BY <1>1, <2>2, <2>3 DEF Streamed
<1> QED BY <1>2, <1>3 DEF WriteAudio

\* What is on the wire for a channel is a packet.
LEMMA OnWireIsPacket ==
  ASSUME AudioTypes, NEW c \in Channels, NEW k \in OnWire(c)
  PROVE  audioWire[k].final \in BOOLEAN /\ audioWire[k].frame \in Nat /\ k \in Nat
<1>1. k \in 1..Len(audioWire) /\ audioWire[k] \in Packets BY DEF AudioTypes, OnWire
<1> QED BY <1>1 DEF Packets

\* WriteAudio (client.go:232, 237; audio.go:53-73) deals with the next frame
\* of its channel, written or lost.
LEMMA FrameIsDone ==
  ASSUME AudioTypes, NEW c \in Channels, NEW final \in BOOLEAN, WriteAudio(c, final),
         NEW n \in Nat, Streamed(c, n, FALSE), previous[c] = n + 1, seq[c] = n % MaxInt32
  PROVE  Streamed(c, n + 1, final)'
<1>1. CASE encoder /\ audioWire' = Append(audioWire, Packet(c, final)) /\ UNCHANGED lost
  <2> DEFINE l == Len(audioWire) + 1
  <2>1. /\ Len(audioWire) \in Nat /\ DOMAIN audioWire = 1..Len(audioWire)
        /\ DOMAIN audioWire' = 1..l
        /\ \A k \in 1..Len(audioWire) : audioWire'[k] = audioWire[k]
        /\ audioWire'[l] = Packet(c, final)
    BY <1>1 DEF AudioTypes
  <2>2. /\ audioWire'[l].channel = c /\ audioWire'[l].frame = n + 1 /\ audioWire'[l].seq = n % MaxInt32
        /\ audioWire'[l].final = final
    BY <2>1 DEF Packet
  <2>3. OnWire(c)' = OnWire(c) \cup {l} BY <2>1, <2>2 DEF OnWire
  <2>4. l \in Nat /\ \A k \in OnWire(c) : audioWire'[k] = audioWire[k] /\ k < l /\ k \in Nat
    BY <2>1 DEF OnWire
  <2> HIDE DEF l
  <2>5. ASSUME NEW k \in OnWire(c)'
        PROVE  /\ audioWire'[k].frame \in 1..(n + 1)
               /\ audioWire'[k].seq = (audioWire'[k].frame - 1) % MaxInt32
               /\ \A j \in OnWire(c)' : j < k => audioWire'[j].frame < audioWire'[k].frame
               /\ audioWire'[k].final <=> final /\ audioWire'[k].frame = n + 1
    <3>1. CASE k = l
      <4>1. (n + 1) - 1 = n BY SMT
      <4>2. \A j \in OnWire(c)' : j < k => audioWire'[j].frame < n + 1
        BY <2>3, <2>4, <3>1 DEF Streamed
      <4> QED BY <2>2, <3>1, <4>1, <4>2
    <3>2. CASE k \in OnWire(c)
      <4>1. /\ audioWire[k].frame \in 1..n /\ audioWire[k].seq = (audioWire[k].frame - 1) % MaxInt32
            /\ \A j \in OnWire(c) : j < k => audioWire[j].frame < audioWire[k].frame
            /\ ~audioWire[k].final
        BY <3>2 DEF Streamed
      <4>2. \A j \in OnWire(c)' : j < k => j \in OnWire(c) BY <2>3, <2>4, <3>2
      <4>3. audioWire[k].final \in BOOLEAN BY <3>2, OnWireIsPacket
      <4> QED BY <2>4, <3>2, <4>1, <4>2, <4>3
    <3> QED BY <2>3, <2>5, <3>1, <3>2
  <2>6. {audioWire'[k].frame : k \in OnWire(c)'} = {audioWire[k].frame : k \in OnWire(c)} \cup {n + 1}
    BY <2>2, <2>3, <2>4
  <2>7. {audioWire'[k].frame : k \in OnWire(c)'} \cup lost'[c] = 1..(n + 1)
    <3>1. {audioWire[k].frame : k \in OnWire(c)} \cup lost[c] = 1..n BY DEF Streamed
    <3>2. 1..(n + 1) = 1..n \cup {n + 1} OBVIOUS
    <3>3. lost'[c] = lost[c] BY <1>1
    <3> QED BY <2>6, <3>1, <3>2, <3>3, Zenon
  <2> QED BY <2>5, <2>7 DEF Streamed
<1>2. CASE lost' = [lost EXCEPT ![c] = @ \cup {previous[c]}] /\ UNCHANGED audioWire
  <2>1. lost'[c] = lost[c] \cup {n + 1} BY <1>2 DEF AudioTypes
  <2>2. {audioWire[k].frame : k \in OnWire(c)} \cup lost[c] = 1..n BY DEF Streamed
  <2>3. {audioWire[k].frame : k \in OnWire(c)} \cup lost'[c] = 1..(n + 1)
    <3>1. 1..(n + 1) = 1..n \cup {n + 1} OBVIOUS
    <3> QED BY ONLY <2>1, <2>2, <3>1, Zenon
  <2>4. ASSUME NEW k \in OnWire(c)
        PROVE  audioWire[k].frame \in 1..(n + 1) /\ (audioWire[k].final <=> final /\ audioWire[k].frame = n + 1)
    <3>1. audioWire[k].final \in BOOLEAN BY OnWireIsPacket
    <3>2. audioWire[k].frame \in 1..n /\ ~audioWire[k].final BY DEF Streamed
    <3> QED BY <3>1, <3>2
  <2> QED BY <1>2, <2>3, <2>4 DEF Streamed, OnWire
<1> QED BY <1>1, <1>2 DEF WriteAudio



\* Every step keeps the types.
LEMMA TypesStep ==
  ASSUME AudioTypes, [AudioNext]_audioVars
  PROVE  AudioTypes'
<1> USE DEF AudioTypes
<1>1. ASSUME NEW c \in Channels, NEW final \in BOOLEAN, WriteAudio(c, final)
      PROVE  dirty' \in BOOLEAN /\ lost' \in [Channels -> SUBSET Nat] /\ audioWire' \in Seq(Packets)
  <2>1. Packet(c, final) \in Packets BY DEF Packet, Packets
  <2>2. dirty' \in BOOLEAN BY <1>1 DEF WriteAudio
  <2>a. \/ audioWire' = Append(audioWire, Packet(c, final)) /\ lost' = lost
        \/ lost' = [lost EXCEPT ![c] = @ \cup {previous[c]}] /\ audioWire' = audioWire
    BY <1>1 DEF WriteAudio
  <2>b. audioWire \in Seq(Packets) /\ lost \in [Channels -> SUBSET Nat] /\ previous[c] \in Nat
    OBVIOUS
  <2>3. lost' \in [Channels -> SUBSET Nat] BY ONLY <2>a, <2>b
  <2>4. audioWire' \in Seq(Packets) BY ONLY <2>a, <2>b, <2>1
  <2> QED BY <2>2, <2>3, <2>4
<1>2. CASE HandleCodecVersion BY <1>2, Zenon DEF HandleCodecVersion, progVars, routineVars
<1>3. ASSUME NEW c \in Channels, Open(c) \/ Close(c) \/ FirstClosed(c)
      PROVE  AudioTypes'
  BY <1>3, Zenon DEF Open, Close, FirstClosed, progVars, routineVars, encodeVars
<1>4. ASSUME NEW c \in Channels, Send(c)
      PROVE  AudioTypes'
  <2>1. sent' \in [Channels -> Nat] /\ sent'[c] \in Nat BY <1>4 DEF Send
  <2>2. previous' \in [Channels -> Nat] /\ p' \in [Channels -> Nat]
    BY <1>4, <2>1, Zenon DEF Send
  <2>3. routine' \in [Channels -> {"absent", "first", "range", "write", "ended"}]
    BY <1>4, Zenon DEF Send
  <2> QED BY <1>4, <2>1, <2>2, <2>3 DEF Send, encodeVars
<1>5. ASSUME NEW c \in Channels, RangeBody(c)
      PROVE  AudioTypes'
  <2>1. WriteAudio(c, FALSE) BY <1>5, Zenon DEF RangeBody
  <2>2. (seq[c] + 1) % MaxInt32 \in Nat BY BoundsAssumption
  <2>3. dirty' \in BOOLEAN /\ lost' \in [Channels -> SUBSET Nat] /\ audioWire' \in Seq(Packets)
    BY <1>1, <2>1, Zenon
  <2> QED BY <1>5, <2>2, <2>3, Zenon DEF RangeBody, progVars
<1>6. ASSUME NEW c \in Channels, RangeEnds(c)
      PROVE  AudioTypes'
  <2>1. WriteAudio(c, TRUE) BY <1>6, Zenon DEF RangeEnds
  <2>2. dirty' \in BOOLEAN /\ lost' \in [Channels -> SUBSET Nat] /\ audioWire' \in Seq(Packets)
    BY <1>1, <2>1, Zenon
  <2> QED BY <1>6, <2>2, Zenon DEF RangeEnds, progVars
<1>7. CASE UNCHANGED audioVars
  BY <1>7 DEF audioVars, progVars, routineVars, encodeVars
<1> QED BY <1>2, <1>3, <1>4, <1>5, <1>6, <1>7, Zenon DEF AudioNext

\* A step of one channel keeps what is known of the others.
LEMMA OthersKept ==
  ASSUME AudioInv, NEW c \in Channels,
         Open(c) \/ Send(c) \/ Close(c) \/ FirstClosed(c) \/ RangeBody(c) \/ RangeEnds(c),
         NEW d \in Channels, d # c
  PROVE  Stage(d)' /\ Streamed(d, Done(d), routine[d] = "ended")'
<1>1. /\ AudioTypes /\ Stage(d) /\ Streamed(d, Done(d), routine[d] = "ended")
  BY DEF AudioInv
<1>2. /\ chan'[d] = chan[d] /\ sent'[d] = sent[d] /\ routine'[d] = routine[d]
      /\ previous'[d] = previous[d] /\ p'[d] = p[d] /\ seq'[d] = seq[d]
  BY <1>1, Zenon DEF AudioTypes, Open, Send, Close, FirstClosed, RangeBody, RangeEnds,
              progVars, routineVars, encodeVars
<1>3. Stage(d)' BY <1>1, <1>2 DEF Stage
<1>4. PICK n, last : n = Done(d) /\ last = (routine[d] = "ended") OBVIOUS
<1>5. Streamed(d, n, last)'
  <2>1. CASE Open(c) \/ Send(c) \/ Close(c) \/ FirstClosed(c)
    <3>1. UNCHANGED <<audioWire, lost>>
      BY <2>1 DEF Open, Send, Close, FirstClosed, encodeVars
    <3> QED BY <1>1, <1>4, <3>1, UnwrittenStays
  <2>2. CASE RangeBody(c) \/ RangeEnds(c)
    <3>1. PICK final \in BOOLEAN : WriteAudio(c, final)
      BY <2>2, Zenon DEF RangeBody, RangeEnds
    <3> QED BY <1>1, <1>4, <3>1, OthersStay
  <2> QED BY <2>1, <2>2
<1>6. n = Done(d)' /\ last = (routine'[d] = "ended") BY <1>2, <1>4 DEF Done
<1> QED BY <1>3, <1>5, <1>6, Zenon DEF Streamed, OnWire

\* Every step keeps the invariant.
LEMMA AudioStep ==
  ASSUME AudioInv, [AudioNext]_audioVars
  PROVE  AudioInv'
<1>0. AudioTypes /\ AudioTypes' BY TypesStep DEF AudioInv
<1> DEFINE Kept(c) == Stage(c)' /\ Streamed(c, Done(c), routine[c] = "ended")'
<1>1. \A c \in Channels : Stage(c) /\ Streamed(c, Done(c), routine[c] = "ended")
  BY DEF AudioInv
<1>2. CASE HandleCodecVersion \/ UNCHANGED audioVars
  <2>1. UNCHANGED <<chan, sent, routine, previous, p, seq, lost, audioWire>>
    BY <1>2 DEF HandleCodecVersion, audioVars, progVars, routineVars, encodeVars
  <2>2. \A c \in Channels : Kept(c)
    BY <1>1, <2>1 DEF Stage, Streamed, OnWire, Done
  <2> QED BY <1>0, <2>2 DEF AudioInv
<1>3. ASSUME NEW c \in Channels, Open(c) \/ Close(c) \/ Send(c)
      PROVE  Kept(c)
  <2>0. Stage(c) BY <1>1
  <2>1. Stage(c)'
    <3>1. CASE Open(c)
      BY <1>0, <2>0, <3>1, BoundsAssumption DEF Open, Stage, AudioTypes
    <3>2. CASE Close(c)
      BY <1>0, <2>0, <3>2 DEF Close, Stage, AudioTypes, routineVars
    <3>3. CASE Send(c)
      BY <1>0, <2>0, <3>3, BoundsAssumption DEF Send, Stage, AudioTypes
    <3> QED BY <1>3, <3>1, <3>2, <3>3
  <2>2. Done(c)' = Done(c) /\ (routine'[c] = "ended" <=> routine[c] = "ended")
    <3>1. CASE Open(c)
      BY <1>0, <2>0, <3>1 DEF Open, Stage, AudioTypes, Done
    <3>2. CASE Close(c)
      BY <3>2 DEF Close, routineVars, Done
    <3>3. CASE Send(c)
      BY <1>0, <2>0, <3>3 DEF Send, Stage, AudioTypes, Done
    <3> QED BY <1>3, <3>1, <3>2, <3>3
  <2>3. UNCHANGED <<audioWire, lost>> BY <1>3 DEF Open, Close, Send, encodeVars
  <2> QED BY <1>1, <2>1, <2>2, <2>3 DEF Streamed, OnWire
<1>4. ASSUME NEW c \in Channels, FirstClosed(c)
      PROVE  Kept(c)
  <2>1. Stage(c)' /\ Done(c)' = 0 /\ Done(c) = 0
    BY <1>0, <1>1, <1>4 DEF FirstClosed, Stage, AudioTypes, progVars, Done
  <2>2. UNCHANGED <<audioWire, lost>> BY <1>4 DEF FirstClosed, encodeVars
  <2>3. OnWire(c) = {} BY <1>1, <2>1 DEF Streamed
  <2>4. lost[c] = 1..0 BY <1>1, <2>1, <2>3 DEF Streamed
  <2> QED BY <2>1, <2>2, <2>3, <2>4 DEF Streamed, OnWire
<1>5. ASSUME NEW c \in Channels, RangeBody(c)
      PROVE  Kept(c)
  <2>1. /\ Done(c) \in Nat /\ previous[c] = Done(c) + 1 /\ seq[c] = Done(c) % MaxInt32
        /\ routine[c] # "ended"
    BY <1>0, <1>1, <1>5 DEF RangeBody, Stage, AudioTypes, Done
  <2>2. Streamed(c, Done(c), FALSE) BY <1>1, <2>1 DEF Streamed
  <2>3. PICK n \in Nat : n = Done(c) BY <2>1
  <2>4. Streamed(c, n + 1, FALSE)'
    BY <1>0, <1>5, <2>1, <2>2, <2>3, FrameIsDone, Zenon DEF RangeBody
  <2>5. Stage(c)'
    <3>1. seq'[c] = (n + 1) % MaxInt32
      BY <1>0, <1>5, <2>1, <2>3, RemainderOfNext, BoundsAssumption, Zenon
         DEF RangeBody, AudioTypes
    <3> QED
      BY <3>1, <1>0, <1>1, <1>5, <2>1, <2>3
         DEF RangeBody, Stage, AudioTypes, Done, progVars
  <2>6. Done(c)' = n + 1 /\ routine'[c] # "ended"
    BY <1>0, <1>1, <1>5, <2>3 DEF RangeBody, Stage, AudioTypes, Done, progVars
  <2> QED BY <2>4, <2>5, <2>6 DEF Streamed, OnWire
<1>6. ASSUME NEW c \in Channels, RangeEnds(c)
      PROVE  Kept(c)
  <2>1. /\ Done(c) \in Nat /\ previous[c] = Done(c) + 1 /\ seq[c] = Done(c) % MaxInt32
        /\ routine[c] # "ended"
    BY <1>0, <1>1, <1>6 DEF RangeEnds, Stage, AudioTypes, Done
  <2>2. Streamed(c, Done(c), FALSE) BY <1>1, <2>1 DEF Streamed
  <2>3. PICK n \in Nat : n = Done(c) BY <2>1
  <2>4. Streamed(c, n + 1, TRUE)'
    BY <1>0, <1>6, <2>1, <2>2, <2>3, FrameIsDone, Zenon DEF RangeEnds
  <2>5. Stage(c)'
    BY <1>0, <1>1, <1>6 DEF RangeEnds, Stage, AudioTypes, progVars
  <2>6. Done(c)' = n + 1 /\ routine'[c] = "ended"
    BY <1>0, <1>1, <1>6, <2>3 DEF RangeEnds, Stage, AudioTypes, Done, progVars
  <2> QED BY <2>4, <2>5, <2>6 DEF Streamed, OnWire
<1>7. ASSUME NEW c \in Channels, NEW d \in Channels,
             Open(c) \/ Send(c) \/ Close(c) \/ FirstClosed(c) \/ RangeBody(c) \/ RangeEnds(c)
      PROVE  Kept(d)
  BY <1>3, <1>4, <1>5, <1>6, <1>7, OthersKept
<1> QED BY <1>0, <1>2, <1>7 DEF AudioNext, AudioInv

\* The invariant holds at first.
LEMMA AudioInvInit ==
  ASSUME AudioInit
  PROVE  AudioInv
<1>1. AudioTypes
  <2>1. audioWire \in Seq(Packets) BY DEF AudioInit
  <2>2. encoder \in BOOLEAN /\ dirty \in BOOLEAN BY Zenon DEF AudioInit
  <2>3. lost \in [Channels -> SUBSET Nat] BY DEF AudioInit
  <2> QED BY <2>1, <2>2, <2>3 DEF AudioInit, AudioTypes
<1>2. ASSUME NEW c \in Channels
      PROVE  Stage(c) /\ Streamed(c, Done(c), routine[c] = "ended")
  <2>1. OnWire(c) = {} /\ lost[c] = {} /\ Done(c) = 0 BY DEF AudioInit, OnWire, Done
  <2>2. Stage(c) BY DEF AudioInit, Stage
  <2> QED BY <2>1, <2>2 DEF Streamed
<1> QED BY <1>1, <1>2 DEF AudioInv

\* The packets of every channel are on the wire in the order of its frames,
\* numbered, the last one of a closed channel marked and no other, and no
\* frame is forgotten (client.go:228-239): for any number of channels and
\* frames and any limit of the numbers.
THEOREM StreamsOut == AudioSpec => []StreamOnWire
<1>1. AudioInit => AudioInv BY AudioInvInit
<1>2. AudioInv /\ [AudioNext]_audioVars => AudioInv' BY AudioStep
<1>3. AudioInv => StreamOnWire
  <2> SUFFICES ASSUME AudioInv, NEW c \in Channels
               PROVE  /\ \A k \in OnWire(c) :
                           /\ audioWire[k].seq = (audioWire[k].frame - 1) % MaxInt32
                           /\ \A j \in OnWire(c) : j < k => audioWire[j].frame < audioWire[k].frame
                           /\ audioWire[k].final <=> routine[c] = "ended" /\ audioWire[k].frame = sent[c]
                      /\ routine[c] = "ended" =>
                           {audioWire[k].frame : k \in OnWire(c)} \cup lost[c] = 1..sent[c]
    BY Zenon DEF StreamOnWire
  <2>1. Streamed(c, Done(c), routine[c] = "ended") BY DEF AudioInv
  <2>2. routine[c] = "ended" => Done(c) = sent[c] BY DEF Done
  <2> QED BY <2>1, <2>2 DEF Streamed
<1> QED BY <1>1, <1>2, <1>3, PTL DEF AudioSpec

\* An encoder that has encoded a frame will be reset, as a goroutine is left
\* that writes a last frame (audio.go:60), however many channels share it.
THEOREM EncoderReset == AudioSpec => []ResetIsDue
<1>1. AudioInit => AudioInv /\ ResetIsDue BY AudioInvInit, Zenon DEF AudioInit, ResetIsDue
<1>2. AudioInv /\ ResetIsDue /\ [AudioNext]_audioVars => AudioInv' /\ ResetIsDue'
  <2> SUFFICES ASSUME AudioInv, ResetIsDue, [AudioNext]_audioVars PROVE ResetIsDue'
    BY AudioStep
  <2>0. AudioTypes BY DEF AudioInv
  <2> USE <2>0 DEF ResetIsDue, AudioTypes
  <2>1. CASE HandleCodecVersion BY <2>1 DEF HandleCodecVersion
  <2>2. ASSUME NEW c \in Channels, Open(c) \/ Send(c) \/ Close(c) \/ FirstClosed(c)
        PROVE  ResetIsDue'
    <3>1. dirty' = dirty BY <2>2 DEF Open, Send, Close, FirstClosed, encodeVars
    <3>2. \A d \in Channels : routine[d] \in {"range", "write"} => routine'[d] \in {"range", "write"}
      <4>1. CASE Open(c)
        <5>1. routine[c] = "absent" BY <4>1 DEF Open, AudioInv, Stage
        <5> QED BY <4>1, <5>1 DEF Open
      <4>4. CASE Close(c) BY <4>4 DEF Close, routineVars
      <4>2. CASE Send(c) BY <4>2 DEF Send
      <4>3. CASE FirstClosed(c) BY <4>3 DEF FirstClosed
      <4> QED BY <2>2, <4>1, <4>2, <4>3, <4>4
    <3> QED BY <3>1, <3>2
  <2>3. ASSUME NEW c \in Channels, RangeBody(c) PROVE ResetIsDue'
    BY <2>3 DEF RangeBody
  <2>4. ASSUME NEW c \in Channels, RangeEnds(c) PROVE ResetIsDue'
    BY <2>4, Zenon DEF RangeEnds, WriteAudio
  <2>5. CASE UNCHANGED audioVars BY <2>5 DEF audioVars, encodeVars, routineVars
  <2> QED BY <2>1, <2>2, <2>3, <2>4, <2>5 DEF AudioNext
<1> QED BY <1>1, <1>2, PTL DEF AudioSpec

-----------------------------------------------------------------------------
(***************************************************************************)
(* Playback (OpenALStream).                                                *)
(***************************************************************************)
CONSTANTS Routines, MaxPackets
VARIABLES sourceStop, closed, device, resized, capturePc, stop, received

OpenAL == INSTANCE OpenALStream WITH Packets <- MaxPackets

\* The specification, of which safety is proved here.
StreamSpec == OpenAL!ALInit /\ [][OpenAL!ALNext]_(OpenAL!alVars)

\* b is in the sequence s.
Holds(s, b) == \E i \in 1..Len(s) : s[i] = b

\* The buffers of a stream.
AllBuffers == 1..Buffers

\* The inductive invariant of the playback: there are as many places as
\* buffers and every buffer has one, so none has two; and where the goroutine
\* is says what it may find in the queue (gumbleopenal/stream.go:84-111).
PlayInv ==
  /\ emptyBufs \in Seq(AllBuffers) /\ queue \in Seq(AllBuffers)
  /\ Len(emptyBufs) + Len(queue) = Buffers
  /\ \A b \in AllBuffers : Holds(emptyBufs, b) \/ Holds(queue, b)
  /\ processed \in 0..Len(queue) /\ playing \in BOOLEAN
  /\ playing => processed < Len(queue)
  /\ player = "receiving" /\ processed < Len(queue) => playing
  /\ player = "filling" => Len(emptyBufs) > 0
  /\ player = "queued" => Len(queue) > 0

\* What a concatenation holds.
LEMMA ConcatProperties ==
  ASSUME NEW S, NEW s \in Seq(S), NEW t \in Seq(S)
  PROVE  /\ s \o t \in Seq(S) /\ Len(s \o t) = Len(s) + Len(t)
         /\ \A i \in 1..(Len(s) + Len(t)) :
              (s \o t)[i] = IF i <= Len(s) THEN s[i] ELSE t[i - Len(s)]
OBVIOUS

\* What a part of a sequence holds.
LEMMA SubSeqProperties ==
  ASSUME NEW S, NEW s \in Seq(S), NEW m \in Nat, NEW n \in Nat, m > 0, n <= Len(s)
  PROVE  /\ SubSeq(s, m, n) \in Seq(S)
         /\ Len(SubSeq(s, m, n)) = IF m <= n THEN n - m + 1 ELSE 0
         /\ \A i \in 1..(n - m + 1) : SubSeq(s, m, n)[i] = s[m + i - 1]
OBVIOUS

\* The first p buffers of the queue q go to the empty ones, e: c are then
\* empty, and t is the queue.
Reclaims(e, q, hd, c, t) == c = e \o SubSeq(q, 1, hd) /\ t = SubSeq(q, hd + 1, Len(q))

\* No buffer gets lost between the two lists.
KeepsAll(e, q, c, t) == \A b : Holds(e, b) \/ Holds(q, b) => Holds(c, b) \/ Holds(t, b)

\* Reclaiming buffers (gumbleopenal/stream.go:84-90) loses none.
LEMMA Reclaiming ==
  ASSUME NEW S, NEW e \in Seq(S), NEW q \in Seq(S), NEW hd \in 0..Len(q),
         NEW c, NEW t, Reclaims(e, q, hd, c, t)
  PROVE  /\ t \in Seq(S) /\ c \in Seq(S)
         /\ Len(t) = Len(q) - hd /\ Len(c) = Len(e) + hd
         /\ KeepsAll(e, q, c, t)
<1>0. PICK r : r = SubSeq(q, 1, hd) /\ t = SubSeq(q, hd + 1, Len(q)) /\ c = e \o r
  BY Zenon DEF Reclaims
<1>1. r \in Seq(S) /\ Len(r) = hd /\ \A i \in 1..hd : r[i] = q[i] BY <1>0
<1>2. t \in Seq(S) /\ Len(t) = Len(q) - hd /\ \A i \in 1..(Len(q) - hd) : t[i] = q[hd + i]
  BY <1>0
<1>3. /\ c \in Seq(S) /\ Len(c) = Len(e) + hd
      /\ \A i \in 1..Len(e) : c[i] = e[i]
      /\ \A i \in 1..hd : c[Len(e) + i] = r[i]
  <2>1. /\ c \in Seq(S) /\ Len(c) = Len(e) + Len(r)
        /\ \A i \in 1..(Len(e) + Len(r)) : c[i] = IF i <= Len(e) THEN e[i] ELSE r[i - Len(e)]
    BY ONLY <1>0, <1>1, ConcatProperties, e \in Seq(S)
  <2>2. hd \in Nat /\ Len(e) \in Nat OBVIOUS
  <2>3. \A i \in 1..hd : Len(e) + i \in 1..(Len(e) + hd) /\ ~(Len(e) + i <= Len(e)) /\ (Len(e) + i) - Len(e) = i
    BY ONLY <2>2
  <2>4. \A i \in 1..Len(e) : i \in 1..(Len(e) + hd) /\ i <= Len(e) BY ONLY <2>2
  <2> QED BY ONLY <1>1, <2>1, <2>3, <2>4, Zenon
<1>4. ASSUME NEW b, Holds(e, b) PROVE Holds(c, b)
  <2>1. PICK i \in 1..Len(e) : e[i] = b BY <1>4 DEF Holds
  <2>2. i \in 1..Len(c) /\ c[i] = b BY <1>3, <2>1
  <2> QED BY <2>2 DEF Holds
<1>5. ASSUME NEW b, Holds(q, b) PROVE Holds(c, b) \/ Holds(t, b)
  <2>1. PICK i \in 1..Len(q) : q[i] = b BY <1>5 DEF Holds
  <2>2. CASE i <= hd
    <3>1. Len(e) + i \in 1..Len(c) /\ c[Len(e) + i] = b BY <1>1, <1>3, <2>1, <2>2
    <3> QED BY <3>1 DEF Holds
  <2>3. CASE i > hd
    <3>1. i - hd \in 1..Len(t) /\ hd + (i - hd) = i BY <1>2, <2>1, <2>3
    <3>2. t[i - hd] = b BY <1>2, <2>1, <3>1
    <3> QED BY <3>1, <3>2 DEF Holds
  <2> QED BY <2>2, <2>3
<1> QED BY <1>1, <1>2, <1>3, <1>4, <1>5 DEF KeepsAll

\* The last one of the empty buffers e goes to the end of the queue q: f are
\* then empty, and t is the queue.
Rotates(e, q, f, t) == f = SubSeq(e, 1, Len(e) - 1) /\ t = Append(q, e[Len(e)])

\* Queueing a buffer (gumbleopenal/stream.go:101-105) loses none.
LEMMA Queueing ==
  ASSUME NEW S, NEW e \in Seq(S), NEW q \in Seq(S), Len(e) > 0,
         NEW f, NEW t, Rotates(e, q, f, t)
  PROVE  /\ f \in Seq(S) /\ t \in Seq(S) /\ Len(f) = Len(e) - 1 /\ Len(t) = Len(q) + 1
         /\ KeepsAll(e, q, f, t)
<1>1. f \in Seq(S) /\ Len(f) = Len(e) - 1 /\ \A i \in 1..(Len(e) - 1) : f[i] = e[i]
  <2>1. f = SubSeq(e, 1, Len(e) - 1) BY DEF Rotates
  <2>0. Len(e) - 1 \in Nat BY ONLY e \in Seq(S), Len(e) > 0
  <2>2. PICK n \in Nat : n = Len(e) - 1 BY <2>0
  <2>4. n <= Len(e) /\ (n - 1) + 1 = n BY <2>2
  <2>3. /\ f \in Seq(S) /\ Len(f) = IF 1 <= n THEN (n - 1) + 1 ELSE 0
        /\ \A i \in 1..((n - 1) + 1) : f[i] = e[(1 + i) - 1]
    BY ONLY <2>1, <2>2, <2>4, SubSeqProperties, e \in Seq(S)
  <2> QED BY ONLY <2>2, <2>3, <2>4
<1>2. /\ t \in Seq(S) /\ Len(t) = Len(q) + 1 /\ t[Len(q) + 1] = e[Len(e)]
      /\ \A i \in 1..Len(q) : t[i] = q[i]
  BY DEF Rotates
<1>3. ASSUME NEW b, Holds(e, b) PROVE Holds(f, b) \/ Holds(t, b)
  <2>1. PICK i \in 1..Len(e) : e[i] = b BY <1>3 DEF Holds
  <2>2. CASE i = Len(e)
    <3>1. Len(q) + 1 \in 1..Len(t) /\ t[Len(q) + 1] = b BY <1>2, <2>1, <2>2
    <3> QED BY <3>1 DEF Holds
  <2>3. CASE i # Len(e)
    <3>1. i \in 1..Len(f) /\ f[i] = b BY <1>1, <2>1, <2>3
    <3> QED BY <3>1 DEF Holds
  <2> QED BY <2>2, <2>3
<1>4. ASSUME NEW b, Holds(q, b) PROVE Holds(t, b)
  <2>1. PICK i \in 1..Len(q) : q[i] = b BY <1>4 DEF Holds
  <2>2. i \in 1..Len(t) /\ t[i] = b BY <1>2, <2>1
  <2> QED BY <2>2 DEF Holds
<1> QED BY <1>1, <1>2, <1>3, <1>4 DEF KeepsAll

\* Every step keeps the invariant.
LEMMA PlayStep ==
  ASSUME PlayInv, [OpenAL!ALNext]_(OpenAL!alVars)
  PROVE  PlayInv'
<1> PICK n : n = Len(queue) /\ n \in Nat BY DEF PlayInv
<1>1. CASE OpenAL!OnPacket
  <2>0. PICK r : r = SubSeq(queue, 1, processed) BY Zenon
  <2>1. PICK empty : empty = emptyBufs \o r BY Zenon
  <2>2. /\ player = "receiving" /\ processed' = 0 /\ UNCHANGED playing
        /\ queue' = SubSeq(queue, processed + 1, Len(queue))
        /\ \/ empty = <<>> /\ UNCHANGED <<player, emptyBufs>>
           \/ empty # <<>> /\ emptyBufs' = empty /\ player' = "filling"
    BY <1>1, <2>0, <2>1, Zenon DEF OpenAL!OnPacket, OpenAL!Reclaimed
  <2>3. /\ empty \in Seq(AllBuffers) /\ queue' \in Seq(AllBuffers)
        /\ Len(empty) = Len(emptyBufs) + processed /\ Len(queue') = Len(queue) - processed
        /\ KeepsAll(emptyBufs, queue, empty, queue')
    <3>1. emptyBufs \in Seq(AllBuffers) /\ queue \in Seq(AllBuffers) /\ processed \in 0..Len(queue)
      BY DEF PlayInv
    <3>2. Reclaims(emptyBufs, queue, processed, empty, queue')
      BY <2>0, <2>1, <2>2 DEF Reclaims
    <3> QED BY ONLY <3>1, <3>2, Reclaiming
  <2>4. CASE empty = <<>>
    <3>1. Len(emptyBufs) = 0 /\ processed = 0 /\ Len(empty) = 0
      BY <2>3, <2>4 DEF PlayInv
    <3>2. emptyBufs = empty BY <2>4, <3>1 DEF PlayInv
    <3> QED BY <2>2, <2>3, <2>4, <3>1, <3>2 DEF PlayInv, KeepsAll
  <2>5. CASE empty # <<>>
    <3>1. Len(empty) > 0 BY <2>3, <2>5
    <3>2. emptyBufs' = empty /\ player' = "filling" /\ playing' = playing /\ processed' = 0
      BY <2>2, <2>5
    <3>3. Len(emptyBufs') + Len(queue') = Buffers
      <4>1. Len(emptyBufs) \in Nat /\ Len(queue) \in Nat /\ processed \in Nat
        BY DEF PlayInv
      <4>2. Len(emptyBufs) + Len(queue) = Buffers BY DEF PlayInv
      <4>3. Len(empty) = Len(emptyBufs) + processed /\ Len(queue') = Len(queue) - processed
        BY <2>3
      <4>4. Len(empty) + Len(queue') = Buffers BY ONLY <4>1, <4>2, <4>3
      <4> QED BY <3>2, <4>4
    <3>4. \A b \in AllBuffers : Holds(emptyBufs', b) \/ Holds(queue', b)
      BY <2>3, <3>2 DEF PlayInv, KeepsAll
    <3>5. playing' \in BOOLEAN /\ processed' \in 0..Len(queue') /\ (playing' => processed' < Len(queue'))
      BY <2>3, <3>2 DEF PlayInv
    <3> QED BY <2>3, <3>1, <3>2, <3>3, <3>4, <3>5 DEF PlayInv
  <2> QED BY <2>4, <2>5
<1>2. CASE OpenAL!QueueBuffer
  <2>1. /\ player = "filling" /\ player' = "queued" /\ UNCHANGED <<processed, playing>>
        /\ queue' = Append(queue, emptyBufs[Len(emptyBufs)])
        /\ emptyBufs' = SubSeq(emptyBufs, 1, Len(emptyBufs) - 1)
    BY <1>2 DEF OpenAL!QueueBuffer
  <2>2. /\ emptyBufs' \in Seq(AllBuffers) /\ queue' \in Seq(AllBuffers)
        /\ Len(emptyBufs') = Len(emptyBufs) - 1 /\ Len(queue') = Len(queue) + 1
        /\ KeepsAll(emptyBufs, queue, emptyBufs', queue')
    <3>1. emptyBufs \in Seq(AllBuffers) /\ queue \in Seq(AllBuffers) /\ Len(emptyBufs) > 0
      BY <2>1 DEF PlayInv
    <3>2. Rotates(emptyBufs, queue, emptyBufs', queue') BY <2>1 DEF Rotates
    <3> QED BY ONLY <3>1, <3>2, Queueing
  <2>3. \A b \in AllBuffers : Holds(emptyBufs', b) \/ Holds(queue', b)
    BY <2>2 DEF PlayInv, KeepsAll
  <2>4. Len(emptyBufs') + Len(queue') = Buffers
    <3>1. Len(emptyBufs) \in Nat /\ Len(queue) \in Nat BY DEF PlayInv
    <3>2. Len(emptyBufs) + Len(queue) = Buffers BY DEF PlayInv
    <3> QED BY ONLY <2>2, <3>1, <3>2
  <2>5. processed' \in 0..Len(queue') /\ processed' < Len(queue') /\ Len(queue') > 0
    BY <2>1, <2>2 DEF PlayInv
  <2>6. playing' \in BOOLEAN /\ player' = "queued" BY <2>1 DEF PlayInv
  <2> QED BY ONLY <2>2, <2>3, <2>4, <2>5, <2>6 DEF PlayInv
<1>3. CASE OpenAL!Play
  BY <1>3 DEF OpenAL!Play, PlayInv, Holds
<1>4. CASE OpenAL!PlayBuffer
  <2>1. /\ processed < Len(queue) /\ processed' = processed + 1
        /\ playing' = (processed' < Len(queue)) /\ UNCHANGED <<player, emptyBufs, queue>>
    BY <1>4 DEF OpenAL!PlayBuffer, PlayInv
  <2>2. playing' \in BOOLEAN /\ (playing' <=> processed' < Len(queue))
    <3>1. CASE processed' < Len(queue)
      <4>1. playing' = TRUE BY <2>1, <3>1, Zenon
      <4> QED BY <3>1, <4>1
    <3>2. CASE ~(processed' < Len(queue))
      <4>1. processed' \in Nat /\ Len(queue) \in Nat BY <2>1 DEF PlayInv
      <4>2. (processed' < Len(queue)) = FALSE BY <3>2, <4>1
      <4>3. playing' = FALSE BY <2>1, <4>2, Zenon
      <4> QED BY <3>2, <4>3, Zenon
    <3> QED BY <3>1, <3>2
  <2> QED BY <2>1, <2>2 DEF PlayInv, Holds
<1>5. CASE UNCHANGED OpenAL!playVars
  BY <1>5 DEF OpenAL!playVars, PlayInv, Holds
<1> QED BY <1>1, <1>2, <1>3, <1>4, <1>5
        DEF OpenAL!ALNext, OpenAL!StartSource, OpenAL!Open, OpenAL!ReadStop,
            OpenAL!Capture, OpenAL!Sent, OpenAL!End, OpenAL!StopSource, OpenAL!Destroy, OpenAL!alVars

\* As many places as buffers, and every buffer in one: no buffer is in two.
LEMMA PlayConserved ==
  ASSUME PlayInv
  PROVE  BuffersConserved
<1>1. PICK all : all = emptyBufs \o queue BY Zenon
<1>0. /\ emptyBufs \in Seq(AllBuffers) /\ queue \in Seq(AllBuffers)
      /\ Len(emptyBufs) \in Nat /\ Len(queue) \in Nat
  BY DEF PlayInv
<1>2. /\ all \in Seq(AllBuffers) /\ Len(all) = Len(emptyBufs) + Len(queue)
      /\ \A i \in 1..Len(emptyBufs) : all[i] = emptyBufs[i]
      /\ \A i \in 1..Len(queue) : all[Len(emptyBufs) + i] = queue[i]
  BY ONLY <1>0, <1>1
<1>3. \A b \in AllBuffers : \E i \in 1..Len(all) : all[i] = b
  <2> SUFFICES ASSUME NEW b \in AllBuffers PROVE \E i \in 1..Len(all) : all[i] = b
    OBVIOUS
  <2>1. CASE Holds(emptyBufs, b)
    <3>1. PICK i \in 1..Len(emptyBufs) : emptyBufs[i] = b BY <2>1 DEF Holds
    <3>2. i \in 1..Len(all) /\ all[i] = b BY <1>0, <1>2, <3>1
    <3> QED BY <3>2
  <2>2. CASE Holds(queue, b)
    <3>1. PICK i \in 1..Len(queue) : queue[i] = b BY <2>2 DEF Holds
    <3>2. Len(emptyBufs) + i \in 1..Len(all) /\ all[Len(emptyBufs) + i] = b
      BY <1>0, <1>2, <3>1
    <3> QED BY <3>2
  <2> QED BY <2>1, <2>2 DEF PlayInv
<1>4. {all[k] : k \in 1..Len(all)} = AllBuffers
  <2>1. DOMAIN all = 1..Len(all) /\ \A i \in 1..Len(all) : all[i] \in AllBuffers
    BY <1>2
  <2> QED BY <1>3, <2>1
<1> QED BY <1>1, <1>2, <1>4 DEF PlayInv, BuffersConserved, AllBuffers

\* Every buffer is empty or queued and never both, and what is queued is
\* played while the goroutine waits for a packet
\* (gumbleopenal/stream.go:84-90, 101-111): for any number of buffers.
THEOREM ConservedBuffers ==
  ASSUME Buffers \in Nat
  PROVE  StreamSpec => []BuffersConserved
<1>1. OpenAL!ALInit => PlayInv
  <2> SUFFICES ASSUME OpenAL!ALInit PROVE PlayInv OBVIOUS
  <2>1. /\ emptyBufs = [b \in 1..Buffers |-> b] /\ queue = <<>> /\ processed = 0
        /\ player = "receiving" /\ playing = FALSE
    BY DEF OpenAL!ALInit
  <2>2. /\ emptyBufs \in Seq(AllBuffers) /\ Len(emptyBufs) = Buffers
        /\ \A b \in AllBuffers : b \in 1..Len(emptyBufs) /\ emptyBufs[b] = b
    BY <2>1 DEF AllBuffers
  <2>3. queue \in Seq(AllBuffers) /\ Len(queue) = 0 BY <2>1
  <2>4. \A b \in AllBuffers : Holds(emptyBufs, b) BY <2>2 DEF Holds
  <2>5. Len(emptyBufs) + Len(queue) = Buffers BY <2>2, <2>3
  <2>6. processed \in 0..Len(queue) /\ ~(processed < Len(queue)) BY <2>1, <2>3
  <2>7. playing \in BOOLEAN /\ ~playing BY <2>1, Zenon
  <2>8. player # "filling" /\ player # "queued" BY <2>1
  <2> QED BY ONLY <2>2, <2>3, <2>4, <2>5, <2>6, <2>7, <2>8 DEF PlayInv
<1>2. PlayInv /\ [OpenAL!ALNext]_(OpenAL!alVars) => PlayInv' BY PlayStep
<1>3. PlayInv => BuffersConserved BY PlayConserved
<1> QED BY <1>1, <1>2, <1>3, PTL DEF StreamSpec

-----------------------------------------------------------------------------
(***************************************************************************)
(* The statistics of the pings (PingStatistics).                           *)
(***************************************************************************)
CONSTANTS Times, MaxPings
VARIABLES tcpPacketsReceived, tcpPingTimes, index, sender, local

Statistics == INSTANCE PingStatistics

\* The specification, of which safety is proved here.
StatisticsSpec == Statistics!StatsInit /\ [][Statistics!StatsNext]_(Statistics!statVars)

\* The pings with these numbers had no timestamp.
Unstamped(from, to) == \A k \in from..to : history[k] = Nil

\* The types, and that the counter is the number of pings until it wraps
\* around.
StatTypes ==
  /\ history \in Seq(Times \cup {Nil})
  /\ tcpPacketsReceived \in 0..(Wrap - 1)
  /\ Len(history) < Wrap => tcpPacketsReceived = Len(history)
  /\ tcpPingTimes \in [0..(Slots - 1) -> Times \cup {0}]
  /\ tcpPingAvg.of \in 0..Len(history) /\ tcpPingVar.of \in 0..Len(history)
  /\ handler \in {"idle", "average", "variance", "panicked"}
  /\ index \in 0..(Slots - 1)

\* Where handlePing is, and of which pings the average and the variance are
\* then: the last ones with a timestamp (handlers.go:191-221).
Handled ==
  /\ handler \in {"idle", "average"} => tcpPingVar.of = tcpPingAvg.of
  /\ handler = "idle" => Unstamped(tcpPingAvg.of + 1, Len(history))
  /\ handler = "average" => Unstamped(tcpPingAvg.of + 1, Len(history) - 1)
  /\ handler = "variance" => tcpPingAvg.of = Len(history)
  /\ Unstamped(tcpPingVar.of + 1, tcpPingAvg.of - 1)

\* The same for what pingRoutine has read and what it has sent: in between,
\* handlePing may have stored a new average (client.go:261-263).
Carried ==
  /\ DOMAIN local = {"avg", "var"} /\ local = [avg |-> local.avg, var |-> local.var]
  /\ local.avg.of \in 0..Len(history) /\ local.var.of \in 0..Len(history)
  /\ sender = "variance" => Unstamped(tcpPingVar.of + 1, local.avg.of - 1)
  /\ sender = "write" => Unstamped(local.var.of + 1, local.avg.of - 1)
  /\ pinged # Nil =>
       /\ pinged.avg.of \in 0..Len(history) /\ pinged.var.of \in 0..Len(history)
       /\ pinged.packets \in Nat
       /\ Unstamped(pinged.var.of + 1, pinged.avg.of - 1)
       /\ Len(history) < Wrap => pinged.packets >= pinged.avg.of /\ pinged.packets >= pinged.var.of

\* The inductive invariant for the order of what is sent.
OrderInv == StatTypes /\ Handled /\ Carried

\* The length of tcpPingTimes and the modulus of the counter, 12 and 2^32 in
\* the code.
Sizes == Slots \in Nat \ {0} /\ Wrap \in Nat \ {0}

\* The invariant holds at first.
LEMMA OrderInit ==
  ASSUME Sizes, Statistics!StatsInit
  PROVE  OrderInv
<1>1. history = <<>> /\ Len(history) = 0 /\ history \in Seq(Times \cup {Nil})
  BY DEF Statistics!StatsInit
<1>2. StatTypes
  BY <1>1 DEF StatTypes, Statistics!StatsInit, Sizes, Statistics!Zero
<1>3. Handled BY <1>1 DEF Handled, Statistics!StatsInit, Statistics!Zero, Unstamped
<1>4. Carried BY <1>1 DEF Carried, Statistics!StatsInit, Statistics!Zero, Unstamped
<1> QED BY <1>2, <1>3, <1>4 DEF OrderInv

\* What is known of the times in the history stays.
LEMMA HistoryGrows ==
  ASSUME history \in Seq(Times \cup {Nil}), NEW time \in Times \cup {Nil},
         history' = Append(history, time)
  PROVE  /\ history' \in Seq(Times \cup {Nil}) /\ Len(history') = Len(history) + 1
         /\ history'[Len(history')] = time
         /\ \A k \in 1..Len(history) : history'[k] = history[k]
         /\ \A a \in Nat, b \in 0..Len(history) : Unstamped(a + 1, b) => Unstamped(a + 1, b)'
         /\ \A a \in Nat, b \in 0..Len(history) : Unstamped(a + 1, b - 1) => Unstamped(a + 1, b - 1)'
<1>1. /\ history' \in Seq(Times \cup {Nil}) /\ Len(history') = Len(history) + 1
      /\ history'[Len(history')] = time
      /\ \A k \in 1..Len(history) : history'[k] = history[k]
  OBVIOUS
<1>2. ASSUME NEW a \in Nat, NEW b \in 0..Len(history), Unstamped(a + 1, b)
      PROVE  Unstamped(a + 1, b)'
  BY <1>1, <1>2 DEF Unstamped
<1>3. ASSUME NEW a \in Nat, NEW b \in 0..Len(history), Unstamped(a + 1, b - 1)
      PROVE  Unstamped(a + 1, b - 1)'
  BY <1>1, <1>3 DEF Unstamped
<1> QED BY <1>1, <1>2, <1>3

\* What adding one to the counter makes of it.
LEMMA CounterWraps ==
  ASSUME Sizes, NEW count \in 0..(Wrap - 1)
  PROVE  (count + 1) % Wrap = IF count + 1 = Wrap THEN 0 ELSE count + 1
<1>1. CASE count + 1 = Wrap BY <1>1 DEF Sizes
<1>2. CASE count + 1 < Wrap BY <1>2 DEF Sizes
<1> QED BY <1>1, <1>2 DEF Sizes

\* What handlePing does up to the time in its slot.
LEMMA PingHandled ==
  ASSUME Sizes, StatTypes, NEW time \in Times \cup {Nil}, Statistics!HandlePing(time)
  PROVE  StatTypes'
<1>1. /\ history' \in Seq(Times \cup {Nil}) /\ Len(history') = Len(history) + 1
      /\ Len(history) \in Nat
  BY HistoryGrows DEF Statistics!HandlePing, StatTypes
<1>2. PICK count : /\ count = (tcpPacketsReceived + 1) % Wrap /\ tcpPacketsReceived' = count
                   /\ count = IF tcpPacketsReceived + 1 = Wrap THEN 0 ELSE tcpPacketsReceived + 1
  BY CounterWraps DEF StatTypes, Statistics!HandlePing
<1>3. count \in 0..(Wrap - 1) /\ (Len(history') < Wrap => count = Len(history'))
  BY <1>1, <1>2 DEF StatTypes, Sizes
<1>4. PICK at : at = IF count - 1 >= Slots THEN Slots - 1 ELSE count - 1 OBVIOUS
<1>5. at < 0 \/ at \in 0..(Slots - 1) BY <1>3, <1>4 DEF Sizes
<1>6. Statistics!Shift(tcpPingTimes) \in [0..(Slots - 1) -> Times \cup {0}]
  BY DEF Statistics!Shift, StatTypes, Sizes
<1>7. /\ tcpPingTimes' \in [0..(Slots - 1) -> Times \cup {0}]
      /\ index' \in 0..(Slots - 1)
      /\ handler' \in {"idle", "average", "variance", "panicked"}
  <2>1. CASE time = Nil BY <2>1 DEF Statistics!HandlePing, StatTypes
  <2>2. CASE time # Nil /\ at < 0
    BY <1>2, <1>4, <2>2, Zenon DEF Statistics!HandlePing, StatTypes
  <2>3. CASE time # Nil /\ at \in 0..(Slots - 1)
    <3>1. /\ index' = at /\ handler' = "average"
          /\ tcpPingTimes' = [(IF count - 1 >= Slots THEN Statistics!Shift(tcpPingTimes) ELSE tcpPingTimes)
                                EXCEPT ![at] = time]
      BY <1>2, <1>4, <2>3 DEF Statistics!HandlePing
    <3> QED BY <1>6, <2>3, <3>1 DEF StatTypes
  <2> QED BY <1>5, <2>1, <2>2, <2>3
<1> QED BY <1>1, <1>2, <1>3, <1>7 DEF StatTypes, Statistics!HandlePing

\* The next ping keeps the invariant.
LEMMA OrderPing ==
  ASSUME Sizes, OrderInv, NEW time \in Times \cup {Nil}, Statistics!HandlePing(time)
  PROVE  OrderInv'
<1> USE DEF OrderInv
<1>1. StatTypes' BY PingHandled
<1>2. /\ history' = Append(history, time) /\ handler = "idle"
      /\ UNCHANGED <<tcpPingAvg, tcpPingVar, sender, local, pinged>>
      /\ handler' = "idle" => time = Nil
      /\ handler' \in {"idle", "average", "panicked"}
  BY DEF Statistics!HandlePing
<1>3. /\ history' \in Seq(Times \cup {Nil}) /\ Len(history') = Len(history) + 1
      /\ history'[Len(history')] = time
      /\ \A k \in 1..Len(history) : history'[k] = history[k]
      /\ \A a \in Nat, b \in 0..Len(history) : Unstamped(a + 1, b) => Unstamped(a + 1, b)'
      /\ \A a \in Nat, b \in 0..Len(history) : Unstamped(a + 1, b - 1) => Unstamped(a + 1, b - 1)'
  BY <1>2, HistoryGrows DEF StatTypes
<1>4. PICK len \in Nat : len = Len(history) /\ len + 1 = Len(history')
  BY <1>3 DEF StatTypes
<1>5. PICK a \in 0..len, v \in 0..len :
        a = tcpPingAvg.of /\ v = tcpPingVar.of /\ a = tcpPingAvg'.of /\ v = tcpPingVar'.of
  BY <1>2, <1>4 DEF StatTypes
<1>6. Handled'
  <2>1. v = a /\ Unstamped(a + 1, len) /\ Unstamped(v + 1, a - 1)
    BY <1>2, <1>4, <1>5 DEF Handled
  <2>2. Unstamped(a + 1, len)' /\ Unstamped(v + 1, a - 1)' BY <1>3, <1>4, <1>5, <2>1
  <2>3. Unstamped(a + 1, len) /\ time = Nil => Unstamped(a + 1, len + 1)'
    BY <1>3, <1>4, <1>5 DEF Unstamped
  <2> QED BY <1>2, <1>4, <1>5, <2>1, <2>2, <2>3 DEF Handled
<1>7. Carried'
  <2>1. PICK la \in 0..len, lv \in 0..len :
          la = local.avg.of /\ lv = local.var.of /\ la = local'.avg.of /\ lv = local'.var.of
    BY <1>2, <1>4 DEF Carried
  <2>2. sender' = "variance" => Unstamped(v + 1, la - 1)'
    BY <1>2, <1>3, <1>4, <1>5, <2>1 DEF Carried
  <2>3. sender' = "write" => Unstamped(lv + 1, la - 1)'
    BY <1>2, <1>3, <1>4, <1>5, <2>1 DEF Carried
  <2>4. ASSUME pinged' # Nil
        PROVE  /\ pinged'.avg.of \in 0..Len(history)' /\ pinged'.var.of \in 0..Len(history)'
               /\ pinged'.packets \in Nat
               /\ Unstamped(pinged.var.of + 1, pinged.avg.of - 1)'
               /\ Len(history)' < Wrap =>
                    pinged'.packets >= pinged'.avg.of /\ pinged'.packets >= pinged'.var.of
    <3>1. PICK sa \in 0..len, sv \in 0..len :
            sa = pinged.avg.of /\ sv = pinged.var.of /\ sa = pinged'.avg.of /\ sv = pinged'.var.of
      BY <1>2, <1>4, <2>4, Zenon DEF Carried
    <3>2. Unstamped(sv + 1, sa - 1)' BY <1>2, <1>3, <1>4, <2>4, <3>1 DEF Carried
    <3>3. pinged'.packets \in Nat
      BY <1>2, <2>4 DEF Carried
    <3>4. len + 1 < Wrap => pinged'.packets >= sa /\ pinged'.packets >= sv
      BY <1>2, <1>4, <2>4, <3>1 DEF Carried, Sizes
    <3>5. Unstamped(pinged.var.of + 1, pinged.avg.of - 1)' BY <3>1, <3>2
    <3>6. pinged'.avg.of \in 0..Len(history)' /\ pinged'.var.of \in 0..Len(history)'
      BY <1>4, <3>1
    <3>7. Len(history)' < Wrap => pinged'.packets >= pinged'.avg.of /\ pinged'.packets >= pinged'.var.of
      BY <1>4, <3>1, <3>4
    <3> QED BY <3>3, <3>5, <3>6, <3>7
  <2>5. /\ (DOMAIN local = {"avg", "var"} /\ local = [avg |-> local.avg, var |-> local.var])'
        /\ (local.avg.of \in 0..Len(history) /\ local.var.of \in 0..Len(history))'
    BY <1>2, <1>4, <2>1 DEF Carried
  <2>6. /\ (sender = "variance" => Unstamped(tcpPingVar.of + 1, local.avg.of - 1))'
        /\ (sender = "write" => Unstamped(local.var.of + 1, local.avg.of - 1))'
    BY <1>5, <2>1, <2>2, <2>3
  <2> QED BY <2>4, <2>5, <2>6 DEF Carried
<1> QED BY <1>1, <1>6, <1>7

\* Every step keeps the invariant.
LEMMA OrderStep ==
  ASSUME Sizes, OrderInv, [Statistics!StatsNext]_(Statistics!statVars)
  PROVE  OrderInv'
<1> USE DEF OrderInv
<1>1. CASE \E time \in Times \cup {Nil} : Statistics!HandlePing(time)
  BY <1>1, OrderPing
<1>2. CASE Statistics!StoreAverage
  <2>1. /\ handler = "average" /\ handler' = "variance" /\ tcpPingAvg'.of = Len(history)
        /\ UNCHANGED <<tcpPacketsReceived, tcpPingTimes, tcpPingVar, index, sender, local, pinged, history>>
    BY <1>2 DEF Statistics!StoreAverage, Statistics!Average
  <2>2. StatTypes' BY <2>1 DEF StatTypes
  <2>3. Handled' BY <2>1 DEF Handled, Unstamped
  <2>4. Carried' BY <2>1 DEF Carried, Unstamped
  <2> QED BY <2>2, <2>3, <2>4
<1>3. CASE Statistics!StoreVariance
  <2>1. /\ handler = "variance" /\ handler' = "idle" /\ tcpPingVar'.of = Len(history)
        /\ UNCHANGED <<tcpPacketsReceived, tcpPingTimes, tcpPingAvg, index, sender, local, pinged, history>>
    BY <1>3 DEF Statistics!StoreVariance, Statistics!Variance
  <2>2. StatTypes' BY <2>1 DEF StatTypes
  <2>3. Handled' BY <2>1 DEF Handled, Unstamped, StatTypes
  <2>4. Carried'
    <3>1. Unstamped(tcpPingVar.of + 1, local.avg.of - 1)'
      BY <2>1 DEF Carried, Unstamped
    <3>2. sender' = "write" => Unstamped(local.var.of + 1, local.avg.of - 1)'
      BY <2>1 DEF Carried, Unstamped
    <3>3. pinged' # Nil =>
            /\ pinged'.avg.of \in 0..Len(history') /\ pinged'.var.of \in 0..Len(history')
            /\ pinged'.packets \in Nat
            /\ Unstamped(pinged.var.of + 1, pinged.avg.of - 1)'
            /\ Len(history') < Wrap =>
                 pinged'.packets >= pinged'.avg.of /\ pinged'.packets >= pinged'.var.of
      BY <2>1 DEF Carried, Unstamped
    <3> QED BY <2>1, <3>1, <3>2, <3>3 DEF Carried
  <2> QED BY <2>2, <2>3, <2>4
<1>4. ASSUME Statistics!Unreceived PROVE StatTypes' /\ Handled'
  BY <1>4 DEF Statistics!Unreceived, StatTypes, Handled, Unstamped
<1>5. CASE Statistics!LoadAverage
  <2>1. Carried'
    BY <1>5
       DEF Statistics!LoadAverage, Statistics!Unreceived, Carried, StatTypes,
           Handled, Unstamped
  <2> QED BY <1>4, <1>5, <2>1 DEF Statistics!LoadAverage
<1>6. CASE Statistics!LoadVariance
  <2>1. Carried'
    BY <1>6
       DEF Statistics!LoadVariance, Statistics!Unreceived, Carried, StatTypes, Unstamped
  <2> QED BY <1>4, <1>6, <2>1 DEF Statistics!LoadVariance
<1>7. CASE Statistics!WritePing
  <2>0. /\ sender = "write" /\ sender' = "waiting"
        /\ pinged' = [packets |-> tcpPacketsReceived, avg |-> local.avg, var |-> local.var]
        /\ UNCHANGED <<history, local, tcpPingVar>>
    BY <1>7, Zenon DEF Statistics!WritePing, Statistics!Unreceived
  <2>1. Carried'
    <3>1. Unstamped(pinged.var.of + 1, pinged.avg.of - 1)'
      BY <2>0, Zenon DEF Carried, Unstamped
    <3>2. /\ pinged'.avg.of \in 0..Len(history') /\ pinged'.var.of \in 0..Len(history')
          /\ pinged'.packets \in Nat
          /\ Len(history') < Wrap =>
               pinged'.packets >= pinged'.avg.of /\ pinged'.packets >= pinged'.var.of
      BY <2>0 DEF Carried, StatTypes, Sizes
    <3> QED BY <2>0, <3>1, <3>2, Zenon DEF Carried
  <2> QED BY <1>4, <1>7, <2>1 DEF Statistics!WritePing
<1>8. CASE Statistics!Tick
  <2>1. Carried'
    BY <1>8 DEF Statistics!Tick, Statistics!Unreceived, Carried, Unstamped
  <2> QED BY <1>4, <1>8, <2>1, Zenon DEF Statistics!Tick
<1>9. CASE UNCHANGED Statistics!statVars
  BY <1>9 DEF Statistics!statVars, StatTypes, Handled, Carried, Unstamped
<1> QED BY <1>1, <1>2, <1>3, <1>5, <1>6, <1>7, <1>8, <1>9 DEF Statistics!StatsNext

\* The variance that a ping carries is at most one ping with a time older
\* than its average, and both are of pings that were counted
\* (client.go:261-263, handlers.go:191, 220-221), in any interleaving of the
\* two goroutines.
THEOREM PingsInOrder ==
  ASSUME Sizes
  PROVE  StatisticsSpec => []SentInOrder
<1>1. Statistics!StatsInit => OrderInv BY OrderInit
<1>2. OrderInv /\ [Statistics!StatsNext]_(Statistics!statVars) => OrderInv'
  BY OrderStep
<1>3. OrderInv => SentInOrder BY DEF OrderInv, Carried, SentInOrder, Unstamped
<1> QED BY <1>1, <1>2, <1>3, PTL DEF StatisticsSpec

-----------------------------------------------------------------------------

\* All pings had a timestamp.
Stamped == \A k \in 1..Len(history) : history[k] # Nil

\* The number of times that the slots hold.
Kept == IF Len(history) < Slots THEN Len(history) ELSE Slots

\* The slots hold the last times, in order (handlers.go:196-204).
Window ==
  Len(history) > 0 =>
    /\ index = Kept - 1
    /\ \A i \in 0..(Kept - 1) : tcpPingTimes[i] = history[Len(history) - Kept + 1 + i]

\* The statistics are those of the slots, once handlePing has stored them
\* (handlers.go:206-221).
Computed ==
  Len(history) > 0 =>
    /\ handler \in {"variance", "idle"} => tcpPingAvg = Statistics!Average(tcpPingTimes, index)
    /\ handler = "idle" => tcpPingVar = Statistics!Variance(tcpPingTimes, index)

\* The inductive invariant for the average: the slots are known until the
\* counter wraps around, and a ping after that panics the handler.
RecentInv ==
  StatTypes /\ (Stamped /\ handler # "panicked" => Len(history) < Wrap /\ Window /\ Computed)

\* The next ping keeps the slots those of the last pings, moved or not.
LEMMA RecentPing ==
  ASSUME Sizes, RecentInv, NEW time \in Times \cup {Nil}, Statistics!HandlePing(time)
  PROVE  RecentInv'
<1> USE DEF RecentInv
<1>1. StatTypes' BY PingHandled
<1>2. history' = Append(history, time) /\ handler = "idle"
  BY DEF Statistics!HandlePing
<1>3. /\ history' \in Seq(Times \cup {Nil}) /\ Len(history') = Len(history) + 1
      /\ history'[Len(history')] = time
      /\ \A k \in 1..Len(history) : history'[k] = history[k]
  BY <1>2, HistoryGrows DEF StatTypes
<1> SUFFICES ASSUME Stamped', handler' # "panicked"
             PROVE  Len(history') < Wrap /\ Window' /\ Computed'
  BY <1>1
<1>4. PICK len \in Nat : len = Len(history) /\ len + 1 = Len(history')
  BY <1>3 DEF StatTypes
<1>5. time # Nil /\ Stamped BY <1>3, <1>4 DEF Stamped
<1>6. len < Wrap /\ Window /\ tcpPacketsReceived = len
  BY <1>2, <1>4, <1>5 DEF StatTypes
<1>7. (len + 1) % Wrap = IF len + 1 = Wrap THEN 0 ELSE len + 1
  <2>1. len \in 0..(Wrap - 1) BY <1>6 DEF Sizes
  <2> QED BY <2>1, CounterWraps
<1>8. len + 1 < Wrap
  <2> SUFFICES ASSUME len + 1 = Wrap PROVE FALSE BY <1>6 DEF Sizes
  <2>1. (tcpPacketsReceived + 1) % Wrap = 0 BY <1>6, <1>7
  <2>2. handler' = "panicked" BY <1>5, <2>1 DEF Statistics!HandlePing, Sizes
  <2> QED BY <2>2
<1>9. PICK at : at = IF len >= Slots THEN Slots - 1 ELSE len OBVIOUS
<1>10. /\ index' = at /\ handler' = "average"
       /\ tcpPingTimes' = [(IF len >= Slots THEN Statistics!Shift(tcpPingTimes) ELSE tcpPingTimes) EXCEPT ![at] = time]
  <2>1. (tcpPacketsReceived + 1) % Wrap = len + 1 /\ (len + 1) - 1 = len
    BY <1>6, <1>7, <1>8 DEF Sizes
  <2>2. ~(at < 0) BY <1>9 DEF Sizes
  <2> QED BY <1>5, <1>9, <2>1, <2>2 DEF Statistics!HandlePing
<1>11. Window'
  <2>1. CASE len >= Slots
    <3>1. at = Slots - 1 /\ at \in 0..(Slots - 1) /\ Kept = Slots /\ Kept' = Slots
      <4>1. at = Slots - 1 /\ at \in 0..(Slots - 1) BY <1>9, <2>1 DEF Sizes
      <4>2. Kept = Slots BY <1>4, <2>1 DEF Kept, Sizes
      <4>3. Kept' = Slots BY <1>4, <2>1 DEF Kept, Sizes
      <4> QED BY <4>1, <4>2, <4>3
    <3>2. \A i \in 0..(Slots - 1) : tcpPingTimes[i] = history[len - Slots + 1 + i]
      <4>1. Len(history) > 0 BY <1>4, <2>1 DEF Sizes
      <4>2. \A i \in 0..(Kept - 1) : tcpPingTimes[i] = history[Len(history) - Kept + 1 + i]
        BY <1>6, <4>1 DEF Window
      <4> QED BY <1>4, <3>1, <4>2
    <3>3. \A i \in 0..(Slots - 1) :
            tcpPingTimes'[i] = IF i = Slots - 1 THEN time ELSE tcpPingTimes[i + 1]
      BY <1>10, <2>1, <3>1 DEF Statistics!Shift, Sizes
    <3>4. \A i \in 0..(Slots - 1) : tcpPingTimes'[i] = history'[(len + 1) - Slots + 1 + i]
      <4> TAKE i \in 0..(Slots - 1)
      <4>1. CASE i = Slots - 1 BY <1>3, <1>4, <3>3, <4>1 DEF Sizes
      <4>2. CASE i # Slots - 1
        <5>1. i + 1 \in 0..(Slots - 1) /\ len - Slots + 1 + (i + 1) \in 1..len
              /\ len - Slots + 1 + (i + 1) = (len + 1) - Slots + 1 + i
          BY <2>1, <4>2 DEF Sizes
        <5>2. tcpPingTimes'[i] = history[len - Slots + 1 + (i + 1)]
          BY <3>2, <3>3, <4>2, <5>1, Zenon
        <5> QED BY <1>3, <1>4, <5>1, <5>2
      <4> QED BY <4>1, <4>2
    <3> QED BY <1>4, <1>10, <3>1, <3>4 DEF Window
  <2>2. CASE len < Slots
    <3>1. at = len /\ Kept = len /\ Kept' = len + 1 /\ at \in 0..(Slots - 1)
      BY <1>3, <1>4, <1>9, <2>2 DEF Kept, Sizes
    <3>2. \A i \in 0..(len - 1) : tcpPingTimes[i] = history[1 + i]
      <4> SUFFICES ASSUME NEW i \in 0..(len - 1) PROVE tcpPingTimes[i] = history[1 + i]
        OBVIOUS
      <4>1. len > 0 /\ len - len + 1 + i = 1 + i OBVIOUS
      <4> QED BY <1>4, <1>6, <3>1, <4>1, Zenon DEF Window
    <3>3. \A i \in 0..len : tcpPingTimes'[i] = IF i = len THEN time ELSE tcpPingTimes[i]
      BY <1>10, <2>2, <3>1 DEF StatTypes, Sizes
    <3>4. \A i \in 0..len : tcpPingTimes'[i] = history'[(len + 1) - (len + 1) + 1 + i]
      <4> TAKE i \in 0..len
      <4>0. (len + 1) - (len + 1) + 1 + i = 1 + i OBVIOUS
      <4>1. CASE i = len
        <5>1. tcpPingTimes'[i] = time BY <3>3, <4>1, Zenon
        <5> QED BY <1>3, <1>4, <4>0, <4>1, <5>1
      <4>2. CASE i # len
        <5>1. 1 + i \in 1..len /\ i \in 0..(len - 1) BY <4>2
        <5> QED BY <1>3, <1>4, <3>2, <3>3, <4>0, <4>2, <5>1
      <4> QED BY <4>1, <4>2
    <3> QED BY <1>4, <1>10, <3>1, <3>4 DEF Window
  <2> QED BY <2>1, <2>2 DEF Sizes
<1>12. Computed' BY <1>10 DEF Computed
<1> QED BY <1>4, <1>8, <1>11, <1>12

\* Every step keeps the invariant.
LEMMA RecentStep ==
  ASSUME Sizes, RecentInv, [Statistics!StatsNext]_(Statistics!statVars), StatTypes'
  PROVE  RecentInv'
<1> USE DEF RecentInv
<1>1. CASE \E time \in Times \cup {Nil} : Statistics!HandlePing(time)
  BY <1>1, RecentPing
<1>2. ASSUME UNCHANGED <<history, index, tcpPingTimes>>
      PROVE  /\ Stamped' = Stamped /\ Window' = Window
             /\ Statistics!Average(tcpPingTimes, index)' = Statistics!Average(tcpPingTimes, index)
             /\ Statistics!Variance(tcpPingTimes, index)' = Statistics!Variance(tcpPingTimes, index)
  BY <1>2, Zenon DEF Stamped, Window, Kept, Statistics!Average, Statistics!Variance
<1>3. CASE Statistics!StoreAverage
  <2>1. /\ handler = "average" /\ handler' = "variance"
        /\ tcpPingAvg' = Statistics!Average(tcpPingTimes, index) /\ UNCHANGED <<history, index, tcpPingTimes>>
    BY <1>3 DEF Statistics!StoreAverage
  <2>2. Computed' BY <1>2, <2>1 DEF Computed
  <2> QED BY <1>2, <2>1, <2>2
<1>4. CASE Statistics!StoreVariance
  <2>1. /\ handler = "variance" /\ handler' = "idle" /\ tcpPingAvg' = tcpPingAvg
        /\ tcpPingVar' = Statistics!Variance(tcpPingTimes, index) /\ UNCHANGED <<history, index, tcpPingTimes>>
    BY <1>4 DEF Statistics!StoreVariance
  <2>2. Computed => Computed' BY <1>2, <2>1 DEF Computed
  <2> QED BY <1>2, <2>1, <2>2
<1>5. CASE UNCHANGED <<history, index, tcpPingTimes, handler, tcpPingAvg, tcpPingVar>>
  <2>1. Computed => Computed' BY <1>2, <1>5 DEF Computed
  <2> QED BY <1>2, <1>5, <2>1
<1> QED BY <1>1, <1>3, <1>4, <1>5
        DEF Statistics!StatsNext, Statistics!LoadAverage, Statistics!LoadVariance,
            Statistics!WritePing, Statistics!Tick, Statistics!Unreceived, Statistics!statVars

\* The sum that handlePing computes is the one that the property speaks of.
LEMMA SameSum ==
  ASSUME NEW values, NEW last
  PROVE  Statistics!Sum(values, last) = Sum(values, last)
BY DEF Statistics!Sum, Sum

\* Statistics of the slots are statistics of the last pings.
LEMMA RecentTimes ==
  ASSUME Sizes, RecentInv
  PROVE  AverageOfRecent
<1> SUFFICES ASSUME handler = "idle", history # <<>>, \A k \in DOMAIN history : history[k] # Nil
             PROVE  AverageOfRecent
  BY Zenon DEF AverageOfRecent
<1>1. history \in Seq(Times \cup {Nil}) /\ Len(history) \in Nat /\ Len(history) > 0 /\ Stamped
  BY DEF RecentInv, StatTypes, Stamped
<1>2. /\ Window /\ tcpPingAvg = Statistics!Average(tcpPingTimes, index)
      /\ tcpPingVar = Statistics!Variance(tcpPingTimes, index)
  BY <1>1 DEF RecentInv, Computed
<1>3. PICK len : len = (IF Len(history) < Slots THEN Len(history) ELSE Slots) /\ len \in Nat /\ index = len - 1
  BY <1>1, <1>2 DEF Window, Kept, Sizes
<1>4. PICK recent : recent = [i \in 0..(len - 1) |-> history[Len(history) - len + 1 + i]]
  BY Zenon
<1>5. \A i \in 0..(len - 1) : tcpPingTimes[i] = recent[i]
  BY <1>1, <1>2, <1>3, <1>4 DEF Window, Kept
<1>6. [i \in 0..index |-> tcpPingTimes[i]] = recent BY <1>3, <1>4, <1>5, Zenon
<1>7. index + 1 = len BY <1>3
<1>8. PICK sum : sum = Sum(recent, len - 1) BY Zenon
<1>9. tcpPingAvg = [of |-> Len(history), sum |-> sum, n |-> len]
  <2>1. Statistics!Sum(recent, index) = sum BY <1>3, <1>8, SameSum, Zenon
  <2>2. Statistics!Sum([i \in 0..index |-> tcpPingTimes[i]], index) = sum
    BY <1>6, <2>1, Zenon
  <2> QED BY <1>2, <1>7, <2>2 DEF Statistics!Average
<1>10. tcpPingVar = [of |-> Len(history), n |-> len^3,
                     sum |-> Sum([i \in 0..(len - 1) |-> (sum - len * recent[i])^2], len - 1)]
  <2>1. [i \in 0..index |-> (sum - len * tcpPingTimes[i])^2]
          = [i \in 0..(len - 1) |-> (sum - len * recent[i])^2]
    BY <1>3, <1>5
  <2>2. PICK squares : squares = [i \in 0..(len - 1) |-> (sum - len * recent[i])^2]
    BY Zenon
  <2>3. Statistics!Sum(squares, index) = Sum(squares, len - 1)
    BY <1>3, SameSum, Zenon
  <2>4. Statistics!Sum(recent, index) = sum BY <1>3, <1>8, SameSum, Zenon
  <2>5. tcpPingVar = [of |-> Len(history), n |-> len^3,
                      sum |-> Statistics!Sum([i \in 0..index |-> (sum - len * tcpPingTimes[i])^2], index)]
    BY <1>2, <1>6, <1>7, <2>4, Zenon DEF Statistics!Variance
  <2> QED BY <2>1, <2>2, <2>3, <2>5, Zenon
<1> QED BY <1>3, <1>4, <1>8, <1>9, <1>10, ZenonT(30) DEF AverageOfRecent

\* The average and the variance are those of the last pings, as many as there
\* are slots for at most (handlers.go:196-221), if all of them had a
\* timestamp: for any number of slots.
THEOREM RecentAverages ==
  ASSUME Sizes
  PROVE  StatisticsSpec => []AverageOfRecent
<1>1. Statistics!StatsInit => OrderInv /\ RecentInv
  <2> SUFFICES ASSUME Statistics!StatsInit PROVE OrderInv /\ RecentInv OBVIOUS
  <2>1. OrderInv BY OrderInit
  <2>2. Len(history) = 0 BY DEF Statistics!StatsInit
  <2> QED BY <2>1, <2>2 DEF OrderInv, RecentInv, Window, Computed, Sizes
<1>2. OrderInv /\ RecentInv /\ [Statistics!StatsNext]_(Statistics!statVars) => OrderInv' /\ RecentInv'
  BY OrderStep, RecentStep DEF OrderInv
<1>3. RecentInv => AverageOfRecent BY RecentTimes, Zenon
<1> QED BY <1>1, <1>2, <1>3, PTL DEF StatisticsSpec

-----------------------------------------------------------------------------
(***************************************************************************)
(* The ping of a server (UdpPing).                                         *)
(***************************************************************************)
CONSTANTS Ids, Foreign, Senders
VARIABLES pc, id, ids, arrived, incoming, deadline

Ping == INSTANCE UdpPing

\* The specification, of which safety is proved here.
PingSpec == Ping!PingInit /\ [][Ping!PingNext]_(Ping!pingVars)

\* A packet is registered before it is written (ping.go:58-62).
Sending ==
  /\ pc \in [Senders -> {"idle", "built", "registered", "reading", "ended"}]
  /\ id \in [Senders -> Ids \cup {Nil}]
  /\ ids \subseteq Ids /\ sentIds \subseteq ids
  /\ \A s \in Senders : /\ pc[s] \in {"built", "registered"} => id[s] \in Ids
                        /\ pc[s] = "registered" => id[s] \in ids

\* Nothing but whole answers has been taken in: to packets that were written,
\* or foreign ones, which are passed over (ping.go:90-96).
Received ==
  LET known == sentIds \cup {Foreign} IN
  /\ ignored \subseteq {Foreign}
  /\ arrived = Nil \/ \E i \in known : arrived \in {Answer(i), Append(Answer(i), [id |-> Foreign])}
  /\ incoming = <<>> \/ \E i \in known : incoming = Answer(i)
  /\ result \in {Nil, Error} \/ \E i \in sentIds : result = Answer(i)

\* The inductive invariant: no answer is out of step until a short datagram
\* has come.
PingInv == Sending /\ (short \/ Received)

\* What appending to a sequence keeps.
LEMMA AppendOf ==
  ASSUME NEW S, NEW s \in Seq(S), NEW e \in S
  PROVE  /\ Append(s, e) \in Seq(S) /\ Len(Append(s, e)) = Len(s) + 1
         /\ \A i \in 1..Len(s) : Append(s, e)[i] = s[i]
OBVIOUS

\* The two pieces that io.ReadFull takes of a datagram, an answer with or
\* without something after it, are the answer.
LEMMA PieceIsAnswer ==
  ASSUME NEW i, NEW a \in {Answer(i), Append(Answer(i), [id |-> Foreign])}
  PROVE  /\ Len(a) >= 2 /\ Len(Answer(i)) = 2 /\ Answer(i)[1].id = i
         /\ <<>> \o SubSeq(a, 1, 2) = Answer(i)
<1>1. PICK x, y, z : Answer(i) = <<x, y>> /\ x.id = i /\ z = [id |-> Foreign]
  BY DEF Answer
<1>2. PICK S : S = {x, y, z} BY Zenon
<1>3. a \in Seq(S) /\ Len(a) \in {2, 3} /\ a[1] = x /\ a[2] = y
  <2>1. PICK b : b = <<x, y>> BY Zenon
  <2>2. b \in Seq(S) /\ Len(b) = 2 /\ b[1] = x /\ b[2] = y BY <1>2, <2>1
  <2>3. Append(b, z) \in Seq(S) /\ Len(Append(b, z)) = 3 /\ Append(b, z)[1] = x /\ Append(b, z)[2] = y
    <3>1. z \in S BY <1>2
    <3>2. /\ Append(b, z) \in Seq(S) /\ Len(Append(b, z)) = Len(b) + 1
          /\ \A k \in 1..Len(b) : Append(b, z)[k] = b[k]
      BY ONLY <2>2, <3>1, AppendOf, Zenon
    <3>3. 1 \in 1..Len(b) /\ 2 \in 1..Len(b) BY <2>2
    <3> QED BY ONLY <2>2, <3>2, <3>3
  <2> QED BY <1>1, <2>1, <2>2, <2>3, Zenon
<1>4. PICK u : u = SubSeq(a, 1, 2) BY Zenon
<1>5. u \in Seq(S) /\ Len(u) = 2 /\ u[1] = x /\ u[2] = y BY <1>3, <1>4
<1>6. u = <<x, y>>
  <2>1. u = [k \in 1..2 |-> u[k]] BY <1>5
  <2>2. <<x, y>> = [k \in 1..2 |-> <<x, y>>[k]] OBVIOUS
  <2>3. \A k \in 1..2 : u[k] = <<x, y>>[k] BY <1>5
  <2> QED BY <2>1, <2>2, <2>3
<1>7. <<>> \o u = u BY <1>5
<1>8. Len(a) >= 2 BY <1>3
<1>9. Len(Answer(i)) = 2 /\ Answer(i)[1].id = i BY <1>1
<1> QED BY <1>1, <1>4, <1>6, <1>7, <1>8, <1>9, Zenon

\* Every step keeps the packets registered before they are written.
LEMMA SendingStep ==
  ASSUME Sending, [Ping!PingNext]_(Ping!pingVars)
  PROVE  Sending' /\ sentIds \subseteq sentIds'
<1> USE DEF Sending
<1>1. ASSUME NEW s \in Senders, NEW i \in Ids, Ping!Build(s, i)
      PROVE  Sending' /\ sentIds \subseteq sentIds'
  BY <1>1, Zenon DEF Ping!Build
<1>2. ASSUME NEW s \in Senders, Ping!BuildFails(s)
      PROVE  Sending' /\ sentIds \subseteq sentIds'
  BY <1>2, Zenon DEF Ping!BuildFails, Ping!After
<1>3. ASSUME NEW s \in Senders, Ping!Register(s)
      PROVE  Sending' /\ sentIds \subseteq sentIds'
  BY <1>3, Zenon DEF Ping!Register
<1>4. ASSUME NEW s \in Senders, Ping!Write(s)
      PROVE  Sending' /\ sentIds \subseteq sentIds'
  BY <1>4, Zenon DEF Ping!Write, Ping!After
<1>5. CASE Ping!TickerEnds BY <1>5 DEF Ping!TickerEnds
<1>6. CASE UNCHANGED <<pc, id, ids, sentIds>> BY <1>6, Zenon
<1> QED BY <1>1, <1>2, <1>3, <1>4, <1>5, <1>6, Zenon
        DEF Ping!PingNext, Ping!Arrive, Ping!Expire, Ping!ReadPiece, Ping!Accept,
            Ping!ReadFails, Ping!pingVars

\* Every step keeps the answers whole while no datagram is short.
LEMMA ReceivedStep ==
  ASSUME Foreign \notin Ids, PingInv, [Ping!PingNext]_(Ping!pingVars), ~short'
  PROVE  Received'
<1>1. ~short /\ Received /\ Sending
  <2>1. CASE short' = short BY <2>1 DEF PingInv
  <2>2. CASE Ping!Arrive
    <3>1. short' = (short \/ Len(arrived') < 2) BY <2>2 DEF Ping!Arrive
    <3>2. ~short BY <3>1, Zenon
    <3> QED BY <3>2 DEF PingInv
  <2> QED BY <2>1, <2>2, Zenon
          DEF Ping!PingNext, Ping!Build, Ping!BuildFails, Ping!Register, Ping!Write,
              Ping!TickerEnds, Ping!Unsent,
              Ping!Expire, Ping!ReadPiece, Ping!Accept, Ping!ReadFails, Ping!pingVars
<1>2. sentIds \subseteq sentIds' BY <1>1, SendingStep, Zenon
<1>3. CASE UNCHANGED <<arrived, incoming, result, ignored>>
  BY <1>1, <1>2, <1>3, Zenon DEF Received
<1>4. CASE Ping!Arrive
  <2>1. /\ short' = (short \/ Len(arrived') < 2) /\ UNCHANGED <<sentIds, incoming, result, ignored>>
        /\ arrived' \in {Answer(i) : i \in sentIds \cup {Foreign}} \cup {<<Answer(Foreign)[1]>>}
                        \cup {Append(Answer(i), Answer(Foreign)[1]) : i \in sentIds}
    BY <1>4, Zenon DEF Ping!Arrive, Ping!Answer, Answer
  <2>2. arrived' # <<Answer(Foreign)[1]>>
    <3>1. ~(Len(arrived') < 2) BY <2>1, Zenon
    <3>2. PICK x : x = Answer(Foreign)[1] OBVIOUS
    <3>3. Len(<<x>>) < 2 OBVIOUS
    <3> QED BY <3>1, <3>2, <3>3, Zenon
  <2>3. Answer(Foreign)[1] = [id |-> Foreign] BY Zenon DEF Answer
  <2> QED BY <1>1, <2>1, <2>2, <2>3 DEF Received
<1>5. CASE Ping!ReadPiece
  <2>1. /\ arrived # Nil /\ Len(incoming) < 2 /\ arrived' = Nil
        /\ UNCHANGED <<sentIds, result, ignored>>
        /\ incoming' = incoming \o SubSeq(arrived, 1, IF Len(arrived) < 2 - Len(incoming)
                                                     THEN Len(arrived) ELSE 2 - Len(incoming))
    BY <1>5, Zenon DEF Ping!ReadPiece
  <2>2. PICK i \in sentIds \cup {Foreign} :
          arrived \in {Answer(i), Append(Answer(i), [id |-> Foreign])}
    BY <1>1, <2>1 DEF Received
  <2>3. Len(arrived) >= 2 /\ <<>> \o SubSeq(arrived, 1, 2) = Answer(i)
    BY <2>2, PieceIsAnswer, Zenon
  <2>4. incoming = <<>> BY <1>1, <2>1, PieceIsAnswer DEF Received
  <2>5. incoming' = Answer(i)
    <3>1. Len(incoming) = 0 /\ 2 - Len(incoming) = 2 BY <2>4
    <3>2. ~(Len(arrived) < 2) BY ONLY <2>2, <2>3, PieceIsAnswer
    <3> QED BY <2>1, <2>3, <2>4, <3>1, <3>2
  <2> QED BY <1>1, <2>1, <2>2, <2>5 DEF Received
<1>6. CASE Ping!Accept
  <2>1. /\ Len(incoming) = 2 /\ incoming' = <<>> /\ UNCHANGED <<sentIds, arrived>>
        /\ IF incoming[1].id \in ids
           THEN result' = incoming /\ UNCHANGED ignored
           ELSE ignored' = ignored \cup {incoming[1].id} /\ UNCHANGED result
    BY <1>6 DEF Ping!Accept
  <2>2. incoming # <<>> BY <2>1
  <2>3. PICK i \in sentIds \cup {Foreign} : incoming = Answer(i)
    BY <1>1, <2>2 DEF Received
  <2>4. incoming[1].id = i BY <2>3, PieceIsAnswer
  <2>5. i \in ids <=> i \in sentIds BY <1>1, Zenon DEF Sending
  <2> QED BY <1>1, <2>1, <2>3, <2>4, <2>5, Zenon DEF Received
<1>7. CASE Ping!ReadFails
  BY <1>1, <1>7 DEF Ping!ReadFails, Ping!Error, Error, Received
<1> QED BY <1>3, <1>4, <1>5, <1>6, <1>7, Zenon
        DEF Ping!PingNext, Ping!Build, Ping!BuildFails, Ping!Register, Ping!Write,
            Ping!TickerEnds, Ping!Unsent, Ping!Expire, Ping!pingVars

\* The answer that Ping returns is to a packet of its own, and no such answer
\* is passed over (ping.go:60-63, 90-96), until a datagram has come that is
\* shorter than an answer: for any number of packets and senders.
THEOREM OwnAnswers ==
  ASSUME Foreign \notin Ids
  PROVE  PingSpec => []AnswerIsOwn
<1>1. Ping!PingInit => PingInv BY DEF Ping!PingInit, PingInv, Sending, Received
<1>2. PingInv /\ [Ping!PingNext]_(Ping!pingVars) => PingInv'
  <2> SUFFICES ASSUME PingInv, [Ping!PingNext]_(Ping!pingVars) PROVE PingInv'
    OBVIOUS
  <2>1. Sending' BY SendingStep DEF PingInv
  <2>2. ~short' => Received' BY ReceivedStep, Zenon
  <2> QED BY <2>1, <2>2 DEF PingInv
<1>3. PingInv => AnswerIsOwn BY DEF PingInv, Sending, Received, AnswerIsOwn
<1> QED BY <1>1, <1>2, <1>3, PTL DEF PingSpec
=============================================================================
