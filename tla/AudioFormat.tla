----------------------------- MODULE AudioFormat -----------------------------
(***************************************************************************)
(* The form of an audio packet: what Conn.WriteAudio writes, and what      *)
(* handleUDPTunnel makes of it when the server has put in the session of   *)
(* the speaker.                                                            *)
(*                                                                         *)
(* A packet is its first bytes, up to the length of the audio data, and    *)
(* the number of bytes that follow them.                                   *)
(***************************************************************************)
EXTENDS Varint

AudioCodecIDOpus == 4
Terminator == 8192                  \* 0x2000
PositionBytes == 12                 \* three float32

\* l |= 0x2000 and l &^ 0x2000
WithTerminator(l) == IF (l \div Terminator) % 2 = 1 THEN l ELSE l + Terminator

\* Faulty: the terminator is not taken off.
WithoutTerminator_Kept(l) == l

WithoutTerminator(l) == IF (l \div Terminator) % 2 = 1 THEN l - Terminator ELSE l

WriteAudio(target, seq, final, length, position) ==
  [head |-> <<AudioCodecIDOpus * 32 + target>> \o Encode(seq)
            \o Encode(Int64(IF final THEN WithTerminator(length) ELSE length)),
   rest |-> length + IF position THEN PositionBytes ELSE 0]

\* The server passes the packet on.
Relay(packet, session) ==
  [packet EXCEPT !.head = <<Head(@)>> \o Encode(session) \o Tail(@)]

Refused == [ok |-> FALSE]

\* The number of a decoded value that the model checker has an integer for.
Small(v) == v.mag[8] + 256 * (v.mag[7] + 256 * v.mag[6])

ParseUDPTunnel(packet) ==
  LET first == Head(packet.head)
      afterType == Tail(packet.head)
      session == Decode(afterType)
      afterSession == SubSeq(afterType, session.n + 1, Len(afterType))
      sequence == Decode(afterSession)
      afterSequence == SubSeq(afterSession, sequence.n + 1, Len(afterSession))
      length == Decode(afterSequence)
      audioLength == WithoutTerminator(Small(length.value))
  IN  IF \/ first \div 32 # AudioCodecIDOpus
         \/ session.n = 0 \/ sequence.n = 0 \/ length.n = 0
         \/ audioLength > packet.rest
      THEN Refused
      ELSE [ok |-> TRUE, target |-> first % 32, session |-> session.value,
            length |-> audioLength,
            position |-> packet.rest - audioLength = PositionBytes]

-----------------------------------------------------------------------------
(* The size of the data; the interval is in milliseconds.                  *)

\* The new AudioDataBytes, which is negative if the maximum is small.
AutoBitrate(maximumBitrate, interval) ==
  maximumBitrate \div (8 * (1000 \div interval + 5)) - 32 - 10

-----------------------------------------------------------------------------
(***************************************************************************)
(* Every int64 but MinInt64, on which Encode recurses until its buffer is  *)
(* used up, is decoded from what it was encoded to, whatever follows it,   *)
(* and not from a part of it (varint/read.go:7-11, varint/write.go:12-13). *)
(***************************************************************************)
IntegerRoundTrip(v) ==
  LET b == Encode(v) IN
  IF v = MinInt64 THEN b = Panic
  ELSE /\ Len(b) \in 1..MaxVarintLen
       /\ \A more \in {<<>>, <<0>>, <<255, 244>>} : Decode(b \o more) = [value |-> v, n |-> Len(b)]
       /\ \A n \in 0..(Len(b) - 1) : Decode(SubSeq(b, 1, n)).n = 0

(***************************************************************************)
(* A packet that one client writes is for the others a packet of its       *)
(* session with the same target, the same data and a position exactly if   *)
(* it has one, with or without the terminator (conn.go:65-81,              *)
(* handlers.go:83-149), as long as the data are shorter than the           *)
(* terminator bit.                                                         *)
(***************************************************************************)
PacketRoundTrip(p) ==
  p.length < Terminator =>
    ParseUDPTunnel(Relay(WriteAudio(p.target, p.seq, p.final, p.length, p.position), p.session))
      = [ok |-> TRUE, target |-> p.target, session |-> p.session,
         length |-> p.length, position |-> p.position]

(***************************************************************************)
(* The audio data of the size that AutoBitrate chooses, each frame with 32 *)
(* bytes of headers of the network and 10 of the packet, do not exceed the *)
(* server's maximum (gumbleutil/bitrate.go:12-17), and the header of such  *)
(* a packet is not longer than that; the size is positive if the maximum   *)
(* leaves room for a byte.                                                 *)
(***************************************************************************)
BandwidthKept(maximum, interval) ==
  LET size == AutoBitrate(maximum, interval)
      packets == 1000 \div interval
  IN  /\ size > 0 => /\ (size + 32 + 10) * 8 * packets <= maximum
                     /\ (size < Terminator =>
                          Len(WriteAudio(31, Int64(2147483647), TRUE, size, FALSE).head) <= 10)
      /\ maximum >= 43 * 8 * (packets + 5) => size > 0
=============================================================================
