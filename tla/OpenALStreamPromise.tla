------------------------ MODULE OpenALStreamPromise -------------------------
(***************************************************************************)
(* What OpenALStream promises, and the part of its state that the promise  *)
(* is about.                                                               *)
(***************************************************************************)
EXTENDS Naturals, Sequences, Null

CONSTANT Buffers   \* the number of buffers of a stream, 8 in the code

VARIABLES
  player,     \* receiving, filling, queued
  emptyBufs,  \* the buffers, 1 to Buffers, that can be filled
  queue,      \* the buffers of the source, in order
  processed,  \* how many of them have been played
  playing

-----------------------------------------------------------------------------
(***************************************************************************)
(* Every buffer of a stream is empty or in the source's queue, and never   *)
(* in two places, so that the sound in it is not overwritten while it is   *)
(* played; and while the goroutine waits for a packet, the source plays    *)
(* what is queued (gumbleopenal/stream.go:84-90, 101-111).                 *)
(***************************************************************************)
BuffersConserved ==
  LET all == emptyBufs \o queue IN
  /\ Len(all) = Buffers /\ {all[k] : k \in 1..Len(all)} = 1..Buffers
  /\ player = "receiving" /\ processed < Len(queue) => playing
=============================================================================
