------------------------ MODULE IncomingAudioPromise ------------------------
(***************************************************************************)
(* What IncomingAudio promises of its streams, and the part of its state   *)
(* that the promise is about.                                              *)
(***************************************************************************)
EXTENDS Naturals, Sequences

VARIABLES
  opened,    \* for each item, how often OnAudioStream was called per user
  received,  \* for each item and user, the numbers of the packets received
  spoken     \* for each user, the numbers of the packets decoded

-----------------------------------------------------------------------------
(***************************************************************************)
(* A stream is one unbroken stretch of what its user said, in order: a     *)
(* listener is called once for a user (handlers.go:163), and from then on  *)
(* until it is detached its channel gets every packet of that user, once,  *)
(* and none of another user, whatever happens to the list while the read   *)
(* routine waits in a send.  (It holds of two listeners.  With a third the *)
(* list of AttachedHear's counterexample can lose an item and bring it     *)
(* back when the others are detached.)                                     *)
(***************************************************************************)
StreamsUnbroken ==
  \A i \in DOMAIN opened, u \in DOMAIN spoken :
    /\ opened[i][u] <= 1
    /\ LET got == received[i][u] IN
       \E a \in 0..Len(spoken[u]) : got = SubSeq(spoken[u], a + 1, a + Len(got))
=============================================================================
