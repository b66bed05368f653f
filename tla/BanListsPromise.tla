-------------------------- MODULE BanListsPromise ---------------------------
(***************************************************************************)
(* What BanLists promises, and the part of its state that the promise is   *)
(* about.                                                                  *)
(***************************************************************************)
EXTENDS Integers, Sequences, Null

CONSTANT Ticks   \* of a duration of the program, per second

VARIABLE bansToServer   \* requests and lists on their way to the server

-----------------------------------------------------------------------------
(***************************************************************************)
(* A list that is sent back has the bans of the list that was received and *)
(* of which nothing was changed: the same address, mask, reason and        *)
(* duration, in spite of the two conversions, unless the mask that was     *)
(* received has more bits than its address.  No ban is there that the      *)
(* program has lifted, and none is for longer than the program has asked,  *)
(* if that is a second at least (handlers.go:658-675, bans.go:83-101).     *)
(***************************************************************************)
BansKept ==
  \A m \in {bansToServer[k] : k \in DOMAIN bansToServer} :
    /\ \A b \in m.from :
         b.origin # Nil /\ ~b.unban /\ b.origin.Mask <= b.origin.Address.bits =>
           [b.origin EXCEPT !.old = FALSE] \in m.entries
    /\ \A e \in m.entries :
         \E b \in m.from :
           /\ ~b.unban /\ b.Address = e.Address /\ b.Reason = e.Reason
           /\ e.Duration * Ticks <= b.Duration /\ (b.Duration >= Ticks => e.Duration > 0)
           /\ b.Mask # Nil => e.Mask = b.Mask
=============================================================================
