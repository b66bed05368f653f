-------------------------------- MODULE Null --------------------------------
(***************************************************************************)
(* What stands for a Go nil, and for what a packet or a goroutine does not *)
(* have.                                                                   *)
(***************************************************************************)
CONSTANT Nil
=============================================================================
