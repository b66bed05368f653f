----------------------------- MODULE MCRpwMutex -----------------------------
(***************************************************************************)
(* Three Do calls, one of them nested in another, and two goroutines that  *)
(* take the write lock.                                                    *)
(***************************************************************************)
EXTENDS RpwMutex

CONSTANTS outer, inner, other

MCCalls == {outer, inner, other}
MCOuter == [c \in MCCalls |-> IF c = inner THEN outer ELSE NoCall]
=============================================================================
