------------------------------ MODULE PacketLog ------------------------------
(***************************************************************************)
(* What a control connection promises to its users: the messages arrive    *)
(* whole, in one order and at most once, and a write that returns nil has  *)
(* put its message into that order.  A write that returns an error may     *)
(* have done so or not.                                                    *)
(***************************************************************************)
EXTENDS Naturals, Sequences

CONSTANTS Writers, Messages, Nil

VARIABLES
  writing,   \* the message of each writer, Nil when it does not write
  logged,    \* the writers whose message is in the order
  log,       \* the order
  got        \* the messages that have arrived

vars == <<writing, logged, log, got>>

Init ==
  /\ writing = [w \in Writers |-> Nil] /\ logged = {}
  /\ log = <<>> /\ got = <<>>

Call(w, m) ==
  /\ writing[w] = Nil
  /\ writing' = [writing EXCEPT ![w] = m]
  /\ UNCHANGED <<logged, log, got>>

Commit(w) ==
  /\ writing[w] # Nil /\ w \notin logged
  /\ log' = Append(log, writing[w]) /\ logged' = logged \cup {w}
  /\ UNCHANGED <<writing, got>>

ReturnNil(w) ==
  /\ w \in logged
  /\ writing' = [writing EXCEPT ![w] = Nil] /\ logged' = logged \ {w}
  /\ UNCHANGED <<log, got>>

ReturnError(w) ==
  /\ writing[w] # Nil
  /\ writing' = [writing EXCEPT ![w] = Nil] /\ logged' = logged \ {w}
  /\ UNCHANGED <<log, got>>

Arrive ==
  /\ Len(got) < Len(log)
  /\ got' = Append(got, log[Len(got) + 1])
  /\ UNCHANGED <<writing, logged, log>>

Next ==
  \/ \E w \in Writers :
       \/ \E m \in Messages : Call(w, m)
       \/ Commit(w) \/ ReturnNil(w) \/ ReturnError(w)
  \/ Arrive

Spec == Init /\ [][Next]_vars
=============================================================================
