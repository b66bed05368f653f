------------------------------ MODULE Listeners ------------------------------
(***************************************************************************)
(* The event listeners of listeners.go: Attach, Detach, and the loop with  *)
(* which every event is handed to the listeners.  The read routine holds   *)
(* Client.volatile while it follows a pointer and releases it for the call *)
(* of the listener.  Attach and Detach are called by a listener, or by the *)
(* program in Client.Do: they run between two steps of the loop.           *)
(***************************************************************************)
EXTENDS ItemList

VARIABLES
  item,     \* the item whose listener is being called, Nil between events
  called,   \* the items called for the current or last event, in order
  staying   \* those attached when it began and not detached since

vars == <<listVars, item, called, staying>>

Init ==
  /\ ListInit
  /\ item = Nil /\ called = <<>> /\ staying = {}

Link(i) ==
  /\ prev' = [prev EXCEPT ![i] = tail]
  /\ head' = IF head = Nil THEN i ELSE head
  /\ next' = IF tail = Nil THEN next ELSE [next EXCEPT ![tail] = i]
  /\ tail' = i

Attach(i) ==
  /\ i \notin made
  /\ Link(i)
  /\ made' = made \cup {i} /\ attached' = Append(attached, i)
  /\ UNCHANGED <<item, called, staying>>

DetachListener(k) ==
  /\ DetachOne(k)
  /\ staying' = staying \ {attached[k]}
  /\ UNCHANGED <<item, called>>

\* An event: the loop begins at head, and is over if there is no item.
Begin ==
  /\ item = Nil
  /\ item' = head
  /\ called' = IF head = Nil THEN <<>> ELSE <<head>>
  /\ staying' = Range(attached)
  /\ UNCHANGED listVars

\* The listener returns, and the loop follows the pointer of its item.
Return ==
  /\ item # Nil
  /\ item' = next[item]
  /\ called' = IF next[item] = Nil THEN called ELSE Append(called, next[item])
  /\ UNCHANGED <<listVars, staying>>

Next ==
  \/ \E i \in Items : Attach(i)
  \/ \E k \in DOMAIN attached : DetachListener(k)
  \/ Begin
  \/ Return

Spec == Init /\ [][Next]_vars

-----------------------------------------------------------------------------
(***************************************************************************)
(* The pointers are the list of the attached listeners, in the order in    *)
(* which they were attached (listeners.go:28), from both ends, whatever    *)
(* was attached and detached before and in the middle of an event.         *)
(***************************************************************************)
Linked ==
  LET n == Len(attached) IN
  /\ head = IF n = 0 THEN Nil ELSE attached[1]
  /\ tail = IF n = 0 THEN Nil ELSE attached[n]
  /\ \A k \in 1..n :
       /\ prev[attached[k]] = IF k = 1 THEN Nil ELSE attached[k - 1]
       /\ next[attached[k]] = IF k = n THEN Nil ELSE attached[k + 1]

(***************************************************************************)
(* "Each attached listener is called in sequence when a Client event is    *)
(* triggered" (listeners.go:22).  The pointers are the list of the         *)
(* attached listeners; no item is called twice for an event; those that    *)
(* are attached all the time are called in their order, none of them       *)
(* before one that is ahead of it, and all of them by the time the loop is *)
(* over, although others, the one being called included, are detached and  *)
(* attached meanwhile.                                                     *)
(***************************************************************************)
StayingAreCalled ==
  /\ Linked
  /\ \A j, k \in DOMAIN called : called[j] = called[k] => j = k
  /\ \A k \in DOMAIN called, m, n \in DOMAIN attached :
       m < n /\ called[k] = attached[n] /\ {attached[m], attached[n]} \subseteq staying =>
         \E j \in DOMAIN called : j < k /\ called[j] = attached[m]
  /\ item = Nil => staying \subseteq Range(called)
=============================================================================
