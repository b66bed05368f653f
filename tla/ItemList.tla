------------------------------ MODULE ItemList ------------------------------
(***************************************************************************)
(* The doubly linked list in which listeners.go and audiolisteners.go keep *)
(* their items.  Detach is the same in both files; Attach is not, and is   *)
(* left to the modules that extend this one.                               *)
(*                                                                         *)
(* An item is made by one Attach and detached at most once.  The order in  *)
(* which the attached items were attached is kept beside the pointers.     *)
(***************************************************************************)
EXTENDS Naturals, Sequences, Null

CONSTANT Items   \* the items that Attach allocates

VARIABLES
  head, tail,   \* the fields of Listeners, or of AudioListeners
  prev, next,   \* the fields of the items
  made,         \* the items that have been allocated
  attached      \* those not detached since, in the order of Attach

listVars == <<head, tail, prev, next, made, attached>>

Range(s) == {s[k] : k \in DOMAIN s}

\* The sequence s without its k-th element.
Without(s, k) ==
  [j \in 1..(Len(s) - 1) |-> IF j < k THEN s[j] ELSE s[j + 1]]

ListInit ==
  /\ head = Nil /\ tail = Nil
  /\ prev = [i \in Items |-> Nil] /\ next = [i \in Items |-> Nil]
  /\ made = {} /\ attached = <<>>

\* Faulty: the pointers of the detached item are cleared as well.
Detach_Clears(i) ==
  /\ head' = IF prev[i] = Nil THEN next[i] ELSE head
  /\ next' = [(IF prev[i] = Nil THEN next ELSE [next EXCEPT ![prev[i]] = next[i]])
                EXCEPT ![i] = Nil]
  /\ prev' = [(IF next[i] = Nil THEN prev ELSE [prev EXCEPT ![next[i]] = prev[i]])
                EXCEPT ![i] = Nil]
  /\ tail' = IF next[i] = Nil THEN prev[i] ELSE tail

\* The item keeps its own pointers.
Detach(i) ==
  /\ head' = IF prev[i] = Nil THEN next[i] ELSE head
  /\ next' = IF prev[i] = Nil THEN next ELSE [next EXCEPT ![prev[i]] = next[i]]
  /\ prev' = IF next[i] = Nil THEN prev ELSE [prev EXCEPT ![next[i]] = prev[i]]
  /\ tail' = IF next[i] = Nil THEN prev[i] ELSE tail

DetachOne(k) ==
  /\ Detach(attached[k])
  /\ attached' = Without(attached, k)
  /\ UNCHANGED made

=============================================================================
