------------------------------- MODULE RwLock -------------------------------
(***************************************************************************)
(* What Client.volatile promises: any number of Client.Do callbacks run    *)
(* together, and the section of the client that modifies the replicated    *)
(* state runs alone.  A call is atomic here; RpwMutex implements it from   *)
(* two plain mutexes and a counter.                                        *)
(***************************************************************************)
CONSTANTS Calls,    \* calls of Client.Do
          Writers   \* goroutines that modify the client's state

VARIABLES readers,  \* calls that hold the lock for reading
          writers   \* goroutines that hold it for writing

rwVars == <<readers, writers>>

Init == readers = {} /\ writers = {}

AcquireRead(c) ==
  /\ c \notin readers
  /\ writers = {}
  /\ readers' = readers \cup {c}
  /\ UNCHANGED writers

ReleaseRead(c) ==
  /\ c \in readers
  /\ readers' = readers \ {c}
  /\ UNCHANGED writers

AcquireWrite(g) ==
  /\ readers = {} /\ writers = {}
  /\ writers' = {g}
  /\ UNCHANGED readers

ReleaseWrite(g) ==
  /\ g \in writers
  /\ writers' = writers \ {g}
  /\ UNCHANGED readers

Next ==
  \/ \E c \in Calls : AcquireRead(c) \/ ReleaseRead(c)
  \/ \E g \in Writers : AcquireWrite(g) \/ ReleaseWrite(g)

Spec == Init /\ [][Next]_rwVars
=============================================================================
