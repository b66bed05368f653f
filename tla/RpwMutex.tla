------------------------------ MODULE RpwMutex ------------------------------
(***************************************************************************)
(* rpwMutex, the reader-preferred lock behind Client.volatile, one action  *)
(* per operation on its two sync.Mutexes and its counter.                  *)
(*                                                                         *)
(* The lock does not know goroutines, so the readers are calls of          *)
(* Client.Do.  A call may be made from inside the callback of another one: *)
(* Outer[c] is the call whose callback makes c, and that callback does not *)
(* return before c does.                                                   *)
(***************************************************************************)
EXTENDS Integers, FiniteSets

CONSTANTS Calls,    \* calls of Client.Do (RLock ... RUnlock)
          Writers,  \* goroutines that run a Lock ... Unlock section
          Outer,    \* the call a call is nested in, or NoCall
          NoCall

ASSUME CallsAssumption ==
  /\ IsFiniteSet(Calls)
  /\ Calls \cap Writers = {}
  /\ NoCall \notin Calls
  /\ Outer \in [Calls -> Calls \cup {NoCall}]

VARIABLES w,   \* the mutex w is locked
          r,   \* the mutex r is locked
          n,   \* the number of readers
          pc   \* where each call and each writer is

vars == <<w, r, n, pc>>

(***************************************************************************)
(* A reader passes, in RLock, "rl_r" (blocked in r.Lock), "rl_n" (about to *)
(* increment n), "rl_w" (blocked in w.Lock) and "rl_u" (about to unlock    *)
(* r); it runs its callback at "reading"; in RUnlock it passes the         *)
(* corresponding "ru_" points.                                             *)
(***************************************************************************)
ReaderPC == {"idle", "rl_r", "rl_n", "rl_w", "rl_u", "reading",
             "ru_r", "ru_n", "ru_w", "ru_u"}
WriterPC == {"idle", "lock", "writing"}

TypeOK ==
  /\ w \in BOOLEAN /\ r \in BOOLEAN
  /\ n \in Nat
  /\ pc \in [Calls \cup Writers -> ReaderPC \cup WriterPC]
  /\ \A c \in Calls : pc[c] \in ReaderPC
  /\ \A g \in Writers : pc[g] \in WriterPC

Init ==
  /\ w = FALSE /\ r = FALSE /\ n = 0
  /\ pc = [p \in Calls \cup Writers |-> "idle"]

Goto(p, from, to) ==
  /\ pc[p] = from
  /\ pc' = [pc EXCEPT ![p] = to]

LockR(p, from, to) == ~r /\ r' = TRUE /\ Goto(p, from, to) /\ UNCHANGED <<w, n>>
UnlockR(p, from, to) == r' = FALSE /\ Goto(p, from, to) /\ UNCHANGED <<w, n>>
LockW(p, from, to) == ~w /\ w' = TRUE /\ Goto(p, from, to) /\ UNCHANGED <<r, n>>
UnlockW(p, from, to) == w' = FALSE /\ Goto(p, from, to) /\ UNCHANGED <<r, n>>

-----------------------------------------------------------------------------
\* Lock and Unlock, as the handlers of the read routine call them.

LockCall(g) == Goto(g, "idle", "lock") /\ UNCHANGED <<w, r, n>>

\* Faulty: the writer lets every waiting reader go first.
Lock_Yields(g) == (\A c \in Calls : pc[c] # "rl_r") /\ LockW(g, "lock", "writing")

Lock(g)     == LockW(g, "lock", "writing")
Unlock(g)   == UnlockW(g, "writing", "idle")

-----------------------------------------------------------------------------
\* RLock, RUnlock and the callback between them: Client.Do.

DoCall(c) ==
  /\ Outer[c] # NoCall => pc[Outer[c]] = "reading"
  /\ Goto(c, "idle", "rl_r")
  /\ UNCHANGED <<w, r, n>>

RLockR(c) == LockR(c, "rl_r", "rl_n")

\* Faulty: no reader takes w.
RLockN_SkipsW(c) ==
  /\ n' = n + 1
  /\ Goto(c, "rl_n", "rl_u")
  /\ UNCHANGED <<w, r>>

RLockN(c) ==
  /\ n' = n + 1
  /\ Goto(c, "rl_n", IF n' = 1 THEN "rl_w" ELSE "rl_u")
  /\ UNCHANGED <<w, r>>

RLockW(c) == LockW(c, "rl_w", "rl_u")
RLockU(c) == UnlockR(c, "rl_u", "reading")

\* The callback returns, once the calls it made have returned.
DoReturn(c) ==
  /\ \A d \in Calls : Outer[d] = c => pc[d] = "idle"
  /\ Goto(c, "reading", "ru_r")
  /\ UNCHANGED <<w, r, n>>

RUnlockR(c) == LockR(c, "ru_r", "ru_n")

\* Faulty: the last but one reader releases w.
RUnlockN_Early(c) ==
  /\ n' = n - 1
  /\ Goto(c, "ru_n", IF n' = 1 THEN "ru_w" ELSE "ru_u")
  /\ UNCHANGED <<w, r>>

RUnlockN(c) ==
  /\ n' = n - 1
  /\ Goto(c, "ru_n", IF n' = 0 THEN "ru_w" ELSE "ru_u")
  /\ UNCHANGED <<w, r>>

RUnlockW(c) == UnlockW(c, "ru_w", "ru_u")

RUnlockU(c) == UnlockR(c, "ru_u", "idle")

RLock(c)   == RLockR(c) \/ RLockN(c) \/ RLockW(c) \/ RLockU(c)
RUnlock(c) == RUnlockR(c) \/ RUnlockN(c) \/ RUnlockW(c) \/ RUnlockU(c)

-----------------------------------------------------------------------------
Next ==
  \/ \E g \in Writers : LockCall(g) \/ Lock(g) \/ Unlock(g)
  \/ \E c \in Calls : DoCall(c) \/ RLock(c) \/ DoReturn(c) \/ RUnlock(c)

Spec == Init /\ [][Next]_vars

(***************************************************************************)
(* Callbacks and write sections end, and a running goroutine takes its     *)
(* next step (weak fairness).  A goroutine blocked in sync.Mutex.Lock is   *)
(* not overtaken for ever: the mutex of the Go library hands itself to the *)
(* longest waiter after a millisecond (strong fairness).                   *)
(***************************************************************************)
Fairness ==
  /\ \A g \in Writers : SF_vars(Lock(g)) /\ WF_vars(Unlock(g))
  /\ \A c \in Calls :
       /\ SF_vars(RLockR(c)) /\ SF_vars(RLockW(c)) /\ SF_vars(RUnlockR(c))
       /\ WF_vars(RLockN(c)) /\ WF_vars(RLockU(c)) /\ WF_vars(DoReturn(c))
       /\ WF_vars(RUnlockN(c)) /\ WF_vars(RUnlockW(c)) /\ WF_vars(RUnlockU(c))

FairSpec == Spec /\ Fairness

-----------------------------------------------------------------------------
Reading == {c \in Calls : pc[c] = "reading"}
Writing == {g \in Writers : pc[g] = "writing"}

(***************************************************************************)
(* While one goroutine modifies the client's state under Lock, no callback *)
(* of Client.Do runs and no other goroutine is in such a section           *)
(* (client.go:324-332, rpwmutex.go).                                       *)
(***************************************************************************)
MutualExclusion ==
  /\ \A g, h \in Writers : g \in Writing /\ h \in Writing => g = h
  /\ Writing # {} => Reading = {}

(***************************************************************************)
(* A mutex is unlocked only while it is locked: Go's sync.Mutex aborts the *)
(* process otherwise (rpwmutex.go:17,26,33,35).                            *)
(***************************************************************************)
UnlocksWhatIsLocked ==
  /\ (Writing # {} \/ \E c \in Calls : pc[c] = "ru_w") => w
  /\ (\E c \in Calls : pc[c] \in {"rl_u", "ru_u"}) => r

(***************************************************************************)
(* The calls that hold the lock for reading: from the step that makes the  *)
(* reader own w to the step that removes it from the count.                *)
(***************************************************************************)
Holding == {c \in Calls : pc[c] \in {"rl_u", "reading", "ru_r", "ru_n"}}

RW == INSTANCE RwLock WITH readers <- Holding, writers <- Writing

(***************************************************************************)
(* The two mutexes and the counter implement a readers-writer lock whose   *)
(* operations are atomic (rpwmutex.go:12-36).                              *)
(***************************************************************************)
ImplementsRwLock == RW!Spec

(***************************************************************************)
(* Client.Do is never stuck in RLock, also when it is called inside        *)
(* another Do while the read routine waits for the write lock: the lock is *)
(* reader-preferred (rpwmutex.go:5).  The read routine gets the lock if    *)
(* the readers leave it again and again; overlapping readers may keep it   *)
(* out (rpwmutex.go:12-14).                                                *)
(***************************************************************************)
LockProgress ==
  /\ \A c \in Calls : pc[c] = "rl_r" ~> pc[c] = "reading"
  /\ \A g \in Writers : []<>(n = 0) => (pc[g] = "lock" ~> pc[g] = "writing")
=============================================================================
