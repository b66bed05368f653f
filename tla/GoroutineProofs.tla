-------------------------- MODULE GoroutineProofs ---------------------------
(***************************************************************************)
(* The goroutines of a client and of a stream, and the lock that they      *)
(* share: rpwMutex is a readers-writer lock for any finite set of Do       *)
(* calls, any nesting of them and any set of writers; the life of the      *)
(* client, for any number of goroutines that call Disconnect; the FFmpeg   *)
(* stream, for any number of goroutines that use it.                       *)
(***************************************************************************)
EXTENDS RpwMutex, ClientLifecycle, FFmpegStream, FiniteSetTheorems, TLAPS

-----------------------------------------------------------------------------
(***************************************************************************)
(* The life of the client (ClientLifecycle), for any number of goroutines  *)
(* that call Disconnect and of ServerSync packets.                         *)
(*                                                                         *)
(* None of its properties is inductive: each speaks of what one goroutine  *)
(* sees of another one's progress. LifeInv ties the position of the read   *)
(* routine to the channel it closes, the state it stores and the calls it  *)
(* has made (ReadPhases), Client.disconnectEvent.Type to those who may     *)
(* have written it (Reasons), and the outcome of DialWithDialer to the     *)
(* connection (DialPhases).                                                *)
(***************************************************************************)

\* A call of Disconnect has written the reason.
Marked == \E g \in Callers : call[g] \in {"close", "done"}

\* What the read routine has done by then (client.go:275-297, handlers.go:249-278).
ReadPhases ==
  /\ state = "Connected" =>
       /\ connect = "open" /\ ~connected /\ self = "none" /\ told = "none"
       /\ read \notin {"onConnect", "closeConnect"}
  /\ state = "Synced" =>
       \/ read = "onConnect"
       \/ read = "closeConnect" /\ connected
       \/ connect = "closed"
  /\ state = "Disconnected" <=> read \in {"closeEnd", "onDisconnect", "done"}
  /\ connect = "closed" => connected
  /\ read = "closeConnect" => connected
  /\ read \in {"sendReject", "closeConn"} => state = "Connected"
  /\ read = "closeEnd" => (wasSynced <=> connected) /\ told = "none"
  /\ read = "onDisconnect" => connected /\ told # "none"
  /\ read = "done" => (connected <=> told # "none")
  /\ told # "none" => connected /\ read \in {"onDisconnect", "done"}

(***************************************************************************)
(* Client.Self is set again by a second ServerSync, which ends in a panic  *)
(* before OnDisconnect is called.                                          *)
(***************************************************************************)
Reasons ==
  /\ type = "User" => Marked
  /\ type \in {"Kicked", "Banned"} =>
       \/ self = "removed"
       \/ connect = "closed" /\ read \in {"onConnect", "closeConnect", "panicked"}
  /\ type = "Error" => ~Marked /\ self # "removed"
  /\ told = "User" => Marked
  /\ told \in {"Kicked", "Banned"} => self = "removed"

\* Where DialWithDialer is, and what it has made by then (client.go:118-215).
DialPhases ==
  /\ dial \in {"dialing", "writing", "selecting"} => result = "none"
  /\ dial = "closing" => result # "client"
  /\ result = "client" => connected
  /\ dial = "returned" /\ result # "client" => conn = "closed" \/ read = "absent"
  /\ dial = "dialing" => read = "absent"

\* The inductive invariant.
LifeInv == LifeTypeOK /\ ReadPhases /\ Reasons /\ DialPhases

\* LifeInv holds when DialWithDialer is called.
LEMMA LifeInvInit == LifeInit => LifeInv
<1> SUFFICES ASSUME LifeInit PROVE LifeInv
  OBVIOUS
<1>1. LifeTypeOK
  BY Zenon DEF LifeInit, LifeTypeOK
<1>2. ~Marked
  BY DEF LifeInit, Marked
<1> QED
  BY <1>1, <1>2 DEF LifeInit, LifeInv, ReadPhases, Reasons, DialPhases

\* Steps that leave the calls of Disconnect alone keep who has marked the
\* event; those of Disconnect only add to it.
LEMMA MarkedStep ==
  ASSUME LifeTypeOK,
         \/ UNCHANGED call
         \/ \E g \in Callers :
              DisconnectChecks(g) \/ DisconnectMarks(g) \/ DisconnectCloses(g)
  PROVE  /\ Marked => Marked'
         /\ Marked' => Marked \/ \E g \in Callers : DisconnectMarks(g)
         /\ (\E g \in Callers : DisconnectMarks(g)) => Marked'
<1>1. CASE UNCHANGED call
  BY <1>1 DEF Marked, DisconnectMarks, LifeTypeOK
<1>2. ASSUME NEW g \in Callers, DisconnectChecks(g) PROVE Marked <=> Marked'
  BY <1>2 DEF Marked, DisconnectChecks, LifeTypeOK
<1>3. ASSUME NEW g \in Callers, DisconnectMarks(g) PROVE Marked'
  BY <1>3 DEF Marked, DisconnectMarks, LifeTypeOK
<1>4. ASSUME NEW g \in Callers, DisconnectCloses(g) PROVE Marked <=> Marked'
  BY <1>4 DEF Marked, DisconnectCloses, LifeTypeOK
<1> QED
  BY <1>1, <1>2, <1>3, <1>4

\* The steps of DialWithDialer keep LifeInv.
LEMMA DialKeeps ==
  ASSUME LifeInv, DialNext
  PROVE  LifeInv'
<1>m. UNCHANGED call /\ (Marked <=> Marked')
  BY DEF DialNext, DialFails, DialConnects, DialWrites, DialTimeout, DialSynced,
         DialRejected, DialCloses, Marked
<1> USE DEF LifeInv, LifeTypeOK, ReadPhases, Reasons, DialPhases, netVars, dialVars, readVars
<1>1. CASE DialFails
  BY <1>m, <1>1 DEF DialFails
<1>2. CASE DialConnects
  BY <1>m, <1>2 DEF DialConnects
<1>3. CASE DialWrites
  BY <1>m, <1>3 DEF DialWrites
<1>4. CASE DialTimeout
  BY <1>m, <1>4 DEF DialTimeout
<1>5. CASE DialSynced
  BY <1>m, <1>5 DEF DialSynced
<1>6. CASE DialRejected
  BY <1>m, <1>6 DEF DialRejected
<1>7. CASE DialCloses
  BY <1>m, <1>7 DEF DialCloses
<1> QED
  BY <1>1, <1>2, <1>3, <1>4, <1>5, <1>6, <1>7, Zenon DEF DialNext

\* Taking a packet keeps LifeInv.
LEMMA PacketKeeps ==
  ASSUME LifeInv, PacketNext
  PROVE  LifeInv'
<1>m. UNCHANGED call /\ (Marked <=> Marked')
  BY DEF PacketNext, HandleServerSync, HandleReject, HandleOther, HandleSelfRemove,
         Marked
<1> USE DEF LifeInv, LifeTypeOK, ReadPhases, Reasons, DialPhases, netVars, dialVars, readVars
<1>1. ASSUME NEW user \in {"none", "present"}, HandleServerSync(user)
      PROVE  LifeInv'
  BY <1>m, <1>1 DEF HandleServerSync
<1>2. CASE HandleReject
  BY <1>m, <1>2 DEF HandleReject
<1>3. CASE HandleOther
  BY <1>m, <1>3 DEF HandleOther
<1>4. ASSUME NEW reason \in {"Kicked", "Banned"}, HandleSelfRemove(reason)
      PROVE  LifeInv'
  BY <1>m, <1>4 DEF HandleSelfRemove
<1> QED
  BY <1>1, <1>2, <1>3, <1>4, Zenon DEF PacketNext

\* The steps of the read routine between packets and at its end keep LifeInv.
LEMMA ReadKeeps ==
  ASSUME LifeInv, ReadFails \/ ReadNext
  PROVE  LifeInv'
<1>m. UNCHANGED call /\ (Marked <=> Marked')
  BY DEF ReadFails, ReadNext, OnConnectReturns, CloseConnect, RejectCloses,
         ListenerReturns, StoreDisconnected, CloseEnd, OnDisconnectReturns, Marked
<1> USE DEF LifeInv, LifeTypeOK, ReadPhases, Reasons, DialPhases, netVars, dialVars, readVars
<1>1. CASE ReadFails
  BY <1>m, <1>1 DEF ReadFails
<1>2. CASE OnConnectReturns
  BY <1>m, <1>2 DEF OnConnectReturns
<1>3. CASE CloseConnect
  BY <1>m, <1>3 DEF CloseConnect
<1>4. CASE RejectCloses
  BY <1>m, <1>4 DEF RejectCloses
<1>5. CASE ListenerReturns
  BY <1>m, <1>5 DEF ListenerReturns
<1>6. CASE StoreDisconnected
  BY <1>m, <1>6 DEF StoreDisconnected
<1>7. CASE CloseEnd
  BY <1>m, <1>7 DEF CloseEnd
<1>8. CASE OnDisconnectReturns
  BY <1>m, <1>8 DEF OnDisconnectReturns
<1> QED
  BY <1>1, <1>2, <1>3, <1>4, <1>5, <1>6, <1>7, <1>8, Zenon DEF ReadNext

\* The ping routine, the calls of Disconnect and the network keep LifeInv.
LEMMA OthersKeep ==
  ASSUME LifeInv,
         \/ PingWrites \/ PingTicks \/ PingEnds \/ ConnectionLost
         \/ \E g \in Callers :
              DisconnectChecks(g) \/ DisconnectMarks(g) \/ DisconnectCloses(g)
         \/ UNCHANGED lifeVars
  PROVE  LifeInv'
<1>m. /\ Marked => Marked'
      /\ Marked' => Marked \/ \E g \in Callers : DisconnectMarks(g)
      /\ (\E g \in Callers : DisconnectMarks(g)) => Marked'
  BY MarkedStep DEF LifeInv, PingWrites, PingTicks, PingEnds, ConnectionLost, lifeVars
<1>n. \A g \in Callers : DisconnectMarks(g) => type' = "User"
  BY DEF DisconnectMarks
<1> USE DEF LifeInv, LifeTypeOK, ReadPhases, Reasons, DialPhases, netVars, dialVars, readVars
<1>1. CASE PingWrites
  BY <1>m, <1>n, <1>1 DEF PingWrites
<1>2. CASE PingTicks
  BY <1>m, <1>n, <1>2 DEF PingTicks
<1>3. CASE PingEnds
  BY <1>m, <1>n, <1>3 DEF PingEnds
<1>4. CASE ConnectionLost
  BY <1>m, <1>n, <1>4 DEF ConnectionLost
<1>5. ASSUME NEW g \in Callers, DisconnectChecks(g) PROVE LifeInv'
  BY <1>m, <1>n, <1>5 DEF DisconnectChecks
<1>6. ASSUME NEW g \in Callers, DisconnectMarks(g) PROVE LifeInv'
  <2>1. Marked'
    BY <1>m, <1>6
  <2>2. call' \in [Callers -> {"idle", "refused", "mark", "close", "done"}]
    BY <1>6 DEF DisconnectMarks
  <2> QED
    BY <1>6, <2>1, <2>2 DEF DisconnectMarks
<1>7. ASSUME NEW g \in Callers, DisconnectCloses(g) PROVE LifeInv'
  BY <1>m, <1>n, <1>7 DEF DisconnectCloses
<1>8. CASE UNCHANGED lifeVars
  BY <1>m, <1>n, <1>8 DEF lifeVars
<1> QED
  BY <1>1, <1>2, <1>3, <1>4, <1>5, <1>6, <1>7, <1>8, Zenon

\* The inductive invariant holds in every reachable state.
THEOREM LifeInvariance == LifeSpec => []LifeInv
<1>1. LifeInv /\ [LifeNext]_lifeVars => LifeInv'
  <2> SUFFICES ASSUME LifeInv, [LifeNext]_lifeVars PROVE LifeInv'
    OBVIOUS
  <2>1. CASE DialNext
    BY <2>1, DialKeeps
  <2>2. CASE PacketNext
    BY <2>2, PacketKeeps
  <2>3. CASE ReadFails \/ ReadNext
    BY <2>3, ReadKeeps
  <2>4. CASE ~(DialNext \/ PacketNext \/ ReadFails \/ ReadNext)
    BY <2>4, OthersKeep DEF LifeNext
  <2> QED
    BY <2>1, <2>2, <2>3, <2>4
<1> QED
  BY <1>1, LifeInvInit, PTL DEF LifeSpec

\* Every variable keeps its type.
THEOREM LifeTypes == LifeSpec => []LifeTypeOK
<1>1. LifeInv => LifeTypeOK
  BY DEF LifeInv
<1> QED
  BY <1>1, LifeInvariance, PTL

\* A client that DialWithDialer returns has had its OnConnect listeners
\* called, however the timeout, a Reject and the sync race
\* (client.go:204-214).
THEOREM DialContract == LifeSpec => []DialAfterOnConnect
<1>1. LifeInv => DialAfterOnConnect
  BY DEF LifeInv, DialPhases, DialAfterOnConnect
<1> QED
  BY <1>1, LifeInvariance, PTL

\* handleReject does not send on a closed channel (handlers.go:232-244).
THEOREM RejectSafe == LifeSpec => []RejectBeforeSync
<1>1. LifeInv => RejectBeforeSync
  BY DEF LifeInv, ReadPhases, RejectBeforeSync
<1> QED
  BY <1>1, LifeInvariance, PTL

\* OnConnect and OnDisconnect come in pairs (client.go:291-296).
THEOREM EventsPair == LifeSpec => []EventsPaired
<1>1. LifeInv => EventsPaired
  BY DEF LifeInv, ReadPhases, EventsPaired
<1> QED
  BY <1>1, LifeInvariance, PTL

\* OnDisconnect is called with a true reason, for any number of concurrent
\* calls of Disconnect (client.go:276-279, 319; handlers.go:469-475).
THEOREM ReasonHolds == LifeSpec => []ReasonTruthful
<1>1. LifeInv => ReasonTruthful
  BY DEF LifeInv, Reasons, ReasonTruthful, Marked
<1> QED
  BY <1>1, LifeInvariance, PTL

\* No packet is taken after DialWithDialer has returned an error
\* (client.go:206, 210).
THEOREM ErrorIsFinal == LifeSpec => NoPacketAfterError
<1>1. LifeInv /\ [LifeNext]_lifeVars =>
        [dial = "returned" /\ result # "client" /\ read = "reading"
           => read' \in {"reading", "exit"}]_lifeVars
  <2> SUFFICES ASSUME LifeInv, LifeNext, dial = "returned", result # "client",
                      read = "reading"
               PROVE  read' \in {"reading", "exit"}
    OBVIOUS
  <2>1. conn = "closed"
    BY DEF LifeInv, DialPhases
  <2>2. ~PacketNext
    BY <2>1 DEF PacketNext, HandleServerSync, HandleReject, HandleOther,
                HandleSelfRemove
  <2>3. CASE DialNext \/ ReadNext
    BY <2>3 DEF DialNext, DialFails, DialConnects, DialWrites, DialTimeout,
       DialSynced, DialRejected, DialCloses, ReadNext, OnConnectReturns,
       CloseConnect, RejectCloses, ListenerReturns, StoreDisconnected, CloseEnd,
       OnDisconnectReturns
  <2>4. CASE ReadFails
    BY <2>4 DEF ReadFails
  <2>5. CASE ~(DialNext \/ ReadNext \/ PacketNext \/ ReadFails)
    BY <2>5 DEF LifeNext, PingWrites, PingTicks, PingEnds, DisconnectChecks,
       DisconnectMarks, DisconnectCloses, ConnectionLost, readVars
  <2> QED
    BY <2>2, <2>3, <2>4, <2>5
<1> QED
  BY <1>1, LifeInvariance, PTL DEF LifeSpec, NoPacketAfterError

-----------------------------------------------------------------------------
(***************************************************************************)
(* The lock of the client (RpwMutex).                                      *)
(***************************************************************************)

-----------------------------------------------------------------------------
(* The inductive invariant.                                                *)

\* The calls that are included in the counter n.
Counted == {c \in Calls : pc[c] \in {"rl_w", "rl_u", "reading", "ru_r", "ru_n"}}

\* The points at which a call holds the mutex r.
HoldsR == {"rl_n", "rl_w", "rl_u", "ru_n", "ru_w", "ru_u"}

\* The points at which the readers, as a group, hold the mutex w.
ReadersHoldW == {"rl_u", "reading", "ru_r", "ru_n", "ru_w"}

\* The mutex r is held by exactly one call, and locked exactly then.
ROwned ==
  /\ \A c, d \in Calls : pc[c] \in HoldsR /\ pc[d] \in HoldsR => c = d
  /\ r <=> \E c \in Calls : pc[c] \in HoldsR

\* The mutex w is held by one writer or by the readers, and locked then.
WOwned ==
  /\ \A g, h \in Writers : pc[g] = "writing" /\ pc[h] = "writing" => g = h
  /\ \A g \in Writers, c \in Calls :
       ~(pc[g] = "writing" /\ pc[c] \in ReadersHoldW)
  /\ w <=> \/ \E g \in Writers : pc[g] = "writing"
           \/ \E c \in Calls : pc[c] \in ReadersHoldW

(***************************************************************************)
(* The counter counts.  A call that waits for w is the only one counted,   *)
(* and a call that is about to release w for the readers is the last one.  *)
(***************************************************************************)
CounterExact ==
  /\ n = Cardinality(Counted)
  /\ \A c \in Calls : pc[c] = "rl_w" => Counted = {c}
  /\ \A c \in Calls : pc[c] = "ru_w" => Counted = {}

\* The inductive invariant of the lock.
LockInv == TypeOK /\ ROwned /\ WOwned /\ CounterExact

-----------------------------------------------------------------------------
\* The counted calls are a finite set (there are finitely many calls).
LEMMA CountedFinite == IsFiniteSet(Counted) /\ Cardinality(Counted) \in Nat
  BY CallsAssumption, FS_Subset, FS_CardinalityType DEF Counted

\* A step of a writer leaves the counted calls as they are.
LEMMA WriterKeepsCounted ==
  ASSUME TypeOK, NEW g \in Writers, NEW to, pc' = [pc EXCEPT ![g] = to]
  PROVE  Counted' = Counted /\ \A c \in Calls : pc'[c] = pc[c]
  BY CallsAssumption DEF Counted, TypeOK

\* A step of a call changes the counted calls by that call at most.
LEMMA CallChangesCounted ==
  ASSUME TypeOK, NEW c \in Calls, NEW to \in ReaderPC,
         pc' = [pc EXCEPT ![c] = to]
  PROVE  /\ pc'[c] = to
         /\ \A d \in Calls \cup Writers : d # c => pc'[d] = pc[d]
         /\ Counted' = IF to \in {"rl_w", "rl_u", "reading", "ru_r", "ru_n"}
                       THEN Counted \cup {c} ELSE Counted \ {c}
  BY CallsAssumption DEF Counted, TypeOK

\* No goroutine is in the lock at first.
LEMMA LockInvInit == Init => LockInv
<1> SUFFICES ASSUME Init PROVE LockInv
  OBVIOUS
<1>1. TypeOK /\ ROwned /\ WOwned
  BY Zenon DEF Init, TypeOK, ROwned, WOwned, HoldsR, ReadersHoldW, ReaderPC, WriterPC
<1>2. Counted = {}
  BY DEF Counted, Init
<1>3. CounterExact
  BY <1>2, FS_EmptySet DEF CounterExact, Init
<1> QED
  BY <1>1, <1>3 DEF LockInv

\* The types are kept by every step.
LEMMA TypeOKStep == LockInv /\ [Next]_vars => TypeOK'
<1> SUFFICES ASSUME LockInv, [Next]_vars PROVE TypeOK'
  OBVIOUS
<1> USE CallsAssumption DEF LockInv, TypeOK, ReaderPC, WriterPC
<1>1. ASSUME NEW g \in Writers, LockCall(g) \/ Lock(g) \/ Unlock(g)
      PROVE  TypeOK'
  BY <1>1, Zenon DEF LockCall, Lock, Unlock, LockW, UnlockW, Goto
<1>2. ASSUME NEW c \in Calls, DoCall(c) \/ DoReturn(c)
      PROVE  TypeOK'
  BY <1>2 DEF DoCall, DoReturn, Goto
<1>3. ASSUME NEW c \in Calls, RLockR(c) \/ RLockW(c) \/ RLockU(c)
      PROVE  TypeOK'
  BY <1>3, Zenon DEF RLockR, RLockW, RLockU, LockR, UnlockR, LockW, Goto
<1>4. ASSUME NEW c \in Calls, RLockN(c)
      PROVE  TypeOK'
  BY <1>4 DEF RLockN, Goto
<1>5. ASSUME NEW c \in Calls, RUnlockR(c) \/ RUnlockW(c) \/ RUnlockU(c)
      PROVE  TypeOK'
  BY <1>5, ZenonT(30) DEF RUnlockR, RUnlockW, RUnlockU, LockR, UnlockR, UnlockW, Goto
<1>6. ASSUME NEW c \in Calls, RUnlockN(c)
      PROVE  TypeOK'
  <2>1. n # 0
    BY <1>6, FS_EmptySet, CountedFinite
       DEF CounterExact, Counted, RUnlockN, Goto
  <2> QED
    BY <1>6, <2>1 DEF RUnlockN, Goto
<1>7. CASE UNCHANGED vars
  BY <1>7 DEF vars
<1> QED
  BY <1>1, <1>2, <1>3, <1>4, <1>5, <1>6, <1>7 DEF Next, RLock, RUnlock

\* The owner of the mutex r is kept by every step.
LEMMA ROwnedStep == LockInv /\ [Next]_vars => ROwned'
<1> SUFFICES ASSUME LockInv, [Next]_vars PROVE ROwned'
  OBVIOUS
<1> USE CallsAssumption DEF LockInv, TypeOK, ROwned, HoldsR
<1>1. ASSUME NEW g \in Writers, LockCall(g) \/ Lock(g) \/ Unlock(g)
      PROVE  ROwned'
  BY <1>1 DEF LockCall, Lock, Unlock, LockW, UnlockW, Goto
<1>2. ASSUME NEW c \in Calls, DoCall(c) \/ DoReturn(c)
      PROVE  ROwned'
  BY <1>2 DEF DoCall, DoReturn, Goto
<1>3. ASSUME NEW c \in Calls, RLockR(c) \/ RUnlockR(c)
      PROVE  ROwned'
  BY <1>3 DEF RLockR, RUnlockR, LockR, Goto
<1>4. ASSUME NEW c \in Calls, RLockU(c) \/ RUnlockU(c)
      PROVE  ROwned'
  BY <1>4 DEF RLockU, RUnlockU, UnlockR, Goto
<1>5. ASSUME NEW c \in Calls, RLockN(c) \/ RUnlockN(c)
      PROVE  ROwned'
  BY <1>5 DEF RLockN, RUnlockN, Goto
<1>6. ASSUME NEW c \in Calls, RLockW(c) \/ RUnlockW(c)
      PROVE  ROwned'
  BY <1>6 DEF RLockW, RUnlockW, LockW, UnlockW, Goto
<1>7. CASE UNCHANGED vars
  BY <1>7 DEF vars
<1> QED
  BY <1>1, <1>2, <1>3, <1>4, <1>5, <1>6, <1>7 DEF Next, RLock, RUnlock

(***************************************************************************)
(* A call whose increment of n does not give 1 joins a group of readers    *)
(* that holds w already (rpwmutex.go:22-23).                               *)
(***************************************************************************)
LEMMA JoinsGroup ==
  ASSUME LockInv, NEW c \in Calls, RLockN(c), n' # 1
  PROVE  \E d \in Calls : d # c /\ pc[d] \in {"reading", "ru_r"}
<1>1. Counted # {}
  BY FS_EmptySet, CountedFinite DEF LockInv, CounterExact, RLockN, TypeOK
<1>2. PICK d \in Counted : TRUE
  BY <1>1
<1>3. d \in Calls /\ pc[d] \in {"rl_w", "rl_u", "reading", "ru_r", "ru_n"}
  BY <1>2 DEF Counted
<1>4. pc[c] = "rl_n"
  BY DEF RLockN, Goto
<1> QED
  BY <1>3, <1>4 DEF LockInv, ROwned, HoldsR

(***************************************************************************)
(* A call whose decrement of n gives 0 is the last reader; otherwise a     *)
(* reader remains that goes on holding w (rpwmutex.go:31-32).              *)
(***************************************************************************)
LEMMA LeavesGroup ==
  ASSUME LockInv, NEW c \in Calls, RUnlockN(c)
  PROVE  /\ n' = 0 => Counted = {c}
         /\ n' # 0 => \E d \in Calls : d # c /\ pc[d] \in {"reading", "ru_r"}
<1>1. c \in Counted /\ pc[c] = "ru_n" /\ n' = n - 1
  BY DEF RUnlockN, Goto, Counted
<1>2. /\ IsFiniteSet(Counted \ {c})
      /\ Cardinality(Counted \ {c}) = n'
  BY <1>1, CountedFinite, FS_RemoveElement DEF LockInv, CounterExact
<1>3. n' = 0 => Counted = {c}
  BY <1>1, <1>2, FS_EmptySet
<1>4. ASSUME n' # 0
      PROVE  \E d \in Calls : d # c /\ pc[d] \in {"reading", "ru_r"}
  <2>1. Counted \ {c} # {}
    BY <1>2, <1>4, FS_EmptySet
  <2>2. PICK d \in Counted \ {c} : TRUE
    BY <2>1
  <2>3. d \in Calls /\ pc[d] \in {"rl_w", "rl_u", "reading", "ru_r", "ru_n"}
    BY <2>2 DEF Counted
  <2> QED
    BY <1>1, <2>2, <2>3 DEF LockInv, ROwned, HoldsR
<1> QED
  BY <1>3, <1>4

\* The owner of the mutex w is kept by every step.
LEMMA WOwnedStep == LockInv /\ [Next]_vars => WOwned'
<1> SUFFICES ASSUME LockInv, [Next]_vars PROVE WOwned'
  OBVIOUS
<1> USE CallsAssumption DEF LockInv, TypeOK, WOwned, ReadersHoldW
<1>1. ASSUME NEW g \in Writers, LockCall(g) \/ Lock(g) \/ Unlock(g)
      PROVE  WOwned'
  BY <1>1 DEF LockCall, Lock, Unlock, LockW, UnlockW, Goto
<1>2. ASSUME NEW c \in Calls, DoCall(c) \/ DoReturn(c)
      PROVE  WOwned'
  BY <1>2 DEF DoCall, DoReturn, Goto
<1>3. ASSUME NEW c \in Calls, RLockR(c) \/ RUnlockR(c)
      PROVE  WOwned'
  BY <1>3 DEF RLockR, RUnlockR, LockR, Goto
<1>4. ASSUME NEW c \in Calls, RLockU(c) \/ RUnlockU(c)
      PROVE  WOwned'
  BY <1>4 DEF RLockU, RUnlockU, UnlockR, Goto
<1>5. ASSUME NEW c \in Calls, RLockN(c)
      PROVE  WOwned'
  <2>1. CASE n' = 1
    BY <1>5, <2>1 DEF RLockN, Goto
  <2>2. CASE n' # 1
    BY ZenonT(60), <1>5, <2>2, JoinsGroup DEF RLockN, Goto
  <2> QED
    BY <2>1, <2>2
<1>6. ASSUME NEW c \in Calls, RUnlockN(c)
      PROVE  WOwned'
  <2>1. CASE n' = 0
    BY <1>6, <2>1 DEF RUnlockN, Goto
  <2>2. CASE n' # 0
    BY <1>6, <2>2, LeavesGroup, Zenon DEF RUnlockN, Goto
  <2> QED
    BY <2>1, <2>2
<1>7. ASSUME NEW c \in Calls, RLockW(c)
      PROVE  WOwned'
  BY <1>7 DEF RLockW, LockW, Goto
<1>8. ASSUME NEW c \in Calls, RUnlockW(c)
      PROVE  WOwned'
  \* No other call is at a point where the readers hold w: the one that
  \* releases it was the last one counted, and it holds r.
  <2>1. Counted = {} /\ pc[c] = "ru_w"
    BY <1>8 DEF RUnlockW, UnlockW, Goto, CounterExact
  <2>2. \A d \in Calls : d # c => pc[d] \notin ReadersHoldW
    BY <2>1 DEF Counted, ROwned, HoldsR
  <2> QED
    BY <1>8, <2>2 DEF RUnlockW, UnlockW, Goto
<1>9. CASE UNCHANGED vars
  BY <1>9 DEF vars
<1> QED
  BY <1>1, <1>2, <1>3, <1>4, <1>5, <1>6, <1>7, <1>8, <1>9, ZenonT(30)
     DEF Next, RLock, RUnlock

\* The counter goes on counting.
LEMMA CounterStep == LockInv /\ [Next]_vars => CounterExact'
<1> SUFFICES ASSUME LockInv, [Next]_vars PROVE CounterExact'
  OBVIOUS
<1>t. TypeOK /\ ROwned /\ CounterExact
  BY DEF LockInv
<1>1. ASSUME NEW g \in Writers, LockCall(g) \/ Lock(g) \/ Unlock(g)
      PROVE  CounterExact'
  <2>1. PICK to : pc' = [pc EXCEPT ![g] = to]
    BY <1>1 DEF LockCall, Lock, Unlock, LockW, UnlockW, Goto
  <2>2. n' = n
    BY <1>1 DEF LockCall, Lock, Unlock, LockW, UnlockW
  <2>3. Counted' = Counted /\ \A c \in Calls : pc'[c] = pc[c]
    BY <1>t, <2>1, WriterKeepsCounted, Zenon
  <2> QED
    BY <1>t, <2>2, <2>3 DEF CounterExact
<1>2. ASSUME NEW c \in Calls, NEW to \in ReaderPC,
             pc' = [pc EXCEPT ![c] = to], n' = n,
             c \in Counted <=>
               to \in {"rl_w", "rl_u", "reading", "ru_r", "ru_n"},
             to = "rl_w" => Counted = {c},
             to = "ru_w" => Counted = {}
      PROVE  CounterExact'
  <2>1. /\ pc'[c] = to
        /\ \A d \in Calls : d # c => pc'[d] = pc[d]
        /\ Counted' = IF to \in {"rl_w", "rl_u", "reading", "ru_r", "ru_n"}
                      THEN Counted \cup {c} ELSE Counted \ {c}
    BY <1>2, <1>t, CallChangesCounted, Zenon
  <2>2. Counted' = Counted
    BY <1>2, <2>1
  <2> QED
    BY <1>2, <1>t, <2>1, <2>2 DEF CounterExact
<1>3. ASSUME NEW c \in Calls, DoCall(c) \/ DoReturn(c)
      PROVE  CounterExact'
  BY <1>2, <1>3 DEF DoCall, DoReturn, Goto, Counted, ReaderPC
<1>4. ASSUME NEW c \in Calls, RLockR(c) \/ RUnlockR(c)
      PROVE  CounterExact'
  BY <1>2, <1>4 DEF RLockR, RUnlockR, LockR, Goto, Counted, ReaderPC
<1>5. ASSUME NEW c \in Calls, RLockU(c) \/ RUnlockU(c)
      PROVE  CounterExact'
  BY <1>2, <1>5, Zenon DEF RLockU, RUnlockU, UnlockR, Goto, Counted, ReaderPC
<1>6. ASSUME NEW c \in Calls, RLockW(c) \/ RUnlockW(c)
      PROVE  CounterExact'
  BY <1>2, <1>6 DEF RLockW, RUnlockW, LockW, UnlockW, Goto, Counted, ReaderPC
<1>7. ASSUME NEW c \in Calls, RLockN(c)
      PROVE  CounterExact'
  <2>1. PICK to \in {"rl_w", "rl_u"} :
          /\ pc' = [pc EXCEPT ![c] = to]
          /\ to = "rl_w" <=> n' = 1
    BY <1>7, Zenon DEF RLockN, Goto
  <2>2. pc[c] = "rl_n" /\ n' = n + 1 /\ c \notin Counted
    BY <1>7 DEF RLockN, Goto, Counted
  <2>3. /\ Counted' = Counted \cup {c}
        /\ pc'[c] = to
        /\ \A d \in Calls : d # c => pc'[d] = pc[d]
    BY <1>t, <2>1, CallChangesCounted, Zenon DEF ReaderPC
  <2>4. n' = Cardinality(Counted')
    BY <1>t, <2>2, <2>3, CountedFinite, FS_AddElement, Zenon DEF CounterExact
  <2>5. to = "rl_w" => Counted' = {c}
    BY <1>t, <2>1, <2>2, <2>3, CountedFinite, FS_EmptySet DEF CounterExact
  <2>6. \A d \in Calls : pc'[d] \in {"rl_w", "ru_w"} => d = c
    BY <1>t, <2>2, <2>3 DEF ROwned, HoldsR
  <2> QED
    BY <2>1, <2>3, <2>4, <2>5, <2>6 DEF CounterExact
<1>8. ASSUME NEW c \in Calls, RUnlockN(c)
      PROVE  CounterExact'
  <2>1. PICK to \in {"ru_w", "ru_u"} :
          /\ pc' = [pc EXCEPT ![c] = to]
          /\ to = "ru_w" <=> n' = 0
    BY <1>8, Zenon DEF RUnlockN, Goto
  <2>2. pc[c] = "ru_n" /\ n' = n - 1 /\ c \in Counted
    BY <1>8 DEF RUnlockN, Goto, Counted
  <2>3. /\ Counted' = Counted \ {c}
        /\ pc'[c] = to
        /\ \A d \in Calls : d # c => pc'[d] = pc[d]
    BY <1>t, <2>1, CallChangesCounted, Zenon DEF ReaderPC
  <2>4. n' = Cardinality(Counted')
    BY <1>t, <2>2, <2>3, CountedFinite, FS_RemoveElement, Zenon DEF CounterExact
  <2>5. to = "ru_w" => Counted' = {}
    BY <1>8, <2>1, <2>3, LeavesGroup, Zenon
  <2>6. \A d \in Calls : pc'[d] \in {"rl_w", "ru_w"} => d = c
    BY <1>t, <2>2, <2>3 DEF ROwned, HoldsR
  <2> QED
    BY <2>1, <2>3, <2>4, <2>5, <2>6 DEF CounterExact
<1>9. CASE UNCHANGED vars
  BY <1>t, <1>9 DEF vars, CounterExact, Counted
<1> QED
  BY <1>1, <1>3, <1>4, <1>5, <1>6, <1>7, <1>8, <1>9 DEF Next, RLock, RUnlock

-----------------------------------------------------------------------------
(* What follows from the inductive invariant.                              *)

\* The inductive invariant holds in every reachable state.
THEOREM LockInvariance == Spec => []LockInv
<1>1. LockInv /\ [Next]_vars => LockInv'
  BY TypeOKStep, ROwnedStep, WOwnedStep, CounterStep DEF LockInv
<1> QED
  BY <1>1, LockInvInit, PTL DEF Spec

\* The variables of the lock keep their types; in particular n, which
\* RUnlock decrements, never becomes negative (rpwmutex.go:31).
THEOREM TypeCorrect == Spec => []TypeOK
<1>1. LockInv => TypeOK
  BY DEF LockInv
<1> QED
  BY <1>1, LockInvariance, PTL

\* A goroutine that modifies the client's state is alone: no callback of
\* Client.Do and no other such goroutine runs (client.go:324-332).
THEOREM Exclusion == Spec => []MutualExclusion
<1>1. LockInv => MutualExclusion
  BY DEF LockInv, WOwned, ReadersHoldW, MutualExclusion, Reading, Writing
<1> QED
  BY <1>1, LockInvariance, PTL

\* No unlock of an unlocked mutex, which would abort the process
\* (rpwmutex.go:17,26,33,35).
THEOREM UnlockSafety == Spec => []UnlocksWhatIsLocked
<1>1. LockInv => UnlocksWhatIsLocked
  BY DEF LockInv, ROwned, WOwned, HoldsR, ReadersHoldW,
         UnlocksWhatIsLocked, Writing
<1> QED
  BY <1>1, LockInvariance, PTL

\* Every step of the lock is a step of the atomic readers-writer lock, or
\* changes nothing of it.
LEMMA StepRefines == LockInv /\ [Next]_vars => [RW!Next]_<<Holding, Writing>>
<1> SUFFICES ASSUME LockInv, [Next]_vars
             PROVE  RW!Next \/ (Holding' = Holding /\ Writing' = Writing)
  OBVIOUS
<1> USE CallsAssumption DEF LockInv, TypeOK, Holding, Writing
<1>1. ASSUME NEW g \in Writers, LockCall(g)
      PROVE  Holding' = Holding /\ Writing' = Writing
  BY <1>1 DEF LockCall, Goto
<1>2. ASSUME NEW g \in Writers, Lock(g)
      PROVE  RW!AcquireWrite(g)
  <2>1. Holding = {} /\ Writing = {} /\ Holding' = Holding
    BY <1>2 DEF Lock, LockW, Goto, WOwned, ReadersHoldW
  <2>2. Writing' = {g}
    BY <1>2, <2>1 DEF Lock, LockW, Goto
  <2> QED
    BY <2>1, <2>2 DEF RW!AcquireWrite
<1>3. ASSUME NEW g \in Writers, Unlock(g)
      PROVE  RW!ReleaseWrite(g)
  BY <1>3, Zenon DEF Unlock, UnlockW, Goto, RW!ReleaseWrite
<1>4. ASSUME NEW c \in Calls,
             \/ DoCall(c) \/ RLockR(c) \/ RLockU(c) \/ DoReturn(c)
             \/ RUnlockR(c) \/ RUnlockW(c) \/ RUnlockU(c)
      PROVE  Holding' = Holding /\ Writing' = Writing
  BY <1>4 DEF DoCall, RLockR, RLockU, DoReturn, RUnlockR, RUnlockW, RUnlockU,
              LockR, UnlockR, UnlockW, Goto
<1>5. ASSUME NEW c \in Calls, RLockN(c)
      PROVE  RW!Next \/ (Holding' = Holding /\ Writing' = Writing)
  <2>1. CASE n' = 1
    BY <1>5, <2>1, Zenon DEF RLockN, Goto
  <2>2. CASE n' # 1
    <3>1. Writing = {}
      BY <1>5, <2>2, JoinsGroup, Zenon DEF WOwned, ReadersHoldW
    <3>2. RW!AcquireRead(c)
      BY <1>5, <2>2, <3>1, Zenon DEF RLockN, Goto, RW!AcquireRead
    <3> QED
      BY <3>2 DEF RW!Next
  <2> QED
    BY <2>1, <2>2
<1>6. ASSUME NEW c \in Calls, RLockW(c)
      PROVE  RW!AcquireRead(c)
  <2>1. Writing = {}
    BY <1>6 DEF RLockW, LockW, Goto, WOwned
  <2> QED
    BY <1>6, <2>1 DEF RLockW, LockW, Goto, RW!AcquireRead
<1>7. ASSUME NEW c \in Calls, RUnlockN(c)
      PROVE  RW!ReleaseRead(c)
  BY <1>7 DEF RUnlockN, Goto, RW!ReleaseRead
<1>8. CASE UNCHANGED vars
  BY <1>8 DEF vars
<1> QED
  BY <1>1, <1>2, <1>3, <1>4, <1>5, <1>6, <1>7, <1>8, Zenon
     DEF Next, RLock, RUnlock, RW!Next

\* rpwMutex implements the atomic readers-writer lock (rpwmutex.go:12-36).
THEOREM Refinement == Spec => ImplementsRwLock
<1>1. Init => RW!Init
  BY DEF Init, RW!Init, Holding, Writing
<1> QED
  BY <1>1, StepRefines, LockInvariance, PTL
     DEF Spec, ImplementsRwLock, RW!Spec, RW!rwVars

-----------------------------------------------------------------------------
(***************************************************************************)
(* The FFmpeg stream (FFmpegStream): types, the release of the command and *)
(* the source, and the number of process goroutines.                       *)
(***************************************************************************)

(***************************************************************************)
(* The release needs to know that no goroutine runs before the first Play: *)
(* its cleanup would take the WaitGroup below zero.                        *)
(***************************************************************************)
NoneBeforePlay == streamState = "Initial" => \A p \in Procs : proc[p] = "absent"

\* The inductive invariant.
StreamInv == StreamTypeOK /\ ReleasedOnce /\ NoneBeforePlay /\ OneForEachPause

(***************************************************************************)
(* Cleanup (stream.go:189), called on a stream that was started, leaves it *)
(* stopped with everything released.                                       *)
(***************************************************************************)
LEMMA CleanupReleases ==
  ASSUME StreamTypeOK, ReleasedOnce, streamState # "Initial", Cleanup
  PROVE  /\ streamState' = "Stopped"
         /\ cmd' \in {"none", "running", "exited", "waited"}
         /\ source' \in {"idle", "started", "done"}
         /\ wg' \in {0, 1}
         /\ ReleasedOnce'
BY DEF StreamTypeOK, ReleasedOnce, Cleanup

(***************************************************************************)
(* Every step keeps the types, the release and NoneBeforePlay: one step of *)
(* the proof per call, per step of process, and for the command.           *)
(***************************************************************************)
LEMMA ReleaseStep ==
  ASSUME StreamTypeOK, ReleasedOnce, NoneBeforePlay, [StreamNext]_streamVars
  PROVE  StreamTypeOK' /\ ReleasedOnce' /\ NoneBeforePlay'
<1> USE DEF StreamTypeOK, ReleasedOnce, NoneBeforePlay
<1>1. ASSUME NEW g \in Players, NEW p \in Procs, PlayPaused(g, p)
      PROVE  StreamTypeOK' /\ ReleasedOnce' /\ NoneBeforePlay'
  BY <1>1 DEF PlayPaused, Go
<1>2. ASSUME NEW g \in Players, NEW p \in Procs, PlayFresh(g, p)
      PROVE  StreamTypeOK' /\ ReleasedOnce' /\ NoneBeforePlay'
  BY <1>2 DEF PlayFresh, Go
<1>3. ASSUME NEW g \in Players, PlayFails(g)
      PROVE  StreamTypeOK' /\ ReleasedOnce' /\ NoneBeforePlay'
  BY <1>3, Zenon DEF PlayFails
<1>4. ASSUME NEW g \in Players, Pause(g)
      PROVE  StreamTypeOK' /\ ReleasedOnce' /\ NoneBeforePlay'
  BY <1>4 DEF Pause
<1>5. ASSUME NEW g \in Players, Stop(g)
      PROVE  StreamTypeOK' /\ ReleasedOnce' /\ NoneBeforePlay'
  BY <1>5, CleanupReleases DEF Stop
<1>6. ASSUME NEW g \in Players, Wait(g) \/ WaitReturns(g)
      PROVE  StreamTypeOK' /\ ReleasedOnce' /\ NoneBeforePlay'
  BY <1>6 DEF Wait, WaitReturns
<1>7. ASSUME NEW p \in Procs, ProcStarts(p) \/ ProcTicks(p) \/ ProcReads(p) \/ ProcFails(p)
      PROVE  StreamTypeOK' /\ ReleasedOnce' /\ NoneBeforePlay'
  BY <1>7, Zenon DEF ProcStarts, ProcTicks, ProcReads, ProcFails
<1>8. ASSUME NEW p \in Procs, ProcCleans(p)
      PROVE  StreamTypeOK' /\ ReleasedOnce' /\ NoneBeforePlay'
  <2>1. streamState # "Initial" BY <1>8 DEF ProcCleans
  <2> QED BY <1>8, <2>1, CleanupReleases DEF ProcCleans
<1>9. ASSUME NEW p \in Procs, ProcReturns(p)
      PROVE  StreamTypeOK' /\ ReleasedOnce' /\ NoneBeforePlay'
  BY <1>9 DEF ProcReturns
<1>10. ASSUME NEW p \in Procs, NEW g \in Players, ProcPaused(p, g)
       PROVE  StreamTypeOK' /\ ReleasedOnce' /\ NoneBeforePlay'
  BY <1>10 DEF ProcPaused
<1>11. CASE CmdExits
  BY <1>11, Zenon DEF CmdExits
<1>12. CASE UNCHANGED streamVars
  BY <1>12 DEF streamVars
<1> QED
  BY <1>1, <1>2, <1>3, <1>4, <1>5, <1>6, <1>7, <1>8, <1>9, <1>10, <1>11, <1>12, ZenonT(30)
  DEF StreamNext, ProcNext

(***************************************************************************)
(* The sets that OneForEachPause counts are finite.                        *)
(***************************************************************************)
LEMMA CountedAreFinite ==
  /\ IsFiniteSet(Live) /\ Cardinality(Live) \in Nat
  /\ IsFiniteSet(Pausing) /\ Cardinality(Pausing) \in Nat
<1>1. Live \subseteq Procs /\ Pausing \subseteq Players
  BY DEF Live, Pausing
<1> QED BY <1>1, FS_Subset, FS_CardinalityType, FiniteAssumption

(***************************************************************************)
(* A Play that starts or resumes the stream adds one goroutine and makes   *)
(* the stream play (stream.go:72 and 106).                                 *)
(***************************************************************************)
LEMMA PlayCounts ==
  ASSUME StreamTypeOK, OneForEachPause, NEW p \in Procs, Go(p), UNCHANGED streamCall,
         streamState \in {"Initial", "Paused"}, streamState' = "Playing"
  PROVE  OneForEachPause'
<1>1. p \notin Live BY DEF Go, Live
<1>2. Live' = Live \cup {p} BY DEF Go, Live, StreamTypeOK
<1>3. Pausing' = Pausing BY DEF Pausing
<1>4. Cardinality(Live') = Cardinality(Live) + 1
  BY <1>1, <1>2, CountedAreFinite, FS_AddElement, Zenon
<1> QED BY <1>3, <1>4, CountedAreFinite DEF OneForEachPause

(***************************************************************************)
(* Every step keeps the count: Pause trades the goroutine that plays for   *)
(* a caller that waits, and a token that is taken ends one of each.        *)
(***************************************************************************)
LEMMA CountStep ==
  ASSUME StreamInv, [StreamNext]_streamVars
  PROVE  OneForEachPause'
<1> USE DEF StreamInv
<1>1. ASSUME NEW g \in Players, NEW p \in Procs, PlayPaused(g, p)
      PROVE  OneForEachPause'
  BY <1>1, PlayCounts DEF PlayPaused
<1>2. ASSUME NEW g \in Players, NEW p \in Procs, PlayFresh(g, p)
      PROVE  OneForEachPause'
  BY <1>2, PlayCounts DEF PlayFresh
<1>3. ASSUME Live' = Live, Pausing' = Pausing, streamState' = streamState
      PROVE  OneForEachPause'
  BY <1>3 DEF OneForEachPause
<1>4. ASSUME NEW g \in Players, Pause(g)
      PROVE  OneForEachPause'
  <2>1. Live' = Live BY <1>4 DEF Pause, Live
  <2>2. g \notin Pausing /\ Pausing' = Pausing \cup {g}
    BY <1>4 DEF Pause, Pausing, StreamTypeOK
  <2>3. Cardinality(Pausing') = Cardinality(Pausing) + 1
    BY <2>2, CountedAreFinite, FS_AddElement, Zenon
  <2> QED BY <1>4, <2>1, <2>3, CountedAreFinite DEF Pause, OneForEachPause
<1>5. ASSUME NEW g \in Players, Stop(g)
      PROVE  OneForEachPause'
  BY <1>5, CleanupReleases DEF Stop, OneForEachPause
<1>6. ASSUME NEW g \in Players, PlayFails(g) \/ Wait(g) \/ WaitReturns(g)
      PROVE  OneForEachPause'
  <2>1. Live' = Live /\ Pausing' = Pausing /\ streamState' = streamState
    BY <1>6, Zenon DEF PlayFails, Wait, WaitReturns, Live, Pausing, StreamTypeOK
  <2> QED BY <1>3, <2>1, Zenon
<1>7. ASSUME NEW p \in Procs,
             ProcStarts(p) \/ ProcTicks(p) \/ ProcReads(p) \/ ProcFails(p) \/ ProcReturns(p)
      PROVE  OneForEachPause'
  <2>1. Live' = Live /\ Pausing' = Pausing /\ streamState' = streamState
    BY <1>7
       DEF ProcStarts, ProcTicks, ProcReads, ProcFails, ProcReturns, Live, Pausing,
           StreamTypeOK
  <2> QED BY <1>3, <2>1
<1>8. ASSUME NEW p \in Procs, ProcCleans(p)
      PROVE  OneForEachPause'
  <2>1. streamState # "Initial" BY <1>8 DEF ProcCleans, NoneBeforePlay
  <2> QED BY <1>8, <2>1, CleanupReleases DEF ProcCleans, OneForEachPause
<1>9. ASSUME NEW p \in Procs, NEW g \in Players, ProcPaused(p, g)
      PROVE  OneForEachPause'
  <2>1. p \in Live /\ Live' = Live \ {p}
    BY <1>9 DEF ProcPaused, Live, StreamTypeOK
  <2>2. g \in Pausing /\ Pausing' = Pausing \ {g}
    BY <1>9 DEF ProcPaused, Pausing, StreamTypeOK
  <2>3. /\ Cardinality(Live') = Cardinality(Live) - 1
        /\ Cardinality(Pausing') = Cardinality(Pausing) - 1
    BY <2>1, <2>2, CountedAreFinite, FS_RemoveElement, Zenon
  <2> QED BY <1>9, <2>3, CountedAreFinite DEF ProcPaused, OneForEachPause
<1>10. CASE CmdExits \/ UNCHANGED streamVars
  <2>1. Live' = Live /\ Pausing' = Pausing /\ streamState' = streamState
    BY <1>10 DEF CmdExits, streamVars, Live, Pausing
  <2> QED BY <1>3, <2>1
<1> QED
  BY <1>1, <1>2, <1>4, <1>5, <1>6, <1>7, <1>8, <1>9, <1>10, Zenon DEF StreamNext, ProcNext

(***************************************************************************)
(* A new stream (stream.go:54) satisfies the invariant.                    *)
(***************************************************************************)
LEMMA StreamInvInit == StreamInit => StreamInv
<1> SUFFICES ASSUME StreamInit PROVE StreamInv OBVIOUS
<1>1. StreamTypeOK /\ ReleasedOnce /\ NoneBeforePlay
  BY DEF StreamInit, StreamTypeOK, ReleasedOnce, NoneBeforePlay
<1>2. Live = {} /\ Pausing = {} BY DEF StreamInit, Live, Pausing
<1> QED BY <1>1, <1>2, FS_EmptySet DEF StreamInv, StreamInit, OneForEachPause

(***************************************************************************)
(* The invariant holds in every reachable state, for any callers and any   *)
(* number of process goroutines.                                           *)
(***************************************************************************)
THEOREM StreamInvariance == StreamSpec => []StreamInv
<1>1. StreamInv /\ [StreamNext]_streamVars => StreamInv'
  BY ReleaseStep, CountStep DEF StreamInv
<1> QED BY StreamInvInit, <1>1, PTL DEF StreamSpec

(***************************************************************************)
(* Type correctness; the counter of the WaitGroup is zero or one.          *)
(***************************************************************************)
THEOREM StreamTypes == StreamSpec => []StreamTypeOK
<1>1. StreamInv => StreamTypeOK BY DEF StreamInv
<1> QED BY StreamInvariance, <1>1, PTL

(***************************************************************************)
(* The command and the source are released exactly once (stream.go:192).   *)
(***************************************************************************)
THEOREM StreamReleased == StreamSpec => []ReleasedOnce
<1>1. StreamInv => ReleasedOnce BY DEF StreamInv
<1> QED BY StreamInvariance, <1>1, PTL

(***************************************************************************)
(* Until the stream is stopped, a process goroutine is left for each       *)
(* caller in Pause and for the playback (stream.go:125-127).               *)
(***************************************************************************)
THEOREM PauseCount == StreamSpec => []OneForEachPause
<1>1. StreamInv => OneForEachPause BY DEF StreamInv
<1> QED BY StreamInvariance, <1>1, PTL
=============================================================================
