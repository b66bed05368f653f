-------------------------- MODULE ConnectionProofs --------------------------
(***************************************************************************)
(* Connection implements PacketLog, for any writers and messages: the      *)
(* initial states are initial states of PacketLog, and every step is a     *)
(* step of PacketLog or a stutter.                                         *)
(*                                                                         *)
(* The history of the messages that are complete on the wire is the log.   *)
(* What a step keeps is where they are on the wire (Layout), that at most  *)
(* a part of one more packet is after them (Tailing), and that the read    *)
(* routine is at the beginning of a packet or after its header (Reading).  *)
(* That a part of a packet is never followed by another writer's needs the *)
(* mutex (Holding).                                                        *)
(***************************************************************************)
EXTENDS Connection, SequenceTheorems, TLAPS

\* What is on the wire: headers and units of content.
Units == Nat \cup [type : Nat, length : Nat]

\* Nil is no writer, message or header.
NilIsNone ==
  Nil \notin Writers /\ \A m \in AllMessages : Nil \notin {m, Seen(m), Header(m)}

\* The types of the variables.
ConnTypes ==
  /\ mutex \in Writers \cup {Nil}
  /\ writing \in [Writers -> AllMessages \cup {Nil}] /\ next \in [Writers -> Nat]
  /\ wire \in Seq(Units) /\ buffer \in Seq(Units) /\ taken \in Nat
  /\ log \in Seq(AllMessages) /\ broken \in BOOLEAN
  /\ got \in Seq({Seen(m) : m \in AllMessages})

\* A writer that has begun holds the mutex (conn.go:87-88, 117-118).
Holding ==
  /\ \A w \in Writers : next[w] > 0 => mutex = w /\ writing[w] # Nil
                                       /\ next[w] <= Writes(writing[w]) + 1
  /\ mutex # Nil => next[mutex] > 0

\* The packets of the log lie one after the other on the wire, the k-th from
\* start[k] on.
Layout(start) ==
  /\ start \in [1..(Len(log) + 1) -> Nat] /\ start[1] = 0
  /\ \A k \in 1..Len(log) :
       /\ start[k + 1] = start[k] + Len(Frame(log[k])) /\ start[k + 1] <= Len(wire)
       /\ \A i \in 1..Len(Frame(log[k])) : wire[start[k] + i] = Frame(log[k])[i]

\* After e the wire has the first n units of the packet of m, and no more.
Rest(m, n, e) ==
  Len(wire) = e + n /\ \A i \in 1..n : wire[e + i] = Frame(m)[i]

\* After the log, which ends at e, the wire has at most a part of one packet;
\* while the connection works, it is of the writer that holds the mutex, and
\* as much as it has written.
Tailing(e) ==
  /\ Len(wire) # e =>
       \E m \in AllMessages, n \in Nat : n < Len(Frame(m)) /\ Rest(m, n, e)
  /\ ~broken =>
       IF mutex = Nil \/ Complete(writing[mutex], next[mutex])
       THEN Len(wire) = e
       ELSE Rest(writing[mutex], Out(writing[mutex], next[mutex] - 1), e)

\* What was handed to handlers is the beginning of the log, and the read
\* routine is at the next packet, or after its header.
Reading(start) ==
  LET j == Len(got) IN
  /\ j <= Len(log) /\ \A i \in 1..j : got[i] = Seen(log[i])
  /\ IF header = Nil THEN taken = start[j + 1]
     ELSE taken = start[j + 1] + 1 /\ taken <= Len(wire) /\ header = wire[taken]

\* The inductive invariant: the wire is the log and at most one part of a
\* packet.
ConnInv ==
  /\ ConnTypes /\ Holding
  /\ \E start \in [1..(Len(log) + 1) -> Nat] :
       Layout(start) /\ Tailing(start[Len(log) + 1]) /\ Reading(start)

\* The handler of a type is the one of that type (handlers.go:25-52,
\* conn.go:139-200).
LEMMA OwnHandler ==
  ASSUME NEW i \in DOMAIN handlers
  PROVE  ProtoType(handlers[i]) = i - 1 /\ i \in Nat
BY DEF handlers, ProtoType

\* The packet of a message: its header, and its content after it.
LEMMA FrameOf ==
  ASSUME MessagesAreWritten, NEW m \in AllMessages
  PROVE  /\ Len(m.data) \in Nat /\ m.data \in Seq(Units)
         /\ Header(m) \in [type : Nat, length : Nat] /\ Header(m).length = Len(m.data)
         /\ handlers[Header(m).type + 1] = m.kind
         /\ Frame(m) \in Seq(Units) /\ Len(Frame(m)) = 1 + Len(m.data)
         /\ Len(Frame(m)) \in Nat /\ Frame(m)[1] = Header(m)
         /\ \A i \in 1..Len(m.data) : Frame(m)[1 + i] = m.data[i]
<1>1. /\ m.kind \in {handlers[i] : i \in DOMAIN handlers} /\ m.data \in Seq(Nat)
      /\ Len(m.data) \in Nat
  BY DEF MessagesAreWritten
<1>2. ProtoType(m.kind) \in Nat /\ handlers[ProtoType(m.kind) + 1] = m.kind
  <2>1. PICK i \in DOMAIN handlers : m.kind = handlers[i] BY <1>1
  <2>2. i \in 1..26 BY DEF handlers
  <2> QED BY <2>1, <2>2, OwnHandler
<1>3. /\ Header(m) \in [type : Nat, length : Nat] /\ Header(m).length = Len(m.data)
      /\ Header(m).type = ProtoType(m.kind)
  BY <1>1, <1>2 DEF Header
<1>4. <<Header(m)>> \in Seq(Units) /\ Len(<<Header(m)>>) = 1 /\ m.data \in Seq(Units)
      /\ <<Header(m)>>[1] = Header(m)
  BY <1>1, <1>3 DEF Units
<1>5. /\ Frame(m) \in Seq(Units) /\ Len(Frame(m)) = 1 + Len(m.data)
      /\ Frame(m)[1] = Header(m)
      /\ \A i \in 1..Len(m.data) : Frame(m)[1 + i] = m.data[i]
  BY <1>1, <1>4, ConcatProperties DEF Frame
<1> QED BY <1>1, <1>2, <1>3, <1>4, <1>5

\* The Writes of a message go through its packet, and to its end.
LEMMA OutOf ==
  ASSUME MessagesAreWritten, NEW m \in AllMessages
  PROVE  /\ Writes(m) \in Nat
         /\ Out(m, 0) = 0 /\ ~Complete(m, 1) /\ Complete(m, Writes(m) + 1)
         /\ \A k \in 1..Writes(m) :
              /\ Out(m, k - 1) \in Nat /\ Out(m, k) \in Nat
              /\ Out(m, k - 1) <= Out(m, k) /\ Out(m, k) <= Len(Frame(m))
<1>1. /\ m.data \in Seq(Nat) /\ m.ends \in Seq(0..Len(m.data)) /\ m.ends # <<>>
      /\ m.ends[Len(m.ends)] = Len(m.data)
      /\ \A i \in 1..(Len(m.ends) - 1) : m.ends[i] <= m.ends[i + 1]
  BY DEF MessagesAreWritten
<1>2. Len(m.ends) \in Nat \ {0} /\ Len(m.data) \in Nat BY <1>1
<1>3. Len(Frame(m)) = 1 + Len(m.data) BY FrameOf
<1>4. Out(m, 0) = 0 /\ Out(m, 1) = 1 /\ \A k \in Nat : k > 1 => Out(m, k) = 1 + m.ends[k - 1]
  BY DEF Out
<1>5. Writes(m) = 1 + Len(m.ends) BY DEF Writes
<1>6. \A i \in 1..Len(m.ends) : m.ends[i] \in 0..Len(m.data) BY <1>1
<1>7. ~Complete(m, 1) /\ Complete(m, Writes(m) + 1)
  BY <1>1, <1>2, <1>3, <1>4, <1>5 DEF Complete
<1>8. ASSUME NEW k \in 1..Writes(m)
      PROVE  /\ Out(m, k - 1) \in Nat /\ Out(m, k) \in Nat
             /\ Out(m, k - 1) <= Out(m, k) /\ Out(m, k) <= Len(Frame(m))
  <2>1. CASE k = 1 BY <1>2, <1>3, <1>4, <2>1
  <2>2. CASE k = 2
    <3>1. m.ends[1] \in 0..Len(m.data) BY <1>2, <1>6
    <3> QED BY <1>2, <1>3, <1>4, <2>2, <3>1
  <2>3. CASE k > 2
    <3>1. /\ k - 1 \in 1..Len(m.ends) /\ k - 2 \in 1..(Len(m.ends) - 1) /\ k - 2 \in 1..Len(m.ends)
          /\ (k - 2) + 1 = k - 1
      BY <1>2, <1>5, <2>3
    <3>2. m.ends[k - 2] <= m.ends[k - 1] /\ m.ends[k - 1] \in 0..Len(m.data)
          /\ m.ends[k - 2] \in 0..Len(m.data)
      BY <1>1, <1>6, <3>1
    <3>3. Out(m, k) = 1 + m.ends[k - 1] /\ Out(m, k - 1) = 1 + m.ends[k - 2]
      <4>1. (k - 1) - 1 = k - 2 /\ k - 1 \in Nat /\ k - 1 > 1 BY <2>3, <1>2, <1>5
      <4> QED BY <1>4, <2>3, <4>1, <1>2, <1>5
    <3>4. PICK x \in Nat, y \in Nat : x = m.ends[k - 2] /\ y = m.ends[k - 1]
      BY <3>2, <1>2
    <3>5. x <= y /\ y <= Len(m.data) BY <3>2, <3>4, <1>2
    <3>6. Out(m, k) = 1 + y /\ Out(m, k - 1) = 1 + x BY <3>3, <3>4
    <3> QED BY <1>2, <1>3, <3>5, <3>6
  <2> QED BY <2>1, <2>2, <2>3, <1>2, <1>5
<1> QED BY <1>2, <1>4, <1>5, <1>7, <1>8

\* A sequence to which a part of another one is added.
LEMMA Extended ==
  ASSUME NEW S, NEW s \in Seq(S), NEW t \in Seq(S), NEW a \in Nat, NEW b \in Nat,
         a <= b, b <= Len(t)
  PROVE  LET r == s \o SubSeq(t, a + 1, b) IN
         /\ r \in Seq(S) /\ Len(r) = Len(s) + (b - a) /\ Len(s) \in Nat
         /\ \A i \in 1..Len(s) : r[i] = s[i]
         /\ \A i \in 1..(b - a) : r[Len(s) + i] = t[a + i]
<1> DEFINE u == SubSeq(t, a + 1, b)
<1>1. u \in Seq(S) /\ Len(u) = b - a /\ \A i \in 1..(b - a) : u[i] = t[a + i]
  BY SubSeqProperties
<1> HIDE DEF u
<1>2. /\ s \o u \in Seq(S) /\ Len(s \o u) = Len(s) + (b - a) /\ Len(s) \in Nat
      /\ \A i \in 1..Len(s) : (s \o u)[i] = s[i]
      /\ \A i \in 1..(b - a) : (s \o u)[Len(s) + i] = u[i]
  <2>1. /\ s \o u \in Seq(S) /\ Len(s \o u) = Len(s) + (b - a) /\ Len(s) \in Nat
        /\ \A i \in 1..(Len(s) + (b - a)) :
             (s \o u)[i] = IF i <= Len(s) THEN s[i] ELSE u[i - Len(s)]
    <3>1. /\ s \o u \in Seq(S) /\ Len(s \o u) = Len(s) + Len(u)
          /\ \A i \in 1..(Len(s) + Len(u)) :
               (s \o u)[i] = IF i <= Len(s) THEN s[i] ELSE u[i - Len(s)]
      BY ONLY <1>1, s \in Seq(S), ConcatProperties, Zenon
    <3>2. Len(s) \in Nat OBVIOUS
    <3> QED BY ONLY <1>1, <3>1, <3>2
  <2>2. ASSUME NEW i \in 1..Len(s) PROVE (s \o u)[i] = s[i]
    <3>1. i \in 1..(Len(s) + (b - a)) /\ i <= Len(s) BY <2>1
    <3> QED BY <2>1, <3>1
  <2>3. ASSUME NEW i \in 1..(b - a) PROVE (s \o u)[Len(s) + i] = u[i]
    <3>1. /\ Len(s) + i \in 1..(Len(s) + (b - a)) /\ ~(Len(s) + i <= Len(s))
          /\ (Len(s) + i) - Len(s) = i
      BY <2>1
    <3> QED BY <2>1, <3>1
  <2> QED BY <2>1, <2>2, <2>3
<1>3. \A i \in 1..(b - a) : (s \o u)[Len(s) + i] = t[a + i] BY <1>1, <1>2
<1> QED BY <1>2, <1>3, Zenon DEF u

\* What is on the wire stays where it is when more is written.
LEMMA LayoutKept ==
  ASSUME ConnTypes, MessagesAreWritten, NEW start, Layout(start), Reading(start),
         wire' \in Seq(Units), Len(wire) <= Len(wire'), UNCHANGED <<log, readVars>>,
         \A i \in 1..Len(wire) : wire'[i] = wire[i]
  PROVE  Layout(start)' /\ Reading(start)'
<1>1. /\ Len(log) \in Nat /\ Len(wire) \in Nat /\ Len(wire') \in Nat /\ taken \in Nat
      /\ log' = log /\ header' = header /\ taken' = taken /\ got' = got
      /\ start \in [1..(Len(log) + 1) -> Nat] /\ start[1] = 0
  BY DEF ConnTypes, Layout, readVars
<1>2. ASSUME NEW k \in 1..Len(log)
      PROVE  /\ start[k + 1] = start[k] + Len(Frame(log[k])) /\ start[k + 1] <= Len(wire')
             /\ \A i \in 1..Len(Frame(log[k])) : wire'[start[k] + i] = Frame(log[k])[i]
  <2>1. /\ start[k + 1] = start[k] + Len(Frame(log[k])) /\ start[k + 1] <= Len(wire)
        /\ \A i \in 1..Len(Frame(log[k])) : wire[start[k] + i] = Frame(log[k])[i]
    BY Zenon DEF Layout
  <2>2. log[k] \in AllMessages BY DEF ConnTypes
  <2>3. Len(Frame(log[k])) \in Nat BY <2>2, FrameOf
  <2>4. start[k] \in Nat /\ start[k + 1] \in Nat BY ONLY <1>1, k \in 1..Len(log)
  <2>5. \A i \in 1..Len(Frame(log[k])) : start[k] + i \in 1..Len(wire)
    BY ONLY <2>1, <2>3, <2>4, <1>1
  <2>6. start[k + 1] <= Len(wire') BY ONLY <2>1, <2>4, <1>1, Len(wire) <= Len(wire')
  <2> QED BY <2>1, <2>5, <2>6
<1>3. Layout(start)' BY ONLY <1>1, <1>2 DEF Layout
<1>4. Reading(start)'
  <2>1. header # Nil => taken \in 1..Len(wire)
    <3>1. Len(got) + 1 \in 1..(Len(log) + 1) BY <1>1 DEF Reading, ConnTypes
    <3>2. start[Len(got) + 1] \in Nat BY <1>1, <3>1
    <3> QED BY <1>1, <3>2 DEF Reading
  <2> QED BY <1>1, <2>1 DEF Reading
<1> QED BY <1>3, <1>4

\* Where a packet of the log, or the part after it, begins is the header of a
\* message; after the log its content is not complete.
LEMMA NextIsHeader ==
  ASSUME ConnTypes, MessagesAreWritten, NEW start, Layout(start),
         Tailing(start[Len(log) + 1]),
         NEW j \in 0..Len(log), start[j + 1] < Len(wire)
  PROVE  \E m \in AllMessages :
           /\ wire[start[j + 1] + 1] = Header(m)
           /\ j < Len(log) => m = log[j + 1]
           /\ j = Len(log) => Len(wire) < start[j + 1] + Len(Frame(m))
<1>1. Len(log) \in Nat /\ Len(wire) \in Nat /\ start[j + 1] \in Nat
  BY DEF ConnTypes, Layout
<1>2. CASE j < Len(log)
  <2>1. j + 1 \in 1..Len(log) /\ log[j + 1] \in AllMessages
    BY <1>1, <1>2 DEF ConnTypes
  <2>2. 1 \in 1..Len(Frame(log[j + 1])) /\ Frame(log[j + 1])[1] = Header(log[j + 1])
    <3>1. PICK m \in AllMessages : m = log[j + 1] BY <2>1
    <3>2. Len(m.data) \in Nat /\ Len(Frame(m)) = 1 + Len(m.data) /\ Frame(m)[1] = Header(m)
      BY FrameOf
    <3> QED BY ONLY <3>1, <3>2
  <2>3. wire[start[j + 1] + 1] = Header(log[j + 1]) BY <2>1, <2>2 DEF Layout
  <2> QED BY <1>2, <2>1, <2>3
<1>3. CASE j = Len(log)
  <2>1. PICK m \in AllMessages, n \in Nat :
          n < Len(Frame(m)) /\ Rest(m, n, start[j + 1])
    BY <1>1, <1>3 DEF Tailing
  <2>2. 1 \in 1..n BY <1>1, <2>1 DEF Rest
  <2>3. wire[start[j + 1] + 1] = Header(m) BY <2>1, <2>2, FrameOf, Zenon DEF Rest
  <2>4. Len(wire) < start[j + 1] + Len(Frame(m))
    <3>1. Len(Frame(m)) \in Nat BY FrameOf
    <3> QED BY <1>1, <2>1, <3>1 DEF Rest
  <2> QED BY <1>3, <2>3, <2>4
<1> QED BY <1>1, <1>2, <1>3

\* A Write adds the next part of the packet.
LEMMA RestGrows ==
  ASSUME ConnTypes, MessagesAreWritten, NEW m \in AllMessages, NEW e \in Nat,
         NEW a \in Nat, NEW b \in Nat, a <= b, b <= Len(Frame(m)),
         wire' = wire \o SubSeq(Frame(m), a + 1, b)
  PROVE  /\ wire' \in Seq(Units) /\ Len(wire') = Len(wire) + (b - a) /\ Len(wire) <= Len(wire')
         /\ \A i \in 1..Len(wire) : wire'[i] = wire[i]
         /\ Rest(m, a, e) => Rest(m, b, e)'
<1>0. wire \in Seq(Units) /\ Frame(m) \in Seq(Units) BY FrameOf DEF ConnTypes
<1>1. /\ wire' \in Seq(Units) /\ Len(wire') = Len(wire) + (b - a) /\ Len(wire) \in Nat
      /\ \A i \in 1..Len(wire) : wire'[i] = wire[i]
      /\ \A i \in 1..(b - a) : wire'[Len(wire) + i] = Frame(m)[a + i]
  BY <1>0, Extended
<1>2. ASSUME Rest(m, a, e) PROVE Rest(m, b, e)'
  <2>1. Len(wire) = e + a /\ \A i \in 1..a : wire[e + i] = Frame(m)[i]
    BY <1>2 DEF Rest
  <2>2. ASSUME NEW i \in 1..b PROVE wire'[e + i] = Frame(m)[i]
    <3>1. CASE i <= a
      <4>1. e + i \in 1..Len(wire) /\ i \in 1..a BY <2>1, <3>1
      <4> QED BY <1>1, <2>1, <4>1
    <3>2. CASE i > a
      <4>1. i - a \in 1..(b - a) /\ Len(wire) + (i - a) = e + i /\ a + (i - a) = i
        BY <2>1, <3>2
      <4> QED BY <1>1, <4>1, Zenon
    <3> QED BY ONLY <3>1, <3>2, i \in 1..b, a \in Nat, b \in Nat
  <2>3. Len(wire') = e + b BY ONLY <1>1, <2>1, a \in Nat, b \in Nat, e \in Nat
  <2> QED BY <2>2, <2>3, Zenon DEF Rest
<1> QED BY <1>1, <1>2

\* A packet that is complete on the wire is the next of the log.
LEMMA LogGrows ==
  ASSUME ConnTypes, MessagesAreWritten, NEW start, Layout(start), Reading(start),
         NEW m \in AllMessages, log' = Append(log, m),
         wire' \in Seq(Units), Len(wire) <= Len(wire'), UNCHANGED readVars,
         \A i \in 1..Len(wire) : wire'[i] = wire[i],
         NEW e \in Nat, e = start[Len(log) + 1], Rest(m, Len(Frame(m)), e)'
  PROVE  \E new \in [1..(Len(log') + 1) -> Nat] :
           Layout(new)' /\ Reading(new)' /\ Len(wire') = new[Len(log') + 1]
<1>0. PICK n \in Nat : n = Len(log) BY DEF ConnTypes
<1>1. /\ Len(wire) \in Nat /\ Len(wire') \in Nat /\ Len(wire) <= Len(wire') /\ taken \in Nat
      /\ e \in Nat /\ e = start[n + 1] /\ n \in Nat
      /\ header' = header /\ taken' = taken /\ got' = got
      /\ start \in [1..(n + 1) -> Nat] /\ start[1] = 0
      /\ \A i \in 1..Len(wire) : wire'[i] = wire[i]
  BY <1>0 DEF ConnTypes, Layout, readVars
<1>2. /\ Len(log') = n + 1 /\ log'[n + 1] = m /\ \A k \in 1..n : log'[k] = log[k]
  BY <1>0 DEF ConnTypes
<1>3. /\ Len(Frame(m)) \in Nat /\ Len(wire') = e + Len(Frame(m))
      /\ \A i \in 1..Len(Frame(m)) : wire'[e + i] = Frame(m)[i]
  BY FrameOf DEF Rest
<1>4. PICK new : new = [k \in 1..(n + 2) |-> IF k = n + 2 THEN e + Len(Frame(m)) ELSE start[k]]
  BY Zenon
<1>5. /\ new \in [1..(n + 2) -> Nat] /\ new[n + 2] = e + Len(Frame(m))
      /\ \A k \in 1..(n + 1) : new[k] = start[k]
  BY <1>1, <1>3, <1>4
<1>6. ASSUME NEW k \in 1..(n + 1)
      PROVE  /\ new[k + 1] = new[k] + Len(Frame(log'[k])) /\ new[k + 1] <= Len(wire')
             /\ \A i \in 1..Len(Frame(log'[k])) : wire'[new[k] + i] = Frame(log'[k])[i]
  <2>1. CASE k = n + 1
    <3>1. new[k] = e /\ new[k + 1] = e + Len(Frame(m)) /\ log'[k] = m
      BY ONLY <1>1, <1>2, <1>5, <2>1
    <3> QED BY ONLY <1>3, <3>1
  <2>2. CASE k \in 1..n
    <3>1. /\ start[k + 1] = start[k] + Len(Frame(log[k])) /\ start[k + 1] <= Len(wire)
          /\ \A i \in 1..Len(Frame(log[k])) : wire[start[k] + i] = Frame(log[k])[i]
      BY <1>0, <2>2, Zenon DEF Layout
    <3>2. log[k] \in AllMessages BY <1>0, <2>2 DEF ConnTypes
    <3>3. Len(Frame(log[k])) \in Nat BY <3>2, FrameOf
    <3>4. /\ start[k] \in Nat /\ start[k + 1] \in Nat
          /\ new[k] = start[k] /\ new[k + 1] = start[k + 1]
      BY ONLY <1>1, <1>5, <2>2
    <3>5. \A i \in 1..Len(Frame(log[k])) : start[k] + i \in 1..Len(wire)
      BY ONLY <1>1, <3>1, <3>3, <3>4
    <3>6. log'[k] = log[k] BY ONLY <1>2, <2>2
    <3>7. new[k + 1] <= Len(wire') BY ONLY <1>1, <3>1, <3>4
    <3> QED BY ONLY <1>1, <3>1, <3>4, <3>5, <3>6, <3>7, Zenon
  <2> QED BY ONLY <1>1, <2>1, <2>2, k \in 1..(n + 1)
<1>7. Layout(new)'
  <2>1. /\ new \in [1..(Len(log') + 1) -> Nat] /\ new[1] = 0
    BY ONLY <1>1, <1>2, <1>5
  <2> QED BY ONLY <1>2, <1>6, <2>1 DEF Layout
<1>8. Reading(new)'
  <2>1. /\ Len(got) \in Nat /\ Len(got) <= n /\ \A i \in 1..Len(got) : got[i] = Seen(log[i])
        /\ new[Len(got) + 1] = start[Len(got) + 1] /\ start[Len(got) + 1] \in Nat
    <3>1. Len(got) \in Nat /\ Len(got) <= n /\ \A i \in 1..Len(got) : got[i] = Seen(log[i])
      BY <1>0 DEF Reading, ConnTypes
    <3> QED BY ONLY <1>1, <1>5, <3>1
  <2>2. header # Nil => taken \in 1..Len(wire) BY <1>1, <2>1 DEF Reading
  <2>3. \A i \in 1..Len(got) : got[i] = Seen(log'[i])
    <3>1. \A i \in 1..Len(got) : i \in 1..n BY ONLY <1>1, <2>1
    <3> QED BY ONLY <1>2, <2>1, <3>1
  <2>4. IF header = Nil THEN taken = new[Len(got) + 1]
        ELSE taken = new[Len(got) + 1] + 1 /\ taken <= Len(wire') /\ header = wire'[taken]
    BY <1>1, <2>1, <2>2 DEF Reading
  <2>5. Len(got) <= Len(log') BY ONLY <1>1, <1>2, <2>1
  <2> QED BY ONLY <1>1, <2>3, <2>4, <2>5 DEF Reading
<1>9. new \in [1..(Len(log') + 1) -> Nat] /\ Len(wire') = new[Len(log') + 1]
  BY ONLY <1>1, <1>2, <1>3, <1>5
<1> QED BY ONLY <1>7, <1>8, <1>9

\* A step that leaves the wire, the log and the read routine alone.
LEMMA InvKept ==
  ASSUME ConnInv, MessagesAreWritten, ConnTypes', Holding', UNCHANGED <<wire, log, readVars>>,
         \A e \in Nat : Tailing(e) => Tailing(e)'
  PROVE  ConnInv'
<1>1. PICK start \in [1..(Len(log) + 1) -> Nat] :
        Layout(start) /\ Tailing(start[Len(log) + 1]) /\ Reading(start)
  BY DEF ConnInv
<1>2. Len(log) \in Nat /\ log' = log BY DEF ConnInv, ConnTypes
<1>3. start[Len(log) + 1] \in Nat BY <1>1, <1>2
<1>4. Layout(start)' BY <1>1 DEF Layout
<1>5. Reading(start)' BY <1>1 DEF Reading, readVars
<1>6. PICK e \in Nat : e = start[Len(log) + 1] BY <1>3
<1>7. Tailing(e)' BY <1>1, <1>6
<1>8. e = start[Len(log') + 1] BY <1>2, <1>6
<1> QED BY <1>1, <1>2, <1>4, <1>5, <1>7, <1>8 DEF ConnInv

\* The invariant holds at first, and the initial states are some of
\* PacketLog.
LEMMA ConnInit ==
  ASSUME MessagesAreWritten, Init
  PROVE  ConnInv /\ Packets!Init
<1>1. ConnTypes
  <2>1. \A S : <<>> \in Seq(S) OBVIOUS
  <2> QED BY <2>1, Zenon DEF Init, ConnTypes
<1>10. Holding BY DEF Init, Holding
<1>2. PICK start : start = [k \in 1..1 |-> 0] BY Zenon
<1>3. Len(log) = 0 /\ Len(wire) = 0 /\ Len(got) = 0 BY DEF Init
<1>4. start \in [1..(Len(log) + 1) -> Nat] /\ start[Len(log) + 1] = 0 /\ start[1] = 0
  BY <1>2, <1>3
<1>5. Layout(start) BY <1>3, <1>4 DEF Layout
<1>6. Tailing(0) BY <1>3 DEF Tailing, Init
<1>7. Reading(start) BY <1>3, <1>4 DEF Reading, Init
<1>8. Packets!Init BY DEF Packets!Init, Init
<1> QED BY <1>1, <1>4, <1>5, <1>6, <1>7, <1>8, <1>10 DEF ConnInv

\* A call is a call.
LEMMA CallStep ==
  ASSUME MessagesAreWritten, NilIsNone, ConnInv,
         NEW w \in Writers, NEW m \in Messages[w], Call(w, m)
  PROVE  ConnInv' /\ Packets!Next
<1>1. m \in AllMessages /\ m # Nil BY DEF AllMessages, NilIsNone
<1>2. ConnTypes /\ Holding BY DEF ConnInv
<1>3. next[w] = 0 /\ mutex # w BY <1>2 DEF Holding, ConnTypes, Call, NilIsNone
<1>4. ConnTypes' BY <1>1, <1>2 DEF Call, ConnTypes, readVars
<1>5. /\ UNCHANGED <<mutex, next, wire, log, broken>> /\ UNCHANGED readVars
      /\ writing' \in [Writers -> AllMessages \cup {Nil}]
      /\ writing'[w] = m /\ \A v \in Writers : v # w => writing'[v] = writing[v]
  BY <1>1, <1>2 DEF Call, ConnTypes
<1>6. Holding' BY <1>2, <1>3, <1>5 DEF Holding, ConnTypes
<1>7. \A e \in Nat : Tailing(e) => Tailing(e)'
  <2>1. mutex # Nil => writing'[mutex] = writing[mutex]
    BY <1>2, <1>3, <1>5 DEF ConnTypes
  <2> QED BY <1>5, <2>1 DEF Tailing, Rest
<1>8. ConnInv' BY <1>4, <1>5, <1>6, <1>7, InvKept
<1>9. Packets!Call(w, Seen(m))
  <2>1. writing[w] = Nil /\ got' = got BY DEF Call, readVars
  <2>2. \A v \in Writers :
          (IF writing'[v] = Nil THEN Nil ELSE Seen(writing'[v]))
            = IF v = w THEN Seen(m) ELSE IF writing[v] = Nil THEN Nil ELSE Seen(writing[v])
    BY <1>1, <1>5
  <2>3. {v \in Writers : writing'[v] # Nil /\ next'[v] > 0 /\ Complete(writing'[v], next'[v])}
          = {v \in Writers : writing[v] # Nil /\ next[v] > 0 /\ Complete(writing[v], next[v])}
    <3>1. \A v \in Writers : v # w => writing'[v] = writing[v] /\ next'[v] = next[v]
      BY <1>5
    <3>2. ~(next'[w] > 0) /\ ~(next[w] > 0) BY <1>3, <1>5
    <3> QED BY <3>1, <3>2
  <2> QED BY <1>5, <2>1, <2>2, <2>3, Zenon DEF Packets!Call
<1>10. Seen(m) \in {Seen(l) : l \in AllMessages} BY <1>1
<1> QED BY <1>8, <1>9, <1>10 DEF Packets!Next

\* Locking the mutex is a stutter.
LEMMA LockStep ==
  ASSUME MessagesAreWritten, NilIsNone, ConnInv, NEW w \in Writers, Lock(w)
  PROVE  ConnInv' /\ UNCHANGED Packets!vars
<1>2. ConnTypes /\ Holding BY DEF ConnInv
<1>3. writing[w] \in AllMessages BY <1>2 DEF Lock, ConnTypes
<1>4. ConnTypes' BY <1>2 DEF Lock, ConnTypes, readVars
<1>5. /\ UNCHANGED <<writing, wire, log, broken>> /\ UNCHANGED readVars /\ w # Nil
      /\ mutex' = w /\ mutex = Nil
      /\ next'[w] = 1 /\ \A v \in Writers : v # w => next'[v] = next[v]
  BY <1>2 DEF Lock, ConnTypes, NilIsNone
<1>6. Holding'
  <2>1. \A v \in Writers : ~(next[v] > 0) BY <1>2, <1>5 DEF Holding, NilIsNone
  <2>2. 1 <= Writes(writing[w]) + 1 BY <1>3, OutOf
  <2> QED BY <1>2, <1>5, <2>1, <2>2 DEF Holding, Lock
<1>7. \A e \in Nat : Tailing(e) => Tailing(e)'
  <2>1. ~Complete(writing[w], 1) /\ Out(writing[w], 0) = 0 BY <1>3, OutOf
  <2>2. \A e \in Nat : Len(wire) = e => Rest(writing[w], 0, e) BY DEF Rest
  <2> QED BY <1>5, <2>1, <2>2 DEF Tailing, Rest
<1>8. ConnInv' BY <1>4, <1>5, <1>6, <1>7, InvKept
<1>9. UNCHANGED Packets!vars
  <2>1. ~Complete(writing[w], 1) BY <1>3, OutOf
  <2>2. \A v \in Writers : next'[v] > 0 /\ Complete(writing'[v], next'[v])
                             <=> next[v] > 0 /\ Complete(writing[v], next[v])
    BY <1>5, <2>1 DEF Lock
  <2> QED BY <1>5, <2>2 DEF Packets!vars, readVars
<1> QED BY <1>8, <1>9

\* The end of the connection is a stutter.
LEMMA BreakStep ==
  ASSUME MessagesAreWritten, ConnInv, Break
  PROVE  ConnInv' /\ UNCHANGED Packets!vars
<1>1. ConnTypes' /\ Holding'
  BY DEF ConnInv, ConnTypes, Holding, Break, writeVars, readVars
<1>2. \A e \in Nat : Tailing(e) => Tailing(e)' BY DEF Break, Tailing, Rest
<1>3. UNCHANGED <<wire, log, readVars>> BY DEF Break
<1>4. ConnInv' BY <1>1, <1>2, <1>3, InvKept
<1> QED BY <1>4 DEF Break, writeVars, readVars, Packets!vars

\* What a writer's return changes for the others.
LEMMA ReturnOf ==
  ASSUME ConnInv, NEW w \in Writers, next[w] > 0, Return(w)
  PROVE  /\ Holding' /\ mutex = w /\ mutex' = Nil
         /\ mutex' \in Writers \cup {Nil}
         /\ writing' \in [Writers -> AllMessages \cup {Nil}] /\ next' \in [Writers -> Nat]
         /\ writing'[w] = Nil /\ next'[w] = 0
         /\ \A v \in Writers : v # w => writing'[v] = writing[v] /\ next'[v] = next[v]
<1>1. ConnTypes /\ Holding BY DEF ConnInv
<1>2. /\ writing' \in [Writers -> AllMessages \cup {Nil}] /\ next' \in [Writers -> Nat]
      /\ writing'[w] = Nil /\ next'[w] = 0 /\ mutex' = Nil
      /\ \A v \in Writers : v # w => writing'[v] = writing[v] /\ next'[v] = next[v]
  BY <1>1 DEF Return, ConnTypes
<1>3. mutex = w BY <1>1 DEF Holding
<1>4. \A v \in Writers : ~(next'[v] > 0) BY <1>1, <1>2, <1>3 DEF Holding
<1>5. Holding' BY <1>2, <1>4 DEF Holding
<1> QED BY <1>2, <1>3, <1>5

\* A writer may return with an error at any time, and without one once its
\* packet is complete.
LEMMA ReturnsOfLog ==
  ASSUME ConnInv, NEW w \in Writers, writing[w] # Nil, next[w] > 0, Return(w),
         NilIsNone, UNCHANGED <<log, got>>
  PROVE  /\ Packets!ReturnError(w)
         /\ Complete(writing[w], next[w]) => Packets!ReturnNil(w)
<1>1. /\ writing' \in [Writers -> AllMessages \cup {Nil}]
      /\ writing'[w] = Nil /\ next'[w] = 0
      /\ \A v \in Writers : v # w => writing'[v] = writing[v] /\ next'[v] = next[v]
  BY ReturnOf
<1>2. writing[w] \in AllMessages BY DEF ConnInv, ConnTypes
<1>3. Seen(writing[w]) # Nil BY <1>2 DEF NilIsNone
<1>4. \A v \in Writers :
          (IF writing'[v] = Nil THEN Nil ELSE Seen(writing'[v]))
            = IF v = w THEN Nil ELSE IF writing[v] = Nil THEN Nil ELSE Seen(writing[v])
  BY <1>1, Zenon
<1>5. {v \in Writers : writing'[v] # Nil /\ next'[v] > 0 /\ Complete(writing'[v], next'[v])}
        = {v \in Writers : writing[v] # Nil /\ next[v] > 0 /\ Complete(writing[v], next[v])}
          \ {w}
  BY <1>1
<1> QED BY <1>3, <1>4, <1>5, Zenon DEF Packets!ReturnError, Packets!ReturnNil

\* A writer that has made all of its Writes returns without an error.
LEMMA WriteReturnsStep ==
  ASSUME MessagesAreWritten, NilIsNone, ConnInv, NEW w \in Writers, WriteReturns(w)
  PROVE  ConnInv' /\ Packets!Next
<1>1. ConnTypes /\ Holding BY DEF ConnInv
<1>2. /\ writing[w] \in AllMessages /\ Return(w) /\ writing[w] # Nil
      /\ UNCHANGED <<wire, broken, log>> /\ UNCHANGED readVars
  BY <1>1 DEF WriteReturns, ConnTypes
<1>3. /\ Writes(writing[w]) \in Nat /\ Complete(writing[w], Writes(writing[w]) + 1)
      /\ next[w] \in Nat /\ next[w] > Writes(writing[w])
  BY <1>1, <1>2, OutOf DEF ConnTypes, WriteReturns
<1>4. next[w] > 0 BY <1>3
<1>5. next[w] <= Writes(writing[w]) + 1 BY <1>1, <1>4 DEF Holding
<1>6. Complete(writing[w], next[w])
  <2>1. next[w] = Writes(writing[w]) + 1 BY <1>3, <1>5
  <2> QED BY <1>3, <2>1
<1>7. /\ Holding' /\ mutex = w /\ mutex' = Nil /\ mutex' \in Writers \cup {Nil}
      /\ writing' \in [Writers -> AllMessages \cup {Nil}] /\ next' \in [Writers -> Nat]
  BY <1>2, <1>4, ReturnOf
<1>8. ConnTypes' BY <1>1, <1>2, <1>7 DEF ConnTypes, readVars
<1>9. \A e \in Nat : Tailing(e) => Tailing(e)' BY <1>2, <1>6, <1>7 DEF Tailing, Rest
<1>10. ConnInv' BY <1>2, <1>7, <1>8, <1>9, InvKept
<1>11. UNCHANGED <<log, got>> BY <1>2 DEF readVars
<1>12. Packets!ReturnNil(w) BY <1>2, <1>4, <1>6, <1>11, ReturnsOfLog
<1> QED BY <1>10, <1>12 DEF Packets!Next

\* A writer whose Write fails returns with an error; what has gone out of it
\* is the last thing on the wire.
LEMMA WriteFailsStep ==
  ASSUME MessagesAreWritten, NilIsNone, ConnInv, NEW w \in Writers, WriteFails(w)
  PROVE  ConnInv' /\ Packets!Next
<1>1. ConnTypes /\ Holding BY DEF ConnInv
<1>2. PICK m, k : m = writing[w] /\ k = next[w] OBVIOUS
<1>3. /\ m \in AllMessages /\ m # Nil /\ Return(w) /\ k \in 1..Writes(m)
      /\ broken' = TRUE /\ UNCHANGED log /\ UNCHANGED readVars
  BY <1>1, <1>2 DEF WriteFails, ConnTypes
<1>4. PICK n \in Out(m, k - 1)..Out(m, k) :
        /\ n = Out(m, k - 1) \/ (n < Out(m, k) /\ ~broken)
        /\ wire' = wire \o SubSeq(Frame(m), Out(m, k - 1) + 1, n)
  BY <1>2, Zenon DEF WriteFails
<1>5. PICK a \in Nat : a = Out(m, k - 1) BY <1>3, OutOf
<1>6. /\ Out(m, k) \in Nat /\ Out(m, k) <= Len(Frame(m)) /\ Len(Frame(m)) \in Nat
      /\ n \in Nat /\ a <= n /\ n <= Len(Frame(m)) /\ k > 0
      /\ n = a \/ (n < Len(Frame(m)) /\ ~broken)
  <2>1. Out(m, k) \in Nat /\ Out(m, k) <= Len(Frame(m)) /\ Len(Frame(m)) \in Nat
        /\ Writes(m) \in Nat
    BY <1>3, OutOf, FrameOf
  <2>2. n \in a..Out(m, k) /\ (n = a \/ (n < Out(m, k) /\ ~broken)) BY <1>4, <1>5
  <2>3. k > 0 BY ONLY <1>3, <2>1
  <2>4. n \in Nat /\ a <= n /\ n <= Len(Frame(m)) BY ONLY <2>1, <2>2, a \in Nat
  <2>5. n < Out(m, k) => n < Len(Frame(m)) BY ONLY <2>1, <2>4
  <2> QED BY ONLY <2>1, <2>2, <2>3, <2>4, <2>5
<1>7. /\ Holding' /\ mutex = w /\ mutex' = Nil /\ mutex' \in Writers \cup {Nil}
      /\ writing' \in [Writers -> AllMessages \cup {Nil}] /\ next' \in [Writers -> Nat]
  BY <1>2, <1>3, <1>6, ReturnOf
<1>8. wire' = wire \o SubSeq(Frame(m), a + 1, n) BY <1>4, <1>5
<1>9. /\ wire' \in Seq(Units) /\ Len(wire') = Len(wire) + (n - a) /\ Len(wire) <= Len(wire')
      /\ \A i \in 1..Len(wire) : wire'[i] = wire[i]
      /\ \A e \in Nat : Rest(m, a, e) => Rest(m, n, e)'
  BY <1>1, <1>3, <1>6, <1>8, RestGrows, Zenon
<1>10. ConnTypes' BY <1>1, <1>3, <1>7, <1>9, Zenon DEF ConnTypes, readVars
<1>11. PICK start \in [1..(Len(log) + 1) -> Nat] :
        Layout(start) /\ Tailing(start[Len(log) + 1]) /\ Reading(start)
  BY DEF ConnInv
<1>12. Layout(start)' /\ Reading(start)' BY <1>1, <1>3, <1>9, <1>11, LayoutKept, Zenon
<1>13. PICK e \in Nat : e = start[Len(log) + 1]
  <2>1. Len(log) + 1 \in 1..(Len(log) + 1) BY <1>1 DEF ConnTypes
  <2> QED BY <1>11, <2>1
<1>14. Tailing(e)'
  <2>1. CASE n = a
    <3>0. Len(wire) \in Nat BY <1>1 DEF ConnTypes
    <3>1. Len(wire') = Len(wire) /\ \A i \in 1..Len(wire) : wire'[i] = wire[i]
      BY ONLY <1>9, <2>1, <3>0, a \in Nat
    <3>2. Tailing(e) BY <1>11, <1>13
    <3>3. ASSUME Len(wire') # e
          PROVE  \E l \in AllMessages, x \in Nat : x < Len(Frame(l)) /\ Rest(l, x, e)'
      <4>1. PICK l \in AllMessages, x \in Nat : x < Len(Frame(l)) /\ Rest(l, x, e)
        BY <3>1, <3>2, <3>3 DEF Tailing
      <4>2. Len(wire) = e + x /\ \A i \in 1..x : wire[e + i] = Frame(l)[i]
        BY <4>1 DEF Rest
      <4>3. \A i \in 1..x : e + i \in 1..Len(wire)
        BY ONLY <4>2, e \in Nat, x \in Nat
      <4>4. Rest(l, x, e)' BY ONLY <3>1, <4>2, <4>3 DEF Rest
      <4> QED BY <4>1, <4>4, Zenon
    <3> QED BY <1>3, <3>3 DEF Tailing
  <2>2. CASE n # a
    <3>1. ~broken /\ n < Len(Frame(m)) BY <1>6, <2>2
    <3>2. ~Complete(m, k) BY ONLY <1>5, <1>6, <2>2 DEF Complete
    <3>3. mutex # Nil BY <1>7, Zenon DEF NilIsNone
    <3>4. Rest(m, a, e)
      BY <1>2, <1>5, <1>7, <1>11, <1>13, <3>1, <3>2, <3>3 DEF Tailing
    <3>5. Rest(m, n, e)' BY <1>9, <3>4
    <3> QED BY <1>3, <1>6, <3>1, <3>5 DEF Tailing
  <2> QED BY <2>1, <2>2
<1>15. e = start[Len(log') + 1] /\ log' = log BY <1>3, <1>13
<1>16. ConnInv' BY <1>7, <1>10, <1>11, <1>12, <1>14, <1>15 DEF ConnInv
<1>17. UNCHANGED <<log, got>> BY <1>3, Zenon DEF readVars
<1>18. Packets!ReturnError(w) BY <1>2, <1>3, <1>6, <1>17, ReturnsOfLog
<1> QED BY <1>16, <1>18 DEF Packets!Next

\* A Write is a stutter, and the one that makes the packet complete logs it.
LEMMA WriteStep ==
  ASSUME MessagesAreWritten, NilIsNone, ConnInv, NEW w \in Writers, Write(w)
  PROVE  ConnInv' /\ (Packets!Next \/ UNCHANGED Packets!vars)
<1>1. ConnTypes /\ Holding BY DEF ConnInv
<1>2. PICK m, k : m = writing[w] /\ k = next[w] OBVIOUS
<1>3. /\ m \in AllMessages /\ m # Nil /\ k \in 1..Writes(m) /\ ~broken
      /\ UNCHANGED <<mutex, writing, broken>> /\ UNCHANGED readVars
      /\ log' = IF ~Complete(m, k) /\ Complete(m, k + 1) THEN Append(log, m) ELSE log
      /\ next' = [next EXCEPT ![w] = k + 1]
      /\ wire' = wire \o SubSeq(Frame(m), Out(m, k - 1) + 1, Out(m, k))
  BY <1>1, <1>2 DEF Write, ConnTypes
<1>4. PICK a \in Nat, b \in Nat : a = Out(m, k - 1) /\ b = Out(m, k) BY <1>3, OutOf
<1>5. /\ a <= b /\ b <= Len(Frame(m)) /\ Len(Frame(m)) \in Nat /\ Writes(m) \in Nat
      /\ k > 0 /\ k \in Nat /\ k + 1 <= Writes(m) + 1
  <2>1. /\ a <= b /\ b <= Len(Frame(m)) /\ Len(Frame(m)) \in Nat /\ Writes(m) \in Nat
    BY <1>3, <1>4, OutOf, FrameOf
  <2> QED BY ONLY <1>3, <2>1
<1>6. mutex = w /\ mutex # Nil BY <1>1, <1>2, <1>5 DEF Holding, NilIsNone
<1>7. /\ next' \in [Writers -> Nat] /\ next'[w] = k + 1
      /\ \A v \in Writers : v # w => next'[v] = next[v]
  BY <1>1, <1>3, <1>5 DEF ConnTypes
<1>8. Holding' BY <1>1, <1>2, <1>3, <1>5, <1>6, <1>7 DEF Holding
<1>9. wire' = wire \o SubSeq(Frame(m), a + 1, b) BY <1>3, <1>4
<1>10. /\ wire' \in Seq(Units) /\ Len(wire') = Len(wire) + (b - a) /\ Len(wire) <= Len(wire')
       /\ \A i \in 1..Len(wire) : wire'[i] = wire[i]
       /\ \A e \in Nat : Rest(m, a, e) => Rest(m, b, e)'
  BY <1>1, <1>3, <1>5, <1>9, RestGrows, Zenon
<1>11. ConnTypes'
  <2>1. log' \in Seq(AllMessages) BY <1>1, <1>3 DEF ConnTypes
  <2> QED BY <1>1, <1>3, <1>7, <1>10, <2>1, Zenon DEF ConnTypes, readVars
<1>12. (k + 1) - 1 = k BY <1>5
<1>13. /\ Complete(m, k) <=> a = Len(Frame(m))
       /\ Complete(m, k + 1) <=> b = Len(Frame(m))
  BY <1>4, <1>12 DEF Complete
<1>14. PICK start \in [1..(Len(log) + 1) -> Nat] :
         Layout(start) /\ Tailing(start[Len(log) + 1]) /\ Reading(start)
  BY DEF ConnInv
<1>15. PICK e \in Nat : e = start[Len(log) + 1]
  <2>1. Len(log) + 1 \in 1..(Len(log) + 1) BY <1>1 DEF ConnTypes
  <2> QED BY <1>14, <2>1
<1>16. IF Complete(m, k) THEN Len(wire) = e ELSE Rest(m, a, e)
  BY <1>2, <1>3, <1>4, <1>6, <1>14, <1>15 DEF Tailing
<1>17. \A v \in Writers : v # w =>
         (next'[v] > 0 /\ Complete(writing'[v], next'[v])
            <=> next[v] > 0 /\ Complete(writing[v], next[v]))
  BY <1>3, <1>7
<1>18. \A v \in Writers :
         (IF writing'[v] = Nil THEN Nil ELSE Seen(writing'[v]))
            = IF writing[v] = Nil THEN Nil ELSE Seen(writing[v])
  BY <1>3
<1>19. CASE ~Complete(m, k) /\ Complete(m, k + 1)
  <2>1. log' = Append(log, m) BY <1>3, <1>19
  <2>2. Rest(m, Len(Frame(m)), e)'
    <3>1. PICK l : l = Len(Frame(m)) OBVIOUS
    <3>2. Rest(m, l, e)' BY <1>10, <1>13, <1>16, <1>19, <3>1
    <3> QED BY <3>1, <3>2 DEF Rest
  <2>3. PICK new \in [1..(Len(log') + 1) -> Nat] :
           Layout(new)' /\ Reading(new)' /\ Len(wire') = new[Len(log') + 1]
    BY <1>1, <1>3, <1>10, <1>14, <1>15, <2>1, <2>2, LogGrows, Zenon
  <2>4. PICK d : d = new[Len(log') + 1] OBVIOUS
  <2>5. Tailing(d)'
    <3>1. Complete(writing'[mutex'], next'[mutex']) BY <1>2, <1>3, <1>6, <1>7, <1>19
    <3> QED BY <2>3, <2>4, <3>1, Zenon DEF Tailing
  <2>6. ConnInv' BY <1>8, <1>11, <2>3, <2>4, <2>5 DEF ConnInv
  <2>7. Packets!Commit(w)
    <3>1. /\ writing[w] # Nil /\ Seen(writing[w]) # Nil /\ got' = got
          /\ ~Complete(writing[w], next[w])
      BY <1>2, <1>3, <1>19, Zenon DEF NilIsNone, readVars
    <3>2. {v \in Writers : writing'[v] # Nil /\ next'[v] > 0 /\ Complete(writing'[v], next'[v])}
            = {v \in Writers : writing[v] # Nil /\ next[v] > 0 /\ Complete(writing[v], next[v])}
              \cup {w}
      <4>1. writing'[w] # Nil /\ next'[w] > 0 /\ Complete(writing'[w], next'[w])
        BY <1>2, <1>3, <1>5, <1>7, <1>19
      <4> QED BY <1>3, <1>17, <4>1
    <3>3. [i \in DOMAIN log' |-> Seen(log'[i])]
            = Append([i \in DOMAIN log |-> Seen(log[i])], Seen(writing[w]))
      <4>1. Len(log) \in Nat /\ DOMAIN log = 1..Len(log) /\ DOMAIN log' = 1..(Len(log) + 1)
            /\ log'[Len(log) + 1] = m /\ \A i \in 1..Len(log) : log'[i] = log[i]
        BY <1>1, <2>1 DEF ConnTypes
      <4>2. PICK s : s = [i \in DOMAIN log |-> Seen(log[i])] BY Zenon
      <4>3. /\ s \in Seq({Seen(l) : l \in AllMessages}) /\ Len(s) = Len(log)
            /\ \A i \in 1..Len(log) : s[i] = Seen(log[i])
        BY <1>1, <4>1, <4>2 DEF ConnTypes
      <4>4. PICK t : t = Append(s, Seen(m)) BY Zenon
      <4>5. /\ t \in Seq({Seen(l) : l \in AllMessages}) /\ Len(t) = Len(log) + 1
            /\ t[Len(log) + 1] = Seen(m) /\ \A i \in 1..Len(log) : t[i] = s[i]
        BY <1>3, <4>1, <4>3, <4>4, AppendProperties
      <4>6. t = [i \in 1..(Len(log) + 1) |-> t[i]] BY <4>5
      <4>7. \A i \in 1..(Len(log) + 1) : t[i] = Seen(log'[i])
        BY <4>1, <4>3, <4>5
      <4> QED BY <1>2, <4>1, <4>2, <4>4, <4>6, <4>7, Zenon
    <3> QED BY <1>18, <3>1, <3>2, <3>3, ZenonT(30) DEF Packets!Commit
  <2> QED BY <2>6, <2>7 DEF Packets!Next
<1>20. CASE ~(~Complete(m, k) /\ Complete(m, k + 1))
  <2>1. log' = log BY <1>3, <1>20
  <2>2. Layout(start)' /\ Reading(start)'
    BY <1>1, <1>3, <1>10, <1>14, <2>1, LayoutKept
  <2>3. Complete(m, k) <=> Complete(m, k + 1)
    BY ONLY <1>5, <1>13, <1>20, a \in Nat, b \in Nat
  <2>4. Tailing(e)'
    <3>1. CASE Complete(m, k)
      <4>1. Len(wire') = e
        <5>1. Len(wire) \in Nat BY <1>1 DEF ConnTypes
        <5>2. a = b BY ONLY <1>13, <2>3, <3>1
        <5> QED BY ONLY <1>10, <1>16, <3>1, <5>1, <5>2, a \in Nat
      <4> QED BY <1>2, <1>3, <1>6, <1>7, <2>3, <3>1, <4>1, ZenonT(30) DEF Tailing
    <3>2. CASE ~Complete(m, k)
      <4>1. Rest(m, b, e)' /\ b < Len(Frame(m))
        <5>1. b # Len(Frame(m)) BY <1>13, <2>3, <3>2
        <5>2. b < Len(Frame(m)) BY ONLY <1>5, <5>1, b \in Nat
        <5> QED BY <1>10, <1>16, <3>2, <5>2, Zenon
      <4>2. \E l \in AllMessages, x \in Nat : x < Len(Frame(l)) /\ Rest(l, x, e)'
        BY <1>3, <4>1
      <4>3. mutex' # Nil /\ writing'[mutex'] = m /\ next'[mutex'] = k + 1
        BY <1>2, <1>3, <1>6, <1>7
      <4>4. Out(m, (k + 1) - 1) = b BY <1>4, <1>12
      <4>5. ~Complete(m, k + 1) BY <2>3, <3>2
      <4> QED BY <4>1, <4>2, <4>3, <4>4, <4>5 DEF Tailing
    <3> QED BY <3>1, <3>2
  <2>5. e = start[Len(log') + 1] BY <1>15, <2>1
  <2>6. ConnInv' BY <1>8, <1>11, <1>14, <2>1, <2>2, <2>4, <2>5 DEF ConnInv
  <2>7. UNCHANGED Packets!vars
    <3>1. \A v \in Writers : next'[v] > 0 /\ Complete(writing'[v], next'[v])
            <=> next[v] > 0 /\ Complete(writing[v], next[v])
      BY <1>2, <1>3, <1>5, <1>7, <1>17, <2>3
    <3> QED BY <1>3, <1>18, <2>1, <3>1 DEF Packets!vars, readVars
  <2> QED BY <2>6, <2>7
<1> QED BY <1>19, <1>20

\* Reading a header is a stutter.
LEMMA ReadHeaderStep ==
  ASSUME MessagesAreWritten, NilIsNone, ConnInv, ReadHeader
  PROVE  ConnInv' /\ UNCHANGED Packets!vars
<1>1. ConnTypes /\ Holding BY DEF ConnInv
<1>2. PICK start \in [1..(Len(log) + 1) -> Nat] :
        Layout(start) /\ Tailing(start[Len(log) + 1]) /\ Reading(start)
  BY DEF ConnInv
<1>3. /\ UNCHANGED <<mutex, writing, next, wire, broken, buffer, got, log>>
      /\ header = Nil /\ taken < Len(wire) /\ header' = wire[taken + 1] /\ taken' = taken + 1
  BY DEF ReadHeader, writeVars
<1>4. /\ Len(got) \in 0..Len(log) /\ taken = start[Len(got) + 1]
      /\ Len(wire) \in Nat /\ taken \in Nat
  BY <1>1, <1>2, <1>3 DEF Reading, ConnTypes
<1>5. PICK m \in AllMessages : wire[taken + 1] = Header(m)
  <2>1. PICK j \in 0..Len(log) : j = Len(got) BY <1>4
  <2>2. start[j + 1] < Len(wire) BY <1>3, <1>4, <2>1
  <2>3. \E m \in AllMessages : wire[start[j + 1] + 1] = Header(m)
    BY <1>1, <1>2, <2>2, NextIsHeader
  <2> QED BY <1>4, <2>1, <2>3
<1>6. header' # Nil BY <1>3, <1>5 DEF NilIsNone
<1>7. ConnTypes' /\ Holding' BY <1>1, <1>3, <1>4 DEF ConnTypes, Holding
<1>8. Layout(start)' BY <1>2, <1>3 DEF Layout
<1>9. PICK e : e = start[Len(log) + 1] BY Zenon
<1>10. Tailing(e)' BY <1>2, <1>3, <1>9 DEF Tailing, Rest
<1>11. Reading(start)' BY <1>2, <1>3, <1>4, <1>6 DEF Reading
<1>12. ConnInv' BY <1>2, <1>3, <1>7, <1>8, <1>9, <1>10, <1>11, Zenon DEF ConnInv
<1> QED BY <1>3, <1>12 DEF Packets!vars

\* An error of the read routine is a stutter.
LEMMA ReadFailsStep ==
  ASSUME MessagesAreWritten, ConnInv, ReadFails
  PROVE  ConnInv' /\ UNCHANGED Packets!vars
<1>1. UNCHANGED <<mutex, writing, next, wire, broken, taken, header, buffer, got, log>>
  BY DEF ReadFails, writeVars
<1>2. ConnTypes' /\ Holding' BY <1>1 DEF ConnInv, ConnTypes, Holding
<1>3. PICK start \in [1..(Len(log) + 1) -> Nat] :
        Layout(start) /\ Tailing(start[Len(log) + 1]) /\ Reading(start)
  BY DEF ConnInv
<1>4. Layout(start)' /\ Reading(start)' BY <1>1, <1>3, Zenon DEF Layout, Reading
<1>5. PICK e : e = start[Len(log) + 1] OBVIOUS
<1>6. Tailing(e)' BY <1>1, <1>3, <1>5 DEF Tailing, Rest
<1>7. ConnInv' BY <1>1, <1>2, <1>3, <1>4, <1>5, <1>6 DEF ConnInv
<1> QED BY <1>1, <1>7 DEF Packets!vars

\* The buffer b once n units of s after a are read into it.
Refill(s, b, a, n) == SubSeq(s, a + 1, a + n) \o SubSeq(b, n + 1, Len(b))

\* The start of the buffer is what was read last.
LEMMA BufferStart ==
  ASSUME NEW S, NEW s \in Seq(S), NEW b \in Seq(S), NEW a \in Nat, NEW n \in Nat,
         a + n <= Len(s)
  PROVE  /\ Refill(s, b, a, n) \in Seq(S) /\ Len(Refill(s, b, a, n)) >= n
         /\ \A i \in 1..n : Refill(s, b, a, n)[i] = s[a + i]
<1>1. PICK u : u = SubSeq(s, a + 1, a + n) BY Zenon
<1>2. PICK v : v = SubSeq(b, n + 1, Len(b)) BY Zenon
<1>3. u \in Seq(S) /\ Len(u) = n /\ \A i \in 1..n : u[i] = s[a + i]
  <2>1. PICK c \in Nat : c = a + n OBVIOUS
  <2>2. \A i \in (a + 1)..c : s[i] \in S BY <2>1
  <2>3. /\ u \in Seq(S) /\ Len(u) = IF a + 1 <= c THEN c - (a + 1) + 1 ELSE 0
        /\ \A i \in 1..(c - (a + 1) + 1) : u[i] = s[(a + 1) + i - 1]
    BY ONLY <1>1, <2>1, <2>2, a \in Nat, c \in Nat, SubSeqProperties
  <2>4. c - (a + 1) + 1 = n /\ \A i \in 1..n : (a + 1) + i - 1 = a + i BY <2>1
  <2>5. Len(u) = n BY ONLY <2>1, <2>3, a \in Nat, n \in Nat
  <2> QED BY ONLY <2>3, <2>4, <2>5
<1>4. v \in Seq(S)
  <2>1. CASE n + 1 <= Len(b) BY <1>2, <2>1, SubSeqProperties
  <2>2. CASE ~(n + 1 <= Len(b)) BY <1>2, <2>2
  <2> QED BY <2>1, <2>2
<1>5. PICK r : r = u \o v BY Zenon
<1>6. /\ r \in Seq(S) /\ Len(v) \in Nat /\ Len(r) = n + Len(v)
      /\ \A i \in 1..(n + Len(v)) : r[i] = IF i <= n THEN u[i] ELSE v[i - n]
  <2>1. Len(v) \in Nat BY <1>4
  <2>2. /\ r \in Seq(S) /\ Len(r) = Len(u) + Len(v)
        /\ \A i \in 1..(Len(u) + Len(v)) :
             r[i] = IF i <= Len(u) THEN u[i] ELSE v[i - Len(u)]
    BY ONLY <1>3, <1>4, <1>5, ConcatProperties
  <2> QED BY ONLY <1>3, <2>1, <2>2
<1>7. \A i \in 1..n : r[i] = s[a + i]
  <2>1. \A i \in 1..n : i \in 1..(n + Len(v)) /\ i <= n BY <1>6
  <2> QED BY ONLY <1>3, <1>6, <2>1
<1>8. Len(r) >= n BY ONLY <1>6, n \in Nat
<1> QED BY <1>1, <1>2, <1>5, <1>6, <1>7, <1>8, Zenon DEF Refill

\* Handing a packet to its handler delivers the next message of the log: of
\* its own type, and with its own content though the buffer has older content
\* after it (conn.go:43-62).
LEMMA ReadBodyStep ==
  ASSUME MessagesAreWritten, NilIsNone, ConnInv, ReadBody
  PROVE  ConnInv' /\ Packets!Next
<1>1. ConnTypes /\ Holding BY DEF ConnInv
<1>2. PICK start \in [1..(Len(log) + 1) -> Nat] :
        Layout(start) /\ Tailing(start[Len(log) + 1]) /\ Reading(start)
  BY DEF ConnInv
<1>3. /\ UNCHANGED <<mutex, writing, next, wire, broken, log>>
      /\ header # Nil /\ taken + header.length <= Len(wire)
      /\ taken' = taken + header.length /\ header' = Nil
      /\ buffer' = SubSeq(wire, taken + 1, taken + header.length)
                   \o SubSeq(buffer, header.length + 1, Len(buffer))
      /\ got' = Append(got, [kind |-> handlers[header.type + 1],
                             data |-> SubSeq(buffer', 1, header.length)])
  BY DEF ReadBody, writeVars
<1>4. PICK j \in 0..Len(log) : j = Len(got) BY <1>1, <1>2 DEF Reading, ConnTypes
<1>5. /\ Len(wire) \in Nat /\ taken \in Nat /\ Len(log) \in Nat /\ j \in Nat
      /\ taken = start[j + 1] + 1 /\ taken <= Len(wire) /\ header = wire[taken]
  <2>1. Len(wire) \in Nat /\ taken \in Nat /\ Len(log) \in Nat BY <1>1 DEF ConnTypes
  <2>2. taken = start[j + 1] + 1 /\ taken <= Len(wire) /\ header = wire[taken]
    BY <1>2, <1>3, <1>4 DEF Reading
  <2>3. j \in Nat BY ONLY <2>1, j \in 0..Len(log)
  <2> QED BY ONLY <2>1, <2>2, <2>3
<1>6. PICK f \in Nat : f = start[j + 1] BY <1>2, <1>5
<1>7. taken = f + 1 /\ f < Len(wire) BY ONLY <1>5, <1>6, f \in Nat
<1>8. PICK m \in AllMessages :
        /\ header = Header(m)
        /\ j < Len(log) => m = log[j + 1]
        /\ j = Len(log) => Len(wire) < f + Len(Frame(m))
  <2>1. start[j + 1] < Len(wire) BY <1>6, <1>7
  <2>2. \E m \in AllMessages :
          /\ wire[start[j + 1] + 1] = Header(m)
          /\ j < Len(log) => m = log[j + 1]
          /\ j = Len(log) => Len(wire) < start[j + 1] + Len(Frame(m))
    BY <1>1, <1>2, <2>1, NextIsHeader, Zenon
  <2> QED BY <1>5, <1>6, <1>7, <2>2
<1>9. /\ Len(m.data) \in Nat /\ m.data \in Seq(Units) /\ header.length = Len(m.data)
      /\ handlers[header.type + 1] = m.kind
      /\ Len(Frame(m)) = 1 + Len(m.data)
      /\ \A i \in 1..Len(m.data) : Frame(m)[1 + i] = m.data[i]
  BY <1>8, FrameOf, Zenon
<1>9a. PICK x \in Nat : x = Len(m.data) BY <1>9, Zenon
<1>9b. header.length = x /\ Len(Frame(m)) = 1 + x /\ taken + x <= Len(wire) /\ taken' = taken + x
  BY ONLY <1>3, <1>9, <1>9a
<1>10. j < Len(log) /\ m = log[j + 1] /\ j + 1 \in 1..Len(log)
  <2>1. j # Len(log)
    <3>1. j = Len(log) => Len(wire) < f + (1 + x) BY ONLY <1>8, <1>9b
    <3>2. (f + 1) + x <= Len(wire) BY ONLY <1>7, <1>9b
    <3> QED BY ONLY <1>5, <3>1, <3>2, f \in Nat, x \in Nat
  <2>2. j < Len(log) /\ j + 1 \in 1..Len(log) BY ONLY <1>5, <2>1, j \in 0..Len(log)
  <2> QED BY <1>8, <2>2
<1>11. /\ start[j + 2] = f + Len(Frame(m))
       /\ \A i \in 1..Len(Frame(m)) : wire[f + i] = Frame(m)[i]
  <2>1. (j + 1) + 1 = j + 2 BY <1>5
  <2>2. /\ start[(j + 1) + 1] = start[j + 1] + Len(Frame(log[j + 1]))
        /\ \A i \in 1..Len(Frame(log[j + 1])) : wire[start[j + 1] + i] = Frame(log[j + 1])[i]
    BY <1>2, <1>10 DEF Layout
  <2> QED BY <1>6, <1>10, <2>1, <2>2, Zenon
<1>12. buffer' \in Seq(Units) /\ SubSeq(buffer', 1, header.length) = m.data
  <2>1. \A i \in 1..Len(m.data) : wire[taken + i] = m.data[i]
    <3>1. ASSUME NEW i \in 1..Len(m.data) PROVE wire[taken + i] = m.data[i]
      <4>a. i \in 1..x BY <1>9a, Zenon
      <4>b. 1 + i \in 1..(1 + x) /\ f + (1 + i) = (f + 1) + i
        BY ONLY <4>a, f \in Nat, x \in Nat
      <4>1. 1 + i \in 1..Len(Frame(m)) /\ f + (1 + i) = taken + i
        BY <1>7, <1>9b, <4>b, Zenon
      <4> QED BY ONLY <1>9, <1>11, <4>1, i \in 1..Len(m.data), Zenon
    <3> QED BY <3>1
  <2>2. wire \in Seq(Units) /\ buffer \in Seq(Units) BY <1>1 DEF ConnTypes
  <2>3. PICK d \in Seq(Units) : d = m.data BY <1>9
  <2>4. PICK t \in Nat : t = taken BY <1>5
  <2>5. Len(d) = x /\ \A i \in 1..x : wire[t + i] = d[i]
    BY ONLY <1>9a, <2>1, <2>3, <2>4
  <2>6. t + x <= Len(wire) BY <1>9b, <2>4
  <2>7. PICK r : r = buffer' OBVIOUS
  <2>8. r = Refill(wire, buffer, t, x) BY <1>3, <1>9b, <2>4, <2>7, Zenon DEF Refill
  <2>9. r \in Seq(Units) /\ Len(r) >= x /\ \A i \in 1..x : r[i] = wire[t + i]
    BY ONLY <2>2, <2>6, <2>8, x \in Nat, t \in Nat, BufferStart
  <2>10. PICK q : q = SubSeq(r, 1, x) BY Zenon
  <2>11. q \in Seq(Units) /\ Len(q) = x /\ \A i \in 1..x : q[i] = r[i]
    <3>1. \A i \in 1..x : r[i] \in Units BY ONLY <2>9, x \in Nat
    <3>2. /\ q \in Seq(Units) /\ Len(q) = IF 1 <= x THEN x - 1 + 1 ELSE 0
          /\ \A i \in 1..(x - 1 + 1) : q[i] = r[1 + i - 1]
      BY ONLY <2>10, <3>1, x \in Nat, SubSeqProperties
    <3>3. x - 1 + 1 = x /\ \A i \in 1..x : 1 + i - 1 = i BY ONLY x \in Nat
    <3>4. Len(q) = x BY ONLY <3>2, x \in Nat
    <3> QED BY ONLY <3>2, <3>3, <3>4
  <2>12. q = d
    <3>1. \A i \in 1..x : q[i] = d[i] BY ONLY <2>5, <2>9, <2>11
    <3> QED BY ONLY <2>5, <2>11, <3>1, d \in Seq(Units), SeqEqual
  <2> QED BY <1>9b, <2>3, <2>7, <2>9, <2>10, <2>12, Zenon
<1>13. got' = Append(got, Seen(m)) BY <1>3, <1>9, <1>12, Zenon DEF Seen
<1>14. got' \in Seq({Seen(l) : l \in AllMessages}) /\ Len(got') = j + 1
       /\ got'[j + 1] = Seen(m) /\ \A i \in 1..j : got'[i] = got[i]
  <2>1. got \in Seq({Seen(l) : l \in AllMessages}) /\ Seen(m) \in {Seen(l) : l \in AllMessages}
    BY <1>1 DEF ConnTypes
  <2> QED BY ONLY <1>4, <1>13, <2>1, AppendProperties
<1>15. taken' \in Nat /\ taken' = start[j + 2]
  BY ONLY <1>5, <1>7, <1>9b, <1>11, f \in Nat, x \in Nat
<1>16. ConnTypes' /\ Holding'
  BY <1>1, <1>3, <1>12, <1>14, <1>15, ZenonT(30) DEF ConnTypes, Holding
<1>17. Layout(start)' BY <1>2, <1>3, Zenon DEF Layout
<1>18. PICK e : e = start[Len(log) + 1] BY Zenon
<1>19. Tailing(e)' BY <1>2, <1>3, <1>18, Zenon DEF Tailing, Rest
<1>20. Reading(start)'
  <2>1. \A i \in 1..(j + 1) : got'[i] = Seen(log[i])
    <3>1. \A i \in 1..j : got[i] = Seen(log[i]) BY <1>2, <1>4 DEF Reading
    <3>2. \A i \in 1..(j + 1) : i \in 1..j \/ i = j + 1 BY ONLY j \in Nat, <1>5
    <3> QED BY ONLY <1>10, <1>14, <3>1, <3>2, Zenon
  <2>2. j + 1 <= Len(log) /\ (j + 1) + 1 = j + 2 BY ONLY <1>5, <1>10
  <2> QED BY ONLY <1>3, <1>14, <1>15, <2>1, <2>2, ZenonT(30) DEF Reading
<1>21. ConnInv' BY <1>2, <1>3, <1>16, <1>17, <1>18, <1>19, <1>20, Zenon DEF ConnInv
<1>22. Packets!Arrive
  <2>1. DOMAIN log = 1..Len(log) BY <1>1 DEF ConnTypes
  <2>2. PICK s : s = [i \in DOMAIN log |-> Seen(log[i])] BY Zenon
  <2>3. Len(s) = Len(log) /\ s[j + 1] = Seen(m) BY <1>5, <1>10, <2>1, <2>2
  <2>4. Len(got) < Len(s) /\ got' = Append(got, s[Len(got) + 1])
    BY <1>4, <1>10, <1>13, <2>3
  <2> QED BY <1>3, <2>2, <2>4, Zenon DEF Packets!Arrive
<1> QED BY <1>21, <1>22 DEF Packets!Next

\* Every step keeps the invariant, and is a step of PacketLog or a stutter.
LEMMA ConnStep ==
  ASSUME MessagesAreWritten, NilIsNone, ConnInv, [Next]_vars
  PROVE  ConnInv' /\ [Packets!Next]_(Packets!vars)
<1>1. ASSUME NEW w \in Writers, NEW m \in Messages[w], Call(w, m)
      PROVE  ConnInv' /\ [Packets!Next]_(Packets!vars)
  BY <1>1, CallStep
<1>2. ASSUME NEW w \in Writers, Lock(w) \/ Write(w) \/ WriteReturns(w) \/ WriteFails(w)
      PROVE  ConnInv' /\ [Packets!Next]_(Packets!vars)
  BY <1>2, LockStep, WriteStep, WriteReturnsStep, WriteFailsStep
<1>3. CASE ReadHeader \/ ReadBody \/ ReadFails \/ Break
  BY <1>3, ReadHeaderStep, ReadBodyStep, ReadFailsStep, BreakStep, Zenon
<1>4. CASE UNCHANGED vars
  <2>1. UNCHANGED <<mutex, writing, next, wire, broken, taken, header, buffer, got, log>>
        /\ UNCHANGED readVars
    BY <1>4 DEF vars, writeVars, readVars
  <2>2. ConnTypes' /\ Holding' BY <2>1, Zenon DEF ConnInv, ConnTypes, Holding
  <2>3. \A e \in Nat : Tailing(e) => Tailing(e)' BY <2>1 DEF Tailing, Rest
  <2>4. ConnInv' BY <2>1, <2>2, <2>3, InvKept
  <2> QED BY <2>1, <2>4 DEF Packets!vars
<1> QED BY <1>1, <1>2, <1>3, <1>4 DEF Next

\* The bytes of the connection are a log of messages (conn.go:115-126,
\* 184-188): Connection implements PacketLog, for any writers and messages,
\* wherever the Writes are split and the connection breaks.
THEOREM LogOfPackets ==
  ASSUME MessagesAreWritten, NilIsNone
  PROVE  Spec => ImplementsPacketLog
<1>1. Init => ConnInv /\ Packets!Init BY ConnInit
<1>2. ConnInv /\ [Next]_vars => ConnInv' /\ [Packets!Next]_(Packets!vars)
  BY ConnStep
<1> QED BY <1>1, <1>2, PTL DEF Spec, ImplementsPacketLog, Packets!Spec
=============================================================================
