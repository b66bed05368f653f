------------------------- MODULE ReadRoutineProofs --------------------------
(***************************************************************************)
(* What the read routine makes of audio packets, of access control lists   *)
(* and of versions.                                                        *)
(*                                                                         *)
(* The streams of incoming audio are unbroken, for any users and packets   *)
(* and for at most two listeners that come and go.  The inductive          *)
(* invariant says how the list is linked, where the loop of                *)
(* handleUDPTunnel is in it, and how far each stream has come with the     *)
(* packets of its user.                                                    *)
(*                                                                         *)
(* An access control list that is sent back as it was received is the      *)
(* same, for any groups and rules; a version that was packed is read back. *)
(***************************************************************************)
EXTENDS IncomingAudio, TLAPS

-----------------------------------------------------------------------------
(* The inductive invariant.                                                *)

\* There are two listeners at most: Attach loses a third (audiolisteners.go,
\* see AttachedHear).
AtMostTwo == \A i, j, k \in Items : i = j \/ i = k \/ j = k

\* Nil is no item and no user.
NilIsNone == Nil \notin Items /\ Nil \notin Users

\* The types.
HearTypes ==
  /\ head \in Items \cup {Nil} /\ tail \in Items \cup {Nil} /\ made \subseteq Items
  /\ prev \in [Items -> Items \cup {Nil}] /\ next \in [Items -> Items \cup {Nil}]
  /\ attached \in Seq(made)
  /\ packets \in Nat /\ spoken \in [Users -> Seq(Nat)]
  /\ received \in [Items -> [Users -> Seq(Nat)]]
  /\ streams \in [Items -> SUBSET Users] /\ opened \in [Items -> [Users -> Nat]]

\* The list is linked from head on, whoever was detached from it, and what is
\* not attached yet is not pointed to.
Chained ==
  /\ Len(attached) = 0 => head = Nil
  /\ Len(attached) > 0 => /\ head = attached[1] /\ prev[attached[1]] = Nil
                          /\ next[attached[Len(attached)]] = Nil
  /\ Len(attached) > 1 => /\ Len(attached) = 2 /\ attached[1] # attached[2]
                          /\ next[attached[1]] = attached[2] /\ prev[attached[2]] = attached[1]
  /\ made # Items => tail = IF Len(attached) = 0 THEN Nil ELSE attached[1]
  /\ \A i \in Items \ made : next[i] = Nil /\ \A j \in Items : next[j] # i
  /\ \A i \in Items : next[i] # i /\ (next[i] # Nil => next[next[i]] = Nil)

\* The loop is at an item with the last packet of its user.
Looping ==
  /\ sender \in Users \cup {Nil}
  /\ sender # Nil => /\ item \in made /\ Len(spoken[sender]) > 0
                     /\ spoken[sender][Len(spoken[sender])] = packets

\* A stream is made once, for an item that has been attached.
Made ==
  \A i \in Items, u \in Users :
    /\ opened[i][u] = IF u \in streams[i] THEN 1 ELSE 0
    /\ i \notin made => Len(received[i][u]) = 0

\* The loop is going to send to the item.
Pending(i) == sender # Nil /\ (item = i \/ next[item] = i)

IsAttached(i) == \E k \in 1..Len(attached) : attached[k] = i

\* What the item got is what the user said from the packet after a on.
Stretch(i, u, a) ==
  /\ a \in Nat /\ a + Len(received[i][u]) <= Len(spoken[u])
  /\ \A k \in 1..Len(received[i][u]) : received[i][u][k] = spoken[u][a + k]

\* How many of the packets of the user the item has not got yet.
Behind(i, u) == IF Pending(i) /\ sender = u THEN 1 ELSE 0

\* The stream goes on.
Current(i, u) == Len(received[i][u]) > 0 /\ (IsAttached(i) \/ Pending(i))

Unbroken(i, u) ==
  \E a : /\ Stretch(i, u, a)
         /\ Current(i, u) => a + Len(received[i][u]) = Len(spoken[u]) - Behind(i, u)

HearInv ==
  /\ HearTypes /\ Chained /\ Looping /\ Made
  /\ \A i \in Items, u \in Users : Unbroken(i, u)

-----------------------------------------------------------------------------
(* Sequences, and the list.                                                *)

\* What a step keeps of a stream that it does not touch.
LEMMA StreamKept ==
  ASSUME NEW i, NEW u, Unbroken(i, u),
         received'[i][u] = received[i][u], spoken'[u] = spoken[u],
         Current(i, u)' => Current(i, u) /\ Behind(i, u)' = Behind(i, u)
  PROVE  Unbroken(i, u)'
<1>1. PICK a : /\ Stretch(i, u, a)
               /\ Current(i, u) => a + Len(received[i][u]) = Len(spoken[u]) - Behind(i, u)
  BY DEF Unbroken
<1>2. Stretch(i, u, a)' BY <1>1 DEF Stretch
<1>3. Current(i, u)' => a + Len(received[i][u])' = Len(spoken[u])' - Behind(i, u)'
  BY <1>1
<1> QED BY <1>2, <1>3 DEF Unbroken

\* What Append adds to the list.
LEMMA AppendItem ==
  ASSUME NEW S, NEW s \in Seq(S), NEW e
  PROVE  /\ Append(s, e) \in Seq(S \cup {e}) /\ Len(Append(s, e)) = Len(s) + 1
         /\ \A k \in 1..Len(s) : Append(s, e)[k] = s[k]
         /\ Append(s, e)[Len(s) + 1] = e
<1>1. s \in Seq(S \cup {e}) OBVIOUS
<1> QED BY <1>1

\* What is left of the list without an element.
LEMMA WithoutItem ==
  ASSUME NEW S, NEW s \in Seq(S), NEW k \in 1..Len(s)
  PROVE  /\ Without(s, k) \in Seq(S) /\ Len(Without(s, k)) = Len(s) - 1
         /\ \A j \in 1..(Len(s) - 1) : Without(s, k)[j] = IF j < k THEN s[j] ELSE s[j + 1]
<1>1. Len(s) \in Nat /\ Len(s) - 1 \in Nat OBVIOUS
<1>2. Without(s, k) \in [1..(Len(s) - 1) -> S] BY <1>1 DEF Without
<1>3. Without(s, k) \in Seq(S) BY <1>1, <1>2
<1> QED BY <1>1, <1>2, <1>3 DEF Without

\* A sequence is the part of another one whose elements it has.
LEMMA SamePart ==
  ASSUME NEW S, NEW t \in Seq(S), NEW s \in Seq(S), NEW a \in Nat, a + Len(t) <= Len(s),
         \A k \in 1..Len(t) : t[k] = s[a + k]
  PROVE  t = SubSeq(s, a + 1, a + Len(t))
<1>1. PICK n \in Nat : n = Len(t) OBVIOUS
<1>2. PICK p : p = SubSeq(s, a + 1, a + n) BY Zenon
<1>3. p \in Seq(S) /\ Len(p) = n /\ \A k \in 1..n : p[k] = s[a + k]
  <2>1. Len(s) \in Nat /\ a + 1 \in Nat /\ a + n \in Nat /\ a + n <= Len(s) BY <1>1
  <2>2. (a + n) - (a + 1) + 1 = n /\ \A k \in 1..n : (a + 1) + k - 1 = a + k OBVIOUS
  <2> QED BY <1>2, <2>1, <2>2
<1>4. t = p BY <1>1, <1>3
<1> QED BY <1>1, <1>2, <1>4

\* A new item is last in the list.
LEMMA AttachChain ==
  ASSUME AtMostTwo, NilIsNone, HearTypes, Chained, NEW i \in Items, AttachAudio(i)
  PROVE  /\ HearTypes' /\ Chained'
         /\ Len(attached') = Len(attached) + 1 /\ attached'[Len(attached) + 1] = i
         /\ \A k \in 1..Len(attached) : attached'[k] = attached[k]
         /\ \A j \in Items : j # i => next'[j] = next[j] \/ (next[j] = Nil /\ next'[j] = i)
<1> DEFINE n == Len(attached)
<1>1. /\ i \notin made /\ made' = made \cup {i} /\ attached' = Append(attached, i)
      /\ prev' = [prev EXCEPT ![i] = tail]
      /\ head' = IF head = Nil THEN i ELSE head
      /\ tail' = IF tail = Nil THEN i ELSE tail
      /\ next' = IF tail = Nil THEN next ELSE [next EXCEPT ![tail] = i]
      /\ UNCHANGED <<packets, spoken, received, streams, opened>>
  BY DEF AttachAudio, Link, loopVars, streamVars
<1>2. /\ attached' \in Seq(made') /\ Len(attached') = n + 1 /\ n \in Nat
      /\ \A k \in 1..n : attached'[k] = attached[k] /\ attached[k] \in made
      /\ attached'[n + 1] = i
  BY <1>1, AppendItem DEF HearTypes
<1>3. HearTypes' BY <1>1, <1>2 DEF HearTypes
<1>4. n = 0 \/ n = 1
  <2>1. ASSUME n > 1 PROVE FALSE
    <3>1. attached[1] # attached[2] /\ 1 \in 1..n /\ 2 \in 1..n BY <2>1, <1>2 DEF Chained
    <3>2. attached[1] \in made /\ attached[2] \in made BY <3>1, <1>2
    <3>3. attached[1] \in Items /\ attached[2] \in Items BY <3>2 DEF HearTypes
    <3> QED BY <3>1, <3>2, <3>3, <1>1 DEF AtMostTwo
  <2>2. PICK m \in Nat : m = n BY <1>2
  <2>3. ~(m > 1) BY <2>1, <2>2
  <2>4. m = 0 \/ m = 1 BY <2>3
  <2> QED BY <2>2, <2>4
<1>5. next[i] = Nil /\ \A j \in Items : next[j] # i BY <1>1 DEF Chained
<1>6. CASE n = 0
  <2>1. head = Nil /\ tail = Nil BY <1>1, <1>6 DEF Chained
  <2>2. head' = i /\ tail' = i /\ next' = next /\ prev'[i] = Nil /\ Len(attached') = 1 /\ attached'[1] = i
    BY <1>1, <1>2, <1>6, <2>1 DEF HearTypes
  <2>3. Chained' BY <1>1, <1>5, <2>2 DEF Chained, HearTypes
  <2> QED BY <1>2, <1>3, <2>2, <2>3
<1>7. CASE n = 1
  <2>1. PICK j \in made : j = attached[1] /\ j \in Items /\ j # i BY <1>1, <1>2, <1>7 DEF HearTypes
  <2>2. head = j /\ tail = j /\ prev[j] = Nil /\ next[j] = Nil /\ j # Nil
    BY <1>1, <1>7, <2>1 DEF Chained, NilIsNone
  <2>3. /\ head' = j /\ next' = [next EXCEPT ![j] = i] /\ prev' = [prev EXCEPT ![i] = j]
        /\ Len(attached') = 2 /\ attached'[1] = j /\ attached'[2] = i
    BY <1>1, <1>2, <1>7, <2>1, <2>2
  <2>4. \A k \in Items : k = i \/ k = j BY <2>1 DEF AtMostTwo
  <2>5. made' = Items BY <1>1, <2>1, <2>4 DEF HearTypes
  <2>6. /\ next'[j] = i /\ next'[i] = Nil /\ prev'[i] = j /\ prev'[j] = Nil
    BY <1>5, <2>1, <2>2, <2>3 DEF HearTypes
  <2>7. Chained' BY <2>1, <2>2, <2>3, <2>4, <2>5, <2>6 DEF Chained, NilIsNone
  <2> QED BY <1>2, <1>3, <2>1, <2>2, <2>4, <2>6, <2>7
<1> QED BY <1>4, <1>6, <1>7

\* An item is taken out of the list, and keeps its own pointers.
LEMMA DetachChain ==
  ASSUME AtMostTwo, NilIsNone, HearTypes, Chained, NEW k \in 1..Len(attached), DetachAudio(k)
  PROVE  /\ HearTypes' /\ Chained'
         /\ \A m \in 1..Len(attached') : \E l \in 1..Len(attached) : attached'[m] = attached[l]
         /\ \A m \in 1..Len(attached) :
              m # k => \E l \in 1..Len(attached') : attached'[l] = attached[m]
         /\ \A m \in 1..Len(attached') : attached'[m] # attached[k]
         /\ \A j \in Items : next'[j] = next[j] \/ (next[j] = attached[k] /\ next'[j] = Nil)
<1> DEFINE n == Len(attached)
           i == attached[k]
<1>1. /\ head' = (IF prev[i] = Nil THEN next[i] ELSE head)
      /\ next' = (IF prev[i] = Nil THEN next ELSE [next EXCEPT ![prev[i]] = next[i]])
      /\ prev' = (IF next[i] = Nil THEN prev ELSE [prev EXCEPT ![next[i]] = prev[i]])
      /\ tail' = (IF next[i] = Nil THEN prev[i] ELSE tail)
      /\ attached' = Without(attached, k)
      /\ UNCHANGED <<made, packets, spoken, received, streams, opened>>
  BY DEF DetachAudio, DetachOne, Detach, loopVars, streamVars
<1>2. /\ attached' \in Seq(made) /\ Len(attached') = n - 1 /\ n \in Nat /\ n > 0
      /\ \A m \in 1..(n - 1) : attached'[m] = IF m < k THEN attached[m] ELSE attached[m + 1]
      /\ \A m \in 1..n : attached[m] \in made /\ attached[m] \in Items
  <2>1. attached \in Seq(made) /\ made \subseteq Items BY DEF HearTypes
  <2>2. n \in Nat /\ n > 0 /\ \A m \in 1..n : attached[m] \in made BY <2>1
  <2>3. /\ Without(attached, k) \in Seq(made) /\ Len(Without(attached, k)) = n - 1
        /\ \A m \in 1..(n - 1) : Without(attached, k)[m] = IF m < k THEN attached[m] ELSE attached[m + 1]
    BY <2>1, WithoutItem, Zenon
  <2> QED BY <1>1, <2>1, <2>2, <2>3
<1>3. i \in Items /\ i # Nil BY <1>2 DEF NilIsNone
<1>4. HearTypes' BY <1>1, <1>2, <1>3 DEF HearTypes
<1> HIDE DEF i
<1>5. n = 1 \/ n = 2 BY <1>2 DEF Chained
<1>6. CASE n = 1
  <2>1. k = 1 /\ i = attached[1] /\ prev[i] = Nil /\ next[i] = Nil BY <1>2, <1>6 DEF Chained, i
  <2>2. head' = Nil /\ tail' = Nil /\ UNCHANGED <<next, prev, made>> /\ Len(attached') = 0
    BY <1>1, <1>2, <1>6, <2>1
  <2>3. Chained' BY <2>2 DEF Chained
  <2> QED BY <1>2, <1>4, <1>6, <2>1, <2>2, <2>3
<1>7. CASE n = 2
  <2>1. PICK a \in made, b \in made :
          /\ a = attached[1] /\ b = attached[2] /\ a # b /\ a \in Items /\ b \in Items
          /\ head = a /\ prev[a] = Nil /\ next[a] = b /\ prev[b] = a /\ next[b] = Nil
    BY <1>2, <1>7 DEF Chained
  <2>2. /\ made = Items /\ a # Nil /\ b # Nil /\ \A j \in Items : j = a \/ j = b
    <3>1. a # Nil /\ b # Nil BY <2>1 DEF NilIsNone
    <3>2. \A j \in Items : j = a \/ j = b BY <2>1 DEF AtMostTwo
    <3> QED BY <2>1, <3>1, <3>2, ZenonT(30) DEF HearTypes
  <2>3. Len(attached') = 1 /\ attached'[1] = (IF k = 1 THEN b ELSE a)
    BY <1>2, <1>7, <2>1
  <2>4. CASE k = 1
    <3>1. i = a BY <2>1, <2>4 DEF i
    <3>2. head' = b /\ next' = next /\ prev' = [prev EXCEPT ![b] = Nil] BY <1>1, <2>1, <2>2, <3>1, Zenon
    <3>3. prev'[b] = Nil BY <2>1, <3>2 DEF HearTypes
    <3>4. Chained' BY <1>1, <2>1, <2>2, <2>3, <2>4, <3>2, <3>3 DEF Chained
    <3> QED BY <1>4, <1>7, <2>1, <2>3, <2>4, <3>1, <3>2, <3>4 DEF i
  <2>5. CASE k = 2
    <3>1. i = b BY <2>1, <2>5 DEF i
    <3>2. head' = a /\ next' = [next EXCEPT ![a] = Nil] /\ prev' = prev BY <1>1, <2>1, <2>2, <3>1, Zenon
    <3>3. next'[a] = Nil /\ next'[b] = Nil BY <2>1, <3>2 DEF HearTypes
    <3>4. Chained' BY <1>1, <2>1, <2>2, <2>3, <2>5, <3>2, <3>3 DEF Chained
    <3> QED BY <1>4, <1>7, <2>1, <2>2, <2>3, <2>5, <3>1, <3>3, <3>4 DEF i
  <2> QED BY <1>7, <2>4, <2>5
<1> QED BY <1>5, <1>6, <1>7, Zenon DEF i

-----------------------------------------------------------------------------
(* The steps.                                                              *)

\* A step that changes nothing of the list, of the loop and of the streams.
LEMMA QuietStep ==
  ASSUME HearInv,
         UNCHANGED <<listVars, packets, sender, item, streams, opened, received, spoken>>
  PROVE  HearInv'
<1>1. HearTypes' /\ Chained' BY DEF HearInv, HearTypes, Chained, listVars
<1>2. Looping' BY DEF HearInv, Looping, listVars
<1>3. Made' BY DEF HearInv, Made, listVars
<1>4. ASSUME NEW i \in Items, NEW u \in Users PROVE Unbroken(i, u)'
  <2>1. Current(i, u)' = Current(i, u) /\ Behind(i, u)' = Behind(i, u)
    BY DEF Current, Behind, IsAttached, Pending, listVars
  <2>2. Unbroken(i, u) BY DEF HearInv
  <2> QED BY <2>1, <2>2, StreamKept
<1> QED BY <1>1, <1>2, <1>3, <1>4 DEF HearInv

\* Attach: the new listener has no stream yet, and the loop may come to it.
LEMMA AttachStep ==
  ASSUME AtMostTwo, NilIsNone, HearInv, NEW i \in Items, AttachAudio(i)
  PROVE  HearInv'
<1>1. /\ i \notin made /\ made' = made \cup {i}
      /\ UNCHANGED <<sender, item, packets, spoken, received, streams, opened>>
  BY DEF AttachAudio, loopVars, streamVars
<1>2. /\ HearTypes' /\ Chained'
      /\ Len(attached') = Len(attached) + 1 /\ attached'[Len(attached) + 1] = i
      /\ \A k \in 1..Len(attached) : attached'[k] = attached[k]
      /\ \A j \in Items : j # i => next'[j] = next[j] \/ (next[j] = Nil /\ next'[j] = i)
  BY AttachChain DEF HearInv
<1>3. Looping' BY <1>1 DEF HearInv, Looping
<1>4. Made' BY <1>1 DEF HearInv, Made
<1>5. ASSUME NEW j \in Items, NEW u \in Users PROVE Unbroken(j, u)'
  <2>1. Unbroken(j, u) BY DEF HearInv
  <2>2. CASE j = i
    <3>1. Len(received[j][u]) = 0 BY <1>1, <2>2 DEF HearInv, Made
    <3>2. ~Current(j, u)' BY <1>1, <3>1 DEF Current
    <3> QED BY <1>1, <2>1, <3>2, StreamKept
  <2>3. CASE j # i
    <3>1. IsAttached(j)' => IsAttached(j)
      <4>1. Len(attached) \in Nat BY DEF HearInv, HearTypes
      <4> QED BY <1>2, <2>3, <4>1 DEF IsAttached
    <3>2. Pending(j)' <=> Pending(j)
      <4>1. CASE sender = Nil BY <1>1, <4>1 DEF Pending
      <4>2. CASE sender # Nil
        <5>1. item \in made /\ item \in Items /\ item # i
          BY <1>1, <4>2 DEF HearInv, HearTypes, Looping
        <5>2. next'[item] = j <=> next[item] = j BY <1>2, <2>3, <5>1 DEF NilIsNone
        <5> QED BY <1>1, <5>2 DEF Pending
      <4> QED BY <4>1, <4>2
    <3>3. Current(j, u)' => Current(j, u) BY <1>1, <3>1, <3>2 DEF Current
    <3>4. Behind(j, u)' = Behind(j, u) BY <1>1, <3>2 DEF Behind
    <3> QED BY <1>1, <2>1, <3>3, <3>4, StreamKept
  <2> QED BY <2>2, <2>3
<1> QED BY <1>2, <1>3, <1>4, <1>5 DEF HearInv

\* Detach: the streams of the others go on, and the loop may still come to the
\* one that is detached.
LEMMA DetachStep ==
  ASSUME AtMostTwo, NilIsNone, HearInv, NEW k \in 1..Len(attached), DetachAudio(k)
  PROVE  HearInv'
<1>1. UNCHANGED <<made, sender, item, packets, spoken, received, streams, opened>>
  BY DEF DetachAudio, DetachOne, loopVars, streamVars
<1>2. /\ HearTypes' /\ Chained'
      /\ \A m \in 1..Len(attached') : \E l \in 1..Len(attached) : attached'[m] = attached[l]
      /\ \A m \in 1..Len(attached') : attached'[m] # attached[k]
      /\ \A j \in Items : next'[j] = next[j] \/ (next[j] = attached[k] /\ next'[j] = Nil)
  BY DetachChain DEF HearInv
<1>3. Looping' BY <1>1 DEF HearInv, Looping
<1>4. Made' BY <1>1 DEF HearInv, Made
<1>5. ASSUME NEW j \in Items, NEW u \in Users PROVE Unbroken(j, u)'
  <2>1. Unbroken(j, u) BY DEF HearInv
  <2>2. IsAttached(j)' => IsAttached(j) /\ j # attached[k] BY <1>2 DEF IsAttached
  <2>3. Pending(j)' => Pending(j)
    <3>1. CASE sender = Nil BY <1>1, <3>1 DEF Pending
    <3>2. CASE sender # Nil
      <4>1. item \in Items BY <3>2 DEF HearInv, HearTypes, Looping
      <4>2. next'[item] = j => next[item] = j BY <1>2, <4>1 DEF NilIsNone
      <4> QED BY <1>1, <4>2 DEF Pending
    <3> QED BY <3>1, <3>2
  <2>4. j # attached[k] => (Pending(j)' <=> Pending(j))
    <3>1. CASE sender = Nil BY <1>1, <3>1 DEF Pending
    <3>2. CASE sender # Nil
      <4>1. item \in Items BY <3>2 DEF HearInv, HearTypes, Looping
      <4>2. j # attached[k] => (next'[item] = j <=> next[item] = j) BY <1>2, <4>1 DEF NilIsNone
      <4> QED BY <1>1, <4>2 DEF Pending
    <3> QED BY <3>1, <3>2
  <2>5. Current(j, u)' => Current(j, u) BY <1>1, <2>2, <2>3 DEF Current
  <2>6. Current(j, u)' => (Pending(j)' <=> Pending(j)) BY <2>2, <2>3, <2>4 DEF Current
  <2>7. Current(j, u)' => Behind(j, u)' = Behind(j, u) BY <1>1, <2>6 DEF Behind
  <2> QED BY <1>1, <2>1, <2>5, <2>7, StreamKept
<1> QED BY <1>2, <1>3, <1>4, <1>5 DEF HearInv

\* The loop begins with the first of the items that are attached, and comes to
\* all of them.
LEMMA DecodedStep ==
  ASSUME AtMostTwo, NilIsNone, HearInv, NEW u \in Users, Decoded(u)
  PROVE  HearInv'
<1>1. /\ sender = Nil /\ packets' = packets + 1 /\ item' = head
      /\ sender' = (IF head = Nil THEN Nil ELSE u)
      /\ spoken' = [spoken EXCEPT ![u] = Append(@, packets')]
      /\ UNCHANGED <<head, tail, prev, next, made, attached, received, streams, opened>>
  BY DEF Decoded, Idle, listVars, streamVars
<1>2. /\ spoken'[u] = Append(spoken[u], packets') /\ spoken[u] \in Seq(Nat) /\ packets' \in Nat
      /\ \A v \in Users : v # u => spoken'[v] = spoken[v]
  BY <1>1 DEF HearInv, HearTypes
<1>3. /\ spoken'[u] \in Seq(Nat) /\ Len(spoken'[u]) = Len(spoken[u]) + 1 /\ Len(spoken[u]) \in Nat
      /\ \A k \in 1..Len(spoken[u]) : spoken'[u][k] = spoken[u][k]
      /\ spoken'[u][Len(spoken'[u])] = packets'
  BY <1>2
<1>4. HearTypes' BY <1>1, <1>2, <1>3 DEF HearInv, HearTypes
<1>5. Chained' BY <1>1 DEF HearInv, Chained
<1>6. Made' BY <1>1 DEF HearInv, Made
<1>7. head # Nil => head \in made /\ head \in Items
  <2>1. attached \in Seq(made) /\ Len(attached) \in Nat BY DEF HearInv, HearTypes
  <2>2. head # Nil => Len(attached) > 0 /\ head = attached[1] BY <2>1 DEF HearInv, Chained
  <2>3. head # Nil => head \in made BY <2>1, <2>2
  <2> QED BY <2>3 DEF HearInv, HearTypes
<1>8. Looping' BY <1>1, <1>3, <1>7 DEF Looping
<1>9. ASSUME NEW i \in Items PROVE Pending(i)' <=> IsAttached(i)
  <2>1. attached \in Seq(made) /\ Len(attached) \in Nat /\ Chained /\ made \subseteq Items
    BY DEF HearInv, HearTypes
  <2>2. CASE Len(attached) = 0
    <3>1. head = Nil BY <2>1, <2>2 DEF Chained
    <3> QED BY <1>1, <2>2, <3>1 DEF Pending, IsAttached
  <2>3. CASE Len(attached) = 1
    <3>1. attached[1] \in Items /\ head = attached[1] /\ next[head] = Nil
      <4>1. head = attached[1] /\ next[attached[1]] = Nil BY <2>1, <2>3 DEF Chained
      <4>2. attached[1] \in made BY <2>1, <2>3
      <4> QED BY <2>1, <4>1, <4>2
    <3>2. head # Nil /\ i # Nil BY <3>1 DEF NilIsNone
    <3>3. IsAttached(i) <=> attached[1] = i BY <2>3 DEF IsAttached
    <3>4. Pending(i)' <=> head = i
      BY <1>1, <3>1, <3>2, <1>7 DEF Pending, NilIsNone
    <3> QED BY <3>1, <3>3, <3>4
  <2>4. CASE Len(attached) > 1
    <3>1. Len(attached) = 2 /\ head = attached[1] /\ next[head] = attached[2] BY <2>1, <2>4 DEF Chained
    <3>2. attached[1] \in Items /\ head # Nil BY <2>1, <3>1 DEF NilIsNone
    <3>3. IsAttached(i) <=> attached[1] = i \/ attached[2] = i
      <4>1. \A k \in 1..2 : k = 1 \/ k = 2 OBVIOUS
      <4> QED BY <3>1, <4>1 DEF IsAttached
    <3>4. Pending(i)' <=> head = i \/ next[head] = i
      BY <1>1, <3>2, <1>7 DEF Pending, NilIsNone
    <3> QED BY <3>1, <3>3, <3>4
  <2>5. Len(attached) = 0 \/ Len(attached) = 1 \/ Len(attached) > 1
    <3>1. PICK m \in Nat : m = Len(attached) BY <2>1
    <3>2. m = 0 \/ m = 1 \/ m > 1 OBVIOUS
    <3> QED BY <3>1, <3>2
  <2> QED BY <2>2, <2>3, <2>4, <2>5
<1>10. ASSUME NEW i \in Items, NEW v \in Users PROVE Unbroken(i, v)'
  <2>1. PICK a : /\ Stretch(i, v, a)
                 /\ Current(i, v) => a + Len(received[i][v]) = Len(spoken[v]) - Behind(i, v)
    BY DEF HearInv, Unbroken
  <2>2. Current(i, v)' => Current(i, v) /\ Pending(i)'
    BY <1>1, <1>9 DEF Current, IsAttached
  <2>3. Behind(i, v) = 0 BY <1>1 DEF Behind, Pending
  <2>4. CASE v # u
    <3>1. spoken'[v] = spoken[v] /\ Behind(i, v)' = 0
      BY <1>1, <1>2, <2>4 DEF Behind, Pending
    <3> QED BY <1>1, <2>2, <2>3, <3>1, StreamKept DEF HearInv
  <2>5. CASE v = u
    <3>1. /\ received'[i][v] = received[i][v] /\ received[i][v] \in Seq(Nat)
          /\ Len(received[i][v]) \in Nat /\ a \in Nat
      BY <1>1, <2>1 DEF HearInv, HearTypes, Stretch
    <3>2. Stretch(i, v, a)'
      <4>1. a + Len(received[i][v]) <= Len(spoken[v])' BY <1>3, <2>1, <2>5, <3>1 DEF Stretch
      <4>2. ASSUME NEW k \in 1..Len(received[i][v])
            PROVE  received[i][v][k] = spoken'[v][a + k]
        <5>1. a + k \in 1..Len(spoken[u]) BY <1>3, <2>1, <2>5, <3>1 DEF Stretch
        <5>2. received[i][v][k] = spoken[v][a + k] BY <2>1, Zenon DEF Stretch
        <5> QED BY <1>3, <2>5, <5>1, <5>2, Zenon
      <4> QED BY <3>1, <4>1, <4>2, Zenon DEF Stretch
    <3>3. Current(i, v)' => a + Len(received[i][v])' = Len(spoken[v])' - Behind(i, v)'
      <4>1. ASSUME Current(i, v)' PROVE a + Len(received[i][v]) = Len(spoken[v]) /\ Behind(i, v)' = 1
        <5>1. Current(i, v) /\ Pending(i)' BY <2>2, <4>1
        <5>2. sender' = v BY <1>1, <2>5, <5>1 DEF Pending
        <5>3. Len(spoken[v]) - 0 = Len(spoken[v]) BY <1>3, <2>5
        <5> QED BY <2>1, <2>3, <5>1, <5>2, <5>3, Zenon DEF Behind
      <4>2. Len(spoken[v])' - 1 = Len(spoken[v]) BY <1>3, <2>5
      <4> QED BY <3>1, <4>1, <4>2, Zenon
    <3> QED BY <3>2, <3>3, Zenon DEF Unbroken
  <2> QED BY <2>4, <2>5
<1> QED BY <1>4, <1>5, <1>6, <1>8, <1>10 DEF HearInv

\* A stream is made if there is none.
LEMMA StreamStep ==
  ASSUME NilIsNone, HearInv, Stream
  PROVE  HearInv'
<1>1. /\ sender \in Users /\ item \in Items
      /\ UNCHANGED <<listVars, packets, sender, item, received, spoken>>
  BY DEF Stream, Idle, HearInv, Looping, HearTypes
<1>2. /\ streams \in [Items -> SUBSET Users] /\ opened \in [Items -> [Users -> Nat]] /\ Made
  BY DEF HearInv, HearTypes
<1>3. CASE sender \in streams[item]
  BY <1>1, <1>3, QuietStep DEF Stream
<1>4. CASE sender \notin streams[item]
  <2>1. /\ streams' = [streams EXCEPT ![item] = @ \cup {sender}]
        /\ opened' = [opened EXCEPT ![item][sender] = @ + 1]
    BY <1>4 DEF Stream, OpenStream
  <2>2. streams' \in [Items -> SUBSET Users] /\ opened' \in [Items -> [Users -> Nat]]
    BY <1>1, <1>2, <2>1
  <2>3. HearTypes' BY <1>1, <2>2, Zenon DEF HearInv, HearTypes, listVars
  <2>4. Chained' /\ Looping' BY <1>1 DEF HearInv, Chained, Looping, listVars
  <2>5. Made'
    <3> SUFFICES ASSUME NEW i \in Items, NEW u \in Users
                 PROVE  opened'[i][u] = IF u \in streams'[i] THEN 1 ELSE 0
      BY <1>1, <1>2 DEF Made, listVars
    <3>1. opened[i][u] = IF u \in streams[i] THEN 1 ELSE 0 BY <1>2 DEF Made
    <3>2. CASE i = item /\ u = sender
      <4>1. opened[i][u] = 0 BY <1>4, <3>1, <3>2
      <4>2. opened'[i][u] = opened[i][u] + 1 BY <1>1, <1>2, <2>1, <3>2
      <4>3. u \in streams'[i] BY <1>1, <1>2, <2>1, <3>2
      <4> QED BY <4>1, <4>2, <4>3
    <3>3. CASE ~(i = item /\ u = sender)
      <4>1. opened'[i][u] = opened[i][u] BY <1>1, <1>2, <2>1, <3>3
      <4>2. u \in streams'[i] <=> u \in streams[i] BY <1>1, <1>2, <2>1, <3>3
      <4> QED BY <3>1, <4>1, <4>2
    <3> QED BY <3>2, <3>3
  <2>6. ASSUME NEW i \in Items, NEW u \in Users PROVE Unbroken(i, u)'
    <3>1. Current(i, u)' = Current(i, u) /\ Behind(i, u)' = Behind(i, u)
      BY <1>1 DEF Current, Behind, IsAttached, Pending, listVars
    <3>2. Unbroken(i, u) BY DEF HearInv
    <3> QED BY <1>1, <3>1, <3>2, StreamKept
  <2> QED BY <2>3, <2>4, <2>5, <2>6 DEF HearInv
<1> QED BY <1>3, <1>4

\* The packet is received, and the loop goes on to the next item, from which
\* it does not come back.
LEMMA SendStep ==
  ASSUME AtMostTwo, NilIsNone, HearInv, Send
  PROVE  HearInv'
<1>1. /\ sender \in Users /\ sender # Nil /\ item \in Items /\ item \in made
      /\ Len(spoken[sender]) > 0 /\ spoken[sender][Len(spoken[sender])] = packets
  BY DEF Send, Idle, HearInv, Looping, HearTypes
<1>2. /\ received' = [received EXCEPT ![item][sender] = Append(@, packets)]
      /\ item' = next[item] /\ sender' = (IF next[item] = Nil THEN Nil ELSE sender)
      /\ UNCHANGED <<head, tail, prev, next, made, attached, packets, streams, opened, spoken>>
  BY DEF Send, listVars
<1>3. /\ received \in [Items -> [Users -> Seq(Nat)]] /\ packets \in Nat
      /\ spoken \in [Users -> Seq(Nat)] /\ next \in [Items -> Items \cup {Nil}] /\ Chained
      /\ Made /\ made \subseteq Items
  BY DEF HearInv, HearTypes
<1>4. PICK got \in Seq(Nat) : got = received[item][sender] BY <1>1, <1>3
<1>5. /\ Append(got, packets) \in Seq(Nat) /\ Len(Append(got, packets)) = Len(got) + 1
      /\ Len(got) \in Nat
      /\ \A k \in 1..Len(got) : Append(got, packets)[k] = got[k]
      /\ Append(got, packets)[Len(got) + 1] = packets
  BY <1>3
<1>6. /\ received'[item][sender] = Append(got, packets)
      /\ received' \in [Items -> [Users -> Seq(Nat)]]
      /\ \A i \in Items, u \in Users : i # item \/ u # sender => received'[i][u] = received[i][u]
  BY <1>1, <1>2, <1>3, <1>4, <1>5, Zenon
<1>7. HearTypes' BY <1>2, <1>6, Zenon DEF HearInv, HearTypes
<1>8. Chained' BY <1>2, <1>3 DEF Chained
<1>9. Looping'
  <2>1. next[item] # Nil => next[item] \in made BY <1>1, <1>3 DEF Chained
  <2> QED BY <1>1, <1>2, <2>1 DEF Looping
<1>10. Made' BY <1>1, <1>2, <1>3, <1>6 DEF Made
<1>11. next[item] # item /\ (next[item] # Nil => next[next[item]] = Nil)
  BY <1>1, <1>3 DEF Chained
<1>12. PICK at \in Items : at = item BY <1>1
<1>s. Pending(at) /\ ~Pending(at)'
  BY <1>1, <1>2, <1>11, <1>12 DEF Pending, NilIsNone
<1>13. ASSUME NEW i \in Items, i # item PROVE Pending(i)' <=> Pending(i)
  <2>1. i # Nil BY DEF NilIsNone
  <2>2. Pending(i) <=> next[item] = i BY <1>1, <1>13 DEF Pending
  <2>3. Pending(i)' <=> next[item] = i BY <1>1, <1>2, <1>11, <2>1 DEF Pending
  <2> QED BY <2>2, <2>3
<1>14. ASSUME NEW i \in Items, NEW u \in Users PROVE Unbroken(i, u)'
  <2>1. Unbroken(i, u) BY DEF HearInv
  <2>2. CASE i # item
    <3>1. received'[i][u] = received[i][u] BY <1>6, <2>2
    <3>2. Pending(i)' <=> Pending(i) BY <1>13, <2>2
    <3>3. Current(i, u)' <=> Current(i, u) BY <1>2, <3>1, <3>2, Zenon DEF Current, IsAttached
    <3>4. Pending(i)' => sender' = sender BY <1>2 DEF Pending
    <3>5. Behind(i, u)' = Behind(i, u) BY <3>2, <3>4 DEF Behind
    <3> QED BY <1>2, <2>1, <3>1, <3>3, <3>5, StreamKept
  <2>3. CASE i = item /\ u # sender
    <3>1. received'[i][u] = received[i][u] BY <1>6, <2>3
    <3>2. Current(i, u)' => Current(i, u) BY <1>2, <1>12, <1>s, <2>3, <3>1 DEF Current, IsAttached
    <3>3. Behind(i, u)' = 0 /\ Behind(i, u) = 0 BY <1>2, <1>12, <1>s, <2>3 DEF Behind
    <3> QED BY <1>2, <2>1, <3>1, <3>2, <3>3, StreamKept
  <2>4. CASE i = item /\ u = sender
    <3>1. PICK l \in Nat : l = Len(spoken[u]) /\ l > 0 /\ spoken[u][l] = packets
      BY <1>1, <1>3, <2>4
    <3>2. PICK a \in Nat : /\ a + Len(got) = l - 1
                           /\ \A k \in 1..Len(got) : got[k] = spoken[u][a + k]
      <4>1. CASE Len(got) = 0
        <5>1. l - 1 \in Nat /\ (l - 1) + 0 = l - 1 BY <3>1
        <5> QED BY <4>1, <5>1
      <4>2. CASE Len(got) > 0
        <5>1. Behind(i, u) = 1 /\ Current(i, u)
          BY <1>4, <1>12, <1>s, <2>4, <4>2 DEF Behind, Current
        <5> QED BY <1>4, <2>1, <2>4, <3>1, <5>1 DEF Unbroken, Stretch
      <4>3. Len(got) = 0 \/ Len(got) > 0
        <5>1. PICK m \in Nat : m = Len(got) BY <1>5
        <5>2. m = 0 \/ m > 0 OBVIOUS
        <5> QED BY <5>1, <5>2
      <4> QED BY <4>1, <4>2, <4>3, Zenon
    <3>3. PICK new \in Seq(Nat) : new = received'[i][u] /\ Len(new) = Len(got) + 1
                                  /\ a + Len(new) = l /\ Len(new) \in Nat
      <4>1. PICK new \in Seq(Nat) : new = received'[i][u] /\ new = Append(got, packets)
        BY <1>5, <1>6, <2>4
      <4>2. Len(new) = Len(got) + 1 /\ Len(got) \in Nat BY <1>5, <4>1
      <4>3. a + (Len(got) + 1) = l /\ Len(got) + 1 \in Nat BY <1>5, <3>1, <3>2
      <4> QED BY <4>1, <4>2, <4>3, Zenon
    <3>4. ASSUME NEW k \in 1..Len(new) PROVE new[k] = spoken'[u][a + k]
      <4>1. CASE k = Len(new)
        <5>1. a + k = l /\ k = Len(got) + 1 BY <3>3, <4>1
        <5> QED BY <1>2, <1>5, <1>6, <2>4, <3>1, <3>3, <5>1
      <4>2. CASE k # Len(new)
        <5>1. k \in 1..Len(got) BY <1>5, <3>3, <4>2
        <5> QED BY <1>2, <1>5, <1>6, <2>4, <3>2, <3>3, <5>1
      <4> QED BY <4>1, <4>2
    <3>5. Stretch(i, u, a)'
      <4>1. spoken'[u] = spoken[u] BY <1>2
      <4>2. a + Len(new) <= l BY <3>1, <3>3
      <4> QED BY <3>1, <3>3, <3>4, <4>1, <4>2 DEF Stretch
    <3>6. Behind(i, u)' = 0 BY <1>12, <1>s, <2>4 DEF Behind
    <3>7. a + Len(received[i][u])' = Len(spoken[u])' - Behind(i, u)'
      <4>1. l - 0 = l OBVIOUS
      <4> QED BY <1>2, <3>1, <3>3, <3>6, <4>1
    <3> QED BY <3>5, <3>7 DEF Unbroken
  <2> QED BY <2>2, <2>3, <2>4
<1> QED BY <1>7, <1>8, <1>9, <1>10, <1>14 DEF HearInv

\* Every step keeps the invariant.
LEMMA HearStep ==
  ASSUME AtMostTwo, NilIsNone, HearInv, [Next]_vars
  PROVE  HearInv'
<1>1. CASE \E i \in Items : AttachAudio(i) BY <1>1, AttachStep
<1>2. CASE \E k \in DOMAIN attached : DetachAudio(k)
  <2>1. DOMAIN attached = 1..Len(attached) BY DEF HearInv, HearTypes
  <2> QED BY <1>2, <2>1, DetachStep
<1>3. CASE \E u \in Users : Decoded(u) BY <1>3, DecodedStep
<1>4. CASE Stream BY <1>4, StreamStep
<1>5. CASE Send BY <1>5, SendStep
<1>6. CASE \/ HandleCodecVersion \/ UNCHANGED vars
           \/ \E u \in Users : UserConnects(u) \/ UserLeaves(u) \/ Refused(u)
           \/ \E i \in Items, u \in Users : Receive(i, u)
  <2>1. UNCHANGED <<listVars, packets, sender, item, streams, opened, received, spoken>>
    BY <1>6 DEF HandleCodecVersion, UserConnects, UserLeaves, Refused, Receive, vars,
                loopVars, streamVars
  <2> QED BY <2>1, QuietStep
<1> QED BY <1>1, <1>2, <1>3, <1>4, <1>5, <1>6 DEF Next

\* A stream is one stretch of what its user said, and is made once
\* (handlers.go:148-173), for any users and packets and for at most two
\* listeners.
THEOREM StreamsHeard ==
  ASSUME AtMostTwo, NilIsNone
  PROVE  Spec => []StreamsUnbroken
<1>1. Init => HearInv
  <2> SUFFICES ASSUME Init PROVE HearInv OBVIOUS
  <2>1. HearTypes BY DEF Init, ListInit, HearTypes
  <2>2. Chained BY DEF Init, ListInit, Chained, NilIsNone
  <2>3. Looping BY DEF Init, Looping
  <2>4. Made BY DEF Init, Made
  <2>5. ASSUME NEW i \in Items, NEW u \in Users PROVE Unbroken(i, u)
    <3>1. Len(received[i][u]) = 0 /\ Len(spoken[u]) = 0 BY DEF Init
    <3>2. Stretch(i, u, 0) BY <3>1 DEF Stretch
    <3> QED BY <3>1, <3>2 DEF Unbroken, Current
  <2> QED BY <2>1, <2>2, <2>3, <2>4, <2>5 DEF HearInv
<1>2. HearInv => StreamsUnbroken
  <2> SUFFICES ASSUME HearInv, NEW i \in Items, NEW u \in Users
               PROVE  /\ opened[i][u] <= 1
                      /\ \E a \in 0..Len(spoken[u]) :
                           received[i][u] = SubSeq(spoken[u], a + 1, a + Len(received[i][u]))
    BY Zenon DEF StreamsUnbroken, HearInv, HearTypes
  <2>1. opened[i][u] <= 1 BY DEF HearInv, Made
  <2>2. PICK a : Stretch(i, u, a) BY DEF HearInv, Unbroken
  <2>3. PICK got \in Seq(Nat), said \in Seq(Nat) : got = received[i][u] /\ said = spoken[u]
    BY Zenon DEF HearInv, HearTypes
  <2>4. /\ a \in Nat /\ a + Len(got) <= Len(said) /\ Len(got) \in Nat /\ Len(said) \in Nat
        /\ \A k \in 1..Len(got) : got[k] = said[a + k]
    <3>1. Len(got) \in Nat /\ Len(said) \in Nat OBVIOUS
    <3>2. a \in Nat /\ a + Len(got) <= Len(said) BY <2>2, <2>3 DEF Stretch
    <3>3. \A k \in 1..Len(got) : got[k] = said[a + k] BY <2>2, <2>3 DEF Stretch
    <3> QED BY <3>1, <3>2, <3>3, Zenon
  <2>5. got = SubSeq(said, a + 1, a + Len(got))
    BY <2>4, SamePart
  <2>6. a \in 0..Len(said) BY <2>4
  <2> QED BY <2>1, <2>3, <2>5, <2>6
<1>3. HearInv /\ [Next]_vars => HearInv' BY HearStep
<1> QED BY <1>1, <1>2, <1>3, PTL DEF Spec

-----------------------------------------------------------------------------
(* Access control lists, and the version.                                  *)

Control == INSTANCE ControlFormat
Induction == INSTANCE WellFoundedInduction

\* A packet: any lists, with any values in their fields, whose rules are about a
\* user or a group.
IsGroup(g) ==
  DOMAIN g = {"name", "inherited", "inherit", "inheritable", "add", "remove", "members"}
IsRule(r) ==
  /\ DOMAIN r = {"here", "subs", "inherited", "grant", "deny", "user", "group"}
  /\ r.user = Nil \/ r.group = Nil
IsACL(p) ==
  /\ \E n \in Nat : DOMAIN p.groups = 1..n
  /\ \A k \in DOMAIN p.groups : IsGroup(p.groups[k])
  /\ \A k \in DOMAIN p.rules : IsRule(p.rules[k])

\* A group of a rule is not Nil.
NilIsNoGroup == \A x : [own |-> x] # Nil /\ [at |-> x] # Nil

\* A set of places has a first one.
LEMMA FirstOf ==
  ASSUME NEW S \in SUBSET Nat, S # {}
  PROVE  Control!Min(S) \in S
<1>1. PICK m \in S : \A k \in S : <<k, m>> \notin Induction!OpToRel(<, Nat)
  BY Induction!WFMin, Induction!NatLessThanWellFounded, Zenon
<1>2. ASSUME NEW k \in S PROVE m <= k
  <2>1. Induction!OpToRel(<, Nat) = {ss \in Nat \X Nat : ss[1] < ss[2]}
    BY DEF Induction!OpToRel
  <2>2. ~(k < m) BY <1>1, <2>1, Zenon
  <2> QED BY <2>2
<1> QED BY <1>2, ZenonT(30) DEF Control!Min

\* The group that is found for a rule has the name that the rule has.
LEMMA RuleGroupName ==
  ASSUME NilIsNoGroup, NEW p, IsACL(p), NEW r, IsRule(r),
         NEW g, g = Control!RuleGroup(p.groups, r)
  PROVE  /\ r.group = IF g = Nil THEN Nil
                      ELSE IF "own" \in DOMAIN g THEN g.own ELSE p.groups[g.at].name
         /\ g # Nil /\ "own" \notin DOMAIN g => g.at \in DOMAIN p.groups
<1>1. CASE r.user # Nil \/ r.group = Nil
  BY <1>1 DEF Control!RuleGroup, IsRule
<1>2. CASE ~(r.user # Nil \/ r.group = Nil)
  <2> DEFINE named == {k \in DOMAIN p.groups : p.groups[k].name = r.group}
  <2>1. CASE named = {}
    <3>1. g = [own |-> r.group] BY <1>2, <2>1, Zenon DEF Control!RuleGroup
    <3> QED BY <3>1 DEF NilIsNoGroup
  <2>2. CASE named # {}
    <3>1. g = [at |-> Control!Min(named)] BY <1>2, <2>2 DEF Control!RuleGroup
    <3>2. named \in SUBSET Nat BY DEF IsACL
    <3>3. Control!Min(named) \in named BY <2>2, <3>2, FirstOf, Zenon
    <3> HIDE DEF named
    <3>4. g # Nil /\ "own" \notin DOMAIN g /\ g.at = Control!Min(named) BY <3>1 DEF NilIsNoGroup
    <3>5. Control!Min(named) \in DOMAIN p.groups /\ p.groups[Control!Min(named)].name = r.group
      BY <3>3 DEF named
    <3> QED BY <3>4, <3>5, Zenon
  <2> QED BY <2>1, <2>2
<1> QED BY <1>1, <1>2

\* Sending back an access control list as it was received changes nothing in it
\* but that the message does not say what is inherited (handlers.go:784-851,
\* acl.go:20-60): for any lists and values.
THEOREM AclsKept ==
  ASSUME NilIsNoGroup, NEW p, IsACL(p)
  PROVE  Control!AclRoundTrip(p)
<1> DEFINE a == Control!ReadACL(p)
           q == Control!WriteACL(a)
<1>1. q.inherits = p.inherits
  BY Zenon DEF Control!ReadACL, Control!WriteACL
<1>2. q.groups = [k \in DOMAIN p.groups |->
        [f \in DOMAIN p.groups[k] \ {"inherited", "members"} |-> p.groups[k][f]]]
  <2>1. q.groups = [k \in DOMAIN p.groups |->
          [name |-> p.groups[k].name, inherit |-> p.groups[k].inherit,
           inheritable |-> p.groups[k].inheritable,
           add |-> p.groups[k].add, remove |-> p.groups[k].remove]]
    BY ZenonT(30) DEF Control!ReadACL, Control!WriteACL
  <2>2. ASSUME NEW k \in DOMAIN p.groups
        PROVE  [name |-> p.groups[k].name, inherit |-> p.groups[k].inherit,
                inheritable |-> p.groups[k].inheritable,
                add |-> p.groups[k].add, remove |-> p.groups[k].remove]
               = [f \in DOMAIN p.groups[k] \ {"inherited", "members"} |-> p.groups[k][f]]
    <3>1. PICK g : g = p.groups[k] OBVIOUS
    <3>2. DOMAIN g \ {"inherited", "members"} = {"name", "inherit", "inheritable", "add", "remove"}
      BY <3>1 DEF IsACL, IsGroup
    <3>3. [name |-> g.name, inherit |-> g.inherit, inheritable |-> g.inheritable,
           add |-> g.add, remove |-> g.remove]
          = [f \in {"name", "inherit", "inheritable", "add", "remove"} |-> g[f]]
      OBVIOUS
    <3> QED BY <3>1, <3>2, <3>3, Zenon
  <2> QED BY <2>1, <2>2, Zenon
<1>3. q.rules = [k \in DOMAIN p.rules |->
        [f \in DOMAIN p.rules[k] \ {"inherited"} |-> p.rules[k][f]]]
  <2> DEFINE name(g) == IF g = Nil THEN Nil ELSE IF "own" \in DOMAIN g THEN g.own ELSE a.groups[g.at].Name
  <2>1. q.rules = [k \in DOMAIN p.rules |->
          [here |-> p.rules[k].here, subs |-> p.rules[k].subs,
           grant |-> p.rules[k].grant, deny |-> p.rules[k].deny,
           user |-> p.rules[k].user, group |-> name(Control!RuleGroup(p.groups, p.rules[k]))]]
    <3>1. /\ DOMAIN a.rules = DOMAIN p.rules
          /\ \A k \in DOMAIN p.rules :
               /\ a.rules[k].AppliesCurrent = p.rules[k].here
               /\ a.rules[k].AppliesChildren = p.rules[k].subs
               /\ a.rules[k].Granted = p.rules[k].grant /\ a.rules[k].Denied = p.rules[k].deny
               /\ a.rules[k].User = p.rules[k].user
               /\ a.rules[k].Group = Control!RuleGroup(p.groups, p.rules[k])
      BY ZenonT(30) DEF Control!ReadACL
    <3> HIDE DEF a
    <3>2. q.rules = [k \in DOMAIN a.rules |->
            [here |-> a.rules[k].AppliesCurrent, subs |-> a.rules[k].AppliesChildren,
             grant |-> a.rules[k].Granted, deny |-> a.rules[k].Denied,
             user |-> a.rules[k].User, group |-> name(a.rules[k].Group)]]
      BY DEF Control!WriteACL
    <3> HIDE DEF q, name
    <3>3. ASSUME NEW k \in DOMAIN p.rules
          PROVE  [here |-> a.rules[k].AppliesCurrent, subs |-> a.rules[k].AppliesChildren,
                  grant |-> a.rules[k].Granted, deny |-> a.rules[k].Denied,
                  user |-> a.rules[k].User, group |-> name(a.rules[k].Group)]
                 = [here |-> p.rules[k].here, subs |-> p.rules[k].subs,
                    grant |-> p.rules[k].grant, deny |-> p.rules[k].deny,
                    user |-> p.rules[k].user,
                    group |-> name(Control!RuleGroup(p.groups, p.rules[k]))]
      <4>1. PICK g : g = Control!RuleGroup(p.groups, p.rules[k]) OBVIOUS
      <4>2. a.rules[k].Group = g BY <3>1, <4>1, Zenon
      <4> QED BY <3>1, <4>1, <4>2, Zenon
    <3> QED BY <3>1, <3>2, <3>3, Zenon
  <2>2. ASSUME NEW k \in DOMAIN p.rules
        PROVE  [here |-> p.rules[k].here, subs |-> p.rules[k].subs,
                grant |-> p.rules[k].grant, deny |-> p.rules[k].deny,
                user |-> p.rules[k].user, group |-> name(Control!RuleGroup(p.groups, p.rules[k]))]
               = [f \in DOMAIN p.rules[k] \ {"inherited"} |-> p.rules[k][f]]
    <3>1. PICK r : r = p.rules[k] OBVIOUS
    <3>2. PICK g : g = Control!RuleGroup(p.groups, r) OBVIOUS
    <3>3. IsRule(r) BY <3>1 DEF IsACL
    <3>4. g # Nil /\ "own" \notin DOMAIN g => a.groups[g.at].Name = p.groups[g.at].name
      <4>1. \A i \in DOMAIN p.groups : a.groups[i].Name = p.groups[i].name
        BY Zenon DEF Control!ReadACL
      <4> QED BY <3>2, <3>3, <4>1, RuleGroupName, Zenon
    <3>5. name(g) = r.group BY <3>2, <3>3, <3>4, RuleGroupName
    <3>6. DOMAIN r \ {"inherited"} = {"here", "subs", "grant", "deny", "user", "group"}
      BY <3>3 DEF IsRule
    <3>7. [here |-> r.here, subs |-> r.subs, grant |-> r.grant, deny |-> r.deny,
           user |-> r.user, group |-> r.group]
          = [f \in {"here", "subs", "grant", "deny", "user", "group"} |-> r[f]]
      OBVIOUS
    <3> QED BY <3>1, <3>2, <3>5, <3>6, <3>7, Zenon
  <2> QED BY <2>1, <2>2, Zenon
<1> QED BY <1>1, <1>2, <1>3, Zenon DEF Control!AclRoundTrip

\* A version that packSemver accepts is read from the number at the other end
\* (client.go:18-25, version.go:18-23).
THEOREM VersionsKept ==
  ASSUME NEW maj \in Nat, NEW min \in Nat, NEW pat \in Nat,
         Control!packSemver(maj, min, pat) # Nil
  PROVE  Control!SemanticVersion(Control!packSemver(maj, min, pat)) = <<maj, min, pat>>
<1>1. maj <= 65535 /\ min <= 255 /\ pat <= 255
      /\ Control!packSemver(maj, min, pat) = <<maj, min * 256 + pat>>
  BY DEF Control!packSemver
<1>2. (min * 256 + pat) \div 256 = min /\ (min * 256 + pat) % 256 = pat
  BY <1>1
<1> QED BY <1>1, <1>2 DEF Control!SemanticVersion
=============================================================================
