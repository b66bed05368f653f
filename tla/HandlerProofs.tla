--------------------------- MODULE HandlerProofs ----------------------------
(***************************************************************************)
(* What the read routine hands to the program: the events, to the          *)
(* listeners that are attached, and the statistics and lists that it makes *)
(* of packets and that a program changes and sends back; for any number of *)
(* listeners, users and bans.                                              *)
(***************************************************************************)
EXTENDS Listeners, UserStatisticsPromise, BanListsPromise, UserListsPromise, TLAPS

-----------------------------------------------------------------------------
(***************************************************************************)
(* The listeners (Listeners). The pointers say nothing by themselves of    *)
(* where the loop is when the item it calls is detached: Reaches says what *)
(* can be got to over them, from attached and from detached items.         *)
(***************************************************************************)

\* The types; no item is attached twice, and one that has not been made has
\* no successor.
ListTypes ==
  /\ made \subseteq Items
  /\ attached \in Seq(Items) /\ \A m \in 1..Len(attached) : attached[m] \in made
  /\ prev \in [Items -> Items \cup {Nil}] /\ next \in [Items -> Items \cup {Nil}]
  /\ called \in Seq(Items) /\ \A k \in 1..Len(called) : called[k] \in made
  /\ item \in made \cup {Nil} /\ staying \subseteq Range(attached)
  /\ \A m, n \in 1..Len(attached) : attached[m] = attached[n] => m = n
  /\ \A i \in Items \ made : next[i] = Nil

\* The elements of s from the m-th on.
Suffix(s, m) == {s[j] : j \in m..Len(s)}

\* T gives the items that the loop can still get to from an item, over the
\* pointers: from an attached one to all attached after it, and from a
\* detached one over the pointer it has kept, never back to itself.
Reaches(T) ==
  /\ T \in [made \cup {Nil} -> SUBSET made]
  /\ T[Nil] = {}
  /\ \A m \in 1..Len(attached) : T[attached[m]] = Suffix(attached, m)
  /\ \A d \in made \ Range(attached) :
       /\ next[d] \in made \cup {Nil}
       /\ d \notin T[next[d]] /\ T[d] = {d} \cup T[next[d]]
  /\ \A d \in made, m, n \in 1..Len(attached) :
       m < n /\ attached[m] \in T[d] => attached[n] \in T[d]

\* Of the items that the loop can still get to, only the one being called was
\* called; those that stay were called or can be got to.
Progress(T) ==
  /\ T[item] \cap Range(called) = {item} \ {Nil}
  /\ staying \subseteq Range(called) \cup T[item]

\* No item was called twice, and of two that stay the first was called before
\* the second.
CalledInOrder ==
  /\ \A j, k \in 1..Len(called) : called[j] = called[k] => j = k
  /\ \A k \in 1..Len(called), m, n \in 1..Len(attached) :
       m < n /\ called[k] = attached[n] /\ attached[m] \in staying /\ attached[n] \in staying =>
         \E j \in 1..Len(called) : j < k /\ called[j] = attached[m]

\* The inductive invariant.  That a detached item keeps its pointer, and what
\* can be got to over it, is what makes the loop find every item that stays
\* although the item being called was detached.
ListenersInv ==
  /\ ListTypes /\ Linked /\ CalledInOrder
  /\ \E T \in [made \cup {Nil} -> SUBSET made] : Reaches(T) /\ Progress(T)


\* A sequence without its k-th element.
LEMMA WithoutIsSeq ==
  ASSUME NEW S, NEW s \in Seq(S), NEW k \in 1..Len(s)
  PROVE  /\ Without(s, k) \in Seq(S) /\ Len(s) \in Nat
         /\ Len(Without(s, k)) = Len(s) - 1
         /\ \A j \in 1..(k - 1) : Without(s, k)[j] = s[j]
         /\ \A j \in k..(Len(s) - 1) : Without(s, k)[j] = s[j + 1]
<1>1. Len(s) - 1 \in Nat OBVIOUS
<1>2. Without(s, k) \in [1..(Len(s) - 1) -> S] BY DEF Without
<1>3. Without(s, k) \in Seq(S) BY <1>1, <1>2
<1> QED BY <1>1, <1>2, <1>3 DEF Without

\* An element is in the suffixes that begin at its place or before it.
LEMMA SuffixHas ==
  ASSUME NEW s, Len(s) \in Nat, NEW k \in 1..Len(s), NEW m \in 1..Len(s),
         \A i, j \in 1..Len(s) : s[i] = s[j] => i = j
  PROVE  s[k] \in Suffix(s, m) <=> m <= k
<1>1. ASSUME m <= k PROVE s[k] \in Suffix(s, m)
  <2>1. k \in m..Len(s) BY <1>1
  <2> QED BY <2>1 DEF Suffix
<1>2. ASSUME s[k] \in Suffix(s, m) PROVE m <= k
  <2>1. PICK j \in m..Len(s) : s[k] = s[j] BY <1>2 DEF Suffix
  <2>2. j \in 1..Len(s) OBVIOUS
  <2> QED BY <2>1, <2>2
<1> QED BY <1>1, <1>2

\* Taking out an element keeps the others different and in order, and takes
\* it from every suffix.
LEMMA WithoutKeepsOrder ==
  ASSUME NEW S, NEW s \in Seq(S), NEW k \in 1..Len(s),
         \A l, m \in 1..Len(s) : s[l] = s[m] => l = m
  PROVE  LET w == Without(s, k) IN
         /\ \A l, m \in 1..(Len(s) - 1) : w[l] = w[m] => l = m
         /\ \A l, m \in 1..(Len(s) - 1) : l < m =>
              \E i, j \in 1..Len(s) : i < j /\ w[l] = s[i] /\ w[m] = s[j]
         /\ \A m \in 1..k : Suffix(w, m) = Suffix(s, m) \ {s[k]}
         /\ \A m \in k..(Len(s) - 1) : Suffix(w, m) = Suffix(s, m + 1)
<1> DEFINE n == Len(s)
           w == Without(s, k)
<1>1. /\ n \in Nat /\ k \in 1..n /\ Len(w) = n - 1
      /\ \A j \in 1..(k - 1) : w[j] = s[j]
      /\ \A j \in k..(n - 1) : w[j] = s[j + 1]
      /\ \A l, m \in 1..n : s[l] = s[m] => l = m
  BY WithoutIsSeq, Zenon
<1> HIDE DEF n, w
<1>2. ASSUME NEW l \in 1..(n - 1), NEW m \in 1..(n - 1), l < m
      PROVE  w[l] # w[m] /\ \E i, j \in 1..n : i < j /\ w[l] = s[i] /\ w[m] = s[j]
  <2>1. CASE m < k
    <3>0. n \in Nat /\ k \in 1..n BY <1>1
    <3>2. l \in 1..(k - 1) /\ m \in 1..(k - 1) /\ l \in 1..n /\ m \in 1..n
      BY <3>0, <2>1, <1>2
    <3>1. l \in 1..n /\ m \in 1..n /\ w[l] = s[l] /\ w[m] = s[m] BY <3>2, <1>1
    <3> QED BY <3>1, <1>1, <1>2
  <2>2. CASE m >= k /\ l < k
    <3>1. l \in 1..n /\ m + 1 \in 1..n /\ l < m + 1 /\ w[l] = s[l] /\ w[m] = s[m + 1]
      BY <2>2, <1>1, <1>2
    <3> QED BY <3>1, <1>1
  <2>3. CASE m >= k /\ l >= k
    <3>1. l + 1 \in 1..n /\ m + 1 \in 1..n /\ l + 1 < m + 1 /\ w[l] = s[l + 1] /\ w[m] = s[m + 1]
      BY <2>3, <1>1, <1>2
    <3> QED BY <3>1, <1>1
  <2>4. k \in Nat /\ l \in Nat /\ m \in Nat BY <1>1, <1>2
  <2>5. m < k \/ (m >= k /\ l < k) \/ (m >= k /\ l >= k) BY <2>4
  <2> QED BY <2>1, <2>2, <2>3, <2>5, Zenon
<1>3. \A l, m \in 1..(n - 1) : w[l] = w[m] => l = m
  <2> SUFFICES ASSUME NEW l \in 1..(n - 1), NEW m \in 1..(n - 1), l # m PROVE w[l] # w[m]
    OBVIOUS
  <2>1. l < m \/ m < l BY <1>1
  <2> QED BY <2>1, <1>2
<1>4. ASSUME NEW m \in 1..k
      PROVE  Suffix(w, m) = Suffix(s, m) \ {s[k]}
  <2>1. ASSUME NEW j \in m..(n - 1) PROVE w[j] \in Suffix(s, m) \ {s[k]}
    <3>1. CASE j < k
      <4>1. w[j] = s[j] /\ j \in m..n /\ s[j] # s[k] BY <3>1, <1>1
      <4> QED BY <4>1 DEF Suffix, n
    <3>2. CASE j >= k
      <4>1. w[j] = s[j + 1] /\ j + 1 \in m..n /\ s[j + 1] # s[k] BY <3>2, <1>1
      <4> QED BY <4>1 DEF Suffix, n
    <3> QED BY <3>1, <3>2, <1>1
  <2>2. ASSUME NEW j \in m..n, s[j] # s[k] PROVE s[j] \in Suffix(w, m)
    <3>1. CASE j < k
      <4>1. w[j] = s[j] /\ j \in m..(n - 1) BY <3>1, <1>1
      <4> QED BY <4>1, <1>1 DEF Suffix
    <3>2. CASE j > k
      <4>1. w[j - 1] = s[j] /\ j - 1 \in m..(n - 1) BY <3>2, <1>1
      <4> QED BY <4>1, <1>1 DEF Suffix
    <3> QED BY <3>1, <3>2, <2>2, <1>1
  <2>3. Suffix(w, m) = {w[j] : j \in m..(n - 1)} /\ Suffix(s, m) = {s[j] : j \in m..n}
    BY <1>1 DEF Suffix, n
  <2> QED BY <2>1, <2>2, <2>3
<1>5. ASSUME NEW m \in k..(n - 1)
      PROVE  Suffix(w, m) = Suffix(s, m + 1)
  <2>1. ASSUME NEW j \in m..(n - 1) PROVE w[j] \in Suffix(s, m + 1)
    <3>1. w[j] = s[j + 1] /\ j + 1 \in (m + 1)..n BY <1>1
    <3> QED BY <3>1 DEF Suffix, n
  <2>2. ASSUME NEW j \in (m + 1)..n PROVE s[j] \in Suffix(w, m)
    <3>1. w[j - 1] = s[j] /\ j - 1 \in m..(n - 1) BY <1>1
    <3> QED BY <3>1, <1>1 DEF Suffix
  <2>3. Suffix(w, m) = {w[j] : j \in m..(n - 1)} /\ Suffix(s, m + 1) = {s[j] : j \in (m + 1)..n}
    BY <1>1 DEF Suffix, n
  <2> QED BY <2>1, <2>2, <2>3
<1>6. \A l, m \in 1..(n - 1) : l < m => \E i, j \in 1..n : i < j /\ w[l] = s[i] /\ w[m] = s[j]
  BY <1>2
<1>7. \A m \in 1..k : Suffix(w, m) = Suffix(s, m) \ {s[k]} BY <1>4
<1>8. \A m \in k..(n - 1) : Suffix(w, m) = Suffix(s, m + 1) BY <1>5
<1> QED BY <1>3, <1>6, <1>7, <1>8 DEF n, w

\* The elements of a sequence.
LEMMA ItemsOfSeq ==
  ASSUME NEW S, NEW s \in Seq(S)
  PROVE  /\ Len(s) \in Nat /\ DOMAIN s = 1..Len(s)
         /\ Range(s) = {s[j] : j \in 1..Len(s)}
         /\ \A j \in 1..Len(s) : s[j] \in Range(s)
<1>1. Len(s) \in Nat /\ DOMAIN s = 1..Len(s) OBVIOUS
<1>2. Range(s) = {s[j] : j \in 1..Len(s)} BY <1>1, Zenon DEF Range
<1>3. \A j \in 1..Len(s) : s[j] \in Range(s) BY <1>2
<1> QED BY <1>1, <1>2, <1>3

\* The elements of a sequence to which one is appended.
LEMMA ItemsOfAppend ==
  ASSUME NEW S, NEW s \in Seq(S), NEW e \in S
  PROVE  Append(s, e) \in Seq(S) /\ Range(Append(s, e)) = Range(s) \cup {e}
<1>1. /\ Append(s, e) \in Seq(S) /\ Len(Append(s, e)) = Len(s) + 1 /\ Len(s) \in Nat
      /\ Append(s, e)[Len(s) + 1] = e /\ \A j \in 1..Len(s) : Append(s, e)[j] = s[j]
  OBVIOUS
<1>2. \A j \in 1..(Len(s) + 1) : j \in 1..Len(s) \/ j = Len(s) + 1 BY <1>1
<1>3. \A j \in 1..Len(s) : j \in 1..(Len(s) + 1) BY <1>1
<1>4. Range(s) = {s[j] : j \in 1..Len(s)} BY ItemsOfSeq, Zenon
<1>5. Range(Append(s, e)) = {Append(s, e)[j] : j \in 1..(Len(s) + 1)}
  BY <1>1, ItemsOfSeq, Zenon
<1>6. Len(s) + 1 \in 1..(Len(s) + 1) BY <1>1
<1> QED BY <1>1, <1>2, <1>3, <1>4, <1>5, <1>6

\* Attach (listeners.go:29-43) keeps the invariant: every item from which the
\* loop gets to the last one gets to the new one.
LEMMA AttachStep ==
  ASSUME Nil \notin Items, ListenersInv, NEW i \in Items, Attach(i)
  PROVE  ListenersInv'
<1>0. PICK T \in [made \cup {Nil} -> SUBSET made] :
        ListTypes /\ Linked /\ CalledInOrder /\ Reaches(T) /\ Progress(T)
  BY DEF ListenersInv
<1> USE <1>0
<1> DEFINE n == Len(attached)
<1>1. /\ i \notin made /\ made' = made \cup {i}
      /\ attached' \in Seq(Items) /\ Len(attached') = n + 1 /\ n \in Nat
      /\ attached'[n + 1] = i /\ \A m \in 1..n : attached'[m] = attached[m]
      /\ UNCHANGED <<item, called, staying>>
  BY DEF Attach, ListTypes
<1>r. Range(attached') = Range(attached) \cup {i} /\ \A m \in 1..n : attached[m] \in made
  <2>1. attached' = Append(attached, i) /\ attached \in Seq(Items)
    BY DEF Attach, ListTypes
  <2>2. Range(Append(attached, i)) = Range(attached) \cup {i} BY <2>1, ItemsOfAppend
  <2> QED BY <2>1, <2>2 DEF ListTypes
<1>2. ListTypes'
  <2>1. next' \in [Items -> Items \cup {Nil}] /\ prev' \in [Items -> Items \cup {Nil}]
    BY DEF Attach, Link, ListTypes, Linked
  <2>2. \A j \in Items \ made' : next'[j] = Nil
    BY <1>1 DEF Attach, Link, ListTypes, Linked
  <2>3. \A m, k \in 1..Len(attached') : attached'[m] = attached'[k] => m = k
    BY <1>1 DEF ListTypes
  <2>4. staying' \subseteq Range(attached') /\ item' \in made' \cup {Nil}
    BY <1>1, <1>r DEF ListTypes
  <2>5. \A m \in 1..(n + 1) : attached'[m] \in made'
    BY <1>1, <1>r
  <2> QED BY <1>1, <2>1, <2>2, <2>3, <2>4, <2>5 DEF ListTypes
<1>3. Linked'
  BY <1>1 DEF Attach, Link, ListTypes, Linked
<1>4. CalledInOrder'
  <2>1. i \notin staying BY <1>1 DEF ListTypes, Range
  <2>2. \A m \in 1..(n + 1) : attached'[m] \in staying => m \in 1..n /\ attached'[m] = attached[m]
    BY <1>1, <2>1
  <2> QED BY <1>1, <2>2 DEF CalledInOrder
<1>x. PICK U : U = [j \in made' \cup {Nil} |->
                      IF j = i THEN {i} ELSE IF tail \in T[j] THEN T[j] \cup {i} ELSE T[j]]
  BY Zenon
<1>5. U \in [made' \cup {Nil} -> SUBSET made'] /\ U[Nil] = {}
  BY <1>x, <1>1 DEF Reaches, ListTypes
<1>t. n # 0 => tail = attached[n] BY DEF Linked
<1>6. Reaches(U)'
  <2>1. ASSUME NEW m \in 1..(n + 1)
        PROVE  U[attached'[m]] = Suffix(attached', m)
    <3>0. Suffix(attached', m) = {attached'[j] : j \in m..(n + 1)}
      BY <1>1 DEF Suffix
    <3>1. CASE m = n + 1
      BY <1>x, <3>0, <3>1, <1>1
    <3>2. CASE m \in 1..n
      <4>1. T[attached[m]] = {attached[j] : j \in m..n} BY <3>2, Zenon DEF Reaches, Suffix
      <4>2. tail \in T[attached[m]] BY <3>2, <4>1, <1>1, <1>t
      <4>3. attached[m] # i /\ attached[m] \in made BY <3>2, <1>1, <1>r
      <4>4. U[attached'[m]] = T[attached[m]] \cup {i}
        BY <1>x, <4>2, <4>3, <3>2, <1>1
      <4>5. \A j \in m..(n + 1) : j = n + 1 \/ (j \in m..n /\ attached'[j] = attached[j])
        BY <3>2, <1>1
      <4>6. \A j \in m..n : j \in m..(n + 1) /\ attached'[j] = attached[j]
        BY <3>2, <1>1
      <4>7. n + 1 \in m..(n + 1) BY <3>2, <1>1
      <4> QED BY <3>0, <4>1, <4>4, <4>5, <4>6, <4>7, <1>1
    <3> QED BY <3>1, <3>2, <1>1
  <2>2. ASSUME NEW d \in made' \ Range(attached)'
        PROVE  next'[d] \in made' \cup {Nil} /\ d \notin U[next'[d]] /\ U[d] = {d} \cup U[next'[d]]
    <3>1. d \in made \ Range(attached) /\ d # i BY <2>2, <1>1, <1>r
    <3>2. d # tail BY <3>1 DEF Linked, ListTypes, Range
    <3>3. next'[d] = next[d] BY <3>1, <3>2, <1>1 DEF Attach, Link, ListTypes, Linked
    <3>4. next[d] \in made \cup {Nil} /\ d \notin T[next[d]] /\ T[d] = {d} \cup T[next[d]]
      BY <3>1 DEF Reaches
    <3> QED BY <1>x, <3>1, <3>2, <3>3, <3>4, <1>1, <1>5
  <2>3. ASSUME NEW d \in made', NEW m \in 1..n + 1, NEW k \in 1..n + 1,
               m < k, attached'[m] \in U[d]
        PROVE  attached'[k] \in U[d]
    <3>0. m \in 1..n /\ attached'[m] = attached[m] /\ attached[m] # i
      BY <2>3, <1>1, <1>r
    <3>1. m \in 1..n /\ attached'[m] = attached[m] /\ attached[m] # i /\ d # i
      BY <3>0, <2>3, <1>1, <1>x
    <3>2. attached[m] \in T[d] BY <1>x, <3>1, <2>3, <1>1
    <3>3. CASE k \in 1..n
      BY <1>x, <3>1, <3>2, <3>3, <2>3, <1>1 DEF Reaches
    <3>4. CASE k = n + 1
      <4>1. attached[n] \in T[d] BY <3>1, <3>2, <2>3, <1>1 DEF Reaches
      <4> QED BY <1>x, <3>1, <3>4, <4>1, <2>3, <1>1 DEF Linked
    <3> QED BY <3>3, <3>4, <1>1
  <2> QED BY <1>1, <1>5, <2>1, <2>2, <2>3 DEF Reaches
<1>7. Progress(U)'
  <2>1. item \in made \cup {Nil} /\ item # i BY <1>1 DEF ListTypes
  <2>2. T[item] \subseteq U[item] /\ U[item] \subseteq T[item] \cup {i}
    BY <1>x, <2>1, <1>1
  <2>3. i \notin Range(called) BY <1>1 DEF ListTypes, Range
  <2> QED BY <1>1, <2>1, <2>2, <2>3 DEF Progress, ListTypes
<1> QED BY <1>2, <1>3, <1>4, <1>5, <1>6, <1>7 DEF ListenersInv

\* Detach (listeners.go:9-20) keeps the invariant: the neighbours of the item
\* are linked, and it keeps its own pointers.
LEMMA DetachStep ==
  ASSUME Nil \notin Items, ListenersInv, NEW k \in 1..Len(attached), DetachListener(k)
  PROVE  ListenersInv'
<1>0. PICK T \in [made \cup {Nil} -> SUBSET made] :
        ListTypes /\ Linked /\ CalledInOrder /\ Reaches(T) /\ Progress(T)
  BY DEF ListenersInv
<1> USE <1>0
<1> DEFINE n == Len(attached)
           x == attached[k]
           p == IF k = 1 THEN Nil ELSE attached[k - 1]
           q == IF k = n THEN Nil ELSE attached[k + 1]
<1>1. /\ n \in Nat /\ k \in 1..n
      /\ \A j \in 1..n : attached[j] \in made /\ attached[j] \in Items /\ attached[j] # Nil
      /\ \A j, m \in 1..n : attached[j] = attached[m] => j = m
  BY DEF ListTypes
<1>2. /\ made' = made /\ UNCHANGED <<item, called>> /\ staying' = staying \ {x}
      /\ attached' = Without(attached, k) /\ attached \in Seq(Items)
  BY DEF DetachListener, DetachOne, ListTypes
<1>3. /\ attached' \in Seq(Items) /\ Len(attached') = n - 1
      /\ \A m \in 1..(k - 1) : attached'[m] = attached[m]
      /\ \A m \in k..(n - 1) : attached'[m] = attached[m + 1]
  BY <1>2, WithoutIsSeq, Zenon
<1>4. /\ \A l, m \in 1..(n - 1) : attached'[l] = attached'[m] => l = m
      /\ \A l, m \in 1..(n - 1) : l < m =>
           \E i, j \in 1..n : i < j /\ attached'[l] = attached[i] /\ attached'[m] = attached[j]
      /\ \A m \in 1..k : Suffix(attached', m) = Suffix(attached, m) \ {x}
      /\ \A m \in k..(n - 1) : Suffix(attached', m) = Suffix(attached, m + 1)
  <2>1. \A l, m \in 1..Len(attached) : attached[l] = attached[m] => l = m BY <1>1
  <2>2. k \in 1..Len(attached) OBVIOUS
  <2> DEFINE w == Without(attached, k)
  <2>3. /\ \A l, m \in 1..(n - 1) : w[l] = w[m] => l = m
        /\ \A l, m \in 1..(n - 1) : l < m =>
             \E i, j \in 1..n : i < j /\ w[l] = attached[i] /\ w[m] = attached[j]
        /\ \A m \in 1..k : Suffix(w, m) = Suffix(attached, m) \ {attached[k]}
        /\ \A m \in k..(n - 1) : Suffix(w, m) = Suffix(attached, m + 1)
    BY <1>2, <2>1, <2>2, WithoutKeepsOrder, Zenon
  <2>4. attached' = w BY <1>2
  <2> HIDE DEF w
  <2> QED BY <2>3, <2>4
<1>5. Range(attached) = Suffix(attached, 1) /\ Range(attached') = Suffix(attached', 1)
  BY <1>2, <1>3, ItemsOfSeq, Zenon DEF Suffix
<1>6. Range(attached') = Range(attached) \ {x} BY <1>1, <1>4, <1>5
<1>7. prev[x] = p /\ next[x] = q /\ n # 0
  BY DEF Linked
<1>8. (k = 1 <=> p = Nil) /\ (k = n <=> q = Nil) /\ p # x /\ q # x
      /\ (k # 1 => p \in Range(attached)) /\ (k # n => q \in Range(attached))
  BY <1>1, <1>2 DEF Range
<1>9. /\ head' = IF k = 1 THEN q ELSE head
      /\ tail' = IF k = n THEN p ELSE tail
      /\ next' = IF k = 1 THEN next ELSE [next EXCEPT ![p] = q]
      /\ prev' = IF k = n THEN prev ELSE [prev EXCEPT ![q] = p]
  BY <1>7, <1>8, Zenon DEF DetachListener, DetachOne, Detach
<1>10. Range(attached) \subseteq made /\ made \subseteq Items
  BY <1>1, <1>2 DEF Range, ListTypes
<1>11. ListTypes'
  <2>1. next' \in [Items -> Items \cup {Nil}] /\ prev' \in [Items -> Items \cup {Nil}]
    BY <1>8, <1>9, <1>10 DEF ListTypes
  <2>2. \A j \in Items \ made : next'[j] = Nil
    BY <1>8, <1>9, <1>10 DEF ListTypes
  <2>3. \A m \in 1..(n - 1) : attached'[m] \in made
    BY <1>3, <1>6, <1>10, ItemsOfSeq
  <2>4. staying' \subseteq Range(attached') BY <1>2, <1>6 DEF ListTypes
  <2> QED BY <1>2, <1>3, <1>4, <2>1, <2>2, <2>3, <2>4 DEF ListTypes, Range
<1>12. Linked'
  <2>1. /\ head' = IF n - 1 = 0 THEN Nil ELSE attached'[1]
        /\ tail' = IF n - 1 = 0 THEN Nil ELSE attached'[n - 1]
    <3>1. head = attached[1] /\ tail = attached[n] BY <1>7 DEF Linked
    <3>2. head' = IF n - 1 = 0 THEN Nil ELSE attached'[1] BY <1>1, <1>3, <1>9, <3>1
    <3>3. tail' = IF n - 1 = 0 THEN Nil ELSE attached'[n - 1]
      BY <1>1, <1>3, <1>9, <3>1
    <3> QED BY <3>2, <3>3
  <2>2. ASSUME NEW m \in 1..(n - 1)
        PROVE  /\ prev'[attached'[m]] = IF m = 1 THEN Nil ELSE attached'[m - 1]
               /\ next'[attached'[m]] = IF m = n - 1 THEN Nil ELSE attached'[m + 1]
    <3>0. \A j \in 1..n :
            /\ attached[j] \in Items
            /\ prev[attached[j]] = IF j = 1 THEN Nil ELSE attached[j - 1]
            /\ next[attached[j]] = IF j = n THEN Nil ELSE attached[j + 1]
      BY <1>1 DEF Linked
    <3>t. prev \in [Items -> Items \cup {Nil}] /\ next \in [Items -> Items \cup {Nil}]
      BY DEF ListTypes
    <3>1. CASE m < k
      <4>1. /\ attached'[m] = attached[m] /\ m \in 1..n
            /\ m # 1 => attached'[m - 1] = attached[m - 1]
            /\ m + 1 < k => attached'[m + 1] = attached[m + 1]
            /\ m + 1 = k /\ m # n - 1 => attached'[m + 1] = attached[k + 1]
        <5>1. /\ m \in 1..(k - 1) /\ m \in 1..n
              /\ m # 1 => m - 1 \in 1..(k - 1)
              /\ m + 1 < k => m + 1 \in 1..(k - 1)
              /\ m + 1 = k /\ m # n - 1 => m + 1 \in k..(n - 1)
          BY <3>1, <1>1
        <5> QED BY <5>1, <1>3
      <4>2. attached[m] # q BY <3>1, <4>1, <1>1
      <4>3. prev'[attached[m]] = prev[attached[m]]
        BY <4>1, <4>2, <3>0, <3>t, <1>9
      <4>4. attached[m] = p <=> m + 1 = k
        <5>1. k # 1 /\ k - 1 \in 1..n /\ m \in 1..n BY <3>1, <1>1
        <5>2. p = attached[k - 1] BY <5>1
        <5>3. attached[m] = attached[k - 1] <=> m = k - 1 BY <5>1, <1>1
        <5> QED BY <5>1, <5>2, <5>3, <1>1
      <4>5. next'[attached[m]] = IF m + 1 = k THEN q ELSE next[attached[m]]
        BY <3>1, <4>1, <4>4, <3>0, <3>t, <1>9
      <4>6. next'[attached[m]] = IF m = n - 1 THEN Nil ELSE attached'[m + 1]
        <5>1. CASE m + 1 = k BY <5>1, <4>1, <4>5, <1>1
        <5>2. CASE m + 1 # k BY <5>2, <3>0, <3>1, <4>1, <4>5, <1>1
        <5> QED BY <5>1, <5>2
      <4> QED BY <3>0, <4>1, <4>3, <4>6
    <3>2. CASE m >= k
      <4>1. /\ attached'[m] = attached[m + 1] /\ m + 1 \in 1..n
            /\ m # k => attached'[m - 1] = attached[m]
            /\ m = k /\ m # 1 => attached'[m - 1] = attached[k - 1]
            /\ m # n - 1 => attached'[m + 1] = attached[m + 2]
        <5>1. attached'[m] = attached[m + 1] /\ m + 1 \in 1..n BY <3>2, <1>1, <1>3
        <5>2. m # k => m - 1 \in k..(n - 1) /\ (m - 1) + 1 = m BY <3>2, <1>1
        <5>3. m = k /\ m # 1 => m - 1 \in 1..(k - 1) BY <1>1
        <5>4. m # n - 1 => m + 1 \in k..(n - 1) /\ (m + 1) + 1 = m + 2 BY <3>2, <1>1
        <5> QED BY <5>1, <5>2, <5>3, <5>4, <1>3
      <4>2. attached[m + 1] # p BY <3>2, <4>1, <1>1
      <4>3. next'[attached[m + 1]] = next[attached[m + 1]]
        BY <4>1, <4>2, <3>0, <3>t, <1>9
      <4>4. attached[m + 1] = q <=> m = k
        <5>1. k # n BY <3>2, <1>1
        <5>2. k + 1 \in 1..n /\ m + 1 \in 1..n /\ q = attached[k + 1]
          BY <5>1, <4>1, <1>1
        <5>3. attached[m + 1] = attached[k + 1] => m + 1 = k + 1 BY <5>2, <1>1
        <5> QED BY <5>2, <5>3, <1>1
      <4>5. prev'[attached[m + 1]] = IF m = k THEN p ELSE prev[attached[m + 1]]
        BY <3>2, <4>1, <4>4, <3>0, <3>t, <1>9
      <4>6. prev'[attached[m + 1]] = IF m = 1 THEN Nil ELSE attached'[m - 1]
        <5>1. CASE m = k BY <5>1, <4>1, <4>5, <1>1
        <5>2. CASE m # k
          <6>1. prev[attached[m + 1]] = attached[m] BY <3>0, <3>2, <4>1, <1>1
          <6> QED BY <5>2, <3>2, <4>1, <4>5, <6>1, <1>1
        <5> QED BY <5>1, <5>2
      <4>7. next[attached[m + 1]] = IF m = n - 1 THEN Nil ELSE attached[m + 2]
        BY <3>0, <4>1, <1>1
      <4> QED BY <4>1, <4>3, <4>6, <4>7
    <3> QED BY <3>1, <3>2, <1>1
  <2> QED BY <1>3, <2>1, <2>2 DEF Linked
<1>13. CalledInOrder'
  <2>1. ASSUME NEW c \in 1..Len(called), NEW l \in 1..(n - 1), NEW m \in 1..(n - 1), l < m,
               called[c] = attached'[m], attached'[l] \in staying, attached'[m] \in staying
        PROVE  \E j \in 1..Len(called) : j < c /\ called[j] = attached'[l]
    <3>1. PICK i, j \in 1..n : i < j /\ attached'[l] = attached[i] /\ attached'[m] = attached[j]
      BY <1>4, <2>1
    <3> QED BY <3>1, <2>1 DEF CalledInOrder
  <2> QED BY <1>2, <1>3, <2>1 DEF CalledInOrder
<1>14. PICK U : U = [j \in made \cup {Nil} |-> IF p \in T[j] THEN T[j] \ {x} ELSE T[j]]
  BY Zenon
<1>15. U \in [made \cup {Nil} -> SUBSET made] /\ U[Nil] = {}
  BY <1>14 DEF Reaches
<1>16. Nil \notin made /\ \A j \in made \cup {Nil} : Nil \notin T[j] BY <1>10
<1>s. \A m \in 1..n : p \in Suffix(attached, m) <=> m < k
  <2>1. CASE k = 1
    <3>1. ASSUME NEW m \in 1..n PROVE Nil \notin Suffix(attached, m)
      <4>1. \A j \in m..n : attached[j] # Nil BY <1>1
      <4> QED BY <4>1, Zenon DEF Suffix
    <3> QED BY <2>1, <3>1
  <2>2. CASE k # 1
    <3>1. k - 1 \in 1..n BY <2>2, <1>1
    <3>2. \A m \in 1..n : attached[k - 1] \in Suffix(attached, m) <=> m <= k - 1
      BY <3>1, <1>1, SuffixHas
    <3> QED BY <2>2, <3>2, <1>1
  <2> QED BY <2>1, <2>2
<1>17. T[x] = Suffix(attached, k) /\ p \notin T[x] /\ (k # n => p \notin T[q] /\ T[q] = Suffix(attached, k + 1))
  <2>1. T[x] = Suffix(attached, k) BY DEF Reaches
  <2>2. k # n => T[q] = Suffix(attached, k + 1) BY <1>1 DEF Reaches
  <2>3. \A m \in k..n : p \notin Suffix(attached, m) BY <1>1, <1>s
  <2> QED BY <2>1, <2>2, <2>3, <1>1
<1>18. Reaches(U)'
  <2>1. ASSUME NEW m \in 1..(n - 1)
        PROVE  U[attached'[m]] = Suffix(attached', m)
    <3>1. CASE m < k
      <4>1. /\ attached'[m] = attached[m] /\ attached[m] \in made /\ m \in 1..k
            /\ T[attached[m]] = Suffix(attached, m)
        BY <3>1, <1>1, <1>3 DEF Reaches
      <4>2. p \in Suffix(attached, m) BY <3>1, <1>1, <1>s
      <4> QED BY <4>1, <4>2, <1>4, <1>14
    <3>2. CASE m >= k
      <4>1. /\ attached'[m] = attached[m + 1] /\ attached[m + 1] \in made /\ m \in k..(n - 1)
            /\ T[attached[m + 1]] = Suffix(attached, m + 1)
        BY <3>2, <1>1, <1>3 DEF Reaches
      <4>2. p \notin Suffix(attached, m + 1) BY <3>2, <1>1, <1>s
      <4> QED BY <4>1, <4>2, <1>4, <1>14
    <3> QED BY <3>1, <3>2, <1>1
  <2>2. ASSUME NEW d \in made \ Range(attached')
        PROVE  next'[d] \in made \cup {Nil} /\ d \notin U[next'[d]] /\ U[d] = {d} \cup U[next'[d]]
    <3>1. d # p \/ k = 1 BY <2>2, <1>6, <1>8
    <3>2. next'[d] = next[d]
      BY <2>2, <3>1, <1>9, <1>10 DEF ListTypes
    <3>3. CASE d = x
      <4>1. U[x] = Suffix(attached, k) BY <1>14, <1>17, <1>1
      <4>2. CASE k = n
        <5>1. Suffix(attached, k) = {x} BY <4>2, <1>1 DEF Suffix
        <5> QED BY <3>2, <3>3, <4>1, <4>2, <5>1, <1>7, <1>15
      <4>3. CASE k # n
        <5>1. q \in made /\ U[q] = Suffix(attached, k + 1)
          BY <4>3, <1>1, <1>14, <1>17
        <5>2. x \notin Suffix(attached, k + 1) BY <4>3, <1>1 DEF Suffix
        <5>3. Suffix(attached, k) = {x} \cup Suffix(attached, k + 1)
          BY <4>3, <1>1 DEF Suffix
        <5> QED BY <3>2, <3>3, <4>1, <4>3, <5>1, <5>2, <5>3, <1>7
      <4> QED BY <4>2, <4>3
    <3>4. CASE d # x
      <4>1. d \in made \ Range(attached) BY <3>4, <2>2, <1>6
      <4>2. next[d] \in made \cup {Nil} /\ d \notin T[next[d]] /\ T[d] = {d} \cup T[next[d]]
        BY <4>1 DEF Reaches
      <4>3. p \in T[d] <=> p \in T[next[d]] BY <4>2, <3>1, <1>8, <1>16
      <4> QED BY <3>2, <3>4, <4>1, <4>2, <4>3, <1>14
    <3> QED BY <3>3, <3>4
  <2>3. ASSUME NEW d \in made, NEW l \in 1..(n - 1), NEW m \in 1..(n - 1),
               l < m, attached'[l] \in U[d]
        PROVE  attached'[m] \in U[d]
    <3>1. attached'[l] \in T[d] BY <2>3, <1>14
    <3>2. attached'[m] # x BY <1>3, <1>6, ItemsOfSeq
    <3>3. PICK i, j \in 1..n : i < j /\ attached'[l] = attached[i] /\ attached'[m] = attached[j]
      BY <1>4, <2>3
    <3>4. attached'[m] \in T[d] BY <3>1, <3>3 DEF Reaches
    <3> QED BY <3>2, <3>4, <1>14
  <2> QED BY <1>2, <1>3, <1>15, <2>1, <2>2, <2>3 DEF Reaches, Range
<1>19. Progress(U)'
  <2>1. item \in made \cup {Nil} BY DEF ListTypes
  <2>2. U[item] \subseteq T[item] /\ T[item] \ {x} \subseteq U[item]
        /\ (item = x => U[item] = T[item])
    BY <2>1, <1>14, <1>17
  <2>3. UNCHANGED <<item, Range(called)>> BY <1>2 DEF Range
  <2> QED BY <1>2, <2>1, <2>2, <2>3 DEF Progress
<1> QED BY <1>2, <1>11, <1>12, <1>13, <1>15, <1>18, <1>19 DEF ListenersInv

\* An event begins: nobody was called but the first.
LEMMA BeginStep ==
  ASSUME Nil \notin Items, ListenersInv, Begin
  PROVE  ListenersInv'
<1>0. PICK T \in [made \cup {Nil} -> SUBSET made] :
        ListTypes /\ Linked /\ CalledInOrder /\ Reaches(T) /\ Progress(T)
  BY DEF ListenersInv
<1> USE <1>0 DEF Range
<1>1. /\ UNCHANGED listVars /\ item' = head /\ staying' = Range(attached)
      /\ called' = IF head = Nil THEN <<>> ELSE <<head>>
  BY DEF Begin
<1>2. head \in made \cup {Nil} /\ called' \in Seq(Items)
  BY <1>1 DEF Linked, ListTypes
<1>3. ListTypes' /\ Linked' /\ Reaches(T)'
  <2>1. ListTypes' BY <1>1, <1>2 DEF ListTypes, listVars
  <2>2. Linked' BY <1>1 DEF Linked, listVars
  <2>3. Reaches(T)' BY <1>1 DEF Reaches, listVars
  <2> QED BY <2>1, <2>2, <2>3
<1>4. CASE head = Nil
  <2>1. Len(attached) = 0 /\ Range(attached) = {} BY <1>4 DEF Linked, ListTypes
  <2>2. called' = <<>> /\ Range(called') = {} /\ Len(called') = 0 BY <1>1, <1>4
  <2>3. CalledInOrder' BY ONLY <2>2 DEF CalledInOrder
  <2>4. Progress(T)' BY <1>1, <1>4, <2>1, <2>2 DEF Progress, Reaches
  <2> QED BY <1>1, <1>3, <2>3, <2>4 DEF listVars, ListenersInv
<1>5. CASE head # Nil
  <2>1. Len(attached) \in Nat \ {0} /\ head = attached[1]
    BY <1>5 DEF Linked, ListTypes
  <2>2. T[head] = Range(attached)
    <3>1. T[head] = Suffix(attached, 1) BY <2>1 DEF Reaches
    <3>2. attached \in Seq(Items) BY DEF ListTypes
    <3> QED BY <3>1, <3>2, ItemsOfSeq DEF Suffix
  <2>3. called' = <<head>> /\ Range(called') = {head} /\ Len(called') = 1
    BY <1>1, <1>5
  <2>4. Progress(T)'
    BY <1>1, <1>5, <2>1, <2>2, <2>3 DEF Progress, listVars, ListTypes
  <2>5. \A m, n \in 1..Len(attached) : m < n => attached[n] # head
    BY <2>1 DEF ListTypes
  <2>6. CalledInOrder' BY <1>1, <2>3, <2>5 DEF CalledInOrder, listVars
  <2> QED BY <1>1, <1>3, <2>4, <2>6 DEF listVars, ListenersInv
<1> QED BY <1>4, <1>5

\* The listener returns, and the loop goes on to the next item over the
\* pointer, even of an item that was detached meanwhile.
LEMMA ReturnStep ==
  ASSUME Nil \notin Items, ListenersInv, Return
  PROVE  ListenersInv'
<1>0. PICK T \in [made \cup {Nil} -> SUBSET made] :
        ListTypes /\ Linked /\ CalledInOrder /\ Reaches(T) /\ Progress(T)
  BY DEF ListenersInv
<1> USE <1>0
<1> DEFINE y == next[item]
<1>1. /\ UNCHANGED <<listVars, staying>> /\ item # Nil /\ item \in made /\ item' = y
      /\ called' = IF y = Nil THEN called ELSE Append(called, y)
  BY DEF Return, ListTypes
<1>2. y \in made \cup {Nil} /\ item \notin T[y] /\ T[item] = {item} \cup T[y]
  <2>1. CASE item \in Range(attached)
    <3>1. PICK m \in 1..Len(attached) : item = attached[m]
      BY <2>1 DEF ListTypes, Range
    <3>2. T[item] = {attached[j] : j \in m..Len(attached)}
      BY <3>1, Zenon DEF Reaches, Suffix
    <3>3. CASE m = Len(attached)
      <4>1. y = Nil BY <3>1, <3>3 DEF Linked
      <4> QED BY <4>1, <3>1, <3>2, <3>3 DEF Reaches
    <3>4. CASE m # Len(attached)
      <4>1. y = attached[m + 1] /\ m + 1 \in 1..Len(attached)
        BY <3>1, <3>4 DEF Linked, ListTypes
      <4>2. T[y] = {attached[j] : j \in (m + 1)..Len(attached)}
        BY <4>1 DEF Reaches, Suffix
      <4> QED BY <3>1, <3>2, <3>4, <4>1, <4>2 DEF ListTypes
    <3> QED BY <3>3, <3>4
  <2>2. CASE item \notin Range(attached)
    BY <2>2, <1>1 DEF Reaches
  <2> QED BY <2>1, <2>2
<1>3. called' \in Seq(Items) /\ Range(called') = Range(called) \cup ({y} \ {Nil})
  <2>1. CASE y = Nil BY <1>1, <2>1 DEF ListTypes
  <2>2. CASE y # Nil
    <3>1. y \in made /\ called' = Append(called, y) /\ called \in Seq(Items)
      BY <1>1, <1>2, <2>2 DEF ListTypes
    <3>2. y \in Items BY <3>1 DEF ListTypes
    <3>3. Append(called, y) \in Seq(Items) /\ Range(Append(called, y)) = Range(called) \cup {y}
      BY <3>1, <3>2, ItemsOfAppend
    <3> QED BY <2>2, <3>1, <3>3
  <2> QED BY <2>1, <2>2
<1>4. ListTypes' /\ Linked' /\ Reaches(T)'
  <2>1. UNCHANGED <<head, tail, prev, next, made, attached, staying>>
    BY <1>1 DEF listVars
  <2>2. \A k \in 1..Len(called') : called'[k] \in made
    BY <1>1, <1>2 DEF ListTypes
  <2>3. ListTypes' BY <1>1, <1>2, <1>3, <2>1, <2>2, Zenon DEF ListTypes
  <2>4. Linked' BY <2>1 DEF Linked
  <2>5. Reaches(T)' BY <2>1 DEF Reaches
  <2> QED BY <2>3, <2>4, <2>5
<1>5. y # Nil => y \in T[y] /\ y \notin Range(called)
  <2>1. SUFFICES ASSUME y # Nil PROVE y \in T[y] /\ y \notin Range(called) OBVIOUS
  <2>2. y \in made BY <2>1, <1>2
  <2>3. y \in T[y]
    <3>1. CASE y \in Range(attached)
      <4>1. PICK m \in 1..Len(attached) : y = attached[m]
        BY <3>1 DEF ListTypes, Range
      <4> QED BY <4>1 DEF Reaches, Suffix, ListTypes
    <3>2. CASE y \notin Range(attached) BY <2>2, <3>2 DEF Reaches
    <3> QED BY <3>1, <3>2
  <2> QED BY <2>1, <2>3, <1>1, <1>2 DEF Progress
<1>6. Progress(T)'
  <2>1. T[y] \cap Range(called') = {y} \ {Nil}
    BY <1>1, <1>2, <1>3, <1>5 DEF Progress, Reaches
  <2>2. staying \subseteq Range(called') \cup T[y]
    BY <1>1, <1>2, <1>3 DEF Progress
  <2> QED BY <1>1, <2>1, <2>2 DEF Progress
<1>7. CalledInOrder'
  <2>1. CASE y = Nil BY <1>1, <2>1 DEF CalledInOrder, listVars
  <2>2. CASE y # Nil
    <3>1. /\ Len(called) \in Nat /\ Len(called') = Len(called) + 1
          /\ called'[Len(called) + 1] = y
          /\ \A j \in 1..Len(called) : called'[j] = called[j]
      BY <1>1, <2>2 DEF ListTypes
    <3>2. \A j, k \in 1..Len(called') : called'[j] = called'[k] => j = k
      <4>1. \A j \in 1..Len(called) : called[j] # y
        BY <1>5, <2>2 DEF ListTypes, Range
      <4>2. \A j, k \in 1..Len(called) : called[j] = called[k] => j = k
        BY Zenon DEF CalledInOrder
      <4>3. \A j \in 1..Len(called') : j \in 1..Len(called) \/ j = Len(called) + 1
        BY <3>1
      <4> QED BY <3>1, <4>1, <4>2, <4>3
    <3>3. ASSUME NEW k \in 1..Len(called'), NEW m \in 1..Len(attached), NEW n \in 1..Len(attached),
                 m < n, called'[k] = attached[n], attached[m] \in staying, attached[n] \in staying
          PROVE  \E j \in 1..Len(called') : j < k /\ called'[j] = attached[m]
      <4>1. CASE k \in 1..Len(called) BY <4>1, <3>1, <3>3 DEF CalledInOrder
      <4>2. CASE k = Len(called) + 1
        <5>0. y = attached[n] BY <4>2, <3>1, <3>3
        <5>1. T[y] = {attached[j] : j \in n..Len(attached)}
          BY <5>0, Zenon DEF Reaches, Suffix
        <5>2. attached[m] \notin T[y] BY <5>1, <3>3 DEF ListTypes
        <5>3. attached[m] \in Range(called) BY <5>2, <3>3, <1>1, <1>2 DEF Progress
        <5>4. PICK j \in 1..Len(called) : called[j] = attached[m]
          BY <5>3 DEF ListTypes, Range
        <5> QED BY <5>4, <4>2, <3>1
      <4> QED BY <4>1, <4>2, <3>1
    <3> QED BY <3>2, <3>3, <1>1 DEF CalledInOrder, listVars
  <2> QED BY <2>1, <2>2
<1> QED BY <1>1, <1>4, <1>6, <1>7 DEF listVars, ListenersInv

\* Each attached listener is called in sequence (listeners.go:22), once, and
\* all those that stay, whatever is attached and detached in the middle of an
\* event: for any number of listeners.
THEOREM ListenersCalled ==
  ASSUME Nil \notin Items
  PROVE  Spec => []StayingAreCalled
<1>1. Init => ListenersInv
  <2> SUFFICES ASSUME Init PROVE ListenersInv OBVIOUS
  <2>1. /\ attached = <<>> /\ made = {} /\ item = Nil /\ called = <<>> /\ staying = {}
        /\ Len(attached) = 0 /\ Len(called) = 0
    BY DEF Init, ListInit
  <2>2. ListTypes /\ Linked /\ CalledInOrder
    BY <2>1 DEF Init, ListInit, ListTypes, Linked, CalledInOrder, Range
  <2> DEFINE T == [i \in {Nil} |-> {}]
  <2>3. T \in [made \cup {Nil} -> SUBSET made] /\ T[Nil] = {} BY <2>1
  <2> HIDE DEF T
  <2>4. Reaches(T) /\ Progress(T) BY <2>1, <2>3 DEF Reaches, Progress, Range
  <2> QED BY <2>2, <2>3, <2>4 DEF ListenersInv
<1>2. ListenersInv /\ [Next]_vars => ListenersInv'
  <2> SUFFICES ASSUME ListenersInv, [Next]_vars PROVE ListenersInv' OBVIOUS
  <2>1. CASE UNCHANGED vars
    <3>1. PICK T \in [made \cup {Nil} -> SUBSET made] :
            ListTypes /\ Linked /\ CalledInOrder /\ Reaches(T) /\ Progress(T)
      BY DEF ListenersInv
    <3>2. UNCHANGED <<head, tail, prev, next, made, attached, item, called, staying>>
      BY <2>1, Zenon DEF vars, listVars
    <3>3. ListTypes' BY <3>1, <3>2 DEF ListTypes
    <3>4. Linked' BY <3>1, <3>2 DEF Linked
    <3>5. CalledInOrder'
      <4>1. called' = called /\ attached' = attached /\ staying' = staying BY <3>2
      <4>2. CalledInOrder BY <3>1
      <4>3. ASSUME NEW k \in 1..Len(called), NEW m \in 1..Len(attached), NEW n \in 1..Len(attached),
                   m < n, called[k] = attached[n], attached[m] \in staying, attached[n] \in staying
            PROVE  \E j \in 1..Len(called) : j < k /\ called[j] = attached[m]
        BY <4>2, <4>3 DEF CalledInOrder
      <4> QED BY <4>1, <4>2, <4>3 DEF CalledInOrder
    <3>6. Reaches(T)' BY <3>1, <3>2 DEF Reaches
    <3>7. Progress(T)' BY <3>1, <3>2 DEF Progress
    <3> QED BY <3>2, <3>3, <3>4, <3>5, <3>6, <3>7 DEF ListenersInv
  <2>2. attached \in Seq(made) BY DEF ListenersInv, ListTypes
  <2> QED BY <2>1, <2>2, AttachStep, DetachStep, BeginStep, ReturnStep DEF Next
<1>3. ListenersInv => StayingAreCalled
  <2> SUFFICES ASSUME ListenersInv PROVE StayingAreCalled OBVIOUS
  <2>1. PICK T \in [made \cup {Nil} -> SUBSET made] : Reaches(T) /\ Progress(T)
    BY DEF ListenersInv
  <2>2. item = Nil => staying \subseteq Range(called) BY <2>1 DEF Progress, Reaches
  <2>3. DOMAIN attached = 1..Len(attached) /\ DOMAIN called = 1..Len(called)
    BY DEF ListenersInv, ListTypes
  <2>4. Linked /\ CalledInOrder BY DEF ListenersInv
  <2> QED BY <2>2, <2>3, <2>4 DEF StayingAreCalled, CalledInOrder
<1> QED BY <1>1, <1>2, <1>3, PTL DEF Spec

-----------------------------------------------------------------------------
(***************************************************************************)
(* The statistics of users (UserStatistics).                               *)
(***************************************************************************)
CONSTANTS Sessions, Values, MaxPackets
VARIABLES reader, packets

UserStat == INSTANCE UserStatistics

\* The specification, of which safety is proved here.
UserStatsSpec == UserStat!UserStatsInit /\ [][UserStat!UserStatsNext]_(UserStat!userStatVars)

\* The inductive invariant.
StatsInv ==
  DOMAIN Stats = Users /\ DOMAIN last = Users /\ StatsOfLastPacket

\* The statistics show what the packet has, and nothing else.
StatsShow(stats, pkt) ==
  /\ \A f \in DOMAIN stats.FromClient :
       stats.FromClient[f] = IF pkt.FromClient = Nil \/ pkt.FromClient[f] = Nil
                             THEN Unset ELSE pkt.FromClient[f]
  /\ \A f \in DOMAIN stats.Version :
       stats.Version[f] = IF pkt.Version = Nil \/ pkt.Version[f] = Nil
                          THEN Unset ELSE pkt.Version[f]
  /\ stats.UdpPackets = IF pkt.UdpPackets = Nil THEN Unset ELSE pkt.UdpPackets
  /\ (pkt.FromServer # Nil =>
        \A f \in Counts : pkt.FromServer[f] = Nil <=> pkt.FromClient[f] = Nil)
     => \A f \in DOMAIN stats.FromServer :
          stats.FromServer[f] = IF pkt.FromServer = Nil \/ pkt.FromServer[f] = Nil
                                THEN Unset ELSE pkt.FromServer[f]

\* handleUserStats makes the statistics of the packet
\* (handlers.go:1085-1200).
LEMMA StatsOfPacket ==
  ASSUME NEW s, NEW pkt \in UserStat!UserStatsPacket, ~UserStat!PanicsOn(pkt),
         NEW stats, stats = UserStat!StatsFrom(UserStat!Cleared(s), pkt)
  PROVE  StatsShow(stats, pkt)
<1> USE DEF UserStat!StatsFrom, UserStat!Cleared, UserStat!NoStats, UserStat!Set, UserStat!SetEach
<1>1. stats.UdpPackets = IF pkt.UdpPackets = Nil THEN Unset ELSE pkt.UdpPackets
  BY Zenon
<1>2. \A f \in DOMAIN stats.FromClient :
        stats.FromClient[f] = IF pkt.FromClient = Nil \/ pkt.FromClient[f] = Nil
                              THEN Unset ELSE pkt.FromClient[f]
  BY DEF UserStat!NoCounts
<1>3. \A f \in DOMAIN stats.Version :
        stats.Version[f] = IF pkt.Version = Nil \/ pkt.Version[f] = Nil
                           THEN Unset ELSE pkt.Version[f]
  BY Zenon DEF UserStat!NoVersion, UserStat!parseVersion
<1>4. ASSUME pkt.FromServer # Nil =>
               \A f \in Counts : pkt.FromServer[f] = Nil <=> pkt.FromClient[f] = Nil
      PROVE  \A f \in DOMAIN stats.FromServer :
               stats.FromServer[f] = IF pkt.FromServer = Nil \/ pkt.FromServer[f] = Nil
                                     THEN Unset ELSE pkt.FromServer[f]
  BY <1>4, Zenon DEF UserStat!NoCounts, UserStat!PanicsOn, Counts, UserStat!Counts
<1> QED BY <1>1, <1>2, <1>3, <1>4, Zenon DEF StatsShow

\* The statistics of a user are those of the last packet, no field kept from
\* an earlier one: for any users, fields and packets.
THEOREM StatsFollow == UserStatsSpec => []StatsOfLastPacket
<1>1. UserStat!UserStatsInit => StatsInv
  BY DEF UserStat!UserStatsInit, StatsInv, StatsOfLastPacket
<1>2. StatsInv /\ [UserStat!UserStatsNext]_(UserStat!userStatVars) => StatsInv'
  <2> SUFFICES ASSUME StatsInv, [UserStat!UserStatsNext]_(UserStat!userStatVars) PROVE StatsInv'
    BY Zenon
  <2>1. CASE UNCHANGED <<Stats, last>>
    BY <2>1 DEF StatsInv, StatsOfLastPacket, Counts
  <2>2. ASSUME NEW pkt \in UserStat!UserStatsPacket, pkt.Session \in Users, ~UserStat!PanicsOn(pkt),
               Stats' = [Stats EXCEPT ![pkt.Session] = UserStat!StatsFrom(UserStat!Cleared(pkt.Session), pkt)],
               last' = [last EXCEPT ![pkt.Session] = pkt]
        PROVE  StatsInv'
    <3>1. /\ DOMAIN Stats' = Users /\ DOMAIN last' = Users
          /\ Stats'[pkt.Session] = UserStat!StatsFrom(UserStat!Cleared(pkt.Session), pkt)
          /\ last'[pkt.Session] = pkt
          /\ \A s \in Users : s # pkt.Session => Stats'[s] = Stats[s] /\ last'[s] = last[s]
      BY <2>2 DEF StatsInv
    <3>2. PICK stats : stats = UserStat!StatsFrom(UserStat!Cleared(pkt.Session), pkt)
      BY Zenon
    <3>3. Stats'[pkt.Session] = stats BY <3>1, <3>2, Zenon
    <3>4. StatsShow(stats, pkt) BY <2>2, <3>2, StatsOfPacket, Zenon
    <3>5. \A s \in Users : last[s] # Nil => StatsShow(Stats[s], last[s])
      BY DEF StatsInv, StatsOfLastPacket, StatsShow
    <3>6. \A s \in Users : last'[s] # Nil => StatsShow(Stats'[s], last'[s])
      BY <2>2, <3>1, <3>3, <3>4, <3>5, Zenon
    <3>7. StatsOfLastPacket' BY <3>6 DEF StatsOfLastPacket, StatsShow
    <3> QED BY <3>1, <3>7 DEF StatsInv
  <2> QED
    BY <2>1, <2>2
       DEF UserStat!UserStatsNext, UserStat!HandleUserStats, UserStat!userStatVars
<1>3. StatsInv => StatsOfLastPacket BY DEF StatsInv
<1> QED BY <1>1, <1>2, <1>3, PTL DEF UserStatsSpec

-----------------------------------------------------------------------------
(***************************************************************************)
(* The ban list (BanLists).                                                *)
(***************************************************************************)
CONSTANTS Addresses, Masks, Reasons, Durations, MaxBanChanges
VARIABLES bans, bansToClient, banList, banChanges

Bans == INSTANCE BanLists WITH MaxChanges <- MaxBanChanges

\* The specification, from any of some lists of the server; safety is proved
\* here.
BansSpec(first) == Bans!BansInit(first) /\ [][Bans!BansNext]_(Bans!banVars)

\* The constants: sizes and durations are numbers.
BanConstants ==
  /\ Ticks \in Nat \ {0} /\ Durations \subseteq Nat /\ Masks \subseteq Nat /\ Nil \notin Nat
  /\ \A a \in Addresses : a.bits \in Nat

\* The Bans of a program.
BanType ==
  [Address : Addresses, Mask : Nat \cup {Nil}, Reason : Reasons, Duration : Nat,
   unban : BOOLEAN, origin : Bans!Entry \cup {Nil}]

\* The Ban that handleBanList makes of an entry (handlers.go:658-675).
ReceivedAs(e) ==
  [Address |-> e.Address, Mask |-> Bans!CIDRMask(e.Mask, e.Address.bits),
   Reason |-> e.Reason, Duration |-> e.Duration * Ticks, unban |-> FALSE, origin |-> e]

\* A Ban that was not changed is still the one that was received.
AsReceived(b) ==
  b.origin # Nil =>
    /\ b.Address = b.origin.Address /\ b.Reason = b.origin.Reason
    /\ b.Mask = Bans!CIDRMask(b.origin.Mask, b.origin.Address.bits)
    /\ b.Duration = b.origin.Duration * Ticks

\* The Bans that the list of the program may have.
ListedBans == {b \in BanType : AsReceived(b)}

\* The entries that are written for a list (bans.go:83-101).
EntriesOf(from) == {Bans!Written(b) : b \in {c \in from : ~c.unban}}

\* What can be on its way to the server.
Message == [query : BOOLEAN, entries : SUBSET Bans!Entry, from : SUBSET ListedBans]

\* The inductive invariant.
BanInv ==
  /\ bans \subseteq Bans!Entry /\ banList \subseteq ListedBans
  /\ bansToClient \in Seq(SUBSET Bans!Entry) /\ bansToServer \in Seq(Message)
  /\ \A k \in 1..Len(bansToServer) : bansToServer[k].entries = EntriesOf(bansToServer[k].from)

\* A Ban is written as an entry for no longer than it is for.
LEMMA WrittenEntry ==
  ASSUME BanConstants, NEW b \in BanType
  PROVE  /\ Bans!Written(b) \in Bans!Entry
         /\ Bans!Written(b).Duration * Ticks <= b.Duration
         /\ b.Duration >= Ticks => Bans!Written(b).Duration > 0
         /\ b.Mask # Nil => Bans!Written(b).Mask = b.Mask
<1>1. PICK d \in Nat, t \in Nat \ {0} : d = b.Duration /\ t = Ticks
  BY DEF BanConstants, BanType
<1>2. d \div t \in Nat /\ (d \div t) * t <= d /\ (d >= t => d \div t > 0)
  BY ONLY d \in Nat, t \in Nat \ {0}
<1>3. Bans!Written(b).Duration = d \div t BY <1>1 DEF Bans!Written, Bans!Seconds
<1>4. Bans!Size(b.Mask) \in Nat /\ (b.Mask # Nil => Bans!Size(b.Mask) = b.Mask)
  BY DEF BanType, Bans!Size
<1>5. Bans!Written(b) \in Bans!Entry
  BY <1>1, <1>2, <1>3, <1>4 DEF Bans!Written, Bans!Entry, BanType
<1>6. Bans!Written(b).Mask = Bans!Size(b.Mask) BY DEF Bans!Written
<1> QED BY <1>1, <1>2, <1>3, <1>4, <1>5, <1>6

\* An entry is received as an unchanged Ban.
LEMMA ReceivedBan ==
  ASSUME BanConstants, NEW e \in Bans!Entry
  PROVE  ReceivedAs(e) \in ListedBans
<1>1. PICK d \in Nat, t \in Nat \ {0} : d = e.Duration /\ t = Ticks
  BY DEF BanConstants, Bans!Entry
<1>2. d * t \in Nat BY ONLY d \in Nat, t \in Nat \ {0}
<1>3. Bans!CIDRMask(e.Mask, e.Address.bits) \in Nat \cup {Nil}
  BY DEF Bans!CIDRMask, Bans!Entry
<1>4. ReceivedAs(e) \in BanType
  BY <1>1, <1>2, <1>3, Zenon DEF ReceivedAs, BanType, Bans!Entry
<1>5. AsReceived(ReceivedAs(e)) BY DEF ReceivedAs, AsReceived
<1> QED BY <1>4, <1>5 DEF ListedBans

\* An unchanged Ban is written as it was received: the mask and the duration
\* survive their two conversions.
LEMMA SentAsReceived ==
  ASSUME BanConstants, NEW b \in ListedBans, b.origin # Nil, b.origin.Mask <= b.origin.Address.bits
  PROVE  Bans!Written(b) = [b.origin EXCEPT !.old = FALSE]
<1>1. PICK e \in Bans!Entry : e = b.origin BY Zenon DEF ListedBans, BanType
<1>2. PICK d \in Nat, t \in Nat \ {0} : d = e.Duration /\ t = Ticks
  BY DEF BanConstants, Bans!Entry
<1>3. (d * t) \div t = d BY ONLY d \in Nat, t \in Nat \ {0}
<1>4. Bans!Size(b.Mask) = e.Mask
  BY <1>1 DEF ListedBans, AsReceived, Bans!CIDRMask, Bans!Size, Bans!Entry, BanConstants
<1>5. Bans!Seconds(b.Duration) = e.Duration
  BY <1>1, <1>2, <1>3 DEF ListedBans, AsReceived, Bans!Seconds
<1>6. Bans!Written(b) = [Address |-> e.Address, Mask |-> e.Mask, Reason |-> e.Reason,
                    Duration |-> e.Duration, old |-> FALSE]
  BY <1>1, <1>4, <1>5, Zenon DEF Bans!Written, ListedBans, AsReceived
<1>7. PICK r : r = [e EXCEPT !.old = FALSE] BY Zenon
<1>8. /\ r \in Bans!Entry /\ r.Address = e.Address /\ r.Mask = e.Mask /\ r.Reason = e.Reason
      /\ r.Duration = e.Duration /\ r.old = FALSE
  BY <1>7, Zenon DEF Bans!Entry
<1>9. r = [Address |-> r.Address, Mask |-> r.Mask, Reason |-> r.Reason,
           Duration |-> r.Duration, old |-> r.old]
  BY <1>8 DEF Bans!Entry
<1> QED BY <1>1, <1>6, <1>7, <1>8, <1>9, Zenon

\* What a queue holds after an arrival.
LEMMA QueueOf ==
  ASSUME NEW S, NEW q \in Seq(S), NEW e \in S
  PROVE  /\ Append(q, e) \in Seq(S) /\ Len(Append(q, e)) = Len(q) + 1
         /\ \A k \in 1..Len(Append(q, e)) : (k \in 1..Len(q) /\ Append(q, e)[k] = q[k]) \/ Append(q, e)[k] = e
OBVIOUS

\* What a queue holds after a departure.
LEMMA QueueFirst ==
  ASSUME NEW S, NEW q \in Seq(S), q # <<>>
  PROVE  /\ Head(q) \in S /\ Head(q) = q[1] /\ 1 \in 1..Len(q) /\ Tail(q) \in Seq(S)
         /\ \A k \in 1..Len(Tail(q)) : k + 1 \in 1..Len(q) /\ Tail(q)[k] = q[k + 1]
OBVIOUS

\* Sending keeps the invariant.
LEMMA MessageSent ==
  ASSUME BanConstants, BanInv, NEW m \in Message, m.entries = EntriesOf(m.from),
         bansToServer' = Append(bansToServer, m), UNCHANGED <<bans, bansToClient, banList>>
  PROVE  BanInv'
<1>1. /\ bansToServer' \in Seq(Message)
      /\ \A k \in 1..Len(bansToServer') :
           (k \in 1..Len(bansToServer) /\ bansToServer'[k] = bansToServer[k]) \/ bansToServer'[k] = m
  BY QueueOf DEF BanInv
<1> QED BY <1>1 DEF BanInv

\* The setters (bans.go:53-81) make a Ban of the list that is not the
\* received one any more; lifting it changes nothing else.
LEMMA ChangedBan ==
  ASSUME BanConstants, NEW b \in ListedBans
  PROVE  /\ \A a \in Addresses : [[b EXCEPT !.origin = Nil] EXCEPT !["Address"] = a] \in ListedBans
         /\ \A n \in Masks \cup {Nil} : [[b EXCEPT !.origin = Nil] EXCEPT !["Mask"] = n] \in ListedBans
         /\ \A r \in Reasons : [[b EXCEPT !.origin = Nil] EXCEPT !["Reason"] = r] \in ListedBans
         /\ \A d \in Durations : [[b EXCEPT !.origin = Nil] EXCEPT !["Duration"] = d] \in ListedBans
         /\ \A u \in BOOLEAN : [b EXCEPT !.unban = u] \in ListedBans
<1> USE DEF ListedBans, AsReceived, BanType
<1>1. ASSUME NEW a \in Addresses
      PROVE  [[b EXCEPT !.origin = Nil] EXCEPT !["Address"] = a] \in ListedBans
  BY Zenon
<1>2. ASSUME NEW n \in Masks \cup {Nil}
      PROVE  [[b EXCEPT !.origin = Nil] EXCEPT !["Mask"] = n] \in ListedBans
  BY Zenon DEF BanConstants
<1>3. ASSUME NEW r \in Reasons
      PROVE  [[b EXCEPT !.origin = Nil] EXCEPT !["Reason"] = r] \in ListedBans
  BY Zenon
<1>4. ASSUME NEW d \in Durations
      PROVE  [[b EXCEPT !.origin = Nil] EXCEPT !["Duration"] = d] \in ListedBans
  BY Zenon DEF BanConstants
<1>5. ASSUME NEW u \in BOOLEAN
      PROVE  [b EXCEPT !.unban = u] \in ListedBans
  OBVIOUS
<1> QED BY ONLY <1>1, <1>2, <1>3, <1>4, <1>5, Zenon

\* Whatever the program does to the list keeps the invariant.
LEMMA EditedList ==
  ASSUME BanConstants, BanInv, Bans!Edit
  PROVE  BanInv'
<1>1. UNCHANGED <<bans, bansToServer, bansToClient>> BY Zenon DEF Bans!Edit
<1>2. banList' \subseteq ListedBans
  <2>1. ASSUME NEW b \in banList, NEW c \in ListedBans, banList' = (banList \ {b}) \cup {c}
        PROVE  banList' \subseteq ListedBans
    BY <2>1 DEF BanInv
  <2>2. ASSUME NEW a \in Addresses, NEW m \in Masks \cup {Nil}, NEW r \in Reasons,
               NEW d \in Durations, Bans!Add(a, m, r, d)
        PROVE  banList' \subseteq ListedBans
    <3>1. [Address |-> a, Mask |-> m, Reason |-> r, Duration |-> d, unban |-> FALSE, origin |-> Nil]
            \in ListedBans
      BY DEF ListedBans, BanType, AsReceived, BanConstants
    <3> QED BY <2>2, <3>1, Zenon DEF Bans!Add, BanInv
  <2>3. ASSUME NEW b \in banList, NEW a \in Addresses, Bans!SetField(b, "Address", a)
        PROVE  banList' \subseteq ListedBans
    <3>1. PICK c : c = [[b EXCEPT !.origin = Nil] EXCEPT !["Address"] = a]
      OBVIOUS
    <3>2. c \in ListedBans BY <3>1, ChangedBan, Zenon DEF BanInv
    <3>3. banList' = (banList \ {b}) \cup {c}
      BY <2>3, <3>1, Zenon DEF Bans!SetField, Bans!ChangeBan
    <3> QED BY <2>1, <3>2, <3>3, Zenon
  <2>4. ASSUME NEW b \in banList, NEW m \in Masks \cup {Nil}, Bans!SetField(b, "Mask", m)
        PROVE  banList' \subseteq ListedBans
    <3>1. PICK c : c = [[b EXCEPT !.origin = Nil] EXCEPT !["Mask"] = m]
      OBVIOUS
    <3>2. c \in ListedBans BY <3>1, ChangedBan, Zenon DEF BanInv
    <3>3. banList' = (banList \ {b}) \cup {c}
      BY <2>4, <3>1, Zenon DEF Bans!SetField, Bans!ChangeBan
    <3> QED BY <2>1, <3>2, <3>3, Zenon
  <2>5. ASSUME NEW b \in banList, NEW r \in Reasons, Bans!SetField(b, "Reason", r)
        PROVE  banList' \subseteq ListedBans
    <3>1. PICK c : c = [[b EXCEPT !.origin = Nil] EXCEPT !["Reason"] = r]
      OBVIOUS
    <3>2. c \in ListedBans BY <3>1, ChangedBan, Zenon DEF BanInv
    <3>3. banList' = (banList \ {b}) \cup {c}
      BY <2>5, <3>1, Zenon DEF Bans!SetField, Bans!ChangeBan
    <3> QED BY <2>1, <3>2, <3>3, Zenon
  <2>6. ASSUME NEW b \in banList, NEW d \in Durations, Bans!SetField(b, "Duration", d)
        PROVE  banList' \subseteq ListedBans
    <3>1. PICK c : c = [[b EXCEPT !.origin = Nil] EXCEPT !["Duration"] = d]
      OBVIOUS
    <3>2. c \in ListedBans BY <3>1, ChangedBan, Zenon DEF BanInv
    <3>3. banList' = (banList \ {b}) \cup {c}
      BY <2>6, <3>1, Zenon DEF Bans!SetField, Bans!ChangeBan
    <3> QED BY <2>1, <3>2, <3>3, Zenon
  <2>7. ASSUME NEW b \in banList, NEW u \in BOOLEAN, Bans!SetUnban(b, u)
        PROVE  banList' \subseteq ListedBans
    BY <2>1, <2>7, ChangedBan, Zenon DEF Bans!SetUnban, Bans!ChangeBan, BanInv
  <2> QED BY <2>2, <2>3, <2>4, <2>5, <2>6, <2>7 DEF Bans!Edit
<1> QED BY <1>1, <1>2 DEF BanInv

\* Every step keeps the invariant.
LEMMA BansStep ==
  ASSUME BanConstants, BanInv, [Bans!BansNext]_(Bans!banVars)
  PROVE  BanInv'
<1>1. CASE Bans!HandleBanList
  <2>1. /\ bansToClient # <<>> /\ bansToClient' = Tail(bansToClient) /\ UNCHANGED <<bans, bansToServer>>
        /\ banList' = {ReceivedAs(e) : e \in Head(bansToClient)}
    BY <1>1, Zenon DEF Bans!HandleBanList, ReceivedAs
  <2>2. Head(bansToClient) \subseteq Bans!Entry /\ bansToClient' \in Seq(SUBSET Bans!Entry)
    BY <2>1, QueueFirst DEF BanInv
  <2>3. banList' \subseteq ListedBans BY <2>1, <2>2, ReceivedBan
  <2> QED BY <2>1, <2>2, <2>3, Zenon DEF BanInv
<1>2. CASE Bans!RequestBanList
  <2>1. PICK m : m = [query |-> TRUE, entries |-> {}, from |-> {}] BY Zenon
  <2>2. m \in Message /\ m.entries = EntriesOf(m.from)
    BY <2>1 DEF Message, EntriesOf
  <2>3. bansToServer' = Append(bansToServer, m) /\ UNCHANGED <<bans, bansToClient, banList>>
    BY <1>2, <2>1 DEF Bans!RequestBanList
  <2> QED BY <2>2, <2>3, MessageSent
<1>3. CASE Bans!SendBanList
  <2>1. PICK m : m = [query |-> FALSE, from |-> banList, entries |-> EntriesOf(banList)]
    BY Zenon
  <2>2. EntriesOf(banList) \subseteq Bans!Entry
    BY WrittenEntry DEF EntriesOf, BanInv, ListedBans
  <2>3. m \in Message /\ m.entries = EntriesOf(m.from)
    BY <2>1, <2>2 DEF Message, BanInv
  <2>4. bansToServer' = Append(bansToServer, m) /\ UNCHANGED <<bans, bansToClient, banList>>
    BY <1>3, <2>1 DEF Bans!SendBanList, EntriesOf
  <2> QED BY <2>3, <2>4, MessageSent
<1>4. CASE Bans!Edit BY <1>4, EditedList
<1>5. CASE Bans!ServeBans
  <2>1. PICK m : m = Head(bansToServer) OBVIOUS
  <2>2. /\ bansToServer # <<>> /\ bansToServer' = Tail(bansToServer) /\ UNCHANGED banList
        /\ \/ bansToClient' = Append(bansToClient, bans) /\ UNCHANGED bans
           \/ bans' = m.entries /\ UNCHANGED bansToClient
    BY <1>5, <2>1 DEF Bans!ServeBans
  <2>3. /\ m \in Message /\ bansToServer' \in Seq(Message)
        /\ \A k \in 1..Len(bansToServer') : k + 1 \in 1..Len(bansToServer) /\ bansToServer'[k] = bansToServer[k + 1]
    BY <2>1, <2>2, QueueFirst DEF BanInv
  <2>4. bans' \subseteq Bans!Entry /\ bansToClient' \in Seq(SUBSET Bans!Entry)
    <3>1. m.entries \subseteq Bans!Entry BY <2>3 DEF Message
    <3>2. Append(bansToClient, bans) \in Seq(SUBSET Bans!Entry)
      BY QueueOf DEF BanInv
    <3> QED BY <2>2, <3>1, <3>2, Zenon DEF BanInv
  <2> QED BY <2>2, <2>3, <2>4 DEF BanInv
<1>6. CASE Bans!OtherAdmin BY <1>6 DEF Bans!OtherAdmin, BanInv
<1>7. CASE UNCHANGED Bans!banVars BY <1>7 DEF Bans!banVars, BanInv
<1> QED BY <1>1, <1>2, <1>3, <1>4, <1>5, <1>6, <1>7 DEF Bans!BansNext

\* The invariant has all lists on their way right.
LEMMA BansOfMessage ==
  ASSUME BanConstants, BanInv
  PROVE  BansKept
<1> SUFFICES ASSUME NEW m \in {bansToServer[k] : k \in DOMAIN bansToServer}
             PROVE  /\ \A b \in m.from :
                         b.origin # Nil /\ ~b.unban /\ b.origin.Mask <= b.origin.Address.bits =>
                           [b.origin EXCEPT !.old = FALSE] \in m.entries
                    /\ \A e \in m.entries :
                         \E b \in m.from :
                           /\ ~b.unban /\ b.Address = e.Address /\ b.Reason = e.Reason
                           /\ e.Duration * Ticks <= b.Duration /\ (b.Duration >= Ticks => e.Duration > 0)
                           /\ b.Mask # Nil => e.Mask = b.Mask
  BY Zenon DEF BansKept
<1>1. m.from \subseteq ListedBans /\ m.entries = {Bans!Written(b) : b \in {c \in m.from : ~c.unban}}
  <2>1. PICK k \in 1..Len(bansToServer) : m = bansToServer[k] BY DEF BanInv
  <2>2. m \in Message /\ m.entries = EntriesOf(m.from) BY <2>1 DEF BanInv
  <2> QED BY <2>2 DEF Message, EntriesOf
<1>2. ASSUME NEW b \in m.from, b.origin # Nil, ~b.unban, b.origin.Mask <= b.origin.Address.bits
      PROVE  [b.origin EXCEPT !.old = FALSE] \in m.entries
  <2>1. Bans!Written(b) = [b.origin EXCEPT !.old = FALSE]
    BY <1>1, <1>2, SentAsReceived
  <2> QED BY <1>1, <1>2, <2>1
<1>3. ASSUME NEW e \in m.entries
      PROVE  \E b \in m.from :
               /\ ~b.unban /\ b.Address = e.Address /\ b.Reason = e.Reason
               /\ e.Duration * Ticks <= b.Duration /\ (b.Duration >= Ticks => e.Duration > 0)
               /\ b.Mask # Nil => e.Mask = b.Mask
  <2>1. PICK b \in m.from : ~b.unban /\ e = Bans!Written(b) BY <1>1
  <2>2. b \in BanType BY <1>1, Zenon DEF ListedBans
  <2>3. b.Address = e.Address /\ b.Reason = e.Reason BY <2>1 DEF Bans!Written
  <2> QED BY <2>1, <2>2, <2>3, WrittenEntry
<1> QED BY <1>2, <1>3

\* A list that is sent back has every ban that was received and not changed,
\* and none that was lifted or for longer than asked (handlers.go:658-675,
\* bans.go:83-101): for any addresses, masks, durations and lists.
THEOREM BansAreKept ==
  ASSUME BanConstants, NEW first, \A S \in first : S \subseteq Bans!Entry
  PROVE  BansSpec(first) => []BansKept
<1>1. Bans!BansInit(first) => BanInv
  <2> SUFFICES ASSUME Bans!BansInit(first) PROVE BanInv OBVIOUS
  <2>1. bansToServer = <<>> /\ Len(bansToServer) = 0 /\ bansToServer \in Seq(Message) /\ bansToClient \in Seq(SUBSET Bans!Entry)
    BY DEF Bans!BansInit
  <2> QED BY <2>1 DEF Bans!BansInit, BanInv
<1>2. BanInv /\ [Bans!BansNext]_(Bans!banVars) => BanInv' BY BansStep
<1>3. BanInv => BansKept BY BansOfMessage
<1> QED BY <1>1, <1>2, <1>3, PTL DEF BansSpec

-----------------------------------------------------------------------------
(***************************************************************************)
(* The list of registered users (UserLists).                               *)
(***************************************************************************)
CONSTANTS Names, MaxUserChanges
VARIABLES usersToClient, userList, userChanges

Registered == INSTANCE UserLists WITH MaxChanges <- MaxUserChanges

\* The specification, of which safety is proved here.
UserListSpec == Registered!UsersInit /\ [][Registered!UsersNext]_(Registered!userListVars)

\* The RegisteredUsers of a program.
User == [UserID : UserIDs, Name : Names \cup {Nil}, changed : BOOLEAN, deregister : BOOLEAN]

\* The users of a packet.
Named == [UserId : UserIDs, Name : Names \cup {Nil}]

\* The inductive invariant: what is written, or on its way, is of users that
\* the program has changed, in this list or in one before it.
ListInv ==
  /\ registered \in [UserIDs -> Names \cup {Nil}]
  /\ usersToServer \in Seq(SUBSET Named) /\ usersToClient \in Seq(SUBSET Named) /\ userList \subseteq User
  /\ \A user \in userList : Registered!IsWritten(user) => user.UserID \in touched
  /\ \A k \in 1..Len(usersToServer) : \A user \in usersToServer[k] : user.UserId \in touched

\* A change of a user by the program keeps the invariant.
LEMMA EditStep ==
  ASSUME ListInv, NEW old \in userList, NEW user \in User, Registered!EditUser(old, user)
  PROVE  ListInv'
BY DEF ListInv, Registered!EditUser, Registered!IsWritten

\* Every step keeps the invariant.
LEMMA ListStep ==
  ASSUME ListInv, [Registered!UsersNext]_(Registered!userListVars)
  PROVE  ListInv'
<1>1. CASE Registered!RequestUserList
  <2>1. /\ usersToServer' = Append(usersToServer, {}) /\ UNCHANGED <<registered, usersToClient, userList, touched>>
        /\ usersToServer \in Seq(SUBSET Named)
    BY <1>1 DEF Registered!RequestUserList, ListInv
  <2>2. /\ usersToServer' \in Seq(SUBSET Named)
        /\ \A k \in 1..Len(usersToServer') : (k \in 1..Len(usersToServer) /\ usersToServer'[k] = usersToServer[k]) \/ usersToServer'[k] = {}
    BY <2>1, QueueOf
  <2> QED BY <2>1, <2>2 DEF ListInv
<1>2. CASE Registered!HandleUserList
  <2>1. usersToClient # <<>> /\ usersToClient' = Tail(usersToClient) /\ usersToClient \in Seq(SUBSET Named)
        /\ UNCHANGED <<registered, usersToServer, touched>>
    BY <1>2 DEF Registered!HandleUserList, ListInv
  <2>2. Head(usersToClient) \subseteq Named /\ usersToClient' \in Seq(SUBSET Named)
    BY <2>1, QueueFirst
  <2>3. userList' = {[UserID |-> user.UserId, Name |-> user.Name,
                  changed |-> FALSE, deregister |-> FALSE] : user \in Head(usersToClient)}
    BY <1>2 DEF Registered!HandleUserList
  <2>4. userList' \subseteq User /\ \A user \in userList' : ~Registered!IsWritten(user)
    <3> SUFFICES ASSUME NEW user \in userList' PROVE user \in User /\ ~Registered!IsWritten(user)
      OBVIOUS
    <3>1. PICK u \in Named :
            user = [UserID |-> u.UserId, Name |-> u.Name, changed |-> FALSE, deregister |-> FALSE]
      BY <2>2, <2>3
    <3>2. user \in User BY <3>1 DEF User, Named
    <3>3. user.changed = FALSE /\ user.deregister = FALSE BY <3>1, Zenon
    <3> QED BY <3>2, <3>3, Zenon DEF Registered!IsWritten
  <2> QED BY <2>1, <2>2, <2>4 DEF ListInv, Registered!IsWritten
<1>3. CASE Registered!SendUserList
  <2>1. PICK packet :
          packet = {[UserId |-> user.UserID, Name |-> IF user.deregister THEN Nil ELSE user.Name] :
                      user \in {u \in userList : Registered!IsWritten(u)}}
    BY Zenon
  <2>2. /\ usersToServer' = IF packet = {} THEN usersToServer ELSE Append(usersToServer, packet)
        /\ UNCHANGED <<registered, usersToClient, userList, touched>>
    BY <1>3, <2>1, Zenon DEF Registered!SendUserList
  <2>3. packet \in SUBSET Named /\ \A user \in packet : user.UserId \in touched
    BY <2>1 DEF ListInv, User, Named
  <2>4. /\ usersToServer' \in Seq(SUBSET Named)
        /\ \A k \in 1..Len(usersToServer') : (k \in 1..Len(usersToServer) /\ usersToServer'[k] = usersToServer[k]) \/ usersToServer'[k] = packet
    BY <2>2, <2>3, QueueOf DEF ListInv
  <2> QED BY <2>2, <2>3, <2>4 DEF ListInv, Registered!IsWritten
<1>4. CASE Registered!ServeUserList
  <2>1. PICK packet : packet = Head(usersToServer) OBVIOUS
  <2>2. PICK all : all = {[UserId |-> i, Name |-> registered[i]] : i \in {j \in UserIDs : registered[j] # Nil}}
    BY Zenon
  <2>3. /\ usersToServer # <<>> /\ usersToServer' = Tail(usersToServer) /\ UNCHANGED <<userList, touched>>
        /\ usersToClient' = IF packet = {} THEN Append(usersToClient, all) ELSE usersToClient
        /\ registered' = [i \in UserIDs |->
              IF registered[i] # Nil /\ \E user \in packet : user.UserId = i
              THEN (CHOOSE user \in packet : user.UserId = i).Name ELSE registered[i]]
    BY <1>4, <2>1, <2>2, Zenon DEF Registered!ServeUserList
  <2>4. /\ packet \subseteq Named /\ usersToServer' \in Seq(SUBSET Named)
        /\ \A k \in 1..Len(usersToServer') : k + 1 \in 1..Len(usersToServer) /\ usersToServer'[k] = usersToServer[k + 1]
    <3>1. usersToServer \in Seq(SUBSET Named) BY Zenon DEF ListInv
    <3> QED BY <2>1, <2>3, <3>1, QueueFirst
  <2>5. usersToClient' \in Seq(SUBSET Named)
    <3>1. all \in SUBSET Named
      <4>1. registered \in [UserIDs -> Names \cup {Nil}] BY DEF ListInv
      <4> QED BY ONLY <2>2, <4>1 DEF Named
    <3> QED BY <2>3, <3>1, QueueOf, Zenon DEF ListInv
  <2>6. registered' \in [UserIDs -> Names \cup {Nil}]
    <3>1. ASSUME NEW i \in UserIDs, \E user \in packet : user.UserId = i
          PROVE  (CHOOSE user \in packet : user.UserId = i).Name \in Names \cup {Nil}
      BY <2>4, <3>1 DEF Named
    <3> QED BY <2>3, <3>1 DEF ListInv
  <2> QED BY <2>3, <2>4, <2>5, <2>6 DEF ListInv, Registered!IsWritten
<1>5. ASSUME NEW user \in userList, Registered!Deregister(user) PROVE ListInv'
  <2>1. [user EXCEPT !.deregister = TRUE] \in User BY Zenon DEF ListInv, User
  <2> QED BY <1>5, <2>1, EditStep DEF Registered!Deregister
<1>6. ASSUME NEW user \in userList, Registered!Register(user) PROVE ListInv'
  <2>1. [user EXCEPT !.deregister = FALSE] \in User BY Zenon DEF ListInv, User
  <2> QED BY <1>6, <2>1, EditStep DEF Registered!Register
<1>7. ASSUME NEW user \in userList, NEW n \in Names, Registered!SetName(user, n) PROVE ListInv'
  <2>1. [user EXCEPT !.Name = n, !.changed = TRUE] \in User BY Zenon DEF ListInv, User
  <2> QED BY <1>7, <2>1, EditStep DEF Registered!SetName
<1>8. ASSUME NEW i \in UserIDs, NEW n \in Names \cup {Nil}, Registered!OtherChange(i, n) PROVE ListInv'
  BY <1>8, Zenon DEF Registered!OtherChange, ListInv, Registered!IsWritten
<1>9. CASE UNCHANGED Registered!userListVars
  BY <1>9 DEF Registered!userListVars, ListInv, Registered!IsWritten
<1> QED
  BY <1>1, <1>2, <1>3, <1>4, <1>5, <1>6, <1>7, <1>8, <1>9 DEF Registered!UsersNext

\* Only the server takes a packet off its way.
LEMMA OnlyServed ==
  ASSUME ListInv, [Registered!UsersNext]_(Registered!userListVars), Len(usersToServer') < Len(usersToServer)
  PROVE  Registered!ServeUserList
<1>1. usersToServer \in Seq(SUBSET Named) /\ Len(usersToServer) \in Nat
  BY DEF ListInv
<1>2. usersToServer' # usersToServer BY <1>1
<1>3. ASSUME NEW packet, usersToServer' = Append(usersToServer, packet) PROVE FALSE
  <2>1. Len(usersToServer') = Len(usersToServer) + 1 BY <1>1, <1>3
  <2> QED BY <1>1, <2>1
<1> QED
  BY <1>2, <1>3, Zenon
     DEF Registered!UsersNext, Registered!userListVars, Registered!RequestUserList,
         Registered!HandleUserList, Registered!SendUserList,
       Registered!Deregister, Registered!Register, Registered!SetName, Registered!EditUser, Registered!OtherChange

\* Sending a list leaves every user alone that the program has not changed
\* (userlist.go:50-52, 58-68), however old the list is: for any users and
\* names.
THEOREM UntouchedKept ==
  UserListSpec => UntouchedStay
<1>1. Registered!UsersInit => ListInv
  <2> SUFFICES ASSUME Registered!UsersInit PROVE ListInv OBVIOUS
  <2>1. Len(usersToServer) = 0 /\ usersToServer \in Seq(SUBSET Named) /\ usersToClient \in Seq(SUBSET Named)
    BY DEF Registered!UsersInit
  <2> QED BY <2>1 DEF Registered!UsersInit, ListInv
<1>2. ListInv /\ [Registered!UsersNext]_(Registered!userListVars) => ListInv'
  BY ListStep
<1>3. ListInv /\ [Registered!UsersNext]_(Registered!userListVars) =>
        [Len(usersToServer') < Len(usersToServer) =>
           \A i \in UserIDs \ touched : registered'[i] = registered[i]]_usersToServer
  <2> SUFFICES ASSUME ListInv, [Registered!UsersNext]_(Registered!userListVars),
                      Len(usersToServer') < Len(usersToServer), NEW i \in UserIDs \ touched
               PROVE  registered'[i] = registered[i]
    OBVIOUS
  <2>1. Registered!ServeUserList
    BY OnlyServed, Zenon
  <2>2. /\ usersToServer # <<>>
        /\ registered' = [j \in UserIDs |->
              IF registered[j] # Nil /\ \E user \in Head(usersToServer) : user.UserId = j
              THEN (CHOOSE user \in Head(usersToServer) : user.UserId = j).Name ELSE registered[j]]
    BY <2>1, Zenon DEF Registered!ServeUserList
  <2>3. Head(usersToServer) = usersToServer[1] /\ 1 \in 1..Len(usersToServer)
    BY <2>2, QueueFirst DEF ListInv
  <2>4. ~\E user \in Head(usersToServer) : user.UserId = i BY <2>3 DEF ListInv
  <2> QED BY <2>2, <2>4
<1> QED BY <1>1, <1>2, <1>3, PTL DEF UserListSpec, UntouchedStay
=============================================================================
