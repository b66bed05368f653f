------------------------------- MODULE Varint -------------------------------
(***************************************************************************)
(* The variable-length integers of the audio packets (package varint).     *)
(*                                                                         *)
(* An int64 is its sign and the eight bytes of its magnitude, the most     *)
(* significant first; MinInt64 is the negative number of magnitude 2^63.   *)
(***************************************************************************)
EXTENDS Integers, Sequences

Byte == 0..255
Zero == <<0, 0, 0, 0, 0, 0, 0, 0>>
MinInt64 == [neg |-> TRUE, mag |-> <<128, 0, 0, 0, 0, 0, 0, 0>>]

\* An int64 that fits the model checker's integers.
Int64(n) ==
  LET m == IF n < 0 THEN -n ELSE n
  IN  [neg |-> n < 0,
       mag |-> <<0, 0, 0, 0, m \div 2^24, (m \div 2^16) % 256, (m \div 256) % 256, m % 256>>]

\* The negation that int64 has: MinInt64 is its own.
Negate(v) == IF v = MinInt64 \/ v.mag = Zero THEN v ELSE [v EXCEPT !.neg = ~@]

\* mag < 2^bits
Fits(mag, bits) ==
  LET whole == bits \div 8
  IN  /\ \A i \in 1..(7 - whole) : mag[i] = 0
      /\ whole < 8 => mag[8 - whole] < 2^(bits % 8)

\* The last n bytes, the first of them marked with the prefix of the form.
Marked(prefix, mag, n) ==
  [i \in 1..n |-> mag[8 - n + i] + IF i = 1 THEN prefix ELSE 0]

Panic == <<-1>>
MaxVarintLen == 10

RECURSIVE EncodeTo(_, _)

\* Encode into a buffer with room for so many bytes.
EncodeTo(room, v) ==
  LET m == v.mag
      form ==
        IF v.neg /\ m \in {Int64(n).mag : n \in 1..4} THEN <<252 + m[8] - 1>>
        ELSE IF v.neg THEN
          LET rest == IF room = 0 THEN Panic ELSE EncodeTo(room - 1, Negate(v))
          IN  IF rest = Panic THEN Panic ELSE <<248>> \o rest
        ELSE IF Fits(m, 7) THEN Marked(0, m, 1)
        ELSE IF Fits(m, 14) THEN Marked(128, m, 2)
        ELSE IF Fits(m, 21) THEN Marked(192, m, 3)
        ELSE IF Fits(m, 28) THEN Marked(224, m, 4)
        ELSE IF Fits(m, 31) THEN <<240>> \o Marked(0, m, 4)
        ELSE <<244>> \o m
  IN  IF Len(form) > room THEN Panic ELSE form

Encode(v) == EncodeTo(MaxVarintLen, v)

\* The int64 of eight bytes in two's complement.
Signed(b) ==
  LET inverted == [i \in 1..8 |-> 255 - b[i]]
      carries(i) == \A j \in (i + 1)..8 : b[j] = 0
      negated == [i \in 1..8 |-> IF carries(i) THEN (inverted[i] + 1) % 256 ELSE inverted[i]]
  IN  IF b[1] < 128 THEN [neg |-> FALSE, mag |-> b] ELSE [neg |-> TRUE, mag |-> negated]

Unsigned(b) == [neg |-> FALSE, mag |-> [i \in 1..8 |-> IF i > 8 - Len(b) THEN b[i - 8 + Len(b)] ELSE 0]]

\* The value and the number of bytes read; none if there is an error.
NoValue == [value |-> Int64(0), n |-> 0]

RECURSIVE Decode(_)

Decode(b) ==
  LET first == b[1]
      \* the n bytes that follow the first, of which the mask leaves the rest
      marked(mask, n) ==
        [value |-> Unsigned(<<first % mask>> \o SubSeq(b, 2, n)), n |-> n]
  IN  IF b = <<>> THEN NoValue
      ELSE IF first < 128 THEN marked(128, 1)
      ELSE IF first < 192 /\ Len(b) >= 2 THEN marked(64, 2)
      ELSE IF first \in 192..223 /\ Len(b) >= 3 THEN marked(32, 3)
      ELSE IF first \in 224..239 /\ Len(b) >= 4 THEN marked(16, 4)
      ELSE IF first \in 240..243 /\ Len(b) >= 5 THEN
        [value |-> Unsigned(SubSeq(b, 2, 5)), n |-> 5]
      ELSE IF first \in 244..247 /\ Len(b) >= 9 THEN
        [value |-> Signed(SubSeq(b, 2, 9)), n |-> 9]
      ELSE IF first \in 248..251 THEN
        LET rest == Decode(Tail(b))
        IN  IF rest.n = 0 THEN NoValue ELSE [value |-> Negate(rest.value), n |-> rest.n + 1]
      ELSE IF first >= 252 THEN [value |-> Int64(-1 - (first % 4)), n |-> 1]
      ELSE NoValue
=============================================================================
