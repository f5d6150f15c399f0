--------------------------- MODULE ExchangeProofs ---------------------------
(***************************************************************************)
(* The frame codec and one exchange, for every byte base, every width of   *)
(* the identifiers, and whatever happens to the bytes of one frame: what   *)
(* is encoded is decoded, what is cut is refused, and what is decoded has  *)
(* arrived.                                                                *)
(***************************************************************************)
EXTENDS Exchange, SequenceLemmas, WellFoundedInduction

USE CodecAssumption DEF CodecAssumption

-----------------------------------------------------------------------------
(* Byte strings. *)

LEMMA ByteOK == 0 \in Byte /\ 1 \in Byte /\ \A b \in Byte : b \in Nat
BY DEF Byte

\* A byte string of length n is a sequence.
LEMMA BytesSeq ==
    ASSUME NEW n \in Nat, NEW x \in Bytes(n)
    PROVE  x \in Seq(Byte) /\ Len(x) = n
<1>1. x \in Seq(Byte)
  BY SeqDef DEF Bytes
<1>2. DOMAIN x = 1..n /\ DOMAIN x = 1..Len(x) /\ Len(x) \in Nat
  BY <1>1, LenProperties DEF Bytes
<1>3. Len(x) = n
  <2> DEFINE m == Len(x)
  <2>1. 1..n = 1..m /\ m \in Nat
    BY <1>2
  <2> HIDE DEF m
  <2>2. m = n
    BY <2>1
  <2> QED
    BY <2>2 DEF m
<1> QED
  BY <1>1, <1>3

\* A part of a sequence is one of the length asked for.
LEMMA PartOf ==
    ASSUME NEW s \in Seq(Byte), NEW k \in Nat, NEW n \in Nat, k + n <= Len(s)
    PROVE  /\ SubSeq(s, k + 1, k + n) \in Seq(Byte) /\ SubSeq(s, k + 1, k + n) \in Bytes(n)
           /\ Len(SubSeq(s, k + 1, k + n)) = n
           /\ \A i \in 1..n : SubSeq(s, k + 1, k + n)[i] = s[k + i]
<1> DEFINE t == SubSeq(s, k + 1, k + n)
<1>1. Len(s) \in Nat
  BY LenProperties
<1>2. \A i \in (k + 1)..(k + n) : s[i] \in Byte
  <2>1. \A i \in (k + 1)..(k + n) : i \in 1..Len(s)
    BY <1>1
  <2> QED
    BY <2>1, ElementOfSeq
<1>3. k + 1 \in Int /\ k + n \in Int
  OBVIOUS
<1>4. /\ t \in Seq(Byte)
      /\ Len(t) = IF k + 1 <= k + n THEN (k + n) - (k + 1) + 1 ELSE 0
      /\ \A i \in 1..((k + n) - (k + 1) + 1) : t[i] = s[(k + 1) + i - 1]
  BY <1>2, <1>3, SubSeqProperties
<1>5. t \in [1..Len(t) -> Byte]
  BY <1>4, LenProperties
<1> HIDE DEF t
<1>6. Len(t) = n
  BY <1>4
<1>7. \A i \in 1..n : t[i] = s[k + i]
  <2>1. \A i \in 1..n : i \in 1..((k + n) - (k + 1) + 1) /\ (k + 1) + i - 1 = k + i
    OBVIOUS
  <2> QED
    BY <1>4, <2>1
<1> QED
  BY <1>4, <1>5, <1>6, <1>7 DEF t, Bytes

-----------------------------------------------------------------------------
(* The length field. *)

\* Division by the base and its remainder.
LEMMA Digits ==
    ASSUME NEW n \in Nat
    PROVE  /\ n \div Base \in Nat /\ n % Base \in Byte
           /\ n = Base * (n \div Base) + (n % Base)
BY DEF Byte

LEMMA DigitsUnique ==
    ASSUME NEW q \in Nat, NEW b \in Byte
    PROVE  (q * Base + b) \div Base = q /\ (q * Base + b) % Base = b
<1> DEFINE n == q * Base + b
<1>1. n \in Nat /\ b \in Nat /\ b < Base
  BY DEF Byte
<1>2. /\ n \div Base \in Nat /\ n % Base \in Nat /\ n % Base < Base
      /\ n = Base * (n \div Base) + (n % Base)
  BY <1>1, Digits DEF Byte
<1> DEFINE p == n \div Base
           c == n % Base
<1>3. p \in Nat /\ c \in Nat /\ c < Base /\ q * Base + b = Base * p + c
  BY <1>2
<1> HIDE DEF n, p, c
<1>4. ~(p < q)
  <2>1. SUFFICES ASSUME p < q PROVE FALSE
    OBVIOUS
  <2>2. PICK d \in Nat : q = p + 1 + d
    <3>1. q - p - 1 \in Nat /\ q = p + 1 + (q - p - 1)
      BY <1>3, <2>1
    <3> QED
      BY <3>1
  <2>3. q * Base = p * Base + Base + d * Base /\ d * Base >= 0 /\ p * Base = Base * p
    BY <1>3, <2>2
  <2> QED
    BY <1>1, <1>3, <2>3
<1>5. ~(q < p)
  <2>1. SUFFICES ASSUME q < p PROVE FALSE
    OBVIOUS
  <2>2. PICK d \in Nat : p = q + 1 + d
    <3>1. p - q - 1 \in Nat /\ p = q + 1 + (p - q - 1)
      BY <1>3, <2>1
    <3> QED
      BY <3>1
  <2>3. Base * p = q * Base + Base + d * Base /\ d * Base >= 0
    BY <1>3, <2>2
  <2> QED
    BY <1>1, <1>3, <2>3
<1>6. p = q
  BY <1>3, <1>4, <1>5
<1>7. c = b
  BY <1>1, <1>3, <1>6
<1> QED
  BY <1>6, <1>7 DEF p, c, n

\* A quotient by the base is smaller by as much.
LEMMA QuotientLess ==
    ASSUME NEW n \in Nat, NEW m \in Nat, n < Base * m
    PROVE  n \div Base < m
<1> DEFINE q == n \div Base
<1>1. q \in Nat /\ Base * q <= n
  BY Digits DEF Byte
<1> HIDE DEF q
<1>2. SUFFICES ASSUME ~(q < m) PROVE FALSE
  BY DEF q
<1>3. PICK d \in Nat : q = m + d
  <2>1. q - m \in Nat /\ q = m + (q - m)
    BY <1>1, <1>2
  <2> QED
    BY <2>1
<1>4. Base * q = Base * m + Base * d /\ Base * d >= 0 /\ Base * m \in Nat
  BY <1>3
<1> QED
  BY <1>1, <1>4

LEMMA OneMoreDigit ==
    ASSUME NEW a \in Nat, NEW b \in Byte, NEW m \in Nat, a < m
    PROVE  a * Base + b \in Nat /\ a * Base + b < m * Base
<1>1. b \in Nat /\ b < Base
  BY DEF Byte
<1>2. PICK e \in Nat : m = a + 1 + e
  <2>1. m - a - 1 \in Nat /\ m = a + 1 + (m - a - 1)
    OBVIOUS
  <2> QED
    BY <2>1
<1>3. m * Base = a * Base + Base + e * Base /\ e * Base >= 0 /\ a * Base \in Nat /\ e * Base \in Nat
  BY <1>2
<1> QED
  BY <1>1, <1>3

\* What the length field says is what was put there, if it fits (the two calls
\* of binary.BigEndian).
LEMMA LengthField ==
    /\ \A n \in Lengths : /\ PutUint32(n) \in Seq(Byte) /\ Len(PutUint32(n)) = 4
                          /\ Uint32(PutUint32(n)) = n
    /\ \A d \in Seq(Byte) : Len(d) = 4 => Uint32(d) \in Lengths /\ PutUint32(Uint32(d)) = d
<1>0. Base * Base \in Nat /\ Base * Base * Base \in Nat /\ Base * Base * Base * Base \in Nat
  OBVIOUS
<1>1. ASSUME NEW n \in Lengths
      PROVE  /\ PutUint32(n) \in Seq(Byte) /\ Len(PutUint32(n)) = 4
             /\ Uint32(PutUint32(n)) = n
  <2> DEFINE q == n \div Base
             r == q \div Base
             s == r \div Base
  <2>1. n \in Nat /\ n < Base * Base * Base * Base
    BY <1>0 DEF Lengths
  <2>2. q \in Nat /\ n % Base \in Byte /\ n = Base * q + (n % Base)
    BY <2>1, Digits
  <2>3. r \in Nat /\ q % Base \in Byte /\ q = Base * r + (q % Base)
    BY <2>2, Digits
  <2>4. s \in Nat /\ r % Base \in Byte /\ r = Base * s + (r % Base)
    BY <2>3, Digits
  <2>5. q < Base * Base * Base
    <3>1. Base * Base * Base * Base = Base * (Base * Base * Base)
      OBVIOUS
    <3> QED
      BY <1>0, <2>1, <3>1, QuotientLess
  <2>6. r < Base * Base
    <3>1. Base * Base * Base = Base * (Base * Base)
      OBVIOUS
    <3> QED
      BY <1>0, <2>2, <2>5, <3>1, QuotientLess
  <2>7. s < Base
    BY <2>3, <2>6, QuotientLess
  <2>8. s % Base = s /\ s \in Byte
    <3>1. s \in Byte
      BY <2>4, <2>7 DEF Byte
    <3>2. (0 * Base + s) % Base = s /\ 0 * Base + s = s
      BY <2>4, <3>1, DigitsUnique
    <3> QED
      BY <3>1, <3>2
  <2>9. PutUint32(n) = <<s % Base, r % Base, q % Base, n % Base>>
    BY DEF PutUint32
  <2>10. PutUint32(n) \in Seq(Byte) /\ Len(PutUint32(n)) = 4
    BY <2>2, <2>3, <2>4, <2>8, <2>9
  <2>11. Uint32(PutUint32(n)) = ((s * Base + (r % Base)) * Base + (q % Base)) * Base + (n % Base)
    BY <2>8, <2>9 DEF Uint32
  <2> HIDE DEF q, r, s
  <2>12. s * Base + (r % Base) = r /\ r * Base + (q % Base) = q /\ q * Base + (n % Base) = n
    <3>1. s * Base = Base * s /\ r * Base = Base * r /\ q * Base = Base * q
      BY <2>2, <2>3, <2>4
    <3> QED
      BY <2>2, <2>3, <2>4, <3>1
  <2> QED
    BY <2>10, <2>11, <2>12
<1>2. ASSUME NEW d \in Seq(Byte), Len(d) = 4
      PROVE  Uint32(d) \in Lengths /\ PutUint32(Uint32(d)) = d
  <2>1. d[1] \in Byte /\ d[2] \in Byte /\ d[3] \in Byte /\ d[4] \in Byte
    <3>1. 1 \in 1..Len(d) /\ 2 \in 1..Len(d) /\ 3 \in 1..Len(d) /\ 4 \in 1..Len(d)
      BY <1>2
    <3> QED
      BY <3>1, ElementOfSeq
  <2>a. d[1] \in Nat /\ d[1] < Base
    BY <2>1 DEF Byte
  <2>b. 0 \in Nat /\ 0 * Base + d[1] = d[1]
    BY <2>a
  <2> DEFINE r == d[1] * Base + d[2]
             q == r * Base + d[3]
             n == q * Base + d[4]
  <2>2. r \in Nat /\ r < Base * Base
    BY <2>1, <2>a, OneMoreDigit
  <2>3. q \in Nat /\ q < (Base * Base) * Base
    BY <1>0, <2>1, <2>2, OneMoreDigit
  <2>4. n \in Nat /\ n < ((Base * Base) * Base) * Base
    BY <1>0, <2>1, <2>3, OneMoreDigit
  <2>5. n \div Base = q /\ n % Base = d[4]
    BY <2>1, <2>3, DigitsUnique
  <2>6. q \div Base = r /\ q % Base = d[3]
    BY <2>1, <2>2, DigitsUnique
  <2>7. r \div Base = d[1] /\ r % Base = d[2]
    BY <2>1, ByteOK, DigitsUnique
  <2>8. d[1] % Base = d[1]
    <3>1. (0 * Base + d[1]) % Base = d[1]
      BY <2>1, <2>b, DigitsUnique
    <3> QED
      BY <2>b, <3>1
  <2>9. Uint32(d) = n
    BY DEF Uint32
  <2> HIDE DEF r, q, n
  <2>10. PutUint32(n) = <<d[1], d[2], d[3], d[4]>>
    BY <2>5, <2>6, <2>7, <2>8, Zenon DEF PutUint32
  <2>11. d = <<d[1], d[2], d[3], d[4]>>
    BY <1>2, <2>1
  <2> QED
    BY <2>4, <2>9, <2>10, <2>11 DEF Lengths
<1> QED
  BY <1>1, <1>2

-----------------------------------------------------------------------------
(* The layout of a frame. *)

\* x is what stands in d behind position k.
Holds(d, k, x, n) == \A i \in 1..n : d[k + i] = x[i]

RequestAt == 6
SourceAt == RequestAt + RequestIDSize
DestAt == SourceAt + IDSize
FlagsAt == DestAt + IDSize

\* d begins with the fields of f, whatever its two reserved bytes are.
Carries(d, f) ==
    /\ Len(d) >= HeaderSize + Len(f.payload)
    /\ Holds(d, 0, <<f.version, f.type>>, 2)
    /\ Holds(d, 2, PutUint32(Len(f.payload)), 4)
    /\ Holds(d, RequestAt, f.request, RequestIDSize)
    /\ Holds(d, SourceAt, f.source, IDSize)
    /\ Holds(d, DestAt, f.dest, IDSize)
    /\ Holds(d, FlagsAt, <<f.flags>>, 1)
    /\ Holds(d, HeaderSize, f.payload, Len(f.payload))

LEMMA Positions ==
    /\ RequestIDSize \in Nat /\ IDSize \in Nat
    /\ RequestAt \in Nat /\ SourceAt \in Nat /\ DestAt \in Nat /\ FlagsAt \in Nat /\ HeaderSize \in Nat
    /\ RequestAt = 6 /\ SourceAt = RequestAt + RequestIDSize /\ DestAt = SourceAt + IDSize /\ FlagsAt = DestAt + IDSize
    /\ HeaderSize = FlagsAt + 3
BY DEF RequestAt, SourceAt, DestAt, FlagsAt, HeaderSize

LEMMA FrameFields ==
    ASSUME NEW f \in Frames
    PROVE  /\ <<f.version, f.type>> \in Seq(Byte) /\ Len(<<f.version, f.type>>) = 2
           /\ PutUint32(Len(f.payload)) \in Seq(Byte) /\ Len(PutUint32(Len(f.payload))) = 4
           /\ f.request \in Seq(Byte) /\ Len(f.request) = RequestIDSize
           /\ f.source \in Seq(Byte) /\ Len(f.source) = IDSize
           /\ f.dest \in Seq(Byte) /\ Len(f.dest) = IDSize
           /\ <<f.flags, 0, 0>> \in Seq(Byte) /\ Len(<<f.flags, 0, 0>>) = 3
           /\ f.payload \in Seq(Byte) /\ Len(f.payload) \in Lengths /\ Len(f.payload) \in Nat
<1>1. /\ f.version = 1 /\ f.type \in Byte /\ f.flags \in Byte
      /\ f.request \in Bytes(RequestIDSize) /\ f.source \in Bytes(IDSize) /\ f.dest \in Bytes(IDSize)
      /\ f.payload \in Seq(Byte) /\ Len(f.payload) \in Lengths
  BY DEF Frames, Version
<1>2. <<f.version, f.type>> \in Seq(Byte) /\ Len(<<f.version, f.type>>) = 2
  BY <1>1, ByteOK
<1>3. <<f.flags, 0, 0>> \in Seq(Byte) /\ Len(<<f.flags, 0, 0>>) = 3
  BY <1>1, ByteOK
<1> QED
  BY <1>1, <1>2, <1>3, BytesSeq, LengthField, LenProperties

\* What d holds in its first m bytes, e holds too.
Keeps(d, e, m) ==
    \A k, l \in Nat : \A y : k + l <= m /\ Holds(d, k, y, l) => Holds(e, k, y, l)

\* One more field.
LEMMA OneMoreField ==
    ASSUME NEW d \in Seq(Byte), NEW x \in Seq(Byte), NEW m \in Nat, NEW n \in Nat,
           Len(d) = m, Len(x) = n
    PROVE  /\ d \o x \in Seq(Byte) /\ Len(d \o x) = m + n
           /\ Holds(d \o x, m, x, n)
           /\ Keeps(d, d \o x, m)
<1> DEFINE e == d \o x
<1>1. /\ e \in Seq(Byte) /\ Len(e) = Len(d) + Len(x)
      /\ \A i \in 1..Len(d) : e[i] = d[i]
      /\ \A i \in 1..Len(x) : e[Len(d) + i] = x[i]
  BY ConcatOps, SMTT(30)
<1> HIDE DEF e
<1>2. Holds(e, m, x, n)
  BY <1>1 DEF Holds
<1>3. ASSUME NEW k \in Nat, NEW l \in Nat, NEW y, k + l <= m, Holds(d, k, y, l)
      PROVE  Holds(e, k, y, l)
  <2>1. \A i \in 1..l : k + i \in 1..m
    BY <1>3
  <2> QED
    BY <1>1, <1>3, <2>1 DEF Holds
<1>4. Keeps(d, e, m)
  BY <1>3 DEF Keeps
<1> QED
  BY <1>1, <1>2, <1>4 DEF e

LEMMA EncodeCarries ==
    ASSUME NEW f \in Frames
    PROVE  /\ Encode(f) \in Seq(Byte) /\ Len(Encode(f)) = HeaderSize + Len(f.payload)
           /\ Carries(Encode(f), f)
<1> DEFINE a1 == <<f.version, f.type>>
           a2 == PutUint32(Len(f.payload))
           a3 == f.request
           a4 == f.source
           a5 == f.dest
           a6 == <<f.flags, 0, 0>>
           a7 == f.payload
           d2 == a1 \o a2
           d3 == d2 \o a3
           d4 == d3 \o a4
           d5 == d4 \o a5
           d6 == d5 \o a6
           d7 == d6 \o a7
           n == Len(f.payload)
<1>1. /\ a1 \in Seq(Byte) /\ a2 \in Seq(Byte) /\ a3 \in Seq(Byte) /\ a4 \in Seq(Byte)
      /\ a5 \in Seq(Byte) /\ a6 \in Seq(Byte) /\ a7 \in Seq(Byte)
      /\ Len(a1) = 2 /\ Len(a2) = 4 /\ Len(a3) = RequestIDSize /\ Len(a4) = IDSize /\ Len(a5) = IDSize
      /\ Len(a6) = 3 /\ Len(a7) = n /\ n \in Nat
  BY FrameFields
<1>2. Encode(f) = d7
  BY DEF Encode
<1>3. Holds(a1, 0, a1, 2) /\ Holds(a6, 0, <<f.flags>>, 1)
  BY DEF Holds
<1> HIDE DEF a1, a2, a3, a4, a5, a6, a7, n
<1>n. 2 \in Nat /\ 3 \in Nat /\ 4 \in Nat /\ 6 \in Nat
  OBVIOUS
<1>4. /\ d2 \in Seq(Byte) /\ Len(d2) = RequestAt
      /\ Holds(d2, 0, a1, 2) /\ Holds(d2, 2, a2, 4)
  <2>1. /\ d2 \in Seq(Byte) /\ Len(d2) = 2 + 4
        /\ Holds(d2, 2, a2, 4) /\ Keeps(a1, d2, 2)
    BY <1>1, <1>n, OneMoreField, Zenon
  <2> HIDE DEF d2
  <2>2. 0 + 2 <= 2
    BY Positions
  <2> QED
    BY <1>3, <2>1, <2>2, Positions DEF Keeps
<1> HIDE DEF d2
<1>5. /\ d3 \in Seq(Byte) /\ Len(d3) = SourceAt
      /\ Holds(d3, 0, a1, 2) /\ Holds(d3, 2, a2, 4) /\ Holds(d3, RequestAt, a3, RequestIDSize)
  <2>1. /\ d3 \in Seq(Byte) /\ Len(d3) = RequestAt + RequestIDSize
        /\ Holds(d3, RequestAt, a3, RequestIDSize) /\ Keeps(d2, d3, RequestAt)
    <3>1. /\ d2 \in Seq(Byte) /\ a3 \in Seq(Byte) /\ RequestAt \in Nat /\ RequestIDSize \in Nat
          /\ Len(d2) = RequestAt /\ Len(a3) = RequestIDSize
      BY <1>1, <1>4, Positions
    <3> QED
      BY <3>1, OneMoreField
  <2> HIDE DEF d3
  <2>2. /\ 0 + 2 <= RequestAt /\ 2 + 4 <= RequestAt
    BY Positions
  <2> QED
    BY <1>4, <2>1, <2>2, Positions DEF Keeps
<1> HIDE DEF d3
<1>6. /\ d4 \in Seq(Byte) /\ Len(d4) = DestAt
      /\ Holds(d4, 0, a1, 2) /\ Holds(d4, 2, a2, 4) /\ Holds(d4, RequestAt, a3, RequestIDSize)
      /\ Holds(d4, SourceAt, a4, IDSize)
  <2>1. /\ d4 \in Seq(Byte) /\ Len(d4) = SourceAt + IDSize
        /\ Holds(d4, SourceAt, a4, IDSize) /\ Keeps(d3, d4, SourceAt)
    BY <1>1, <1>5, Positions, OneMoreField
  <2> HIDE DEF d4
  <2>2. /\ 0 + 2 <= SourceAt /\ 2 + 4 <= SourceAt /\ RequestAt + RequestIDSize <= SourceAt
    BY Positions
  <2> QED
    BY <1>5, <2>1, <2>2, Positions DEF Keeps
<1> HIDE DEF d4
<1>7. /\ d5 \in Seq(Byte) /\ Len(d5) = FlagsAt
      /\ Holds(d5, 0, a1, 2) /\ Holds(d5, 2, a2, 4) /\ Holds(d5, RequestAt, a3, RequestIDSize)
      /\ Holds(d5, SourceAt, a4, IDSize) /\ Holds(d5, DestAt, a5, IDSize)
  <2>1. /\ d5 \in Seq(Byte) /\ Len(d5) = DestAt + IDSize
        /\ Holds(d5, DestAt, a5, IDSize) /\ Keeps(d4, d5, DestAt)
    BY <1>1, <1>6, Positions, OneMoreField
  <2> HIDE DEF d5
  <2>2. /\ 0 + 2 <= DestAt /\ 2 + 4 <= DestAt /\ RequestAt + RequestIDSize <= DestAt
        /\ SourceAt + IDSize <= DestAt
    BY Positions
  <2> QED
    BY <1>6, <2>1, <2>2, Positions DEF Keeps
<1> HIDE DEF d5
<1>8. /\ d6 \in Seq(Byte) /\ Len(d6) = HeaderSize
      /\ Holds(d6, 0, a1, 2) /\ Holds(d6, 2, a2, 4) /\ Holds(d6, RequestAt, a3, RequestIDSize)
      /\ Holds(d6, SourceAt, a4, IDSize) /\ Holds(d6, DestAt, a5, IDSize) /\ Holds(d6, FlagsAt, <<f.flags>>, 1)
  <2>1. /\ d6 \in Seq(Byte) /\ Len(d6) = FlagsAt + 3
        /\ Holds(d6, FlagsAt, a6, 3) /\ Keeps(d5, d6, FlagsAt)
    BY <1>1, <1>7, <1>n, Positions, OneMoreField, Zenon
  <2> HIDE DEF d6
  <2>2. /\ 0 + 2 <= FlagsAt /\ 2 + 4 <= FlagsAt /\ RequestAt + RequestIDSize <= FlagsAt
        /\ SourceAt + IDSize <= FlagsAt /\ DestAt + IDSize <= FlagsAt
    BY Positions
  <2>3. Holds(d6, FlagsAt, <<f.flags>>, 1)
    BY <2>1 DEF Holds, a6
  <2> QED
    BY <1>7, <2>1, <2>2, <2>3, Positions DEF Keeps
<1> HIDE DEF d6
<1>9. /\ d7 \in Seq(Byte) /\ Len(d7) = HeaderSize + n
      /\ Holds(d7, 0, a1, 2) /\ Holds(d7, 2, a2, 4) /\ Holds(d7, RequestAt, a3, RequestIDSize)
      /\ Holds(d7, SourceAt, a4, IDSize) /\ Holds(d7, DestAt, a5, IDSize) /\ Holds(d7, FlagsAt, <<f.flags>>, 1)
      /\ Holds(d7, HeaderSize, a7, n)
  <2>1. /\ d7 \in Seq(Byte) /\ Len(d7) = HeaderSize + n
        /\ Holds(d7, HeaderSize, a7, n) /\ Keeps(d6, d7, HeaderSize)
    BY <1>1, <1>8, Positions, OneMoreField
  <2> HIDE DEF d7
  <2>2. /\ 0 + 2 <= HeaderSize /\ 2 + 4 <= HeaderSize /\ RequestAt + RequestIDSize <= HeaderSize
        /\ SourceAt + IDSize <= HeaderSize /\ DestAt + IDSize <= HeaderSize /\ FlagsAt + 1 <= HeaderSize
    BY Positions
  <2> QED
    BY <1>8, <2>1, <2>2, Positions DEF Keeps
<1> HIDE DEF d7
<1>10. HeaderSize + n >= HeaderSize + n
  BY <1>1, Positions
<1> QED
  BY <1>2, <1>9, <1>10 DEF Carries, a1, a2, a3, a4, a5, a7, n

-----------------------------------------------------------------------------
(* Decoding. *)

Part(d, k, n) == SubSeq(d, k + 1, k + n)

LEMMA PartIs ==
    ASSUME NEW d \in Seq(Byte), NEW k \in Nat, NEW n \in Nat, k + n <= Len(d)
    PROVE  /\ Part(d, k, n) \in Seq(Byte) /\ Part(d, k, n) \in Bytes(n) /\ Len(Part(d, k, n)) = n
           /\ Holds(d, k, Part(d, k, n), n)
           /\ \A x \in Seq(Byte) : Len(x) = n /\ Holds(d, k, x, n) => Part(d, k, n) = x
<1> DEFINE t == Part(d, k, n)
<1>1. t \in Seq(Byte) /\ t \in Bytes(n) /\ Len(t) = n /\ \A i \in 1..n : t[i] = d[k + i]
  BY PartOf DEF Part
<1> HIDE DEF t
<1>2. ASSUME NEW x \in Seq(Byte), Len(x) = n, Holds(d, k, x, n)
      PROVE  t = x
  BY <1>1, <1>2, SeqEqual DEF Holds
<1>3. Holds(d, k, t, n)
  BY <1>1 DEF Holds
<1> QED
  BY <1>1, <1>2, <1>3 DEF t

\* The fields Decode reads, in terms of their positions.
LEMMA DecodeFields ==
    ASSUME NEW d \in Seq(Byte)
    PROVE  /\ PayloadLength(d) = Uint32(Part(d, 2, 4))
           /\ Decodable(d) =>
                Decode(d) = [version |-> d[1], type |-> d[2],
                             request |-> Part(d, RequestAt, RequestIDSize),
                             source |-> Part(d, SourceAt, IDSize), dest |-> Part(d, DestAt, IDSize),
                             flags |-> d[FlagsAt + 1],
                             payload |-> Part(d, HeaderSize, PayloadLength(d))]
<1>1. PayloadLength(d) = Uint32(Part(d, 2, 4))
  <2>1. 2 + 1 = 3 /\ 2 + 4 = 6
    OBVIOUS
  <2> QED
    BY <2>1 DEF PayloadLength, Part
<1>2. ASSUME Decodable(d)
      PROVE  /\ Decode(d).version = d[1] /\ Decode(d).type = d[2]
             /\ Decode(d) = [version |-> d[1], type |-> d[2],
                             request |-> Part(d, RequestAt, RequestIDSize),
                             source |-> Part(d, SourceAt, IDSize), dest |-> Part(d, DestAt, IDSize),
                             flags |-> d[FlagsAt + 1],
                             payload |-> Part(d, HeaderSize, PayloadLength(d))]
  <2>1. RequestAt + 1 = 7 /\ RequestAt = 6
    BY Positions
  <2> QED
    BY <1>2, <2>1 DEF Decode, Part, Payload, SourceAt, DestAt, FlagsAt
<1> QED
  BY <1>1, <1>2

LEMMA DecodeCarried ==
    ASSUME NEW d \in Seq(Byte), NEW f \in Frames, Carries(d, f)
    PROVE  Decodable(d) /\ Decode(d) = f
<1> DEFINE n == Len(f.payload)
<1>1. /\ Len(d) \in Nat /\ n \in Nat /\ n \in Lengths
      /\ Len(d) >= HeaderSize + n
  BY FrameFields, LenProperties DEF Carries
<1>2. Len(d) >= HeaderSize /\ 2 + 4 <= Len(d) /\ RequestAt + RequestIDSize <= Len(d)
      /\ SourceAt + IDSize <= Len(d) /\ DestAt + IDSize <= Len(d) /\ HeaderSize + n <= Len(d)
  <2> DEFINE m == Len(d)
  <2>1. m \in Nat /\ n \in Nat /\ m >= HeaderSize + n
    BY <1>1
  <2> HIDE DEF m, n
  <2>2. m >= HeaderSize /\ 2 + 4 <= m /\ RequestAt + RequestIDSize <= m
        /\ SourceAt + IDSize <= m /\ DestAt + IDSize <= m /\ HeaderSize + n <= m
    BY <2>1, Positions
  <2> QED
    BY <2>2 DEF m
<1>3. d[1] = f.version /\ d[2] = f.type /\ d[FlagsAt + 1] = f.flags
  <2>1. d[0 + 1] = f.version /\ d[0 + 2] = f.type /\ d[FlagsAt + 1] = f.flags
    BY DEF Carries, Holds
  <2> QED
    BY <2>1
<1>4. PayloadLength(d) = n
  <2>1. Part(d, 2, 4) = PutUint32(n)
    <3>1. /\ PutUint32(n) \in Seq(Byte) /\ Len(PutUint32(n)) = 4 /\ 2 \in Nat /\ 4 \in Nat
          /\ Holds(d, 2, PutUint32(n), 4)
      BY FrameFields DEF Carries
    <3> QED
      BY <1>2, <3>1, PartIs, Zenon
  <2> QED
    BY <1>1, <2>1, DecodeFields, LengthField
<1>5. Decodable(d)
  <2>1. f.version = Version
    BY DEF Frames
  <2> QED
    BY <1>2, <1>3, <1>4, <2>1 DEF Decodable
<1>6. /\ Part(d, RequestAt, RequestIDSize) = f.request
      /\ Part(d, SourceAt, IDSize) = f.source
      /\ Part(d, DestAt, IDSize) = f.dest
      /\ Part(d, HeaderSize, n) = f.payload
  <2>1. /\ f.request \in Seq(Byte) /\ Len(f.request) = RequestIDSize
        /\ Holds(d, RequestAt, f.request, RequestIDSize)
    BY FrameFields DEF Carries
  <2>2. Part(d, RequestAt, RequestIDSize) = f.request
    BY <1>2, <2>1, Positions, PartIs
  <2>3. /\ f.source \in Seq(Byte) /\ Len(f.source) = IDSize
        /\ Holds(d, SourceAt, f.source, IDSize)
    BY FrameFields DEF Carries
  <2>4. Part(d, SourceAt, IDSize) = f.source
    BY <1>2, <2>3, Positions, PartIs
  <2>5. f.dest \in Seq(Byte) /\ Len(f.dest) = IDSize /\ Holds(d, DestAt, f.dest, IDSize)
    BY FrameFields DEF Carries
  <2>6. Part(d, DestAt, IDSize) = f.dest
    BY <1>2, <2>5, Positions, PartIs
  <2>7. f.payload \in Seq(Byte) /\ Holds(d, HeaderSize, f.payload, n)
    BY FrameFields DEF Carries
  <2>8. Part(d, HeaderSize, n) = f.payload
    BY <1>1, <1>2, <2>7, Positions, PartIs
  <2> QED
    BY <2>2, <2>4, <2>6, <2>8
<1> HIDE DEF n
<1>7. Decode(d) = [version |-> f.version, type |-> f.type, request |-> f.request,
                   source |-> f.source, dest |-> f.dest, flags |-> f.flags, payload |-> f.payload]
  BY <1>3, <1>4, <1>5, <1>6, DecodeFields
<1>8. f = [version |-> f.version, type |-> f.type, request |-> f.request,
           source |-> f.source, dest |-> f.dest, flags |-> f.flags, payload |-> f.payload]
  BY DEF Frames
<1> QED
  BY <1>5, <1>7, <1>8

LEMMA DecodedCarries ==
    ASSUME NEW d \in Seq(Byte), Decodable(d)
    PROVE  Decode(d) \in Frames /\ Carries(d, Decode(d))
<1> DEFINE f == Decode(d)
           n == PayloadLength(d)
<1>1. Len(d) \in Nat /\ Len(d) >= HeaderSize /\ d[1] = Version /\ Len(d) >= HeaderSize + n
  BY LenProperties DEF Decodable
<1>2. 2 + 4 <= Len(d) /\ RequestAt + RequestIDSize <= Len(d)
      /\ SourceAt + IDSize <= Len(d) /\ DestAt + IDSize <= Len(d)
      /\ 2 \in 1..Len(d) /\ FlagsAt + 1 \in 1..Len(d) /\ 2 \in Nat /\ 4 \in Nat
  BY <1>1, Positions
<1>3. /\ n \in Lengths /\ n \in Nat
      /\ Holds(d, 2, PutUint32(n), 4)
  <2>1. /\ Part(d, 2, 4) \in Seq(Byte) /\ Len(Part(d, 2, 4)) = 4
        /\ Holds(d, 2, Part(d, 2, 4), 4)
    <3> DEFINE k == 2
               w == 4
    <3>1. k \in Nat /\ w \in Nat /\ k + w <= Len(d)
      BY <1>2
    <3> HIDE DEF k, w
    <3>2. /\ Part(d, k, w) \in Seq(Byte) /\ Len(Part(d, k, w)) = w
          /\ Holds(d, k, Part(d, k, w), w)
      BY <3>1, PartIs
    <3> QED
      BY <3>2 DEF k, w
  <2>2. n = Uint32(Part(d, 2, 4))
    BY DecodeFields
  <2> HIDE DEF n
  <2>3. n \in Lengths /\ PutUint32(n) = Part(d, 2, 4)
    BY <2>1, <2>2, LengthField
  <2> QED
    BY <2>1, <2>3 DEF Lengths
<1>4. f = [version |-> d[1], type |-> d[2],
           request |-> Part(d, RequestAt, RequestIDSize),
           source |-> Part(d, SourceAt, IDSize), dest |-> Part(d, DestAt, IDSize),
           flags |-> d[FlagsAt + 1], payload |-> Part(d, HeaderSize, n)]
  BY DecodeFields
<1> HIDE DEF f, n
<1>5. /\ f.request \in Bytes(RequestIDSize) /\ Holds(d, RequestAt, f.request, RequestIDSize)
  BY <1>2, <1>4, Positions, PartIs
<1>6. /\ f.source \in Bytes(IDSize) /\ Holds(d, SourceAt, f.source, IDSize)
  BY <1>2, <1>4, Positions, PartIs
<1>7. /\ f.dest \in Bytes(IDSize) /\ Holds(d, DestAt, f.dest, IDSize)
  BY <1>2, <1>4, Positions, PartIs
<1>8. /\ f.payload \in Seq(Byte) /\ Len(f.payload) = n /\ Holds(d, HeaderSize, f.payload, n)
  <2>1. HeaderSize + n <= Len(d)
    BY <1>1, <1>3, Positions
  <2> QED
    BY <1>3, <1>4, <2>1, Positions, PartIs
<1>9. f.version = Version /\ f.type \in Byte /\ f.flags \in Byte
  BY <1>1, <1>2, <1>4, ElementOfSeq
<1>10. f \in Frames
  BY <1>3, <1>4, <1>5, <1>6, <1>7, <1>8, <1>9 DEF Frames
<1>11. Holds(d, 0, <<f.version, f.type>>, 2) /\ Holds(d, FlagsAt, <<f.flags>>, 1)
  BY <1>4 DEF Holds
<1>12. Carries(d, f)
  BY <1>1, <1>3, <1>5, <1>6, <1>7, <1>8, <1>11 DEF Carries
<1> QED
  BY <1>10, <1>12 DEF f

-----------------------------------------------------------------------------
(* Identities. *)

\* Where an identity ends in its field.
EndsAt(field, n) ==
    /\ n \in 0..IDSize
    /\ \A i \in 1..n : field[i] # 0
    /\ n = IDSize \/ field[n + 1] = 0

LEMMA EndUnique ==
    ASSUME NEW field, NEW n, NEW m, EndsAt(field, n), EndsAt(field, m)
    PROVE  n = m
<1>1. n \in Nat /\ m \in Nat /\ n <= IDSize /\ m <= IDSize
  BY DEF EndsAt
<1>2. ASSUME NEW a \in Nat, NEW b \in Nat, EndsAt(field, a), EndsAt(field, b)
      PROVE  ~(a < b)
  <2>1. a < b => a + 1 \in 1..b /\ a # IDSize
    BY <1>2 DEF EndsAt
  <2> QED
    BY <1>2, <2>1 DEF EndsAt
<1> QED
  BY <1>1, <1>2

LEMMA LeastOf ==
    ASSUME NEW Z \in SUBSET Nat, Z # {}
    PROVE  \E z \in Z : \A y \in Z : z <= y
<1>1. PICK z \in Z : \A y \in Z : ~(<<y, z>> \in OpToRel(<, Nat))
  BY NatLessThanWellFounded, WFMin
<1>2. \A y \in Z : ~(y < z)
  BY <1>1 DEF OpToRel
<1> QED
  BY <1>2

LEMMA IDLengthIs ==
    ASSUME NEW field
    PROVE  EndsAt(field, IDLength(field))
<1>1. \E n \in 0..IDSize : EndsAt(field, n)
  <2> DEFINE Z == {i \in 1..IDSize : field[i] = 0}
  <2>1. CASE Z = {}
    BY <2>1 DEF EndsAt
  <2>2. CASE Z # {}
    <3>1. PICK z \in Z : \A y \in Z : z <= y
      <4>1. Z \in SUBSET Nat
        OBVIOUS
      <4> QED
        BY <2>2, <4>1, LeastOf
    <3>2. z \in 1..IDSize /\ field[z] = 0
      OBVIOUS
    <3>3. \A i \in 1..(z - 1) : field[i] # 0
      <4>1. \A i \in 1..(z - 1) : i \in 1..IDSize /\ ~(z <= i)
        BY <3>2
      <4> QED
        BY <3>1, <4>1
    <3>4. z - 1 \in 0..IDSize /\ (z - 1) + 1 = z
      BY <3>2
    <3> QED
      BY <3>2, <3>3, <3>4 DEF EndsAt
  <2> QED
    BY <2>1, <2>2
<1> QED
  BY <1>1 DEF IDLength, EndsAt

LEMMA ParseOK ==
    ASSUME NEW field \in Bytes(IDSize)
    PROVE  /\ ParseID(field) \in Seq(Byte)
           /\ Len(ParseID(field)) = IDLength(field)
           /\ \A i \in 1..IDLength(field) : ParseID(field)[i] = field[i]
<1> DEFINE n == IDLength(field)
<1>1. n \in Nat /\ n <= IDSize
  BY IDLengthIs DEF EndsAt
<1>2. field \in Seq(Byte) /\ Len(field) = IDSize
  BY BytesSeq
<1>3. ParseID(field) = SubSeq(field, 1, n)
  BY DEF ParseID
<1> HIDE DEF n
<1>4. \A i \in 1..n : field[i] \in Byte
  BY <1>1 DEF Bytes
<1>5. /\ SubSeq(field, 1, n) \in Seq(Byte)
      /\ Len(SubSeq(field, 1, n)) = IF 1 <= n THEN n - 1 + 1 ELSE 0
      /\ \A i \in 1..(n - 1 + 1) : SubSeq(field, 1, n)[i] = field[1 + i - 1]
  <2>1. 1 \in Int /\ n \in Int
    BY <1>1
  <2> QED
    BY <1>4, <2>1, SubSeqProperties
<1>6. Len(SubSeq(field, 1, n)) = n
  BY <1>1, <1>5
<1>7. \A i \in 1..n : i \in 1..(n - 1 + 1) /\ 1 + i - 1 = i
  BY <1>1
<1> QED
  BY <1>3, <1>5, <1>6, <1>7 DEF n

LEMMA PadOK ==
    ASSUME NEW id \in Seq(Byte)
    PROVE  PadID(id) \in Bytes(IDSize)
<1>1. ASSUME NEW i \in 1..IDSize
      PROVE  (IF i <= Len(id) THEN id[i] ELSE 0) \in Byte
  <2>1. Len(id) \in Nat
    BY LenProperties
  <2>2. i <= Len(id) => i \in 1..Len(id)
    BY <2>1
  <2> QED
    BY <2>2, ByteOK, ElementOfSeq
<1> QED
  BY <1>1 DEF PadID, Bytes

\* An identity that fits is read back, and a longer one reads as what was
\* written of it (PadID, ParseID).
LEMMA PadParse ==
    ASSUME NEW id \in Seq(Byte \ {0})
    PROVE  /\ id \in Seq(Byte) /\ PadID(id) \in Bytes(IDSize)
           /\ Len(id) <= IDSize => ParseID(PadID(id)) = id
           /\ PadID(ParseID(PadID(id))) = PadID(id)
<1> DEFINE field == PadID(id)
           n == IDLength(field)
           m == Len(id)
           p == ParseID(field)
<1>1. id \in Seq(Byte) /\ m \in Nat /\ \A i \in 1..m : id[i] \in Byte /\ id[i] # 0
  <2>1. Byte \ {0} \subseteq Byte
    OBVIOUS
  <2>2. id \in Seq(Byte)
    BY <2>1, SeqMonotonic
  <2>3. \A i \in 1..Len(id) : id[i] \in Byte \ {0}
    BY ElementOfSeq
  <2> QED
    BY <2>2, <2>3, LenProperties
<1>2. field \in Bytes(IDSize)
  BY <1>1, PadOK
<1>3. \A i \in 1..IDSize : field[i] = IF i <= m THEN id[i] ELSE 0
  BY DEF PadID
<1>4. /\ p \in Seq(Byte) /\ Len(p) = n /\ \A i \in 1..n : p[i] = field[i]
      /\ EndsAt(field, n) /\ n \in Nat
  BY <1>2, ParseOK, IDLengthIs DEF EndsAt
<1>5. PadID(p) = [i \in 1..IDSize |-> IF i <= Len(p) THEN p[i] ELSE 0]
  BY DEF PadID
<1> HIDE DEF field, n, m, p
<1>6. n = IF m <= IDSize THEN m ELSE IDSize
  <2>1. EndsAt(field, IF m <= IDSize THEN m ELSE IDSize)
    BY <1>1, <1>3 DEF EndsAt
  <2> QED
    BY <1>4, <2>1, EndUnique
<1>7. m <= IDSize => p = id
  <2>1. SUFFICES ASSUME m <= IDSize PROVE p = id
    OBVIOUS
  <2>2. n = m /\ \A i \in 1..m : p[i] = id[i]
    BY <1>1, <1>3, <1>4, <1>6, <2>1
  <2>3. Len(p) = Len(id)
    BY <1>4, <2>2 DEF m
  <2> QED
    BY <1>1, <1>4, <2>2, <2>3, SeqEqual DEF m
<1>8. PadID(p) = field
  <2>1. \A i \in 1..IDSize : (IF i <= n THEN p[i] ELSE 0) = field[i]
    BY <1>1, <1>3, <1>4, <1>6
  <2>2. PadID(p) \in Bytes(IDSize)
    BY <1>4, PadOK
  <2>3. \A i \in 1..IDSize : PadID(p)[i] = field[i]
    BY <1>4, <1>5, <2>1
  <2> QED
    BY <1>2, <2>2, <2>3 DEF Bytes
<1> QED
  BY <1>1, <1>2, <1>7, <1>8 DEF p, field, m

-----------------------------------------------------------------------------
(* What happens to the bytes. *)

LEMMA FieldsWithin ==
    ASSUME NEW m \in Nat, NEW n \in Nat, m >= HeaderSize + n
    PROVE  /\ m >= HeaderSize /\ 0 + 2 <= m /\ 2 + 4 <= m /\ RequestAt + RequestIDSize <= m
           /\ SourceAt + IDSize <= m /\ DestAt + IDSize <= m /\ FlagsAt + 1 <= m
           /\ HeaderSize + n <= m
BY Positions

LEMMA ExtendedCarries ==
    ASSUME NEW d \in Seq(Byte), NEW e \in Seq(Byte), NEW f \in Frames, Carries(d, f)
    PROVE  Carries(d \o e, f)
<1> DEFINE b == d \o e
           n == Len(f.payload)
           m == Len(d)
<1>1. n \in Nat /\ m \in Nat /\ m >= HeaderSize + n
  BY FrameFields, LenProperties DEF Carries
<1>2. Len(b) >= HeaderSize + n
  <2>1. Len(b) = m + Len(e) /\ Len(e) \in Nat
    BY ConcatOps, LenProperties
  <2> HIDE DEF b, n, m
  <2> QED
    BY <1>1, <2>1, Positions
<1>3. Keeps(d, b, m)
  BY <1>1, LenProperties, OneMoreField
<1> HIDE DEF b, m
<1>4. \A k, l \in Nat : \A y : k + l <= m /\ Holds(d, k, y, l) => Holds(b, k, y, l)
  BY <1>3 DEF Keeps
<1>5. Holds(b, 0, <<f.version, f.type>>, 2) /\ Holds(b, 2, PutUint32(n), 4)
  BY <1>1, <1>4, FieldsWithin DEF Carries
<1>6. Holds(b, RequestAt, f.request, RequestIDSize) /\ Holds(b, SourceAt, f.source, IDSize)
  BY <1>1, <1>4, FieldsWithin, Positions DEF Carries
<1>7. Holds(b, DestAt, f.dest, IDSize) /\ Holds(b, FlagsAt, <<f.flags>>, 1)
  BY <1>1, <1>4, FieldsWithin, Positions DEF Carries
<1>8. Holds(b, HeaderSize, f.payload, n)
  BY <1>1, <1>4, FieldsWithin, Positions DEF Carries
<1> QED
  BY <1>2, <1>5, <1>6, <1>7, <1>8 DEF Carries, b

LEMMA CutRefused ==
    ASSUME NEW f \in Frames, NEW n \in 0..(Len(Encode(f)) - 1)
    PROVE  /\ SubSeq(Encode(f), 1, n) \in Seq(Byte)
           /\ ~Decodable(SubSeq(Encode(f), 1, n))
<1> DEFINE d == Encode(f)
           c == SubSeq(d, 1, n)
           l == Len(f.payload)
<1>1. /\ d \in Seq(Byte) /\ Len(d) = HeaderSize + l /\ l \in Nat /\ l \in Lengths
      /\ Holds(d, 2, PutUint32(l), 4)
      /\ PutUint32(l) \in Seq(Byte) /\ Len(PutUint32(l)) = 4
  BY EncodeCarries, FrameFields DEF Carries
<1>2. n \in Nat /\ n < HeaderSize + l /\ 0 + n <= Len(d)
  <2> DEFINE m == Len(d)
  <2>1. n \in 0..(m - 1) /\ m = HeaderSize + l /\ m \in Nat
    BY <1>1, LenProperties
  <2> HIDE DEF m, l
  <2>2. n \in Nat /\ n < HeaderSize + l /\ 0 + n <= m
    BY <2>1
  <2> QED
    BY <2>2 DEF m
<1>3. c \in Seq(Byte) /\ Len(c) = n /\ \A i \in 1..n : c[i] = d[i]
  <2>1. c = Part(d, 0, n)
    BY <1>2 DEF Part
  <2>2. /\ Part(d, 0, n) \in Seq(Byte) /\ Len(Part(d, 0, n)) = n
        /\ Holds(d, 0, Part(d, 0, n), n)
    BY <1>1, <1>2, PartIs
  <2> HIDE DEF c, d
  <2>3. \A i \in 1..n : c[i] = d[0 + i] /\ 0 + i = i
    BY <2>1, <2>2 DEF Holds
  <2> QED
    BY <2>1, <2>2, <2>3
<1> HIDE DEF d, c, l
<1>4. SUFFICES ASSUME n >= HeaderSize
               PROVE  PayloadLength(c) = l
  BY <1>1, <1>2, <1>3, Positions DEF Decodable, d, c
<1>5. Holds(c, 2, PutUint32(l), 4)
  <2>1. \A i \in 1..4 : 2 + i \in 1..n
    BY <1>2, <1>4, Positions
  <2> QED
    BY <1>1, <1>3, <2>1 DEF Holds
<1>6. Part(c, 2, 4) = PutUint32(l)
  <2> DEFINE k == 2
             w == 4
             x == PutUint32(l)
  <2>1. k \in Nat /\ w \in Nat /\ k + w <= Len(c) /\ Len(x) = w /\ Holds(c, k, x, w)
    BY <1>1, <1>2, <1>3, <1>4, <1>5, Positions
  <2> HIDE DEF k, w
  <2>2. Part(c, k, w) = x
    BY <1>1, <1>3, <2>1, PartIs
  <2> QED
    BY <2>2 DEF k, w
<1> QED
  BY <1>1, <1>3, <1>6, DecodeFields, LengthField

\* Two strings that carry the same frame agree up to its end, but for the
\* reserved bytes.
LEMMA SameBytes ==
    ASSUME NEW f \in Frames, NEW d, NEW e, Carries(d, f), Carries(e, f),
           NEW i \in 1..(HeaderSize + Len(f.payload)), i \notin {HeaderSize - 1, HeaderSize}
    PROVE  d[i] = e[i]
<1> DEFINE n == Len(f.payload)
<1>1. n \in Nat /\ i \in Nat /\ i <= HeaderSize + n /\ i >= 1
      /\ i # HeaderSize - 1 /\ i # HeaderSize
  <2>1. n \in Nat /\ i \in 1..(HeaderSize + n)
    BY FrameFields
  <2> HIDE DEF n
  <2> QED
    BY <2>1, Positions
<1>2. ASSUME NEW k \in Nat, NEW l \in Nat, NEW x, Holds(d, k, x, l), Holds(e, k, x, l),
             i \in (k + 1)..(k + l)
      PROVE  d[i] = e[i]
  <2>1. i - k \in 1..l /\ k + (i - k) = i
    BY <1>1, <1>2
  <2> QED
    BY <1>2, <2>1 DEF Holds
<1> HIDE DEF n
<1>3. \/ i \in (0 + 1)..(0 + 2) \/ i \in (2 + 1)..(2 + 4)
      \/ i \in (RequestAt + 1)..(RequestAt + RequestIDSize)
      \/ i \in (SourceAt + 1)..(SourceAt + IDSize)
      \/ i \in (DestAt + 1)..(DestAt + IDSize)
      \/ i \in (FlagsAt + 1)..(FlagsAt + 1)
      \/ i \in (HeaderSize + 1)..(HeaderSize + n)
  BY <1>1, Positions
<1>4. CASE i \in (0 + 1)..(0 + 2)
  BY <1>2, <1>4 DEF Carries
<1>5. CASE i \in (2 + 1)..(2 + 4)
  BY <1>2, <1>5 DEF Carries
<1>6. CASE i \in (RequestAt + 1)..(RequestAt + RequestIDSize)
  BY <1>2, <1>6, Positions DEF Carries
<1>7. CASE i \in (SourceAt + 1)..(SourceAt + IDSize)
  BY <1>2, <1>7, Positions DEF Carries
<1>8. CASE i \in (DestAt + 1)..(DestAt + IDSize)
  BY <1>2, <1>8, Positions DEF Carries
<1>9. CASE i \in (FlagsAt + 1)..(FlagsAt + 1)
  BY <1>2, <1>9, Positions DEF Carries
<1>10. CASE i \in (HeaderSize + 1)..(HeaderSize + n)
  BY <1>1, <1>2, <1>10, Positions DEF Carries, n
<1> QED
  BY <1>3, <1>4, <1>5, <1>6, <1>7, <1>8, <1>9, <1>10

-----------------------------------------------------------------------------
(* The codec. *)

\* Every frame that NewFrame can build or Decode return, encoded and decoded,
\* is itself (Encode and Decode of pkg/protocol/frame.go), whatever the widths.
THEOREM RoundTrip == \A f \in Frames : Decode(Encode(f)) = f
BY EncodeCarries, DecodeCarried

\* What Decode accepts is a frame whose encoding is the beginning of what it
\* was given, but for the two reserved bytes.
THEOREM DecodedIsPrefix ==
    ASSUME NEW d \in Seq(Byte), Decodable(d)
    PROVE  /\ Decode(d) \in Frames /\ Len(Encode(Decode(d))) <= Len(d)
           /\ \A i \in 1..Len(Encode(Decode(d))) \ {HeaderSize - 1, HeaderSize} :
                Encode(Decode(d))[i] = d[i]
<1> DEFINE f == Decode(d)
<1>1. f \in Frames /\ Carries(d, f)
  BY DecodedCarries
<1> HIDE DEF f
<1>2. Len(Encode(f)) = HeaderSize + Len(f.payload) /\ Carries(Encode(f), f)
  BY <1>1, EncodeCarries
<1>3. Len(Encode(f)) <= Len(d)
  <2>1. Len(d) \in Nat /\ Len(f.payload) \in Nat
    BY <1>1, FrameFields, LenProperties
  <2> QED
    BY <1>1, <1>2, <2>1, Positions DEF Carries
<1>4. \A i \in 1..Len(Encode(f)) \ {HeaderSize - 1, HeaderSize} : Encode(f)[i] = d[i]
  BY <1>1, <1>2, SameBytes
<1> QED
  BY <1>1, <1>3, <1>4 DEF f

-----------------------------------------------------------------------------
(* One exchange. *)

USE ExchangeAssumption DEF ExchangeAssumption

AskedOK ==
    asked \in [type : {0, 1}, request : Bytes(RequestIDSize), source : Names,
               dest : Names, flags : {0, 1}, payload : Payloads]

\* What the bytes under way are to the question, until they are changed.
DataInv ==
    /\ at = "start" => damage = "none"
    /\ at # "start" => /\ damage = "none" => data = Encode(Question)
                       /\ Intact => Carries(data, Question)
    /\ damage = "cut" => ~Decodable(data)

GotInv ==
    /\ at \in {"refused", "decoded", "answered"} =>
         got = Decode(data) /\ (at = "refused" <=> ~Decodable(data))
    /\ at = "answered" => answer = Reply(got)

ExchangeInv == ExchangeTypeOK /\ AskedOK /\ DataInv /\ GotInv

LEMMA NameOK == \A id \in Names : id \in Seq(Byte \ {0}) /\ id \in Seq(Byte)
BY PadParse

LEMMA QuestionIsFrame ==
    ASSUME AskedOK
    PROVE  Question \in Frames
<1>1. /\ asked.type \in {0, 1} /\ asked.flags \in {0, 1} /\ asked.request \in Bytes(RequestIDSize)
      /\ asked.source \in Names /\ asked.dest \in Names /\ asked.payload \in Payloads
  BY DEF AskedOK
<1>2. PadID(asked.source) \in Bytes(IDSize) /\ PadID(asked.dest) \in Bytes(IDSize)
  BY <1>1, NameOK, PadOK
<1>3. asked.payload \in Seq(Byte) /\ Len(asked.payload) \in Lengths
  BY <1>1
<1> QED
  BY <1>1, <1>2, <1>3, ByteOK DEF Question, NewFrame, Frames

LEMMA ReplyIsFrame ==
    ASSUME AskedOK, NEW f \in Frames
    PROVE  Reply(f) \in Frames
<1>1. f.type \in Byte /\ f.request \in Bytes(RequestIDSize) /\ f.source \in Bytes(IDSize)
  BY DEF Frames
<1>2. PadID(asked.dest) \in Bytes(IDSize)
  <2>1. asked.dest \in Names
    BY DEF AskedOK
  <2> QED
    BY <2>1, NameOK, PadOK
<1>3. PadID(ParseID(f.source)) \in Bytes(IDSize)
  BY <1>1, ParseOK, PadOK
<1>4. <<>> \in Seq(Byte) /\ Len(<<>>) \in Lengths
  <2>1. Base * Base * Base * Base \in Nat /\ Base * Base * Base * Base >= 1
    <3>1. Base * Base \in Nat /\ Base * Base >= 1
      OBVIOUS
    <3>2. Base * Base * Base \in Nat /\ Base * Base * Base >= 1
      BY <3>1
    <3> QED
      BY <3>2
  <2> QED
    BY <2>1, EmptySeq DEF Lengths
<1> QED
  BY <1>1, <1>2, <1>3, <1>4, ByteOK DEF Reply, NewFrame, Frames

LEMMA ExchangeInitOK == ExchangeInit => ExchangeInv
<1> SUFFICES ASSUME ExchangeInit PROVE ExchangeInv
  OBVIOUS
<1>1. ExchangeTypeOK
  BY EmptySeq DEF ExchangeInit, ExchangeTypeOK
<1>2. AskedOK /\ DataInv /\ GotInv
  BY DEF ExchangeInit, AskedOK, DataInv, GotInv
<1> QED
  BY <1>1, <1>2 DEF ExchangeInv

LEMMA ExchangeStep == ExchangeInv /\ [ExchangeNext]_vars => ExchangeInv'
<1> SUFFICES ASSUME ExchangeInv, [ExchangeNext]_vars
             PROVE  ExchangeInv'
  OBVIOUS
<1> USE DEF ExchangeInv
<1>q. Question \in Frames
  BY QuestionIsFrame
<1>e. /\ Encode(Question) \in Seq(Byte) /\ Carries(Encode(Question), Question)
      /\ data \in Seq(Byte)
  BY <1>q, EncodeCarries DEF ExchangeTypeOK
<1>a. asked' = asked /\ AskedOK' /\ Question' = Question
  <2>1. asked' = asked
    BY DEF ExchangeNext, Ask, Cut, Extend, Change, Damage, Receive, Answer, vars
  <2> QED
    BY <2>1 DEF AskedOK, Question
<1>1. CASE Ask
  <2>1. /\ data' = Encode(Question) /\ at' = "sent" /\ damage' = "none"
        /\ UNCHANGED <<got, answer>>
    BY <1>1 DEF Ask, DataInv
  <2>2. ExchangeTypeOK'
    BY <1>e, <2>1 DEF ExchangeTypeOK
  <2>3. DataInv'
    BY <1>a, <1>e, <2>1 DEF DataInv, Intact
  <2>4. GotInv'
    BY <2>1 DEF GotInv
  <2> QED
    BY <1>a, <2>2, <2>3, <2>4
<1>2. ASSUME NEW what \in {"cut", "extended", "changed"}, NEW bytes \in Seq(Byte), Damage(what, bytes),
             what = "cut" => ~Decodable(bytes), what = "extended" => Carries(bytes, Question)
      PROVE  ExchangeInv'
  <2>1. at = "sent" /\ at' = at /\ data' = bytes /\ damage' = what /\ UNCHANGED <<got, answer>>
    BY <1>2 DEF Damage
  <2>2. ExchangeTypeOK'
    BY <2>1 DEF ExchangeTypeOK
  <2>3. DataInv'
    BY <1>2, <1>a, <2>1 DEF DataInv, Intact
  <2>4. GotInv'
    BY <2>1 DEF GotInv
  <2> QED
    BY <1>a, <2>2, <2>3, <2>4
<1>3. CASE Cut
  <2>1. PICK n \in 0..(Len(data) - 1) : Damage("cut", SubSeq(data, 1, n))
    BY <1>3 DEF Cut
  <2>2. data = Encode(Question)
    BY <2>1 DEF Damage, DataInv
  <2> QED
    BY <1>2, <1>q, <2>1, <2>2, CutRefused
<1>4. CASE Extend
  <2>1. PICK e \in Extras : Damage("extended", data \o e)
    BY <1>4 DEF Extend
  <2>2. data = Encode(Question) /\ e \in Seq(Byte)
    BY <2>1 DEF Damage, DataInv
  <2>3. data \o e \in Seq(Byte) /\ Carries(data \o e, Question)
    BY <1>e, <1>q, <2>2, ExtendedCarries, ConcatOps
  <2> QED
    BY <1>2, <2>1, <2>3
<1>5. CASE Change
  <2>1. PICK i \in 1..Len(data), b \in Byte : Damage("changed", [data EXCEPT ![i] = b])
    BY <1>5 DEF Change
  <2>2. [data EXCEPT ![i] = b] \in Seq(Byte)
    BY <1>e, ExceptSeq
  <2> QED
    BY <1>2, <2>1, <2>2
<1>6. CASE Receive
  <2>1. /\ at = "sent" /\ got' = Decode(data) /\ UNCHANGED <<data, damage, answer>>
        /\ at' = IF Decodable(data) THEN "decoded" ELSE "refused"
    BY <1>6 DEF Receive
  <2>2. got' \in Frames \cup {None, Refused}
    <3>1. CASE Decodable(data)
      BY <1>e, <2>1, <3>1, DecodedCarries
    <3>2. CASE ~Decodable(data)
      BY <2>1, <3>2 DEF Decode
    <3> QED
      BY <3>1, <3>2
  <2>3. ExchangeTypeOK'
    BY <2>1, <2>2 DEF ExchangeTypeOK
  <2>4. DataInv'
    BY <1>a, <2>1 DEF DataInv, Intact
  <2>5. GotInv'
    BY <2>1 DEF GotInv
  <2> QED
    BY <1>a, <2>3, <2>4, <2>5
<1>7. CASE Answer
  <2>1. /\ at = "decoded" /\ at' = "answered" /\ answer' = Decode(Encode(Reply(got)))
        /\ UNCHANGED <<data, damage, got>>
    BY <1>7 DEF Answer
  <2>2. got \in Frames
    <3>1. got = Decode(data) /\ Decodable(data)
      BY <2>1 DEF GotInv
    <3> QED
      BY <1>e, <3>1, DecodedCarries
  <2>3. answer' = Reply(got) /\ answer' \in Frames
    BY <2>1, <2>2, ReplyIsFrame, RoundTrip
  <2>4. ExchangeTypeOK'
    BY <2>1, <2>3 DEF ExchangeTypeOK
  <2>5. DataInv'
    BY <1>a, <2>1 DEF DataInv, Intact
  <2>6. GotInv'
    BY <1>a, <2>1, <2>3 DEF GotInv, Reply
  <2> QED
    BY <1>a, <2>4, <2>5, <2>6
<1>8. CASE UNCHANGED vars
  <2>1. UNCHANGED <<at, asked, data, damage, got, answer>>
    BY <1>8 DEF vars
  <2> QED
    BY <1>a, <2>1 DEF ExchangeTypeOK, DataInv, GotInv, Intact, Reply
<1> QED
  BY <1>1, <1>3, <1>4, <1>5, <1>6, <1>7, <1>8 DEF ExchangeNext

LEMMA ExchangeAlways == ExchangeSpec => []ExchangeInv
BY ExchangeInitOK, ExchangeStep, PTL DEF ExchangeSpec

\* The state of an exchange has its type: what Decode returns is refused or a
\* frame, for every string of bytes that arrives.
THEOREM ExchangeTypeCorrect == ExchangeSpec => []ExchangeTypeOK
<1>1. ExchangeInv => ExchangeTypeOK
  BY DEF ExchangeInv
<1> QED
  BY <1>1, ExchangeAlways, PTL

\* A frame with a type that arrives whole, with or without something behind it,
\* is decoded to what was built, and an identity that fits its field to what was
\* put there.
THEOREM FrameAlwaysSurvives == ExchangeSpec => []FrameSurvives
<1>1. ASSUME ExchangeInv
      PROVE  FrameSurvives
  <2>1. SUFFICES ASSUME Intact, asked.type # 0, at \in {"refused", "decoded", "answered"}
                 PROVE  /\ got = Question
                        /\ Len(asked.source) <= IDSize => ParseID(got.source) = asked.source
    BY DEF FrameSurvives
  <2>2. Question \in Frames /\ data \in Seq(Byte) /\ Carries(data, Question) /\ got = Decode(data)
    BY <1>1, <2>1, QuestionIsFrame DEF ExchangeInv, ExchangeTypeOK, DataInv, GotInv
  <2>3. got = Question
    BY <2>2, DecodeCarried
  <2>4. asked.source \in Seq(Byte \ {0})
    BY <1>1, NameOK DEF ExchangeInv, AskedOK
  <2>5. Question.source = PadID(asked.source)
    BY DEF Question, NewFrame
  <2> QED
    BY <2>3, <2>4, <2>5, PadParse
<1> QED
  BY <1>1, ExchangeAlways, PTL

\* A frame that is cut anywhere is refused (the two length tests of Decode).
THEOREM CutAlwaysRefused == ExchangeSpec => []CutIsRefused
<1>1. ExchangeInv => CutIsRefused
  BY DEF ExchangeInv, ExchangeTypeOK, DataInv, GotInv, CutIsRefused
<1> QED
  BY <1>1, ExchangeAlways, PTL

\* Whatever arrives, the frame that Decode returns is its beginning, but for the
\* two reserved bytes.
THEOREM NothingEverInvented == ExchangeSpec => []NothingInvented
<1>1. ASSUME ExchangeInv
      PROVE  NothingInvented
  <2>1. ASSUME at \in {"decoded", "answered"}
        PROVE  got = Decode(data) /\ Decodable(data) /\ data \in Seq(Byte)
    BY <1>1, <2>1 DEF ExchangeInv, ExchangeTypeOK, GotInv
  <2> QED
    BY <2>1, DecodedIsPrefix DEF NothingInvented
<1> QED
  BY <1>1, ExchangeAlways, PTL

\* The answer goes to the field the question came from, also when the identity
\* was cut there, with the question's RequestID (the handlers' NewFrame with
\* ParseID(frame.SourceID)).
THEOREM AnswerAlwaysReachesAsker == ExchangeSpec => []AnswerReachesAsker
<1>1. ASSUME ExchangeInv, at = "answered", Intact
      PROVE  answer.dest = PadID(asked.source) /\ answer.request = asked.request
  <2>1. /\ Question \in Frames /\ data \in Seq(Byte) /\ Carries(data, Question)
        /\ got = Decode(data) /\ answer = Reply(got)
    BY <1>1, QuestionIsFrame DEF ExchangeInv, ExchangeTypeOK, DataInv, GotInv
  <2>2. got = Question
    BY <2>1, DecodeCarried
  <2>3. got.source = PadID(asked.source) /\ got.request = asked.request
    BY <2>2 DEF Question, NewFrame
  <2>4. answer.dest = PadID(ParseID(PadID(asked.source))) /\ answer.request = asked.request
    BY <2>1, <2>3 DEF Reply, NewFrame
  <2>5. asked.source \in Seq(Byte \ {0})
    BY <1>1, NameOK DEF ExchangeInv, AskedOK
  <2> QED
    BY <2>4, <2>5, PadParse
<1>2. ExchangeInv => AnswerReachesAsker
  BY <1>1 DEF AnswerReachesAsker
<1> QED
  BY <1>2, ExchangeAlways, PTL

=============================================================================
