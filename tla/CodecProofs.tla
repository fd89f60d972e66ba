----------------------------- MODULE CodecProofs -----------------------------
(***************************************************************************)
(* Proofs about Codec, for all messages, buffer sizes and contents of      *)
(* uninitialised variables.  The bytes of a message are laid out first     *)
(* (LaidOut), then the two walks of the receiver are followed over them.   *)
(***************************************************************************)
EXTENDS Codec, NatFacts, FiniteSetTheorems, TLAPS

-----------------------------------------------------------------------------
(* The integers of an option header.                                       *)

\* The bounds of the numbers.
LEMMA Bounds ==
  /\ \A v : v \in UInt16 <=> v \in Int /\ 0 <= v /\ v <= 65535
  /\ \A v : v \in Byte <=> v \in Int /\ 0 <= v /\ v <= 255
  <1>1. ASSUME NEW v PROVE v \in UInt16 <=> v \in Int /\ 0 <= v /\ v <= 65535
    <2>1. UINT16_MAX \in Int
      BY DEF UINT16_MAX
    <2>2. v \in UInt16 <=> v \in Int /\ 0 <= v /\ v <= UINT16_MAX
      BY <2>1 DEF UInt16
    <2>. QED  BY <2>2 DEF UINT16_MAX
  <1>2. ASSUME NEW v PROVE v \in Byte <=> v \in Int /\ 0 <= v /\ v <= 255
    BY DEF Byte
  <1>. QED  BY <1>1, <1>2

\* The nibble and the extended integer of a 16-bit integer are enough to tell it, fit the bytes
\* written for them, and take the bytes that the size of the buffer was computed from.
LEMMA EncodedIntRoundTrip ==
  ASSUME NEW v \in UInt16
  PROVE  /\ EncodedIntToValue(HeadNibble(v), Extended(v)) = v
         /\ HeadNibble(v) \in 0..14
         /\ 0 <= Extended(v)
         /\ Extended(v) < IF ExtendedSize(HeadNibble(v)) = 1 THEN 256 ELSE 65536
         /\ ExtendedIntSize(v) = 1 + ExtendedSize(HeadNibble(v))
  <1>1. v \in Int /\ 0 <= v /\ v <= 65535
    BY Bounds
  <1>2. v % 65536 = v
    <2>1. v = 65536 * 0 + v
      BY <1>1
    <2>. QED  BY <1>1, <2>1
  <1>3. CASE v < 13
    <2>1. HeadNibble(v) = v
      BY <1>3 DEF HeadNibble
    <2>2. Extended(v) = 0 /\ ExtendedIntSize(v) = 1
      BY <1>3 DEF Extended, ExtendedIntSize
    <2>3. v # 13 /\ v # 14 /\ v \in 0..14
      BY <1>1, <1>3
    <2>4. ExtendedSize(v) = 0
      BY <2>3 DEF ExtendedSize
    <2>5. EncodedIntToValue(v, 0) = v
      BY <1>3 DEF EncodedIntToValue
    <2>. QED  BY <2>1, <2>2, <2>3, <2>4, <2>5
  <1>4. CASE ~(v < 13) /\ v < 269
    <2>1. HeadNibble(v) = 13
      BY <1>4 DEF HeadNibble
    <2>2. Extended(v) = v - 13 /\ ExtendedIntSize(v) = 2
      BY <1>4 DEF Extended, ExtendedIntSize
    <2>3. ExtendedSize(13) = 1
      BY DEF ExtendedSize
    <2>4. (v - 13) + 13 = v /\ 0 <= v - 13 /\ v - 13 < 256
      BY <1>1, <1>4
    <2>5. EncodedIntToValue(13, v - 13) = ((v - 13) + 13) % 65536
      BY DEF EncodedIntToValue
    <2>6. EncodedIntToValue(13, v - 13) = v
      BY <1>2, <2>4, <2>5
    <2>. QED  BY <2>1, <2>2, <2>3, <2>4, <2>6
  <1>5. CASE ~(v < 269)
    <2>1. HeadNibble(v) = 14
      BY <1>1, <1>5 DEF HeadNibble
    <2>2. Extended(v) = v - 269 /\ ExtendedIntSize(v) = 3
      BY <1>1, <1>5 DEF Extended, ExtendedIntSize
    <2>3. ExtendedSize(14) = 2
      BY DEF ExtendedSize
    <2>4. (v - 269) + 269 = v /\ 0 <= v - 269 /\ v - 269 < 65536
      BY <1>1, <1>5
    <2>5. EncodedIntToValue(14, v - 269) = ((v - 269) + 269) % 65536
      BY DEF EncodedIntToValue
    <2>6. EncodedIntToValue(14, v - 269) = v
      BY <1>2, <2>4, <2>5
    <2>. QED  BY <2>1, <2>2, <2>3, <2>4, <2>6
  <1>. QED  BY <1>3, <1>4, <1>5

\* A 16-bit integer is not changed by the conversion to one.
LEMMA Fits ==
  ASSUME NEW v \in UInt16
  PROVE  v % 65536 = v
  <1>1. v \in Int /\ 0 <= v /\ v <= 65535
    BY Bounds
  <1>. QED  BY <1>1

HeadSize(v) == ExtendedSize(HeadNibble(v))

IsShortInt(v) == v \in Int /\ 0 <= v /\ v < 269

\* What is made of the nibble of v and the byte found behind it.
ShortValue(v, byte) == IF v < 13 THEN v ELSE (byte + 13) % 65536

\* A short integer takes one extended byte at most.
LEMMA ShortInt ==
  \A v : IsShortInt(v) =>
    /\ v \in UInt16
    /\ HeadSize(v) = IF v < 13 THEN 0 ELSE 1
    /\ ShortValue(v, Extended(v)) = v /\ ShortValue(v, 0) = IF v < 13 THEN v ELSE 13
  <1>. SUFFICES ASSUME NEW v, v \in Int, 0 <= v, v < 269
                PROVE  /\ v \in UInt16
                       /\ HeadSize(v) = IF v < 13 THEN 0 ELSE 1
                       /\ ShortValue(v, Extended(v)) = v
                       /\ ShortValue(v, 0) = IF v < 13 THEN v ELSE 13
    BY DEF IsShortInt
  <1>1. v \in UInt16
    BY Bounds
  <1>2. CASE v < 13
    <2>1. HeadNibble(v) = v /\ v # 13 /\ v # 14
      BY <1>2 DEF HeadNibble
    <2>2. HeadSize(v) = 0
      BY <2>1 DEF HeadSize, ExtendedSize
    <2>. QED  BY <1>1, <1>2, <2>2 DEF ShortValue
  <1>3. CASE ~(v < 13)
    <2>1. HeadNibble(v) = 13 /\ Extended(v) = v - 13
      BY <1>3 DEF HeadNibble, Extended
    <2>2. HeadSize(v) = 1
      BY <2>1 DEF HeadSize, ExtendedSize
    <2>3. (v - 13) + 13 = v /\ v % 65536 = v /\ (0 + 13) % 65536 = 13
      BY <1>3
    <2>. QED  BY <1>1, <1>3, <2>1, <2>2, <2>3 DEF ShortValue
  <1>. QED  BY <1>2, <1>3

\* What is read for the nibble of a short integer, wherever it is read.
LEMMA ShortRead ==
  \A v, buffer, bpos, junk : IsShortInt(v) /\ bpos \in Int =>
    /\ OptionNum(buffer, HeadNibble(v), bpos, junk).v = ShortValue(v, At(buffer, bpos))
    /\ OptionNum(buffer, HeadNibble(v), bpos, junk).bpos = bpos + HeadSize(v)
    /\ OptionNum(buffer, HeadNibble(v), bpos, junk).buffer = buffer
  <1>. SUFFICES ASSUME NEW v, NEW buffer, NEW bpos \in Int, NEW junk, IsShortInt(v)
                PROVE  /\ OptionNum(buffer, HeadNibble(v), bpos, junk).v = ShortValue(v, At(buffer, bpos))
                       /\ OptionNum(buffer, HeadNibble(v), bpos, junk).bpos = bpos + HeadSize(v)
                       /\ OptionNum(buffer, HeadNibble(v), bpos, junk).buffer = buffer
    OBVIOUS
  <1>0. v \in Int
    BY DEF IsShortInt
  <1>1. CASE v < 13
    <2>1. HeadNibble(v) = v /\ v # 13 /\ v # 14
      BY <1>0, <1>1 DEF HeadNibble
    <2>2. HeadSize(v) = 0
      BY <2>1 DEF HeadSize, ExtendedSize
    <2>. QED  BY <1>1, <2>1, <2>2 DEF OptionNum, ShortValue
  <1>2. CASE ~(v < 13)
    <2>1. HeadNibble(v) = 13
      BY <1>2, ShortInt DEF HeadNibble, IsShortInt
    <2>2. EncodedIntToValue(13, At(buffer, bpos)) = (At(buffer, bpos) + 13) % 65536
      BY DEF EncodedIntToValue
    <2>3. HeadSize(v) = 1
      BY <2>1 DEF HeadSize, ExtendedSize
    <2>. QED  BY <1>2, <2>1, <2>2, <2>3 DEF OptionNum, ShortValue
  <1>. QED  BY <1>1, <1>2

-----------------------------------------------------------------------------
(* The bytes of an option.                                                 *)

IsOptions(os) ==
  /\ os \in Seq(OptionSet)
  /\ \A i \in DOMAIN os : Len(os[i].value) \in UInt16
  /\ \A i, j \in 1..Len(os) : i < j => os[i].num <= os[j].num

Delta(os, i) == os[i].num - PrevNum(os, i)

\* The values are sequences of bytes.
LEMMA OptionFields ==
  ASSUME NEW os, IsOptions(os), NEW i \in 1..Len(os)
  PROVE  /\ os[i].num \in UInt16 /\ os[i].value \in Seq(Byte)
         /\ Len(os[i].value) \in UInt16
         /\ PrevNum(os, i) \in UInt16
         /\ Delta(os, i) \in UInt16
         /\ Delta(os, i) % 65536 = Delta(os, i)
  <1>1. os \in Seq(OptionSet) /\ DOMAIN os = 1..Len(os) /\ Len(os) \in Nat
    BY DEF IsOptions
  <1>2. ASSUME NEW j \in 1..Len(os)
        PROVE  os[j].num \in UInt16 /\ os[j].value \in Seq(Byte) /\ Len(os[j].value) \in UInt16
    <2>1. os[j] \in OptionSet
      BY <1>1
    <2>2. Len(os[j].value) \in UInt16
      BY <1>1 DEF IsOptions
    <2>. QED  BY <2>1, <2>2 DEF OptionSet
  <1>3. CASE i = 1
    <2>1. PrevNum(os, i) = 0
      BY <1>3 DEF PrevNum
    <2>2. os[i].num \in UInt16
      BY <1>2
    <2>3. Delta(os, i) = os[i].num
      BY <2>1, <2>2, Bounds DEF Delta
    <2>4. PrevNum(os, i) \in UInt16
      BY <2>1, Bounds
    <2>. QED  BY <1>2, <2>2, <2>3, <2>4, Fits
  <1>4. CASE i # 1
    <2>1. i - 1 \in 1..Len(os) /\ i - 1 < i
      BY <1>1, <1>4
    <2>2. PrevNum(os, i) = os[i - 1].num
      BY <1>4 DEF PrevNum
    <2>3. os[i - 1].num <= os[i].num
      BY <2>1 DEF IsOptions
    <2>4. os[i - 1].num \in UInt16 /\ os[i].num \in UInt16
      BY <1>2, <2>1
    <2>5. Delta(os, i) \in UInt16
      BY <2>2, <2>3, <2>4, Bounds DEF Delta
    <2>. QED  BY <1>2, <2>2, <2>4, <2>5, Fits
  <1>. QED  BY <1>3, <1>4

\* The extended bytes of an integer, as many as its nibble says.
LEMMA ExtendedBytesAre ==
  ASSUME NEW v \in UInt16
  PROVE  /\ ExtendedBytes(v) \in Seq(Byte)
         /\ Len(ExtendedBytes(v)) = ExtendedSize(HeadNibble(v))
         /\ ExtendedSize(HeadNibble(v)) = 1 => ExtendedBytes(v)[1] = Extended(v)
  <1>. DEFINE x == Extended(v)
              size == ExtendedSize(HeadNibble(v))
  <1>1. x \in UInt16 /\ (size = 1 => x \in Byte) /\ size \in {0, 1, 2}
    <2>1. /\ HeadNibble(v) \in 0..14 /\ 0 <= x
          /\ x < IF size = 1 THEN 256 ELSE 65536
      BY EncodedIntRoundTrip
    <2>2. size \in {0, 1, 2}
      BY DEF ExtendedSize
    <2>3. x \in Int
      BY Bounds DEF Extended
    <2>. HIDE DEF x, size
    <2>. QED  BY <2>1, <2>2, <2>3, Bounds
  <1>2. ExtendedBytes(v) = IF size = 1 THEN <<x>>
                           ELSE IF size = 2 THEN <<x \div 256, x % 256>> ELSE <<>>
    BY DEF ExtendedBytes
  <1>. HIDE DEF x, size
  <1>3. size = 2 => x \div 256 \in Byte /\ x % 256 \in Byte
    BY <1>1, Bounds
  <1>4. /\ ExtendedBytes(v) \in Seq(Byte) /\ Len(ExtendedBytes(v)) = size
        /\ size = 1 => ExtendedBytes(v)[1] = x
    <2>1. CASE size = 0
      BY <1>2, <2>1
    <2>2. CASE size = 1
      BY <1>1, <1>2, <2>2
    <2>3. CASE size = 2
      BY <1>2, <1>3, <2>3
    <2>. QED  BY <1>1, <2>1, <2>2, <2>3
  <1>. QED  BY <1>4 DEF x, size

\* option_num_from_buffer, of the bytes that extended_num_to_buffer wrote for a 16-bit integer:
\* below 269 it returns the integer and leaves the buffer as it is.  From 269 on it moves on by
\* the two bytes, but what it returns is made of the uninitialised variable alone, whatever
\* was written.
THEOREM IntegerRead ==
  ASSUME NEW v \in UInt16, NEW buffer, NEW bpos \in Nat, NEW junk,
         \A j \in 1..Len(ExtendedBytes(v)) : buffer[bpos + j] = ExtendedBytes(v)[j]
  PROVE  LET read == OptionNum(buffer, HeadNibble(v), bpos, junk)
         IN  /\ read.bpos = bpos + Len(ExtendedBytes(v))
             /\ v < 269 => read.v = v /\ read.buffer = buffer
             /\ ~(v < 269) => read.v = EncodedIntToValue(14, SwapU16(junk))
  <1>. DEFINE read == OptionNum(buffer, HeadNibble(v), bpos, junk)
              bytes == ExtendedBytes(v)
  <1>1. Len(bytes) = HeadSize(v) /\ (HeadSize(v) = 1 => bytes[1] = Extended(v)) /\ v \in Int
    BY ExtendedBytesAre, Bounds DEF HeadSize
  <1>2. CASE v < 269
    <2>1. IsShortInt(v)
      BY <1>2, Bounds DEF IsShortInt
    <2>2. /\ read.v = ShortValue(v, At(buffer, bpos)) /\ read.bpos = bpos + HeadSize(v)
          /\ read.buffer = buffer
      BY <2>1, ShortRead
    <2>3. HeadSize(v) = (IF v < 13 THEN 0 ELSE 1) /\ ShortValue(v, Extended(v)) = v
      BY <2>1, ShortInt
    <2>4. ~(v < 13) => At(buffer, bpos) = Extended(v)
      <3>1. ~(v < 13) => buffer[bpos + 1] = bytes[1]
        BY <1>1, <2>3
      <3>. HIDE DEF bytes
      <3>. QED  BY <1>1, <2>3, <3>1 DEF At
    <2>5. ShortValue(v, At(buffer, bpos)) = v
      BY <2>3, <2>4 DEF ShortValue
    <2>. HIDE DEF read, bytes
    <2>6. read.bpos = bpos + Len(bytes) /\ read.v = v
      BY <1>1, <2>2, <2>5
    <2>. QED  BY <1>2, <2>2, <2>6 DEF read, bytes
  <1>3. CASE ~(v < 269)
    <2>1. HeadNibble(v) = 14
      BY <1>1, <1>3 DEF HeadNibble
    <2>2. HeadSize(v) = 2
      BY <2>1 DEF HeadSize, ExtendedSize
    <2>3. read.v = EncodedIntToValue(14, SwapU16(junk)) /\ read.bpos = bpos + 2
      BY <2>1 DEF OptionNum, NextUint16
    <2>. HIDE DEF read, bytes
    <2>. QED  BY <1>1, <1>3, <2>2, <2>3 DEF read, bytes
  <1>. QED  BY <1>2, <1>3

\* Four sequences joined, the first of them a single element.
AreFour(S, h, x, y, z) == h \in S /\ x \in Seq(S) /\ y \in Seq(S) /\ z \in Seq(S)

IsJoin(b, S, h, x, y, z) ==
  /\ b \in Seq(S)
  /\ Len(b) = 1 + Len(x) + Len(y) + Len(z)
  /\ b[1] = h
  /\ \A j \in 1..Len(x) : b[1 + j] = x[j]
  /\ \A j \in 1..Len(y) : b[1 + Len(x) + j] = y[j]
  /\ \A j \in 1..Len(z) : b[1 + Len(x) + Len(y) + j] = z[j]

LEMMA JoinedFour ==
  \A S, h, x, y, z : AreFour(S, h, x, y, z) => IsJoin(<<h>> \o x \o y \o z, S, h, x, y, z)
  <1>. SUFFICES ASSUME NEW S, NEW h \in S, NEW x \in Seq(S), NEW y \in Seq(S), NEW z \in Seq(S)
                PROVE  IsJoin(<<h>> \o x \o y \o z, S, h, x, y, z)
    BY DEF AreFour
  <1>. DEFINE p == <<h>>
              q == p \o x
              r == q \o y
              b == r \o z
  <1>1. p \in Seq(S) /\ Len(p) = 1 /\ p[1] = h /\ Len(x) \in Nat /\ Len(y) \in Nat /\ Len(z) \in Nat
    OBVIOUS
  <1>. HIDE DEF p
  <1>2. /\ q \in Seq(S) /\ Len(q) = 1 + Len(x)
        /\ \A j \in 1..1 : q[j] = p[j]
        /\ \A j \in 1..Len(x) : q[1 + j] = x[j]
    <2>1. q \in Seq(S) /\ Follows(p, x, q)
      BY <1>1, JoinedTwo
    <2>. HIDE DEF q
    <2>. QED  BY <1>1, <2>1 DEF Follows
  <1>. HIDE DEF q
  <1>3. /\ r \in Seq(S) /\ Len(r) = Len(q) + Len(y)
        /\ \A j \in 1..Len(q) : r[j] = q[j]
        /\ \A j \in 1..Len(y) : r[Len(q) + j] = y[j]
    <2>1. r \in Seq(S) /\ Follows(q, y, r)
      BY <1>2, JoinedTwo
    <2>. HIDE DEF r
    <2>. QED  BY <2>1 DEF Follows
  <1>. HIDE DEF r
  <1>4. /\ b \in Seq(S) /\ Len(b) = Len(r) + Len(z)
        /\ \A j \in 1..Len(r) : b[j] = r[j]
        /\ \A j \in 1..Len(z) : b[Len(r) + j] = z[j]
    <2>1. b \in Seq(S) /\ Follows(r, z, b)
      BY <1>3, JoinedTwo
    <2>. HIDE DEF b
    <2>. QED  BY <2>1 DEF Follows
  <1>. HIDE DEF b
  <1>5. b[1] = h
    <2>1. 1 \in 1..Len(r) /\ 1 \in 1..Len(q) /\ 1 \in 1..1
      BY <1>1, <1>2, <1>3
    <2>. QED  BY <1>1, <1>2, <1>3, <1>4, <2>1
  <1>6. ASSUME NEW j \in 1..Len(x) PROVE b[1 + j] = x[j]
    <2>1. 1 + j \in 1..Len(r) /\ 1 + j \in 1..Len(q)
      BY <1>1, <1>2, <1>3
    <2>. QED  BY <1>2, <1>3, <1>4, <2>1
  <1>7. ASSUME NEW j \in 1..Len(y) PROVE b[1 + Len(x) + j] = y[j]
    <2>1. Len(q) + j \in 1..Len(r)
      BY <1>1, <1>2, <1>3
    <2>. QED  BY <1>2, <1>3, <1>4, <2>1
  <1>8. b \in Seq(S) /\ Len(b) = 1 + Len(x) + Len(y) + Len(z)
    BY <1>1, <1>2, <1>3, <1>4
  <1>9. \A j \in 1..Len(z) : b[1 + Len(x) + Len(y) + j] = z[j]
    BY <1>2, <1>3, <1>4
  <1>. QED
    <2>1. b = <<h>> \o x \o y \o z
      BY DEF p, q, r, b
    <2>. QED  BY Zenon, <1>5, <1>6, <1>7, <1>8, <1>9, <2>1 DEF IsJoin

\* Behind position p of b are the bytes of the i-th option.
HoldsOption(b, p, os, i) ==
  LET d == Delta(os, i)
      v == os[i].value
  IN  /\ b[p + 1] # 255
      /\ b[p + 1] \div 16 = HeadNibble(d) /\ b[p + 1] % 16 = HeadNibble(Len(v))
      /\ HeadSize(d) = 1 => b[p + 2] = Extended(d)
      /\ HeadSize(Len(v)) = 1 => b[p + 2 + HeadSize(d)] = Extended(Len(v))
      /\ \A j \in 1..Len(v) : b[p + 1 + HeadSize(d) + HeadSize(Len(v)) + j] = v[j]

\* The first byte of an option holds two nibbles and is no payload marker.
LEMMA TwoNibbles ==
  ASSUME NEW x \in 0..14, NEW y \in 0..14
  PROVE  LET b == x * 16 + y IN b \in Byte /\ b # 255 /\ b \div 16 = x /\ b % 16 = y
  <1>. DEFINE b == x * 16 + y
  <1>1. b \in Int /\ 0 <= b /\ b < 255 /\ b = 16 * x + y /\ 0 <= y /\ y < 16
    OBVIOUS
  <1>2. b \div 16 = x /\ b % 16 = y
    BY <1>1
  <1>3. b \in Byte
    <2>. HIDE DEF b
    <2>. QED  BY <1>1, Bounds
  <1>. QED  BY <1>1, <1>2, <1>3

LEMMA HeadSizes ==
  ASSUME NEW v \in UInt16
  PROVE  HeadSize(v) \in 0..2 /\ HeadNibble(v) \in 0..14
                              /\ ExtendedIntSize(v) = 1 + HeadSize(v)
  BY EncodedIntRoundTrip DEF HeadSize, ExtendedSize

\* The bytes of an option, and that they are as many as its size says.
LEMMA OptionLaidOut ==
  ASSUME NEW os, IsOptions(os), NEW i \in 1..Len(os)
  PROVE  /\ OptionBytes(os, i) \in Seq(Byte)
         /\ Len(OptionBytes(os, i)) = 1 + HeadSize(Delta(os, i)) + HeadSize(Len(os[i].value))
                                        + Len(os[i].value)
         /\ OptionSize(os, i) = Len(OptionBytes(os, i))
         /\ HoldsOption(OptionBytes(os, i), 0, os, i)
  <1>. DEFINE d == Delta(os, i)
              v == os[i].value
              l == Len(v)
              h == HeadNibble(d) * 16 + HeadNibble(l)
              b == OptionBytes(os, i)
  <1>1. d \in UInt16 /\ d % 65536 = d /\ v \in Seq(Byte) /\ l \in UInt16
    BY OptionFields
  <1>2. b = <<h>> \o ExtendedBytes(d) \o ExtendedBytes(l) \o v
    <2>. DEFINE e == (os[i].num - PrevNum(os, i)) % 65536
    <2>1. b = <<HeadNibble(e) * 16 + HeadNibble(l)>> \o ExtendedBytes(e) \o ExtendedBytes(l) \o v
      BY DEF OptionBytes
    <2>2. e = d
      BY <1>1 DEF Delta
    <2>. HIDE DEF e, b, v
    <2>. QED  BY <2>1, <2>2
  <1>3. OptionSize(os, i) = ExtendedIntSize(d) + ExtendedIntSize(l) + l - 1
    BY DEF OptionSize, Delta
  <1>. HIDE DEF d, v, b
  <1>4. /\ HeadSize(d) \in 0..2 /\ HeadNibble(d) \in 0..14 /\ ExtendedIntSize(d) = 1 + HeadSize(d)
        /\ HeadSize(l) \in 0..2 /\ HeadNibble(l) \in 0..14 /\ ExtendedIntSize(l) = 1 + HeadSize(l)
    <2>. HIDE DEF l
    <2>. QED  BY <1>1, HeadSizes
  <1>5. h \in Byte /\ h # 255 /\ h \div 16 = HeadNibble(d) /\ h % 16 = HeadNibble(l)
    <2>. DEFINE x == HeadNibble(d)
                y == HeadNibble(l)
    <2>1. x \in 0..14 /\ y \in 0..14
      BY <1>4
    <2>. HIDE DEF x, y
    <2>2. LET c == x * 16 + y IN c \in Byte /\ c # 255 /\ c \div 16 = x /\ c % 16 = y
      BY <2>1, TwoNibbles
    <2>. QED  BY <2>2 DEF x, y
  <1>6. /\ ExtendedBytes(d) \in Seq(Byte) /\ Len(ExtendedBytes(d)) = HeadSize(d)
        /\ HeadSize(d) = 1 => ExtendedBytes(d)[1] = Extended(d)
        /\ ExtendedBytes(l) \in Seq(Byte) /\ Len(ExtendedBytes(l)) = HeadSize(l)
        /\ HeadSize(l) = 1 => ExtendedBytes(l)[1] = Extended(l)
    <2>. HIDE DEF l
    <2>. QED  BY <1>1, ExtendedBytesAre DEF HeadSize
  <1>. HIDE DEF h
  <1>. DEFINE x == ExtendedBytes(d)
              y == ExtendedBytes(l)
  <1>. HIDE DEF x, y
  <1>7. /\ b \in Seq(Byte)
        /\ Len(b) = 1 + Len(x) + Len(y) + Len(v)
        /\ b[1] = h
        /\ \A j \in 1..Len(x) : b[1 + j] = x[j]
        /\ \A j \in 1..Len(y) : b[1 + Len(x) + j] = y[j]
        /\ \A j \in 1..Len(v) : b[1 + Len(x) + Len(y) + j] = v[j]
    <2>. DEFINE c == <<h>> \o x \o y \o v
    <2>1. x \in Seq(Byte) /\ y \in Seq(Byte) /\ b = c
      BY <1>2, <1>6 DEF x, y
    <2>2. h \in Byte /\ v \in Seq(Byte)
      BY <1>1, <1>5
    <2>. HIDE DEF l
    <2>3. IsJoin(c, Byte, h, x, y, v)
      <3>1. AreFour(Byte, h, x, y, v)
        BY <2>1, <2>2 DEF AreFour
      <3>. QED  BY <3>1, JoinedFour
    <2>. HIDE DEF c
    <2>. QED  BY <2>1, <2>3 DEF IsJoin
  <1>8. Len(x) = HeadSize(d) /\ Len(y) = HeadSize(l)
    BY <1>6 DEF x, y
  <1>9. l \in Nat /\ Len(b) = 1 + HeadSize(d) + HeadSize(l) + l /\ OptionSize(os, i) = Len(b)
    <2>1. l \in Nat
      BY <1>1
    <2>2. Len(b) = 1 + HeadSize(d) + HeadSize(l) + l
      BY <1>7, <1>8
    <2>. HIDE DEF l
    <2>3. OptionSize(os, i) = 1 + HeadSize(d) + HeadSize(l) + l
      BY <1>3, <1>4, <2>1
    <2>. QED  BY <2>1, <2>2, <2>3
  <1>10. HeadSize(d) = 1 => b[2] = Extended(d)
    BY <1>6, <1>7, <1>8 DEF x
  <1>11. HeadSize(l) = 1 => b[2 + HeadSize(d)] = Extended(l)
    <2>1. ASSUME HeadSize(l) = 1 PROVE b[1 + HeadSize(d) + 1] = y[1]
      BY <1>7, <1>8, <2>1
    <2>2. 1 + HeadSize(d) + 1 = 2 + HeadSize(d)
      BY <1>4
    <2>3. HeadSize(l) = 1 => y[1] = Extended(l)
      BY <1>6 DEF y
    <2>. HIDE DEF l
    <2>. QED  BY <2>1, <2>2, <2>3
  <1>12. HoldsOption(b, 0, os, i)
    <2>1. 0 + 1 = 1 /\ 0 + 2 = 2 /\ 0 + 2 + HeadSize(d) = 2 + HeadSize(d)
      BY <1>4
    <2>. HIDE DEF l
    <2>2. \A j \in 1..l : b[0 + 1 + HeadSize(d) + HeadSize(l) + j] = v[j]
      BY <1>7, <1>8 DEF l
    <2>3. b[0 + 1] # 255 /\ b[0 + 1] \div 16 = HeadNibble(d) /\ b[0 + 1] % 16 = HeadNibble(l)
      BY <1>5, <1>7, <2>1
    <2>4. /\ HeadSize(d) = 1 => b[0 + 2] = Extended(d)
          /\ HeadSize(l) = 1 => b[0 + 2 + HeadSize(d)] = Extended(l)
      BY <1>10, <1>11, <2>1
    <2>. QED  BY Zenon, <2>2, <2>3, <2>4 DEF HoldsOption, d, v, l
  <1>. QED  BY <1>7, <1>9, <1>12 DEF b, d, v

-----------------------------------------------------------------------------
(* The bytes of a message.                                                 *)

\* FlattenSeq joins the sequences one by one.
LEMMA FlattenIsJoined ==
  ASSUME NEW S, NEW s \in Seq(Seq(S)), NEW joined \in [0..Len(s) -> Seq(S)], Joins(s, joined)
  PROVE  FlattenSeq(s) = joined[Len(s)]
  <1>1. CASE Len(s) = 0
    BY <1>1 DEF FlattenSeq, Joins
  <1>2. CASE Len(s) # 0
    BY <1>2, JoinedByFunction DEF FlattenSeq
  <1>. QED  BY <1>1, <1>2

IsMessage(m) == m \in MessageSet /\ Len(m.token) <= 15 /\ IsOptions(m.options)

\* The fields of a message.
LEMMA MessageFields ==
  ASSUME NEW m, IsMessage(m)
  PROVE  /\ m.version \in 0..3 /\ m.type \in 0..3 /\ m.code \in Byte /\ m.id \in UInt16
         /\ m.token \in Seq(Byte) /\ Len(m.token) \in 0..15
         /\ m.options \in Seq(OptionSet) /\ m.payload \in Seq(Byte)
         /\ Len(m.options) \in Nat /\ DOMAIN m.options = 1..Len(m.options)
         /\ m = [version |-> m.version, type |-> m.type, code |-> m.code, id |-> m.id,
                 token |-> m.token, options |-> m.options, payload |-> m.payload]
  <1>1. m \in MessageSet /\ Len(m.token) <= 15
    BY DEF IsMessage
  <1>2. /\ m.version \in 0..3 /\ m.type \in 0..3 /\ m.code \in Byte /\ m.id \in UInt16
        /\ m.token \in Seq(Byte) /\ m.options \in Seq(OptionSet) /\ m.payload \in Seq(Byte)
    BY <1>1 DEF MessageSet
  <1>3. m = [version |-> m.version, type |-> m.type, code |-> m.code, id |-> m.id,
             token |-> m.token, options |-> m.options, payload |-> m.payload]
    BY <1>1 DEF MessageSet
  <1>4. Len(m.token) \in 0..15
    <2>. DEFINE l == Len(m.token)
    <2>1. l \in Nat
      BY <1>2
    <2>2. l <= 15
      BY <1>1
    <2>. HIDE DEF l
    <2>3. l \in 0..15
      BY <2>1, <2>2
    <2>. QED  BY <2>3 DEF l
  <1>5. Len(m.options) \in Nat /\ DOMAIN m.options = 1..Len(m.options)
    BY <1>2
  <1>. QED  BY <1>2, <1>3, <1>4, <1>5

\* The two sides of the first byte of the header, and of the id.
LEMMA HeaderFits ==
  ASSUME NEW m, IsMessage(m)
  PROVE  /\ Header(m) \in Seq(Byte) /\ Len(Header(m)) = 4
         /\ HeaderFields(Header(m)) =
              [version |-> m.version, type |-> m.type, tklen |-> Len(m.token),
               code |-> m.code, id |-> m.id]
  <1>. DEFINE v == m.version
              t == m.type
              l == Len(m.token)
              i == m.id
              b == (v % 4) * 64 + (t % 4) * 16 + (l % 16)
              hi == i \div 256
              lo == i % 256
  <1>1. v \in 0..3 /\ t \in 0..3 /\ l \in 0..15 /\ m.code \in Byte /\ i \in UInt16
    BY MessageFields
  <1>2. Header(m) = <<b, m.code, hi, lo>>
    BY DEF Header
  <1>. HIDE DEF v, t, l, i
  <1>3. v % 4 = v /\ t % 4 = t /\ l % 16 = l
    BY <1>1
  <1>4. b = 64 * v + (16 * t + l) /\ 16 * t + l \in 0..63 /\ b \in Int
    BY <1>1, <1>3
  <1>5. b \div 64 = v
    <2>. DEFINE r == 16 * t + l
    <2>1. b = 64 * v + r /\ r \in 0..63
      BY <1>4
    <2>. HIDE DEF b, r
    <2>. QED  BY <1>1, <2>1
  <1>6. b \div 16 = 4 * v + t /\ b % 16 = l
    <2>. DEFINE r == 4 * v + t
    <2>1. b = 16 * r + l /\ r \in Int
      BY <1>1, <1>4
    <2>. HIDE DEF b, r
    <2>2. b \div 16 = r /\ b % 16 = l
      BY <1>1, <2>1
    <2>. QED  BY <2>2 DEF r
  <1>7. (b \div 16) % 4 = t
    <2>. HIDE DEF b
    <2>1. (4 * v + t) % 4 = t
      BY <1>1
    <2>. QED  BY <1>6, <2>1
  <1>8. b \in Byte
    <2>1. 0 <= b /\ b <= 255
      BY <1>1, <1>4
    <2>. HIDE DEF b
    <2>. QED  BY <1>4, <2>1, Bounds
  <1>9. hi \in Byte /\ lo \in Byte /\ hi * 256 + lo = i
    <2>1. i \in Int /\ 0 <= i /\ i <= 65535
      BY <1>1, Bounds
    <2>2. hi \in Int /\ 0 <= hi /\ hi <= 255 /\ lo \in Int /\ 0 <= lo /\ lo <= 255
          /\ hi * 256 + lo = i
      BY <2>1
    <2>. HIDE DEF hi, lo
    <2>. QED  BY <2>2, Bounds
  <1>. HIDE DEF b, hi, lo
  <1>10. Header(m) \in Seq(Byte) /\ Len(Header(m)) = 4
    BY <1>1, <1>2, <1>8, <1>9
  <1>. DEFINE h == Header(m)
  <1>11. h[1] = b /\ h[2] = m.code /\ h[3] = hi /\ h[4] = lo
    BY <1>2
  <1>. HIDE DEF h
  <1>12. /\ h[1] \div 64 = v /\ (h[1] \div 16) % 4 = t /\ h[1] % 16 = l
         /\ h[3] * 256 + h[4] = i
    BY <1>5, <1>6, <1>7, <1>9, <1>11
  <1>13. HeaderFields(h) = [version |-> v, type |-> t, tklen |-> l, code |-> m.code, id |-> i]
    BY <1>11, <1>12 DEF HeaderFields
  <1>. QED  BY <1>10, <1>13 DEF h, v, t, l, i

\* W is the message m, with the i-th option ending at ends[i].
IsLayout(m, ends, W) ==
  LET N == Len(m.options)
  IN  /\ W \in Seq(Byte)
      /\ ends \in [0..N -> Nat] /\ ends[0] = 4 + Len(m.token)
      /\ \A i \in 1..N : /\ ends[i] = ends[i - 1] + OptionSize(m.options, i)
                         /\ ends[i] <= ends[N]
                         /\ HoldsOption(W, ends[i - 1], m.options, i)
      /\ \A j \in 1..4 : W[j] = Header(m)[j]
      /\ \A j \in 1..Len(m.token) : W[4 + j] = m.token[j]
      /\ Len(W) = ends[N] + (IF m.payload = <<>> THEN 0 ELSE 1 + Len(m.payload))
      /\ m.payload # <<>> => W[ends[N] + 1] = 255
      /\ \A j \in 1..Len(m.payload) : W[ends[N] + 1 + j] = m.payload[j]

\* The bytes of an option stay those of the option where they are put.
LEMMA OptionMoved ==
  ASSUME NEW os, IsOptions(os), NEW i \in 1..Len(os), NEW p \in Nat, NEW W,
         \A j \in 1..Len(OptionBytes(os, i)) : W[p + j] = OptionBytes(os, i)[j]
  PROVE  HoldsOption(W, p, os, i)
  <1>. DEFINE b == OptionBytes(os, i)
              dn == HeadSize(Delta(os, i))
              l == Len(os[i].value)
              ln == HeadSize(l)
  <1>1. dn \in 0..2 /\ ln \in 0..2 /\ l \in Nat
    <2>1. Delta(os, i) \in UInt16 /\ l \in UInt16 /\ l \in Nat
      BY OptionFields
    <2>. HIDE DEF l
    <2>. QED  BY <2>1, HeadSizes
  <1>2. /\ Len(b) = 1 + dn + ln + l
        /\ b[0 + 1] # 255 /\ b[0 + 1] \div 16 = HeadNibble(Delta(os, i))
        /\ b[0 + 1] % 16 = HeadNibble(l)
        /\ dn = 1 => b[0 + 2] = Extended(Delta(os, i))
        /\ ln = 1 => b[0 + 2 + dn] = Extended(l)
        /\ \A j \in 1..l : b[0 + 1 + dn + ln + j] = os[i].value[j]
    BY OptionLaidOut DEF HoldsOption
  <1>3. \A j \in 1..Len(b) : W[p + j] = b[j]
    OBVIOUS
  <1>. HIDE DEF b, dn, ln, l
  <1>4. W[p + 1] = b[0 + 1]
    <2>1. 1 \in 1..Len(b) /\ 0 + 1 = 1
      BY <1>1, <1>2
    <2>. QED  BY <1>3, <2>1
  <1>5. dn = 1 => W[p + 2] = b[0 + 2]
    <2>1. dn = 1 => 2 \in 1..Len(b)
      BY <1>1, <1>2
    <2>2. 0 + 2 = 2
      OBVIOUS
    <2>. QED  BY <1>3, <2>1, <2>2
  <1>6. ln = 1 => W[p + 2 + dn] = b[0 + 2 + dn]
    <2>1. ln = 1 => 2 + dn \in 1..Len(b)
      BY <1>1, <1>2
    <2>2. 0 + 2 + dn = 2 + dn /\ p + 2 + dn = p + (2 + dn)
      BY <1>1
    <2>. QED  BY <1>3, <2>1, <2>2
  <1>7. ASSUME NEW j \in 1..l PROVE W[p + 1 + dn + ln + j] = os[i].value[j]
    <2>1. 1 + dn + ln + j \in 1..Len(b)
      <3>1. Len(b) = 1 + dn + ln + l
        BY <1>2
      <3>2. 1 + dn + ln + j \in 1..(1 + dn + ln + l)
        BY <1>1
      <3>. QED  BY <3>1, <3>2
    <2>2. 0 + 1 + dn + ln + j = 1 + dn + ln + j /\ p + 1 + dn + ln + j = p + (1 + dn + ln + j)
      BY <1>1
    <2>. QED  BY <1>2, <1>3, <2>1, <2>2
  <1>. QED  BY <1>2, <1>4, <1>5, <1>6, <1>7 DEF HoldsOption, dn, ln, l

\* Every message is laid out like that.
LEMMA MessageLaidOut ==
  ASSUME NEW m, IsMessage(m)
  PROVE  \E ends : IsLayout(m, ends, MessageBytes(m))
  <1>. DEFINE os == m.options
              N == Len(os)
              s == [i \in DOMAIN os |-> OptionBytes(os, i)]
              h == Header(m)
              k == m.token
              pay == IF m.payload = <<>> THEN <<>> ELSE <<255>> \o m.payload
              W == MessageBytes(m)
  <1>1. /\ IsOptions(os) /\ N \in Nat /\ DOMAIN os = 1..N
        /\ k \in Seq(Byte) /\ Len(k) \in Nat /\ m.payload \in Seq(Byte)
        /\ h \in Seq(Byte) /\ Len(h) = 4
    BY MessageFields, HeaderFits DEF IsMessage
  <1>2. \A i \in 1..N : OptionBytes(os, i) \in Seq(Byte)
                          /\ Len(OptionBytes(os, i)) = OptionSize(os, i)
    BY <1>1, OptionLaidOut
  <1>3. s \in Seq(Seq(Byte)) /\ Len(s) = N /\ \A i \in 1..N : s[i] = OptionBytes(os, i)
    <2>. HIDE DEF os, N
    <2>1. s = [i \in 1..N |-> OptionBytes(os, i)]
      BY <1>1
    <2>2. s \in [1..N -> Seq(Byte)]
      BY <1>2, <2>1
    <2>. QED  BY <1>1, <2>1, <2>2
  <1>4. W = h \o k \o FlattenSeq(s) \o pay
    BY DEF MessageBytes, OptionsBytes
  <1>. HIDE DEF s, os, N, h, k, W
  <1>5. PICK joined : IsJoining(s, joined, Byte)
    BY <1>3, JoinedSequences
  <1>a. joined \in [0..Len(s) -> Seq(Byte)] /\ Joins(s, joined)
    BY <1>5 DEF IsJoining
  <1>6. FlattenSeq(s) = joined[N]
    BY <1>3, <1>a, FlattenIsJoined
  <1>. DEFINE f == joined[N]
              len == [i \in 0..N |-> Len(joined[i])]
  <1>7. f \in Seq(Byte) /\ len \in [0..N -> Nat] /\ len[0] = 0 /\ len[N] = Len(f)
    <2>1. N \in 0..N /\ 0 \in 0..N
      BY <1>1
    <2>2. joined \in [0..N -> Seq(Byte)] /\ joined[0] = <<>>
      BY <1>3, <1>a DEF Joins
    <2>3. \A q \in Seq(Byte) : Len(q) \in Nat
      OBVIOUS
    <2>4. \A i \in 0..N : Len(joined[i]) \in Nat
      BY <2>2, <2>3
    <2>5. Len(joined[0]) = 0
      BY <2>2
    <2>. QED  BY <2>1, <2>2, <2>4, <2>5
  <1>8. ASSUME NEW i \in 1..N
        PROVE  /\ len[i] = len[i - 1] + OptionSize(os, i)
               /\ len[i] <= len[N]
               /\ \A j \in 1..Len(OptionBytes(os, i)) : f[len[i - 1] + j] = OptionBytes(os, i)[j]
    <2>1. N \in 0..Len(s) /\ i \in 0..N /\ i - 1 \in 0..N /\ N \in 0..N
      BY <1>1, <1>3
    <2>2. /\ Len(joined[i]) = Len(joined[i - 1]) + Len(s[i])
          /\ Len(joined[i]) <= Len(joined[N])
          /\ \A j \in 1..Len(s[i]) : joined[N][Len(joined[i - 1]) + j] = s[i][j]
      BY <1>5, <2>1 DEF IsJoining
    <2>3. len[i] = Len(joined[i]) /\ len[i - 1] = Len(joined[i - 1]) /\ len[N] = Len(joined[N])
      BY <2>1
    <2>. HIDE DEF len
    <2>. QED  BY <1>2, <1>3, <2>2, <2>3
  <1>. HIDE DEF f, len, pay
  <1>9. pay \in Seq(Byte)
        /\ Len(pay) = (IF m.payload = <<>> THEN 0 ELSE 1 + Len(m.payload))
        /\ (m.payload # <<>> => pay[1] = 255)
        /\ \A j \in 1..Len(m.payload) : pay[1 + j] = m.payload[j]
    <2>. DEFINE z == m.payload
                first == <<255>>
    <2>1. z \in Seq(Byte)
      BY <1>1
    <2>. HIDE DEF z
    <2>2. CASE z = <<>>
      BY <2>2 DEF pay, z
    <2>3. CASE z # <<>>
      <3>1. pay = first \o z
        BY <2>3 DEF pay, z
      <3>2. first \in Seq(Byte) /\ Len(first) = 1 /\ first[1] = 255
        <4>1. 255 \in Byte
          BY Bounds
        <4>. QED  BY <4>1
      <3>. HIDE DEF first
      <3>3. pay \in Seq(Byte) /\ Follows(first, z, pay)
        BY <2>1, <3>1, <3>2, JoinedTwo
      <3>4. /\ Len(pay) = 1 + Len(z) /\ pay[1] = 255
            /\ \A j \in 1..Len(z) : pay[1 + j] = z[j]
        BY <3>2, <3>3 DEF Follows
      <3>. QED  BY <2>3, <3>3, <3>4 DEF z
    <2>. QED  BY <2>2, <2>3
  <1>. DEFINE a == h \o k
              b == a \o f
  <1>10. a \in Seq(Byte) /\ Follows(h, k, a)
    BY <1>1, JoinedTwo
  <1>. HIDE DEF a
  <1>11. b \in Seq(Byte) /\ Follows(a, f, b)
    BY <1>7, <1>10, JoinedTwo
  <1>. HIDE DEF b
  <1>12. W \in Seq(Byte) /\ Follows(b, pay, W)
    <2>1. W = b \o pay
      BY <1>4, <1>6 DEF a, b, f
    <2>. QED  BY <1>9, <1>11, <2>1, JoinedTwo
  <1>13. /\ Len(a) = 4 + Len(k) /\ Len(b) = 4 + Len(k) + Len(f)
         /\ Len(W) = 4 + Len(k) + Len(f) + Len(pay)
         /\ Len(f) \in Nat /\ Len(pay) \in Nat
    BY <1>1, <1>10, <1>11, <1>12 DEF Follows
  <1>14. ASSUME NEW j \in 1..4 PROVE W[j] = h[j]
    <2>1. j \in 1..Len(h) /\ j \in 1..Len(a) /\ j \in 1..Len(b)
      BY <1>1, <1>13
    <2>. QED  BY <1>10, <1>11, <1>12, <2>1 DEF Follows
  <1>15. ASSUME NEW j \in 1..Len(k) PROVE W[4 + j] = k[j]
    <2>1. 4 + j \in 1..Len(a) /\ 4 + j \in 1..Len(b)
      BY <1>1, <1>13
    <2>2. a[4 + j] = k[j]
      BY <1>1, <1>10 DEF Follows
    <2>3. W[4 + j] = b[4 + j] /\ b[4 + j] = a[4 + j]
      BY <1>11, <1>12, <2>1 DEF Follows
    <2>. QED  BY <2>2, <2>3
  <1>16. ASSUME NEW j \in 1..Len(f) PROVE W[4 + Len(k) + j] = f[j]
    <2>1. Len(a) + j \in 1..Len(b) /\ Len(a) + j = 4 + Len(k) + j
      BY <1>1, <1>13
    <2>2. b[Len(a) + j] = f[j]
      BY <1>11 DEF Follows
    <2>3. W[Len(a) + j] = b[Len(a) + j]
      BY <1>12, <2>1 DEF Follows
    <2>. QED  BY <2>1, <2>2, <2>3
  <1>17. ASSUME NEW j \in 1..Len(pay) PROVE W[4 + Len(k) + Len(f) + j] = pay[j]
    BY <1>12, <1>13 DEF Follows
  <1>. DEFINE ends == [i \in 0..N |-> 4 + Len(k) + len[i]]
  <1>18. ends \in [0..N -> Nat] /\ ends[0] = 4 + Len(k) /\ ends[N] = 4 + Len(k) + Len(f)
    <2>. DEFINE c == 4 + Len(k)
                e == [i \in 0..N |-> c + len[i]]
    <2>1. c \in Nat /\ Len(f) \in Nat /\ 0 \in 0..N /\ N \in 0..N
      BY <1>1, <1>13
    <2>2. e = ends
      OBVIOUS
    <2>. HIDE DEF c
    <2>3. e \in [0..N -> Nat]
      BY <1>7, <2>1
    <2>4. e[0] = c /\ e[N] = c + Len(f)
      BY <1>7, <2>1
    <2>. HIDE DEF e, ends
    <2>. QED  BY <2>2, <2>3, <2>4 DEF c
  <1>19. ASSUME NEW i \in 1..N
         PROVE  /\ ends[i] = ends[i - 1] + OptionSize(os, i)
                /\ ends[i] <= ends[N]
                /\ HoldsOption(W, ends[i - 1], os, i)
    <2>1. i \in 0..N /\ i - 1 \in 0..N /\ N \in 0..N
      BY <1>1
    <2>2. /\ len[i] \in Nat /\ len[i - 1] \in Nat /\ len[N] = Len(f)
          /\ ends[i] = 4 + Len(k) + len[i] /\ ends[i - 1] = 4 + Len(k) + len[i - 1]
          /\ ends[N] = 4 + Len(k) + len[N]
      BY <1>7, <2>1
    <2>. HIDE DEF ends
    <2>. DEFINE o == OptionBytes(os, i)
    <2>3. Len(o) = OptionSize(os, i) /\ Len(o) \in Nat
      BY <1>2
    <2>4. ASSUME NEW j \in 1..Len(o) PROVE W[ends[i - 1] + j] = o[j]
      <3>1. f[len[i - 1] + j] = o[j]
        BY <1>8
      <3>2. len[i - 1] + j \in 1..Len(f)
        <4>1. len[i] = len[i - 1] + Len(o) /\ len[i] <= Len(f)
          BY <1>8, <2>2, <2>3
        <4>. DEFINE q == Len(o)
                    r == Len(f)
                    x == len[i - 1]
        <4>2. q \in Nat /\ r \in Nat /\ x \in Nat /\ j \in 1..q /\ x + q <= r
          BY <1>13, <2>2, <2>3, <4>1
        <4>. HIDE DEF q, r, x
        <4>3. x + j \in 1..r
          BY <4>2
        <4>. QED  BY <4>3 DEF r, x
      <3>3. W[4 + Len(k) + (len[i - 1] + j)] = f[len[i - 1] + j]
        BY <1>16, <3>2
      <3>4. ends[i - 1] + j = 4 + Len(k) + (len[i - 1] + j)
        BY <1>1, <2>2
      <3>. QED  BY <3>1, <3>3, <3>4
    <2>5. ends[i - 1] \in Nat
      BY <1>18, <2>1
    <2>6. HoldsOption(W, ends[i - 1], os, i)
      BY <1>1, <2>4, <2>5, OptionMoved DEF N
    <2>7. ends[i] = ends[i - 1] + OptionSize(os, i) /\ ends[i] <= ends[N]
      <3>1. len[i] = len[i - 1] + OptionSize(os, i) /\ len[i] <= len[N] /\ len[N] \in Nat
        BY <1>8, <1>13, <2>2
      <3>2. OptionSize(os, i) \in Nat
        BY <2>3
      <3>. DEFINE x == len[i - 1]
                  y == len[i]
                  z == len[N]
                  q == OptionSize(os, i)
                  c == 4 + Len(k)
      <3>3. x \in Nat /\ y = x + q /\ y <= z /\ z \in Nat /\ q \in Nat /\ c \in Nat
        BY <1>1, <2>2, <3>1, <3>2
      <3>4. ends[i] = c + y /\ ends[i - 1] = c + x /\ ends[N] = c + z
        BY <2>2
      <3>. HIDE DEF x, y, z, q, c
      <3>5. ends[i] = ends[i - 1] + q /\ ends[i] <= ends[N]
        BY <3>3, <3>4
      <3>. QED  BY <3>5 DEF q
    <2>. QED  BY <2>6, <2>7
  <1>. HIDE DEF ends
  <1>20. m.payload # <<>> => W[ends[N] + 1] = 255
    <2>1. m.payload # <<>> => 1 \in 1..Len(pay)
      BY <1>1, <1>9
    <2>. QED  BY <1>9, <1>17, <1>18, <2>1
  <1>21. ASSUME NEW j \in 1..Len(m.payload) PROVE W[ends[N] + 1 + j] = m.payload[j]
    <2>1. m.payload # <<>> /\ Len(m.payload) \in Nat
      BY <1>1
    <2>2. 1 + j \in 1..Len(pay)
      BY <1>9, <2>1
    <2>3. W[4 + Len(k) + Len(f) + (1 + j)] = pay[1 + j]
      BY <1>17, <2>2
    <2>4. ends[N] + 1 + j = 4 + Len(k) + Len(f) + (1 + j)
      BY <1>1, <1>13, <1>18
    <2>. QED  BY <1>9, <2>3, <2>4
  <1>22. Len(W) = ends[N] + (IF m.payload = <<>> THEN 0 ELSE 1 + Len(m.payload))
    BY <1>9, <1>13, <1>18
  <1>23. IsLayout(m, ends, W)
    BY <1>12, <1>14, <1>15, <1>18, <1>19, <1>20, <1>21, <1>22 DEF IsLayout, N, os, k, h
  <1>. QED  BY <1>23 DEF W

\* The size computed for a message is its length.
LEMMA SizeIsLength ==
  ASSUME NEW m, IsMessage(m)
  PROVE  BufferSize(m) = Len(MessageBytes(m)) /\ Len(MessageBytes(m)) \in Nat
                                              /\ MessageBytes(m) # <<>>
  <1>1. PICK ends : IsLayout(m, ends, MessageBytes(m))
    BY MessageLaidOut
  <1>. DEFINE N == Len(m.options)
              base == 4 + Len(m.token)
              rest == IF m.payload = <<>> THEN 0 ELSE 1 + Len(m.payload)
              P(h) == h = [i \in 0..N |->
                             IF i = 0 THEN 0 ELSE h[i - 1] + OptionSize(m.options, i)]
              g == [i \in 0..N |-> ends[i] - base]
              sum == CHOOSE h : P(h)
              W == MessageBytes(m)
  <1>2. BufferSize(m) = base + sum[N] + rest
    BY DEF BufferSize
  <1>3. N \in Nat /\ base \in Nat /\ base >= 4 /\ rest \in Nat
    BY MessageFields
  <1>4. /\ W \in Seq(Byte) /\ Len(W) = ends[N] + rest
        /\ ends \in [0..N -> Nat] /\ ends[0] = base
        /\ \A i \in 1..N : ends[i] = ends[i - 1] + OptionSize(m.options, i)
    BY <1>1 DEF IsLayout
  <1>. HIDE DEF N, base, rest, W
  <1>5. \A i \in 1..N : OptionSize(m.options, i) \in Nat
    <2>1. IsOptions(m.options)
      BY DEF IsMessage
    <2>2. ASSUME NEW i \in 1..N PROVE OptionSize(m.options, i) \in Nat
      <3>1. OptionBytes(m.options, i) \in Seq(Byte)
            /\ OptionSize(m.options, i) = Len(OptionBytes(m.options, i))
        BY <2>1, OptionLaidOut DEF N
      <3>2. \A q \in Seq(Byte) : Len(q) \in Nat
        OBVIOUS
      <3>. QED  BY <3>1, <3>2
    <2>. QED  BY <2>2
  <1>6. P(g)
    <2>1. ASSUME NEW i \in 0..N
          PROVE  g[i] = IF i = 0 THEN 0 ELSE g[i - 1] + OptionSize(m.options, i)
      <3>1. CASE i = 0
        BY <1>3, <1>4, <3>1
      <3>2. CASE i # 0
        <4>1. i \in 1..N /\ i - 1 \in 0..N
          BY <1>3, <3>2
        <4>. DEFINE x == ends[i]
                    y == ends[i - 1]
                    o == OptionSize(m.options, i)
        <4>2. x \in Nat /\ y \in Nat /\ o \in Nat /\ x = y + o
          BY <1>4, <1>5, <4>1
        <4>3. g[i] = x - base /\ g[i - 1] = y - base
          BY <4>1
        <4>. HIDE DEF x, y, o, g
        <4>4. g[i] = g[i - 1] + o
          BY <1>3, <4>2, <4>3
        <4>. QED  BY <3>2, <4>4 DEF o
      <3>. QED  BY <3>1, <3>2
    <2>. QED  BY <2>1
  <1>7. P(sum)
    <2>. HIDE DEF P, g
    <2>. QED  BY <1>6
  <1>. HIDE DEF sum
  <1>8. /\ \A i \in 0..N : sum[i] = IF i = 0 THEN 0 ELSE sum[i - 1] + OptionSize(m.options, i)
        /\ \A i \in 0..N : g[i] = IF i = 0 THEN 0 ELSE g[i - 1] + OptionSize(m.options, i)
    <2>. HIDE DEF g
    <2>. QED  BY <1>6, <1>7
  <1>9. g[N] = ends[N] - base /\ ends[N] \in Nat
    <2>1. N \in 0..N
      BY <1>3
    <2>. QED  BY <1>4, <2>1
  <1>. HIDE DEF P, g
  <1>10. GoAlike(sum, g, N)
    <2>1. sum[0] = g[0]
      <3>1. 0 \in 0..N
        BY <1>3
      <3>. QED  BY <1>8, <3>1
    <2>2. ASSUME NEW i \in 1..N, sum[i - 1] = g[i - 1] PROVE sum[i] = g[i]
      <3>1. i \in 0..N /\ i # 0
        BY <1>3
      <3>. QED  BY <1>8, <2>2, <3>1
    <2>. QED  BY <2>1, <2>2 DEF GoAlike
  <1>11. sum[N] = g[N]
    <2>1. Alike(sum, g, N)
      BY <1>3, <1>10, RecursionsAgree
    <2>2. N \in 0..N
      BY <1>3
    <2>. QED  BY <2>1, <2>2 DEF Alike
  <1>12. BufferSize(m) = Len(W) /\ Len(W) \in Nat
    <2>. DEFINE e == ends[N]
    <2>1. e \in Nat /\ sum[N] = e - base /\ Len(W) = e + rest
      BY <1>4, <1>9, <1>11
    <2>. HIDE DEF e
    <2>. QED  BY <1>2, <1>3, <2>1
  <1>13. W # <<>>
    <2>1. base <= ends[N]
      <3>1. CASE N = 0
        BY <1>3, <1>4, <3>1
      <3>2. CASE N # 0
        <4>1. 1 \in 1..N /\ 1 - 1 = 0 /\ 1 \in 0..N
          BY <1>3, <3>2
        <4>. DEFINE x == ends[1]
                    z == ends[N]
                    o == OptionSize(m.options, 1)
        <4>2. x = base + o /\ o \in Nat /\ x <= z /\ z \in Nat
          BY <1>1, <1>4, <1>5, <1>9, <4>1 DEF IsLayout, N
        <4>. HIDE DEF x, z, o
        <4>3. base <= z
          BY <1>3, <4>2
        <4>. QED  BY <4>3 DEF z
      <3>. QED  BY <3>1, <3>2
    <2>2. Len(W) >= 4
      <3>. DEFINE e == ends[N]
      <3>1. e \in Nat /\ base <= e /\ Len(W) = e + rest
        BY <1>4, <1>9, <2>1
      <3>. HIDE DEF e
      <3>. QED  BY <1>3, <3>1
    <2>3. Len(<<>>) = 0
      OBVIOUS
    <2>. QED  BY <2>2, <2>3
  <1>. QED  BY <1>12, <1>13 DEF W

-----------------------------------------------------------------------------
(* Reading the options of a datagram, of which n bytes were received.      *)

ShortOptions(os) ==
  \A i \in DOMAIN os : os[i].num - PrevNum(os, i) < 269 /\ Len(os[i].value) < 269

\* B begins with n bytes of W, and behind them are zeros.
IsReceived(B, W, n) ==
  /\ B \in Seq(Byte) /\ Len(B) = n + 4
  /\ \A j \in 1..n : B[j] = W[j]
  /\ \A j \in (n + 1)..(n + 4) : B[j] = 0

\* The sizes of a short option.
LEMMA ShortSizes ==
  ASSUME NEW os, IsOptions(os), ShortOptions(os), NEW i \in 1..Len(os)
  PROVE  /\ IsShortInt(Delta(os, i)) /\ IsShortInt(Len(os[i].value))
         /\ HeadSize(Delta(os, i)) = IF Delta(os, i) < 13 THEN 0 ELSE 1
         /\ HeadSize(Len(os[i].value)) = IF Len(os[i].value) < 13 THEN 0 ELSE 1
         /\ OptionSize(os, i) = 1 + HeadSize(Delta(os, i)) + HeadSize(Len(os[i].value))
                                  + Len(os[i].value)
  <1>. DEFINE d == Delta(os, i)
              l == Len(os[i].value)
  <1>1. d \in UInt16 /\ l \in UInt16
    BY OptionFields
  <1>2. d < 269 /\ l < 269
    <2>1. i \in DOMAIN os
      BY DEF IsOptions
    <2>. QED  BY <2>1 DEF ShortOptions, Delta
  <1>3. OptionSize(os, i) = 1 + HeadSize(d) + HeadSize(l) + l
    BY OptionLaidOut
  <1>. HIDE DEF d, l
  <1>4. IsShortInt(d) /\ IsShortInt(l)
    BY <1>1, <1>2, Bounds DEF IsShortInt
  <1>5. /\ HeadSize(d) = IF d < 13 THEN 0 ELSE 1
        /\ HeadSize(l) = IF l < 13 THEN 0 ELSE 1
    BY <1>4, ShortInt
  <1>. QED  BY <1>3, <1>4, <1>5 DEF d, l

\* Where the bytes of an option are read from: those that were received are the option's,
\* and its extended bytes are at most three positions behind its beginning.
LEMMA ReadsNumbers ==
  ASSUME NEW os, IsOptions(os), ShortOptions(os), NEW i \in 1..Len(os), NEW W, NEW p \in Nat,
         HoldsOption(W, p, os, i), NEW n \in Nat, p < n, NEW B, IsReceived(B, W, n), NEW junk
  PROVE  LET d == Delta(os, i)
             l == Len(os[i].value)
             a == p + 1 + HeadSize(d)
         IN  /\ At(B, p) # 255 /\ At(B, p) \div 16 = HeadNibble(d) /\ At(B, p) % 16 = HeadNibble(l)
             /\ OptionNum(B, HeadNibble(d), p + 1, junk).bpos = a
             /\ OptionNum(B, HeadNibble(d), p + 1, junk).buffer = B
             /\ a <= n => OptionNum(B, HeadNibble(d), p + 1, junk).v = d
             /\ OptionNum(B, HeadNibble(l), a, junk).bpos = a + HeadSize(l)
             /\ OptionNum(B, HeadNibble(l), a, junk).buffer = B
             /\ OptionNum(B, HeadNibble(l), a, junk).v =
                  IF l < 13 \/ a < n THEN l ELSE 13
  <1>. DEFINE d == Delta(os, i)
              l == Len(os[i].value)
              a == p + 1 + HeadSize(d)
              num == OptionNum(B, HeadNibble(d), p + 1, junk)
              len == OptionNum(B, HeadNibble(l), a, junk)
  <1>1. /\ IsShortInt(d) /\ IsShortInt(l)
        /\ HeadSize(d) = IF d < 13 THEN 0 ELSE 1
        /\ HeadSize(l) = IF l < 13 THEN 0 ELSE 1
        /\ d \in Int /\ l \in Int
    BY ShortSizes DEF IsShortInt
  <1>2. /\ W[p + 1] # 255
        /\ W[p + 1] \div 16 = HeadNibble(d) /\ W[p + 1] % 16 = HeadNibble(l)
        /\ HeadSize(d) = 1 => W[p + 2] = Extended(d)
        /\ HeadSize(l) = 1 => W[p + 2 + HeadSize(d)] = Extended(l)
    BY DEF HoldsOption
  <1>. HIDE DEF d, l
  <1>3. At(B, p) = W[p + 1]
    <2>1. p + 1 \in 1..n
      OBVIOUS
    <2>. QED  BY <2>1 DEF At, IsReceived
  <1>a. p + 1 \in Int /\ a \in Int
    BY <1>1
  <1>4. num.v = ShortValue(d, At(B, p + 1)) /\ num.bpos = a /\ num.buffer = B
    BY <1>1, <1>a, ShortRead
  <1>5. len.v = ShortValue(l, At(B, a)) /\ len.bpos = a + HeadSize(l) /\ len.buffer = B
    <2>. HIDE DEF a
    <2>. QED  BY <1>1, <1>a, ShortRead
  <1>. HIDE DEF num, len
  <1>6. a <= n => num.v = d
    <2>1. CASE d < 13
      BY <1>4, <2>1 DEF ShortValue
    <2>2. CASE ~(d < 13) /\ a <= n
      <3>1. HeadSize(d) = 1 /\ p + 2 \in 1..n /\ (p + 1) + 1 = p + 2
        BY <1>1, <2>2
      <3>2. At(B, p + 1) = Extended(d)
        BY <1>2, <3>1 DEF At, IsReceived
      <3>. QED  BY <1>1, <1>4, <3>2, ShortInt
    <2>. QED  BY <2>1, <2>2
  <1>7. len.v = IF l < 13 \/ a < n THEN l ELSE 13
    <2>1. CASE l < 13
      BY <1>5, <2>1 DEF ShortValue
    <2>2. CASE ~(l < 13) /\ a < n
      <3>1. HeadSize(l) = 1 /\ a + 1 \in 1..n /\ a + 1 = p + 2 + HeadSize(d)
        BY <1>1, <2>2
      <3>2. At(B, a) = Extended(l)
        <4>1. B[a + 1] = W[a + 1]
          BY <3>1 DEF IsReceived
        <4>2. At(B, a) = B[a + 1]
          BY DEF At
        <4>. QED  BY <1>2, <3>1, <4>1, <4>2
      <3>. QED  BY <1>1, <1>5, <2>2, <3>2, ShortInt
    <2>3. CASE ~(l < 13) /\ ~(a < n)
      <3>1. a + 1 \in (n + 1)..(n + 4)
        BY <1>1, <2>3
      <3>2. At(B, a) = 0
        BY <3>1 DEF At, IsReceived
      <3>. QED  BY <1>1, <1>5, <2>3, <3>2, ShortInt
    <2>. QED  BY <2>1, <2>2, <2>3
  <1>. QED  BY <1>2, <1>3, <1>4, <1>5, <1>6, <1>7 DEF d, l, num, len

\* A turn of the loop that counts goes from the beginning of an option to its end, or, when the
\* datagram ends in it, past the end of the datagram, and starts to count anew.
IsHeld(os, i, W, p, n, B) ==
  /\ IsOptions(os) /\ ShortOptions(os) /\ i \in 1..Len(os)
  /\ p \in Nat /\ n \in Nat /\ p < n /\ HoldsOption(W, p, os, i) /\ IsReceived(B, W, n)

Passes(os, i, p, n, B, junk, c) ==
  LET w == [bpos |-> p, count |-> c, buffer |-> B]
      e == p + OptionSize(os, i)
  IN  /\ e \in Nat /\ e > p
      /\ ~CountEnds(w, n)
      /\ e <= n => CountOption(w, n, junk) = [bpos |-> e, count |-> c + 1, buffer |-> B]
      /\ e > n => \E q \in Nat :
           q > n /\ CountOption(w, n, junk) = [bpos |-> q, count |-> 0, buffer |-> B]

LEMMA CountsOption ==
  \A os, i, W, p, n, B, junk, c : IsHeld(os, i, W, p, n, B) => Passes(os, i, p, n, B, junk, c)
  <1>. SUFFICES ASSUME NEW os, IsOptions(os), ShortOptions(os), NEW i \in 1..Len(os), NEW W,
                       NEW p \in Nat, HoldsOption(W, p, os, i), NEW n \in Nat, p < n,
                       NEW B, IsReceived(B, W, n), NEW junk, NEW c
                PROVE  Passes(os, i, p, n, B, junk, c)
    BY DEF IsHeld
  <1>. DEFINE w == [bpos |-> p, count |-> c, buffer |-> B]
              d == Delta(os, i)
              l == Len(os[i].value)
              x == HeadSize(d)
              y == HeadSize(l)
              s == OptionSize(os, i)
              a == p + 1 + x
              first == OptionNum(B, HeadNibble(d), p + 1, junk)
              num == OptionNum(B, HeadNibble(l), a, junk)
              q == num.bpos + num.v
  <1>1. /\ At(B, p) # 255 /\ At(B, p) \div 16 = HeadNibble(d) /\ At(B, p) % 16 = HeadNibble(l)
        /\ first.bpos = a /\ first.buffer = B /\ (a <= n => first.v = d)
        /\ num.bpos = a + y /\ num.buffer = B
        /\ num.v = IF l < 13 \/ a < n THEN l ELSE 13
    BY ReadsNumbers
  <1>0. num.bpos = a + y /\ num.v = (IF l < 13 \/ a < n THEN l ELSE 13)
    BY <1>1
  <1>2. /\ x = (IF d < 13 THEN 0 ELSE 1) /\ y = (IF l < 13 THEN 0 ELSE 1)
        /\ s = 1 + x + y + l /\ d \in Int /\ l \in Int /\ 0 <= l
    BY ShortSizes DEF IsShortInt
  <1>3. ExtendedSize(HeadNibble(d)) = x
    BY DEF HeadSize
  <1>4. w.bpos = p /\ w.count = c /\ w.buffer = B
    OBVIOUS
  <1>. HIDE DEF w, d, l, x, y, s, first, num
  <1>5. ~CountEnds(w, n)
    BY <1>1, <1>4 DEF CountEnds
  <1>6. CountOption(w, n, junk) =
          [bpos |-> q, count |-> IF q > n THEN 0 ELSE c + 1, buffer |-> B]
    BY <1>1, <1>3, <1>4, <1>5 DEF CountOption, num
  <1>7. p + s \in Nat /\ p + s > p
    BY <1>2
  <1>8. ASSUME p + s <= n PROVE q = p + s /\ ~(q > n)
    BY <1>0, <1>2, <1>8
  <1>9. ASSUME p + s > n PROVE q > n /\ q \in Nat
    <2>. DEFINE nv == num.v
    <2>1. q = a + y + nv /\ nv = (IF l < 13 \/ a < n THEN l ELSE 13)
      <3>. HIDE DEF a
      <3>. QED  BY <1>0
    <2>2. l \in Nat /\ y \in 0..1 /\ a \in Nat /\ p + s = a + y + l
      BY <1>2
    <2>. HIDE DEF nv, a, q
    <2>3. CASE l < 13 \/ a < n
      BY <1>9, <2>1, <2>2, <2>3
    <2>4. CASE ~(l < 13 \/ a < n)
      BY <2>1, <2>2, <2>4
    <2>. QED  BY <2>3, <2>4
  <1>. HIDE DEF q
  <1>10. ASSUME p + s <= n
         PROVE  CountOption(w, n, junk) = [bpos |-> p + s, count |-> c + 1, buffer |-> B]
    BY <1>6, <1>8, <1>10
  <1>11. ASSUME p + s > n
         PROVE  CountOption(w, n, junk) = [bpos |-> q, count |-> 0, buffer |-> B]
    BY <1>6, <1>9, <1>11
  <1>. HIDE DEF w, s
  <1>12. p + s > n => \E k \in Nat :
           k > n /\ CountOption(w, n, junk) = [bpos |-> k, count |-> 0, buffer |-> B]
    BY <1>9, <1>11
  <1>. QED  BY <1>5, <1>7, <1>10, <1>12 DEF w, s, Passes

\* What a part of a sequence holds.
IsPart(S, s, b, l) == s \in Seq(S) /\ b \in Nat /\ l \in Nat /\ b + l <= Len(s)

IsCopy(t, S, s, b, l) ==
  t \in Seq(S) /\ Len(t) = l /\ \A j \in 1..l : t[j] = s[b + j]

LEMMA PartHolds ==
  \A S, s, b, l : IsPart(S, s, b, l) => IsCopy(SubSeq(s, b + 1, b + l), S, s, b, l)
  <1>1. ASSUME NEW S, NEW s \in Seq(S), NEW b \in Nat, NEW l \in Nat, b + l <= Len(s)
        PROVE  /\ SubSeq(s, b + 1, b + l) \in Seq(S) /\ Len(SubSeq(s, b + 1, b + l)) = l
               /\ \A j \in 1..l : SubSeq(s, b + 1, b + l)[j] = s[b + j]
    BY <1>1
  <1>. QED  BY <1>1 DEF IsPart, IsCopy

\* An option is read in two numbers and its value.
LEMMA ReadOptionIs ==
  \A r, n, junk, num, len :
    /\ num = OptionNum(r.buffer, At(r.buffer, r.bpos) \div 16, r.bpos + 1, junk)
    /\ len = OptionNum(num.buffer, At(r.buffer, r.bpos) % 16, num.bpos, junk)
    /\ ~(r.bpos > n)
    => ReadOption(r, n, junk) = Behind(r, num, len)
  <1>1. ASSUME NEW r, NEW n, NEW junk, ~(r.bpos > n)
        PROVE  LET num == OptionNum(r.buffer, At(r.buffer, r.bpos) \div 16, r.bpos + 1, junk)
                   len == OptionNum(num.buffer, At(r.buffer, r.bpos) % 16, num.bpos, junk)
               IN  ReadOption(r, n, junk) = Behind(r, num, len)
    BY <1>1, Zenon DEF ReadOption
  <1>. QED  BY <1>1, SMT

\* Reading an option that was received whole gives the option and the position behind it.
Reads(os, i, p, n, B, junk) ==
  ReadOption([bpos |-> p, prevnum |-> PrevNum(os, i), buffer |-> B,
              options |-> SubSeq(os, 1, i - 1)], n, junk)
    = [bpos |-> p + OptionSize(os, i), prevnum |-> os[i].num, buffer |-> B,
       options |-> SubSeq(os, 1, i)]

LEMMA ReadsOption ==
  \A os, i, W, p, n, B, junk :
    IsHeld(os, i, W, p, n, B) /\ p + OptionSize(os, i) <= n => Reads(os, i, p, n, B, junk)
  <1>. SUFFICES ASSUME NEW os, IsOptions(os), ShortOptions(os), NEW i \in 1..Len(os), NEW W,
                       NEW p \in Nat, HoldsOption(W, p, os, i), NEW n \in Nat, p < n,
                       NEW B, IsReceived(B, W, n), NEW junk, p + OptionSize(os, i) <= n
                PROVE  Reads(os, i, p, n, B, junk)
    BY DEF IsHeld
  <1>. DEFINE before == SubSeq(os, 1, i - 1)
              prev == PrevNum(os, i)
              r == [bpos |-> p, prevnum |-> prev, buffer |-> B, options |-> before]
              d == Delta(os, i)
              v == os[i].value
              l == Len(v)
              x == HeadSize(d)
              y == HeadSize(l)
              s == OptionSize(os, i)
              a == p + 1 + x
              b == a + y
              num == OptionNum(B, HeadNibble(d), p + 1, junk)
              len == OptionNum(B, HeadNibble(l), a, junk)
              optnum == (num.v + prev) % 65536
              read == ReadOption(r, n, junk)
  <1>1. /\ At(B, p) # 255 /\ At(B, p) \div 16 = HeadNibble(d) /\ At(B, p) % 16 = HeadNibble(l)
        /\ num.bpos = a /\ num.buffer = B /\ (a <= n => num.v = d)
        /\ len.bpos = b /\ len.buffer = B
        /\ len.v = IF l < 13 \/ a < n THEN l ELSE 13
    BY ReadsNumbers
  <1>2. /\ x = (IF d < 13 THEN 0 ELSE 1) /\ y = (IF l < 13 THEN 0 ELSE 1)
        /\ s = 1 + x + y + l /\ d \in Int /\ l \in Int /\ 0 <= l
    BY ShortSizes DEF IsShortInt
  <1>3. r.bpos = p /\ r.prevnum = prev /\ r.buffer = B /\ r.options = before
    OBVIOUS
  <1>4. os[i].num \in UInt16 /\ prev \in UInt16 /\ d = os[i].num - prev /\ v \in Seq(Byte)
    BY OptionFields DEF Delta
  <1>5. \A j \in 1..l : W[b + j] = v[j]
    BY DEF HoldsOption
  <1>6. p + s <= n
    OBVIOUS
  <1>7. os \in Seq(OptionSet) /\ os[i] \in OptionSet
    BY DEF IsOptions
  <1>. HIDE DEF r, d, l, x, y, s, num, len, prev, v, before
  <1>8. a <= n /\ (l < 13 \/ a < n) /\ b + l = p + s /\ b \in Nat
    BY <1>2, <1>6
  <1>9. num.v = d /\ len.v = l
    BY <1>1, <1>8
  <1>10. optnum = os[i].num
    <2>1. num.v + prev = os[i].num
      BY <1>4, <1>9, Bounds
    <2>. QED  BY <1>4, <2>1, Fits
  <1>11. read = [bpos |-> len.bpos + len.v, prevnum |-> optnum, buffer |-> len.buffer,
                 options |-> Append(before, [num |-> optnum,
                                             value |-> Bytes(len.buffer, len.bpos, len.v)])]
    <2>1. /\ num = OptionNum(r.buffer, At(r.buffer, r.bpos) \div 16, r.bpos + 1, junk)
          /\ len = OptionNum(num.buffer, At(r.buffer, r.bpos) % 16, num.bpos, junk)
      BY <1>1, <1>3 DEF num, len
    <2>2. ~(r.bpos > n)
      BY <1>3
    <2>3. read = Behind(r, num, len)
      BY <2>1, <2>2, ReadOptionIs
    <2>. QED  BY <1>3, <2>3 DEF Behind
  <1>12. Bytes(B, b, l) = v
    <2>1. l = Len(v) /\ Len(v) \in Nat
      BY <1>4 DEF l
    <2>2. Bytes(B, b, l) = SubSeq(B, b + 1, b + l)
      BY DEF Bytes
    <2>3. b + l <= n /\ B \in Seq(Byte) /\ Len(B) = n + 4 /\ \A j \in 1..n : B[j] = W[j]
      BY <1>6, <1>8 DEF IsReceived
    <2>. HIDE DEF b
    <2>4. SubSeq(B, b + 1, b + l) \in Seq(Byte) /\ Len(SubSeq(B, b + 1, b + l)) = l
          /\ \A j \in 1..l : SubSeq(B, b + 1, b + l)[j] = B[b + j]
      <3>1. l \in Nat
        BY <1>2
      <3>2. b + l <= Len(B)
        BY <1>8, <2>3, <3>1
      <3>3. IsPart(Byte, B, b, l)
        BY <1>8, <2>3, <3>1, <3>2 DEF IsPart
      <3>4. IsCopy(SubSeq(B, b + 1, b + l), Byte, B, b, l)
        BY <3>3, PartHolds
      <3>. QED  BY <3>4 DEF IsCopy
    <2>5. ASSUME NEW j \in 1..l PROVE SubSeq(B, b + 1, b + l)[j] = v[j]
      <3>1. b \in Nat /\ l \in Int /\ b + l <= n
        BY <1>2, <1>8, <2>3
      <3>2. b + j \in 1..n
        BY <3>1
      <3>3. B[b + j] = W[b + j]
        BY <2>3, <3>2
      <3>. QED  BY <1>5, <2>4, <3>3
    <2>. DEFINE u == SubSeq(B, b + 1, b + l)
    <2>6. u \in Seq(Byte) /\ Len(u) = l /\ \A j \in 1..l : u[j] = v[j]
      BY <2>4, <2>5
    <2>. HIDE DEF u
    <2>7. u = v
      BY <1>4, <2>1, <2>6
    <2>. QED  BY <2>2, <2>7 DEF u
  <1>13. Append(before, os[i]) = SubSeq(os, 1, i)
    BY <1>7 DEF before
  <1>14. [num |-> os[i].num, value |-> v] = os[i]
    BY <1>7 DEF OptionSet, v
  <1>15. read = [bpos |-> p + s, prevnum |-> os[i].num, buffer |-> B, options |-> SubSeq(os, 1, i)]
    <2>. HIDE DEF optnum, read, b
    <2>. QED  BY <1>1, <1>8, <1>9, <1>10, <1>11, <1>12, <1>13, <1>14
  <1>. QED  BY <1>15 DEF read, r, s, prev, before, Reads

\* B holds n bytes of the message m, the header and the token at least.
IsReception(m, ends, W, n, B) ==
  /\ IsMessage(m) /\ ShortOptions(m.options) /\ IsLayout(m, ends, W)
  /\ n \in Nat /\ ends[0] <= n /\ n <= Len(W) /\ IsReceived(B, W, n)

\* M options were received whole.
AreWhole(m, ends, n, M) ==
  /\ M \in 0..Len(m.options)
  /\ M = Len(m.options) \/ ends[M + 1] > n
  /\ \A i \in 0..M : ends[i] <= n

\* The options that the receiver finds: none when the datagram ends in an option.
Found(m, ends, n, M) == IF M = Len(m.options) \/ ends[M] = n THEN M ELSE 0

\* What is known of the options of a message that was received.
LEMMA ReceptionFacts ==
  ASSUME NEW m, NEW ends, NEW W, NEW n, NEW B, IsReception(m, ends, W, n, B)
  PROVE  LET N == Len(m.options)
         IN  /\ N \in Nat /\ n \in Nat /\ IsReceived(B, W, n)
             /\ IsOptions(m.options) /\ ShortOptions(m.options)
             /\ ends[0] = 4 + Len(m.token) /\ 4 <= ends[0] /\ ends[0] <= n
             /\ \A i \in 0..N : ends[i] \in Nat
             /\ \A i \in 1..N : /\ ends[i] = ends[i - 1] + OptionSize(m.options, i)
                                /\ HoldsOption(W, ends[i - 1], m.options, i)
  <1>1. IsMessage(m) /\ IsLayout(m, ends, W)
    BY DEF IsReception
  <1>2. Len(m.options) \in Nat /\ Len(m.token) \in 0..15 /\ IsOptions(m.options)
    BY <1>1, MessageFields DEF IsMessage
  <1>3. /\ ends \in [0..Len(m.options) -> Nat] /\ ends[0] = 4 + Len(m.token)
        /\ \A i \in 1..Len(m.options) :
             /\ ends[i] = ends[i - 1] + OptionSize(m.options, i)
             /\ HoldsOption(W, ends[i - 1], m.options, i)
    BY <1>1 DEF IsLayout
  <1>4. 4 <= ends[0]
    <2>. DEFINE t == Len(m.token)
    <2>1. t \in 0..15 /\ ends[0] = 4 + t
      BY <1>2, <1>3
    <2>. HIDE DEF t
    <2>. QED  BY <2>1
  <1>5. n \in Nat /\ ends[0] <= n /\ IsReceived(B, W, n) /\ ShortOptions(m.options)
    BY DEF IsReception
  <1>. QED  BY <1>2, <1>3, <1>4, <1>5

\* Some number of options was received whole.
LEMMA SomeAreWhole ==
  ASSUME NEW m, NEW ends, NEW W, NEW n, NEW B, IsReception(m, ends, W, n, B)
  PROVE  \E M : AreWhole(m, ends, n, M)
  <1>. DEFINE N == Len(m.options)
              T == {k \in Nat : k <= N /\ (k = N \/ ends[k + 1] > n)}
  <1>1. N \in Nat /\ ends[0] <= n /\ n \in Nat /\ \A i \in 0..N : ends[i] \in Nat
    BY ReceptionFacts
  <1>. HIDE DEF N
  <1>2. T \subseteq Nat /\ T # {}
    <2>1. N \in T
      BY <1>1
    <2>. QED  BY <2>1
  <1>3. PICK M \in T : \A y \in T : M <= y
    <2>. HIDE DEF T
    <2>. QED  BY <1>2, LeastElement
  <1>4. ASSUME NEW i \in 0..M PROVE ends[i] <= n
    <2>1. CASE i = 0
      BY <1>1, <2>1
    <2>2. CASE i # 0
      <3>1. i - 1 \in Nat /\ i - 1 < M /\ i - 1 < N /\ (i - 1) + 1 = i /\ i \in 0..N
        BY <1>1, <1>3, <2>2
      <3>2. ~(i - 1 \in T)
        BY <1>3, <3>1
      <3>3. ~(ends[i] > n)
        <4>. DEFINE k == i - 1
        <4>1. k \in Nat /\ k <= N /\ k + 1 = i /\ ~(k \in T)
          BY <1>1, <3>1, <3>2
        <4>. HIDE DEF k
        <4>. QED  BY <4>1
      <3>. QED  BY <1>1, <3>1, <3>3
    <2>. QED  BY <2>1, <2>2
  <1>5. AreWhole(m, ends, n, M)
    <2>1. M \in 0..N /\ (M = N \/ ends[M + 1] > n)
      BY <1>1, <1>3
    <2>. QED  BY <1>4, <2>1 DEF AreWhole, N
  <1>. QED  BY <1>5

\* Every option takes a byte at least.
LEMMA OptionNotEmpty ==
  \A os, i : IsOptions(os) /\ i \in 1..Len(os) => OptionSize(os, i) \in Nat \ {0}
  <1>. SUFFICES ASSUME NEW os, IsOptions(os), NEW i \in 1..Len(os)
                PROVE  OptionSize(os, i) \in Nat \ {0}
    OBVIOUS
  <1>. DEFINE x == HeadSize(Delta(os, i))
              l == Len(os[i].value)
              y == HeadSize(l)
              s == OptionSize(os, i)
  <1>1. s = 1 + x + y + l
    BY OptionLaidOut
  <1>2. x \in 0..2 /\ y \in 0..2 /\ l \in Nat
    <2>1. Delta(os, i) \in UInt16 /\ l \in UInt16
      BY OptionFields
    <2>. HIDE DEF l
    <2>. QED  BY <2>1, HeadSizes, Bounds
  <1>. HIDE DEF x, y, l, s
  <1>3. s \in Nat \ {0}
    BY <1>1, <1>2
  <1>. QED  BY <1>3 DEF s

\* The ends of the options are that far apart.
LEMMA EndsGrow ==
  ASSUME NEW m, NEW ends, NEW W, NEW n, NEW B, IsReception(m, ends, W, n, B)
  PROVE  \A i \in 0..Len(m.options) : i + 4 <= ends[i]
  <1>. DEFINE N == Len(m.options)
              T == {k \in Nat : k <= N => k + 4 <= ends[k]}
  <1>1. /\ N \in Nat /\ 4 <= ends[0] /\ \A i \in 0..N : ends[i] \in Nat
        /\ \A i \in 1..N : ends[i] = ends[i - 1] + OptionSize(m.options, i)
        /\ IsOptions(m.options)
    BY ReceptionFacts
  <1>2. ASSUME NEW i \in 1..N PROVE OptionSize(m.options, i) \in Nat \ {0}
    BY <1>1, OptionNotEmpty
  <1>. HIDE DEF N
  <1>3. 0 \in T
    BY <1>1
  <1>4. ASSUME NEW k \in Nat, k \in T PROVE k + 1 \in T
    <2>1. CASE k + 1 <= N
      <3>. DEFINE x == ends[k]
                  y == ends[k + 1]
                  s == OptionSize(m.options, k + 1)
      <3>1. k + 1 \in 1..N /\ k \in 0..N /\ (k + 1) - 1 = k /\ k + 1 \in 0..N /\ k <= N
        BY <1>1, <2>1
      <3>2. x \in Nat /\ y \in Nat /\ y = x + s /\ k + 4 <= x /\ s \in Nat \ {0}
        BY <1>1, <1>2, <1>4, <3>1
      <3>. HIDE DEF x, y, s
      <3>3. (k + 1) + 4 <= y
        BY <3>2
      <3>. QED  BY <3>3 DEF y
    <2>2. CASE ~(k + 1 <= N)
      BY <2>2
    <2>. QED  BY <2>1, <2>2
  <1>5. Nat \subseteq T
    <2>. HIDE DEF T
    <2>. QED  BY <1>3, <1>4, SetInduction
  <1>. QED
    <2>1. ASSUME NEW i \in 0..N PROVE i + 4 <= ends[i]
      <3>1. i \in T /\ i <= N
        BY <1>1, <1>5
      <3>. QED  BY <3>1
    <2>. QED  BY <2>1 DEF N

\* Where the loop that counts is after k options that were received whole.
Counted(ends, B, k) == [bpos |-> ends[k], count |-> k, buffer |-> B]

\* The loop counts the options received whole one by one.
LEMMA CountsOneByOne ==
  ASSUME NEW m, NEW ends, NEW W, NEW n, NEW B, IsReception(m, ends, W, n, B),
         NEW M, AreWhole(m, ends, n, M), NEW junk, NEW k \in 1..M
  PROVE  /\ ~CountEnds(Counted(ends, B, k - 1), n)
         /\ CountOption(Counted(ends, B, k - 1), n, junk) = Counted(ends, B, k)
  <1>. DEFINE os == m.options
              N == Len(os)
              p == ends[k - 1]
              s == OptionSize(os, k)
              c == k - 1
              w == [bpos |-> p, count |-> c, buffer |-> B]
  <1>1. /\ N \in Nat /\ n \in Nat /\ IsReceived(B, W, n) /\ IsOptions(os) /\ ShortOptions(os)
        /\ \A i \in 0..N : ends[i] \in Nat
        /\ \A i \in 1..N : ends[i] = ends[i - 1] + OptionSize(os, i)
                             /\ HoldsOption(W, ends[i - 1], os, i)
    BY ReceptionFacts
  <1>2. M \in 0..N /\ \A i \in 0..M : ends[i] <= n
    BY DEF AreWhole
  <1>3. /\ k \in 1..N /\ k - 1 \in 0..N /\ c + 1 = k
        /\ p \in Nat /\ ends[k] = p + s /\ ends[k] <= n /\ HoldsOption(W, p, os, k)
    <2>1. k \in 1..N /\ k - 1 \in 0..N /\ k \in 0..M /\ c + 1 = k
      BY <1>1, <1>2
    <2>. QED  BY <1>1, <1>2, <2>1
  <1>4. p < n
    <2>1. OptionSize(os, k) \in Nat \ {0}
      BY <1>1, <1>3, OptionNotEmpty
    <2>. HIDE DEF p, s
    <2>. QED  BY <1>1, <1>3, <2>1 DEF s
  <1>. HIDE DEF os, N, p, c
  <1>5. /\ ~CountEnds(w, n)
        /\ p + s <= n => CountOption(w, n, junk) = [bpos |-> p + s, count |-> c + 1, buffer |-> B]
    <2>1. IsHeld(os, k, W, p, n, B)
      BY <1>1, <1>3, <1>4 DEF IsHeld, N
    <2>2. Passes(os, k, p, n, B, junk, c)
      BY <2>1, CountsOption
    <2>. QED  BY <2>2 DEF Passes
  <1>6. w = Counted(ends, B, k - 1)
    BY DEF Counted, p, c
  <1>. HIDE DEF w
  <1>. QED  BY <1>3, <1>5, <1>6 DEF Counted

\* Behind the options received whole the loop ends at once, at the payload marker or at the end of
\* the datagram, or with the next turn, past the end and with nothing counted.
LEMMA CountsToTheEnd ==
  ASSUME NEW m, NEW ends, NEW W, NEW n, NEW B, IsReception(m, ends, W, n, B),
         NEW M, AreWhole(m, ends, n, M), NEW junk
  PROVE  \E F : /\ CountEnds(F, n) /\ F.count = Found(m, ends, n, M) /\ F.buffer = B
                /\ \/ F = Counted(ends, B, M)
                   \/ ~CountEnds(Counted(ends, B, M), n)
                /\ F = CountOption(Counted(ends, B, M), n, junk)
  <1>. DEFINE os == m.options
              N == Len(os)
              w == Counted(ends, B, M)
  <1>1. /\ N \in Nat /\ n \in Nat /\ IsReceived(B, W, n) /\ IsOptions(os) /\ ShortOptions(os)
        /\ \A i \in 0..N : ends[i] \in Nat
        /\ \A i \in 1..N : ends[i] = ends[i - 1] + OptionSize(os, i)
                             /\ HoldsOption(W, ends[i - 1], os, i)
    BY ReceptionFacts
  <1>2. M \in 0..N /\ (M = N \/ ends[M + 1] > n) /\ ends[M] <= n /\ ends[M] \in Nat
    <2>1. M \in 0..N /\ (M = N \/ ends[M + 1] > n) /\ \A i \in 0..M : ends[i] <= n
      BY DEF AreWhole
    <2>2. M \in 0..M
      BY <2>1
    <2>. QED  BY <1>1, <2>1, <2>2
  <1>3. w.bpos = ends[M] /\ w.count = M /\ w.buffer = B
    BY DEF Counted
  <1>4. CASE M = N \/ ends[M] = n
    <2>1. CountEnds(w, n)
      <3>1. CASE ends[M] = n
        BY <1>1, <1>3, <3>1 DEF CountEnds
      <3>2. CASE ends[M] # n /\ M = N
        <4>1. IsLayout(m, ends, W) /\ n <= Len(W)
          BY DEF IsReception
        <4>2. /\ Len(W) = ends[M] + (IF m.payload = <<>> THEN 0 ELSE 1 + Len(m.payload))
              /\ m.payload # <<>> => W[ends[M] + 1] = 255
          BY <3>2, <4>1 DEF IsLayout
        <4>3. ends[M] < n
          BY <1>1, <1>2, <3>2
        <4>4. m.payload # <<>>
          BY <1>1, <1>2, <4>1, <4>2, <4>3
        <4>5. ends[M] + 1 \in 1..n
          BY <1>1, <1>2, <4>3
        <4>6. B[ends[M] + 1] = 255
          BY <4>2, <4>4, <4>5 DEF IsReceived, IsReception
        <4>. QED  BY <1>3, <4>6 DEF CountEnds, At
      <3>. QED  BY <1>4, <3>1, <3>2
    <2>2. CountOption(w, n, junk) = w
      BY <2>1 DEF CountOption
    <2>3. w.count = Found(m, ends, n, M)
      BY <1>3, <1>4 DEF Found
    <2>. QED  BY <1>3, <2>1, <2>2, <2>3
  <1>5. CASE ~(M = N \/ ends[M] = n)
    <2>. DEFINE p == ends[M]
                k == M + 1
                s == OptionSize(os, k)
    <2>1. /\ k \in 1..N /\ k - 1 = M /\ p \in Nat /\ p < n
          /\ ends[k] = p + s /\ p + s > n /\ HoldsOption(W, p, os, k)
      <3>1. k \in 1..N /\ k - 1 = M /\ ends[k] > n /\ p < n
        BY <1>1, <1>2, <1>5
      <3>2. ends[k] = p + s /\ HoldsOption(W, p, os, k)
        BY <1>1, <3>1
      <3>. QED  BY <1>2, <3>1, <3>2
    <2>2. w = [bpos |-> p, count |-> M, buffer |-> B]
      BY DEF Counted
    <2>. HIDE DEF p, k, w
    <2>3. /\ ~CountEnds(w, n)
          /\ p + s > n => \E q \in Nat :
               q > n /\ CountOption(w, n, junk) = [bpos |-> q, count |-> 0, buffer |-> B]
      <3>. HIDE DEF os, s
      <3>1. IsHeld(os, k, W, p, n, B)
        BY <1>1, <2>1 DEF IsHeld, N
      <3>2. Passes(os, k, p, n, B, junk, M)
        BY <3>1, CountsOption
      <3>. QED  BY <2>2, <3>2 DEF Passes, s
    <2>4. PICK q \in Nat :
            q > n /\ CountOption(w, n, junk) = [bpos |-> q, count |-> 0, buffer |-> B]
      BY <2>1, <2>3
    <2>. DEFINE F == [bpos |-> q, count |-> 0, buffer |-> B]
    <2>5. F.bpos = q /\ F.count = 0 /\ F.buffer = B /\ q >= n
      BY <1>1, <2>4
    <2>6. CountEnds(F, n) /\ F = CountOption(w, n, junk)
      BY <2>4, <2>5 DEF CountEnds
    <2>7. F.count = Found(m, ends, n, M)
      BY <1>5, <2>5 DEF Found
    <2>. HIDE DEF F
    <2>. QED  BY <2>3, <2>5, <2>6, <2>7 DEF w
  <1>. QED  BY <1>4, <1>5

\* The receiver counts the options that it received whole, or, when the datagram ends in an
\* option, none.
LEMMA CountsWhole ==
  ASSUME NEW m, NEW ends, NEW W, NEW n, NEW B, IsReception(m, ends, W, n, B),
         NEW M, AreWhole(m, ends, n, M), NEW junk
  PROVE  /\ CountOptions(B, n, ends[0], junk).count = Found(m, ends, n, M)
         /\ CountOptions(B, n, ends[0], junk).buffer = B
  <1>. DEFINE first == [bpos |-> ends[0], count |-> 0, buffer |-> B]
              P(h) == h = [k \in 0..n |->
                             IF k = 0 THEN first ELSE CountOption(h[k - 1], n, junk)]
              walk == CHOOSE h : P(h)
              last == CHOOSE k \in 0..n : CountEnds(walk[k], n)
  <1>1. CountOptions(B, n, ends[0], junk) = walk[last]
    BY DEF CountOptions
  <1>2. n \in Nat /\ M \in Nat /\ M + 1 <= n
    <2>1. /\ M \in 0..Len(m.options) /\ \A i \in 0..M : ends[i] <= n
          /\ Len(m.options) \in Nat /\ n \in Nat /\ \A i \in 0..Len(m.options) : ends[i] \in Nat
      BY ReceptionFacts DEF AreWhole
    <2>2. M + 4 <= ends[M] /\ ends[M] <= n /\ ends[M] \in Nat
      <3>1. M \in 0..M
        BY <2>1
      <3>. QED  BY <2>1, <3>1, EndsGrow
    <2>. DEFINE e == ends[M]
    <2>3. M + 4 <= e /\ e <= n /\ e \in Nat /\ M \in Nat /\ n \in Nat
      BY <2>1, <2>2
    <2>. HIDE DEF e
    <2>. QED  BY <2>3
  <1>. DEFINE at(k) == Counted(ends, B, k)
  <1>3. PICK F : /\ CountEnds(F, n) /\ F.count = Found(m, ends, n, M) /\ F.buffer = B
                 /\ F = at(M) \/ ~CountEnds(at(M), n)
                 /\ F = CountOption(at(M), n, junk)
    BY CountsToTheEnd
  <1>4. ASSUME NEW k \in 1..M
        PROVE  ~CountEnds(at(k - 1), n) /\ CountOption(at(k - 1), n, junk) = at(k)
    BY CountsOneByOne
  <1>5. first = at(0)
    BY DEF Counted
  <1>. HIDE DEF at, first
  <1>. DEFINE g == [k \in 0..n |-> IF k <= M THEN at(k) ELSE F]
  <1>6. ASSUME NEW k \in 0..n
        PROVE  g[k] = IF k = 0 THEN first ELSE CountOption(g[k - 1], n, junk)
    <2>1. CASE k = 0
      BY <1>2, <1>5, <2>1
    <2>2. CASE k # 0 /\ k <= M
      <3>1. k \in 1..M /\ k - 1 \in 0..n /\ k - 1 <= M
        BY <1>2, <2>2
      <3>2. g[k] = at(k) /\ g[k - 1] = at(k - 1)
        BY <2>2, <3>1
      <3>. HIDE DEF g
      <3>. QED  BY <1>4, <2>2, <3>1, <3>2
    <2>3. CASE k = M + 1
      <3>1. k # 0 /\ ~(k <= M) /\ k - 1 = M /\ M \in 0..n /\ M <= M
        BY <1>2, <2>3
      <3>2. g[k] = F /\ g[M] = at(M)
        BY <3>1
      <3>. HIDE DEF g
      <3>. QED  BY <1>3, <3>1, <3>2
    <2>4. CASE k # 0 /\ ~(k <= M) /\ k # M + 1
      <3>1. k - 1 \in 0..n /\ ~(k - 1 <= M)
        BY <1>2, <2>4
      <3>2. g[k] = F /\ g[k - 1] = F
        BY <2>4, <3>1
      <3>3. CountOption(F, n, junk) = F
        BY <1>3 DEF CountOption
      <3>. HIDE DEF g
      <3>. QED  BY <2>4, <3>2, <3>3
    <2>. QED  BY <2>1, <2>2, <2>3, <2>4
  <1>7. P(g)
    <2>. HIDE DEF first
    <2>1. g = [k \in 0..n |-> g[k]]
      OBVIOUS
    <2>. HIDE DEF g
    <2>. QED  BY <1>6, <2>1
  <1>8. P(walk)
    <2>. HIDE DEF P, g
    <2>. QED  BY <1>7
  <1>9. \A k \in 0..n : walk[k] = IF k = 0 THEN first ELSE CountOption(walk[k - 1], n, junk)
    <2>. HIDE DEF walk
    <2>. QED  BY <1>8
  <1>10. \A k \in 0..n : walk[k] = g[k]
    <2>. HIDE DEF walk, g, P
    <2>1. GoAlike(walk, g, n)
      <3>1. 0 \in 0..n /\ \A k \in 1..n : k \in 0..n /\ k # 0
        BY <1>2
      <3>. QED  BY <1>6, <1>9, <3>1 DEF GoAlike
    <2>. QED  BY <1>2, <2>1, RecursionsAgree DEF Alike
  <1>11. last \in 0..n /\ CountEnds(walk[last], n)
    <2>1. M + 1 \in 0..n /\ ~(M + 1 <= M)
      BY <1>2
    <2>2. g[M + 1] = F
      BY <2>1
    <2>. HIDE DEF walk, g
    <2>. QED  BY <1>3, <1>10, <2>1, <2>2
  <1>. HIDE DEF walk, last
  <1>12. ASSUME NEW k \in 0..n, CountEnds(g[k], n) PROVE g[k] = F
    <2>1. CASE ~(k <= M)
      BY <2>1
    <2>2. CASE k = M
      BY <1>2, <1>3, <1>12, <2>2
    <2>3. CASE k <= M /\ k # M
      <3>1. k + 1 \in 1..M /\ (k + 1) - 1 = k
        BY <1>2, <2>3
      <3>2. ~CountEnds(at(k), n)
        BY <1>4, <3>1
      <3>. QED  BY <1>12, <2>3, <3>2
    <2>. QED  BY <2>1, <2>2, <2>3
  <1>. HIDE DEF g
  <1>. QED  BY <1>1, <1>3, <1>10, <1>11, <1>12

\* The options that are read are the first ones of the message.
LEMMA OptionsRead ==
  ASSUME NEW m, NEW ends, NEW W, NEW n, NEW B, IsReception(m, ends, W, n, B),
         NEW M, AreWhole(m, ends, n, M), NEW junk
  PROVE  LET c == Found(m, ends, n, M)
         IN  /\ ReadOptions(B, n, ends[0], junk).bpos = ends[c]
             /\ ReadOptions(B, n, ends[0], junk).options = SubSeq(m.options, 1, c)
  <1>. DEFINE os == m.options
              N == Len(os)
              c == Found(m, ends, n, M)
              first == [bpos |-> ends[0], prevnum |-> 0, buffer |-> B, options |-> <<>>]
              P(h) == h = [k \in 0..c |-> IF k = 0 THEN first ELSE ReadOption(h[k - 1], n, junk)]
              read == CHOOSE h : P(h)
              at(k) == [bpos |-> ends[k], prevnum |-> PrevNum(os, k + 1), buffer |-> B,
                        options |-> SubSeq(os, 1, k)]
              g == [k \in 0..c |-> at(k)]
  <1>1. /\ N \in Nat /\ n \in Nat /\ IsReceived(B, W, n) /\ IsOptions(os) /\ ShortOptions(os)
        /\ 4 <= ends[0] /\ ends[0] <= n
        /\ \A i \in 0..N : ends[i] \in Nat
        /\ \A i \in 1..N : ends[i] = ends[i - 1] + OptionSize(os, i)
                             /\ HoldsOption(W, ends[i - 1], os, i)
    BY ReceptionFacts
  <1>2. M \in 0..N /\ c \in 0..M /\ \A i \in 0..M : ends[i] <= n
    BY <1>1 DEF AreWhole, Found
  <1>3. ReadOptions(B, n, ends[0], junk) = read[c]
    <2>1. ~(n < 4)
      <3>. DEFINE e == ends[0]
      <3>1. 4 <= e /\ e <= n /\ e \in Nat
        BY <1>1
      <3>. HIDE DEF e
      <3>. QED  BY <1>1, <3>1
    <2>. DEFINE co == CountOptions(B, n, ends[0], junk)
                C == IF n < 4 THEN [count |-> 0, buffer |-> B] ELSE co
                Q(h) == h = [k \in 0..C.count |->
                               IF k = 0 THEN [bpos |-> ends[0], prevnum |-> 0,
                                              buffer |-> C.buffer, options |-> <<>>]
                                        ELSE ReadOption(h[k - 1], n, junk)]
    <2>2. ReadOptions(B, n, ends[0], junk) = (CHOOSE h : Q(h))[C.count]
      BY DEF ReadOptions
    <2>3. C.count = c /\ C.buffer = B
      BY <2>1, CountsWhole
    <2>. HIDE DEF C, c
    <2>. QED  BY <2>2, <2>3
  <1>. HIDE DEF os, N, c, first
  <1>4. first = at(0)
    <2>1. PrevNum(os, 0 + 1) = 0 /\ SubSeq(os, 1, 0) = <<>>
      BY <1>1 DEF PrevNum, IsOptions
    <2>. QED  BY <2>1 DEF first
  <1>5. ASSUME NEW k \in 1..c PROVE ReadOption(at(k - 1), n, junk) = at(k)
    <2>1. k \in 1..N /\ k \in 0..M /\ k - 1 \in 0..N /\ (k - 1) + 1 = k
      BY <1>1, <1>2
    <2>. DEFINE p == ends[k - 1]
                s == OptionSize(os, k)
    <2>2. /\ p \in Nat /\ ends[k] = p + s /\ p + s <= n /\ HoldsOption(W, p, os, k)
      BY <1>1, <1>2, <2>1
    <2>3. p < n
      <3>1. s \in Nat \ {0}
        BY <1>1, <2>1, OptionNotEmpty DEF N
      <3>. HIDE DEF p, s
      <3>. QED  BY <1>1, <2>2, <3>1
    <2>4. PrevNum(os, k + 1) = os[k].num
      BY <1>1, <2>1 DEF PrevNum
    <2>5. ReadOption([bpos |-> p, prevnum |-> PrevNum(os, k), buffer |-> B,
                      options |-> SubSeq(os, 1, k - 1)], n, junk)
            = [bpos |-> p + s, prevnum |-> os[k].num, buffer |-> B, options |-> SubSeq(os, 1, k)]
      <3>. HIDE DEF p
      <3>1. IsHeld(os, k, W, p, n, B)
        BY <1>1, <2>1, <2>2, <2>3 DEF IsHeld, N
      <3>2. Reads(os, k, p, n, B, junk)
        BY <2>2, <3>1, ReadsOption
      <3>. QED  BY <3>2 DEF Reads
    <2>. QED  BY <2>1, <2>2, <2>4, <2>5
  <1>. HIDE DEF at
  <1>6. ASSUME NEW k \in 0..c
        PROVE  g[k] = IF k = 0 THEN first ELSE ReadOption(g[k - 1], n, junk)
    <2>1. CASE k = 0
      BY <1>4, <2>1
    <2>2. CASE k # 0
      <3>1. k \in 1..c /\ k - 1 \in 0..c
        BY <1>1, <1>2, <2>2
      <3>2. g[k] = at(k) /\ g[k - 1] = at(k - 1)
        BY <3>1
      <3>. HIDE DEF g
      <3>. QED  BY <1>5, <2>2, <3>1, <3>2
    <2>. QED  BY <2>1, <2>2
  <1>7. P(read)
    <2>1. P(g)
      <3>1. g = [k \in 0..c |-> g[k]]
        OBVIOUS
      <3>. HIDE DEF g
      <3>. QED  BY <1>6, <3>1
    <2>. HIDE DEF P, g
    <2>. QED  BY <2>1
  <1>8. \A k \in 0..c : read[k] = IF k = 0 THEN first ELSE ReadOption(read[k - 1], n, junk)
    <2>. HIDE DEF read
    <2>. QED  BY <1>7
  <1>9. read[c] = at(c)
    <2>1. c \in Nat
      BY <1>1, <1>2
    <2>2. GoAlike(read, g, c)
      <3>. HIDE DEF read, g, P
      <3>1. 0 \in 0..c /\ \A k \in 1..c : k \in 0..c /\ k # 0
        BY <2>1
      <3>. QED  BY <1>6, <1>8, <3>1 DEF GoAlike
    <2>3. c \in 0..c
      BY <2>1
    <2>4. g[c] = at(c)
      BY <2>3
    <2>. HIDE DEF read, g, P
    <2>. QED  BY <2>1, <2>2, <2>3, <2>4, RecursionsAgree DEF Alike
  <1>. HIDE DEF read
  <1>10. at(c).bpos = ends[c] /\ at(c).options = SubSeq(os, 1, c)
    BY DEF at
  <1>11. /\ ReadOptions(B, n, ends[0], junk).bpos = ends[c]
         /\ ReadOptions(B, n, ends[0], junk).options = SubSeq(os, 1, c)
    BY <1>3, <1>9, <1>10
  <1>. QED  BY <1>11 DEF c, os

-----------------------------------------------------------------------------
(* Sorting.                                                                *)

\* p says where the options in a sorted list come from.
Sorts(p, os, list) ==
  LET n == Len(os)
  IN  /\ p \in Bijection(1..n, 1..n) /\ p \in [1..n -> 1..n]
      /\ \A i, j \in 1..n : p[i] = p[j] => i = j
      /\ \A k \in 1..n : \E i \in 1..n : p[i] = k
      /\ list = [i \in 1..n |-> os[p[i]]]
      /\ \A i, j \in 1..n : i < j =>
           /\ list[i].num <= list[j].num
           /\ stable /\ list[i].num = list[j].num => p[i] < p[j]

LEMMA SortedBy ==
  ASSUME NEW os, Len(os) \in Nat, NEW list \in OptionsSort(os)
  PROVE  \E p : Sorts(p, os, list)
  <1>. DEFINE n == Len(os)
              IsSort(p) == \A i, j \in 1..n : i < j =>
                             /\ os[p[i]].num <= os[p[j]].num
                             /\ stable /\ os[p[i]].num = os[p[j]].num => p[i] < p[j]
              A == Permutations(1..n) \cap Bijection(1..n, 1..n)
  <1>1. PICK p \in {q \in A : IsSort(q)} : list = [i \in 1..n |-> os[p[i]]]
    BY DEF OptionsSort
  <1>2. p \in Bijection(1..n, 1..n) /\ IsSort(p)
    <2>. HIDE DEF IsSort
    <2>. QED  BY <1>1
  <1>3. /\ p \in [1..n -> 1..n]
        /\ \A i, j \in 1..n : p[i] = p[j] => i = j
        /\ \A k \in 1..n : \E i \in 1..n : p[i] = k
    BY <1>2 DEF Bijection, Injection, Surjection, IsInjective
  <1>4. \A i \in 1..n : list[i] = os[p[i]]
    BY <1>1
  <1>5. ASSUME NEW i \in 1..n, NEW j \in 1..n, i < j
        PROVE  /\ list[i].num <= list[j].num
               /\ stable /\ list[i].num = list[j].num => p[i] < p[j]
    BY <1>2, <1>4, <1>5
  <1>. HIDE DEF n
  <1>6. Sorts(p, os, list)
    BY <1>1, <1>2, <1>3, <1>5 DEF Sorts, n
  <1>. QED  BY <1>6

\* Sorted options are options still.
LEMMA SortedAreOptions ==
  ASSUME NEW os \in Seq(OptionSet), \A i \in DOMAIN os : Len(os[i].value) \in UInt16,
         NEW sorted \in OptionsSort(os)
  PROVE  IsOptions(sorted)
  <1>. DEFINE n == Len(os)
  <1>1. n \in Nat /\ DOMAIN os = 1..n
    OBVIOUS
  <1>2. PICK p : Sorts(p, os, sorted)
    BY <1>1, SortedBy
  <1>3. /\ p \in [1..n -> 1..n] /\ sorted = [i \in 1..n |-> os[p[i]]]
        /\ \A i, j \in 1..n : i < j => sorted[i].num <= sorted[j].num
    BY <1>2 DEF Sorts
  <1>4. \A j \in 1..n : os[j] \in OptionSet /\ Len(os[j].value) \in UInt16
    BY <1>1
  <1>. HIDE DEF n
  <1>5. ASSUME NEW i \in 1..n PROVE sorted[i] \in OptionSet /\ Len(sorted[i].value) \in UInt16
    <2>1. p[i] \in 1..n /\ sorted[i] = os[p[i]]
      BY <1>3
    <2>. QED  BY <1>4, <2>1
  <1>6. sorted \in [1..n -> OptionSet]
    BY <1>3, <1>5
  <1>7. sorted \in Seq(OptionSet) /\ Len(sorted) = n /\ DOMAIN sorted = 1..n
    BY <1>1, <1>6
  <1>. QED  BY <1>3, <1>5, <1>7 DEF IsOptions

\* The number in each place of an ascending list stays when the list is sorted.
LEMMA NumbersStay ==
  ASSUME NEW os, IsOptions(os), NEW list, NEW p, Sorts(p, os, list), NEW i \in 1..Len(os)
  PROVE  list[i].num = os[i].num
  <1>. DEFINE n == Len(os)
  <1>1. /\ n \in Nat /\ \A j \in 1..n : os[j].num \in Int
        /\ \A j, k \in 1..n : j < k => os[j].num <= os[k].num
    <2>1. os \in Seq(OptionSet)
      BY DEF IsOptions
    <2>2. \A j \in 1..n : os[j] \in OptionSet
      BY <2>1
    <2>3. \A j \in 1..n : os[j].num \in UInt16
      BY <2>2 DEF OptionSet
    <2>4. \A j \in 1..n : os[j].num \in Int
      BY <2>3, Bounds
    <2>. QED  BY <2>1, <2>4 DEF IsOptions
  <1>2. /\ p \in [1..n -> 1..n] /\ \A j, k \in 1..n : p[j] = p[k] => j = k
        /\ \A j \in 1..n : list[j] = os[p[j]]
        /\ \A j, k \in 1..n : j < k => list[j].num <= list[k].num
    BY DEF Sorts
  <1>. HIDE DEF n
  <1>3. \A j \in 1..n : list[j].num \in Int /\ p[j] \in 1..n /\ list[j].num = os[p[j]].num
    BY <1>1, <1>2
  <1>4. i \in 1..n
    BY DEF n
  <1>5. ASSUME list[i].num < os[i].num PROVE FALSE
    <2>. DEFINE f == [j \in 1..i |-> p[j]]
    <2>1. ASSUME NEW j \in 1..i PROVE p[j] \in 1..(i - 1)
      <3>1. j \in 1..n /\ (j = i \/ j < i)
        BY <1>1, <1>4
      <3>2. list[j].num <= list[i].num
        BY <1>2, <1>3, <1>4, <3>1
      <3>a. list[j].num < os[i].num
        <4>1. list[j].num \in Int /\ list[i].num \in Int /\ os[i].num \in Int
          BY <1>1, <1>3, <1>4, <3>1
        <4>. QED  BY <1>5, <3>2, <4>1
      <3>3. os[p[j]].num < os[i].num
        BY <1>3, <3>1, <3>a
      <3>4. p[j] \in 1..n /\ p[j] # i /\ ~(i < p[j])
        BY <1>1, <1>3, <1>4, <3>1, <3>3
      <3>. QED  BY <1>1, <1>4, <3>4
    <2>2. f \in [1..i -> 1..(i - 1)]
      BY <2>1
    <2>3. /\ IsFiniteSet(1..i) /\ IsFiniteSet(1..(i - 1))
          /\ Cardinality(1..(i - 1)) < Cardinality(1..i)
      <3>1. i \in Int /\ i - 1 \in Int /\ ~(1 > i)
        BY <1>1, <1>4
      <3>2. Cardinality(1..i) = i
        BY <3>1, FS_Interval
      <3>3. Cardinality(1..(i - 1)) = IF 1 > i - 1 THEN 0 ELSE i - 1
        BY <3>1, FS_Interval
      <3>4. Cardinality(1..(i - 1)) < Cardinality(1..i)
        BY <3>1, <3>2, <3>3
      <3>. QED  BY <3>1, <3>4, FS_Interval
    <2>. HIDE DEF f
    <2>4. \E x, y \in 1..i : x # y /\ f[x] = f[y]
      BY <2>2, <2>3, FS_PigeonHole
    <2>5. \A x \in 1..i : x \in 1..n
      BY <1>1, <1>4
    <2>. QED  BY <1>2, <2>4, <2>5 DEF f
  <1>6. ASSUME os[i].num < list[i].num PROVE FALSE
    <2>. DEFINE f == [j \in i..n |-> p[j]]
    <2>1. ASSUME NEW j \in i..n PROVE p[j] \in (i + 1)..n
      <3>1. j \in 1..n /\ (j = i \/ i < j)
        BY <1>1, <1>4
      <3>2. list[i].num <= list[j].num
        BY <1>2, <1>3, <1>4, <3>1
      <3>a. os[i].num < list[j].num
        <4>1. list[j].num \in Int /\ list[i].num \in Int /\ os[i].num \in Int
          BY <1>1, <1>3, <1>4, <3>1
        <4>. QED  BY <1>6, <3>2, <4>1
      <3>3. os[i].num < os[p[j]].num
        BY <1>3, <3>1, <3>a
      <3>4. p[j] \in 1..n /\ p[j] # i /\ ~(p[j] < i)
        BY <1>1, <1>3, <1>4, <3>1, <3>3
      <3>. QED  BY <1>1, <1>4, <3>4
    <2>2. f \in [i..n -> (i + 1)..n]
      BY <2>1
    <2>3. /\ IsFiniteSet(i..n) /\ IsFiniteSet((i + 1)..n)
          /\ Cardinality((i + 1)..n) < Cardinality(i..n)
      <3>1. i \in Int /\ i + 1 \in Int /\ n \in Int /\ ~(i > n)
        BY <1>1, <1>4
      <3>2. Cardinality(i..n) = n - i + 1
        BY <3>1, FS_Interval
      <3>3. Cardinality((i + 1)..n) = IF i + 1 > n THEN 0 ELSE n - (i + 1) + 1
        BY <3>1, FS_Interval
      <3>4. Cardinality((i + 1)..n) < Cardinality(i..n)
        BY <3>1, <3>2, <3>3
      <3>. QED  BY <3>1, <3>4, FS_Interval
    <2>. HIDE DEF f
    <2>4. \E x, y \in i..n : x # y /\ f[x] = f[y]
      BY <2>2, <2>3, FS_PigeonHole
    <2>5. \A x \in i..n : x \in 1..n
      BY <1>1, <1>4
    <2>. QED  BY <1>2, <2>4, <2>5 DEF f
  <1>. QED  BY <1>1, <1>3, <1>4, <1>5, <1>6

\* Options sorted once more: those of equal number may change places, unless qsort leaves
\* them alone.
LEMMA Resorted ==
  ASSUME NEW os, IsOptions(os), NEW list \in OptionsSort(os)
  PROVE  /\ list \in Seq(OptionSet) /\ SameButForTies(list, os)
         /\ stable => list = os
  <1>. DEFINE n == Len(os)
  <1>1. os \in Seq(OptionSet) /\ n \in Nat /\ DOMAIN os = 1..n
    BY DEF IsOptions
  <1>2. PICK p : Sorts(p, os, list)
    BY <1>1, SortedBy
  <1>3. /\ p \in Bijection(1..n, 1..n) /\ p \in [1..n -> 1..n]
        /\ \A j, k \in 1..n : p[j] = p[k] => j = k
        /\ \A k \in 1..n : \E j \in 1..n : p[j] = k
        /\ list = [i \in 1..n |-> os[p[i]]]
        /\ \A i, j \in 1..n : i < j => (stable /\ list[i].num = list[j].num => p[i] < p[j])
    BY <1>2 DEF Sorts
  <1>4. \A i \in 1..n : list[i].num = os[i].num
    BY <1>2, NumbersStay
  <1>5. list \in Seq(OptionSet)
    <2>a. \A j \in 1..n : os[j] \in OptionSet
      BY <1>1
    <2>. HIDE DEF n
    <2>b. \A i \in 1..n : p[i] \in 1..n
      BY <1>3
    <2>1. \A i \in 1..n : os[p[i]] \in OptionSet
      BY <2>a, <2>b
    <2>2. list \in [1..n -> OptionSet]
      BY <1>3, <2>1
    <2>. QED  BY <1>1, <2>2
  <1>6. SameButForTies(list, os)
    BY <1>1, <1>3, <1>4 DEF SameButForTies
  <1>7. ASSUME stable PROVE list = os
    <2>a. \A i \in 1..n : os[i] \in OptionSet
      BY <1>1
    <2>. HIDE DEF n
    <2>1. \A i, j \in 1..n : i < j => os[i].num <= os[j].num
      BY DEF IsOptions, n
    <2>b. \A i \in 1..n : os[i].num \in UInt16
      BY <2>a DEF OptionSet
    <2>2. \A i \in 1..n : os[i].num \in Int
      BY <2>b, Bounds
    <2>3. \A i \in 1..n : p[i] \in 1..n /\ list[i] = os[p[i]]
      BY <1>3
    <2>4. ASSUME NEW i \in 1..n, NEW j \in 1..n, i < j PROVE p[i] < p[j]
      <3>1. p[i] \in 1..n /\ p[j] \in 1..n /\ p[i] # p[j]
        BY <1>1, <1>3, <2>4
      <3>2. ASSUME p[j] < p[i] PROVE FALSE
        <4>1. os[p[j]].num <= os[p[i]].num
          BY <2>1, <3>1, <3>2
        <4>2. list[j].num <= list[i].num
          BY <2>3, <4>1
        <4>3. os[j].num <= os[i].num /\ os[i].num <= os[j].num
          BY <1>4, <2>1, <2>4, <4>2
        <4>4. list[i].num = list[j].num
          BY <1>4, <2>2, <4>3
        <4>5. p[i] < p[j]
          BY <1>3, <1>7, <2>4, <4>4
        <4>. QED  BY <1>1, <3>1, <3>2, <4>5
      <3>. QED  BY <1>1, <3>1, <3>2
    <2>. DEFINE id == [i \in 1..n |-> i]
                T == 1..n
    <2>5. Enumerates(p, n, T)
      BY <1>1, <1>3, <2>3, <2>4 DEF Enumerates
    <2>6. Enumerates(id, n, T)
      BY <1>1 DEF Enumerates
    <2>c. T \in SUBSET Int
      BY <1>1
    <2>7. \A i \in 1..n : p[i] = id[i]
      <3>. HIDE DEF id, T
      <3>1. SameCount(p, n, id, n)
        BY <2>5, <2>6, <2>c, EnumeratedOnce
      <3>. QED  BY <3>1 DEF SameCount
    <2>8. \A i \in 1..n : list[i] = os[i]
      BY <2>3, <2>7 DEF id
    <2>9. list \in Seq(OptionSet) /\ DOMAIN list = 1..n
      BY <1>3, <1>5
    <2>. QED  BY <1>1, <2>8, <2>9
  <1>. QED  BY <1>5, <1>6, <1>7

-----------------------------------------------------------------------------
(* What the receiver makes of a datagram.                                  *)

\* The message with a list of options and the payload found behind them.
Beginning(m, datagram, list, bpos) ==
  [version |-> m.version, type |-> m.type, code |-> m.code, id |-> m.id, token |-> m.token,
   options |-> list, payload |-> PayloadFrom(datagram, bpos)]

\* The first n bytes of a sequence.
LEMMA FirstBytes ==
  \A S, s, n : s \in Seq(S) /\ n \in Nat /\ n <= Len(s) =>
    /\ SubSeq(s, 1, n) \in Seq(S) /\ Len(SubSeq(s, 1, n)) = n
    /\ \A j \in 1..n : SubSeq(s, 1, n)[j] = s[j]
  <1>1. ASSUME NEW S, NEW s \in Seq(S), NEW n \in Nat, n <= Len(s)
        PROVE  /\ SubSeq(s, 1, n) \in Seq(S) /\ Len(SubSeq(s, 1, n)) = n
               /\ \A j \in 1..n : SubSeq(s, 1, n)[j] = s[j]
    BY <1>1
  <1>. QED  BY <1>1

\* With zeros behind it a datagram is what the two walks are made over.
LEMMA PaddedIsReceived ==
  ASSUME NEW W \in Seq(Byte), NEW n \in Nat, n <= Len(W)
  PROVE  IsReceived(SubSeq(W, 1, n) \o <<0, 0, 0, 0>>, W, n)
  <1>. DEFINE D == SubSeq(W, 1, n)
              z == <<0, 0, 0, 0>>
              B == D \o z
  <1>1. D \in Seq(Byte) /\ Len(D) = n /\ \A j \in 1..n : D[j] = W[j]
    BY FirstBytes
  <1>2. z \in Seq(Byte) /\ Len(z) = 4 /\ \A j \in 1..4 : z[j] = 0
    <2>1. 0 \in Byte
      BY Bounds
    <2>. QED  BY <2>1
  <1>. HIDE DEF D, z
  <1>3. B \in Seq(Byte) /\ Follows(D, z, B)
    BY <1>1, <1>2, JoinedTwo
  <1>. HIDE DEF B
  <1>4. /\ Len(B) = n + 4 /\ \A j \in 1..n : B[j] = W[j]
        /\ \A j \in 1..4 : B[n + j] = 0
    BY <1>1, <1>2, <1>3 DEF Follows
  <1>5. ASSUME NEW j \in (n + 1)..(n + 4) PROVE B[j] = 0
    <2>1. j - n \in 1..4 /\ n + (j - n) = j
      OBVIOUS
    <2>. QED  BY <1>4, <2>1
  <1>6. IsReceived(B, W, n)
    BY <1>3, <1>4, <1>5 DEF IsReceived
  <1>. QED  BY <1>6 DEF B, D, z

\* The receiver reads the fields of the header, the token and the first options, which it sorts,
\* and refuses the datagram only when it finds no payload marker behind them.
AsRead(m, D, n, c, bpos, r) ==
  LET marked == n - bpos > 1 => At(D, bpos) = 255
  IN  /\ marked => \E list \in OptionsSort(SubSeq(m.options, 1, c)) : r = Beginning(m, D, list, bpos)
      /\ ~marked => r = Refused

LEMMA ReadsDatagram ==
  ASSUME NEW m, NEW ends, NEW W, NEW n, NEW junk,
         IsReception(m, ends, W, n, SubSeq(W, 1, n) \o <<0, 0, 0, 0>>),
         NEW M, AreWhole(m, ends, n, M), NEW r \in FromBuffer(SubSeq(W, 1, n), junk)
  PROVE  LET c == Found(m, ends, n, M)
         IN  /\ c \in 0..Len(m.options) /\ ends[c] \in Nat /\ ends[c] <= n
             /\ AsRead(m, SubSeq(W, 1, n), n, c, ends[c], r)
  <1>. DEFINE D == SubSeq(W, 1, n)
              B == D \o <<0, 0, 0, 0>>
              c == Found(m, ends, n, M)
              h == HeaderFields(D)
              t == Len(m.token)
              found == ReadOptions(B, n, 4 + t, junk)
  <1>1. IsMessage(m) /\ IsLayout(m, ends, W) /\ n \in Nat /\ ends[0] <= n /\ n <= Len(W)
    BY DEF IsReception
  <1>2. W \in Seq(Byte) /\ ends[0] = 4 + t /\ 4 <= ends[0] /\ Len(m.options) \in Nat
        /\ \A i \in 0..Len(m.options) : ends[i] \in Nat
    BY <1>1, ReceptionFacts DEF IsLayout
  <1>3. D \in Seq(Byte) /\ Len(D) = n /\ \A j \in 1..n : D[j] = W[j]
    BY <1>1, <1>2, FirstBytes
  <1>4. c \in 0..Len(m.options) /\ ends[c] \in Nat /\ ends[c] <= n
    <2>1. M \in 0..Len(m.options) /\ \A i \in 0..M : ends[i] <= n
      BY DEF AreWhole
    <2>2. c \in 0..M
      BY <1>2, <2>1 DEF Found
    <2>. HIDE DEF c
    <2>. QED  BY <1>2, <2>1, <2>2
  <1>5. h = [version |-> m.version, type |-> m.type, tklen |-> t, code |-> m.code, id |-> m.id]
    <2>1. \A j \in 1..4 : D[j] = Header(m)[j]
      <3>1. \A j \in 1..4 : W[j] = Header(m)[j]
        BY <1>1 DEF IsLayout
      <3>2. 4 <= n
        <4>. DEFINE e == ends[0]
        <4>1. 4 <= e /\ e <= n /\ e \in Nat
          BY <1>1, <1>2
        <4>. HIDE DEF e
        <4>. QED  BY <1>1, <4>1
      <3>3. \A j \in 1..4 : j \in 1..n
        BY <1>1, <3>2
      <3>. QED  BY <1>3, <3>1, <3>3
    <2>2. h = HeaderFields(Header(m))
      <3>. HIDE DEF D
      <3>1. D[1] = Header(m)[1] /\ D[2] = Header(m)[2] /\ D[3] = Header(m)[3] /\ D[4] = Header(m)[4]
        BY <2>1
      <3>. QED  BY <3>1 DEF HeaderFields
    <2>. QED  BY <1>1, <2>2, HeaderFits
  <1>6. found.bpos = ends[c] /\ found.options = SubSeq(m.options, 1, c)
    <2>1. 4 + t = ends[0]
      BY <1>2
    <2>2. IsReception(m, ends, W, n, B)
      OBVIOUS
    <2>. HIDE DEF B, c, D
    <2>3. /\ ReadOptions(B, n, ends[0], junk).bpos = ends[Found(m, ends, n, M)]
          /\ ReadOptions(B, n, ends[0], junk).options
               = SubSeq(m.options, 1, Found(m, ends, n, M))
      BY <2>2, OptionsRead
    <2>. QED  BY <2>1, <2>3 DEF c
  <1>7. Bytes(D, 4, t) = m.token
    <2>1. m.token \in Seq(Byte) /\ t \in Nat /\ \A j \in 1..t : W[4 + j] = m.token[j]
      BY <1>1, MessageFields DEF IsLayout
    <2>2. 4 + t <= n
      BY <1>1, <1>2
    <2>3. IsCopy(Bytes(D, 4, t), Byte, D, 4, t)
      BY <1>3, <2>1, <2>2, PartHolds DEF IsPart, Bytes
    <2>. DEFINE b == Bytes(D, 4, t)
    <2>4. b \in Seq(Byte) /\ Len(b) = t /\ \A j \in 1..t : b[j] = D[4 + j]
      BY <2>3 DEF IsCopy
    <2>. HIDE DEF b, D
    <2>5. ASSUME NEW j \in 1..t PROVE b[j] = m.token[j]
      <3>1. 4 + j \in 1..n
        BY <1>1, <2>1, <2>2
      <3>. QED  BY <1>3, <2>1, <2>4, <3>1
    <2>6. b = m.token
      BY <2>1, <2>4, <2>5
    <2>. QED  BY <2>6 DEF b
  <1>. DEFINE e == ends[c]
              first == SubSeq(m.options, 1, c)
              Taken(read) ==
                IF read.bpos > n THEN Undefined
                ELSE IF n - read.bpos > 1 /\ At(D, read.bpos) # 255 THEN Refused
                ELSE [version |-> m.version, type |-> m.type, code |-> m.code, id |-> m.id,
                      token |-> Bytes(D, 4, t), options |-> read.options,
                      payload |-> PayloadFrom(D, read.bpos)]
  <1>8. PICK read \in OptionsFrom(B, n, 4 + t, junk) : r = Taken(read)
    <2>1. /\ h.version = m.version /\ h.type = m.type /\ h.code = m.code /\ h.id = m.id
          /\ h.tklen = t
      BY <1>5
    <2>2. PICK read \in OptionsFrom(B, Len(D), 4 + h.tklen, junk) :
            r = IF read.bpos > Len(D) THEN Undefined
                ELSE IF Len(D) - read.bpos > 1 /\ At(D, read.bpos) # 255 THEN Refused
                ELSE [version |-> h.version, type |-> h.type, code |-> h.code, id |-> h.id,
                      token |-> Bytes(D, 4, h.tklen), options |-> read.options,
                      payload |-> PayloadFrom(D, read.bpos)]
      <3>1. r \in FromBuffer(D, junk)
        OBVIOUS
      <3>. HIDE DEF D
      <3>. QED  BY <3>1 DEF FromBuffer
    <2>. HIDE DEF D, t, h, B
    <2>. QED  BY <1>3, <2>1, <2>2
  <1>9. e \in Nat /\ ~(e > n)
    <2>. HIDE DEF c
    <2>. QED  BY <1>1, <1>4
  <1>10. PICK list \in OptionsSort(first) : read = [bpos |-> e, options |-> list]
    <2>1. ~(found.bpos > n)
      <3>. HIDE DEF found, e, c
      <3>. QED  BY <1>6, <1>9 DEF e
    <2>2. \E list \in IF found.bpos > n THEN {<<>>} ELSE OptionsSort(found.options) :
            read = [bpos |-> found.bpos, options |-> list]
      <3>. HIDE DEF Taken, c, e, B, D, t
      <3>. QED  BY <1>8 DEF OptionsFrom
    <2>. HIDE DEF found, c, B, D, t, Taken
    <2>. QED  BY <1>6, <2>1, <2>2
  <1>11. r = IF n - e > 1 /\ At(D, e) # 255 THEN Refused ELSE Beginning(m, D, list, e)
    <2>. HIDE DEF D, c, t, e, found, B, first
    <2>1. read.bpos = e /\ read.options = list
      BY <1>10
    <2>. QED  BY <1>7, <1>8, <1>9, <2>1 DEF Beginning
  <1>. HIDE DEF D, c, t, e, found, B, Taken
  <1>12. AsRead(m, D, n, c, e, r)
    <2>1. list \in OptionsSort(SubSeq(m.options, 1, c))
      BY <1>10
    <2>. QED  BY <1>11, <2>1 DEF AsRead
  <1>. QED  BY <1>4, <1>12 DEF D, c, e

\* The payload is found behind its marker: as much of it as the datagram holds.
LEMMA PayloadRead ==
  ASSUME NEW m, NEW ends, NEW W, IsMessage(m), IsLayout(m, ends, W), NEW n \in Nat, n <= Len(W),
         ends[Len(m.options)] <= n
  PROVE  LET pay == PayloadFrom(SubSeq(W, 1, n), ends[Len(m.options)])
         IN  /\ pay \in Seq(Byte) /\ Len(pay) <= Len(m.payload)
             /\ \A j \in 1..Len(pay) : pay[j] = m.payload[j]
             /\ n = Len(W) => pay = m.payload
             /\ n - ends[Len(m.options)] > 1 => At(SubSeq(W, 1, n), ends[Len(m.options)]) = 255
  <1>. DEFINE D == SubSeq(W, 1, n)
              N == Len(m.options)
              e == ends[N]
              q == Len(m.payload)
              pay == PayloadFrom(D, e)
  <1>1. N \in Nat /\ m.payload \in Seq(Byte) /\ q \in Nat /\ (m.payload = <<>> <=> q = 0)
    BY MessageFields
  <1>2. /\ W \in Seq(Byte) /\ e \in Nat
        /\ Len(W) = e + (IF m.payload = <<>> THEN 0 ELSE 1 + q)
        /\ m.payload # <<>> => W[e + 1] = 255
        /\ \A j \in 1..q : W[e + 1 + j] = m.payload[j]
    <2>1. N \in 0..N
      BY <1>1
    <2>. QED  BY <1>1, <2>1 DEF IsLayout
  <1>3. D \in Seq(Byte) /\ Len(D) = n /\ \A j \in 1..n : D[j] = W[j]
    BY <1>2, FirstBytes
  <1>4. e <= n
    OBVIOUS
  <1>5. pay = IF n - e > 1 THEN Bytes(D, e + 1, n - e - 1) ELSE <<>>
    BY <1>3 DEF PayloadFrom
  <1>. HIDE DEF D, N, e, q, pay
  <1>6. CASE ~(n - e > 1)
    <2>1. pay = <<>> /\ pay \in Seq(Byte) /\ Len(pay) = 0
      BY <1>5, <1>6
    <2>2. ASSUME n = Len(W) PROVE m.payload = <<>>
      BY <1>1, <1>2, <1>6, <2>2
    <2>3. Len(pay) <= q /\ \A j \in 1..Len(pay) : pay[j] = m.payload[j]
      BY <1>1, <2>1
    <2>. QED  BY <1>6, <2>1, <2>2, <2>3 DEF pay, D, N, e, q
  <1>7. CASE n - e > 1
    <2>. DEFINE l == n - e - 1
                b == e + 1
    <2>1. m.payload # <<>> /\ b \in 1..n /\ b \in Nat /\ l \in Nat /\ b + l = n /\ l <= q
      BY <1>1, <1>2, <1>4, <1>7
    <2>2. At(D, e) = 255
      BY <1>2, <1>3, <2>1 DEF At
    <2>3. IsCopy(Bytes(D, b, l), Byte, D, b, l)
      <3>. HIDE DEF b, l
      <3>1. IsPart(Byte, D, b, l)
        BY <1>3, <2>1 DEF IsPart
      <3>. QED  BY <3>1, PartHolds DEF Bytes
    <2>4. pay \in Seq(Byte) /\ Len(pay) = l /\ \A j \in 1..l : pay[j] = D[b + j]
      BY <1>5, <1>7, <2>3 DEF IsCopy
    <2>. HIDE DEF b, l
    <2>5. ASSUME NEW j \in 1..l PROVE pay[j] = m.payload[j]
      <3>1. b + j \in 1..n /\ j \in 1..q /\ b + j = e + 1 + j
        BY <1>1, <1>2, <2>1 DEF b
      <3>2. D[b + j] = W[b + j] /\ W[b + j] = m.payload[j]
        BY <1>2, <1>3, <3>1
      <3>. QED  BY <2>4, <3>2
    <2>6. ASSUME n = Len(W) PROVE pay = m.payload
      <3>1. l = q
        BY <1>1, <1>2, <2>1, <2>6 DEF b
      <3>. QED  BY <1>1, <2>4, <2>5, <3>1 DEF q
    <2>7. Len(pay) <= q /\ \A j \in 1..Len(pay) : pay[j] = m.payload[j]
      BY <2>1, <2>4, <2>5
    <2>. QED  BY <2>2, <2>4, <2>6, <2>7 DEF pay, D, N, e, q
  <1>. QED  BY <1>6, <1>7

\* The options end inside the message.
LEMMA EndsInside ==
  ASSUME NEW m, IsMessage(m), NEW ends, NEW W, IsLayout(m, ends, W)
  PROVE  LET N == Len(m.options)
         IN  /\ W \in Seq(Byte) /\ Len(W) \in Nat /\ N \in 0..N
             /\ \A i \in 0..N : ends[i] \in Nat /\ ends[i] <= ends[N] /\ ends[i] <= Len(W)
  <1>. DEFINE N == Len(m.options)
              e == ends[N]
              n == Len(W)
              rest == IF m.payload = <<>> THEN 0 ELSE 1 + Len(m.payload)
  <1>1. N \in Nat /\ rest \in Nat
    BY MessageFields
  <1>. HIDE DEF rest
  <1>2. /\ W \in Seq(Byte) /\ n = ends[N] + rest
        /\ ends \in [0..N -> Nat]
        /\ \A i \in 1..N : ends[i] = ends[i - 1] + OptionSize(m.options, i) /\ ends[i] <= ends[N]
    BY DEF IsLayout, rest
  <1>3. \A i \in 1..N : OptionSize(m.options, i) \in Nat \ {0}
    BY OptionNotEmpty DEF IsMessage
  <1>. HIDE DEF N, n
  <1>4. e \in Nat /\ N \in 0..N /\ \A i \in 0..N : ends[i] \in Nat
    BY <1>1, <1>2
  <1>5. e <= n /\ n \in Nat
    BY <1>1, <1>2, <1>4
  <1>6. ends[0] <= e
    <2>1. CASE N = 0
      BY <1>4, <2>1
    <2>2. CASE N # 0
      <3>. DEFINE x == ends[0]
                  y == ends[1]
                  s == OptionSize(m.options, 1)
      <3>1. 1 \in 1..N /\ 0 \in 0..N /\ 1 - 1 = 0
        BY <1>1, <2>2
      <3>2. x \in Nat /\ y = x + s /\ y <= e /\ s \in Nat
        BY <1>2, <1>3, <1>4, <3>1
      <3>. HIDE DEF x, y, s, e
      <3>3. x <= e
        BY <1>4, <3>2
      <3>. QED  BY <3>3 DEF x
    <2>. QED  BY <2>1, <2>2
  <1>7. ASSUME NEW i \in 0..N PROVE ends[i] \in Nat /\ ends[i] <= e /\ ends[i] <= n
    <2>. DEFINE x == ends[i]
    <2>1. x \in Nat /\ x <= e
      <3>1. i = 0 \/ i \in 1..N
        BY <1>1
      <3>. QED  BY <1>2, <1>4, <1>6, <3>1
    <2>. HIDE DEF x, e
    <2>2. x <= n
      BY <1>4, <1>5, <2>1
    <2>. QED  BY <2>1, <2>2 DEF x
  <1>. QED  BY <1>2, <1>4, <1>5, <1>7 DEF N, n, e

\* A message received whole is read back, its options sorted once more.
LEMMA WholeIsRead ==
  ASSUME NEW m, IsMessage(m), ShortOptions(m.options), NEW junk,
         NEW r \in FromBuffer(MessageBytes(m), junk)
  PROVE  \E list \in OptionsSort(m.options) : r = [m EXCEPT !.options = list]
  <1>. DEFINE W == MessageBytes(m)
              n == Len(W)
              N == Len(m.options)
  <1>1. PICK ends : IsLayout(m, ends, W)
    BY MessageLaidOut
  <1>2. N \in Nat /\ m.options \in Seq(OptionSet) /\ m.payload \in Seq(Byte)
    BY MessageFields
  <1>. HIDE DEF W
  <1>3. /\ W \in Seq(Byte) /\ n \in Nat /\ ends[N] \in Nat /\ ends[N] <= n /\ N \in 0..N
        /\ \A i \in 0..N : ends[i] <= n /\ ends[i] \in Nat
    BY <1>1, <1>2, EndsInside DEF N
  <1>4. SubSeq(W, 1, n) = W
    BY <1>3
  <1>5. IsReception(m, ends, W, n, SubSeq(W, 1, n) \o <<0, 0, 0, 0>>)
    <2>1. 0 \in 0..N
      BY <1>2
    <2>2. ends[0] <= n
      BY <1>3, <2>1
    <2>3. n <= Len(W)
      BY <1>3
    <2>. QED  BY <1>1, <1>3, <2>2, <2>3, PaddedIsReceived DEF IsReception
  <1>6. AreWhole(m, ends, n, N) /\ Found(m, ends, n, N) = N
    BY <1>3 DEF AreWhole, Found
  <1>7. LET pay == PayloadFrom(W, ends[N])
        IN  pay = m.payload /\ (n - ends[N] > 1 => At(W, ends[N]) = 255)
    <2>1. n <= Len(W) /\ ends[Len(m.options)] <= n /\ n \in Nat
      BY <1>3
    <2>. HIDE DEF n
    <2>2. LET pay == PayloadFrom(SubSeq(W, 1, n), ends[Len(m.options)])
          IN  /\ n = Len(W) => pay = m.payload
              /\ n - ends[Len(m.options)] > 1
                   => At(SubSeq(W, 1, n), ends[Len(m.options)]) = 255
      BY <1>1, <2>1, PayloadRead
    <2>. QED  BY <1>4, <2>2 DEF n
  <1>8. \E list \in OptionsSort(SubSeq(m.options, 1, N)) : r = Beginning(m, W, list, ends[N])
    <2>1. AsRead(m, SubSeq(W, 1, n), n, Found(m, ends, n, N), ends[Found(m, ends, n, N)], r)
      <3>1. r \in FromBuffer(SubSeq(W, 1, n), junk)
        BY <1>4 DEF W
      <3>. HIDE DEF n, N
      <3>. QED  BY <1>5, <1>6, <3>1, ReadsDatagram
    <2>. HIDE DEF n, N
    <2>. QED  BY <1>4, <1>6, <1>7, <2>1 DEF AsRead
  <1>9. SubSeq(m.options, 1, N) = m.options
    BY <1>2
  <1>10. PICK list \in OptionsSort(m.options) : r = Beginning(m, W, list, ends[N])
    BY <1>8, <1>9
  <1>11. m = [version |-> m.version, type |-> m.type, code |-> m.code, id |-> m.id,
              token |-> m.token, options |-> m.options, payload |-> m.payload]
    BY MessageFields
  <1>12. r = [m EXCEPT !.options = list]
    <2>. DEFINE b == Beginning(m, W, list, ends[N])
    <2>1. b = [version |-> m.version, type |-> m.type, code |-> m.code, id |-> m.id,
               token |-> m.token, options |-> list, payload |-> m.payload]
      BY <1>7 DEF Beginning
    <2>. HIDE DEF b
    <2>. QED  BY <1>10, <1>11, <2>1 DEF b
  <1>. QED  BY <1>12

\* What agrees with the beginning of a sequence is a prefix of it.
LEMMA AgreeingIsPrefix ==
  ASSUME NEW S, NEW s \in Seq(S), NEW t \in Seq(S), Len(s) <= Len(t),
         \A j \in 1..Len(s) : s[j] = t[j]
  PROVE  IsPrefix(s, t)
  <1>. DEFINE l == Len(s)
              a == SubSeq(s, 1, l)
              b == SubSeq(t, 1, l)
  <1>1. l \in Nat /\ l <= Len(t) /\ l <= Len(s)
    OBVIOUS
  <1>2. /\ a \in Seq(S) /\ Len(a) = l /\ \A j \in 1..l : a[j] = s[j]
        /\ b \in Seq(S) /\ Len(b) = l /\ \A j \in 1..l : b[j] = t[j]
    <2>. HIDE DEF l
    <2>. QED  BY <1>1, FirstBytes
  <1>. HIDE DEF a, b
  <1>3. a = b
    BY <1>2
  <1>. QED  BY <1>3 DEF IsPrefix, a, b

\* The first options of a list are options.
LEMMA FirstOptions ==
  ASSUME NEW os, IsOptions(os), NEW c \in 0..Len(os)
  PROVE  IsOptions(SubSeq(os, 1, c))
  <1>. DEFINE first == SubSeq(os, 1, c)
  <1>1. os \in Seq(OptionSet) /\ Len(os) \in Nat /\ c \in Nat /\ c <= Len(os) /\ DOMAIN os = 1..Len(os)
    BY DEF IsOptions
  <1>2. /\ first \in Seq(OptionSet) /\ Len(first) = c /\ DOMAIN first = 1..c
        /\ \A j \in 1..c : first[j] = os[j]
    <2>1. first \in Seq(OptionSet) /\ Len(first) = c /\ \A j \in 1..c : first[j] = os[j]
      BY <1>1, FirstBytes
    <2>. HIDE DEF first
    <2>2. DOMAIN first = 1..Len(first)
      BY <2>1
    <2>. QED  BY <2>1, <2>2
  <1>3. \A j \in 1..c : j \in 1..Len(os)
    BY <1>1
  <1>. HIDE DEF first
  <1>4. ASSUME NEW j \in 1..c PROVE Len(first[j].value) \in UInt16
    BY <1>1, <1>2, <1>3 DEF IsOptions
  <1>5. ASSUME NEW i \in 1..c, NEW j \in 1..c, i < j PROVE first[i].num <= first[j].num
    BY <1>2, <1>3, <1>5 DEF IsOptions
  <1>6. IsOptions(first)
    BY <1>2, <1>4, <1>5 DEF IsOptions
  <1>. QED  BY <1>6 DEF first

\* Of a message cut off behind its token the receiver takes a beginning, or refuses it.
LEMMA CutIsBeginning ==
  ASSUME NEW m, IsMessage(m), ShortOptions(m.options), NEW junk, NEW n \in Nat,
         4 + Len(m.token) <= n, n <= Len(MessageBytes(m)),
         NEW r \in FromBuffer(SubSeq(MessageBytes(m), 1, n), junk)
  PROVE  \/ r = Refused
         \/ /\ r # Undefined
            /\ r.token = m.token /\ r.id = m.id /\ r.code = m.code
            /\ IsPrefix(r.payload, m.payload)
            /\ \E c \in 0..Len(m.options) :
                 /\ r.options \in OptionsSort(SubSeq(m.options, 1, c))
                 /\ r.payload # <<>> => c = Len(m.options)
  <1>. DEFINE W == MessageBytes(m)
              D == SubSeq(W, 1, n)
              B == D \o <<0, 0, 0, 0>>
              os == m.options
              N == Len(os)
  <1>1. PICK ends : IsLayout(m, ends, W)
    BY MessageLaidOut
  <1>2. /\ N \in Nat /\ os \in Seq(OptionSet) /\ m.payload \in Seq(Byte)
        /\ n <= Len(W) /\ 4 + Len(m.token) <= n
    BY MessageFields
  <1>. HIDE DEF W
  <1>3. W \in Seq(Byte) /\ N \in 0..N /\ \A i \in 0..N : ends[i] \in Nat
    BY <1>1, EndsInside
  <1>4. IsReception(m, ends, W, n, B)
    <2>1. ends[0] <= n
      BY <1>1, <1>2 DEF IsLayout
    <2>. QED  BY <1>1, <1>2, <1>3, <2>1, PaddedIsReceived DEF IsReception
  <1>5. PICK M : AreWhole(m, ends, n, M)
    <2>. HIDE DEF B
    <2>. QED  BY <1>4, SomeAreWhole
  <1>. DEFINE c == Found(m, ends, n, M)
              e == ends[c]
              pay == PayloadFrom(D, e)
  <1>6. c \in 0..N /\ e \in Nat /\ e <= n /\ AsRead(m, D, n, c, e, r)
    BY <1>4, <1>5, ReadsDatagram DEF W
  <1>7. D \in Seq(Byte) /\ Len(D) = n /\ \A j \in 1..n : D[j] = W[j]
    BY <1>2, <1>3, FirstBytes
  <1>8. ASSUME NEW list \in OptionsSort(SubSeq(os, 1, c)), r = Beginning(m, D, list, e),
               n - e > 1 => At(D, e) = 255
        PROVE  /\ r # Undefined
               /\ r.token = m.token /\ r.id = m.id /\ r.code = m.code
               /\ IsPrefix(r.payload, m.payload)
               /\ r.options \in OptionsSort(SubSeq(os, 1, c))
               /\ r.payload # <<>> => c = N
    <2>1. /\ r.token = m.token /\ r.id = m.id /\ r.code = m.code
          /\ r.options = list /\ r.payload = pay
      <3>. HIDE DEF D, os, c, e
      <3>. QED  BY <1>8 DEF Beginning
    <2>2. r # Undefined
      <3>1. "undefined" \in DOMAIN Undefined /\ ~("undefined" \in DOMAIN Beginning(m, D, list, e))
        BY DEF Undefined, Beginning
      <3>. HIDE DEF D, os, c, e
      <3>. QED  BY <1>8, <3>1
    <2>3. CASE c = N
      <3>1. /\ pay \in Seq(Byte) /\ Len(pay) <= Len(m.payload)
            /\ \A j \in 1..Len(pay) : pay[j] = m.payload[j]
        <4>1. LET x == PayloadFrom(SubSeq(W, 1, n), ends[Len(m.options)])
              IN  /\ x \in Seq(Byte) /\ Len(x) <= Len(m.payload)
                  /\ \A j \in 1..Len(x) : x[j] = m.payload[j]
          BY <1>1, <1>2, <1>6, <2>3, PayloadRead
        <4>. QED  BY <2>3, <4>1
      <3>. HIDE DEF pay
      <3>2. IsPrefix(pay, m.payload)
        BY <1>2, <3>1, AgreeingIsPrefix
      <3>. HIDE DEF os, c, D
      <3>. QED  BY <2>1, <2>2, <2>3, <3>2
    <2>4. CASE c # N
      <3>1. ~(n - e > 1)
        <4>1. CASE ends[M] = n
          <5>1. c = M
            BY <4>1 DEF Found
          <5>. HIDE DEF c
          <5>. QED  BY <4>1, <5>1
        <4>2. CASE ends[M] # n
          <5>1. c = 0 /\ M # N
            BY <2>4, <4>2 DEF Found
          <5>. HIDE DEF c
          <5>2. 1 \in 1..N /\ 1 - 1 = 0
            BY <1>2, <2>4, <5>1
          <5>3. W[e + 1] # 255
            <6>1. HoldsOption(W, ends[1 - 1], m.options, 1)
              BY <1>1, <5>2 DEF IsLayout
            <6>. QED  BY <5>1, <5>2, <6>1 DEF HoldsOption
          <5>4. ASSUME n - e > 1 PROVE FALSE
            <6>. HIDE DEF e, D
            <6>1. e + 1 \in 1..n
              BY <1>6, <5>4
            <6>2. D[e + 1] = 255
              BY <1>8, <5>4 DEF At
            <6>. QED  BY <1>7, <5>3, <6>1, <6>2
          <5>. QED  BY <5>4
        <4>. QED  BY <4>1, <4>2
      <3>2. pay = <<>>
        BY <1>7, <3>1 DEF PayloadFrom
      <3>. HIDE DEF pay
      <3>3. IsPrefix(pay, m.payload)
        BY <1>2, <3>2 DEF IsPrefix
      <3>. HIDE DEF os, c, D
      <3>. QED  BY <2>1, <2>2, <3>2, <3>3
    <2>. QED  BY <2>3, <2>4
  <1>9. CASE r = Refused
    BY <1>9
  <1>10. CASE \E list \in OptionsSort(SubSeq(os, 1, c)) :
                r = Beginning(m, D, list, e) /\ (n - e > 1 => At(D, e) = 255)
    <2>1. /\ r # Undefined
          /\ r.token = m.token /\ r.id = m.id /\ r.code = m.code
          /\ IsPrefix(r.payload, m.payload)
          /\ r.options \in OptionsSort(SubSeq(os, 1, c))
          /\ r.payload # <<>> => c = N
      <3>. HIDE DEF c, D, e
      <3>. QED  BY <1>8, <1>10
    <2>. HIDE DEF c
    <2>. QED  BY <1>6, <2>1
  <1>. QED
    <2>. HIDE DEF D, c, e
    <2>1. \/ r = Refused
          \/ \E list \in OptionsSort(SubSeq(os, 1, c)) :
               r = Beginning(m, D, list, e) /\ (n - e > 1 => At(D, e) = 255)
      BY <1>6 DEF AsRead
    <2>. QED  BY <1>9, <1>10, <2>1

-----------------------------------------------------------------------------
(* The exchange.                                                           *)

\* The bytes that reach the receiver.
Received == IF rdsize < Len(wire) THEN rdsize ELSE Len(wire)

\* What is on the wire and what was read from it follow from the message and the two sizes.
Exchanged ==
  /\ IsMessage(msg)
  /\ wrsize \in Nat /\ rdsize \in Nat /\ 4 + Len(msg.token) <= rdsize
  /\ stage \in {"made", "written", "read"}
  /\ stage # "made" => wire = IF BufferSize(msg) > wrsize THEN <<>> ELSE MessageBytes(msg)
  /\ stage = "read" => /\ wire # <<>>
                       /\ \E bytes, junk : /\ bytes = SubSeq(wire, 1, Received)
                                           /\ got \in FromBuffer(bytes, junk)

LEMMA InitExchanged == Init => Exchanged
  <1>. SUFFICES ASSUME Init PROVE Exchanged
    OBVIOUS
  <1>1. PICK m \in Messages : \E sorted \in OptionsSort(m.options) :
          msg = [m EXCEPT !.options = sorted]
    BY DEF Init
  <1>2. PICK sorted \in OptionsSort(m.options) : msg = [m EXCEPT !.options = sorted]
    BY <1>1
  <1>3. /\ m \in MessageSet /\ Len(m.token) <= 15
        /\ \A i \in DOMAIN m.options : Len(m.options[i].value) \in UInt16
    BY MessageAssumption
  <1>4. IsOptions(sorted)
    <2>1. m.options \in Seq(OptionSet)
      BY <1>3 DEF MessageSet
    <2>. QED  BY <1>3, <2>1, SortedAreOptions
  <1>5. msg \in MessageSet /\ msg.token = m.token /\ msg.options = sorted
    <2>1. sorted \in Seq(OptionSet)
      BY <1>4 DEF IsOptions
    <2>. QED  BY <1>2, <1>3, <2>1 DEF MessageSet
  <1>6. IsMessage(msg)
    BY <1>3, <1>4, <1>5 DEF IsMessage
  <1>7. wrsize \in Nat /\ rdsize \in Nat /\ 4 + Len(msg.token) <= rdsize
    BY <1>5, SizeAssumption DEF Init
  <1>. QED  BY <1>6, <1>7 DEF Exchanged, Init

\* qsort is what it is.
LEMMA SameLibrary ==
  ASSUME stable' = stable
  PROVE  \A bytes, junk : FromBuffer(bytes, junk)' = FromBuffer(bytes, junk)
  <1>1. \A os : OptionsSort(os)' = OptionsSort(os)
    BY DEF OptionsSort
  <1>2. \A b, n, p, j : OptionsFrom(b, n, p, j)' = OptionsFrom(b, n, p, j)
    BY <1>1 DEF OptionsFrom
  <1>. QED  BY <1>2 DEF FromBuffer

LEMMA NextExchanged == Exchanged /\ [Next]_vars => Exchanged'
  <1>. SUFFICES ASSUME Exchanged, [Next]_vars PROVE Exchanged'
    OBVIOUS
  <1>1. CASE Write
    BY <1>1 DEF Exchanged, Write
  <1>2. CASE Read
    <2>1. /\ stage' = "read" /\ stage = "written" /\ wire # <<>>
          /\ UNCHANGED <<msg, wrsize, wire, rdsize, stable>>
      BY <1>2 DEF Read
    <2>2. \E bytes, junk : bytes = SubSeq(wire, 1, Received) /\ got' \in FromBuffer(bytes, junk)
      BY <1>2 DEF Read, Received
    <2>3. Received' = Received
      BY <2>1 DEF Received
    <2>4. \E bytes, junk : /\ bytes = SubSeq(wire', 1, Received')
                           /\ got' \in FromBuffer(bytes, junk)'
      BY <2>1, <2>2, <2>3, SameLibrary
    <2>. QED  BY <2>1, <2>4 DEF Exchanged
  <1>3. CASE UNCHANGED vars
    <2>1. /\ stage' = stage /\ msg' = msg /\ wrsize' = wrsize /\ wire' = wire
          /\ rdsize' = rdsize /\ got' = got /\ stable' = stable
      BY <1>3 DEF vars
    <2>2. Received' = Received
      BY <2>1 DEF Received
    <2>3. stage = "read" => \E bytes, junk : /\ bytes = SubSeq(wire', 1, Received')
                                            /\ got' \in FromBuffer(bytes, junk)'
      BY <2>1, <2>2, SameLibrary DEF Exchanged
    <2>. QED  BY <2>1, <2>3 DEF Exchanged
  <1>. QED  BY <1>1, <1>2, <1>3 DEF Next

LEMMA ExchangedHolds == Spec => []Exchanged
  BY InitExchanged, NextExchanged, PTL DEF Spec

\* The message on the wire is the whole message.
LEMMA WireIsMessage ==
  ASSUME Exchanged, stage = "read"
  PROVE  wire = MessageBytes(msg)
  BY DEF Exchanged

\* The size computed before a message is written is the size written, for all messages: none
\* that was found to fit overruns the write buffer, none that fits is turned away.
THEOREM SizeIsExactHolds == Spec => []SizeIsExact
  <1>1. Exchanged => SizeIsExact
    <2>. SUFFICES ASSUME Exchanged, stage # "made"
                  PROVE  IF Len(MessageBytes(msg)) <= wrsize
                         THEN wire = MessageBytes(msg) ELSE wire = <<>>
      BY DEF SizeIsExact
    <2>. DEFINE n == Len(MessageBytes(msg))
    <2>1. BufferSize(msg) = n /\ n \in Nat /\ wrsize \in Nat
      BY SizeIsLength DEF Exchanged
    <2>2. wire = IF BufferSize(msg) > wrsize THEN <<>> ELSE MessageBytes(msg)
      BY DEF Exchanged
    <2>. HIDE DEF n
    <2>3. ~(n <= wrsize) <=> BufferSize(msg) > wrsize
      BY <2>1
    <2>. QED  BY <2>2, <2>3 DEF n
  <1>. QED  BY <1>1, ExchangedHolds, PTL

\* A message whose option deltas and lengths take one extended byte at most, received whole, is
\* the message sent but for the order of options of equal number, and the message sent if qsort
\* leaves that alone: for all such messages, whatever the uninitialised variable holds.
THEOREM ShortRoundTripHolds == Spec => []ShortRoundTrip
  <1>1. Exchanged => ShortRoundTrip
    <2>. SUFFICES ASSUME Exchanged, stage = "read", Short, Len(wire) <= rdsize
                  PROVE  /\ got \notin {Refused, Undefined}
                         /\ got = [msg EXCEPT !.options = got.options]
                         /\ SameButForTies(got.options, msg.options)
                         /\ stable => got = msg
      BY DEF ShortRoundTrip
    <2>1. wire = MessageBytes(msg) /\ IsMessage(msg) /\ rdsize \in Nat
      BY WireIsMessage DEF Exchanged
    <2>2. wire \in Seq(Byte) /\ Len(wire) \in Nat
      <3>1. PICK ends : IsLayout(msg, ends, wire)
        BY <2>1, MessageLaidOut
      <3>. QED  BY <2>1, <3>1, EndsInside
    <2>3. Received = Len(wire)
      BY <2>1, <2>2 DEF Received
    <2>4. SubSeq(wire, 1, Received) = wire
      BY <2>2, <2>3
    <2>5. PICK junk : got \in FromBuffer(MessageBytes(msg), junk)
      BY <2>1, <2>4 DEF Exchanged
    <2>6. PICK list \in OptionsSort(msg.options) : got = [msg EXCEPT !.options = list]
      BY <2>1, <2>5, WholeIsRead DEF Short, ShortOptions
    <2>7. IsOptions(msg.options)
      BY <2>1 DEF IsMessage
    <2>8. SameButForTies(list, msg.options) /\ (stable => list = msg.options)
      BY <2>7, Resorted
    <2>9. msg = [version |-> msg.version, type |-> msg.type, code |-> msg.code, id |-> msg.id,
                 token |-> msg.token, options |-> msg.options, payload |-> msg.payload]
      BY <2>1, MessageFields
    <2>10. got = [version |-> msg.version, type |-> msg.type, code |-> msg.code, id |-> msg.id,
                  token |-> msg.token, options |-> list, payload |-> msg.payload]
      BY <2>6, <2>9
    <2>11. got.options = list
      BY <2>10
    <2>12. got # Refused /\ got # Undefined
      <3>1. "version" \in DOMAIN got
        BY <2>10
      <3>. QED  BY <3>1 DEF Refused, Undefined
    <2>13. stable => got = msg
      BY <2>8, <2>9, <2>10
    <2>. QED  BY <2>6, <2>8, <2>11, <2>12, <2>13
  <1>. QED  BY <1>1, ExchangedHolds, PTL

\* What a read reads is the beginning of the message, the header and the token at least.
LEMMA BeginningReceived ==
  ASSUME Exchanged, stage = "read"
  PROVE  /\ IsMessage(msg) /\ Received \in Nat /\ 4 + Len(msg.token) <= Received
         /\ Received <= Len(MessageBytes(msg))
         /\ \E junk : got \in FromBuffer(SubSeq(MessageBytes(msg), 1, Received), junk)
  <1>1. /\ wire = MessageBytes(msg) /\ IsMessage(msg) /\ rdsize \in Nat
        /\ 4 + Len(msg.token) <= rdsize
    BY WireIsMessage DEF Exchanged
  <1>. DEFINE n == Len(wire)
              k == 4 + Len(msg.token)
  <1>2. n \in Nat /\ k <= n /\ k \in Nat
    <2>1. PICK ends : IsLayout(msg, ends, wire)
      BY <1>1, MessageLaidOut
    <2>2. ends[0] = k
      BY <2>1 DEF IsLayout
    <2>. HIDE DEF k
    <2>3. \A i \in 0..Len(msg.options) : ends[i] \in Nat /\ ends[i] <= n
      BY <1>1, <2>1, EndsInside
    <2>4. n \in Nat /\ 0 \in 0..Len(msg.options)
      BY <1>1, <2>1, EndsInside, MessageFields
    <2>. QED  BY <2>2, <2>3, <2>4
  <1>3. Received = IF rdsize < n THEN rdsize ELSE n
    BY DEF Received
  <1>4. \E junk : got \in FromBuffer(SubSeq(wire, 1, Received), junk)
    BY DEF Exchanged
  <1>5. k <= rdsize
    BY <1>1
  <1>. HIDE DEF n, k
  <1>6. Received \in Nat /\ k <= Received /\ Received <= n
    BY <1>1, <1>2, <1>3, <1>5
  <1>. QED  BY <1>1, <1>4, <1>6 DEF n, k

\* Of a datagram cut off by the read buffer, wherever behind the token, the receiver reads no option
\* whose value lies behind the bytes received, and takes no option and no payload byte for another:
\* what it accepts is the beginning of what was sent, but for the order of equal numbers.
THEOREM CutKeepsBeginningHolds == Spec => []CutKeepsBeginning
  <1>1. Exchanged => CutKeepsBeginning
    <2>. SUFFICES ASSUME Exchanged, stage = "read", got # Refused, Short
                  PROVE  /\ got # Undefined
                         /\ got.token = msg.token /\ got.id = msg.id /\ got.code = msg.code
                         /\ \E c \in 0..Len(msg.options) :
                              /\ SameButForTies(got.options, SubSeq(msg.options, 1, c))
                              /\ stable => got.options = SubSeq(msg.options, 1, c)
                              /\ got.payload # <<>> => c = Len(msg.options)
                         /\ IsPrefix(got.payload, msg.payload)
      BY DEF CutKeepsBeginning
    <2>1. /\ IsMessage(msg) /\ Received \in Nat /\ 4 + Len(msg.token) <= Received
          /\ Received <= Len(MessageBytes(msg))
      BY BeginningReceived
    <2>2. PICK junk : got \in FromBuffer(SubSeq(MessageBytes(msg), 1, Received), junk)
      BY BeginningReceived
    <2>3. ShortOptions(msg.options) /\ IsOptions(msg.options)
      BY <2>1 DEF Short, ShortOptions, IsMessage
    <2>4. /\ got # Undefined
          /\ got.token = msg.token /\ got.id = msg.id /\ got.code = msg.code
          /\ IsPrefix(got.payload, msg.payload)
          /\ \E c \in 0..Len(msg.options) :
               /\ got.options \in OptionsSort(SubSeq(msg.options, 1, c))
               /\ got.payload # <<>> => c = Len(msg.options)
      BY <2>1, <2>2, <2>3, CutIsBeginning
    <2>5. PICK c \in 0..Len(msg.options) :
            /\ got.options \in OptionsSort(SubSeq(msg.options, 1, c))
            /\ got.payload # <<>> => c = Len(msg.options)
      BY <2>4
    <2>6. /\ SameButForTies(got.options, SubSeq(msg.options, 1, c))
          /\ stable => got.options = SubSeq(msg.options, 1, c)
      <3>1. IsOptions(SubSeq(msg.options, 1, c))
        BY <2>3, FirstOptions
      <3>. QED  BY <2>5, <3>1, Resorted
    <2>. QED  BY <2>4, <2>5, <2>6
  <1>. QED  BY <1>1, ExchangedHolds, PTL
=============================================================================
