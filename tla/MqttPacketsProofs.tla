--------------------------- MODULE MqttPacketsProofs ---------------------------
(***************************************************************************)
(* Proofs about MqttPackets, for names, topics and payloads of any length  *)
(* that fits the buffers: what goes out is read as what was asked for, and *)
(* what is heard of a supported publication is what was published.         *)
(***************************************************************************)
EXTENDS MqttPackets, SequenceTheorems, TLAPS

----------------------------------------------------------------------------
(* Sequences of bytes.                                                     *)

(* Two pieces, put together and taken apart.                               *)
IsJoin(b, s, t) ==
  /\ b \in Seq(Byte) /\ Len(b) = Len(s) + Len(t)
  /\ SubSeq(b, 1, Len(s)) = s
  /\ SubSeq(b, Len(s) + 1, Len(s) + Len(t)) = t
  /\ \A i \in 1 .. Len(s) : b[i] = s[i]
  /\ \A i \in 1 .. Len(t) : b[Len(s) + i] = t[i]

LEMMA Pieces ==
  ASSUME NEW s \in Seq(Byte), NEW t \in Seq(Byte)
  PROVE  IsJoin(s \o t, s, t)
<1> DEFINE m == Len(s)
<1> DEFINE n == Len(t)
<1> DEFINE st == s \o t
<1>1. m \in Nat /\ n \in Nat
  OBVIOUS
<1>2. /\ st \in Seq(Byte) /\ Len(st) = m + n
      /\ \A i \in 1 .. m + n : st[i] = IF i <= m THEN s[i] ELSE t[i - m]
  BY ConcatProperties
<1> HIDE DEF st
<1>3. /\ \A i \in 1 .. m : st[i] = s[i]
      /\ \A i \in 1 .. n : st[m + i] = t[i]
  <2>1. ASSUME NEW i \in 1 .. n PROVE m + i \in 1 .. m + n /\ ~(m + i <= m) /\ (m + i) - m = i
    BY <1>1
  <2>2. ASSUME NEW i \in 1 .. m PROVE i \in 1 .. m + n /\ i <= m
    BY <1>1
  <2> QED
    BY <1>2, <2>1, <2>2
<1>4. SubSeq(st, 1, m) = s
  <2>1. /\ SubSeq(st, 1, m) \in Seq(Byte) /\ Len(SubSeq(st, 1, m)) = m
        /\ \A i \in 1 .. m : SubSeq(st, 1, m)[i] = s[i]
    BY <1>1, <1>2, <1>3
  <2> QED
    BY <2>1, SeqEqual
<1>5. SubSeq(st, m + 1, m + n) = t
  <2>1. /\ SubSeq(st, m + 1, m + n) \in Seq(Byte) /\ Len(SubSeq(st, m + 1, m + n)) = n
        /\ \A i \in 1 .. n : SubSeq(st, m + 1, m + n)[i] = st[m + i]
    BY <1>1, <1>2
  <2> QED
    BY <1>3, <2>1, SeqEqual
<1> QED
  <2>1. IsJoin(st, s, t)
    BY <1>2, <1>3, <1>4, <1>5 DEF IsJoin
  <2> QED
    BY <2>1 DEF st

LEMMA BytesAreIntegers == \A x \in Byte : x \in Int /\ 0 <= x /\ x <= 255
BY DEF Byte

LEMMA BytesOf == ASSUME NEW s \in Seq(Byte) PROVE \A i \in 1 .. Len(s) : s[i] \in Byte
BY ElementOfSeq

(* One byte, and two.                                                      *)
LEMMA OneByte ==
  ASSUME NEW a \in Byte
  PROVE  <<a>> \in Seq(Byte) /\ Len(<<a>>) = 1 /\ <<a>>[1] = a
OBVIOUS

LEMMA TwoBytes ==
  ASSUME NEW a \in Byte, NEW b \in Byte
  PROVE  /\ <<a, b>> \in Seq(Byte) /\ Len(<<a, b>>) = 2 /\ <<a, b>>[1] = a /\ <<a, b>>[2] = b
         /\ <<a>> \o <<b>> = <<a, b>>
<1> DEFINE ab == <<a, b>>
<1> DEFINE c == <<a>> \o <<b>>
<1>1. ab \in Seq(Byte) /\ Len(ab) = 2 /\ ab[1] = a /\ ab[2] = b
  OBVIOUS
<1>2. c \in Seq(Byte) /\ Len(c) = 2 /\ c[1] = a /\ c[2] = b
  OBVIOUS
<1> HIDE DEF ab, c
<1>3. c = ab
  <2>1. \A i \in 1 .. Len(c) : c[i] = ab[i]
    BY <1>1, <1>2
  <2> QED
    BY <1>1, <1>2, <2>1, SeqEqual
<1> QED
  BY <1>1, <1>3 DEF ab, c

(* Division by powers of two, for lengths.                                 *)
LEMMA HalfWord ==
  ASSUME NEW n \in Nat, n <= 65535
  PROVE  n \div 256 \in Byte /\ n % 256 \in Byte /\ 256 * (n \div 256) + (n % 256) = n
<1>1. n = 256 * (n \div 256) + (n % 256) /\ n % 256 \in 0 .. 255 /\ n \div 256 \in Nat
  OBVIOUS
<1>2. n \div 256 <= 255
  BY <1>1
<1> QED
  BY <1>1, <1>2 DEF Byte

LEMMA SevenBits ==
  ASSUME NEW n \in Nat
  PROVE  n = 128 * (n \div 128) + (n % 128) /\ n % 128 \in 0 .. 127 /\ n \div 128 \in Nat
OBVIOUS

(* A word is read as it was written.                                       *)
LEMMA WordIs ==
  ASSUME NEW n \in Nat, n <= 65535
  PROVE  Word(n) \in Seq(Byte) /\ Len(Word(n)) = 2 /\ 256 * Word(n)[1] + Word(n)[2] = n
BY HalfWord, TwoBytes DEF Word

(* What a uint16_t counts.                                                 *)
LEMMA LengthsAre ==
  /\ \A n \in Lengths : n \in Nat /\ n <= 65535
  /\ \A n \in Nat : n <= 65535 => n \in Lengths
<1>1. WordWidth \in Nat /\ WordWidth = 65536
  BY DEF WordWidth
<1>2. ASSUME NEW n \in Lengths PROVE n \in Nat /\ n < WordWidth
  <2>1. \A w \in Nat : \A m \in 0 .. w - 1 : m \in Nat /\ m < w
    OBVIOUS
  <2>2. n \in 0 .. WordWidth - 1
    BY Zenon DEF Lengths
  <2>3. WordWidth \in Nat
    BY <1>1
  <2> QED
    BY <2>1, <2>2, <2>3
<1>3. ASSUME NEW n \in Nat, n < WordWidth PROVE n \in Lengths
  <2>1. \A w \in Nat, m \in Nat : m < w => m \in 0 .. w - 1
    OBVIOUS
  <2>2. WordWidth \in Nat
    BY <1>1
  <2>3. n \in 0 .. WordWidth - 1
    BY <1>3, <2>1, <2>2
  <2> QED
    BY <2>3 DEF Lengths
<1> QED
  BY <1>1, <1>2, <1>3

(* A field, when its length has been read.                                 *)
LEMMA CountedBy ==
  \A b, n : WordAt(b, 1) = n =>
    String(b) = SubSeq(b, 3, 2 + n) /\ After(b) = SubSeq(b, 3 + n, Len(b))
<1> SUFFICES ASSUME NEW b, NEW n, WordAt(b, 1) = n
             PROVE  String(b) = SubSeq(b, 3, 2 + n) /\ After(b) = SubSeq(b, 3 + n, Len(b))
  OBVIOUS
<1>1. String(b) = SubSeq(b, 3, 2 + n)
  BY Zenon DEF String
<1>2. After(b) = SubSeq(b, 3 + n, Len(b))
  BY Zenon DEF After
<1> QED
  BY <1>1, <1>2

(* A field is its length and a string, and both are found again.           *)
LEMMA FieldIs ==
  ASSUME NEW s \in Seq(Byte), Len(s) \in Lengths, NEW t \in Seq(Byte)
  PROVE  /\ Field(s) \in Seq(Byte) /\ Len(Field(s)) = 2 + Len(s)
         /\ WordAt(Field(s) \o t, 1) = Len(s)
         /\ String(Field(s) \o t) = s /\ After(Field(s) \o t) = t
<1> DEFINE n == Len(s)
<1> DEFINE w == Word(n)
<1> DEFINE f == w \o s
<1> DEFINE b == f \o t
<1>1. n \in Nat /\ n <= 65535 /\ Len(t) \in Nat
  BY LengthsAre, LenProperties
<1>2. w \in Seq(Byte) /\ Len(w) = 2 /\ 256 * w[1] + w[2] = n
  BY <1>1, WordIs
<1> HIDE DEF w
<1>3. /\ f \in Seq(Byte) /\ Len(f) = 2 + n /\ f[1] = w[1] /\ f[2] = w[2]
      /\ SubSeq(f, 3, 2 + n) = s
  <2>1. /\ f \in Seq(Byte) /\ Len(f) = Len(w) + n
        /\ SubSeq(f, Len(w) + 1, Len(w) + n) = s
        /\ \A i \in 1 .. Len(w) : f[i] = w[i]
    <3>1. IsJoin(f, w, s)
      BY <1>2, Pieces
    <3> HIDE DEF f
    <3> QED
      BY <3>1 DEF IsJoin
  <2> HIDE DEF f
  <2> QED
    BY <1>1, <1>2, <2>1
<1> HIDE DEF f
<1>4. /\ b \in Seq(Byte) /\ Len(b) = 2 + n + Len(t) /\ b[1] = f[1] /\ b[2] = f[2]
      /\ \A i \in 1 .. 2 + n : b[i] = f[i]
      /\ SubSeq(b, 2 + n + 1, 2 + n + Len(t)) = t
  <2>1. /\ b \in Seq(Byte) /\ Len(b) = Len(f) + Len(t)
        /\ SubSeq(b, Len(f) + 1, Len(f) + Len(t)) = t
        /\ \A i \in 1 .. Len(f) : b[i] = f[i]
    <3>1. IsJoin(b, f, t)
      BY <1>3, Pieces
    <3> HIDE DEF b
    <3> QED
      BY <3>1 DEF IsJoin
  <2> HIDE DEF b
  <2> QED
    BY <1>1, <1>3, <2>1
<1> HIDE DEF b
<1>5. WordAt(b, 1) = n
  BY <1>2, <1>3, <1>4 DEF WordAt
<1>6. SubSeq(b, 3, 2 + n) = s
  <2>1. /\ SubSeq(b, 3, 2 + n) \in Seq(Byte) /\ Len(SubSeq(b, 3, 2 + n)) = n
        /\ \A i \in 1 .. n : SubSeq(b, 3, 2 + n)[i] = b[3 + i - 1]
    BY <1>1, <1>4
  <2>2. \A i \in 1 .. n : b[3 + i - 1] = f[3 + i - 1]
    BY <1>1, <1>4
  <2>3. \A i \in 1 .. n : f[3 + i - 1] = s[i]
    <3>1. \A i \in 1 .. n : SubSeq(f, 3, 2 + n)[i] = f[3 + i - 1]
      BY <1>1, <1>3
    <3> QED
      BY <1>3, <3>1
  <2> QED
    BY <2>1, <2>2, <2>3, SeqEqual
<1>7. SubSeq(b, 3 + n, Len(b)) = t
  BY <1>1, <1>4
<1>8. b = Field(s) \o t /\ f = Field(s)
  BY DEF b, f, w, Field
<1>9. String(b) = s /\ After(b) = t
  <2>1. String(b) = SubSeq(b, 3, 2 + n) /\ After(b) = SubSeq(b, 3 + n, Len(b))
    <3>1. WordAt(b, 1) = n
      BY <1>5
    <3> HIDE DEF n
    <3> QED
      BY <3>1, CountedBy, Zenon
  <2> QED
    BY <1>6, <1>7, <2>1
<1> QED
  BY <1>3, <1>5, <1>8, <1>9

----------------------------------------------------------------------------
(* The length of a packet.                                                 *)

(* What makes a function the coding of lengths.                            *)
Coded(e) ==
  e = [n \in Lengths |-> IF n < 128 THEN LastByte(n) ELSE ByteAndMore(n, e[n \div 128])]

(* The coding as it is written out, three bytes at most.                   *)
Upto(n) == IF n < 128 THEN LastByte(n) ELSE ByteAndMore(n, LastByte(n \div 128))
Written ==
  [n \in Lengths |->
     IF n < 128 THEN LastByte(n) ELSE ByteAndMore(n, Upto(n \div 128))]

LEMMA WrittenIsCoded == Coded(Written)
<1>1. ASSUME NEW n \in Lengths, n >= 128
      PROVE  n \div 128 \in Lengths /\ (n \div 128) \div 128 < 128
  <2>0. n \in Nat /\ n <= 65535
    BY LengthsAre
  <2>1. n = 128 * (n \div 128) + (n % 128) /\ n % 128 \in 0 .. 127 /\ n \div 128 \in Nat
    BY <2>0, SevenBits
  <2> DEFINE m == n \div 128
  <2>2. m \in Nat /\ m <= 511
    BY <2>0, <2>1
  <2> HIDE DEF m
  <2>3. m = 128 * (m \div 128) + (m % 128) /\ m % 128 \in 0 .. 127 /\ m \div 128 \in Nat
    BY <2>2, SevenBits
  <2>4. m \div 128 < 128
    BY <2>2, <2>3
  <2> QED
    BY <2>2, <2>4, LengthsAre DEF m
<1>2. ASSUME NEW n \in Lengths
      PROVE  Written[n] = IF n < 128 THEN LastByte(n) ELSE ByteAndMore(n, Written[n \div 128])
  <2>0. n \in Nat
    BY LengthsAre
  <2>1. CASE n < 128
    BY <2>1 DEF Written
  <2>2. CASE n >= 128
    <3> DEFINE m == n \div 128
    <3>1. m \in Lengths /\ m \div 128 < 128
      BY <1>1, <2>2
    <3>2. Written[n] = ByteAndMore(n, Upto(m))
      BY <2>0, <2>2 DEF Written
    <3> HIDE DEF m
    <3>3. m >= 128 => Upto(m \div 128) = LastByte(m \div 128)
      BY <3>1 DEF Upto
    <3>4. Written[m] = Upto(m)
      BY <3>1, <3>3 DEF Written, Upto
    <3> QED
      BY <2>0, <2>2, <3>2, <3>4 DEF m
  <2> QED
    BY <2>0, <2>1, <2>2
<1>3. Written = [n \in Lengths |-> Written[n]]
  BY DEF Written
<1> HIDE DEF Written
<1> QED
  BY <1>2, <1>3 DEF Coded

LEMMA EncodeIsCoded == ASSUME NEW n PROVE \E e : Coded(e) /\ EncodeLength(n) = e[n]
BY WrittenIsCoded, Zenon DEF EncodeLength, Coded

(* mqttEncodeLength, as far as packets go: one byte, or two.               *)
LEMMA EncodeIs ==
  ASSUME NEW n \in Nat, n < 16384
  PROVE  EncodeLength(n) = IF n < 128 THEN <<n>> ELSE <<128 + (n % 128), n \div 128>>
<1>1. PICK e : Coded(e) /\ EncodeLength(n) = e[n]
  BY EncodeIsCoded
<1>2. \A m \in Lengths : e[m] = IF m < 128 THEN LastByte(m) ELSE ByteAndMore(m, e[m \div 128])
  BY <1>1 DEF Coded
<1>3. CASE n < 128
  <2>1. n \in Lengths
    BY <1>3, LengthsAre
  <2> QED
    <3>1. e[n] = LastByte(n)
      BY <1>2, <1>3, <2>1
    <3> QED
      BY <1>1, <1>3, <3>1 DEF LastByte
<1>4. CASE n >= 128
  <2>1. n = 128 * (n \div 128) + (n % 128) /\ n % 128 \in 0 .. 127 /\ n \div 128 \in Nat
    BY SevenBits
  <2>2. n \div 128 \in Nat /\ n \div 128 < 128
    BY <2>1
  <2>3. e[n \div 128] = LastByte(n \div 128)
    BY <1>2, <2>2, LengthsAre
  <2>4. e[n] = ByteAndMore(n, LastByte(n \div 128))
    BY <1>2, <1>4, <2>3, LengthsAre
  <2>5. 128 + (n % 128) \in Byte /\ n \div 128 \in Byte
    BY <2>1, <2>2 DEF Byte
  <2> QED
    BY <1>1, <1>4, <2>4, <2>5, TwoBytes DEF ByteAndMore, LastByte
<1> QED
  BY <1>3, <1>4

(* A packet taken apart as the broker does: its type, its length and what  *)
(* is behind the length.                                                   *)
IsFramed(b, type, body) ==
  /\ b \in Seq(Byte) /\ Len(b) <= 3 + Len(body) /\ b[1] = type
  /\ RemainingLength(b) = Len(body) /\ Rest(b) = body

IsLength(e, n) ==
  /\ e \in Seq(Byte)
  /\ n < 128 => Len(e) = 1 /\ e[1] = n
  /\ n >= 128 => /\ Len(e) = 2 /\ e[1] >= 128 /\ e[2] < 128
                 /\ (e[1] % 128) + 128 * e[2] = n

LEMMA EncodeType ==
  ASSUME NEW n \in Nat, n < 16384
  PROVE  IsLength(EncodeLength(n), n)
<1>1. n = 128 * (n \div 128) + (n % 128) /\ n % 128 \in 0 .. 127 /\ n \div 128 \in Nat
  BY SevenBits
<1>2. CASE n < 128
  <2>1. EncodeLength(n) = <<n>>
    BY <1>2, EncodeIs
  <2>2. n \in Byte
    BY <1>2 DEF Byte
  <2> QED
    BY <1>2, <2>1, <2>2, OneByte DEF IsLength
<1>3. CASE n >= 128
  <2> DEFINE low == 128 + (n % 128)
  <2> DEFINE high == n \div 128
  <2>1. low \in Byte /\ high \in Byte
    BY <1>1 DEF Byte
  <2>2. EncodeLength(n) = <<low, high>>
    BY <1>3, EncodeIs
  <2> HIDE DEF low, high
  <2>3. /\ EncodeLength(n) \in Seq(Byte) /\ Len(EncodeLength(n)) = 2
        /\ EncodeLength(n)[1] = low /\ EncodeLength(n)[2] = high
    BY <2>1, <2>2, TwoBytes
  <2>4. low >= 128 /\ low % 128 = n % 128 /\ high < 128 /\ (low % 128) + 128 * high = n
    BY <1>1 DEF low, high
  <2> QED
    BY <1>3, <2>3, <2>4 DEF IsLength
<1> QED
  BY <1>2, <1>3

LEMMA FramedIs ==
  ASSUME NEW type \in Byte, NEW body \in Seq(Byte), Len(body) < 16384
  PROVE  IsFramed(<<type>> \o EncodeLength(Len(body)) \o body, type, body)
<1> DEFINE n == Len(body)
<1> DEFINE e == EncodeLength(n)
<1> DEFINE h == <<type>> \o e
<1> DEFINE b == h \o body
<1>1. n \in Nat /\ n < 16384
  OBVIOUS
<1> DEFINE one == <<type>>
<1>2. IsLength(e, n)
  BY <1>1, EncodeType
<1> HIDE DEF e
<1>3. one \in Seq(Byte) /\ Len(one) = 1 /\ one[1] = type
  BY OneByte
<1>4. IsJoin(h, one, e)
  <2>1. e \in Seq(Byte)
    BY <1>2 DEF IsLength
  <2> HIDE DEF one
  <2>2. IsJoin(one \o e, one, e)
    BY <1>3, <2>1, Pieces
  <2> QED
    BY <2>2 DEF one
<1> HIDE DEF one, h
<1>5. IsJoin(b, h, body)
  <2>1. h \in Seq(Byte)
    BY <1>4 DEF IsJoin
  <2> QED
    BY <2>1, Pieces
<1> HIDE DEF b
<1>6. /\ b \in Seq(Byte) /\ b[1] = type /\ b[2] = e[1]
      /\ n < 128 => Len(h) = 2 /\ Len(b) = 2 + n
      /\ n >= 128 => Len(h) = 3 /\ Len(b) = 3 + n /\ b[3] = e[2]
      /\ SubSeq(b, Len(h) + 1, Len(b)) = body
  <2>1. /\ Len(h) = 1 + Len(e) /\ h[1] = type
        /\ \A i \in 1 .. Len(e) : h[1 + i] = e[i]
    BY <1>3, <1>4 DEF IsJoin
  <2>2. /\ b \in Seq(Byte) /\ Len(b) = Len(h) + n
        /\ SubSeq(b, Len(h) + 1, Len(h) + n) = body
        /\ \A i \in 1 .. Len(h) : b[i] = h[i]
    BY <1>5 DEF IsJoin
  <2>3. CASE n < 128
    <3>1. Len(e) = 1 /\ Len(h) = 2
      <4>1. Len(e) = 1
        BY <1>1, <1>2, <2>3 DEF IsLength
      <4> QED
        BY <2>1, <4>1
    <3>2. h[2] = e[1]
      BY <2>1, <3>1
    <3> QED
      BY <1>1, <2>1, <2>2, <2>3, <3>1, <3>2
  <2>4. CASE n >= 128
    <3>1. Len(e) = 2 /\ Len(h) = 3
      <4>1. Len(e) = 2
        BY <1>1, <1>2, <2>4 DEF IsLength
      <4> QED
        BY <2>1, <4>1
    <3>2. h[2] = e[1] /\ h[3] = e[2]
      BY <2>1, <3>1
    <3> QED
      BY <1>1, <2>1, <2>2, <2>4, <3>1, <3>2
  <2> QED
    BY <1>1, <2>3, <2>4
<1>7. RemainingLength(b) = n /\ Rest(b) = body
  <2>1. CASE n < 128
    <3>1. b[2] = n
      BY <1>2, <1>6, <2>1 DEF IsLength
    <3>2. RemainingLength(b) = n
      BY <2>1, <3>1 DEF RemainingLength
    <3>3. Rest(b) = SubSeq(b, 3, Len(b))
      BY <2>1, <3>1 DEF Rest
    <3> QED
      BY <1>6, <2>1, <3>2, <3>3
  <2>2. CASE n >= 128
    <3>1. /\ b[2] = e[1] /\ b[3] = e[2] /\ e[1] \in Int /\ ~(e[1] < 128)
          /\ (e[1] % 128) + 128 * e[2] = n
      <4>1. e \in Seq(Byte) /\ Len(e) = 2
        <5>1. e \in Seq(Byte)
          BY <1>2 DEF IsLength
        <5>2. Len(e) = 2
          BY <1>1, <1>2, <2>2 DEF IsLength
        <5> QED
          BY <5>1, <5>2
      <4>2. e[1] \in Byte
        <5>1. \A i \in 1 .. Len(e) : e[i] \in Byte
          <6>1. e \in Seq(Byte)
            BY <4>1
          <6> QED
            BY <6>1, BytesOf
        <5>2. 1 \in 1 .. Len(e)
          BY <4>1
        <5> QED
          BY <5>1, <5>2
      <4>3. e[1] \in Int
        BY <4>2, BytesAreIntegers
      <4> QED
        BY <1>1, <1>2, <1>6, <2>2, <4>3 DEF IsLength
    <3>2. RemainingLength(b) = n
      BY <3>1 DEF RemainingLength
    <3>3. Rest(b) = SubSeq(b, 4, Len(b))
      BY <3>1 DEF Rest
    <3>4. SubSeq(b, 4, Len(b)) = body
      <4>1. Len(h) + 1 = 4
        BY <1>6, <2>2
      <4>2. SubSeq(b, Len(h) + 1, Len(b)) = body
        BY <1>6
      <4> QED
        BY <4>1, <4>2
    <3> QED
      BY <3>2, <3>3, <3>4
  <2> QED
    BY <1>1, <2>1, <2>2
<1>8. IsFramed(b, type, body)
  BY <1>1, <1>6, <1>7 DEF IsFramed
<1> QED
  BY <1>8 DEF b, h, e, one

(* What the broker makes of a packet depends on its type and on what is    *)
(* behind the length.                                                      *)
LEMMA ParseOf ==
  ASSUME NEW b, NEW type \in Byte, NEW r \in Seq(Byte), IsFramed(b, type, r)
  PROVE  /\ type = 16 => Parse(b) = ParseConnect(r)
         /\ type = 48 => Parse(b) = [kind |-> "publish", topic |-> String(r), payload |-> After(r)]
         /\ type = 130 =>
              Parse(b) = [kind |-> "subscribe", topic |-> String(SubSeq(r, 3, Len(r) - 1))]
         /\ type = 162 =>
              Parse(b) = [kind |-> "unsubscribe", topic |-> String(SubSeq(r, 3, Len(r)))]
         /\ type = 192 => Parse(b) = [kind |-> "pingreq"]
         /\ type = 224 => Parse(b) = [kind |-> "disconnect"]
<1>1. Rest(b) = r /\ RemainingLength(b) = Len(r) /\ b[1] = type
  BY DEF IsFramed
<1> QED
  BY <1>1 DEF Parse

(* The bytes b are a packet that fits and that the broker takes for that   *)
(* request.                                                                *)
IsRequest(b, request) ==
  b \in Seq(Byte) /\ Len(b) <= TxSize /\ Parse(b) = request

LEMMA Headers ==
  /\ Header(1, 0) = <<16>> /\ Header(3, 0) = <<48>> /\ Header(8, 1) = <<130>>
  /\ Header(10, 1) = <<162>> /\ Header(12, 0) = <<192>> /\ Header(14, 0) = <<224>>
  /\ {16, 48, 130, 162, 192, 224} \subseteq Byte
<1>1. /\ Header(1, 0) = <<16>> /\ Header(3, 0) = <<48>> /\ Header(8, 1) = <<130>>
      /\ Header(10, 1) = <<162>> /\ Header(12, 0) = <<192>> /\ Header(14, 0) = <<224>>
  BY DEF Header
<1>2. {16, 48, 130, 162, 192, 224} \subseteq Byte
  BY DEF Byte
<1> QED
  BY <1>1, <1>2

(* A string field alone.                                                   *)
LEMMA FieldAlone ==
  ASSUME NEW s \in Seq(Byte), Len(s) \in Lengths
  PROVE  Field(s) \in Seq(Byte) /\ Len(Field(s)) = 2 + Len(s) /\ String(Field(s)) = s
<1> DEFINE none == <<>>
<1>1. none \in Seq(Byte)
  BY EmptySeq
<1> HIDE DEF none
<1>2. /\ Field(s) \in Seq(Byte) /\ Len(Field(s)) = 2 + Len(s)
      /\ String(Field(s) \o none) = s
  BY <1>1, FieldIs
<1>3. Field(s) \o none = Field(s)
  BY <1>2, ConcatEmptySeq DEF none
<1> QED
  BY <1>2, <1>3

(* What lies in the middle of a packet.                                    *)
LEMMA Middle ==
  ASSUME NEW p \in Seq(Byte), NEW f \in Seq(Byte), NEW x \in Seq(Byte), Len(f) > 0
  PROVE  /\ p \o f \o x \in Seq(Byte) /\ Len(p \o f \o x) = Len(p) + Len(f) + Len(x)
         /\ SubSeq(p \o f \o x, Len(p) + 1, Len(p) + Len(f)) = f
<1> DEFINE a == p \o f
<1> DEFINE b == a \o x
<1>1. Len(p) \in Nat /\ Len(f) \in Nat /\ Len(x) \in Nat
  BY LenProperties
<1>2. IsJoin(a, p, f)
  BY Pieces
<1> HIDE DEF a
<1>3. a \in Seq(Byte) /\ Len(a) = Len(p) + Len(f) /\ SubSeq(a, Len(p) + 1, Len(p) + Len(f)) = f
  BY <1>2 DEF IsJoin
<1>4. b \in Seq(Byte) /\ Len(b) = Len(p) + Len(f) + Len(x)
  <2>1. a \in Seq(Byte)
    BY <1>3
  <2>2. a \o x \in Seq(Byte) /\ Len(a \o x) = Len(a) + Len(x)
    BY <2>1, ConcatProperties
  <2> QED
    BY <1>1, <1>3, <2>2
<1>5. SubSeq(b, Len(p) + 1, Len(p) + Len(f)) = SubSeq(a, Len(p) + 1, Len(p) + Len(f))
  <2>1. Len(p) + 1 \in 1 .. Len(a) /\ Len(p) + Len(f) \in 1 .. Len(a)
    BY <1>1, <1>3
  <2> DEFINE i == Len(p) + 1
  <2> DEFINE j == Len(p) + Len(f)
  <2>2. i \in 1 .. Len(a) /\ j \in 1 .. Len(a)
    BY <2>1
  <2> HIDE DEF i, j
  <2>3. SubSeq(a \o x, i, j) = SubSeq(a, i, j)
    BY <1>3, <2>2, SubSeqOfConcat1
  <2> QED
    BY <2>3 DEF i, j
<1> QED
  BY <1>3, <1>4, <1>5 DEF a

(* Any packet: its bytes are read again, and fit.                          *)
LEMMA Packed ==
  ASSUME NEW type \in Byte, NEW body \in Seq(Byte), 3 + Len(body) <= TxSize
  PROVE  /\ IsFramed(<<type>> \o EncodeLength(Len(body)) \o body, type, body)
         /\ Len(<<type>> \o EncodeLength(Len(body)) \o body) <= TxSize
         /\ <<type>> \o EncodeLength(Len(body)) \in Seq(Byte)
<1> DEFINE n == Len(body)
<1> DEFINE e == EncodeLength(n)
<1> DEFINE b == <<type>> \o e \o body
<1>1. TxSize \in Nat /\ n \in Nat /\ n < 16384 /\ 3 + n <= TxSize
  BY BuffersAssumption, LenProperties
<1>2. IsFramed(b, type, body)
  BY <1>1, FramedIs
<1>3. IsLength(e, n)
  BY <1>1, EncodeType
<1> HIDE DEF e, b
<1>4. Len(b) <= TxSize
  <2>1. b \in Seq(Byte) /\ Len(b) <= 3 + n
    BY <1>2 DEF IsFramed
  <2> QED
    BY <1>1, <2>1
<1>5. <<type>> \o e \in Seq(Byte)
  <2>1. e \in Seq(Byte)
    BY <1>3 DEF IsLength
  <2>2. <<type>> \in Seq(Byte)
    BY OneByte
  <2> QED
    BY <2>1, <2>2, ConcatProperties
<1> QED
  BY <1>2, <1>4, <1>5 DEF b, e

LEMMA Regroup ==
  \A a, b, c \in Seq(Byte) : (a \o b) \o c = a \o (b \o c)
BY ConcatAssociative

(* A PUBLISH that is written from a topic and a payload.                   *)
PublishOf(topic, n, payload) ==
  Header(3, 0) \o EncodeLength(n) \o Field(topic) \o payload

LEMMA PublishReads ==
  ASSUME NEW topic \in Seq(Byte), NEW payload \in Seq(Byte),
         5 + Len(topic) + Len(payload) <= TxSize
  PROVE  IsRequest(PublishOf(topic, 2 + Len(topic) + Len(payload), payload),
                   [kind |-> "publish", topic |-> topic, payload |-> payload])
<1> DEFINE f == Field(topic)
<1> DEFINE body == f \o payload
<1> DEFINE n == 2 + Len(topic) + Len(payload)
<1> DEFINE e == EncodeLength(n)
<1> DEFINE b == <<48>> \o e \o body
<1>1. /\ TxSize \in Nat /\ TxSize <= 16386 /\ Len(topic) \in Nat /\ Len(payload) \in Nat
      /\ Len(topic) <= 65535 /\ n \in Nat /\ n < 16384
  BY BuffersAssumption, LenProperties
<1>2. /\ f \in Seq(Byte) /\ Len(f) = 2 + Len(topic)
      /\ String(body) = topic /\ After(body) = payload
  <2>1. Len(topic) \in Lengths
    BY <1>1, LengthsAre
  <2> QED
    BY <2>1, FieldIs, Zenon
<1> HIDE DEF f
<1>3. body \in Seq(Byte) /\ Len(body) = n
  <2>1. IsJoin(body, f, payload)
    BY <1>2, Pieces
  <2> HIDE DEF body
  <2> QED
    BY <1>1, <1>2, <2>1 DEF IsJoin
<1> HIDE DEF body, n
<1>4. e \in Seq(Byte) /\ <<48>> \in Seq(Byte) /\ <<48>> \o e \in Seq(Byte)
  <2>1. IsLength(e, n)
    BY <1>1, EncodeType
  <2> HIDE DEF e
  <2>2. e \in Seq(Byte)
    BY <2>1 DEF IsLength
  <2>3. <<48>> \in Seq(Byte)
    BY Headers, OneByte
  <2> QED
    BY <2>2, <2>3, ConcatProperties
<1>5. IsFramed(b, 48, body)
  <2>1. 48 \in Byte /\ body \in Seq(Byte) /\ 3 + Len(body) <= TxSize
    BY <1>1, <1>3, Headers DEF n
  <2>2. IsFramed(<<48>> \o EncodeLength(Len(body)) \o body, 48, body)
    BY <2>1, Packed
  <2> QED
    BY <1>3, <2>2
<1> HIDE DEF e
<1>6. PublishOf(topic, n, payload) = b
  <2> DEFINE h == <<48>> \o e
  <2>0. h \in Seq(Byte)
    BY <1>4
  <2> HIDE DEF h
  <2>1. h \o f \o payload = h \o (f \o payload)
    BY <1>2, <2>0, Regroup, Zenon
  <2> QED
    BY <2>1, Headers DEF PublishOf, body, f, e, h
<1> HIDE DEF b
<1>7. Parse(b) = [kind |-> "publish", topic |-> topic, payload |-> payload]
  <2>1. 48 \in Byte /\ body \in Seq(Byte)
    BY <1>3, Headers
  <2>2. Parse(b) = [kind |-> "publish", topic |-> String(body), payload |-> After(body)]
    BY <1>5, <2>1, ParseOf
  <2>3. String(body) = topic /\ After(body) = payload
    BY <1>2
  <2> QED
    BY <2>2, <2>3
<1>8. b \in Seq(Byte) /\ Len(b) <= TxSize
  BY <1>1, <1>3, <1>5 DEF IsFramed, n
<1>9. IsRequest(b, [kind |-> "publish", topic |-> topic, payload |-> payload])
  BY <1>7, <1>8 DEF IsRequest
<1> QED
  BY <1>6, <1>9 DEF n

(* A packet of three pieces behind the length.                             *)
IsPacket(b, type, body) == b \in Seq(Byte) /\ Len(b) <= TxSize /\ IsFramed(b, type, body)

LEMMA ThreePieces ==
  ASSUME NEW type \in Byte, NEW p \in Seq(Byte), NEW f \in Seq(Byte), NEW x \in Seq(Byte),
         Len(f) > 0, 3 + Len(p) + Len(f) + Len(x) <= TxSize
  PROVE  IsPacket(<<type>> \o EncodeLength(Len(p) + Len(f) + Len(x)) \o p \o f \o x,
                  type, p \o f \o x)
<1> DEFINE body == p \o f \o x
<1> DEFINE n == Len(p) + Len(f) + Len(x)
<1>1. TxSize \in Nat /\ Len(p) \in Nat /\ Len(f) \in Nat /\ Len(x) \in Nat
  BY BuffersAssumption, LenProperties
<1>2. body \in Seq(Byte) /\ Len(body) = n
  BY Middle
<1> DEFINE h == <<type>> \o EncodeLength(n)
<1>3. h \in Seq(Byte) /\ IsFramed(h \o body, type, body) /\ Len(h \o body) <= TxSize
  <2> HIDE DEF body
  <2>1. 3 + Len(body) <= TxSize
    BY <1>1, <1>2
  <2> QED
    BY <1>2, <2>1, Packed
<1> HIDE DEF h
<1>4. h \o p \o f \o x = h \o body
  <2>1. h \in Seq(Byte)
    BY <1>3
  <2>2. (h \o p) \o f = h \o (p \o f)
    BY <2>1, Regroup
  <2> DEFINE a == p \o f
  <2>3. a \in Seq(Byte)
    BY ConcatProperties
  <2> HIDE DEF a
  <2>4. (h \o a) \o x = h \o (a \o x)
    <3>1. x \in Seq(Byte)
      OBVIOUS
    <3> QED
      BY <2>1, <2>3, <3>1, Regroup, ZenonT(20)
  <2> QED
    BY <2>2, <2>4 DEF a
<1>5. IsPacket(h \o body, type, body)
  BY <1>3 DEF IsFramed, IsPacket
<1> QED
  BY <1>4, <1>5 DEF h

(* SUBSCRIBE and UNSUBSCRIBE, of the one topic.                            *)
TopicOf(kind, n) ==
  Header(IF kind = "subscribe" THEN 8 ELSE 10, 1) \o EncodeLength(n)
    \o PacketIdentifier \o Field(Topics["delta"])
    \o IF kind = "subscribe" THEN <<0>> ELSE <<>>

LEMMA TopicReads ==
  ASSUME NEW kind \in {"subscribe", "unsubscribe"}
  PROVE  IsRequest(TopicOf(kind, 2 + 2 + Len(Topics["delta"]) + IF kind = "subscribe" THEN 1 ELSE 0),
                   [kind |-> kind, topic |-> Topics["delta"]])
<1> DEFINE topic == Topics["delta"]
<1> DEFINE f == Field(topic)
<1> DEFINE p == <<0, 1>>
<1>1. topic \in Seq(Byte) /\ Len(topic) \in Nat /\ 8 + Len(topic) <= TxSize /\ Len(topic) \in Lengths
  <2>1. topic \in Seq(Byte)
    BY BytesAssumption
  <2> HIDE DEF topic
  <2>2. TxSize \in Nat /\ TxSize <= 16386
    BY BuffersAssumption
  <2>3. 8 + Len(topic) <= TxSize
    BY TopicFits DEF topic
  <2>4. Len(topic) \in Nat /\ Len(topic) <= 65535
    BY <2>1, <2>2, <2>3, LenProperties
  <2> QED
    BY <2>1, <2>3, <2>4, LengthsAre
<1> HIDE DEF topic
<1>2. f \in Seq(Byte) /\ Len(f) = 2 + Len(topic) /\ String(f) = topic
  BY <1>1, FieldAlone, Zenon
<1> HIDE DEF f
<1>3. 0 \in Byte /\ 1 \in Byte
  BY DEF Byte
<1>4. p \in Seq(Byte) /\ Len(p) = 2
  BY <1>3, TwoBytes
<1> HIDE DEF p
<1>5. TxSize \in Nat
  BY BuffersAssumption
<1>6. CASE kind = "subscribe"
  <2> DEFINE x == <<0>>
  <2> DEFINE r == p \o f \o x
  <2> DEFINE n == 5 + Len(topic)
  <2> DEFINE b == <<130>> \o EncodeLength(n) \o p \o f \o x
  <2>1. x \in Seq(Byte) /\ Len(x) = 1
    BY <1>3, OneByte
  <2> HIDE DEF x
  <2>2. /\ r \in Seq(Byte) /\ Len(r) = n /\ n = Len(p) + Len(f) + Len(x)
        /\ SubSeq(r, Len(p) + 1, Len(p) + Len(f)) = f
    <3>1. Len(f) > 0
      BY <1>1, <1>2
    <3>2. /\ r \in Seq(Byte) /\ Len(r) = Len(p) + Len(f) + Len(x)
          /\ SubSeq(r, Len(p) + 1, Len(p) + Len(f)) = f
      BY <1>2, <1>4, <2>1, <3>1, Middle
    <3> HIDE DEF r
    <3> QED
      BY <1>1, <1>2, <1>4, <2>1, <3>2
  <2>3. IsPacket(b, 130, r)
    <3>1. 3 + Len(p) + Len(f) + Len(x) <= TxSize /\ Len(f) > 0
      BY <1>1, <1>2, <1>4, <1>5, <2>1
    <3>2. n = Len(p) + Len(f) + Len(x) /\ 130 \in Byte
      BY <2>2, Headers
    <3> HIDE DEF n
    <3>3. p \in Seq(Byte) /\ f \in Seq(Byte) /\ x \in Seq(Byte)
      BY <1>2, <1>4, <2>1
    <3>4. IsPacket(<<130>> \o EncodeLength(Len(p) + Len(f) + Len(x)) \o p \o f \o x, 130, r)
      BY <3>1, <3>2, <3>3, ThreePieces, Zenon
    <3> QED
      BY <3>2, <3>4
  <2> HIDE DEF r, b
  <2>4. Parse(b) = [kind |-> "subscribe", topic |-> String(SubSeq(r, 3, Len(r) - 1))]
    <3>1. IsFramed(b, 130, r) /\ r \in Seq(Byte) /\ 130 \in Byte
      BY <2>2, <2>3, Headers DEF IsPacket
    <3> QED
      BY <3>1, ParseOf
  <2>5. SubSeq(r, 3, Len(r) - 1) = f
    BY <1>1, <1>2, <1>4, <2>1, <2>2
  <2>6. IsRequest(b, [kind |-> "subscribe", topic |-> topic])
    BY <1>2, <2>3, <2>4, <2>5 DEF IsRequest, IsPacket
  <2>7. TopicOf(kind, n) = b
    BY <1>6, Headers DEF TopicOf, b, f, p, x, topic, PacketIdentifier
  <2> QED
    BY <1>1, <1>6, <2>6, <2>7 DEF topic
<1>7. CASE kind = "unsubscribe"
  <2> DEFINE x == <<>>
  <2> DEFINE r == p \o f \o x
  <2> DEFINE n == 4 + Len(topic)
  <2> DEFINE b == <<162>> \o EncodeLength(n) \o p \o f \o x
  <2>1. x \in Seq(Byte) /\ Len(x) = 0
    BY EmptySeq
  <2> HIDE DEF x
  <2>2. /\ r \in Seq(Byte) /\ Len(r) = n /\ n = Len(p) + Len(f) + Len(x)
        /\ SubSeq(r, Len(p) + 1, Len(p) + Len(f)) = f
    <3>1. Len(f) > 0
      BY <1>1, <1>2
    <3>2. /\ r \in Seq(Byte) /\ Len(r) = Len(p) + Len(f) + Len(x)
          /\ SubSeq(r, Len(p) + 1, Len(p) + Len(f)) = f
      BY <1>2, <1>4, <2>1, <3>1, Middle
    <3> HIDE DEF r
    <3> QED
      BY <1>1, <1>2, <1>4, <2>1, <3>2
  <2>3. IsPacket(b, 162, r)
    <3>1. 3 + Len(p) + Len(f) + Len(x) <= TxSize /\ Len(f) > 0
      BY <1>1, <1>2, <1>4, <1>5, <2>1
    <3>2. n = Len(p) + Len(f) + Len(x) /\ 162 \in Byte
      BY <2>2, Headers
    <3> HIDE DEF n
    <3>3. p \in Seq(Byte) /\ f \in Seq(Byte) /\ x \in Seq(Byte)
      BY <1>2, <1>4, <2>1
    <3>4. IsPacket(<<162>> \o EncodeLength(Len(p) + Len(f) + Len(x)) \o p \o f \o x, 162, r)
      BY <3>1, <3>2, <3>3, ThreePieces, Zenon
    <3> QED
      BY <3>2, <3>4
  <2> HIDE DEF r, b
  <2>4. Parse(b) = [kind |-> "unsubscribe", topic |-> String(SubSeq(r, 3, Len(r)))]
    <3>1. IsFramed(b, 162, r) /\ r \in Seq(Byte) /\ 162 \in Byte
      BY <2>2, <2>3, Headers DEF IsPacket
    <3> QED
      BY <3>1, ParseOf
  <2>5. SubSeq(r, 3, Len(r)) = f
    BY <1>1, <1>2, <1>4, <2>1, <2>2
  <2>6. IsRequest(b, [kind |-> "unsubscribe", topic |-> topic])
    BY <1>2, <2>3, <2>4, <2>5 DEF IsRequest, IsPacket
  <2>7. TopicOf(kind, n) = b
    BY <1>7, Headers DEF TopicOf, b, f, p, x, topic, PacketIdentifier
  <2> QED
    BY <1>1, <1>7, <2>6, <2>7 DEF topic
<1> QED
  BY <1>6, <1>7

(* CONNECT, with credentials or without.                                   *)
ConnectOf(c, n) ==
  Header(1, 0) \o EncodeLength(n)
    \o ProtocolName \o <<4, IF HasCredentials(c) THEN 194 ELSE 2>> \o Word(10)
    \o Field(ClientId)
    \o IF HasCredentials(c) THEN Field(c.username) \o Field(c.password) ELSE <<>>

ConnectLength(c) ==
  10 + 2 + Len(ClientId)
    + IF HasCredentials(c) THEN 4 + Len(c.username) + Len(c.password) ELSE 0

(* The ten bytes in front of the client's name: the eighth has the flags.  *)
LEMMA Preface ==
  ASSUME NEW flags \in Byte
  PROVE  LET p == ProtocolName \o <<4, flags>> \o Word(10)
         IN  /\ p \in Seq(Byte) /\ Len(p) = 10 /\ p[8] = flags
             /\ \A h \in Seq(Byte) : h \o ProtocolName \o <<4, flags>> \o Word(10) = h \o p
<1> DEFINE u == ProtocolName
<1> DEFINE v == <<4, flags>>
<1> DEFINE w == Word(10)
<1>1. u \in Seq(Byte) /\ Len(u) = 6
  <2>1. 0 \in Byte /\ 4 \in Byte /\ 77 \in Byte /\ 81 \in Byte /\ 84 \in Byte
    BY DEF Byte
  <2> QED
    BY <2>1 DEF ProtocolName
<1>2. v \in Seq(Byte) /\ Len(v) = 2 /\ v[2] = flags
  <2>1. 4 \in Byte
    BY DEF Byte
  <2> QED
    BY <2>1, TwoBytes
<1>3. w \in Seq(Byte) /\ Len(w) = 2
  BY WordIs
<1> HIDE DEF u, v, w
<1> DEFINE a == u \o v
<1> DEFINE p == a \o w
<1>4. IsJoin(a, u, v)
  BY <1>1, <1>2, Pieces
<1>5. ASSUME NEW h \in Seq(Byte) PROVE ((h \o u) \o v) \o w = h \o p
  <2>1. (h \o u) \o v = h \o a
    BY <1>1, <1>2, Regroup
  <2>2. a \in Seq(Byte)
    BY <1>4 DEF IsJoin
  <2> HIDE DEF a
  <2>3. (h \o a) \o w = h \o (a \o w)
    BY <1>3, <2>2, Regroup
  <2> QED
    BY <2>1, <2>3
<1> HIDE DEF a
<1>6. a \in Seq(Byte) /\ Len(a) = 8 /\ a[8] = flags
  <2>1. a \in Seq(Byte) /\ Len(a) = 8 /\ \A i \in 1 .. 2 : a[6 + i] = v[i]
    BY <1>1, <1>2, <1>4 DEF IsJoin
  <2>2. a[6 + 2] = v[2]
    BY <2>1
  <2> QED
    BY <1>2, <2>1, <2>2
<1>7. IsJoin(p, a, w)
  BY <1>3, <1>6, Pieces
<1> HIDE DEF p
<1>8. p \in Seq(Byte) /\ Len(p) = 10 /\ p[8] = flags
  BY <1>3, <1>6, <1>7 DEF IsJoin
<1> QED
  BY <1>5, <1>8 DEF p, a, u, v, w

LEMMA ConnectReads ==
  ASSUME NEW c \in Credentials
  PROVE  IsRequest(ConnectOf(c, ConnectLength(c)),
                   [kind |-> "connect", id |-> ClientId, username |-> c.username,
                    password |-> c.password])
<1> DEFINE flags == IF HasCredentials(c) THEN 194 ELSE 2
<1> DEFINE p == ProtocolName \o <<4, flags>> \o Word(10)
<1> DEFINE f == Field(ClientId)
<1> DEFINE x == IF HasCredentials(c) THEN Field(c.username) \o Field(c.password) ELSE <<>>
<1> DEFINE n == ConnectLength(c)
<1> DEFINE h == <<16>> \o EncodeLength(n)
<1> DEFINE r == p \o f \o x
<1> DEFINE b == h \o p \o f \o x
<1> DEFINE k == Len(ClientId)
<1> DEFINE l == Len(c.username)
<1> DEFINE m == Len(c.password)
<1>1. ClientId \in Seq(Byte) /\ c.username \in Seq(Byte) /\ c.password \in Seq(Byte)
  <2>1. c \in [username : Seq(Byte), password : Seq(Byte)] /\ ClientId \in Seq(Byte)
    BY BytesAssumption
  <2> QED
    BY <2>1
<1>2. /\ TxSize \in Nat /\ k \in Nat /\ l \in Nat /\ m \in Nat
      /\ 19 + k + l + m <= TxSize /\ TxSize <= 16386
      /\ k \in Lengths /\ l \in Lengths /\ m \in Lengths
  <2>1. TxSize \in Nat /\ TxSize <= 16386
    BY BuffersAssumption
  <2>2. 19 + k + l + m <= TxSize
    BY ConnectFits
  <2>3. k \in Nat /\ l \in Nat /\ m \in Nat
    BY <1>1, LenProperties
  <2> HIDE DEF k, l, m
  <2>4. k <= 65535 /\ l <= 65535 /\ m <= 65535
    BY <2>1, <2>2, <2>3
  <2> QED
    BY <2>1, <2>2, <2>3, <2>4, LengthsAre
<1>3. flags \in Byte /\ 16 \in Byte
  BY DEF Byte
<1>4. /\ p \in Seq(Byte) /\ Len(p) = 10 /\ p[8] = flags
      /\ \A g \in Seq(Byte) : g \o ProtocolName \o <<4, flags>> \o Word(10) = g \o p
  <2> HIDE DEF flags
  <2> QED
    BY <1>3, Preface
<1>5. f \in Seq(Byte) /\ Len(f) = 2 + k
  BY <1>1, <1>2, FieldAlone
<1>6. /\ x \in Seq(Byte) /\ n \in Nat /\ n = Len(p) + Len(f) + Len(x) /\ 3 + n <= TxSize
      /\ HasCredentials(c) => String(x) = c.username /\ String(After(x)) = c.password
  <2> HIDE DEF p, f
  <2>1. CASE HasCredentials(c)
    <3> DEFINE y == Field(c.username)
    <3> DEFINE z == Field(c.password)
    <3>1. z \in Seq(Byte) /\ Len(z) = 2 + m /\ String(z) = c.password
      BY <1>1, <1>2, FieldAlone
    <3> HIDE DEF z
    <3>2. /\ y \in Seq(Byte) /\ Len(y) = 2 + l
          /\ String(y \o z) = c.username /\ After(y \o z) = z
      <4> DEFINE u == c.username
      <4>1. u \in Seq(Byte) /\ Len(u) \in Lengths /\ z \in Seq(Byte)
        BY <1>1, <1>2, <3>1
      <4> HIDE DEF u
      <4>2. /\ Field(u) \in Seq(Byte) /\ Len(Field(u)) = 2 + Len(u)
            /\ String(Field(u) \o z) = u /\ After(Field(u) \o z) = z
        BY <4>1, FieldIs
      <4> QED
        BY <4>2 DEF u
    <3> HIDE DEF y
    <3>3. y \o z \in Seq(Byte) /\ Len(y \o z) = Len(y) + Len(z)
      BY <3>1, <3>2, ConcatProperties
    <3>4. x = y \o z
      BY <2>1 DEF y, z
    <3> HIDE DEF x
    <3>5. n = 10 + 2 + k + (4 + l + m)
      BY <2>1, Zenon DEF ConnectLength
    <3> HIDE DEF n, k, l, m
    <3>6. x \in Seq(Byte) /\ Len(x) = 4 + l + m
      BY <1>2, <3>1, <3>2, <3>3, <3>4
    <3>7. n \in Nat /\ n = Len(p) + Len(f) + Len(x) /\ 3 + n <= TxSize
      BY <1>2, <1>4, <1>5, <3>5, <3>6
    <3>8. String(x) = c.username /\ String(After(x)) = c.password
      BY <3>1, <3>2, <3>4
    <3> QED
      BY <3>6, <3>7, <3>8
  <2>2. CASE ~HasCredentials(c)
    <3>1. x \in Seq(Byte) /\ Len(x) = 0
      BY <2>2, EmptySeq
    <3> HIDE DEF x
    <3>2. n = 10 + 2 + k + 0
      BY <2>2, Zenon DEF ConnectLength
    <3> HIDE DEF n, k, l, m
    <3> QED
      BY <1>1, <1>2, <1>4, <1>5, <2>2, <3>1, <3>2
  <2> QED
    BY <2>1, <2>2
<1> HIDE DEF p, f, x, n, flags
<1>7. IsPacket(b, 16, r)
  <2>1. 3 + Len(p) + Len(f) + Len(x) <= TxSize /\ Len(f) > 0
    BY <1>1, <1>2, <1>4, <1>5, <1>6
  <2> QED
    <3>1. p \in Seq(Byte) /\ f \in Seq(Byte) /\ x \in Seq(Byte) /\ 16 \in Byte
      BY <1>3, <1>4, <1>5, <1>6
    <3>2. IsPacket(<<16>> \o EncodeLength(Len(p) + Len(f) + Len(x)) \o p \o f \o x, 16, r)
      BY <2>1, <3>1, ThreePieces, Zenon
    <3> QED
      BY <1>6, <3>2
<1>8. ConnectOf(c, n) = b
  <2>1. h \in Seq(Byte)
    <3>1. IsLength(EncodeLength(n), n)
      <4>1. n \in Nat /\ n < 16384
        BY <1>2, <1>6
      <4> QED
        BY <4>1, EncodeType
    <3>2. EncodeLength(n) \in Seq(Byte)
      BY <3>1 DEF IsLength
    <3>3. <<16>> \in Seq(Byte)
      BY <1>3, OneByte
    <3> QED
      BY <3>2, <3>3, ConcatProperties
  <2> HIDE DEF h
  <2>2. h \o ProtocolName \o <<4, flags>> \o Word(10) = h \o p
    BY <1>4, <2>1
  <2>3. ConnectOf(c, n) = h \o ProtocolName \o <<4, flags>> \o Word(10) \o f \o x
    BY Headers DEF ConnectOf, h, flags, f, x
  <2> QED
    BY <2>2, <2>3
<1>9. /\ r \in Seq(Byte) /\ r[8] = flags /\ SubSeq(r, 11, Len(r)) = f \o x
  <2> DEFINE t == f \o x
  <2>1. t \in Seq(Byte) /\ r = p \o t
    BY <1>4, <1>5, <1>6, Regroup, ConcatProperties
  <2> HIDE DEF t
  <2>2. IsJoin(p \o t, p, t)
    BY <1>4, <2>1, Pieces
  <2> HIDE DEF r
  <2>3. IsJoin(r, p, t)
    BY <2>1, <2>2
  <2>4. /\ r \in Seq(Byte) /\ Len(r) = Len(p) + Len(t)
        /\ SubSeq(r, Len(p) + 1, Len(p) + Len(t)) = t
        /\ \A i \in 1 .. Len(p) : r[i] = p[i]
    BY <2>3 DEF IsJoin
  <2>5. Len(p) + 1 = 11 /\ 8 \in 1 .. Len(p)
    BY <1>4
  <2>6. r[8] = flags
    BY <1>4, <2>4, <2>5
  <2>7. SubSeq(r, 11, Len(r)) = t
    BY <2>4, <2>5
  <2> QED
    BY <2>4, <2>6, <2>7 DEF t
<1>10. String(f \o x) = ClientId /\ After(f \o x) = x
  BY <1>1, <1>2, <1>6, FieldIs DEF f
<1> HIDE DEF r, b
<1>11. Parse(b) = ParseConnect(r)
  BY <1>3, <1>7, <1>9, ParseOf DEF IsPacket
<1>12. ParseConnect(r) = [kind |-> "connect", id |-> ClientId, username |-> c.username,
                          password |-> c.password]
  <2>1. CASE HasCredentials(c)
    <3>1. flags >= 128 /\ (flags \div 64) % 2 = 1
      BY <2>1 DEF flags
    <3> QED
      BY <1>6, <1>9, <1>10, <2>1, <3>1 DEF ParseConnect
  <2>2. CASE ~HasCredentials(c)
    <3>1. ~(flags >= 128) /\ (flags \div 64) % 2 # 1
      BY <2>2 DEF flags
    <3>2. c.username = <<>> /\ c.password = <<>>
      BY <2>2 DEF HasCredentials
    <3> QED
      BY <1>9, <1>10, <3>1, <3>2 DEF ParseConnect
  <2> QED
    BY <2>1, <2>2
<1>13. IsRequest(b, [kind |-> "connect", id |-> ClientId, username |-> c.username,
                     password |-> c.password])
  BY <1>7, <1>11, <1>12 DEF IsPacket, IsRequest
<1> QED
  BY <1>8, <1>13 DEF n

(* PINGREQ and DISCONNECT have no body.                                    *)
LEMMA ShortReads ==
  /\ IsRequest(Header(12, 0) \o <<0>>, [kind |-> "pingreq"])
  /\ IsRequest(Header(14, 0) \o <<0>>, [kind |-> "disconnect"])
<1> DEFINE none == <<>>
<1>1. none \in Seq(Byte) /\ Len(none) = 0
  BY EmptySeq
<1>2. TxSize \in Nat /\ 8 <= TxSize
  <2>1. Topics["delta"] \in Seq(Byte)
    BY BytesAssumption
  <2>2. Len(Topics["delta"]) \in Nat
    BY <2>1, LenProperties
  <2> QED
    BY <2>2, BuffersAssumption, TopicFits
<1>3. ASSUME NEW type \in {192, 224}
      PROVE  IsPacket(<<type>> \o <<0>>, type, none)
  <2> DEFINE b == <<type, 0>>
  <2>1. type \in Byte /\ 0 \in Byte
    BY DEF Byte
  <2>2. b \in Seq(Byte) /\ Len(b) = 2 /\ b[1] = type /\ b[2] = 0 /\ <<type>> \o <<0>> = b
    BY <2>1, TwoBytes
  <2> HIDE DEF b
  <2>3. RemainingLength(b) = 0
    BY <2>2 DEF RemainingLength
  <2>4. Rest(b) = none
    <3>1. Rest(b) = SubSeq(b, 3, 2)
      BY <2>2 DEF Rest
    <3> QED
      BY <3>1, SubSeqEmpty
  <2> HIDE DEF none
  <2>5. IsPacket(b, type, none)
    BY <1>1, <1>2, <2>2, <2>3, <2>4 DEF IsPacket, IsFramed
  <2> QED
    BY <2>2, <2>5
<1> HIDE DEF none
<1>4. ASSUME NEW type \in {192, 224}, NEW request, NEW h, h = <<type>>,
             type = 192 => request = [kind |-> "pingreq"],
             type = 224 => request = [kind |-> "disconnect"]
      PROVE  IsRequest(h \o <<0>>, request)
  <2>1. IsPacket(h \o <<0>>, type, none) /\ type \in Byte
    BY <1>3, <1>4, Headers
  <2> DEFINE b == h \o <<0>>
  <2>2. IsPacket(b, type, none)
    BY <2>1
  <2> HIDE DEF b
  <2>3. /\ type = 192 => Parse(b) = [kind |-> "pingreq"]
        /\ type = 224 => Parse(b) = [kind |-> "disconnect"]
    <3>1. IsFramed(b, type, none)
      BY <2>2 DEF IsPacket
    <3> QED
      <4>1. type \in Byte /\ none \in Seq(Byte)
        BY <1>1, <2>1
      <4>2. type = 192 => Parse(b) = [kind |-> "pingreq"]
        BY <3>1, <4>1, ParseOf
      <4>3. type = 224 => Parse(b) = [kind |-> "disconnect"]
        BY <3>1, <4>1, ParseOf
      <4> QED
        BY <4>2, <4>3
  <2>4. IsRequest(b, request)
    BY <1>4, <2>2, <2>3 DEF IsPacket, IsRequest
  <2> QED
    BY <2>4 DEF b
<1> QED
  BY <1>4, Headers

----------------------------------------------------------------------------
(* What comes in.                                                          *)

LEMMA MinIs ==
  ASSUME NEW S, S \subseteq Int, NEW m \in S, \A y \in S : m <= y
  PROVE  Min(S) = m
<1>1. Min(S) \in S /\ \A y \in S : Min(S) <= y
  BY DEF Min
<1>2. Min(S) <= m /\ m <= Min(S) /\ Min(S) \in Int /\ m \in Int
  BY <1>1
<1> QED
  BY <1>2

(* Where the length of a packet ends: at the first byte without a top bit. *)
LEMMA EndsAt ==
  ASSUME NEW b, NEW m \in 2 .. 5, ByteAt(b, m) < 128,
         \A i \in 2 .. 5 : i < m => ~(ByteAt(b, i) < 128)
  PROVE  LengthEnd(b) = m
<1> DEFINE S == {i \in 2 .. 5 : ByteAt(b, i) < 128 \/ i = 5}
<1>1. S \subseteq Int /\ m \in S
  OBVIOUS
<1>2. \A i \in S : m <= i
  OBVIOUS
<1>3. LengthEnd(b) = Min(S)
  BY DEF LengthEnd
<1> HIDE DEF S
<1>4. Min(S) = m
  BY <1>1, <1>2, MinIs
<1> QED
  BY <1>3, <1>4

(* Where a piece is in a packet.                                           *)
IsAt(b, k, s) ==
  /\ b \in Seq(Byte) /\ s \in Seq(Byte) /\ k \in Nat /\ k + Len(s) <= Len(b)
  /\ \A i \in 1 .. Len(s) : b[k + i] = s[i]

(* The length n, written as e, is behind the type of the packet b.         *)
HasLength(b, e, n) == n \in Nat /\ n < 16384 /\ IsLength(e, n) /\ IsAt(b, 1, e)

LEMMA EndOfLength ==
  ASSUME NEW b, NEW e, NEW n, HasLength(b, e, n)
  PROVE  LET x == ByteAt(b, 2)
             y == ByteAt(b, 3)
         IN  /\ n < 128 => LengthEnd(b) = 2 /\ x = n
             /\ n >= 128 => LengthEnd(b) = 3 /\ x \in Int /\ (x % 128) + 128 * y = n
                           /\ y \in Int /\ 0 <= y /\ y < 128
<1> DEFINE x == ByteAt(b, 2)
<1> DEFINE y == ByteAt(b, 3)
<1> n \in Nat /\ n < 16384 /\ IsLength(e, n) /\ b \in Seq(Byte)
  BY DEF HasLength, IsAt
<1>0. /\ Len(b) \in Nat /\ 1 + Len(e) <= Len(b)
      /\ \A i \in 1 .. Len(e) : b[1 + i] = e[i]
  <2>1. IsAt(b, 1, e)
    BY DEF HasLength
  <2> QED
    BY <2>1, LenProperties DEF IsAt
<1>1. CASE n < 128
  <2>1. Len(e) = 1 /\ e[1] = n
    BY <1>1 DEF IsLength
  <2>2. x = n
    <3>1. b[2] = n /\ 2 \in 1 .. Len(b)
      BY <1>0, <2>1
    <3> QED
      BY <3>1 DEF ByteAt
  <2>3. LengthEnd(b) = 2
    <3>1. 2 \in 2 .. 5 /\ \A i \in 2 .. 5 : ~(i < 2)
      OBVIOUS
    <3>2. ByteAt(b, 2) < 128
      BY <1>1, <2>2
    <3> QED
      BY <3>1, <3>2, EndsAt
  <2> QED
    BY <1>1, <2>2, <2>3
<1>2. CASE n >= 128
  <2>1. Len(e) = 2 /\ e[1] >= 128 /\ e[2] < 128 /\ (e[1] % 128) + 128 * e[2] = n
    BY <1>2 DEF IsLength
  <2>2. b[2] = e[1] /\ b[3] = e[2] /\ 2 \in 1 .. Len(b) /\ 3 \in 1 .. Len(b)
    BY <1>0, <2>1
  <2>3. b[2] \in Int /\ b[3] \in Int /\ 0 <= b[3]
    <3>1. b[2] \in Byte /\ b[3] \in Byte
      BY <2>2, BytesOf
    <3> QED
      BY <3>1, BytesAreIntegers
  <2>4. x = e[1] /\ y = e[2] /\ x \in Int /\ y \in Int /\ 0 <= y
    BY <2>2, <2>3 DEF ByteAt
  <2>5. LengthEnd(b) = 3
    <3>1. 3 \in 2 .. 5 /\ \A i \in 2 .. 5 : i < 3 => i = 2
      OBVIOUS
    <3>2. ByteAt(b, 3) < 128 /\ ~(ByteAt(b, 2) < 128)
      <4>1. y < 128 /\ ~(x < 128)
        BY <2>1, <2>4
      <4> QED
        BY <4>1
    <3> QED
      BY <3>1, <3>2, EndsAt
  <2> HIDE DEF x, y
  <2>6. (x % 128) + 128 * y = n /\ y < 128
    BY <2>1, <2>4
  <2> QED
    BY <1>2, <2>4, <2>5, <2>6 DEF x, y
<1> QED
  <2>1. n < 128 \/ n >= 128
    OBVIOUS
  <2> QED
    BY <1>1, <1>2, <2>1

(* The length as it adds up, byte by byte; three indices at most.          *)
Term(b, i) == (ByteAt(b, i) % 128) * 128 ^ (i - 2)
Valued(v, b) ==
  v = [i \in 1 .. LengthEnd(b) |-> IF i = 1 THEN 0 ELSE v[i - 1] + Term(b, i)]
Summed(b) ==
  [i \in 1 .. LengthEnd(b) |->
     IF i = 1 THEN 0 ELSE IF i = 2 THEN 0 + Term(b, 2) ELSE (0 + Term(b, 2)) + Term(b, i)]

LEMMA ValuedAt ==
  ASSUME NEW b, NEW v, Valued(v, b)
  PROVE  \A i \in 1 .. LengthEnd(b) : v[i] = IF i = 1 THEN 0 ELSE v[i - 1] + Term(b, i)
BY DEF Valued

LEMMA UptoThree ==
  \A k : k = 2 \/ k = 3 => \A i \in 1 .. k : i = 1 \/ i = 2 \/ (i = 3 /\ k = 3)
OBVIOUS

LEMMA SummedIsValued ==
  ASSUME NEW b, LengthEnd(b) \in {2, 3} PROVE Valued(Summed(b), b)
<1> DEFINE k == LengthEnd(b)
<1> DEFINE v == Summed(b)
<1>1. ASSUME NEW i \in 1 .. k
      PROVE  v[i] = IF i = 1 THEN 0 ELSE v[i - 1] + Term(b, i)
  <2>1. (k = 2 \/ k = 3) /\ i \in 1 .. k
    OBVIOUS
  <2>2. \A j \in 1 .. k :
          v[j] = IF j = 1 THEN 0
                 ELSE IF j = 2 THEN 0 + Term(b, 2) ELSE (0 + Term(b, 2)) + Term(b, j)
    BY DEF Summed
  <2> HIDE DEF k, v
  <2>3. i = 1 \/ i = 2 \/ (i = 3 /\ k = 3)
    BY <2>1, UptoThree
  <2>4. v[1] = 0 /\ v[2] = 0 + Term(b, 2)
    BY <2>1, <2>2
  <2>5. k = 3 => v[3] = (0 + Term(b, 2)) + Term(b, 3)
    BY <2>2
  <2> QED
    BY <2>3, <2>4, <2>5
<1>2. v = [i \in 1 .. k |-> v[i]]
  BY DEF Summed
<1>3. Valued(v, b)
  <2> HIDE DEF v
  <2>1. v = [i \in 1 .. k |-> IF i = 1 THEN 0 ELSE v[i - 1] + Term(b, i)]
    BY <1>1, <1>2
  <2> QED
    BY <2>1, Zenon DEF Valued
<1> QED
  BY <1>3

LEMMA DecodeIsValued ==
  ASSUME NEW b, LengthEnd(b) \in {2, 3}
  PROVE  \E v : Valued(v, b) /\ DecodeLength(b) = v[LengthEnd(b)]
<1>1. Valued(Summed(b), b)
  BY SummedIsValued
<1> DEFINE v == CHOOSE v : Valued(v, b)
<1>2. DecodeLength(b) = v[LengthEnd(b)]
  BY Zenon DEF DecodeLength, Valued, Term
<1>3. Valued(v, b)
  BY <1>1, Zenon
<1> QED
  BY <1>2, <1>3

(* mqttDecodeLength reads what mqttEncodeLength writes.                    *)
LEMMA DecodeIs ==
  ASSUME NEW b, NEW e, NEW n, HasLength(b, e, n)
  PROVE  DecodeLength(b) = n /\ LengthEnd(b) = 1 + Len(e)
<1> DEFINE x == ByteAt(b, 2)
<1> DEFINE y == ByteAt(b, 3)
<1>1. /\ n < 128 => LengthEnd(b) = 2 /\ x = n
      /\ n >= 128 => LengthEnd(b) = 3 /\ x \in Int /\ (x % 128) + 128 * y = n
                     /\ y \in Int /\ 0 <= y /\ y < 128
  BY EndOfLength
<1> n \in Nat /\ n < 16384 /\ IsLength(e, n) /\ b \in Seq(Byte)
  BY DEF HasLength, IsAt
<1>2. LengthEnd(b) \in {2, 3}
  BY <1>1
<1>3. PICK v : Valued(v, b) /\ DecodeLength(b) = v[LengthEnd(b)]
  BY <1>2, DecodeIsValued
<1>4. \A i \in 1 .. LengthEnd(b) : v[i] = IF i = 1 THEN 0 ELSE v[i - 1] + Term(b, i)
  <2>1. Valued(v, b)
    BY <1>3
  <2> QED
    BY <2>1, ValuedAt
<1>5. v[1] = 0 /\ v[2] = 0 + Term(b, 2)
  <2>1. 1 \in 1 .. LengthEnd(b) /\ 2 \in 1 .. LengthEnd(b)
    BY <1>2
  <2>2. v[2] = v[2 - 1] + Term(b, 2)
    BY <1>4, <2>1
  <2> QED
    BY <1>4, <2>1, <2>2
<1>6. CASE n < 128
  <2>1. Term(b, 2) = n
    <3>1. (n % 128) * 128 ^ 0 = n
      BY <1>6
    <3> QED
      BY <1>1, <1>6, <3>1 DEF Term
  <2>2. Len(e) = 1
    BY <1>6 DEF IsLength
  <2> QED
    BY <1>1, <1>3, <1>5, <1>6, <2>1, <2>2
<1>7. CASE n >= 128
  <2>1. v[3] = v[2] + Term(b, 3)
    <3>1. 3 \in 1 .. LengthEnd(b)
      BY <1>1, <1>7
    <3>2. v[3] = v[3 - 1] + Term(b, 3)
      BY <1>4, <3>1
    <3> QED
      BY <3>2
  <2>2. Term(b, 2) = x % 128 /\ Term(b, 3) = 128 * y
    <3>1. x \in Int /\ y \in Int /\ 0 <= y /\ y < 128
      BY <1>1, <1>7
    <3> HIDE DEF x, y
    <3>2. (x % 128) * 128 ^ 0 = x % 128 /\ (y % 128) * 128 ^ 1 = 128 * y
      BY <3>1
    <3>3. Term(b, 2) = (x % 128) * 128 ^ 0 /\ Term(b, 3) = (y % 128) * 128 ^ 1
      BY DEF Term, x, y
    <3> QED
      BY <3>2, <3>3
  <2>3. Len(e) = 2
    BY <1>7 DEF IsLength
  <2>4. x % 128 \in Int /\ 128 * y \in Int /\ (x % 128) + 128 * y = n /\ LengthEnd(b) = 3
    BY <1>1, <1>7
  <2>5. v[3] = (0 + (x % 128)) + 128 * y
    BY <1>5, <2>1, <2>2
  <2> QED
    BY <1>3, <2>3, <2>4, <2>5
<1> QED
  BY <1>6, <1>7

LEMMA AtEnds ==
  ASSUME NEW s \in Seq(Byte), NEW t \in Seq(Byte)
  PROVE  IsAt(s \o t, 0, s) /\ IsAt(s \o t, Len(s), t)
<1> DEFINE b == s \o t
<1>1. IsJoin(b, s, t) /\ Len(s) \in Nat /\ Len(t) \in Nat
  BY Pieces, LenProperties
<1> HIDE DEF b
<1>2. /\ b \in Seq(Byte) /\ Len(b) = Len(s) + Len(t)
      /\ \A i \in 1 .. Len(s) : b[i] = s[i]
      /\ \A i \in 1 .. Len(t) : b[Len(s) + i] = t[i]
  BY <1>1 DEF IsJoin
<1>3. IsAt(b, 0, s)
  <2>1. \A i \in 1 .. Len(s) : b[0 + i] = s[i]
    BY <1>1, <1>2
  <2> QED
    BY <1>1, <1>2, <2>1 DEF IsAt
<1>4. IsAt(b, Len(s), t)
  BY <1>1, <1>2 DEF IsAt
<1> QED
  BY <1>3, <1>4 DEF b

LEMMA AtLonger ==
  ASSUME NEW b, NEW k, NEW s, IsAt(b, k, s), NEW t \in Seq(Byte)
  PROVE  IsAt(b \o t, k, s)
<1> DEFINE c == b \o t
<1>1. /\ b \in Seq(Byte) /\ s \in Seq(Byte) /\ k \in Nat /\ k + Len(s) <= Len(b)
      /\ \A i \in 1 .. Len(s) : b[k + i] = s[i]
  BY DEF IsAt
<1>2. IsJoin(c, b, t) /\ Len(b) \in Nat /\ Len(t) \in Nat /\ Len(s) \in Nat
  BY <1>1, Pieces, LenProperties
<1> HIDE DEF c
<1>3. c \in Seq(Byte) /\ Len(c) = Len(b) + Len(t) /\ \A i \in 1 .. Len(b) : c[i] = b[i]
  BY <1>2 DEF IsJoin
<1>4. \A i \in 1 .. Len(s) : k + i \in 1 .. Len(b)
  BY <1>1, <1>2
<1>5. IsAt(c, k, s)
  <2>1. k + Len(s) <= Len(c)
    BY <1>1, <1>2, <1>3
  <2>2. \A i \in 1 .. Len(s) : c[k + i] = s[i]
    <3>1. ASSUME NEW i \in 1 .. Len(s) PROVE c[k + i] = s[i]
      <4>1. k + i \in 1 .. Len(b) /\ b[k + i] = s[i]
        BY <1>1, <1>4
      <4> QED
        BY <1>3, <4>1
    <3> QED
      BY <3>1
  <2> QED
    BY <1>1, <1>3, <2>1, <2>2 DEF IsAt
<1> QED
  BY <1>5 DEF c

LEMMA FetchedIs ==
  ASSUME NEW b, NEW k, NEW s, IsAt(b, k, s)
  PROVE  Fetched(b, k + 1, Len(s)) = s
<1>1. /\ b \in Seq(Byte) /\ s \in Seq(Byte) /\ k \in Nat /\ k + Len(s) <= Len(b)
      /\ \A i \in 1 .. Len(s) : b[k + i] = s[i]
  BY DEF IsAt
<1>2. Len(b) \in Nat /\ Len(s) \in Nat
  BY <1>1, LenProperties
<1>3. Min({(k + 1) + Len(s) - 1, Len(b)}) = k + Len(s)
  <2> DEFINE S == {(k + 1) + Len(s) - 1, Len(b)}
  <2>1. S \subseteq Int /\ k + Len(s) \in S /\ \A y \in S : k + Len(s) <= y
    BY <1>1, <1>2
  <2> HIDE DEF S
  <2>2. Min(S) = k + Len(s)
    BY <2>1, MinIs
  <2> QED
    BY <2>2 DEF S
<1>4. SubSeq(b, k + 1, k + Len(s)) = s
  <2>1. \A i \in k + 1 .. k + Len(s) : b[i] \in Byte
    <3>1. \A i \in k + 1 .. k + Len(s) : i \in 1 .. Len(b)
      BY <1>1, <1>2
    <3> QED
      BY <1>1, <3>1, BytesOf
  <2> DEFINE m == k + 1
  <2> DEFINE n == k + Len(s)
  <2>2. m \in Int /\ n \in Int /\ \A i \in m .. n : b[i] \in Byte
    BY <1>1, <1>2, <2>1
  <2> HIDE DEF m, n
  <2>3. /\ SubSeq(b, m, n) \in Seq(Byte)
        /\ Len(SubSeq(b, m, n)) = IF m <= n THEN n - m + 1 ELSE 0
        /\ \A i \in 1 .. n - m + 1 : SubSeq(b, m, n)[i] = b[m + i - 1]
    BY <2>2, SubSeqProperties
  <2> DEFINE c == SubSeq(b, m, n)
  <2>4. c \in Seq(Byte) /\ Len(c) = Len(s) /\ \A i \in 1 .. Len(s) : c[i] = b[k + i]
    BY <1>1, <1>2, <2>3 DEF m, n
  <2> HIDE DEF c
  <2>5. c = s
    BY <1>1, <2>4, SeqEqual
  <2> QED
    BY <2>5 DEF c, m, n
<1> QED
  BY <1>3, <1>4 DEF Fetched

LEMMA SmallModulo == \A a, w \in Nat : a < w => a % w = a
<1> SUFFICES ASSUME NEW a \in Nat, NEW w \in Nat, a < w PROVE a % w = a
  OBVIOUS
<1>1. a = w * (a \div w) + (a % w) /\ a % w \in 0 .. w - 1 /\ a \div w \in Int
  OBVIOUS
<1>2. a \div w = 0
  OBVIOUS
<1> QED
  BY <1>1, <1>2

(* What the client makes of a supported publication, whatever is behind    *)
(* it in the segment.                                                      *)
LEMMA DecodedIs ==
  ASSUME NEW p \in Publications, NEW segment \in Segments, Supported(p, segment)
  PROVE  Decoded(segment) = p
<1> DEFINE s == p.topic
<1> DEFINE t == p.payload
<1> DEFINE k == Len(BrokerBytes(p))
<1> DEFINE u == SubSeq(segment, k + 1, Len(segment))
<1> DEFINE n == 2 + Len(s) + Len(t)
<1> DEFINE e == BrokerLength(n)
<1> DEFINE w == Word(Len(s))
<1> DEFINE h == <<48>> \o e
<1> DEFINE hw == h \o w
<1> DEFINE hws == hw \o s
<1> DEFINE hwst == hws \o t
<1> DEFINE b == hwst \o u
<1>1. s \in Seq(Byte) /\ t \in Seq(Byte) /\ p = [topic |-> s, payload |-> t]
  <2>1. p \in [topic : Seq(Byte), payload : Seq(Byte)]
    BY BytesAssumption
  <2> QED
    BY <2>1
<1>2. /\ Len(s) \in Nat /\ Len(t) \in Nat /\ Len(s) <= TopicSize /\ Len(t) < PayloadSize
      /\ TopicSize \in Nat /\ PayloadSize \in Nat /\ 2 + TopicSize + PayloadSize < 16384
  <2>1. Len(s) \in Nat /\ Len(t) \in Nat
    BY <1>1, LenProperties
  <2>2. Len(s) <= TopicSize /\ Len(t) < PayloadSize
    BY DEF Supported
  <2> HIDE DEF s, t
  <2> QED
    BY <2>1, <2>2, BuffersAssumption
<1>3. BrokerBytes(p) = hwst
  BY DEF BrokerBytes, Word
<1> HIDE DEF s, t
<1>4. n \in Nat /\ n < 16384 /\ Len(s) <= 65535 /\ Len(t) < 65536
  BY <1>2
<1>5. IsLength(e, n)
  <2> HIDE DEF n
  <2>1. EncodeLength(n) = e
    BY <1>4, EncodeIs DEF BrokerLength
  <2>2. IsLength(EncodeLength(n), n)
    BY <1>4, EncodeType
  <2> QED
    BY <2>1, <2>2
<1>6. w \in Seq(Byte) /\ Len(w) = 2 /\ 256 * w[1] + w[2] = Len(s)
  BY <1>2, <1>4, WordIs
<1> HIDE DEF n, e, w
<1>7. e \in Seq(Byte) /\ Len(e) \in Nat /\ Len(e) <= 2
  <2>1. e \in Seq(Byte)
    BY <1>5 DEF IsLength
  <2>2. n < 128 => Len(e) = 1
    BY <1>5 DEF IsLength
  <2>3. n >= 128 => Len(e) = 2
    BY <1>5 DEF IsLength
  <2> QED
    <3>1. n < 128 \/ n >= 128
      BY <1>4
    <3>2. Len(e) = 1 \/ Len(e) = 2
      BY <2>2, <2>3, <3>1
    <3>3. \A i : i = 1 \/ i = 2 => i \in Nat /\ i <= 2
      OBVIOUS
    <3> QED
      BY <2>1, <3>2, <3>3, Zenon
<1>8. h \in Seq(Byte) /\ Len(h) = 1 + Len(e) /\ IsAt(h, 1, e)
  <2> DEFINE one == <<48>>
  <2>1. one \in Seq(Byte) /\ Len(one) = 1
    BY Headers, OneByte
  <2> HIDE DEF one
  <2>2. IsAt(one \o e, Len(one), e) /\ one \o e \in Seq(Byte) /\ Len(one \o e) = Len(one) + Len(e)
    BY <1>7, <2>1, AtEnds, ConcatProperties
  <2> QED
    BY <2>1, <2>2 DEF one
<1> HIDE DEF h
<1>9. hw \in Seq(Byte) /\ Len(hw) = Len(h) + 2 /\ IsAt(hw, 1, e) /\ IsAt(hw, Len(h), w)
  <2>1. h \in Seq(Byte) /\ w \in Seq(Byte)
    BY <1>6, <1>8
  <2>2. hw \in Seq(Byte) /\ Len(hw) = Len(h) + Len(w)
    BY <2>1, ConcatProperties
  <2>3. IsAt(hw, Len(h), w)
    BY <2>1, AtEnds
  <2>4. IsAt(hw, 1, e)
    BY <1>8, <2>1, AtLonger
  <2> QED
    BY <1>6, <2>2, <2>3, <2>4
<1> HIDE DEF hw
<1>10. /\ hws \in Seq(Byte) /\ Len(hws) = Len(hw) + Len(s) /\ IsAt(hws, 1, e)
       /\ IsAt(hws, Len(h), w) /\ IsAt(hws, Len(hw), s)
  BY <1>1, <1>9, AtEnds, AtLonger, ConcatProperties
<1> HIDE DEF hws
<1>11. /\ hwst \in Seq(Byte) /\ Len(hwst) = Len(hws) + Len(t) /\ IsAt(hwst, 1, e)
       /\ IsAt(hwst, Len(h), w) /\ IsAt(hwst, Len(hw), s) /\ IsAt(hwst, Len(hws), t)
  BY <1>1, <1>10, AtEnds, AtLonger, ConcatProperties
<1> HIDE DEF hwst
<1>12. /\ b = segment /\ IsAt(b, 1, e)
       /\ IsAt(b, Len(h), w) /\ IsAt(b, Len(hw), s) /\ IsAt(b, Len(hws), t)
  <2>1. /\ segment \in Seq(Byte) /\ Len(segment) \in Nat /\ k = Len(hwst) /\ k \in Nat
        /\ k <= Len(segment) /\ SubSeq(segment, 1, k) = hwst
    <3>1. segment \in Seq(Byte)
      BY BytesAssumption
    <3>2. k <= Len(segment) /\ SubSeq(segment, 1, k) = BrokerBytes(p)
      BY DEF Supported
    <3> QED
      BY <1>3, <1>11, <3>1, <3>2, LenProperties
  <2> HIDE DEF k
  <2>2. SubSeq(segment, 1, k) \o u = SubSeq(segment, 1, Len(segment)) /\ u \in Seq(Byte)
    <3>1. \A i \in k + 1 .. Len(segment) : segment[i] \in Byte
      <4>1. \A i \in k + 1 .. Len(segment) : i \in 1 .. Len(segment)
        BY <2>1
      <4> QED
        BY <2>1, <4>1, BytesOf
    <3>2. u \in Seq(Byte)
      BY <2>1, <3>1, SubSeqProperties
    <3>3. 1 \in 1 .. Len(segment) + 1 /\ k \in 1 - 1 .. Len(segment) /\ Len(segment) \in k .. Len(segment)
      BY <2>1
    <3> QED
      BY <2>1, <3>2, <3>3, ConcatAdjacentSubSeq
  <2>3. b = segment
    BY <2>1, <2>2, SubSeqFull
  <2>4. /\ IsAt(b, 1, e)
        /\ IsAt(b, Len(h), w) /\ IsAt(b, Len(hw), s) /\ IsAt(b, Len(hws), t)
    BY <1>11, <2>2, AtLonger
  <2> QED
    BY <2>3, <2>4
<1> HIDE DEF b
<1>13. DecodeLength(b) = n /\ LengthEnd(b) = Len(h)
  <2>1. HasLength(b, e, n)
    BY <1>4, <1>5, <1>12 DEF HasLength
  <2>2. DecodeLength(b) = n /\ LengthEnd(b) = 1 + Len(e)
    BY <2>1, DecodeIs
  <2> QED
    BY <1>8, <2>2
<1>14. 256 * ByteAt(b, LengthEnd(b) + 1) + ByteAt(b, LengthEnd(b) + 1 + 1) = Len(s)
  <2>1. \A i \in 1 .. Len(w) : b[Len(h) + i] = w[i]
    BY <1>12 DEF IsAt
  <2>2. Len(h) \in Nat
    BY <1>8, LenProperties
  <2>3. b[Len(h) + 1] = w[1] /\ b[Len(h) + 2] = w[2]
    BY <1>6, <2>1
  <2>4. Len(h) + 1 + 1 = Len(h) + 2
    BY <2>2
  <2>5. Len(h) + 1 \in 1 .. Len(b) /\ Len(h) + 2 \in 1 .. Len(b)
    <3>1. Len(h) + Len(w) <= Len(b) /\ Len(b) \in Nat
      BY <1>12, LenProperties DEF IsAt
    <3> QED
      BY <1>6, <2>2, <3>1
  <2>6. ByteAt(b, Len(h) + 1) = w[1] /\ ByteAt(b, Len(h) + 2) = w[2]
    BY <2>3, <2>5 DEF ByteAt
  <2> QED
    BY <1>6, <1>13, <2>4, <2>6
<1>15. /\ Fetched(b, Len(hw) + 1, Len(s)) = s
       /\ Fetched(b, Len(hws) + 1, Len(t)) = t
  BY <1>12, FetchedIs
<1>16. /\ Len(h) \in Nat /\ LengthEnd(b) + 1 + 2 = Len(hw) + 1
       /\ LengthEnd(b) + 1 + 2 + Len(s) = Len(hws) + 1
       /\ (n - 2 - Len(s)) % WordWidth = Len(t)
  <2>1. Len(h) \in Nat /\ Len(hw) = Len(h) + 2 /\ Len(hws) = Len(hw) + Len(s)
    BY <1>8, <1>9, <1>10, LenProperties
  <2>2. n - 2 - Len(s) = Len(t) /\ WordWidth \in Nat /\ Len(t) < WordWidth
    BY <1>2, <1>4 DEF n, WordWidth
  <2>3. (n - 2 - Len(s)) % WordWidth = Len(t)
    BY <1>2, <2>2, SmallModulo
  <2> QED
    BY <1>2, <1>13, <2>1, <2>3
<1>17. Decoded(b) = [topic |-> s, payload |-> t]
  BY <1>13, <1>14, <1>15, <1>16 DEF Decoded, PayloadLength
<1> QED
  BY <1>1, <1>12, <1>17

LEMMA ModuloAtMost == \A a, w \in Nat : w # 0 => a % w \in Nat /\ a % w <= a /\ a % w < w
<1> SUFFICES ASSUME NEW a \in Nat, NEW w \in Nat, w # 0
             PROVE  a % w \in Nat /\ a % w <= a /\ a % w < w
  OBVIOUS
<1>1. a % w \in Nat /\ a % w < w
  OBVIOUS
<1>2. CASE a < w
  BY <1>1, <1>2, SmallModulo
<1>3. CASE ~(a < w)
  BY <1>1, <1>3
<1> QED
  BY <1>1, <1>2, <1>3

(* What is left of a segment fits rxbuff; a segment that is counted is     *)
(* left whole.                                                             *)
LEMMA PieceIs ==
  ASSUME NEW s \in Seq(Byte), s # <<>>
  PROVE  /\ LastPiece(s) \in Seq(Byte) /\ Len(LastPiece(s)) <= RxSize
         /\ Len(s) <= RxSize => LastPiece(s) = s
<1> DEFINE n == Len(s)
<1> DEFINE c == (n - 1) % RxSize
<1> DEFINE m == n - c
<1>1. n \in Nat /\ n # 0 /\ RxSize \in Nat /\ RxSize # 0
  BY LenProperties, EmptySeq, BuffersAssumption
<1>2. /\ \A i \in 1 .. n : s[i] \in Byte
      /\ LastPiece(s) = SubSeq(s, m, n)
  BY BytesOf DEF LastPiece
<1> HIDE DEF n
<1>3. c \in Nat /\ c <= n - 1 /\ c < RxSize
  <2>1. n - 1 \in Nat
    BY <1>1
  <2> QED
    BY <1>1, <2>1, ModuloAtMost
<1> HIDE DEF c
<1>4. m \in Int /\ n \in Int /\ m <= n /\ n - m + 1 <= RxSize /\ \A i \in m .. n : i \in 1 .. n
  BY <1>1, <1>3
<1> HIDE DEF m
<1>5. \A i \in m .. n : s[i] \in Byte
  BY <1>2, <1>4
<1>6. SubSeq(s, m, n) \in Seq(Byte) /\ Len(SubSeq(s, m, n)) = n - m + 1
  <2>1. /\ SubSeq(s, m, n) \in Seq(Byte)
        /\ Len(SubSeq(s, m, n)) = IF m <= n THEN n - m + 1 ELSE 0
    BY <1>4, <1>5, SubSeqProperties
  <2> QED
    BY <1>4, <2>1
<1>7. ASSUME n <= RxSize PROVE SubSeq(s, m, n) = s
  <2>1. n - 1 \in Nat /\ n - 1 < RxSize
    BY <1>1, <1>7
  <2>2. c = n - 1
    BY <1>1, <2>1, SmallModulo DEF c
  <2>3. m = 1
    BY <1>1, <2>2 DEF m
  <2> QED
    BY <2>3, SubSeqFull DEF n
<1> QED
  BY <1>2, <1>4, <1>6, <1>7 DEF n

LEMMA ReceivedFits ==
  ASSUME NEW s \in Seq(Byte), s # <<>>
  PROVE  Received(s) \in Seq(Byte) /\ Len(Received(s)) <= RxSize
<1> DEFINE b == LastPiece(s)
<1> DEFINE k == Len(b) % LenWidth
<1>1. b \in Seq(Byte) /\ Len(b) \in Nat /\ Len(b) <= RxSize
  BY PieceIs, LenProperties
<1>2. Received(s) = SubSeq(b, 1, k)
  BY DEF Received
<1> HIDE DEF b
<1>3. LenWidth \in Nat /\ LenWidth # 0 /\ RxSize \in Nat
  BY BuffersAssumption
<1>4. k \in Nat /\ k <= Len(b)
  BY <1>1, <1>3, ModuloAtMost
<1> HIDE DEF k
<1>5. \A i \in 1 .. k : b[i] \in Byte
  <2>1. \A i \in 1 .. k : i \in 1 .. Len(b)
    BY <1>1, <1>4
  <2> QED
    BY <1>1, <2>1, BytesOf
<1>6. SubSeq(b, 1, k) \in Seq(Byte) /\ Len(SubSeq(b, 1, k)) = IF 1 <= k THEN k - 1 + 1 ELSE 0
  BY <1>4, <1>5, SubSeqProperties
<1> QED
  BY <1>1, <1>2, <1>3, <1>4, <1>6

LEMMA ReceivedIs ==
  ASSUME NEW s \in Seq(Byte), s # <<>>, Len(s) < LenWidth, Len(s) <= RxSize
  PROVE  Received(s) = s
<1>1. LastPiece(s) = s
  BY PieceIs
<1>2. Len(s) \in Nat /\ LenWidth \in Nat
  BY LenProperties, BuffersAssumption
<1>3. Len(s) % LenWidth = Len(s)
  BY <1>2, SmallModulo
<1>4. SubSeq(s, 1, Len(s)) = s
  BY SubSeqFull
<1> QED
  BY <1>1, <1>3, <1>4 DEF Received

----------------------------------------------------------------------------
(* The invariant: what is flagged can be sent as it was asked for, and a   *)
(* publication promised by the segment in the receive buffer is what       *)
(* mqttProcessPublish will read, within its arrays.                        *)
Shape ==
  /\ txTopics \in [{"subscribe", "unsubscribe"} -> Lengths]
  /\ asked = [kind \in Kinds |-> asked[kind]]
  /\ text = [from \in Sources |-> text[from]]

Ready == \A kind \in txFlags : IsRequest(PacketBytes(kind), asked[kind])

Held == inflight # Nothing => Decoded(rxbuff) = inflight /\ InArrays(inflight)

Inv == TypeOK /\ Shape /\ Ready /\ Held /\ SentIsAsked /\ HeardIsPublished

(* The parts that a step leaves alone stay as they are.                    *)
LEMMA PacketsStay ==
  ASSUME UNCHANGED <<txConnect, txPublish, txTopics, text>>
  PROVE  \A kind : PacketBytes(kind)' = PacketBytes(kind)
BY DEF PacketBytes, ConnectBytes, PublishBytes, TopicBytes

(* A CONNECT, once created, is ready.                                      *)
LEMMA ConnectReady ==
  ASSUME Shape, NEW c \in Credentials, CreateConnect(c)
  PROVE  /\ IsRequest(ConnectBytes', asked'["connect"])
         /\ txConnect'.totalLength \in Lengths
<1> DEFINE n == ConnectLength(c)
<1>1. /\ txConnect' = [username |-> c.username, password |-> c.password, totalLength |-> n]
      /\ asked'["connect"] = [kind |-> "connect", id |-> ClientId, username |-> c.username,
                              password |-> c.password]
  BY DEF CreateConnect, ConnectLength, Shape, Kinds
<1>2. HasCredentials(txConnect') = HasCredentials(c)
  BY <1>1 DEF HasCredentials
<1>3. ConnectBytes' = ConnectOf(c, n)
  BY <1>1, <1>2 DEF ConnectBytes, ConnectOf
<1>4. n \in Lengths
  <2>1. n \in Nat /\ n <= 65535
    <3> DEFINE k == Len(ClientId)
    <3> DEFINE l == Len(c.username)
    <3> DEFINE m == Len(c.password)
    <3>1. c \in [username : Seq(Byte), password : Seq(Byte)] /\ ClientId \in Seq(Byte)
      BY BytesAssumption
    <3>2. k \in Nat /\ l \in Nat /\ m \in Nat
      BY <3>1, LenProperties
    <3>3. 19 + k + l + m <= TxSize
      BY ConnectFits
    <3>4. TxSize \in Nat /\ TxSize <= 16386
      BY BuffersAssumption
    <3>5. n = 10 + 2 + k + (4 + l + m) \/ n = 10 + 2 + k + 0
      BY Zenon DEF ConnectLength
    <3> HIDE DEF k, l, m, n
    <3> QED
      BY <3>2, <3>3, <3>4, <3>5
  <2> QED
    BY <2>1, LengthsAre
<1> QED
  BY <1>1, <1>3, <1>4, ConnectReads

(* A PUBLISH, once created, is ready, from the buffer that it points to.   *)
LEMMA PublishReady ==
  ASSUME Shape, NEW from \in Sources, NEW payload \in Texts[from], Publish(from, payload)
  PROVE  /\ IsRequest(PublishBytes', asked'["publish"])
         /\ txPublish'.totalLength \in Lengths /\ txPublish'.from \in Sources
         /\ txPublish'.payloadLength \in 0 .. LenWidth - 1
<1> DEFINE topic == Topics[from]
<1> DEFINE k == Len(topic)
<1> DEFINE m == Len(payload)
<1>1. topic \in Seq(Byte) /\ payload \in Seq(Byte)
  BY BytesAssumption
<1>2. /\ k \in Nat /\ m \in Nat /\ LenWidth \in Nat /\ TxSize \in Nat /\ TxSize <= 16386
      /\ m < LenWidth /\ 5 + k + m <= TxSize
  BY <1>1, LenProperties, PublishFits, BuffersAssumption
<1>3. m % LenWidth = m
  <2> HIDE DEF m
  <2> QED
    BY <1>2, SmallModulo
<1>4. /\ text' = [text EXCEPT ![from] = payload]
      /\ txPublish' = [from |-> from, payloadLength |-> m, totalLength |-> 2 + k + m]
      /\ asked' = [asked EXCEPT !["publish"] =
                     [kind |-> "publish", topic |-> topic, payload |-> payload]]
  BY <1>3 DEF Publish, CreatePublish, PublishLength
<1>5. text'[from] = payload
  BY <1>4 DEF Shape
<1>6. asked'["publish"] = [kind |-> "publish", topic |-> topic, payload |-> payload]
  BY <1>4 DEF Shape, Kinds
<1>7. SubSeq(payload, 1, m) = payload
  BY <1>1, SubSeqFull
<1>8. PublishBytes' = PublishOf(topic, 2 + k + m, payload)
  BY <1>4, <1>5, <1>7 DEF PublishBytes, PublishOf
<1>9. IsRequest(PublishOf(topic, 2 + k + m, payload),
                [kind |-> "publish", topic |-> topic, payload |-> payload])
  <2>1. 5 + Len(topic) + Len(payload) <= TxSize
    BY <1>2
  <2> HIDE DEF topic
  <2> QED
    BY <1>1, <2>1, PublishReads, Zenon
<1>10. 2 + k + m \in Lengths /\ m \in 0 .. LenWidth - 1
  <2> HIDE DEF k, m
  <2>1. 2 + k + m \in Nat /\ 2 + k + m <= 65535 /\ m \in 0 .. LenWidth - 1
    BY <1>2
  <2> QED
    BY <2>1, LengthsAre
<1> QED
  BY <1>4, <1>6, <1>8, <1>9, <1>10

(* ... and the other packets are what they were.                           *)
LEMMA PublishShape ==
  ASSUME TypeOK, Shape, Ready, NEW from \in Sources, NEW payload \in Texts[from],
         Publish(from, payload)
  PROVE  /\ Shape' /\ Ready' /\ txFlags' \subseteq Kinds
         /\ txPublish'.totalLength \in Lengths /\ txPublish'.from \in Sources
         /\ txPublish'.payloadLength \in 0 .. LenWidth - 1
         /\ txConnect' = txConnect /\ txTopics' = txTopics
<1>1. /\ IsRequest(PublishBytes', asked'["publish"])
      /\ txPublish'.totalLength \in Lengths /\ txPublish'.from \in Sources
      /\ txPublish'.payloadLength \in 0 .. LenWidth - 1
  BY PublishReady
<1>2. /\ txFlags' = txFlags \union {"publish"} /\ UNCHANGED <<txConnect, txTopics>>
      /\ \E s : text' = [text EXCEPT ![from] = s]
      /\ \E r : asked' = [asked EXCEPT !["publish"] = r]
  BY DEF Publish, CreatePublish
<1>3. Shape'
  BY <1>2 DEF Shape
<1>4. \A kind \in Kinds \ {"publish"} : asked'[kind] = asked[kind]
  BY <1>2 DEF Shape
<1>5. \A kind \in Kinds \ {"publish"} : PacketBytes(kind)' = PacketBytes(kind)
  BY <1>2 DEF PacketBytes, ConnectBytes, TopicBytes, Kinds
<1>6. PacketBytes("publish")' = PublishBytes'
  BY DEF PacketBytes
<1>7. txFlags' \subseteq Kinds
  BY <1>2 DEF TypeOK, Kinds
<1>8. Ready'
  <2>1. ASSUME NEW kind \in txFlags' PROVE IsRequest(PacketBytes(kind)', asked'[kind])
    <3>1. CASE kind = "publish"
      BY <1>1, <1>6, <3>1
    <3>2. CASE kind # "publish"
      <4>1. kind \in txFlags /\ kind \in Kinds \ {"publish"}
        BY <1>2, <1>7, <3>2
      <4> QED
        BY <1>4, <1>5, <4>1 DEF Ready
    <3> QED
      BY <3>1, <3>2
  <2> QED
    BY <2>1 DEF Ready
<1> QED
  BY <1>1, <1>2, <1>3, <1>7, <1>8

(* SUBSCRIBE and UNSUBSCRIBE, likewise.                                    *)
LEMMA TopicShape ==
  ASSUME TypeOK, Shape, Ready, CreateTopicPacket
  PROVE  Shape' /\ Ready' /\ txFlags' \subseteq Kinds
<1> DEFINE L == 2 + 2 + Len(Topics["delta"])
<1>1. PICK kind \in {"subscribe", "unsubscribe"} :
        /\ txTopics' = [txTopics EXCEPT ![kind] = L + IF kind = "subscribe" THEN 1 ELSE 0]
        /\ txFlags' = txFlags \union {kind}
        /\ asked' = [asked EXCEPT ![kind] = [kind |-> kind, topic |-> Topics["delta"]]]
        /\ UNCHANGED <<txConnect, txPublish, text>>
  BY DEF CreateTopicPacket
<1> DEFINE n == L + IF kind = "subscribe" THEN 1 ELSE 0
<1>2. n \in Lengths
  <2> DEFINE k == Len(Topics["delta"])
  <2>1. Topics["delta"] \in Seq(Byte)
    BY BytesAssumption
  <2>2. k \in Nat /\ 8 + k <= TxSize /\ TxSize \in Nat /\ TxSize <= 16386
    BY <2>1, LenProperties, TopicFits, BuffersAssumption
  <2> HIDE DEF k
  <2>3. n = 2 + 2 + k + 1 \/ n = 2 + 2 + k + 0
    BY DEF k
  <2> HIDE DEF n
  <2>4. n \in Nat /\ n <= 65535
    BY <2>2, <2>3
  <2> QED
    BY <2>4, LengthsAre
<1>3. Shape'
  BY <1>1, <1>2 DEF Shape
<1>4. txTopics'[kind] = n /\ asked'[kind] = [kind |-> kind, topic |-> Topics["delta"]]
  BY <1>1 DEF Shape, Kinds
<1>5. \A other \in Kinds \ {kind} : asked'[other] = asked[other]
  BY <1>1 DEF Shape
<1>6. \A other \in {"subscribe", "unsubscribe"} \ {kind} : txTopics'[other] = txTopics[other]
  BY <1>1 DEF Shape
<1>7. \A other \in Kinds \ {kind} : PacketBytes(other)' = PacketBytes(other)
  <2> SUFFICES ASSUME NEW other \in Kinds \ {kind}
               PROVE  PacketBytes(other)' = PacketBytes(other)
    OBVIOUS
  <2>1. ConnectBytes' = ConnectBytes /\ PublishBytes' = PublishBytes
    BY <1>1 DEF ConnectBytes, PublishBytes
  <2>2. other \notin {"connect", "publish"} => TopicBytes(other)' = TopicBytes(other)
    BY <1>6 DEF TopicBytes, Kinds
  <2> QED
    BY <2>1, <2>2 DEF PacketBytes
<1>8. PacketBytes(kind)' = TopicOf(kind, n)
  <2>1. PacketBytes(kind)' = TopicBytes(kind)'
    BY DEF PacketBytes
  <2> QED
    BY <1>4, <2>1 DEF TopicBytes, TopicOf
<1>9. IsRequest(TopicOf(kind, n), [kind |-> kind, topic |-> Topics["delta"]])
  BY TopicReads
<1>10. txFlags' \subseteq Kinds
  BY <1>1 DEF TypeOK, Kinds
<1>11. Ready'
  <2>1. ASSUME NEW other \in txFlags' PROVE IsRequest(PacketBytes(other)', asked'[other])
    <3>1. CASE other = kind
      BY <1>4, <1>8, <1>9, <3>1
    <3>2. CASE other # kind
      <4>1. other \in txFlags /\ other \in Kinds \ {kind}
        BY <1>1, <1>10, <3>2
      <4> QED
        BY <1>5, <1>7, <4>1 DEF Ready
    <3> QED
      BY <3>1, <3>2
  <2> QED
    BY <2>1 DEF Ready
<1> QED
  BY <1>3, <1>10, <1>11

LEMMA InvInit == Init => Inv
<1> SUFFICES ASSUME Init PROVE Inv
  OBVIOUS
<1>1. 0 \in Lengths /\ 0 \in 0 .. LenWidth - 1 /\ TxSize \in Nat /\ RxSize \in Nat
  BY LengthsAre, BuffersAssumption
<1>2. txbuff = <<>> /\ rxbuff = <<>> /\ <<>> \in Seq(Byte) /\ Len(<<>>) = 0
  BY EmptySeq DEF Init
<1>3. TypeOK
  <2>1. txConnect.totalLength = 0 /\ txPublish.totalLength = 0 /\ txPublish.payloadLength = 0
    BY DEF Init
  <2>2. txPublish.from \in Sources
    BY DEF Init, Sources
  <2>3. \A kind \in {"subscribe", "unsubscribe"} : txTopics[kind] = 0
    BY DEF Init
  <2>4. mqttState \in States /\ txFlags \subseteq Kinds
    BY DEF Init, States
  <2>5. Len(txbuff) <= TxSize /\ Len(rxbuff) <= RxSize
    BY <1>1, <1>2
  <2>6. overrun \in BOOLEAN
    BY DEF Init
  <2> QED
    BY <1>1, <1>2, <2>1, <2>2, <2>3, <2>4, <2>5, <2>6 DEF TypeOK
<1>4. Shape
  BY <1>1 DEF Init, Shape
<1>5. Ready /\ Held /\ SentIsAsked /\ HeardIsPublished
  BY DEF Init, Ready, Held, SentIsAsked, HeardIsPublished
<1> QED
  BY <1>3, <1>4, <1>5 DEF Inv

(* A step that writes no packet and reads none.                            *)
LEMMA InvStay ==
  ASSUME Inv, UNCHANGED <<tx, text, txbuff, rx, sent, read>>, mqttState' \in States
  PROVE  Inv'
<1> USE DEF tx, rx, read
<1>1. \A kind : PacketBytes(kind)' = PacketBytes(kind)
  BY PacketsStay
<1>2. TypeOK' /\ Shape'
  BY DEF Inv, TypeOK, Shape
<1>3. Ready'
  BY <1>1 DEF Inv, Ready
<1>4. Held' /\ SentIsAsked' /\ HeardIsPublished'
  BY DEF Inv, Held, SentIsAsked, HeardIsPublished
<1> QED
  BY <1>2, <1>3, <1>4 DEF Inv

(* A step that sends.                                                      *)
LEMMA InvSend ==
  ASSUME Inv, NEW bytes, NEW request, IsRequest(bytes, request), SendPacket(bytes, request),
         txFlags' \subseteq txFlags, mqttState' \in States
  PROVE  Inv'
<1>1. /\ bytes \in Seq(Byte) /\ Len(bytes) <= TxSize /\ Parse(bytes) = request
      /\ txbuff' = bytes /\ sent' = request /\ rxbuff' = <<>> /\ inflight' = Nothing
      /\ UNCHANGED <<txConnect, txPublish, txTopics, asked, text, heard, told, overrun>>
  BY DEF IsRequest, SendPacket, Kept, read
<1>2. rxbuff' \in Seq(Byte) /\ Len(rxbuff') <= RxSize
  <2>1. RxSize \in Nat
    BY BuffersAssumption
  <2> QED
    BY <1>1, <2>1, EmptySeq
<1>3. \A kind : PacketBytes(kind)' = PacketBytes(kind)
  BY <1>1, PacketsStay
<1>4. TypeOK'
  BY <1>1, <1>2 DEF Inv, TypeOK
<1>5. Shape' /\ Ready'
  BY <1>1, <1>3 DEF Inv, Shape, Ready
<1>6. Held' /\ SentIsAsked' /\ HeardIsPublished'
  BY <1>1 DEF Inv, Held, SentIsAsked, HeardIsPublished
<1> QED
  BY <1>4, <1>5, <1>6 DEF Inv

LEMMA InvConnect == Inv /\ Connect => Inv'
<1> SUFFICES ASSUME Inv, Connect PROVE Inv'
  OBVIOUS
<1> USE DEF rx, read
<1>1. PICK c \in Credentials : CreateConnect(c)
  BY DEF Connect
<1>2. /\ UNCHANGED <<txPublish, txTopics, text, txbuff, rxbuff, inflight, sent, heard, told, overrun>>
      /\ txFlags' = {"connect"} /\ mqttState' = "CONNECTING"
      /\ \E r : asked' = [asked EXCEPT !["connect"] = r]
  BY <1>1 DEF Connect, CreateConnect
<1>3. IsRequest(ConnectBytes', asked'["connect"]) /\ txConnect'.totalLength \in Lengths
  BY <1>1, ConnectReady DEF Inv
<1>4. TypeOK'
  BY <1>2, <1>3 DEF Inv, TypeOK, States, Kinds
<1>5. Shape'
  BY <1>2 DEF Inv, Shape
<1>6. Ready'
  BY <1>2, <1>3 DEF Ready, PacketBytes
<1>7. Held' /\ SentIsAsked' /\ HeardIsPublished'
  BY <1>2 DEF Inv, Held, SentIsAsked, HeardIsPublished
<1> QED
  BY <1>4, <1>5, <1>6, <1>7 DEF Inv

LEMMA InvPublish == Inv /\ (SendToCloud \/ InitDeviceShadow) => Inv'
<1> SUFFICES ASSUME Inv, SendToCloud \/ InitDeviceShadow PROVE Inv'
  OBVIOUS
<1> USE DEF rx, read
<1>1. /\ \E from \in Sources : \E payload \in Texts[from] : Publish(from, payload)
      /\ UNCHANGED <<mqttState, txbuff, rxbuff, inflight, sent, heard, told, overrun>>
  <2>1. CASE SendToCloud
    <3>1. "sensors" \in Sources
      BY DEF Sources
    <3> QED
      BY <2>1, <3>1 DEF SendToCloud
  <2>2. CASE InitDeviceShadow
    <3>1. "shadow" \in Sources
      BY DEF Sources
    <3> QED
      BY <2>2, <3>1 DEF InitDeviceShadow
  <2> QED
    BY <2>1, <2>2
<1>2. PICK from \in Sources : \E payload \in Texts[from] : Publish(from, payload)
  BY <1>1
<1>3. PICK payload \in Texts[from] : Publish(from, payload)
  BY <1>2
<1>4. /\ Shape' /\ Ready' /\ txFlags' \subseteq Kinds
      /\ txPublish'.totalLength \in Lengths /\ txPublish'.from \in Sources
      /\ txPublish'.payloadLength \in 0 .. LenWidth - 1
      /\ txConnect' = txConnect /\ txTopics' = txTopics
  BY <1>3, PublishShape DEF Inv
<1>5. TypeOK'
  BY <1>1, <1>4 DEF Inv, TypeOK
<1>6. Held' /\ SentIsAsked' /\ HeardIsPublished'
  BY <1>1 DEF Inv, Held, SentIsAsked, HeardIsPublished
<1> QED
  BY <1>4, <1>5, <1>6 DEF Inv

LEMMA InvTransmit == Inv /\ (Transmit \/ SendPingreq \/ Disconnect) => Inv'
<1> SUFFICES ASSUME Inv, Transmit \/ SendPingreq \/ Disconnect PROVE Inv'
  OBVIOUS
<1>1. CASE Transmit
  <2>1. PICK kind \in txFlags, ok \in BOOLEAN :
          /\ SendPacket(PacketBytes(kind), asked[kind])
          /\ txFlags' = IF ok THEN txFlags \ {kind} ELSE txFlags
          /\ mqttState' = CASE kind = "connect" /\ ok  -> "WAITFORCONNACK"
                            [] kind = "publish" /\ ~ok -> "DISCONNECTED"
                            [] OTHER                   -> mqttState
    BY <1>1 DEF Transmit
  <2>2. IsRequest(PacketBytes(kind), asked[kind])
    BY DEF Inv, Ready
  <2>3. mqttState' \in States /\ txFlags' \subseteq txFlags
    BY <2>1 DEF Inv, TypeOK, States
  <2> QED
    BY <2>1, <2>2, <2>3, InvSend
<1>2. CASE SendPingreq
  <2>1. /\ SendPacket(Header(12, 0) \o <<0>>, [kind |-> "pingreq"])
        /\ txFlags' = txFlags /\ mqttState' = mqttState
    BY <1>2 DEF SendPingreq
  <2>2. mqttState' \in States /\ txFlags' \subseteq txFlags
    BY <2>1 DEF Inv, TypeOK
  <2> QED
    BY <2>1, <2>2, ShortReads, InvSend
<1>3. CASE Disconnect
  <2>1. /\ SendPacket(Header(14, 0) \o <<0>>, [kind |-> "disconnect"])
        /\ txFlags' \in {{}, txFlags} /\ mqttState' = "DISCONNECTED"
    BY <1>3 DEF Disconnect
  <2>2. mqttState' \in States /\ txFlags' \subseteq txFlags
    BY <2>1 DEF States
  <2> QED
    BY <2>1, <2>2, ShortReads, InvSend
<1> QED
  BY <1>1, <1>2, <1>3

LEMMA InvArrive == Inv /\ Arrive => Inv'
<1> SUFFICES ASSUME Inv, Arrive PROVE Inv'
  OBVIOUS
<1> USE DEF tx, read
<1>1. PICK s \in Segments :
        /\ rxbuff' = Received(s)
        /\ inflight' # Nothing => inflight' \in Publications /\ Supported(inflight', s)
  <2>1. PICK s \in Segments :
          LET promised == {p \in Publications : Supported(p, s)}
          IN  rxbuff' = Received(s)
              /\ inflight' \in IF promised = {} THEN {Nothing} ELSE promised
    BY DEF Arrive
  <2> QED
    BY <2>1
<1>2. UNCHANGED <<mqttState, txFlags, txConnect, txPublish, txTopics, asked, text, txbuff,
                  sent, heard, told, overrun>>
  BY DEF Arrive
<1>3. s \in Seq(Byte) /\ s # <<>>
  BY BytesAssumption
<1>4. rxbuff' \in Seq(Byte) /\ Len(rxbuff') <= RxSize
  BY <1>1, <1>3, ReceivedFits
<1>5. \A kind : PacketBytes(kind)' = PacketBytes(kind)
  BY <1>2, PacketsStay
<1>6. TypeOK'
  BY <1>2, <1>4 DEF Inv, TypeOK
<1>7. Shape' /\ Ready'
  BY <1>2, <1>5 DEF Inv, Shape, Ready
<1>8. SentIsAsked' /\ HeardIsPublished'
  BY <1>2 DEF Inv, SentIsAsked, HeardIsPublished
<1>9. ASSUME inflight' # Nothing
      PROVE  Decoded(rxbuff') = inflight' /\ InArrays(inflight')
  <2>1. inflight' \in Publications /\ Supported(inflight', s)
    BY <1>1, <1>9
  <2>2. /\ Len(s) < LenWidth /\ Len(s) <= RxSize
        /\ Len(inflight'.topic) <= TopicSize /\ Len(inflight'.payload) < PayloadSize
    BY <2>1 DEF Supported
  <2>3. rxbuff' = s
    BY <1>1, <1>3, <2>2, ReceivedIs
  <2>4. Decoded(s) = inflight'
    BY <2>1, DecodedIs
  <2>5. InArrays(inflight')
    <3>1. Len(inflight'.payload) \in Nat /\ PayloadSize \in Nat
      <4>1. inflight'.payload \in Seq(Byte)
        BY <2>1, BytesAssumption
      <4> QED
        BY <4>1, LenProperties, BuffersAssumption
    <3> QED
      BY <2>2, <3>1 DEF InArrays
  <2> QED
    BY <2>3, <2>4, <2>5
<1>10. Held'
  BY <1>9 DEF Held, Decoded, InArrays
<1> QED
  BY <1>6, <1>7, <1>8, <1>10 DEF Inv

LEMMA InvProcess == Inv /\ ProcessPublish => Inv'
<1> SUFFICES ASSUME Inv, ProcessPublish PROVE Inv'
  OBVIOUS
<1> DEFINE p == Decoded(rxbuff)
<1>1. /\ rxbuff' = <<>> /\ inflight' = Nothing /\ told' = inflight
      /\ overrun' = ~InArrays(p) /\ UNCHANGED <<mqttState, txbuff, sent>>
  BY DEF ProcessPublish
<1>2. /\ IsSubscribed(p.topic) =>
           heard' = p /\ \E payload \in Texts["shadow"] : Publish("shadow", payload)
      /\ ~IsSubscribed(p.topic) => heard' = NoPublication /\ UNCHANGED <<tx, text>>
  BY DEF ProcessPublish
<1>3. inflight # Nothing => p = inflight /\ InArrays(inflight)
  BY DEF Inv, Held
<1> HIDE DEF p
<1>4. HeardIsPublished'
  BY <1>1, <1>2, <1>3, Zenon DEF HeardIsPublished, IsSubscribed
<1>5. rxbuff' \in Seq(Byte) /\ Len(rxbuff') <= RxSize /\ overrun' \in BOOLEAN
  <2>1. RxSize \in Nat
    BY BuffersAssumption
  <2> QED
    BY <1>1, <2>1, EmptySeq
<1>6. Held' /\ SentIsAsked'
  BY <1>1 DEF Inv, Held, SentIsAsked
<1>7. CASE IsSubscribed(p.topic)
  <2>1. PICK payload \in Texts["shadow"] : Publish("shadow", payload)
    BY <1>2, <1>7
  <2>2. "shadow" \in Sources
    BY DEF Sources
  <2>3. /\ Shape' /\ Ready' /\ txFlags' \subseteq Kinds
        /\ txPublish'.totalLength \in Lengths /\ txPublish'.from \in Sources
        /\ txPublish'.payloadLength \in 0 .. LenWidth - 1
        /\ txConnect' = txConnect /\ txTopics' = txTopics
    BY <2>1, <2>2, PublishShape DEF Inv
  <2>4. TypeOK'
    BY <1>1, <1>5, <2>3 DEF Inv, TypeOK
  <2> QED
    BY <1>4, <1>6, <2>3, <2>4 DEF Inv
<1>8. CASE ~IsSubscribed(p.topic)
  <2>1. UNCHANGED <<txFlags, txConnect, txPublish, txTopics, asked, text>>
    BY <1>2, <1>8 DEF tx
  <2>2. \A kind : PacketBytes(kind)' = PacketBytes(kind)
    BY <2>1, PacketsStay
  <2>3. TypeOK'
    BY <1>1, <1>5, <2>1 DEF Inv, TypeOK
  <2>4. Shape' /\ Ready'
    BY <2>1, <2>2 DEF Inv, Shape, Ready
  <2> QED
    BY <1>4, <1>6, <2>3, <2>4 DEF Inv
<1> QED
  BY <1>7, <1>8

LEMMA InvTopic == Inv /\ CreateTopicPacket => Inv'
<1> SUFFICES ASSUME Inv, CreateTopicPacket PROVE Inv'
  OBVIOUS
<1> USE DEF rx, read
<1>1. Shape' /\ Ready' /\ txFlags' \subseteq Kinds
  BY TopicShape DEF Inv
<1>2. UNCHANGED <<mqttState, txConnect, txPublish, text, txbuff, rxbuff, inflight, sent,
                  heard, told, overrun>>
  BY DEF CreateTopicPacket
<1>3. TypeOK'
  <2>1. \A kind \in {"subscribe", "unsubscribe"} : txTopics'[kind] \in Lengths
    BY <1>1 DEF Shape
  <2> QED
    BY <1>1, <1>2, <2>1 DEF Inv, TypeOK
<1>4. Held' /\ SentIsAsked' /\ HeardIsPublished'
  BY <1>2 DEF Inv, Held, SentIsAsked, HeardIsPublished
<1> QED
  BY <1>1, <1>3, <1>4 DEF Inv

LEMMA InvNext == Inv /\ [Next]_vars => Inv'
<1> SUFFICES ASSUME Inv, [Next]_vars PROVE Inv'
  OBVIOUS
<1>1. CASE Accepted \/ Lost \/ UNCHANGED vars
  <2>1. UNCHANGED <<tx, text, txbuff, rx, sent, read>> /\ mqttState' \in States
    BY <1>1 DEF Accepted, Lost, vars, Inv, TypeOK, States
  <2> QED
    BY <2>1, InvStay
<1> QED
  BY <1>1, InvConnect, InvPublish, InvTransmit, InvArrive, InvProcess, InvTopic DEF Next

(* In every reachable state, for any names, topics and payloads that fit.  *)
THEOREM InvHolds == Spec => []Inv
BY InvInit, InvNext, PTL DEF Spec

(* Flags, lengths and buffers of mqtt_core.c stay in their ranges.         *)
THEOREM TypeCorrect == Spec => []TypeOK
<1>1. Inv => TypeOK
  BY DEF Inv
<1> QED
  BY <1>1, InvHolds, PTL

(* What the mqttSend functions write is read as the request that the       *)
(* MQTT_Create functions were given, although it is written later and from *)
(* the application's own buffers.                                          *)
THEOREM SentIsAskedHolds == Spec => []SentIsAsked
<1>1. Inv => SentIsAsked
  BY DEF Inv
<1> QED
  BY <1>1, InvHolds, PTL

(* Whatever the segments that arrive, what mqttProcessPublish makes of one *)
(* that begins with a supported publication is that publication, within    *)
(* the bounds of mqttTopic and mqttPayload.                                *)
THEOREM HeardIsPublishedHolds == Spec => []HeardIsPublished
<1>1. Inv => HeardIsPublished
  BY DEF Inv
<1> QED
  BY <1>1, InvHolds, PTL

=============================================================================
