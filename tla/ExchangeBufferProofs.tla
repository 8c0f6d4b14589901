------------------------- MODULE ExchangeBufferProofs -------------------------
(***************************************************************************)
(* Proofs about ExchangeBuffer for a buffer of any length and for writes   *)
(* and reads of any length: the ring is a bounded queue of bytes.          *)
(***************************************************************************)
EXTENDS ExchangeBuffer, SequenceTheorems, TLAPS

(* The values a place of the buffer can have.                              *)
Values == Bytes \cup {Foreign}

(* The sizes, one by one.                                                  *)
LEMMA Sizes == BufferLength \in Nat \ {0} /\ MaxLength \in Nat /\ PeekLengths \subseteq {1}
  BY BufferAssumption

(* The address i bytes behind p, once round the end at most.               *)
LEMMA BehindIs ==
  ASSUME NEW p \in 0 .. BufferLength - 1, NEW i \in 0 .. BufferLength
  PROVE  /\ Behind(p, i) = IF p + i < BufferLength THEN p + i ELSE p + i - BufferLength
         /\ Behind(p, i) \in 0 .. BufferLength - 1
<1>1. ASSUME NEW x \in 0 .. BufferLength - 1 PROVE x % BufferLength = x
  BY Sizes
<1>2. ASSUME NEW x \in BufferLength .. 2 * BufferLength - 1
      PROVE  x % BufferLength = x - BufferLength
  BY Sizes
<1>3. CASE p + i < BufferLength
  BY <1>1, <1>3, Sizes DEF Behind
<1>4. CASE p + i >= BufferLength
  BY <1>2, <1>4, Sizes DEF Behind
<1> QED
  BY <1>3, <1>4, Sizes

(* Counting on from an address, and from one address to two places.        *)
LEMMA BehindBehind ==
  ASSUME NEW p \in 0 .. BufferLength - 1, NEW i \in 0 .. BufferLength, NEW j \in 0 .. BufferLength,
         i + j <= BufferLength
  PROVE  Behind(Behind(p, i), j) = Behind(p, i + j)
<1>1. Behind(p, i) \in 0 .. BufferLength - 1 /\ i + j \in 0 .. BufferLength
  BY BehindIs, Sizes
<1>2. Behind(p, i) = IF p + i < BufferLength THEN p + i ELSE p + i - BufferLength
  BY BehindIs
<1>3. Behind(p, i + j) =
        IF p + (i + j) < BufferLength THEN p + (i + j) ELSE p + (i + j) - BufferLength
  BY <1>1, BehindIs
<1>4. Behind(Behind(p, i), j) = IF Behind(p, i) + j < BufferLength THEN Behind(p, i) + j
                                ELSE Behind(p, i) + j - BufferLength
  BY <1>1, BehindIs
<1> QED
  BY <1>1, <1>2, <1>3, <1>4, Sizes

(* Two places less than a round apart are different addresses.             *)
LEMMA BehindApart ==
  ASSUME NEW p \in 0 .. BufferLength - 1, NEW i \in 0 .. BufferLength - 1,
         NEW j \in 0 .. BufferLength - 1, i # j
  PROVE  Behind(p, i) # Behind(p, j)
<1>1. i \in 0 .. BufferLength /\ j \in 0 .. BufferLength
  BY Sizes
<1>2. Behind(p, i) = IF p + i < BufferLength THEN p + i ELSE p + i - BufferLength
  BY <1>1, BehindIs
<1>3. Behind(p, j) = IF p + j < BufferLength THEN p + j ELSE p + j - BufferLength
  BY <1>1, BehindIs
<1> QED
  BY <1>1, <1>2, <1>3, Sizes

(* What is in the buffer is a sequence of as many bytes.                   *)
LEMMA ContentsType ==
  ASSUME TypeOK
  PROVE  /\ Contents \in Seq(Values) /\ Len(Contents) = dataLength
         /\ \A i \in 1 .. dataLength : Contents[i] = memory[Behind(currentLocation, i - 1)]
<1>1. \A i \in 1 .. dataLength : i - 1 \in 0 .. BufferLength
  BY Sizes DEF TypeOK
<1>2. \A i \in 1 .. dataLength : memory[Behind(currentLocation, i - 1)] \in Values
  BY <1>1, BehindIs DEF TypeOK, Values
<1>3. dataLength \in Nat
  BY Sizes DEF TypeOK
<1> QED
  BY <1>2, <1>3, IsASeq DEF Contents

ContentsGood ==
  /\ Contents \in Seq(Values) /\ Len(Contents) = dataLength
  /\ \A i \in 1 .. dataLength : Contents[i] = memory[Behind(currentLocation, i - 1)]

(* ... before a step and after it.                                         *)
LEMMA ContentsTypeNext == TypeOK' => ContentsGood'
<1>1. TypeOK => ContentsGood
  BY ContentsType DEF ContentsGood
<1> QED
  BY <1>1, PTL

(* The lesser of two lengths, in the buffer's words and in the queue's.    *)
LEMMA LeastType ==
  ASSUME NEW m \in Nat, NEW n \in Nat
  PROVE  /\ Least(m, n) \in 0 .. m /\ Least(m, n) \in 0 .. n
         /\ Queue!Shorter(m, n) = Least(m, n)
BY DEF Least, Queue!Shorter

(* Nothing has been written.                                               *)
LEMMA InitType == Init => TypeOK
BY Sizes, EmptySeq DEF Init, TypeOK

(* MQTT_ExchangeBufferWrite lays its data behind what is there, and what   *)
(* is there stays.                                                         *)
LEMMA WriteLays ==
  ASSUME TypeOK, NEW k \in 0 .. MaxLength, NEW data \in [1 .. k -> Bytes],
         ExchangeBufferWrite(data)
  PROVE  LET n == Least(Len(data), Room) IN
         /\ TypeOK' /\ data \in Seq(Bytes) /\ Len(data) = k
         /\ n \in 0 .. k /\ n \in 0 .. BufferLength - dataLength
         /\ dataLength' = dataLength + n
         /\ UNCHANGED <<currentLocation, returned>>
         /\ \A i \in 1 .. dataLength :
              memory'[Behind(currentLocation, i - 1)] = memory[Behind(currentLocation, i - 1)]
         /\ \A i \in 1 .. n : memory'[Behind(currentLocation, dataLength + i - 1)] = data[i]
<1> DEFINE n == Least(Len(data), Room)
           end == Behind(currentLocation, dataLength)
           Laid(a) == \E i \in 1 .. n : Behind(end, i - 1) = a
           Which(a) == CHOOSE i \in 1 .. n : Behind(end, i - 1) = a
<1>1. /\ currentLocation \in 0 .. BufferLength - 1 /\ dataLength \in 0 .. BufferLength
      /\ memory \in [0 .. BufferLength - 1 -> Values] /\ returned \in Seq(Values)
  BY DEF TypeOK, Values
<1>2. k \in Nat /\ data \in Seq(Bytes) /\ Len(data) = k
  BY Sizes
<1>3. Room = BufferLength - dataLength /\ Room \in Nat
  BY <1>1, Sizes DEF Room
<1>4. n \in 0 .. k /\ n \in 0 .. BufferLength - dataLength
  BY <1>2, <1>3, LeastType
<1>5. /\ memory' = [a \in 0 .. BufferLength - 1 |-> IF Laid(a) THEN data[Which(a)] ELSE memory[a]]
      /\ dataLength' = dataLength + n
      /\ UNCHANGED <<currentLocation, returned>>
  BY DEF ExchangeBufferWrite
<1>6. \A i \in 1 .. n : /\ Behind(end, i - 1) = Behind(currentLocation, dataLength + i - 1)
                        /\ Behind(currentLocation, dataLength + i - 1) \in 0 .. BufferLength - 1
                        /\ dataLength + i - 1 \in 0 .. BufferLength - 1
  <2> SUFFICES ASSUME NEW i \in 1 .. n
               PROVE  /\ Behind(end, i - 1) = Behind(currentLocation, dataLength + i - 1)
                      /\ Behind(currentLocation, dataLength + i - 1) \in 0 .. BufferLength - 1
                      /\ dataLength + i - 1 \in 0 .. BufferLength - 1
    OBVIOUS
  <2>1. /\ i - 1 \in 0 .. BufferLength /\ dataLength + (i - 1) = dataLength + i - 1
        /\ dataLength + i - 1 \in 0 .. BufferLength - 1 /\ dataLength + i - 1 \in 0 .. BufferLength
    BY <1>1, <1>4, Sizes
  <2>2. dataLength + (i - 1) <= BufferLength
    BY <2>1, Sizes
  <2> QED
    BY <1>1, <2>1, <2>2, BehindBehind, BehindIs
<1>7. \A i, j \in 1 .. n : Behind(end, i - 1) = Behind(end, j - 1) => i = j
  <2> SUFFICES ASSUME NEW i \in 1 .. n, NEW j \in 1 .. n, i # j
               PROVE  Behind(end, i - 1) # Behind(end, j - 1)
    OBVIOUS
  <2>1. dataLength + i - 1 # dataLength + j - 1
    BY <1>1, <1>4
  <2> QED
    BY <1>1, <1>6, <2>1, BehindApart
<1>8. \A i \in 1 .. n : memory'[Behind(currentLocation, dataLength + i - 1)] = data[i]
  <2> SUFFICES ASSUME NEW i \in 1 .. n
               PROVE  memory'[Behind(currentLocation, dataLength + i - 1)] = data[i]
    OBVIOUS
  <2> DEFINE a == Behind(end, i - 1)
  <2>1. Laid(a) /\ Which(a) = i
    BY <1>7
  <2>2. a = Behind(currentLocation, dataLength + i - 1) /\ a \in 0 .. BufferLength - 1
    BY <1>6
  <2> HIDE DEF a, Laid, Which
  <2>3. memory'[a] = data[i]
    BY <1>5, <2>1, <2>2
  <2> QED
    BY <2>2, <2>3
<1>9. \A i \in 1 .. dataLength :
        memory'[Behind(currentLocation, i - 1)] = memory[Behind(currentLocation, i - 1)]
  <2> SUFFICES ASSUME NEW i \in 1 .. dataLength
               PROVE  memory'[Behind(currentLocation, i - 1)] = memory[Behind(currentLocation, i - 1)]
    OBVIOUS
  <2> DEFINE a == Behind(currentLocation, i - 1)
  <2>1. i - 1 \in 0 .. BufferLength - 1 /\ i - 1 \in 0 .. BufferLength
    BY <1>1, Sizes
  <2>2. a \in 0 .. BufferLength - 1
    BY <1>1, <2>1, BehindIs
  <2>3. ~Laid(a)
    <3> SUFFICES ASSUME NEW j \in 1 .. n, Behind(end, j - 1) = a PROVE FALSE
      OBVIOUS
    <3>1. dataLength + j - 1 # i - 1
      BY <1>1, <1>4
    <3> QED
      BY <1>1, <1>6, <2>1, <3>1, BehindApart
  <2> HIDE DEF a, Laid, Which
  <2>4. memory'[a] = memory[a]
    BY <1>5, <2>2, <2>3
  <2> QED
    BY <2>4 DEF a
<1>10. memory' \in [0 .. BufferLength - 1 -> Values]
  <2>1. ASSUME NEW a \in 0 .. BufferLength - 1, Laid(a) PROVE data[Which(a)] \in Values
    <3>1. Which(a) \in 1 .. n
      BY <2>1
    <3>2. Which(a) \in 1 .. k
      BY <1>2, <1>4, <3>1
    <3> QED
      BY <3>2 DEF Values
  <2>2. \A a \in 0 .. BufferLength - 1 : memory[a] \in Values
    BY <1>1
  <2> HIDE DEF Laid, Which
  <2> QED
    BY <1>5, <2>1, <2>2
<1>11. TypeOK'
  BY <1>1, <1>4, <1>5, <1>10, Sizes DEF TypeOK, Values
<1> QED
  BY <1>2, <1>4, <1>5, <1>8, <1>9, <1>11

(* MQTT_ExchangeBufferRead gives the oldest bytes and moves past them.     *)
LEMMA ReadTakes ==
  ASSUME TypeOK, NEW k \in 0 .. MaxLength, ExchangeBufferRead(k)
  PROVE  LET n == Least(k, dataLength) IN
         /\ TypeOK' /\ n \in 0 .. dataLength
         /\ returned' \in Seq(Values) /\ Len(returned') = n
         /\ \A i \in 1 .. n : returned'[i] = memory[Behind(currentLocation, i - 1)]
         /\ dataLength' = dataLength - n /\ memory' = memory
         /\ \A i \in 1 .. dataLength - n :
              Behind(currentLocation', i - 1) = Behind(currentLocation, n + i - 1)
<1> DEFINE n == Least(k, dataLength)
<1>1. /\ currentLocation \in 0 .. BufferLength - 1 /\ dataLength \in 0 .. BufferLength
      /\ memory \in [0 .. BufferLength - 1 -> Values] /\ k \in Nat /\ dataLength \in Nat
  BY Sizes DEF TypeOK, Values
<1>2. n \in 0 .. dataLength /\ n \in 0 .. BufferLength /\ n \in Nat
  <2>1. n \in 0 .. dataLength
    BY <1>1, LeastType
  <2> HIDE DEF n
  <2> QED
    BY <1>1, <2>1, Sizes
<1>3. /\ returned' = [i \in 1 .. n |-> memory[Behind(currentLocation, i - 1)]]
      /\ currentLocation' = Behind(currentLocation, n)
      /\ dataLength' = dataLength - n /\ memory' = memory
  BY DEF ExchangeBufferRead
<1> HIDE DEF n
<1>4. \A i \in 1 .. n : memory[Behind(currentLocation, i - 1)] \in Values
  <2>1. \A i \in 1 .. n : i - 1 \in 0 .. BufferLength
    BY <1>2, Sizes
  <2> QED
    BY <1>1, <2>1, BehindIs
<1>5. /\ returned' \in Seq(Values) /\ Len(returned') = n
      /\ \A i \in 1 .. n : returned'[i] = memory[Behind(currentLocation, i - 1)]
  BY <1>2, <1>3, <1>4, IsASeq
<1>6. currentLocation' \in 0 .. BufferLength - 1
  BY <1>1, <1>2, <1>3, BehindIs
<1>7. TypeOK'
  BY <1>1, <1>2, <1>3, <1>5, <1>6, Sizes DEF TypeOK, Values
<1>8. \A i \in 1 .. dataLength - n :
        Behind(currentLocation', i - 1) = Behind(currentLocation, n + i - 1)
  <2> SUFFICES ASSUME NEW i \in 1 .. dataLength - n
               PROVE  Behind(Behind(currentLocation, n), i - 1) = Behind(currentLocation, n + i - 1)
    BY <1>3
  <2>1. i - 1 \in 0 .. BufferLength /\ n + (i - 1) <= BufferLength /\ n + (i - 1) = n + i - 1
    BY <1>1, <1>2, Sizes
  <2> QED
    BY <1>1, <1>2, <2>1, BehindBehind
<1> QED
  BY <1>2, <1>3, <1>5, <1>7, <1>8 DEF n

(* MQTT_ExchangeBufferPeek shows one byte, which its pointer that never    *)
(* wraps finds in the buffer.                                              *)
LEMMA PeekShows ==
  ASSUME TypeOK, NEW k \in PeekLengths, ExchangeBufferPeek(k)
  PROVE  LET n == Least(k, dataLength) IN
         /\ TypeOK' /\ n \in 0 .. dataLength
         /\ returned' \in Seq(Values) /\ Len(returned') = n
         /\ \A i \in 1 .. n : returned'[i] = memory[Behind(currentLocation, i - 1)]
         /\ UNCHANGED <<memory, currentLocation, dataLength>>
<1> DEFINE n == Least(k, dataLength)
           Seen(i) == LET a == currentLocation + i - 1
                      IN IF a < BufferLength THEN memory[a] ELSE Foreign
<1>1. /\ currentLocation \in 0 .. BufferLength - 1 /\ dataLength \in 0 .. BufferLength
      /\ memory \in [0 .. BufferLength - 1 -> Values] /\ k = 1 /\ dataLength \in Nat
  BY Sizes DEF TypeOK, Values
<1>2. n \in 0 .. dataLength /\ n \in 0 .. 1 /\ n \in Nat
  <2>1. n \in 0 .. dataLength /\ n \in 0 .. 1
    BY <1>1, LeastType
  <2> HIDE DEF n
  <2> QED
    BY <1>1, <2>1
<1>3. /\ returned' = [i \in 1 .. n |-> Seen(i)]
      /\ UNCHANGED <<memory, currentLocation, dataLength>>
  BY DEF ExchangeBufferPeek
<1>4. \A i \in 1 .. n : Seen(i) = memory[Behind(currentLocation, i - 1)] /\ Seen(i) \in Values
  <2> SUFFICES ASSUME NEW i \in 1 .. n
               PROVE  Seen(i) = memory[Behind(currentLocation, i - 1)] /\ Seen(i) \in Values
    OBVIOUS
  <2>1. i = 1 /\ i - 1 = 0 /\ 0 \in 0 .. BufferLength /\ currentLocation + i - 1 = currentLocation
    BY <1>1, <1>2, Sizes
  <2>2. Behind(currentLocation, 0) = currentLocation
    BY <1>1, <2>1, BehindIs, Sizes
  <2> QED
    BY <1>1, <2>1, <2>2, Sizes
<1> HIDE DEF n, Seen
<1>5. /\ returned' \in Seq(Values) /\ Len(returned') = n
      /\ \A i \in 1 .. n : returned'[i] = memory[Behind(currentLocation, i - 1)]
  BY <1>2, <1>3, <1>4, IsASeq
<1>6. TypeOK'
  BY <1>1, <1>3, <1>5 DEF TypeOK, Values
<1> QED
  BY <1>2, <1>3, <1>5, <1>6 DEF n

----------------------------------------------------------------------------
(* Every step.                                                             *)

LEMMA TypeStep == TypeOK /\ [Next]_vars => TypeOK'
<1> SUFFICES ASSUME TypeOK, [Next]_vars PROVE TypeOK'
  OBVIOUS
<1>1. CASE ExchangeBufferInit
  BY <1>1, Sizes DEF ExchangeBufferInit, TypeOK
<1>2. ASSUME NEW n \in 0 .. MaxLength, NEW data \in [1 .. n -> Bytes], ExchangeBufferWrite(data)
      PROVE  TypeOK'
  BY <1>2, WriteLays
<1>3. ASSUME NEW n \in PeekLengths, ExchangeBufferPeek(n) PROVE TypeOK'
  BY <1>3, PeekShows
<1>4. ASSUME NEW n \in 0 .. MaxLength, ExchangeBufferRead(n) PROVE TypeOK'
  BY <1>4, ReadTakes
<1>5. CASE UNCHANGED vars
  BY <1>5 DEF vars, TypeOK
<1> QED
  BY <1>1, <1>2, <1>3, <1>4, <1>5 DEF Next

(* The buffer's variables have their types: its length never exceeds the   *)
(* memory, and what a caller is given are bytes.                           *)
THEOREM TypeCorrect == Spec => []TypeOK
  BY InitType, TypeStep, PTL DEF Spec

(* An empty buffer is an empty queue.                                      *)
LEMMA InitRefines == Init => Queue!Init
<1> SUFFICES ASSUME Init PROVE Contents = <<>> /\ returned = <<>>
  BY DEF Queue!Init
<1>1. TypeOK /\ dataLength = 0
  BY InitType DEF Init
<1>2. Contents \in Seq(Values) /\ Len(Contents) = 0
  BY <1>1, ContentsType
<1> QED
  BY <1>2, EmptySeq DEF Init

(* A write puts what fits at the end of the queue.                         *)
LEMMA WriteRefines ==
  ASSUME TypeOK, NEW k \in 0 .. MaxLength, NEW data \in [1 .. k -> Bytes],
         ExchangeBufferWrite(data)
  PROVE  Queue!Put(data)
<1> DEFINE n == Least(Len(data), Room)
           part == SubSeq(data, 1, n)
<1>1. /\ TypeOK' /\ data \in Seq(Bytes) /\ Len(data) = k
      /\ n \in 0 .. k /\ n \in 0 .. BufferLength - dataLength
      /\ dataLength' = dataLength + n
      /\ UNCHANGED <<currentLocation, returned>>
      /\ \A i \in 1 .. dataLength :
           memory'[Behind(currentLocation, i - 1)] = memory[Behind(currentLocation, i - 1)]
      /\ \A i \in 1 .. n : memory'[Behind(currentLocation, dataLength + i - 1)] = data[i]
  BY WriteLays
<1>2. /\ Contents \in Seq(Values) /\ Len(Contents) = dataLength /\ dataLength \in 0 .. BufferLength
      /\ \A i \in 1 .. dataLength : Contents[i] = memory[Behind(currentLocation, i - 1)]
  BY ContentsType DEF TypeOK
<1>3. /\ Contents' \in Seq(Values) /\ Len(Contents') = dataLength'
      /\ \A i \in 1 .. dataLength' : Contents'[i] = memory'[Behind(currentLocation', i - 1)]
  BY <1>1, ContentsTypeNext DEF ContentsGood
<1>4. Queue!Shorter(Len(data), BufferLength - Len(Contents)) = n
  <2>1. Room = BufferLength - dataLength /\ Room \in Nat /\ k \in Nat
    BY <1>2, Sizes DEF Room
  <2> QED
    BY <1>1, <1>2, <2>1, LeastType
<1> HIDE DEF n
<1>5. k \in Nat /\ n \in Nat /\ dataLength \in Nat
  BY <1>1, <1>2, Sizes
<1>6. part \in Seq(Values) /\ Len(part) = n /\ \A i \in 1 .. n : part[i] = data[i]
  <2>1. data \in Seq(Values)
    BY <1>1 DEF Values
  <2>2. \A i \in 1 .. n : data[i] \in Values
    BY <1>1, <1>5, <2>1
  <2> QED
    BY <1>1, <1>5, <2>1, <2>2
<1> HIDE DEF part
<1>7. /\ Contents \o part \in Seq(Values) /\ Len(Contents \o part) = dataLength + n
      /\ \A i \in 1 .. dataLength + n :
           (Contents \o part)[i] = IF i <= dataLength THEN Contents[i] ELSE part[i - dataLength]
  BY <1>2, <1>5, <1>6, ConcatProperties
<1>8. \A i \in 1 .. dataLength + n : Contents'[i] = (Contents \o part)[i]
  <2> SUFFICES ASSUME NEW i \in 1 .. dataLength + n PROVE Contents'[i] = (Contents \o part)[i]
    OBVIOUS
  <2>1. CASE i <= dataLength
    <3>1. i \in 1 .. dataLength /\ i \in 1 .. dataLength'
      BY <1>1, <1>5, <2>1
    <3> QED
      BY <1>1, <1>2, <1>3, <1>7, <2>1, <3>1
  <2>2. CASE ~(i <= dataLength)
    <3>1. i - dataLength \in 1 .. n /\ i \in 1 .. dataLength' /\ dataLength + (i - dataLength) - 1 = i - 1
      BY <1>1, <1>5, <2>2
    <3>2. memory'[Behind(currentLocation, dataLength + (i - dataLength) - 1)] = data[i - dataLength]
      BY <1>1, <3>1
    <3> QED
      BY <1>1, <1>3, <1>6, <1>7, <2>2, <3>1, <3>2
  <2> QED
    BY <2>1, <2>2
<1>9. Contents' = Contents \o part
  BY <1>1, <1>3, <1>5, <1>7, <1>8, SeqEqual
<1> QED
  BY <1>1, <1>4, <1>9 DEF Queue!Put, part

(* The oldest n of the queue.                                              *)
LEMMA FrontIs ==
  ASSUME TypeOK, NEW k \in Nat
  PROVE  LET n == Least(k, dataLength) IN
         /\ Queue!Shorter(k, Len(Contents)) = n
         /\ Queue!Front(k) \in Seq(Values) /\ Len(Queue!Front(k)) = n
         /\ \A i \in 1 .. n : Queue!Front(k)[i] = memory[Behind(currentLocation, i - 1)]
<1> DEFINE n == Least(k, dataLength)
<1>1. /\ Contents \in Seq(Values) /\ Len(Contents) = dataLength /\ dataLength \in Nat
      /\ \A i \in 1 .. dataLength : Contents[i] = memory[Behind(currentLocation, i - 1)]
  BY ContentsType, Sizes DEF TypeOK
<1>2. n \in 0 .. dataLength /\ Queue!Shorter(k, Len(Contents)) = n
  BY <1>1, LeastType
<1>3. Queue!Front(k) = SubSeq(Contents, 1, n)
  BY <1>2 DEF Queue!Front
<1> HIDE DEF n
<1>4. /\ SubSeq(Contents, 1, n) \in Seq(Values) /\ Len(SubSeq(Contents, 1, n)) = n
      /\ \A i \in 1 .. n : SubSeq(Contents, 1, n)[i] = Contents[i]
  <2>1. \A i \in 1 .. n : Contents[i] \in Values
    BY <1>1, <1>2
  <2> QED
    BY <1>1, <1>2, <2>1
<1>5. \A i \in 1 .. n : i \in 1 .. dataLength
  BY <1>1, <1>2
<1> QED
  BY <1>1, <1>2, <1>3, <1>4, <1>5 DEF n

(* A peek is a look at the oldest.                                         *)
LEMMA PeekRefines ==
  ASSUME TypeOK, NEW k \in PeekLengths, ExchangeBufferPeek(k)
  PROVE  Queue!Look(k)
<1> DEFINE n == Least(k, dataLength)
<1>1. /\ n \in 0 .. dataLength /\ returned' \in Seq(Values) /\ Len(returned') = n
      /\ \A i \in 1 .. n : returned'[i] = memory[Behind(currentLocation, i - 1)]
      /\ UNCHANGED <<memory, currentLocation, dataLength>>
  BY PeekShows
<1>2. k \in Nat
  BY Sizes
<1>3. /\ Queue!Front(k) \in Seq(Values) /\ Len(Queue!Front(k)) = n
      /\ \A i \in 1 .. n : Queue!Front(k)[i] = memory[Behind(currentLocation, i - 1)]
  BY <1>2, FrontIs
<1> HIDE DEF n
<1>4. returned' = Queue!Front(k)
  BY <1>1, <1>3, SeqEqual
<1>5. Contents' = Contents
  BY <1>1 DEF Contents
<1> QED
  BY <1>4, <1>5 DEF Queue!Look

(* A read takes the oldest.                                                *)
LEMMA ReadRefines ==
  ASSUME TypeOK, NEW k \in 0 .. MaxLength, ExchangeBufferRead(k)
  PROVE  Queue!Take(k)
<1> DEFINE n == Least(k, dataLength)
           rest == SubSeq(Contents, n + 1, Len(Contents))
<1>1. /\ TypeOK' /\ n \in 0 .. dataLength
      /\ returned' \in Seq(Values) /\ Len(returned') = n
      /\ \A i \in 1 .. n : returned'[i] = memory[Behind(currentLocation, i - 1)]
      /\ dataLength' = dataLength - n /\ memory' = memory
      /\ \A i \in 1 .. dataLength - n :
           Behind(currentLocation', i - 1) = Behind(currentLocation, n + i - 1)
  BY ReadTakes
<1>2. k \in Nat
  BY Sizes
<1>3. /\ Queue!Front(k) \in Seq(Values) /\ Len(Queue!Front(k)) = n
      /\ \A i \in 1 .. n : Queue!Front(k)[i] = memory[Behind(currentLocation, i - 1)]
      /\ Queue!Shorter(k, Len(Contents)) = n
  BY <1>2, FrontIs
<1>4. /\ Contents \in Seq(Values) /\ Len(Contents) = dataLength /\ dataLength \in Nat
      /\ \A i \in 1 .. dataLength : Contents[i] = memory[Behind(currentLocation, i - 1)]
  BY ContentsType, Sizes DEF TypeOK
<1>5. /\ Contents' \in Seq(Values) /\ Len(Contents') = dataLength'
      /\ \A i \in 1 .. dataLength' : Contents'[i] = memory'[Behind(currentLocation', i - 1)]
  BY <1>1, ContentsTypeNext DEF ContentsGood
<1> HIDE DEF n
<1>6. returned' = Queue!Front(k)
  BY <1>1, <1>3, SeqEqual
<1>7. /\ rest \in Seq(Values) /\ Len(rest) = dataLength - n
      /\ \A i \in 1 .. dataLength - n : rest[i] = Contents[n + i]
  <2>1. \A i \in 1 .. dataLength : Contents[i] \in Values
    BY <1>4
  <2>2. n \in Nat /\ n + 1 \in Nat /\ n <= dataLength
    BY <1>1, <1>4
  <2>3. /\ Len(rest) = dataLength - n
        /\ \A i \in 1 .. dataLength - n : rest[i] = Contents[n + i] /\ n + i \in 1 .. dataLength
    BY <1>4, <2>2
  <2>4. rest \in Seq(Values)
    BY <1>4, <2>1, <2>2, <2>3
  <2> QED
    BY <2>3, <2>4
<1> HIDE DEF rest
<1>8. \A i \in 1 .. dataLength - n : Contents'[i] = rest[i]
  <2> SUFFICES ASSUME NEW i \in 1 .. dataLength - n PROVE Contents'[i] = rest[i]
    OBVIOUS
  <2>1. i \in 1 .. dataLength' /\ n + i \in 1 .. dataLength
    BY <1>1, <1>4
  <2>2. Contents'[i] = memory[Behind(currentLocation, n + i - 1)]
    <3>1. Contents'[i] = memory'[Behind(currentLocation', i - 1)]
      BY <1>5, <2>1
    <3>2. Behind(currentLocation', i - 1) = Behind(currentLocation, n + i - 1) /\ memory' = memory
      BY <1>1
    <3> QED
      BY <3>1, <3>2
  <2>3. Contents[n + i] = memory[Behind(currentLocation, n + i - 1)]
    <3>1. PICK j \in 1 .. dataLength : j = n + i
      BY <2>1
    <3>2. Contents[j] = memory[Behind(currentLocation, j - 1)]
      BY <1>4, <3>1
    <3>3. j - 1 = n + i - 1
      BY <1>1, <1>4, <3>1
    <3>4. Behind(currentLocation, j - 1) = Behind(currentLocation, n + i - 1)
      BY <3>3, Zenon
    <3> QED
      BY <3>1, <3>2, <3>4, Zenon
  <2> QED
    BY <1>7, <2>2, <2>3
<1>9. Contents' = rest
  BY <1>1, <1>5, <1>7, <1>8, SeqEqual
<1> QED
  BY <1>3, <1>6, <1>9 DEF Queue!Take, rest

(* Each operation is the queue's of its name.                              *)
LEMMA StepRefines == TypeOK /\ [Next]_vars => [Queue!Next]_<<Contents, returned>>
<1> SUFFICES ASSUME TypeOK, [Next]_vars PROVE [Queue!Next]_<<Contents, returned>>
  OBVIOUS
<1>1. CASE ExchangeBufferInit
  <2>1. TypeOK' /\ dataLength' = 0 /\ returned' = returned
    BY <1>1, TypeStep DEF ExchangeBufferInit
  <2>2. Contents' \in Seq(Values) /\ Len(Contents') = 0
    BY <2>1, ContentsTypeNext DEF ContentsGood
  <2>3. Queue!Clear
    BY <2>1, <2>2, EmptySeq DEF Queue!Clear
  <2> QED
    BY <2>3 DEF Queue!Next
<1>2. ASSUME NEW k \in 0 .. MaxLength, NEW data \in [1 .. k -> Bytes], ExchangeBufferWrite(data)
      PROVE  Queue!Next
  <2>1. Queue!Put(data)
    BY <1>2, WriteRefines
  <2> QED
    BY <2>1 DEF Queue!Next
<1>3. ASSUME NEW k \in PeekLengths, ExchangeBufferPeek(k) PROVE Queue!Next
  <2>1. Queue!Look(k) /\ k \in 0 .. MaxLength
    BY <1>3, PeekRefines, BufferAssumption
  <2> QED
    BY <2>1 DEF Queue!Next
<1>4. ASSUME NEW k \in 0 .. MaxLength, ExchangeBufferRead(k) PROVE Queue!Next
  <2>1. Queue!Take(k)
    BY <1>4, ReadRefines
  <2> QED
    BY <2>1 DEF Queue!Next
<1>5. CASE UNCHANGED vars
  BY <1>5 DEF vars, Contents
<1> QED
  BY <1>1, <1>2, <1>3, <1>4, <1>5 DEF Next

(* The four operations of mqtt_exchange_buffer.c are those of a bounded    *)
(* queue, for a buffer of any length and wherever its data wraps around.   *)
THEOREM RefinesByteQueue == Spec => ImplementsByteQueue
<1> QED
  BY InitRefines, StepRefines, TypeCorrect, PTL DEF Spec, ImplementsByteQueue, Queue!Spec
=============================================================================
