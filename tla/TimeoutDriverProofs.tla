------------------------ MODULE TimeoutDriverProofs ------------------------
(***************************************************************************)
(* Proofs about TimeoutDriver, for any number of timers, any width of the  *)
(* counter and of absolute times, and behaviours of any length: types, and *)
(* then the lists.  No timer is ever in two places, the counter is loaded  *)
(* for the head, and the interrupt that serves the list is on whenever the *)
(* application runs.  Then the order of listHead, and that the driver      *)
(* implements TimerService.                                                *)
(***************************************************************************)
EXTENDS TimeoutDriver, SequenceTheorems, TLAPS

----------------------------------------------------------------------------
(* Facts about sequences without repetitions, and about differences of     *)
(* times that wrap.                                                        *)

(* What taking the head off leaves.                                        *)
LEMMA TailFacts ==
  ASSUME NEW S, NEW s \in Seq(S), s # <<>>, IsInjective(s)
  PROVE  /\ IsInjective(Tail(s))
         /\ ToSet(Tail(s)) = ToSet(s) \ {Head(s)}
<1>1. Tail(s) \in Seq(S) /\ Len(Tail(s)) = Len(s) - 1 /\ Len(s) \in Nat /\ Len(s) >= 1
  OBVIOUS
<1>2. \A j \in 1 .. Len(s) - 1 : Tail(s)[j] = s[j + 1]
  OBVIOUS
<1>3. DOMAIN s = 1 .. Len(s) /\ DOMAIN Tail(s) = 1 .. Len(s) - 1 /\ Head(s) = s[1]
  BY <1>1
<1>4. IsInjective(Tail(s))
  BY <1>1, <1>2, <1>3 DEF IsInjective
<1>5. ASSUME NEW x \in ToSet(Tail(s)) PROVE x \in ToSet(s) /\ x # Head(s)
  BY <1>1, <1>2, <1>3 DEF ToSet, IsInjective
<1>6. ASSUME NEW x \in ToSet(s), x # Head(s) PROVE x \in ToSet(Tail(s))
  <2>1. PICK j \in 1 .. Len(s) : s[j] = x
    BY <1>3 DEF ToSet
  <2>2. j - 1 \in 1 .. Len(s) - 1 /\ Tail(s)[j - 1] = x
    BY <2>1, <1>1, <1>2, <1>3, <1>6
  <2> QED
    BY <2>2, <1>3 DEF ToSet
<1> QED
  BY <1>4, <1>5, <1>6

(* A sequence without its i-th element, element by element.                *)
LEMMA RemoveIs ==
  ASSUME NEW S, NEW s \in Seq(S), NEW i \in 1 .. Len(s)
  PROVE  /\ RemoveAt(s, i) \in Seq(S) /\ Len(RemoveAt(s, i)) = Len(s) - 1 /\ Len(s) \in Nat
         /\ \A j \in 1 .. Len(s) - 1 :
              RemoveAt(s, i)[j] = IF j < i THEN s[j] ELSE s[j + 1]
<1> DEFINE r == RemoveAt(s, i)
<1> DEFINE a == SubSeq(s, 1, i - 1)
<1> DEFINE b == SubSeq(s, i + 1, Len(s))
<1>1. Len(s) \in Nat /\ r = a \o b
  BY DEF RemoveAt
<1>2. a \in Seq(S) /\ Len(a) = i - 1 /\ \A j \in 1 .. i - 1 : a[j] = s[j]
  OBVIOUS
<1>3. b \in Seq(S) /\ Len(b) = Len(s) - i /\ \A j \in 1 .. Len(s) - i : b[j] = s[i + j]
  OBVIOUS
<1> HIDE DEF a, b, r
<1>4. /\ a \o b \in Seq(S) /\ Len(a \o b) = Len(s) - 1
      /\ \A j \in 1 .. Len(s) - 1 :
           (a \o b)[j] = IF j <= Len(a) THEN a[j] ELSE b[j - Len(a)]
  <2>1. Len(a) + Len(b) = Len(s) - 1
    BY <1>1, <1>2, <1>3
  <2>2. /\ a \o b \in Seq(S)
        /\ Len(a \o b) = Len(a) + Len(b)
        /\ \A j \in 1 .. Len(a) + Len(b) :
             (a \o b)[j] = IF j <= Len(a) THEN a[j] ELSE b[j - Len(a)]
    BY <1>2, <1>3, ConcatProperties
  <2> QED
    BY <2>1, <2>2
<1>5. ASSUME NEW j \in 1 .. Len(s) - 1, j < i PROVE r[j] = s[j]
  BY <1>1, <1>2, <1>4, <1>5
<1>6. ASSUME NEW j \in 1 .. Len(s) - 1, j >= i PROVE r[j] = s[j + 1]
  <2>1. j - Len(a) \in 1 .. Len(s) - i /\ i + (j - Len(a)) = j + 1
    BY <1>1, <1>2, <1>6
  <2> QED
    BY <2>1, <1>1, <1>2, <1>3, <1>4, <1>6
<1> QED
  BY <1>1, <1>4, <1>5, <1>6 DEF r

(* What taking the element at i out leaves; the head stays unless it is    *)
(* it.                                                                     *)
LEMMA RemoveFacts ==
  ASSUME NEW S, NEW s \in Seq(S), NEW i \in 1 .. Len(s), IsInjective(s)
  PROVE  /\ IsInjective(RemoveAt(s, i))
         /\ ToSet(RemoveAt(s, i)) = ToSet(s) \ {s[i]}
         /\ i > 1 => RemoveAt(s, i) # <<>> /\ Head(RemoveAt(s, i)) = Head(s)
         /\ Len(RemoveAt(s, i)) = Len(s) - 1
<1> DEFINE r == RemoveAt(s, i)
<1>1. /\ r \in Seq(S) /\ Len(r) = Len(s) - 1 /\ Len(s) \in Nat
      /\ \A j \in 1 .. Len(s) - 1 : r[j] = IF j < i THEN s[j] ELSE s[j + 1]
  BY RemoveIs
<1>2. DOMAIN s = 1 .. Len(s) /\ DOMAIN r = 1 .. Len(s) - 1
  BY <1>1
<1> HIDE DEF r
<1>3. IsInjective(r)
  <2> SUFFICES ASSUME NEW j \in 1 .. Len(s) - 1, NEW l \in 1 .. Len(s) - 1, r[j] = r[l]
               PROVE  j = l
    BY <1>2 DEF IsInjective
  <2>0. ASSUME NEW h \in 1 .. Len(s) - 1
        PROVE  \E m \in 1 .. Len(s) : r[h] = s[m] /\ m = IF h < i THEN h ELSE h + 1
    <3>1. h \in 1 .. Len(s) /\ h + 1 \in 1 .. Len(s)
      BY <1>1
    <3>2. r[h] = IF h < i THEN s[h] ELSE s[h + 1]
      BY <1>1
    <3> QED
      BY <3>1, <3>2
  <2>1. PICK m \in 1 .. Len(s) : r[j] = s[m] /\ m = IF j < i THEN j ELSE j + 1
    BY <2>0
  <2>2. PICK n \in 1 .. Len(s) : r[l] = s[n] /\ n = IF l < i THEN l ELSE l + 1
    BY <2>0
  <2>3. m = n
    BY <2>1, <2>2, <1>2 DEF IsInjective
  <2> QED
    BY <2>1, <2>2, <2>3
<1>4. ASSUME NEW x \in ToSet(r) PROVE x \in ToSet(s) /\ x # s[i]
  <2>1. PICK j \in 1 .. Len(s) - 1 : r[j] = x
    BY <1>2 DEF ToSet
  <2>2. PICK m \in 1 .. Len(s) : x = s[m] /\ m # i
    BY <2>1, <1>1
  <2> QED
    BY <2>2, <1>2 DEF ToSet, IsInjective
<1>5. ASSUME NEW x \in ToSet(s), x # s[i] PROVE x \in ToSet(r)
  <2>1. PICK j \in 1 .. Len(s) : s[j] = x
    BY <1>2 DEF ToSet
  <2>2. CASE j < i
    <3>1. j \in 1 .. Len(s) - 1 /\ r[j] = x
      BY <2>1, <2>2, <1>1
    <3> QED
      BY <3>1, <1>2 DEF ToSet
  <2>3. CASE j > i
    <3>1. j - 1 \in 1 .. Len(s) - 1 /\ r[j - 1] = x
      BY <2>1, <2>3, <1>1
    <3> QED
      BY <3>1, <1>2 DEF ToSet
  <2> QED
    BY <2>1, <2>2, <2>3, <1>5
<1>6. i > 1 => r # <<>> /\ Head(r) = Head(s)
  BY <1>1, <1>2
<1> QED
  BY <1>1, <1>3, <1>4, <1>5, <1>6 DEF r

(* A sequence with x put in at k, element by element.                      *)
LEMMA InsertIs ==
  ASSUME NEW S, NEW s \in Seq(S), NEW k \in 1 .. Len(s) + 1, NEW x \in S
  PROVE  /\ InsertAt(s, k, x) \in Seq(S) /\ Len(InsertAt(s, k, x)) = Len(s) + 1
         /\ Len(s) \in Nat
         /\ \A j \in 1 .. Len(s) + 1 :
              InsertAt(s, k, x)[j] = IF j < k THEN s[j] ELSE IF j = k THEN x ELSE s[j - 1]
<1> DEFINE r == InsertAt(s, k, x)
<1> DEFINE a == SubSeq(s, 1, k - 1)
<1> DEFINE b == SubSeq(s, k, Len(s))
<1> DEFINE c == a \o <<x>>
<1>0. Len(s) \in Nat /\ k \in Int
  OBVIOUS
<1>1. Len(s) \in Nat /\ r = c \o b
  BY DEF InsertAt
<1>2. a \in Seq(S) /\ Len(a) = k - 1 /\ \A j \in 1 .. k - 1 : a[j] = s[j]
  OBVIOUS
<1>3. /\ b \in Seq(S) /\ Len(b) = Len(s) - k + 1
      /\ \A j \in 1 .. Len(s) - k + 1 : b[j] = s[k + j - 1]
  OBVIOUS
<1> HIDE DEF a, b, r
<1>4. /\ c \in Seq(S) /\ Len(c) = k
      /\ \A j \in 1 .. k : c[j] = IF j < k THEN a[j] ELSE x
  BY <1>2
<1> HIDE DEF c
<1>5. /\ c \o b \in Seq(S) /\ Len(c \o b) = Len(s) + 1
      /\ \A j \in 1 .. Len(s) + 1 :
           (c \o b)[j] = IF j <= Len(c) THEN c[j] ELSE b[j - Len(c)]
  <2>1. Len(c) + Len(b) = Len(s) + 1
    BY <1>1, <1>3, <1>4
  <2>2. /\ c \o b \in Seq(S)
        /\ Len(c \o b) = Len(c) + Len(b)
        /\ \A j \in 1 .. Len(c) + Len(b) :
             (c \o b)[j] = IF j <= Len(c) THEN c[j] ELSE b[j - Len(c)]
    BY <1>3, <1>4, ConcatProperties
  <2> QED
    BY <2>1, <2>2
<1>6. ASSUME NEW j \in 1 .. Len(s) + 1, j <= k
      PROVE  r[j] = IF j < k THEN s[j] ELSE x
  <2>1. j \in 1 .. k /\ r[j] = c[j]
    BY <1>1, <1>4, <1>5, <1>6
  <2>2. j < k => a[j] = s[j]
    BY <1>2, <2>1
  <2> QED
    BY <1>4, <2>1, <2>2
<1>7. ASSUME NEW j \in 1 .. Len(s) + 1, j > k PROVE r[j] = s[j - 1]
  <2>1. j - Len(c) \in 1 .. Len(s) - k + 1 /\ k + (j - Len(c)) - 1 = j - 1
    BY <1>1, <1>4, <1>7
  <2>2. r[j] = b[j - Len(c)]
    BY <1>1, <1>4, <1>5, <1>7
  <2>3. b[j - Len(c)] = s[k + (j - Len(c)) - 1]
    BY <1>3, <2>1
  <2> QED
    BY <2>1, <2>2, <2>3
<1>8. ASSUME NEW j \in 1 .. Len(s) + 1
      PROVE  r[j] = IF j < k THEN s[j] ELSE IF j = k THEN x ELSE s[j - 1]
  <2>1. CASE j <= k
    BY <2>1, <1>0, <1>6
  <2>2. CASE j > k
    BY <2>2, <1>0, <1>7
  <2> QED
    BY <2>1, <2>2, <1>0
<1> QED
  BY <1>1, <1>5, <1>8 DEF r

(* An element put in at the front.                                         *)
LEMMA PushIsInsert ==
  ASSUME NEW S, NEW s \in Seq(S), NEW x \in S PROVE <<x>> \o s = InsertAt(s, 1, x)
<1> DEFINE r == InsertAt(s, 1, x)
<1>0. 1 \in 1 .. Len(s) + 1 /\ Len(s) \in Nat
  OBVIOUS
<1>1. r \in Seq(S) /\ Len(r) = Len(s) + 1
  BY <1>0, InsertIs
<1>2. ASSUME NEW j \in 1 .. Len(s) + 1 PROVE r[j] = IF j = 1 THEN x ELSE s[j - 1]
  <2>1. ASSUME NEW k, k = 1, k \in 1 .. Len(s) + 1
        PROVE  InsertAt(s, k, x)[j] = IF j < k THEN s[j] ELSE IF j = k THEN x ELSE s[j - 1]
    BY ONLY InsertIs, x \in S, s \in Seq(S), <2>1, j \in 1 .. Len(s) + 1
  <2> QED
    BY <1>0, <2>1
<1> HIDE DEF r
<1>3. /\ <<x>> \o s \in Seq(S) /\ Len(<<x>> \o s) = Len(s) + 1
      /\ \A j \in 1 .. Len(s) + 1 : (<<x>> \o s)[j] = IF j = 1 THEN x ELSE s[j - 1]
  OBVIOUS
<1>4. r = <<x>> \o s
  BY <1>1, <1>2, <1>3, SeqEqual
<1> QED
  BY <1>4 DEF r

(* The tail is the sequence without its first element.                     *)
LEMMA TailIsRemove ==
  ASSUME NEW S, NEW s \in Seq(S), s # <<>> PROVE Tail(s) = RemoveAt(s, 1)
<1>1. SubSeq(s, 1, 1 - 1) = <<>> /\ Tail(s) = SubSeq(s, 1 + 1, Len(s))
  OBVIOUS
<1>2. <<>> \o SubSeq(s, 1 + 1, Len(s)) = SubSeq(s, 1 + 1, Len(s))
  OBVIOUS
<1> QED
  BY <1>1, <1>2 DEF RemoveAt

(* What putting a new element in at k gives; behind the head, the head     *)
(* stays.                                                                  *)
LEMMA InsertFacts ==
  ASSUME NEW S, NEW s \in Seq(S), NEW k \in 1 .. Len(s) + 1, NEW x \in S,
         IsInjective(s), x \notin ToSet(s)
  PROVE  /\ IsInjective(InsertAt(s, k, x))
         /\ ToSet(InsertAt(s, k, x)) = ToSet(s) \cup {x}
         /\ k > 1 => InsertAt(s, k, x) # <<>> /\ Head(InsertAt(s, k, x)) = Head(s)
<1> DEFINE r == InsertAt(s, k, x)
<1>1. /\ r \in Seq(S) /\ Len(r) = Len(s) + 1 /\ Len(s) \in Nat
      /\ \A j \in 1 .. Len(s) + 1 :
           r[j] = IF j < k THEN s[j] ELSE IF j = k THEN x ELSE s[j - 1]
  <2>1. r \in Seq(S) /\ Len(r) = Len(s) + 1 /\ Len(s) \in Nat
    BY InsertIs
  <2>2. ASSUME NEW j \in 1 .. Len(s) + 1
        PROVE  r[j] = IF j < k THEN s[j] ELSE IF j = k THEN x ELSE s[j - 1]
    BY ONLY InsertIs, x \in S, s \in Seq(S), k \in 1 .. Len(s) + 1, j \in 1 .. Len(s) + 1
  <2> QED
    BY <2>1, <2>2
<1>2. DOMAIN s = 1 .. Len(s) /\ DOMAIN r = 1 .. Len(s) + 1
  BY <1>1
<1> HIDE DEF r
<1>3. \A j \in 1 .. Len(s) : s[j] # x
  BY <1>2 DEF ToSet
<1>4. IsInjective(r)
  <2> SUFFICES ASSUME NEW j \in 1 .. Len(s) + 1, NEW l \in 1 .. Len(s) + 1, r[j] = r[l]
               PROVE  j = l
    BY <1>2 DEF IsInjective
  <2>1. CASE j = k \/ l = k
    <3>1. ASSUME NEW i \in 1 .. Len(s) + 1, i # k PROVE r[i] # r[k]
      <4>1. r[k] = x
        BY <1>1
      <4>2. CASE i < k
        BY <1>1, <1>3, <4>1, <4>2
      <4>3. CASE i > k
        <5>1. r[i] = s[i - 1] /\ i - 1 \in 1 .. Len(s)
          BY <1>1, <4>3
        <5> QED
          BY <1>3, <4>1, <5>1
      <4> QED
        BY <3>1, <4>2, <4>3
    <3> QED
      BY <2>1, <3>1
  <2>2. CASE j # k /\ l # k
    <3>1. PICK m \in 1 .. Len(s) : r[j] = s[m] /\ m = IF j < k THEN j ELSE j - 1
      BY <2>2, <1>1
    <3>2. PICK n \in 1 .. Len(s) : r[l] = s[n] /\ n = IF l < k THEN l ELSE l - 1
      BY <2>2, <1>1
    <3>3. m = n
      BY <3>1, <3>2, <1>2 DEF IsInjective
    <3> QED
      BY <3>1, <3>2, <3>3, <2>2
  <2> QED
    BY <2>1, <2>2
<1>5. ASSUME NEW y \in ToSet(r) PROVE y \in ToSet(s) \/ y = x
  <2>1. PICK j \in 1 .. Len(s) + 1 : r[j] = y
    BY <1>2 DEF ToSet
  <2>2. y = x \/ \E m \in 1 .. Len(s) : y = s[m]
    <3>1. CASE j < k
      BY <3>1, <2>1, <1>1
    <3>2. CASE j = k
      BY <3>2, <2>1, <1>1
    <3>3. CASE j > k
      <4>1. j - 1 \in 1 .. Len(s) /\ y = s[j - 1]
        BY <3>3, <2>1, <1>1
      <4> QED
        BY <4>1
    <3> QED
      BY <3>1, <3>2, <3>3, <1>1
  <2> QED
    BY <2>2, <1>2 DEF ToSet
<1>6. x \in ToSet(r)
  <2>1. k \in DOMAIN r /\ r[k] = x
    BY <1>1, <1>2
  <2> QED
    BY <2>1 DEF ToSet
<1>7. ASSUME NEW y \in ToSet(s) PROVE y \in ToSet(r)
  <2>1. PICK j \in 1 .. Len(s) : s[j] = y
    BY <1>2 DEF ToSet
  <2>2. CASE j < k
    <3>1. j \in DOMAIN r /\ r[j] = y
      BY <2>1, <2>2, <1>1, <1>2
    <3> QED
      BY <3>1 DEF ToSet
  <2>3. CASE j >= k
    <3>1. j + 1 \in DOMAIN r /\ r[j + 1] = y
      BY <2>1, <2>3, <1>1, <1>2
    <3> QED
      BY <3>1 DEF ToSet
  <2> QED
    BY <2>1, <2>2, <2>3, <1>1
<1>8. k > 1 => r # <<>> /\ Head(r) = Head(s)
  BY <1>1, <1>2
<1> QED
  BY <1>4, <1>5, <1>6, <1>7, <1>8 DEF r

(* What putting an element in front gives.                                 *)
LEMMA PushFacts ==
  ASSUME NEW S, NEW s \in Seq(S), NEW x \in S
  PROVE  /\ <<x>> \o s \in Seq(S) /\ <<x>> \o s # <<>> /\ Head(<<x>> \o s) = x
         /\ ToSet(<<x>> \o s) = ToSet(s) \cup {x}
         /\ IsInjective(s) /\ x \notin ToSet(s) => IsInjective(<<x>> \o s)
<1> DEFINE r == <<x>> \o s
<1>1. /\ r \in Seq(S) /\ Len(r) = Len(s) + 1 /\ Len(s) \in Nat
      /\ r[1] = x /\ \A j \in 1 .. Len(s) : r[j + 1] = s[j]
  OBVIOUS
<1>2. DOMAIN s = 1 .. Len(s) /\ DOMAIN r = 1 .. Len(s) + 1
  BY <1>1
<1> HIDE DEF r
<1>3. ASSUME NEW l \in 1 .. Len(s) + 1, l # 1
      PROVE  l - 1 \in 1 .. Len(s) /\ r[l] = s[l - 1]
  <2>1. l - 1 \in 1 .. Len(s) /\ (l - 1) + 1 = l
    BY <1>1, <1>3
  <2> QED
    BY <2>1, <1>1
<1>4. ToSet(r) = ToSet(s) \cup {x}
  <2>1. ASSUME NEW y \in ToSet(r), y # x PROVE y \in ToSet(s)
    <3>1. PICK j \in 1 .. Len(s) + 1 : r[j] = y
      BY <1>2 DEF ToSet
    <3>2. j # 1
      BY <3>1, <2>1, <1>1
    <3>3. j - 1 \in DOMAIN s /\ s[j - 1] = y
      BY <3>1, <3>2, <1>2, <1>3
    <3> QED
      BY <3>3 DEF ToSet
  <2>2. x \in ToSet(r)
    <3>1. 1 \in DOMAIN r /\ r[1] = x
      BY <1>1, <1>2
    <3> QED
      BY <3>1 DEF ToSet
  <2>3. ASSUME NEW y \in ToSet(s) PROVE y \in ToSet(r)
    <3>1. PICK j \in 1 .. Len(s) : s[j] = y
      BY <1>2 DEF ToSet
    <3>2. j + 1 \in DOMAIN r /\ r[j + 1] = y
      BY <3>1, <1>1, <1>2
    <3> QED
      BY <3>2 DEF ToSet
  <2> QED
    BY <2>1, <2>2, <2>3
<1>5. ASSUME IsInjective(s), x \notin ToSet(s) PROVE IsInjective(r)
  <2> SUFFICES ASSUME NEW j \in 1 .. Len(s) + 1, NEW l \in 1 .. Len(s) + 1, r[j] = r[l]
               PROVE  j = l
    BY <1>2 DEF IsInjective
  <2>1. \A m \in 1 .. Len(s) : s[m] # x
    BY <1>2, <1>5 DEF ToSet
  <2>2. CASE j = 1 \/ l = 1
    BY <2>1, <2>2, <1>1, <1>3
  <2>3. CASE j # 1 /\ l # 1
    <3>1. j - 1 = l - 1
      BY <2>3, <1>2, <1>3, <1>5 DEF IsInjective
    <3> QED
      BY <3>1
  <2> QED
    BY <2>2, <2>3
<1>6. r # <<>> /\ Head(r) = x
  BY <1>1, <1>2
<1> QED
  BY <1>1, <1>4, <1>5, <1>6 DEF r

(* What putting a new element at the end gives.                            *)
LEMMA AppendFacts ==
  ASSUME NEW S, NEW s \in Seq(S), NEW x \in S, IsInjective(s), x \notin ToSet(s)
  PROVE  /\ IsInjective(Append(s, x))
         /\ ToSet(Append(s, x)) = ToSet(s) \cup {x}
<1> DEFINE r == Append(s, x)
<1>1. /\ r \in Seq(S) /\ Len(r) = Len(s) + 1 /\ Len(s) \in Nat
      /\ \A j \in 1 .. Len(s) + 1 : r[j] = IF j <= Len(s) THEN s[j] ELSE x
  OBVIOUS
<1>2. DOMAIN s = 1 .. Len(s) /\ DOMAIN r = 1 .. Len(s) + 1
  BY <1>1
<1> HIDE DEF r
<1>3. \A m \in 1 .. Len(s) : s[m] # x
  BY <1>2 DEF ToSet
<1>4. IsInjective(r)
  BY <1>1, <1>2, <1>3 DEF IsInjective
<1>5. ToSet(r) = ToSet(s) \cup {x}
  <2>1. ASSUME NEW y \in ToSet(r), y # x PROVE y \in ToSet(s)
    <3>1. PICK j \in 1 .. Len(s) + 1 : r[j] = y
      BY <1>2 DEF ToSet
    <3>2. j \in DOMAIN s /\ s[j] = y
      BY <3>1, <2>1, <1>1, <1>2
    <3> QED
      BY <3>2 DEF ToSet
  <2>2. x \in ToSet(r)
    <3>1. Len(s) + 1 \in DOMAIN r /\ r[Len(s) + 1] = x
      BY <1>1, <1>2
    <3> QED
      BY <3>1 DEF ToSet
  <2>3. ASSUME NEW y \in ToSet(s) PROVE y \in ToSet(r)
    <3>1. PICK j \in 1 .. Len(s) : s[j] = y
      BY <1>2 DEF ToSet
    <3>2. j \in DOMAIN r /\ r[j] = y
      BY <3>1, <1>1, <1>2
    <3> QED
      BY <3>2 DEF ToSet
  <2> QED
    BY <2>1, <2>2, <2>3
<1> QED
  BY <1>4, <1>5 DEF r

(* The head of a sequence is in it.                                        *)
LEMMA HeadIn == ASSUME NEW S, NEW s \in Seq(S), s # <<>> PROVE Head(s) \in ToSet(s)
<1>1. 1 \in DOMAIN s /\ Head(s) = s[1]
  OBVIOUS
<1> QED
  BY <1>1 DEF ToSet

(* The empty sequence has no elements, nor any twice.                      *)
LEMMA EmptySet == ToSet(<<>>) = {} /\ IsInjective(<<>>)
  BY DEF ToSet, IsInjective

(* x is at the head or nowhere, said of positions and said of elements.    *)
LEMMA OnlyHead ==
  ASSUME NEW S, NEW s \in Seq(S), NEW x, IsInjective(s)
  PROVE  (\A i \in 2 .. Len(s) : s[i] # x) <=> (x \in ToSet(s) => Head(s) = x)
<1>1. Len(s) \in Nat /\ DOMAIN s = 1 .. Len(s) /\ (s # <<>> => Head(s) = s[1])
  OBVIOUS
<1>2. ASSUME \A i \in 2 .. Len(s) : s[i] # x, x \in ToSet(s) PROVE Head(s) = x
  <2>1. PICK j \in 1 .. Len(s) : s[j] = x
    BY <1>1, <1>2 DEF ToSet
  <2>2. j = 1
    BY <2>1, <1>1, <1>2
  <2> QED
    BY <2>1, <2>2, <1>1
<1>3. ASSUME x \in ToSet(s) => Head(s) = x, NEW i \in 2 .. Len(s), s[i] = x PROVE FALSE
  <2>1. x \in ToSet(s) /\ i \in DOMAIN s /\ 1 \in DOMAIN s /\ i # 1
    BY <1>1, <1>3 DEF ToSet
  <2> QED
    BY <2>1, <1>1, <1>3 DEF IsInjective
<1> QED
  BY <1>2, <1>3

----------------------------------------------------------------------------
(* Division by a positive number leaves its remainder.                     *)
LEMMA Divide == ASSUME NEW x \in Int, NEW M \in Nat \ {0}
  PROVE x % M \in 0 .. M - 1 /\ \E q \in Int : x = M * q + (x % M)
<1>1. x % M \in 0 .. M - 1 /\ x \div M \in Int /\ x = M * (x \div M) + (x % M)
  OBVIOUS
<1> QED
  BY <1>1

(* The remainder is the only one.                                          *)
LEMMA Unique == ASSUME NEW M \in Nat \ {0}, NEW r \in 0 .. M - 1, NEW s \in 0 .. M - 1,
   NEW p \in Int, NEW q \in Int, M * p + r = M * q + s
  PROVE r = s
<1>1. CASE p = q
  BY <1>1
<1>2. CASE p < q
  <2>1. q = p + (q - p)
    OBVIOUS
  <2>2. M * (q - p) >= M
    BY <1>2
  <2>3. M * q = M * p + M * (q - p)
    OBVIOUS
  <2> QED
    BY <2>2, <2>3
<1>3. CASE q < p
  <2>2. M * (p - q) >= M
    BY <1>3
  <2>3. M * p = M * q + M * (p - q)
    OBVIOUS
  <2> QED
    BY <2>2, <2>3
<1> QED
  BY <1>1, <1>2, <1>3

(* The distance between two times is the same when both are reduced.       *)
LEMMA ModDiff ==
  ASSUME NEW x \in Int, NEW y \in Int, NEW M \in Nat \ {0}
  PROVE  ((x % M) - (y % M)) % M = (x - y) % M
<1> DEFINE u == x % M
<1> DEFINE v == y % M
<1>1. PICK p \in Int : x = M * p + u
  BY Divide
<1>2. PICK q \in Int : y = M * q + v
  BY Divide
<1>3. x - y \in Int /\ u \in Int /\ v \in Int
  BY Divide
<1> HIDE DEF u, v
<1>4. u - v \in Int
  BY <1>3
<1>5. PICK k \in Int : x - y = M * k + ((x - y) % M)
  BY <1>3, Divide
<1>6. PICK j \in Int : u - v = M * j + ((u - v) % M)
  BY <1>4, Divide
<1>7. (u - v) % M \in 0 .. M - 1 /\ (x - y) % M \in 0 .. M - 1
  BY <1>3, <1>4, Divide
<1>8. M * k + ((x - y) % M) = M * (p - q + j) + ((u - v) % M)
  <2>1. x - y = M * p - M * q + (u - v)
    BY <1>1, <1>2, <1>3
  <2>2. M * (p - q + j) = M * p - M * q + M * j
    OBVIOUS
  <2> QED
    BY <2>1, <2>2, <1>5, <1>6, <1>7
<1>9. p - q + j \in Int
  OBVIOUS
<1>10. (x - y) % M = (u - v) % M
  BY <1>7, <1>8, <1>9, Unique
<1> QED
  BY <1>10 DEF u, v

(* A number in range is its own remainder.                                 *)
LEMMA ModSmall == ASSUME NEW M \in Nat \ {0}, NEW r \in 0 .. M - 1 PROVE r % M = r
OBVIOUS

(* Going c ahead, across the wrap or not, leaves the distance c.           *)
LEMMA ModBack == ASSUME NEW M \in Nat \ {0}, NEW c \in 0 .. M - 1, NEW b \in 0 .. M - 1
  PROVE (((b + c) % M) - b) % M = c
<1>1. b % M = b /\ c % M = c
  BY ModSmall
<1>2. (((b + c) % M) - (b % M)) % M = ((b + c) - b) % M
  <2>1. b + c \in Int /\ b \in Int
    OBVIOUS
  <2> QED
    BY <2>1, ModDiff
<1>3. (b + c) - b = c
  OBVIOUS
<1> QED
  BY <1>1, <1>2, <1>3

----------------------------------------------------------------------------
(* Types.                                                                  *)

USE DEF hw, clock, ctl, vars, Nodes

(* What the callee finds: in timeout_create there is a timer to insert,    *)
(* and in timeout_callNextCallback a callback to call.                     *)
Control ==
  /\ op.call = "create" => op.timer \in Timers /\ op.timeout \in Timeouts
  /\ pc \in {"create", "createOff", "createAbs"} => op.call = "create"
  /\ pc = "flush" => op.call = "flush"
  /\ pc \in {"callIE", "callOff"} => queue # <<>>

Typed == TypeOK /\ Control

(* Whatever the arithmetic yields, the modulus makes it an absolute time.  *)
LEMMA Absolute == ASSUME NEW x \in Int PROVE x % AbsMod \in 0 .. AbsMod - 1
BY TimeoutAssumption

(* makeAbsolute returns an absolute time, also of a negative offset.       *)
LEMMA AbsoluteType ==
  ASSUME TypeOK, NEW d \in Int
  PROVE  MakeAbsolute(d) \in 0 .. AbsMod - 1
<1>1. Elapsed \in Int
  BY TimeoutAssumption DEF TypeOK, Elapsed
<1>2. d + absLast + Elapsed \in Int
  BY <1>1 DEF TypeOK
<1> QED
  BY <1>2, Absolute DEF MakeAbsolute

(* What startTimerAtHead leaves is well typed.                             *)
LEMMA StartType ==
  ASSUME TypeOK, NEW l \in Seq(Nodes), NEW a \in [Nodes -> 0 .. AbsMod - 1],
         NEW base \in 0 .. AbsMod - 1, StartTimerAtHead(l, a, base)
  PROVE  /\ list' \in Seq(Nodes) /\ abs' \in [Nodes -> 0 .. AbsMod - 1]
         /\ absLast' \in 0 .. AbsMod - 1
         /\ lastLoad' \in 0 .. MaxCount /\ cnt' \in 0 .. MaxCount
         /\ running' \in BOOLEAN /\ ovfIE' \in BOOLEAN
<1> USE TimeoutAssumption
<1>0. cnt \in 0 .. MaxCount /\ MaxCount \in Nat /\ AbsMod \in Nat
  BY DEF TypeOK
<1>1. CASE l = <<>>
  <2>1. /\ list' = l /\ abs' = a /\ cnt' = cnt /\ ovfIE' = FALSE
        /\ absLast' = 0 /\ lastLoad' = 0 /\ running' = FALSE
    BY <1>1 DEF StartTimerAtHead, StopTimeouts
  <2>2. list' \in Seq(Nodes) /\ abs' \in [Nodes -> 0 .. AbsMod - 1]
    BY <2>1
  <2>3. absLast' \in 0 .. AbsMod - 1 /\ lastLoad' \in 0 .. MaxCount /\ cnt' \in 0 .. MaxCount
    BY <2>1, <1>0
  <2> QED
    BY <2>1, <2>2, <2>3
<1>2. CASE l # <<>>
  <2>1. Head(l) \in Nodes
    BY <1>2
  <2>2. Period(l, a, base) \in 0 .. AbsMod - 1
    <3>1. a[Head(l)] - base \in Int
      BY <2>1, <1>0
    <3> QED
      BY <3>1, Absolute DEF Period
  <2>3. (base + MaxCount) % AbsMod \in 0 .. AbsMod - 1
    <3>1. base + MaxCount \in Int
      BY <1>0
    <3> QED
      BY <3>1, Absolute
  <2>4. CASE TooFar(Period(l, a, base))
    <3>1. /\ list' = <<Dummy>> \o l
          /\ abs' = [a EXCEPT ![Dummy] = (base + MaxCount) % AbsMod]
          /\ lastLoad' = MaxCount - MaxCount /\ cnt' = MaxCount - MaxCount
          /\ absLast' = base /\ ovfIE' = TRUE /\ running' = TRUE
      BY <1>2, <2>4 DEF StartTimerAtHead, SetTimerDuration
    <3>2. list' \in Seq(Nodes)
      BY <3>1
    <3>3. abs' \in [Nodes -> 0 .. AbsMod - 1]
      BY <3>1, <2>3
    <3> QED
      BY <3>1, <3>2, <3>3, <1>0
  <2>5. CASE ~TooFar(Period(l, a, base))
    <3>1. /\ list' = l /\ abs' = a
          /\ lastLoad' = MaxCount - Period(l, a, base)
          /\ cnt' = MaxCount - Period(l, a, base)
          /\ absLast' = base /\ ovfIE' = TRUE /\ running' = TRUE
      BY <1>2, <2>5 DEF StartTimerAtHead, SetTimerDuration
    <3>2. Period(l, a, base) \in 0 .. MaxCount
      BY <2>2, <2>5, <1>0 DEF TooFar
    <3> QED
      BY <3>1, <3>2, <1>0
  <2> QED
    BY <2>4, <2>5
<1> QED
  BY <1>1, <1>2

(* Whatever rebaseList computes is an absolute time.                       *)
LEMMA RebasedType ==
  ASSUME TypeOK, NEW t \in Timers
  PROVE  Rebased(t) \in [Nodes -> 0 .. AbsMod - 1]
<1> DEFINE base == MakeAbsolute(0)
<1>1. base \in 0 .. AbsMod - 1
  BY AbsoluteType
<1>2. abs \in [Nodes -> 0 .. AbsMod - 1] /\ MaxCount \in Nat /\ AbsMod \in Nat
  BY TimeoutAssumption DEF TypeOK
<1> HIDE DEF base
<1>3. (abs[t] + MaxCount - base + 1) % AbsMod \in 0 .. AbsMod - 1
  <2>1. abs[t] + MaxCount - base + 1 \in Int
    BY <1>1, <1>2
  <2> QED
    BY <2>1, Absolute
<1>4. ASSUME NEW x \in Nodes PROVE (abs[x] - base) % AbsMod \in 0 .. AbsMod - 1
  <2>1. abs[x] - base \in Int
    BY <1>1, <1>2
  <2> QED
    BY <2>1, Absolute
<1> QED
  BY <1>2, <1>3, <1>4 DEF Rebased, base

(* The state application_init finds is typed, with no driver call begun.   *)
LEMMA TypedInit == Init => Typed
<1> SUFFICES ASSUME Init PROVE Typed
  OBVIOUS
<1>1. list \in Seq(Nodes) /\ queue \in Seq(Timers)
  BY DEF Init
<1>2. abs \in [Nodes -> 0 .. AbsMod - 1]
  BY TimeoutAssumption DEF Init
<1>3. /\ absLast \in 0 .. AbsMod - 1
      /\ lastLoad \in 0 .. MaxCount /\ cnt \in 0 .. MaxCount
      /\ calls \in 0 .. MaxCalls
  BY TimeoutAssumption DEF Init
<1>4. op \in [call : {"none", "create", "delete", "flush"},
              timer : Nodes \cup {NoTimer}, timeout : Timeouts \cup {0}]
  BY DEF Init, NoOp
<1>5. /\ running \in BOOLEAN /\ ovfIE \in BOOLEAN /\ ovfFlag \in BOOLEAN
      /\ rebased \in BOOLEAN
      /\ pc \in PcStates /\ which \in {"list", "queue"}
      /\ tempIE \in BOOLEAN /\ wild \in BOOLEAN
      /\ cur \in Timers \cup {Boot, NoTimer}
  BY DEF Init, PcStates
<1>6. Control
  BY DEF Init, Control, NoOp
<1> QED
  BY <1>1, <1>2, <1>3, <1>4, <1>5, <1>6 DEF Typed, TypeOK

(* The control variables after a deletion, whichever way it ends.          *)
ControlType ==
  /\ pc' \in PcStates /\ which' \in {"list", "queue"}
  /\ op' \in [call : {"none", "create", "delete", "flush"},
               timer : Nodes \cup {NoTimer}, timeout : Timeouts \cup {0}]
  /\ op'.call = "create" => op'.timer \in Timers /\ op'.timeout \in Timeouts
  /\ pc' \in {"create", "createOff", "createAbs"} => op'.call = "create"
  /\ pc' = "flush" => op'.call = "flush"
  /\ pc' \notin {"callIE", "callOff"}

(* The record that stands for no call has the type of op.                  *)
LEMMA NoOpType ==
  /\ NoOp \in [call : {"none", "create", "delete", "flush"},
               timer : Nodes \cup {NoTimer}, timeout : Timeouts \cup {0}]
  /\ NoOp.call = "none"
BY DEF NoOp

(* Where timeout_delete returns to: control stays typed.                   *)
LEMMA AfterDeleteType == ASSUME Typed, AfterDelete PROVE ControlType
<1>1. CASE op.call = "create"
  BY <1>1 DEF AfterDelete, ControlType, Typed, TypeOK, Control, PcStates
<1>2. CASE op.call = "flush"
  <2>1. pc' = "flush" /\ which' = "list" /\ op' = [op EXCEPT !.timer = NoTimer]
    BY <1>2 DEF AfterDelete
  <2>2. op'.call = "flush"
    BY <2>1, <1>2 DEF Typed, TypeOK
  <2> QED
    BY <2>1, <2>2 DEF ControlType, Typed, TypeOK, PcStates
<1>3. CASE op.call # "create" /\ op.call # "flush"
  <2>1. pc' = "ready" /\ which' = "list" /\ op' = NoOp
    BY <1>3 DEF AfterDelete
  <2> QED
    BY <2>1, NoOpType DEF ControlType, PcStates
<1> QED
  BY <1>1, <1>2, <1>3

(* The same when timeout_deleteHelper has not met its timer.               *)
LEMMA NotFoundType == ASSUME Typed, NotFound PROVE ControlType
<1>1. CASE which = "list"
  BY <1>1 DEF NotFound, ControlType, Typed, TypeOK, Control, PcStates
<1>2. CASE which # "list"
  BY <1>2, AfterDeleteType DEF NotFound
<1> QED
  BY <1>1, <1>2

(* The same when a driver call returns to its caller.                      *)
LEMMA ReturnType == ASSUME Return PROVE ControlType
BY NoOpType DEF Return, ControlType, PcStates

(* Taking an element out of a sequence, and putting one in.                *)
LEMMA RemoveType ==
  ASSUME NEW S, NEW s \in Seq(S), NEW i \in 1 .. Len(s)
  PROVE  RemoveAt(s, i) \in Seq(S)
BY DEF RemoveAt

(* Inserting an element of S anywhere in a sequence over S keeps it one.   *)
LEMMA InsertType ==
  ASSUME NEW S, NEW s \in Seq(S), NEW i \in 1 .. Len(s) + 1, NEW x \in S
  PROVE  InsertAt(s, i, x) \in Seq(S)
BY DEF InsertAt

(* Every step keeps the types and the control facts they rest on, action   *)
(* by action.                                                              *)
LEMMA TypedStep == Typed /\ [Next]_vars => Typed'
<1> SUFFICES ASSUME Typed, [Next]_vars PROVE Typed'
  OBVIOUS
<1> USE TimeoutAssumption
<1>1. CASE UNCHANGED vars
  BY <1>1 DEF Typed, TypeOK, Control
<1>2. CASE Tick
  <2>1. cnt' \in 0 .. MaxCount /\ ovfFlag' \in BOOLEAN
    BY <1>2 DEF Tick, Typed, TypeOK
  <2> QED
    BY <1>2, <2>1 DEF Tick, Typed, TypeOK, Control
<1>3. CASE TimeoutIsr
  <2>1. CASE list = <<>>
    <3>1. /\ wild' = TRUE /\ ovfFlag' = FALSE
          /\ UNCHANGED <<list, queue, abs, clock, cnt, ovfIE, ctl>>
      BY <1>3, <2>1 DEF TimeoutIsr
    <3>2. wild' \in BOOLEAN /\ ovfFlag' \in BOOLEAN
      BY <3>1
    <3>3. UNCHANGED <<list, queue, abs, clock, cnt, ovfIE, ctl>>
      BY <3>1
    <3> QED
      BY <3>2, <3>3 DEF Typed, TypeOK, Control
  <2>2. CASE list # <<>>
    <3>1. /\ Head(list) \in Nodes /\ Tail(list) \in Seq(Nodes)
          /\ abs \in [Nodes -> 0 .. AbsMod - 1]
      BY <2>2 DEF Typed, TypeOK
    <3>2. abs[Head(list)] \in 0 .. AbsMod - 1
      BY <3>1
    <3>3. StartTimerAtHead(Tail(list), abs, abs[Head(list)])
      BY <1>3, <2>2 DEF TimeoutIsr
    <3>4. queue' \in Seq(Timers) /\ (queue # <<>> => queue' # <<>>)
      <4>1. \/ Head(list) # Dummy /\ queue' = Append(queue, Head(list))
            \/ queue' = queue
        BY <1>3, <2>2 DEF TimeoutIsr, EnqueueCallback
      <4>2. queue \in Seq(Timers) /\ (Head(list) # Dummy => Head(list) \in Timers)
        BY <3>1 DEF Typed, TypeOK
      <4> HIDE DEF Nodes
      <4> QED
        BY <4>1, <4>2
    <3>5. UNCHANGED <<ctl, wild>> /\ ovfFlag' = FALSE /\ rebased' \in BOOLEAN
      BY <1>3, <2>2 DEF TimeoutIsr, StillRebased
    <3>6. /\ list' \in Seq(Nodes) /\ abs' \in [Nodes -> 0 .. AbsMod - 1]
          /\ absLast' \in 0 .. AbsMod - 1
          /\ lastLoad' \in 0 .. MaxCount /\ cnt' \in 0 .. MaxCount
          /\ running' \in BOOLEAN /\ ovfIE' \in BOOLEAN
      BY <3>1, <3>2, <3>3, StartType DEF Typed
    <3> QED
      BY <3>4, <3>5, <3>6, ZenonT(30) DEF Typed, TypeOK, Control
  <2> QED
    BY <2>1, <2>2
<1>4. ASSUME NEW t \in Timers, NEW d \in Timeouts, CallCreate(t, d)
      PROVE  Typed'
  BY <1>4 DEF CallCreate, Call, MainAt, Typed, TypeOK, Control, PcStates
<1>5. ASSUME NEW t \in Timers, CallDelete(t)
      PROVE  Typed'
  BY <1>5 DEF CallDelete, Call, MainAt, Typed, TypeOK, Control, PcStates
<1>6. CASE CallFlushAll
  <2>1. /\ pc' = "flush" /\ calls' = calls + 1 /\ calls < MaxCalls
        /\ op' = [call |-> "flush", timer |-> NoTimer, timeout |-> 0]
        /\ ovfIE' = FALSE /\ absLast' = 0 /\ lastLoad' = 0 /\ running' = FALSE
        /\ UNCHANGED <<which, cnt, ovfFlag, tempIE, cur, queue, list, abs, rebased, wild>>
    BY <1>6 DEF CallFlushAll, Call, StopTimeouts
  <2>2. /\ calls' \in 0 .. MaxCalls /\ absLast' \in 0 .. AbsMod - 1
        /\ lastLoad' \in 0 .. MaxCount
    BY <2>1 DEF Typed, TypeOK
  <2>3. /\ op' \in [call : {"none", "create", "delete", "flush"},
                   timer : Nodes \cup {NoTimer}, timeout : Timeouts \cup {0}]
        /\ op'.call = "flush"
    BY <2>1
  <2> QED
    BY <2>1, <2>2, <2>3 DEF Typed, TypeOK, Control, PcStates
<1>7. ASSUME NEW d \in Timeouts, CallbackReschedule(d)
      PROVE  Typed'
  BY <1>7 DEF CallbackReschedule, MainAt, Typed, TypeOK, Control, PcStates
<1>8. CASE FlushNext
  <2>1. ControlType
    <3>1. CASE list = <<>> /\ queue = <<>>
      BY <1>8, <3>1, ReturnType DEF FlushNext
    <3>2. CASE list # <<>> \/ queue # <<>>
      <4>1. Head(IF list # <<>> THEN list ELSE queue) \in Nodes
        BY <3>2 DEF Typed, TypeOK
      <4>2. op.call # "create"
        BY <1>8 DEF FlushNext, MainAt, Typed, Control
      <4> QED
        BY <1>8, <3>2, <4>1, <4>2 DEF FlushNext, ControlType, Typed, TypeOK, PcStates
    <3> QED
      BY <3>1, <3>2
  <2> QED
    BY <1>8, <2>1 DEF FlushNext, ControlType, Typed, TypeOK, Control
<1>9. CASE DeleteCheck
  <2>1. CASE Target = <<>>
    BY <1>9, <2>1, NotFoundType DEF DeleteCheck, ControlType, Typed, TypeOK, Control
  <2>2. CASE Target # <<>>
    BY <1>9, <2>2 DEF DeleteCheck, Typed, TypeOK, Control, PcStates
  <2> QED
    BY <2>1, <2>2
<1>10. CASE DeleteGuard
  <2>1. /\ pc = "guard" /\ pc' = "off" /\ ovfIE' = FALSE
        /\ UNCHANGED <<list, queue, abs, clock, cnt, ovfFlag, which, op, tempIE, cur, calls, wild>>
    BY <1>10 DEF DeleteGuard, MainAt
  <2>2. TypeOK'
    <3>1. pc' \in PcStates /\ ovfIE' \in BOOLEAN
      BY <2>1 DEF PcStates
    <3> QED
      BY <2>1, <3>1 DEF Typed, TypeOK
  <2>3. Control'
    BY <2>1 DEF Typed, Control
  <2> QED
    BY <2>2, <2>3 DEF Typed
<1>11. CASE DeleteHead
  <2>1. ControlType
    BY <1>11, AfterDeleteType DEF DeleteHead
  <2>2. /\ abs \in [Nodes -> 0 .. AbsMod - 1] /\ absLast \in 0 .. AbsMod - 1
        /\ list \in Seq(Nodes) /\ queue \in Seq(Timers)
    BY DEF Typed, TypeOK
  <2>3. ovfFlag' \in BOOLEAN /\ rebased' \in BOOLEAN
    BY <1>11 DEF DeleteHead, StillRebased, ClearOVFInterruptFlag, Typed, TypeOK
  <2>4. CASE which = "list"
    <3>1. Tail(list) \in Seq(Nodes)
      BY <1>11, <2>4 DEF DeleteHead, Target, Typed, TypeOK
    <3>2. StartTimerAtHead(Tail(list), abs, absLast) /\ queue' = queue
      BY <1>11, <2>4 DEF DeleteHead
    <3> QED
      BY <1>11, <2>1, <2>2, <2>3, <3>1, <3>2, StartType
         DEF DeleteHead, ControlType, Typed, TypeOK, Control
  <2>5. CASE which # "list"
    <3>1. Tail(queue) \in Seq(Timers)
      BY <1>11, <2>5 DEF DeleteHead, Target, Typed, TypeOK
    <3>2. StartTimerAtHead(list, abs, absLast) /\ queue' = Tail(queue)
      BY <1>11, <2>5 DEF DeleteHead
    <3> QED
      BY <1>11, <2>1, <2>2, <2>3, <3>1, <3>2, StartType
         DEF DeleteHead, ControlType, Typed, TypeOK, Control
  <2> QED
    BY <2>4, <2>5
<1>12. CASE DeleteSearch
  <2>1. ControlType
    BY <1>12, AfterDeleteType, NotFoundType DEF DeleteSearch
  <2>2. list' \in Seq(Nodes) /\ queue' \in Seq(Timers)
    <3>1. CASE UNCHANGED <<list, queue>>
      BY <3>1 DEF Typed, TypeOK
    <3>2. ASSUME NEW i \in 2 .. Len(Target),
                 IF which = "list"
                   THEN list' = RemoveAt(list, i) /\ UNCHANGED queue
                   ELSE queue' = RemoveAt(queue, i) /\ UNCHANGED list
          PROVE  list' \in Seq(Nodes) /\ queue' \in Seq(Timers)
      BY <3>2, RemoveType DEF Target, Typed, TypeOK
    <3> QED
      BY <1>12, <3>1, <3>2 DEF DeleteSearch
  <2> QED
    BY <1>12, <2>1, <2>2 DEF DeleteSearch, ControlType, Typed, TypeOK, Control
<1>13. CASE CreateGuard
  BY <1>13 DEF CreateGuard, MainAt, Typed, TypeOK, Control, PcStates
<1>14. CASE CreateAbsolute
  <2>1. op.timer \in Timers /\ op.timeout \in Timeouts
    BY <1>14 DEF CreateAbsolute, MainAt, Typed, Control
  <2>2. MakeAbsolute(op.timeout) \in 0 .. AbsMod - 1
    <3>1. \A d \in Timeouts : d \in Int
      OBVIOUS
    <3>2. op.timeout \in Int
      BY <2>1, <3>1
    <3> QED
      BY <3>2, AbsoluteType DEF Typed
  <2> QED
    BY <1>14, <2>1, <2>2 DEF CreateAbsolute, MainAt, Typed, TypeOK, Control, PcStates
<1>15. CASE CreateInsert
  <2> DEFINE wrap == abs[op.timer] < absLast
             a    == IF wrap THEN Rebased(op.timer) ELSE abs
             base == IF wrap THEN (absLast - MakeAbsolute(0)) % AbsMod ELSE absLast
  <2>1. op.timer \in Timers
    BY <1>15 DEF CreateInsert, MainAt, Typed, Control
  <2>2. a \in [Nodes -> 0 .. AbsMod - 1]
    BY <2>1, RebasedType DEF Typed, TypeOK
  <2>3. base \in 0 .. AbsMod - 1
    <3>1. absLast - MakeAbsolute(0) \in Int
      BY AbsoluteType DEF Typed, TypeOK
    <3> QED
      BY <3>1, Absolute DEF Typed, TypeOK
  <2> HIDE DEF wrap
  <2>4. PICK k \in 1 .. Len(list) + 1 :
          IF k = 1
            THEN LET rest == IF list # <<>> /\ Head(list) = Dummy
                               THEN Tail(list) ELSE list
                 IN StartTimerAtHead(<<op.timer>> \o rest, a, base)
            ELSE /\ list' = InsertAt(list, k, op.timer)
                 /\ abs' = a
                 /\ absLast' = base
                 /\ ovfIE' = ReEnable
                 /\ UNCHANGED <<lastLoad, running, cnt>>
    BY <1>15 DEF CreateInsert, wrap
  <2> HIDE DEF a, base
  <2>5. /\ list' \in Seq(Nodes) /\ abs' \in [Nodes -> 0 .. AbsMod - 1]
        /\ absLast' \in 0 .. AbsMod - 1
        /\ lastLoad' \in 0 .. MaxCount /\ cnt' \in 0 .. MaxCount
        /\ running' \in BOOLEAN /\ ovfIE' \in BOOLEAN
    <3>1. CASE k = 1
      <4> DEFINE rest == IF list # <<>> /\ Head(list) = Dummy THEN Tail(list) ELSE list
                 l    == <<op.timer>> \o rest
      <4>1. l \in Seq(Nodes)
        BY <2>1 DEF Typed, TypeOK
      <4>2. StartTimerAtHead(l, a, base)
        BY <2>4, <3>1
      <4> HIDE DEF l
      <4> QED
        BY <2>2, <2>3, <4>1, <4>2, StartType DEF Typed
    <3>2. CASE k # 1
      <4>1. list' \in Seq(Nodes)
        BY <2>1, <2>4, <3>2, InsertType DEF Typed, TypeOK
      <4> QED
        BY <2>2, <2>3, <2>4, <3>2, <4>1 DEF ReEnable, Typed, TypeOK
    <3> QED
      BY <3>1, <3>2
  <2>6. ControlType
    BY <1>15, ReturnType DEF CreateInsert
  <2>7. rebased' \in BOOLEAN
    BY <1>15 DEF CreateInsert, StillRebased
  <2>8. UNCHANGED <<ovfFlag, queue, tempIE, cur, calls, wild>>
    BY <1>15 DEF CreateInsert, ClearOVFInterruptFlag
  <2> QED
    BY <2>5, <2>6, <2>7, <2>8 DEF ControlType, Typed, TypeOK, Control
<1>16. CASE CallNext
  BY <1>16 DEF CallNext, MainAt, Typed, TypeOK, Control, PcStates
<1>17. CASE CallNextGuard
  <2>1. /\ pc = "callIE" /\ pc' = "callOff" /\ ovfIE' = FALSE
        /\ UNCHANGED <<list, queue, abs, clock, cnt, ovfFlag, which, op, tempIE, cur, calls, wild>>
    BY <1>17 DEF CallNextGuard, MainAt
  <2>2. TypeOK'
    <3>1. pc' \in PcStates /\ ovfIE' \in BOOLEAN
      BY <2>1 DEF PcStates
    <3> QED
      BY <2>1, <3>1 DEF Typed, TypeOK
  <2>3. Control'
    BY <2>1 DEF Typed, Control
  <2> QED
    BY <2>2, <2>3 DEF Typed
<1>18. CASE CallNextPop
  <2>1. Head(queue) \in Timers /\ Tail(queue) \in Seq(Timers)
    BY <1>18 DEF CallNextPop, MainAt, Typed, TypeOK, Control
  <2> QED
    BY <1>18, <2>1 DEF CallNextPop, MainAt, Typed, TypeOK, Control, PcStates
<1>19. CASE CallbackDone
  BY <1>19 DEF CallbackDone, MainAt, Typed, TypeOK, Control, PcStates
<1> QED
  BY <1>1, <1>2, <1>3, <1>4, <1>5, <1>6, <1>7, <1>8, <1>9, <1>10, <1>11, <1>12,
     <1>13, <1>14, <1>15, <1>16, <1>17, <1>18, <1>19
     DEF Next, Application, Driver, Superloop

(* Whatever the interleaving of main code and interrupt, a callback is     *)
(* fetched only from a queue that is not empty, a timer inserted only when *)
(* there is one, and every time stays in the range of its type.            *)
THEOREM TypeCorrect == Spec => []TypeOK
<1>1. Typed => TypeOK
  BY DEF Typed
<1> QED
  BY <1>1, TypedInit, TypedStep, PTL DEF Spec
----------------------------------------------------------------------------
(* The lists.                                                              *)

(* timeout_create has taken its timer out of both lists, and it stays out  *)
(* until it is inserted.                                                   *)
Absent ==
  pc \in {"create", "createOff", "createAbs"} =>
    op.timer \notin ToSet(list) /\ op.timer \notin ToSet(queue)

(* timeout_delete has not found its timer in listHead, and expiry only     *)
(* moves timers the other way; the interrupt may insert Dummy again.       *)
Passed ==
  which = "queue" => /\ pc \in {"check", "guard", "off"}
                     /\ op.timer \notin ToSet(list) \/ op.timer = Dummy

(* Timers in the list of a stopped counter: timeout_flushAll has begun and *)
(* is about to delete the first of them.                                   *)
Stopped ==
  list # <<>> /\ ~running =>
    /\ op.call = "flush" /\ ~ovfIE
    /\ \/ pc = "flush"
       \/ pc \in {"check", "guard", "off"} /\ which = "list" /\ op.timer = Head(list)

(* The interrupt of a running counter is on, or will be put back on.       *)
Enabled ==
  running => /\ ~Guarded => ovfIE
             /\ pc \in {"callIE", "callOff"} => tempIE

Lists == OneHome /\ Absent /\ Passed /\ Stopped /\ Enabled /\ LoadedForHead

(* OneHome in terms of elements.                                           *)
Apart ==
  /\ IsInjective(list) /\ IsInjective(queue)
  /\ ToSet(list) \cap ToSet(queue) = {}
  /\ Dummy \in ToSet(list) => Head(list) = Dummy

(* The two ways of saying where Dummy is agree.                            *)
LEMMA ApartIsOneHome == ASSUME list \in Seq(Nodes) PROVE Apart <=> OneHome
<1>1. IsInjective(list) =>
        ((\A i \in 2 .. Len(list) : list[i] # Dummy)
           <=> (Dummy \in ToSet(list) => Head(list) = Dummy))
  BY OnlyHead
<1> QED
  BY <1>1 DEF Apart, OneHome

(* What startTimerAtHead leaves: the timers of l with Dummy in front of    *)
(* them or not, the counter loaded for the first of them and running, and  *)
(* stopped where there is none.                                            *)
LEMMA StartFacts ==
  ASSUME NEW l \in Seq(Nodes), NEW a \in [Nodes -> 0 .. AbsMod - 1],
         NEW base \in 0 .. AbsMod - 1,
         IsInjective(l),
         Dummy \in ToSet(l) => Head(l) = Dummy /\ ~TooFar(Period(l, a, base)),
         StartTimerAtHead(l, a, base)
  PROVE  /\ IsInjective(list')
         /\ Dummy \in ToSet(list') => Head(list') = Dummy
         /\ ToSet(list') \subseteq ToSet(l) \cup {Dummy}
         /\ list' # <<>> => running' /\ ovfIE'
         /\ running' => ovfIE'
         /\ LoadedForHead'
<1> USE TimeoutAssumption
<1>1. CASE l = <<>>
  <2>1. list' = <<>> /\ ~running'
    BY <1>1 DEF StartTimerAtHead, StopTimeouts
  <2> QED
    BY <2>1, EmptySet DEF LoadedForHead
<1>2. CASE l # <<>>
  <2>1. running' /\ ovfIE' /\ absLast' = base
    BY <1>2 DEF StartTimerAtHead
  <2>2. CASE TooFar(Period(l, a, base))
    <3>1. /\ list' = <<Dummy>> \o l
          /\ abs' = [a EXCEPT ![Dummy] = (base + MaxCount) % AbsMod]
          /\ lastLoad' = MaxCount - MaxCount
      BY <1>2, <2>2 DEF StartTimerAtHead, SetTimerDuration
    <3>2. Dummy \notin ToSet(l)
      BY <2>2
    <3>3. /\ list' # <<>> /\ Head(list') = Dummy
          /\ ToSet(list') = ToSet(l) \cup {Dummy} /\ IsInjective(list')
      <4>1. Dummy \in Nodes
        OBVIOUS
      <4> QED
        BY <3>1, <3>2, <4>1, PushFacts
    <3>4. (abs'[Dummy] - absLast') % AbsMod = MaxCount
      <4>1. MaxCount \in 0 .. AbsMod - 1 /\ AbsMod \in Nat \ {0}
        OBVIOUS
      <4>2. (((base + MaxCount) % AbsMod) - base) % AbsMod = MaxCount
        BY <4>1, ModBack
      <4> QED
        BY <2>1, <3>1, <4>2
    <3>5. lastLoad' + MaxCount = MaxCount
      BY <3>1
    <3> QED
      BY <2>1, <3>3, <3>4, <3>5 DEF LoadedForHead
  <2>3. CASE ~TooFar(Period(l, a, base))
    <3>1. /\ list' = l /\ abs' = a
          /\ lastLoad' = MaxCount - Period(l, a, base)
      BY <1>2, <2>3 DEF StartTimerAtHead, SetTimerDuration
    <3>2. Period(l, a, base) \in Int
      <4>1. Head(l) \in Nodes
        BY <1>2
      <4>2. a[Head(l)] \in 0 .. AbsMod - 1
        BY <4>1
      <4>3. a[Head(l)] - base \in Int
        BY <4>2
      <4>4. (a[Head(l)] - base) % AbsMod \in 0 .. AbsMod - 1
        BY <4>3, Absolute
      <4> QED
        BY <4>4 DEF Period
    <3>3. (abs'[Head(list')] - absLast') % AbsMod = Period(l, a, base)
      BY <2>1, <3>1 DEF Period
    <3>4. lastLoad' + Period(l, a, base) = MaxCount
      BY <3>1, <3>2
    <3> QED
      BY <1>2, <2>1, <3>1, <3>3, <3>4 DEF LoadedForHead
  <2> QED
    BY <2>2, <2>3
<1> QED
  BY <1>1, <1>2

(* Steps that touch neither the lists nor the load.                        *)
LEMMA StillFacts ==
  ASSUME UNCHANGED <<list, queue, abs, absLast, lastLoad, running>>
  PROVE  /\ OneHome => OneHome'
         /\ LoadedForHead => LoadedForHead'
BY DEF OneHome, LoadedForHead

(* A running counter is loaded for a head within its reach.                *)
LEMMA LoadedIsNear ==
  ASSUME TypeOK, LoadedForHead, running, list # <<>>
  PROVE  ~TooFar(Period(list, abs, absLast))
<1> DEFINE period == (abs[Head(list)] - absLast) % AbsMod
<1>1. lastLoad + period = MaxCount
  BY DEF LoadedForHead
<1>2. lastLoad \in Nat /\ MaxCount \in Nat
  BY TimeoutAssumption DEF TypeOK
<1>3. period \in Int
  <2>1. Head(list) \in Nodes /\ abs \in [Nodes -> 0 .. AbsMod - 1]
        /\ absLast \in 0 .. AbsMod - 1 /\ AbsMod \in Nat
    BY TimeoutAssumption DEF TypeOK
  <2>2. abs[Head(list)] \in 0 .. AbsMod - 1
    BY <2>1
  <2>3. abs[Head(list)] - absLast \in Int
    BY <2>1, <2>2
  <2> QED
    BY <2>3, Absolute
<1> HIDE DEF period
<1>4. period <= MaxCount
  BY <1>1, <1>2, <1>3
<1>5. Period(list, abs, absLast) = period
  BY DEF Period, period
<1> QED
  BY <1>2, <1>3, <1>4, <1>5 DEF TooFar

(* No timer is in listHead at the start, and the counter is stopped.       *)
LEMMA ListsInit == Init => Lists
BY EmptySet DEF Init, Lists, OneHome, Absent, Passed, Stopped, Enabled, LoadedForHead

(* The interrupt: the head expires.                                        *)
LEMMA ListsIsr == ASSUME Typed, Lists, TimeoutIsr PROVE Lists'
<1>1. CASE list = <<>>
  <2>1. UNCHANGED <<list, queue, abs, clock, cnt, ovfIE, ctl>>
    BY <1>1 DEF TimeoutIsr
  <2> QED
    BY <2>1 DEF Lists, OneHome, Absent, Passed, Stopped, Enabled, Guarded, LoadedForHead
<1>2. CASE list # <<>>
  <2>1. /\ list \in Seq(Nodes) /\ queue \in Seq(Timers)
        /\ abs \in [Nodes -> 0 .. AbsMod - 1]
    BY DEF Typed, TypeOK
  <2>2. Apart
    BY <2>1, ApartIsOneHome DEF Lists
  <2>3. /\ IsInjective(Tail(list))
        /\ ToSet(Tail(list)) = ToSet(list) \ {Head(list)}
        /\ Head(list) \in ToSet(list)
    BY <1>2, <2>1, <2>2, TailFacts, HeadIn DEF Apart
  <2>4. Dummy \notin ToSet(Tail(list))
    BY <2>2, <2>3 DEF Apart
  <2>5. /\ IsInjective(list') /\ (Dummy \in ToSet(list') => Head(list') = Dummy)
        /\ ToSet(list') \subseteq ToSet(Tail(list)) \cup {Dummy}
        /\ (list' # <<>> => running' /\ ovfIE') /\ (running' => ovfIE')
        /\ LoadedForHead'
    <3>1. Head(list) \in Nodes /\ Tail(list) \in Seq(Nodes)
      BY <1>2, <2>1
    <3>2. abs[Head(list)] \in 0 .. AbsMod - 1
      BY <2>1, <3>1
    <3>3. StartTimerAtHead(Tail(list), abs, abs[Head(list)])
      BY <1>2 DEF TimeoutIsr
    <3> QED
      BY <2>1, <2>3, <2>4, <3>1, <3>2, <3>3, StartFacts
  <2>6. /\ IsInjective(queue')
        /\ ToSet(queue') = ToSet(queue) \cup ({Head(list)} \ {Dummy})
    <3>1. CASE Head(list) = Dummy
      BY <1>2, <2>2, <3>1 DEF TimeoutIsr, Apart
    <3>2. CASE Head(list) # Dummy
      <4>1. queue' = Append(queue, Head(list))
        BY <1>2, <3>2 DEF TimeoutIsr, EnqueueCallback
      <4>2. Head(list) \in Timers
        BY <1>2, <2>1, <3>2
      <4>3. IsInjective(queue) /\ Head(list) \notin ToSet(queue)
        BY <2>2, <2>3 DEF Apart
      <4> QED
        BY <2>1, <3>2, <4>1, <4>2, <4>3, AppendFacts
    <3> QED
      BY <3>1, <3>2
  <2>7. Dummy \notin ToSet(queue)
    <3>1. Dummy \notin Timers
      BY TimeoutAssumption
    <3> QED
      BY <2>1, <3>1 DEF ToSet
  <2>8. OneHome'
    <3>1. list' \in Seq(Nodes)
      BY TypedStep DEF Typed, TypeOK, Next
    <3>2. Apart'
      BY <2>2, <2>3, <2>4, <2>5, <2>6, <2>7 DEF Apart
    <3> QED
      BY <3>1, <3>2, OnlyHead DEF Apart, OneHome
  <2>9. UNCHANGED ctl /\ ovfIE
    BY DEF TimeoutIsr, InterruptDue
  <2>10. Absent'
    <3>1. op.call = "create" => op.timer # Dummy
      BY TimeoutAssumption DEF Typed, Control
    <3> QED
      BY <2>3, <2>5, <2>6, <2>9, <3>1 DEF Absent, Lists, Typed, Control
  <2>11. Passed'
    BY <2>3, <2>5, <2>9 DEF Passed, Lists
  <2>12. running
    BY <1>2, <2>9 DEF Lists, Stopped
  <2>13. Stopped' /\ Enabled'
    BY <2>5, <2>9, <2>12 DEF Stopped, Enabled, Lists, Guarded
  <2> QED
    BY <2>5, <2>8, <2>10, <2>11, <2>13 DEF Lists
<1> QED
  BY <1>1, <1>2

(* What timeout_delete returns to: its caller's timer is in neither list.  *)
LEMMA AfterDeleteLists ==
  ASSUME Typed, AfterDelete,
         op.call = "create" =>
           op.timer \notin ToSet(list') /\ op.timer \notin ToSet(queue')
  PROVE  Absent' /\ Passed'
<1>1. which' = "list"
  BY DEF AfterDelete
<1>2. CASE op.call = "create"
  BY <1>1, <1>2 DEF AfterDelete, Absent, Passed
<1>3. CASE op.call # "create"
  <2>1. pc' \in {"flush", "ready"}
    BY <1>3 DEF AfterDelete
  <2> QED
    BY <1>1, <2>1 DEF Absent, Passed
<1> QED
  BY <1>2, <1>3

(* The timer to delete is the head of one of the lists.                    *)
LEMMA ListsDeleteHead == ASSUME Typed, Lists, DeleteHead PROVE Lists'
<1>1. /\ list \in Seq(Nodes) /\ queue \in Seq(Timers)
      /\ abs \in [Nodes -> 0 .. AbsMod - 1] /\ absLast \in 0 .. AbsMod - 1
      /\ which \in {"list", "queue"}
  BY DEF Typed, TypeOK
<1>2. Apart
  BY <1>1, ApartIsOneHome DEF Lists
<1>3. pc = "off" /\ AfterDelete /\ UNCHANGED tempIE
  BY DEF DeleteHead, MainAt
<1>4. pc' \notin {"callIE", "callOff"}
  BY <1>3 DEF AfterDelete
<1>5. op.call = "create" => op.timer # Dummy
  BY TimeoutAssumption DEF Typed, Control
<1>6. list' \in Seq(Nodes)
  BY TypedStep DEF Typed, TypeOK, Next, Driver
<1>7. CASE which = "list"
  <2>1. /\ list # <<>> /\ op.timer = Head(list)
        /\ StartTimerAtHead(Tail(list), abs, absLast) /\ UNCHANGED queue
    BY <1>7 DEF DeleteHead, Target
  <2>2. /\ IsInjective(Tail(list)) /\ Tail(list) \in Seq(Nodes)
        /\ ToSet(Tail(list)) = ToSet(list) \ {Head(list)}
        /\ Head(list) \in ToSet(list)
    BY <1>1, <1>2, <2>1, TailFacts, HeadIn DEF Apart
  <2>3. Dummy \notin ToSet(Tail(list))
    BY <1>2, <2>2 DEF Apart
  <2>4. /\ IsInjective(list') /\ (Dummy \in ToSet(list') => Head(list') = Dummy)
        /\ ToSet(list') \subseteq ToSet(Tail(list)) \cup {Dummy}
        /\ (list' # <<>> => running' /\ ovfIE') /\ (running' => ovfIE')
        /\ LoadedForHead'
    BY <1>1, <2>1, <2>2, <2>3, StartFacts
  <2>5. Dummy \notin ToSet(queue)
    BY <1>1, TimeoutAssumption DEF ToSet
  <2>6. OneHome'
    BY <1>2, <1>6, <2>1, <2>2, <2>4, <2>5, OnlyHead DEF Apart, OneHome
  <2>7. op.call = "create" => op.timer \notin ToSet(list') /\ op.timer \notin ToSet(queue')
    BY <1>2, <1>5, <2>1, <2>2, <2>4 DEF Apart
  <2>8. Absent' /\ Passed'
    BY <1>3, <2>7, AfterDeleteLists
  <2>9. Stopped' /\ Enabled'
    BY <1>4, <2>4 DEF Stopped, Enabled
  <2> QED
    BY <2>4, <2>6, <2>8, <2>9 DEF Lists
<1>8. CASE which = "queue"
  <2>1. /\ queue # <<>> /\ op.timer = Head(queue)
        /\ StartTimerAtHead(list, abs, absLast) /\ queue' = Tail(queue)
    BY <1>8 DEF DeleteHead, Target
  <2>2. /\ IsInjective(Tail(queue))
        /\ ToSet(Tail(queue)) = ToSet(queue) \ {Head(queue)}
    BY <1>1, <1>2, <2>1, TailFacts DEF Apart
  <2>3. Dummy \in ToSet(list) => Head(list) = Dummy /\ ~TooFar(Period(list, abs, absLast))
    <3>1. Dummy \in ToSet(list) => list # <<>>
      BY EmptySet
    <3>2. list # <<>> => running
      BY <1>3, <1>8 DEF Lists, Stopped
    <3> QED
      BY <1>2, <3>1, <3>2, LoadedIsNear DEF Apart, Lists, Typed
  <2>4. /\ IsInjective(list') /\ (Dummy \in ToSet(list') => Head(list') = Dummy)
        /\ ToSet(list') \subseteq ToSet(list) \cup {Dummy}
        /\ (list' # <<>> => running' /\ ovfIE') /\ (running' => ovfIE')
        /\ LoadedForHead'
    BY <1>1, <1>2, <2>1, <2>3, StartFacts DEF Apart
  <2>5. Dummy \notin ToSet(queue)
    BY <1>1, TimeoutAssumption DEF ToSet
  <2>6. OneHome'
    BY <1>2, <1>6, <2>1, <2>2, <2>4, <2>5, OnlyHead DEF Apart, OneHome
  <2>7. op.call = "create" => op.timer \notin ToSet(list') /\ op.timer \notin ToSet(queue')
    BY <1>5, <1>8, <2>1, <2>2, <2>4 DEF Lists, Passed
  <2>8. Absent' /\ Passed'
    BY <1>3, <2>7, AfterDeleteLists
  <2>9. Stopped' /\ Enabled'
    BY <1>4, <2>4 DEF Stopped, Enabled
  <2> QED
    BY <2>4, <2>6, <2>8, <2>9 DEF Lists
<1> QED
  BY <1>1, <1>7, <1>8

(* It is further back, or not there.                                       *)
LEMMA ListsDeleteSearch == ASSUME Typed, Lists, DeleteSearch PROVE Lists'
<1>1. /\ list \in Seq(Nodes) /\ queue \in Seq(Timers)
      /\ which \in {"list", "queue"}
  BY DEF Typed, TypeOK
<1>2. Apart
  BY <1>1, ApartIsOneHome DEF Lists
<1>3. pc = "off" /\ ovfIE' /\ UNCHANGED <<abs, clock, tempIE>>
  BY DEF DeleteSearch, MainAt
<1>4. op.call = "create" => op.timer # Dummy
  BY TimeoutAssumption DEF Typed, Control
<1>5. list # <<>> => running
  BY <1>3 DEF Lists, Stopped, DeleteSearch, Target
<1>6. CASE op.timer \notin ToSet(Target)
  <2>1. NotFound /\ UNCHANGED <<list, queue>>
    <3>1. ~\E i \in 2 .. Len(Target) : Target[i] = op.timer
      BY <1>1, <1>6 DEF ToSet, Target
    <3> QED
      BY <3>1 DEF DeleteSearch
  <2>2. OneHome' /\ LoadedForHead'
    BY <1>3, <2>1, StillFacts DEF Lists
  <2>3. pc' \notin {"callIE", "callOff"}
    BY <2>1 DEF NotFound, AfterDelete
  <2>4. Stopped' /\ Enabled'
    BY <1>3, <1>5, <2>1, <2>3 DEF Stopped, Enabled
  <2>5. Absent' /\ Passed'
    <3>1. CASE which = "list"
      BY <1>6, <2>1, <3>1 DEF NotFound, Absent, Passed, Target
    <3>2. CASE which = "queue"
      <4>1. AfterDelete
        BY <2>1, <3>2 DEF NotFound
      <4>2. op.call = "create" => op.timer \notin ToSet(list') /\ op.timer \notin ToSet(queue')
        BY <1>4, <1>6, <2>1, <3>2 DEF Target, Lists, Passed
      <4> QED
        BY <4>1, <4>2, AfterDeleteLists
    <3> QED
      BY <1>1, <3>1, <3>2
  <2> QED
    BY <2>2, <2>4, <2>5 DEF Lists
<1>7. CASE op.timer \in ToSet(Target)
  <2>1. AfterDelete
    BY <1>7 DEF DeleteSearch
  <2>2. PICK i \in 2 .. Len(Target) :
          /\ Target[i] = op.timer
          /\ IF which = "list"
               THEN list' = RemoveAt(list, i) /\ UNCHANGED queue
               ELSE queue' = RemoveAt(queue, i) /\ UNCHANGED list
    BY <1>7 DEF DeleteSearch
  <2>3. pc' \notin {"callIE", "callOff"}
    BY <2>1 DEF AfterDelete
  <2>4. CASE which = "list"
    <3>1. i \in 1 .. Len(list) /\ i > 1 /\ list[i] = op.timer /\ list # <<>>
      BY <1>1, <2>2, <2>4 DEF Target
    <3>2. list' = RemoveAt(list, i) /\ UNCHANGED queue
      BY <2>2, <2>4
    <3>3. /\ IsInjective(list') /\ ToSet(list') = ToSet(list) \ {op.timer}
          /\ list' # <<>> /\ Head(list') = Head(list)
      BY <1>1, <1>2, <3>1, <3>2, RemoveFacts DEF Apart
    <3>4. list' \in Seq(Nodes)
      BY <1>1, <3>1, <3>2, RemoveType
    <3>5. OneHome'
      BY <1>2, <3>2, <3>3, <3>4, OnlyHead DEF Apart, OneHome
    <3>6. LoadedForHead'
      BY <1>3, <3>1, <3>3 DEF Lists, LoadedForHead
    <3>7. op.call = "create" => op.timer \notin ToSet(list') /\ op.timer \notin ToSet(queue')
      <4>1. op.timer \in ToSet(list)
        BY <1>7, <2>4 DEF Target
      <4> QED
        BY <1>2, <3>2, <3>3, <4>1 DEF Apart
    <3>8. Absent' /\ Passed'
      BY <2>1, <3>7, AfterDeleteLists
    <3>9. Stopped' /\ Enabled'
      BY <1>3, <1>5, <2>3, <3>1 DEF Stopped, Enabled
    <3> QED
      BY <3>5, <3>6, <3>8, <3>9 DEF Lists
  <2>5. CASE which = "queue"
    <3>1. i \in 1 .. Len(queue) /\ queue[i] = op.timer
      BY <1>1, <2>2, <2>5 DEF Target
    <3>2. queue' = RemoveAt(queue, i) /\ UNCHANGED list
      BY <2>2, <2>5
    <3>3. IsInjective(queue') /\ ToSet(queue') = ToSet(queue) \ {op.timer}
      BY <1>1, <1>2, <3>1, <3>2, RemoveFacts DEF Apart
    <3>4. OneHome'
      BY <1>2, <3>2, <3>3 DEF Lists, Apart, OneHome
    <3>5. LoadedForHead'
      BY <1>3, <3>2 DEF Lists, LoadedForHead
    <3>6. op.call = "create" => op.timer \notin ToSet(list') /\ op.timer \notin ToSet(queue')
      BY <1>4, <2>5, <3>2, <3>3 DEF Lists, Passed
    <3>7. Absent' /\ Passed'
      BY <2>1, <3>6, AfterDeleteLists
    <3>8. Stopped' /\ Enabled'
      BY <1>3, <1>5, <2>3, <3>2 DEF Stopped, Enabled
    <3> QED
      BY <3>4, <3>5, <3>7, <3>8 DEF Lists
  <2> QED
    BY <1>1, <2>4, <2>5
<1> QED
  BY <1>6, <1>7

(* The insertion that ends timeout_create.                                 *)
LEMMA ListsInsert == ASSUME Typed, Lists, CreateInsert PROVE Lists'
<1> DEFINE t == op.timer
<1> DEFINE wrap == abs[t] < absLast
<1> DEFINE now == MakeAbsolute(0)
<1> DEFINE a == IF wrap THEN Rebased(t) ELSE abs
<1> DEFINE base == IF wrap THEN (absLast - now) % AbsMod ELSE absLast
<1>1. /\ list \in Seq(Nodes) /\ queue \in Seq(Timers)
      /\ abs \in [Nodes -> 0 .. AbsMod - 1] /\ absLast \in 0 .. AbsMod - 1
      /\ t \in Timers /\ pc = "createAbs" /\ op.call = "create"
  BY DEF Typed, TypeOK, Control, CreateInsert, MainAt
<1>2. Apart
  BY <1>1, ApartIsOneHome DEF Lists
<1>3. t \in Nodes /\ t # Dummy /\ t \notin ToSet(list) /\ t \notin ToSet(queue)
  BY <1>1, TimeoutAssumption DEF Lists, Absent
<1>4. list # <<>> => running
  BY <1>1 DEF Lists, Stopped
<1>5. now \in 0 .. AbsMod - 1 /\ AbsMod \in Nat \ {0} /\ absLast \in Int /\ now \in Int
  <2>1. now \in 0 .. AbsMod - 1
    BY AbsoluteType DEF Typed
  <2> QED
    BY <1>1, <2>1, TimeoutAssumption
<1> HIDE DEF now
<1>6. a \in [Nodes -> 0 .. AbsMod - 1] /\ base \in 0 .. AbsMod - 1
  <2>1. wrap => a \in [Nodes -> 0 .. AbsMod - 1]
    BY <1>3, RebasedType DEF Typed
  <2>2. absLast - now \in Int
    BY <1>5
  <2>3. (absLast - now) % AbsMod \in 0 .. AbsMod - 1
    BY <2>2, Absolute
  <2> QED
    BY <1>1, <2>1, <2>3
<1>7. pc' = "ready" /\ which' = "list" /\ queue' = queue
  BY DEF CreateInsert, Return
<1>8. Absent' /\ Passed'
  BY <1>7 DEF Absent, Passed
<1>9. PICK k \in 1 .. Len(list) + 1 :
        IF k = 1
          THEN LET rest == IF list # <<>> /\ Head(list) = Dummy
                             THEN Tail(list) ELSE list
               IN StartTimerAtHead(<<t>> \o rest, a, base)
          ELSE /\ list' = InsertAt(list, k, t) /\ abs' = a /\ absLast' = base
               /\ ovfIE' = ReEnable /\ UNCHANGED <<lastLoad, running, cnt>>
  BY DEF CreateInsert, now
<1>10. list' \in Seq(Nodes)
  BY TypedStep DEF Typed, TypeOK, Next, Driver
<1>11. CASE k = 1
  <2> DEFINE rest == IF list # <<>> /\ Head(list) = Dummy THEN Tail(list) ELSE list
  <2>1. /\ rest \in Seq(Nodes) /\ IsInjective(rest) /\ ToSet(rest) \subseteq ToSet(list)
        /\ Dummy \notin ToSet(rest)
    <3>1. CASE list # <<>> /\ Head(list) = Dummy
      BY <1>1, <1>2, <3>1, TailFacts DEF Apart
    <3>2. CASE ~(list # <<>> /\ Head(list) = Dummy)
      BY <1>1, <1>2, <3>2, EmptySet DEF Apart
    <3> QED
      BY <3>1, <3>2
  <2>2. StartTimerAtHead(<<t>> \o rest, a, base)
    BY <1>9, <1>11
  <2> HIDE DEF rest, a, base, t
  <2>3. /\ <<t>> \o rest \in Seq(Nodes) /\ IsInjective(<<t>> \o rest)
        /\ ToSet(<<t>> \o rest) = ToSet(rest) \cup {t}
    BY <1>3, <2>1, PushFacts
  <2>4. Dummy \notin ToSet(<<t>> \o rest)
    BY <1>3, <2>1, <2>3
  <2>5. /\ IsInjective(list') /\ (Dummy \in ToSet(list') => Head(list') = Dummy)
        /\ ToSet(list') \subseteq ToSet(<<t>> \o rest) \cup {Dummy}
        /\ (list' # <<>> => running' /\ ovfIE') /\ (running' => ovfIE')
        /\ LoadedForHead'
    BY <1>6, <2>2, <2>3, <2>4, StartFacts
  <2>6. Dummy \notin ToSet(queue)
    BY <1>1, TimeoutAssumption DEF ToSet
  <2>7. OneHome'
    BY <1>2, <1>3, <1>7, <1>10, <2>1, <2>3, <2>5, <2>6, OnlyHead DEF Apart, OneHome
  <2>8. Stopped' /\ Enabled'
    BY <1>7, <2>5 DEF Stopped, Enabled
  <2> QED
    BY <1>8, <2>5, <2>7, <2>8 DEF Lists
<1>12. CASE k # 1
  <2>1. /\ list' = InsertAt(list, k, t) /\ abs' = a /\ absLast' = base
        /\ ovfIE' = ReEnable /\ lastLoad' = lastLoad /\ running' = running
    BY <1>9, <1>12
  <2>2. k > 1 /\ list # <<>>
    BY <1>1, <1>12
  <2>3. /\ IsInjective(list') /\ ToSet(list') = ToSet(list) \cup {t}
        /\ list' # <<>> /\ Head(list') = Head(list)
    BY <1>1, <1>2, <1>3, <2>1, <2>2, InsertFacts DEF Apart
  <2>4. OneHome'
    <3>1. Apart'
      BY <1>2, <1>3, <1>7, <2>3 DEF Apart
    <3> QED
      BY <1>10, <3>1, OnlyHead DEF Apart, OneHome
  <2>5. (a[Head(list)] - base) % AbsMod = (abs[Head(list)] - absLast) % AbsMod
    <3>1. Head(list) \in ToSet(list) /\ Head(list) \in Nodes /\ Head(list) # t
      BY <1>1, <1>3, <2>2, HeadIn
    <3>2. CASE ~wrap
      BY <3>2
    <3>3. CASE wrap
      <4>1. a[Head(list)] = (abs[Head(list)] - now) % AbsMod /\ base = (absLast - now) % AbsMod
        BY <3>1, <3>3 DEF Rebased, now
      <4>2. abs[Head(list)] \in Int
        BY <1>1, <1>5, <3>1
      <4> DEFINE h == abs[Head(list)]
      <4> HIDE DEF h
      <4>3. h - now \in Int /\ absLast - now \in Int /\ (h - now) - (absLast - now) = h - absLast
        BY <1>5, <4>2 DEF h
      <4>4. (((h - now) % AbsMod) - ((absLast - now) % AbsMod)) % AbsMod
              = ((h - now) - (absLast - now)) % AbsMod
        BY <1>5, <4>3, ModDiff
      <4> QED
        BY <4>1, <4>3, <4>4 DEF h
    <3> QED
      BY <3>2, <3>3
  <2>6. LoadedForHead'
    <3>1. lastLoad + ((abs[Head(list)] - absLast) % AbsMod) = MaxCount
      BY <1>4, <2>2 DEF Lists, LoadedForHead
    <3> QED
      BY <2>1, <2>3, <2>5, <3>1 DEF LoadedForHead
  <2>7. Stopped' /\ Enabled'
    BY <1>4, <1>7, <2>1, <2>2 DEF Stopped, Enabled, ReEnable
  <2> QED
    BY <1>8, <2>4, <2>6, <2>7 DEF Lists
<1> QED
  BY <1>11, <1>12

(* Every step keeps the lists in order.                                    *)
LEMMA ListsStep == Typed /\ Lists /\ [Next]_vars => Lists'
<1> SUFFICES ASSUME Typed, Lists, [Next]_vars PROVE Lists'
  OBVIOUS
<1> USE DEF Lists, Absent, Passed, Stopped, Enabled, Guarded
<1>1. CASE Tick
  <2>1. UNCHANGED <<list, queue, abs, clock, ovfIE, ctl>>
    BY <1>1 DEF Tick
  <2> QED
    BY <2>1, StillFacts
<1>2. CASE TimeoutIsr
  BY <1>2, ListsIsr
<1>3. ASSUME NEW x \in Timers, NEW d \in Timeouts, CallCreate(x, d) PROVE Lists'
  BY <1>3, StillFacts DEF CallCreate, Call, MainAt
<1>4. ASSUME NEW x \in Timers, CallDelete(x) PROVE Lists'
  BY <1>4, StillFacts DEF CallDelete, Call, MainAt
<1>5. CASE CallFlushAll
  BY <1>5 DEF CallFlushAll, Call, MainAt, StopTimeouts, OneHome, LoadedForHead
<1>6. ASSUME NEW d \in Timeouts, CallbackReschedule(d) PROVE Lists'
  BY <1>6, StillFacts DEF CallbackReschedule, MainAt
<1>7. CASE FlushNext
  BY <1>7, StillFacts DEF FlushNext, MainAt, Return, Typed, TypeOK, Control
<1>8. CASE DeleteCheck
  <2>1. /\ UNCHANGED <<list, queue, abs, clock, hw, tempIE>> /\ pc = "check"
        /\ which \in {"list", "queue"}
    BY <1>8 DEF DeleteCheck, MainAt, Typed, TypeOK
  <2>2. OneHome' /\ LoadedForHead'
    BY <2>1, StillFacts
  <2>3. CASE Target # <<>>
    BY <1>8, <2>1, <2>2, <2>3 DEF DeleteCheck
  <2>4. CASE Target = <<>> /\ which = "list"
    <3>1. pc' = "check" /\ which' = "queue" /\ UNCHANGED op /\ list = <<>>
      BY <1>8, <2>4 DEF DeleteCheck, NotFound, Target
    <3> QED
      BY <2>1, <2>2, <3>1, EmptySet
  <2>5. CASE Target = <<>> /\ which = "queue"
    <3>1. AfterDelete /\ queue = <<>>
      BY <1>8, <2>5 DEF DeleteCheck, NotFound, Target
    <3>2. op.call = "create" => op.timer \notin ToSet(list') /\ op.timer \notin ToSet(queue')
      BY <2>1, <2>5, <3>1, EmptySet, TimeoutAssumption DEF Typed, Control
    <3>3. Absent' /\ Passed'
      BY <3>1, <3>2, AfterDeleteLists
    <3>4. pc' \in {"create", "flush", "ready"}
      BY <3>1 DEF AfterDelete
    <3> QED
      BY <2>1, <2>2, <2>5, <3>3, <3>4
  <2> QED
    BY <2>1, <2>3, <2>4, <2>5
<1>9. CASE DeleteGuard
  BY <1>9, StillFacts DEF DeleteGuard, MainAt
<1>10. CASE DeleteHead
  BY <1>10, ListsDeleteHead
<1>11. CASE DeleteSearch
  BY <1>11, ListsDeleteSearch
<1>12. CASE CreateGuard
  BY <1>12, StillFacts DEF CreateGuard, MainAt
<1>13. CASE CreateAbsolute
  <2>1. /\ pc = "createOff" /\ pc' = "createAbs"
        /\ UNCHANGED <<list, queue, clock, hw, which, op, tempIE>>
        /\ abs' = [abs EXCEPT ![op.timer] = MakeAbsolute(op.timeout)]
    BY <1>13 DEF CreateAbsolute, MainAt
  <2>2. OneHome'
    BY <2>1 DEF OneHome
  <2>3. list # <<>> => Head(list) \in Nodes /\ Head(list) # op.timer
    <3>1. list \in Seq(Nodes)
      BY DEF Typed, TypeOK
    <3> QED
      BY <2>1, <3>1, HeadIn
  <2>4. list # <<>> => abs'[Head(list)] = abs[Head(list)]
    BY <2>1, <2>3 DEF Typed, TypeOK
  <2>5. LoadedForHead'
    BY <2>1, <2>4 DEF LoadedForHead
  <2> QED
    BY <2>1, <2>2, <2>5
<1>14. CASE CreateInsert
  BY <1>14, ListsInsert
<1>15. CASE CallNext \/ CallbackDone
  BY <1>15, StillFacts DEF CallNext, CallbackDone, MainAt
<1>16. CASE CallNextGuard
  BY <1>16, StillFacts DEF CallNextGuard, MainAt
<1>17. CASE CallNextPop
  <2>1. /\ pc = "callOff" /\ pc' = "ready" /\ queue' = Tail(queue)
        /\ ovfIE' = (ovfIE \/ tempIE)
        /\ UNCHANGED <<list, abs, clock, which, op>>
    BY <1>17 DEF CallNextPop, MainAt
  <2>2. queue \in Seq(Timers) /\ queue # <<>>
    BY <2>1 DEF Typed, TypeOK, Control
  <2>3. IsInjective(queue') /\ ToSet(queue') \subseteq ToSet(queue)
    BY <2>1, <2>2, TailFacts DEF OneHome
  <2>4. OneHome' /\ LoadedForHead'
    BY <2>1, <2>3 DEF OneHome, LoadedForHead
  <2> QED
    BY <2>1, <2>3, <2>4
<1>18. CASE UNCHANGED vars
  BY <1>18, StillFacts
<1> QED
  BY <1>1, <1>2, <1>3, <1>4, <1>5, <1>6, <1>7, <1>8, <1>9, <1>10, <1>11, <1>12,
     <1>13, <1>14, <1>15, <1>16, <1>17, <1>18 DEF Next, Application, Driver, Superloop

----------------------------------------------------------------------------
(* The lists are in order in every reachable state.                        *)
THEOREM ListsInOrder == Spec => [](Typed /\ Lists)
<1>1. Init => Typed /\ Lists
  BY TypedInit, ListsInit
<1>2. (Typed /\ Lists) /\ [Next]_vars => (Typed /\ Lists)'
  BY TypedStep, ListsStep
<1> QED
  BY <1>1, <1>2, PTL DEF Spec

(* Whatever the interrupt does between the steps of timeout_create and     *)
(* timeout_delete, a timer is in one of the two lists at most, and once.   *)
THEOREM OneHomeHolds == Spec => []OneHome
<1>1. Typed /\ Lists => OneHome
  BY DEF Lists
<1> QED
  BY <1>1, ListsInOrder, PTL

(* startTimerAtHead, sortedInsert and rebaseList leave the counter loaded  *)
(* for the timer that expires next, also across the wrap of the time base. *)
THEOREM LoadedForHeadHolds == Spec => []LoadedForHead
<1>1. Typed /\ Lists => LoadedForHead
  BY DEF Lists
<1> QED
  BY <1>1, ListsInOrder, PTL

(* No path through the driver returns to the application with timers in    *)
(* listHead and the overflow interrupt off.                                *)
THEOREM ListIsServedHolds == Spec => []ListIsServed
<1>1. Typed /\ Lists => ListIsServed
  BY DEF Lists, ListIsServed, Stopped, Enabled
<1> QED
  BY <1>1, ListsInOrder, PTL

----------------------------------------------------------------------------
(* The order of listHead.                                                  *)

(* The timers of l expire one after the other, none before the time base.  *)
Ordered(l, a, base) ==
  /\ \A i, j \in 1 .. Len(l) : i < j => a[l[i]] <= a[l[j]]
  /\ \A i \in 1 .. Len(l) : base <= a[l[i]]

(* Until rebaseList has run, times do not wrap.                            *)
InOrder == rebased \/ Ordered(list, abs, absLast)

(* Dummy, where startTimerAtHead needs it, expires before the head.        *)
LEMMA StartOrdered ==
  ASSUME NEW l \in Seq(Nodes), NEW a \in [Nodes -> 0 .. AbsMod - 1],
         NEW base \in 0 .. AbsMod - 1,
         Dummy \in ToSet(l) => ~TooFar(Period(l, a, base)),
         Ordered(l, a, base), StartTimerAtHead(l, a, base)
  PROVE  Ordered(list', abs', absLast')
<1> USE TimeoutAssumption
<1>1. CASE l = <<>>
  <2>1. list' = <<>>
    BY <1>1 DEF StartTimerAtHead
  <2> QED
    BY <2>1 DEF Ordered
<1>2. CASE l # <<>>
  <2>1. absLast' = base
    BY <1>2 DEF StartTimerAtHead
  <2>2. CASE ~TooFar(Period(l, a, base))
    BY <1>2, <2>1, <2>2 DEF StartTimerAtHead
  <2>3. CASE TooFar(Period(l, a, base))
    <3>1. /\ list' = <<Dummy>> \o l
          /\ abs' = [a EXCEPT ![Dummy] = (base + MaxCount) % AbsMod]
      BY <1>2, <2>3 DEF StartTimerAtHead
    <3>2. \A i \in 1 .. Len(l) : l[i] \in Nodes /\ l[i] # Dummy /\ abs'[l[i]] = a[l[i]]
      <4>1. Dummy \notin ToSet(l)
        BY <2>3
      <4>2. \A i \in 1 .. Len(l) : l[i] \in Nodes /\ l[i] # Dummy
        BY <4>1 DEF ToSet
      <4> QED
        BY <3>1, <4>2
    <3>3. Len(l) \in Nat /\ 1 \in 1 .. Len(l) /\ Head(l) = l[1]
      BY <1>2
    <3>0. AbsMod \in Nat \ {0} /\ MaxCount \in Nat /\ base \in Int
      OBVIOUS
    <3> DEFINE head == a[l[1]]
    <3>4. head \in 0 .. AbsMod - 1 /\ base <= head
      BY <3>2, <3>3 DEF Ordered
    <3>5. head - base \in 0 .. AbsMod - 1
      BY <3>4
    <3>6. (head - base) % AbsMod = head - base
      BY <3>0, <3>5, ModSmall
    <3>7. head - base > MaxCount
      BY <2>3, <3>3, <3>6 DEF TooFar, Period
    <3> HIDE DEF head
    <3>8. base + MaxCount \in 0 .. AbsMod - 1 /\ base + MaxCount < head
      BY <3>4, <3>7
    <3>9. abs'[Dummy] = base + MaxCount
      <4>1. (base + MaxCount) % AbsMod = base + MaxCount
        BY <3>0, <3>8, ModSmall
      <4> QED
        BY <3>1, <4>1
    <3>10. \A i \in 1 .. Len(l) : head <= a[l[i]] /\ a[l[i]] \in Int
      <4>1. ASSUME NEW i \in 1 .. Len(l) PROVE a[l[i]] \in 0 .. AbsMod - 1
        BY <3>2
      <4> QED
        BY <3>3, <3>4, <4>1 DEF Ordered, head
    <3>11. /\ Len(list') = Len(l) + 1 /\ list'[1] = Dummy
           /\ \A i \in 1 .. Len(l) + 1 : i # 1 => i - 1 \in 1 .. Len(l) /\ list'[i] = l[i - 1]
      BY <3>1, <3>3
    <3>12. ASSUME NEW i \in 1 .. Len(l) + 1, i # 1
           PROVE  /\ i - 1 \in 1 .. Len(l) /\ abs'[list'[i]] = a[l[i - 1]]
                  /\ head <= abs'[list'[i]] /\ abs'[list'[i]] \in Int
      BY <3>2, <3>10, <3>11, <3>12
    <3>13. ASSUME NEW i \in 1 .. Len(l) + 1 PROVE base <= abs'[list'[i]]
      BY <3>4, <3>8, <3>9, <3>11, <3>12
    <3>14. ASSUME NEW i \in 1 .. Len(l) + 1, NEW j \in 1 .. Len(l) + 1, i < j
           PROVE  abs'[list'[i]] <= abs'[list'[j]]
      <4>1. j # 1 /\ j - 1 \in 1 .. Len(l)
        BY <3>14
      <4>2. CASE i = 1
        <5>1. abs'[list'[i]] = base + MaxCount
          BY <3>9, <3>11, <4>2
        <5>2. head <= abs'[list'[j]] /\ abs'[list'[j]] \in Int
          BY <3>12, <4>1
        <5> QED
          BY <3>0, <3>4, <3>8, <5>1, <5>2
      <4>3. CASE i # 1
        <5>1. i - 1 \in 1 .. Len(l) /\ i - 1 < j - 1
          BY <3>3, <3>14, <4>1, <4>3
        <5>2. a[l[i - 1]] <= a[l[j - 1]]
          BY <4>1, <5>1 DEF Ordered
        <5> QED
          BY <3>12, <4>1, <4>3, <5>2
      <4> QED
        BY <4>2, <4>3
    <3> QED
      BY <2>1, <3>11, <3>13, <3>14 DEF Ordered
  <2> QED
    BY <2>2, <2>3
<1> QED
  BY <1>1, <1>2

(* What remains when a timer is taken out is in order.                     *)
LEMMA RemoveOrdered ==
  ASSUME NEW l \in Seq(Nodes), NEW a, NEW base, NEW i \in 1 .. Len(l), Ordered(l, a, base)
  PROVE  Ordered(RemoveAt(l, i), a, base)
<1> DEFINE r == RemoveAt(l, i)
<1>1. /\ Len(r) = Len(l) - 1 /\ Len(l) \in Nat
      /\ \A j \in 1 .. Len(l) - 1 : r[j] = IF j < i THEN l[j] ELSE l[j + 1]
  BY RemoveIs
<1> HIDE DEF r
<1>2. ASSUME NEW j \in 1 .. Len(r) PROVE base <= a[r[j]]
  BY <1>1 DEF Ordered
<1>3. ASSUME NEW j \in 1 .. Len(r), NEW k \in 1 .. Len(r), j < k PROVE a[r[j]] <= a[r[k]]
  <2> DEFINE old(n) == IF n < i THEN n ELSE n + 1
  <2>1. /\ old(j) \in 1 .. Len(l) /\ old(k) \in 1 .. Len(l) /\ old(j) < old(k)
        /\ r[j] = l[old(j)] /\ r[k] = l[old(k)]
    BY <1>1, <1>3
  <2> QED
    BY <2>1 DEF Ordered
<1> QED
  BY <1>2, <1>3 DEF Ordered, r

(* The tail is what remains without the first.                             *)
LEMMA TailOrdered ==
  ASSUME NEW l \in Seq(Nodes), NEW a, NEW base, l # <<>>, Ordered(l, a, base)
  PROVE  Ordered(Tail(l), a, base)
<1>1. Len(Tail(l)) = Len(l) - 1 /\ Len(l) \in Nat /\ Len(l) >= 1
  OBVIOUS
<1>2. \A j \in 1 .. Len(l) - 1 : Tail(l)[j] = l[j + 1]
  OBVIOUS
<1> QED
  BY <1>1, <1>2 DEF Ordered

(* A timer put in where it belongs leaves the order as it was; t may be    *)
(* given a new time.                                                       *)
LEMMA InsertOrdered ==
  ASSUME NEW l \in Seq(Nodes), NEW a \in [Nodes -> 0 .. AbsMod - 1],
         NEW base \in 0 .. AbsMod - 1, NEW t \in Nodes, base <= a[t],
         Ordered(l, a, base), NEW k \in 1 .. Len(l) + 1,
         \A j \in 1 .. k - 1 : a[l[j]] <= a[t],
         k <= Len(l) => a[l[k]] > a[t]
  PROVE  Ordered(InsertAt(l, k, t), a, base)
<1> DEFINE r == InsertAt(l, k, t)
<1>1. /\ Len(r) = Len(l) + 1 /\ Len(l) \in Nat
      /\ \A j \in 1 .. Len(l) + 1 :
           r[j] = IF j < k THEN l[j] ELSE IF j = k THEN t ELSE l[j - 1]
  BY InsertIs
<1> HIDE DEF r
<1>2. \A j \in 1 .. Len(l) : l[j] \in Nodes
  OBVIOUS
<1>3. \A x \in Nodes : a[x] \in Int
  BY TimeoutAssumption
<1>4. ASSUME NEW j \in 1 .. Len(l), j >= k PROVE a[t] <= a[l[j]]
  <2>1. k \in 1 .. Len(l)
    BY <1>1, <1>4
  <2>2. a[l[k]] <= a[l[j]]
    BY <1>1, <1>2, <1>3, <1>4, <2>1 DEF Ordered
  <2> QED
    BY <1>2, <1>3, <2>1, <2>2
<1>5. ASSUME NEW j \in 1 .. Len(r) PROVE base <= a[r[j]]
  <2>1. CASE j = k
    BY <1>1, <2>1
  <2>2. CASE j < k
    BY <1>1, <2>2 DEF Ordered
  <2>3. CASE j > k
    <3>1. j - 1 \in 1 .. Len(l) /\ r[j] = l[j - 1]
      BY <1>1, <2>3
    <3> QED
      BY <3>1 DEF Ordered
  <2> QED
    BY <2>1, <2>2, <2>3
<1>6. ASSUME NEW i \in 1 .. Len(r), NEW j \in 1 .. Len(r), i < j PROVE a[r[i]] <= a[r[j]]
  <2>1. CASE j < k
    <3>1. r[i] = l[i] /\ r[j] = l[j] /\ i \in 1 .. Len(l) /\ j \in 1 .. Len(l)
      BY <1>1, <1>6, <2>1
    <3> QED
      BY <1>6, <3>1 DEF Ordered
  <2>2. CASE j = k
    <3>1. r[i] = l[i] /\ r[j] = t /\ i \in 1 .. k - 1
      BY <1>1, <1>6, <2>2
    <3> QED
      BY <3>1
  <2>3. CASE j > k
    <3>1. r[j] = l[j - 1] /\ j - 1 \in 1 .. Len(l) /\ j - 1 >= k
      BY <1>1, <2>3
    <3>2. CASE i = k
      <4>1. r[i] = t
        BY <1>1, <3>2
      <4> QED
        BY <1>4, <3>1, <4>1
    <3>3. CASE i < k
      <4>1. r[i] = l[i] /\ i \in 1 .. Len(l) /\ i < j - 1
        BY <1>1, <1>6, <3>1, <3>3
      <4> QED
        BY <3>1, <4>1 DEF Ordered
    <3>4. CASE i > k
      <4>1. r[i] = l[i - 1] /\ i - 1 \in 1 .. Len(l) /\ i - 1 < j - 1
        BY <1>1, <1>6, <3>4
      <4> QED
        BY <3>1, <4>1 DEF Ordered
    <3> QED
      BY <3>2, <3>3, <3>4
  <2> QED
    BY <2>1, <2>2, <2>3
<1> QED
  BY <1>5, <1>6 DEF Ordered, r

(* An empty list is in order.                                              *)
LEMMA EmptyOrdered == ASSUME NEW a, NEW base PROVE Ordered(<<>>, a, base)
BY DEF Ordered

(* When the head expires it becomes the time base.                         *)
LEMMA ExpireOrdered ==
  ASSUME NEW l \in Seq(Nodes), NEW a, NEW base, l # <<>>, Ordered(l, a, base)
  PROVE  Ordered(Tail(l), a, a[Head(l)])
<1>1. Len(Tail(l)) = Len(l) - 1 /\ Len(l) \in Nat /\ Len(l) >= 1 /\ Head(l) = l[1]
  OBVIOUS
<1>2. \A j \in 1 .. Len(l) - 1 : Tail(l)[j] = l[j + 1]
  OBVIOUS
<1> QED
  BY <1>1, <1>2 DEF Ordered

(* Expiry, deletion and the insertion that does not wrap keep the order.   *)
LEMMA OrderIsr == ASSUME Typed, Lists, InOrder, TimeoutIsr PROVE InOrder'
<1>1. CASE list = <<>>
  BY <1>1 DEF TimeoutIsr, InOrder
<1>2. CASE list # <<>>
  <2>1. /\ list \in Seq(Nodes) /\ Tail(list) \in Seq(Nodes) /\ Head(list) \in Nodes
        /\ abs \in [Nodes -> 0 .. AbsMod - 1]
    BY <1>2 DEF Typed, TypeOK
  <2>2. Dummy \notin ToSet(Tail(list))
    <3>1. Apart
      BY <2>1, ApartIsOneHome DEF Lists
    <3> QED
      BY <1>2, <2>1, <3>1, TailFacts DEF Apart
  <2>3. StartTimerAtHead(Tail(list), abs, abs[Head(list)]) /\ StillRebased(rebased)
    BY <1>2 DEF TimeoutIsr
  <2>4. abs[Head(list)] \in 0 .. AbsMod - 1
    BY <2>1
  <2>5. CASE ~rebased
    <3>1. Ordered(Tail(list), abs, abs[Head(list)])
      BY <1>2, <2>1, <2>5, ExpireOrdered DEF InOrder
    <3> QED
      BY <2>1, <2>2, <2>3, <2>4, <3>1, StartOrdered DEF InOrder
  <2>6. CASE rebased
    BY <2>3, <2>6, EmptyOrdered DEF StillRebased, InOrder
  <2> QED
    BY <2>5, <2>6
<1> QED
  BY <1>1, <1>2

(* The deletion of the first timer of a list.                              *)
LEMMA OrderDeleteHead == ASSUME Typed, Lists, InOrder, DeleteHead PROVE InOrder'
<1>1. /\ list \in Seq(Nodes) /\ queue \in Seq(Timers)
      /\ abs \in [Nodes -> 0 .. AbsMod - 1] /\ absLast \in 0 .. AbsMod - 1
      /\ which \in {"list", "queue"}
  BY DEF Typed, TypeOK
<1>2. StillRebased(rebased) /\ pc = "off"
  BY DEF DeleteHead, MainAt
<1>3. CASE rebased
  BY <1>2, <1>3, EmptyOrdered DEF StillRebased, InOrder
<1>4. Apart
  BY <1>1, ApartIsOneHome DEF Lists
<1>5. CASE ~rebased /\ which = "list"
  <2>1. list # <<>> /\ StartTimerAtHead(Tail(list), abs, absLast)
    BY <1>5 DEF DeleteHead, Target
  <2>2. Dummy \notin ToSet(Tail(list)) /\ Tail(list) \in Seq(Nodes)
    BY <1>1, <1>4, <2>1, TailFacts DEF Apart
  <2>3. Ordered(Tail(list), abs, absLast)
    BY <1>1, <1>5, <2>1, TailOrdered DEF InOrder
  <2> QED
    BY <1>1, <2>1, <2>2, <2>3, StartOrdered DEF InOrder
<1>6. CASE ~rebased /\ which = "queue"
  <2>1. StartTimerAtHead(list, abs, absLast)
    BY <1>6 DEF DeleteHead
  <2>2. Dummy \in ToSet(list) => ~TooFar(Period(list, abs, absLast))
    <3>1. Dummy \in ToSet(list) => list # <<>>
      BY EmptySet
    <3>2. list # <<>> => running
      BY <1>2, <1>6 DEF Lists, Stopped
    <3> QED
      BY <3>1, <3>2, LoadedIsNear DEF Lists, Typed
  <2> QED
    BY <1>1, <1>6, <2>1, <2>2, StartOrdered DEF InOrder
<1> QED
  BY <1>1, <1>3, <1>5, <1>6

(* The insertion at the end of timeout_create.                             *)
LEMMA OrderInsert == ASSUME Typed, Lists, InOrder, CreateInsert PROVE InOrder'
<1> DEFINE t == op.timer
<1> DEFINE wrap == abs[t] < absLast
<1>1. /\ list \in Seq(Nodes) /\ Len(list) \in Nat
      /\ abs \in [Nodes -> 0 .. AbsMod - 1] /\ absLast \in 0 .. AbsMod - 1
      /\ t \in Timers /\ t \in Nodes /\ t \notin ToSet(list) /\ t # Dummy
  BY TimeoutAssumption DEF Typed, TypeOK, Control, Lists, Absent, CreateInsert, MainAt
<1>2. StillRebased(rebased \/ wrap)
  BY DEF CreateInsert
<1>3. CASE rebased \/ wrap
  BY <1>2, <1>3, EmptyOrdered DEF StillRebased, InOrder
<1>4. CASE ~rebased /\ ~wrap
  <2>1. Ordered(list, abs, absLast) /\ absLast <= abs[t]
    BY <1>1, <1>4 DEF InOrder
  <2>2. PICK k \in 1 .. Len(list) + 1 :
          /\ InsertPosition(abs, abs[t], k)
          /\ IF k = 1
               THEN LET rest == IF list # <<>> /\ Head(list) = Dummy
                                  THEN Tail(list) ELSE list
                    IN StartTimerAtHead(<<t>> \o rest, abs, absLast)
               ELSE list' = InsertAt(list, k, t) /\ abs' = abs /\ absLast' = absLast
    BY <1>4 DEF CreateInsert
  <2>3. /\ \A j \in 1 .. k - 1 : abs[list[j]] <= abs[t]
        /\ k <= Len(list) => abs[list[k]] > abs[t]
    BY <2>2 DEF InsertPosition
  <2> HIDE DEF t
  <2>4. CASE k # 1
    <3>1. Ordered(InsertAt(list, k, t), abs, absLast)
      BY <1>1, <2>1, <2>3, InsertOrdered
    <3> QED
      BY <2>2, <2>4, <3>1 DEF InOrder
  <2>5. CASE k = 1
    <3> DEFINE rest == IF list # <<>> /\ Head(list) = Dummy THEN Tail(list) ELSE list
    <3>1. StartTimerAtHead(<<t>> \o rest, abs, absLast)
      BY <2>2, <2>5
    <3>2. /\ rest \in Seq(Nodes) /\ Ordered(rest, abs, absLast)
          /\ Dummy \notin ToSet(rest) /\ 1 \in 1 .. Len(rest) + 1
          /\ 1 <= Len(rest) => abs[rest[1]] > abs[t]
      <4>1. Apart
        BY <1>1, ApartIsOneHome DEF Lists
      <4>2. CASE list # <<>> /\ Head(list) = Dummy
        <5>1. /\ Tail(list) \in Seq(Nodes) /\ Len(Tail(list)) = Len(list) - 1
              /\ Len(list) >= 1 /\ Head(list) = list[1]
          BY <1>1, <4>2
        <5>2. ToSet(Tail(list)) = ToSet(list) \ {Dummy}
          BY <1>1, <4>1, <4>2, TailFacts DEF Apart
        <5>3. Ordered(Tail(list), abs, absLast)
          BY <1>1, <2>1, <4>2, TailOrdered
        <5>4. abs[list[1]] > abs[t]
          BY <1>1, <2>3, <2>5, <5>1
        <5>5. ASSUME 1 <= Len(Tail(list)) PROVE abs[Tail(list)[1]] > abs[t]
          <6>1. 2 \in 1 .. Len(list) /\ 1 \in 1 .. Len(list) /\ Tail(list)[1] = list[2]
            BY <1>1, <4>2, <5>1, <5>5
          <6>2. abs[list[1]] <= abs[list[2]]
            BY <2>1, <6>1 DEF Ordered
          <6>3. list[1] \in Nodes /\ list[2] \in Nodes
            BY <1>1, <6>1
          <6>4. abs[list[1]] \in 0 .. AbsMod - 1 /\ abs[list[2]] \in 0 .. AbsMod - 1 /\ abs[t] \in 0 .. AbsMod - 1
            BY <1>1, <6>3
          <6> QED
            BY <5>4, <6>1, <6>2, <6>4
        <5> QED
          BY <1>1, <4>2, <5>1, <5>2, <5>3, <5>5
      <4>3. CASE ~(list # <<>> /\ Head(list) = Dummy)
        <5>1. rest = list
          BY <4>3
        <5>2. Dummy \notin ToSet(list)
          BY <4>1, <4>3, EmptySet DEF Apart
        <5> QED
          BY <1>1, <2>1, <2>3, <2>5, <5>1, <5>2
      <4> QED
        BY <4>2, <4>3
    <3> HIDE DEF rest
    <3>3. Ordered(InsertAt(rest, 1, t), abs, absLast)
      <4>1. \A j \in 1 .. 1 - 1 : abs[rest[j]] <= abs[t]
        OBVIOUS
      <4> QED
        BY <1>1, <2>1, <3>2, <4>1, InsertOrdered
    <3>4. <<t>> \o rest = InsertAt(rest, 1, t)
      BY <1>1, <3>2, PushIsInsert
    <3>5. <<t>> \o rest \in Seq(Nodes) /\ Dummy \notin ToSet(<<t>> \o rest)
      BY <1>1, <3>2, PushFacts
    <3> QED
      BY <1>1, <3>1, <3>3, <3>4, <3>5, StartOrdered DEF InOrder
  <2> QED
    BY <2>4, <2>5
<1> QED
  BY <1>3, <1>4

(* Steps that leave listHead and the time base alone.                      *)
LEMMA StillInOrder ==
  ASSUME InOrder, UNCHANGED <<list, abs, absLast, rebased>> PROVE InOrder'
BY DEF InOrder, Ordered

(* Every step keeps the order, or has rebaseList run.                      *)
LEMMA OrderStep == Typed /\ Lists /\ InOrder /\ [Next]_vars => InOrder'
<1> SUFFICES ASSUME Typed, Lists, InOrder, [Next]_vars PROVE InOrder'
  OBVIOUS
<1>1. CASE Tick \/ FlushNext \/ DeleteCheck \/ DeleteGuard \/ CreateGuard
           \/ CallNext \/ CallNextGuard \/ CallNextPop \/ CallbackDone \/ UNCHANGED vars
  <2>1. UNCHANGED <<list, abs, absLast, rebased>>
    BY <1>1 DEF Tick, FlushNext, DeleteCheck, DeleteGuard, CreateGuard, CallNext,
                CallNextGuard, CallNextPop, CallbackDone
  <2> QED
    BY <2>1, StillInOrder
<1>2. ASSUME NEW x \in Timers, NEW d \in Timeouts, CallCreate(x, d) PROVE InOrder'
  BY <1>2, StillInOrder DEF CallCreate, Call
<1>3. ASSUME NEW x \in Timers, CallDelete(x) PROVE InOrder'
  BY <1>3, StillInOrder DEF CallDelete, Call
<1>4. ASSUME NEW d \in Timeouts, CallbackReschedule(d) PROVE InOrder'
  BY <1>4, StillInOrder DEF CallbackReschedule
<1>5. CASE CallFlushAll
  <2>1. UNCHANGED <<list, abs, rebased>> /\ absLast' = 0
    BY <1>5 DEF CallFlushAll, Call, StopTimeouts
  <2>2. \A i \in 1 .. Len(list) : 0 <= abs[list[i]]
    BY DEF Typed, TypeOK
  <2> QED
    BY <2>1, <2>2 DEF InOrder, Ordered
<1>6. CASE DeleteSearch
  <2>1. UNCHANGED <<abs, absLast, rebased>>
    BY <1>6 DEF DeleteSearch
  <2>2. CASE UNCHANGED list
    BY <2>1, <2>2, StillInOrder
  <2>3. ASSUME NEW i \in 2 .. Len(list), list' = RemoveAt(list, i) PROVE InOrder'
    <3>1. list \in Seq(Nodes) /\ i \in 1 .. Len(list)
      BY DEF Typed, TypeOK
    <3> QED
      BY <2>1, <2>3, <3>1, RemoveOrdered DEF InOrder
  <2> QED
    BY <1>6, <2>2, <2>3 DEF DeleteSearch, Target
<1>7. CASE CreateAbsolute
  <2>1. /\ pc = "createOff" /\ UNCHANGED <<list, absLast, rebased>>
        /\ abs' = [abs EXCEPT ![op.timer] = MakeAbsolute(op.timeout)]
    BY <1>7 DEF CreateAbsolute, MainAt
  <2>2. \A i \in 1 .. Len(list) : list[i] \in Nodes /\ list[i] # op.timer
    <3>1. list \in Seq(Nodes) /\ op.timer \notin ToSet(list)
      BY <2>1 DEF Typed, TypeOK, Lists, Absent
    <3> QED
      BY <3>1 DEF ToSet
  <2>3. \A i \in 1 .. Len(list) : abs'[list[i]] = abs[list[i]]
    BY <2>1, <2>2 DEF Typed, TypeOK
  <2> QED
    BY <2>1, <2>3 DEF InOrder, Ordered
<1> QED
  BY <1>1, <1>2, <1>3, <1>4, <1>5, <1>6, <1>7, OrderIsr, OrderDeleteHead, OrderInsert
     DEF Next, Application, Driver, Superloop

(* Whatever is created, deleted and expires in whatever order, listHead is *)
(* in the order of expiry, until rebaseList runs: for every number of      *)
(* timers and every timeout, no assumption on the times being made.        *)
THEOREM SortedHolds == Spec => []SortedUntilRebase
<1>1. Init => Typed /\ Lists /\ InOrder
  BY TypedInit, ListsInit, EmptyOrdered DEF Init, InOrder
<1>2. (Typed /\ Lists /\ InOrder) /\ [Next]_vars => (Typed /\ Lists /\ InOrder)'
  BY TypedStep, ListsStep, OrderStep
<1>3. InOrder => SortedUntilRebase
  BY DEF InOrder, Ordered, SortedUntilRebase, Sorted
<1> QED
  BY <1>1, <1>2, <1>3, PTL DEF Spec

----------------------------------------------------------------------------
(* The promise of TimerService.                                            *)

(* While the head of the queue is fetched, no callback runs.               *)
Fetching == pc \in {"callIE", "callOff"} => cur = NoTimer

(* A call of the application needs a callback that runs, and ends before   *)
(* the superloop looks at the queue again.                                 *)
LEMMA FetchingStep == Typed /\ Fetching /\ [Next]_vars => Fetching'
<1> SUFFICES ASSUME Typed, Fetching, [Next]_vars PROVE Fetching'
  OBVIOUS
<1> USE DEF Fetching
<1>1. CASE Tick \/ TimeoutIsr \/ CallNext \/ CallNextGuard \/ CallNextPop \/ CallbackDone
           \/ UNCHANGED vars
  BY <1>1 DEF Tick, TimeoutIsr, CallNext, CallNextGuard, CallNextPop, CallbackDone, MainAt
<1>2. ASSUME NEW x \in Timers, NEW d \in Timeouts, CallCreate(x, d) PROVE Fetching'
  BY <1>2 DEF CallCreate
<1>3. ASSUME NEW x \in Timers, CallDelete(x) PROVE Fetching'
  BY <1>3 DEF CallDelete
<1>4. ASSUME NEW d \in Timeouts, CallbackReschedule(d) PROVE Fetching'
  BY <1>4 DEF CallbackReschedule
<1>5. CASE CallFlushAll
  BY <1>5 DEF CallFlushAll
<1>6. CASE Driver /\ ~CallNextGuard /\ ~CallNextPop
  BY <1>6 DEF Driver, FlushNext, Return, DeleteCheck, DeleteGuard, DeleteHead,
     DeleteSearch, NotFound, AfterDelete, CreateGuard, CreateAbsolute, CreateInsert
<1> QED
  BY <1>1, <1>2, <1>3, <1>4, <1>5, <1>6 DEF Next, Application, Driver, Superloop

(* startTimerAtHead puts nothing in the list but Dummy.                    *)
LEMMA StartKeeps ==
  ASSUME NEW l \in Seq(Nodes), NEW a, NEW base, StartTimerAtHead(l, a, base)
  PROVE  ToSet(list') \ {Dummy} = ToSet(l) \ {Dummy}
<1>1. CASE list' = l
  BY <1>1
<1>2. CASE list' = <<Dummy>> \o l
  <2>1. ToSet(list') = ToSet(l) \cup {Dummy}
    BY <1>2, PushFacts
  <2> QED
    BY <2>1
<1> QED
  BY <1>1, <1>2 DEF StartTimerAtHead

(* The timers that are pending.                                            *)
Pending == ToSet(list) \ {Dummy}

(* The head of listHead expires; the expiry of Dummy is not seen.          *)
LEMMA ServiceIsr ==
  ASSUME Typed, Lists, TimeoutIsr PROVE [Service!Next]_<<Pending, queue, cur>>
<1>1. CASE list = <<>>
  BY <1>1 DEF TimeoutIsr, Pending
<1>2. CASE list # <<>>
  <2>1. /\ list \in Seq(Nodes) /\ Tail(list) \in Seq(Nodes) /\ Head(list) \in Nodes
        /\ Head(list) \in ToSet(list)
        /\ ToSet(Tail(list)) = ToSet(list) \ {Head(list)}
    BY <1>2, HeadIn, TailFacts DEF Typed, TypeOK, Lists, OneHome
  <2>2. StartTimerAtHead(Tail(list), abs, abs[Head(list)]) /\ UNCHANGED cur
    BY <1>2 DEF TimeoutIsr
  <2>3. Pending' = Pending \ {Head(list)}
    BY <2>1, <2>2, StartKeeps DEF Pending
  <2>4. CASE Head(list) = Dummy
    <3>1. queue' = queue /\ Pending' = Pending
      BY <1>2, <2>3, <2>4 DEF TimeoutIsr, Pending
    <3> QED
      BY <2>2, <3>1
  <2>5. CASE Head(list) # Dummy
    <3>1. queue' = Append(queue, Head(list)) /\ Head(list) \in Pending /\ Head(list) \in Timers
      BY <1>2, <2>1, <2>5 DEF TimeoutIsr, EnqueueCallback, Pending
    <3>2. Service!Expire(Head(list))
      BY <2>2, <2>3, <3>1 DEF Service!Expire, Pending
    <3> QED
      BY <3>1, <3>2 DEF Service!Next
  <2> QED
    BY <2>4, <2>5
<1> QED
  BY <1>1, <1>2

(* The deletion of the first timer of a list cancels it.                   *)
LEMMA ServiceDeleteHead ==
  ASSUME Typed, Lists, DeleteHead PROVE [Service!Next]_<<Pending, queue, cur>>
<1>1. /\ list \in Seq(Nodes) /\ queue \in Seq(Timers) /\ which \in {"list", "queue"}
      /\ UNCHANGED cur
  BY DEF Typed, TypeOK, DeleteHead
<1>2. CASE which = "list"
  <2>1. /\ list # <<>> /\ StartTimerAtHead(Tail(list), abs, absLast) /\ UNCHANGED queue
    BY <1>2 DEF DeleteHead, Target
  <2>2. /\ Tail(list) \in Seq(Nodes) /\ Head(list) \in Nodes /\ Head(list) \in ToSet(list)
        /\ ToSet(Tail(list)) = ToSet(list) \ {Head(list)}
    BY <1>1, <2>1, HeadIn, TailFacts DEF Lists, OneHome
  <2>3. Pending' = Pending \ {Head(list)}
    BY <2>1, <2>2, StartKeeps DEF Pending
  <2>4. CASE Head(list) = Dummy
    BY <1>1, <2>1, <2>3, <2>4 DEF Pending
  <2>5. CASE Head(list) # Dummy
    <3>1. Head(list) \in Pending /\ Head(list) \in Timers
      BY <2>2, <2>5 DEF Pending
    <3>2. Service!CancelPending(Head(list))
      BY <1>1, <2>1, <2>3, <3>1 DEF Service!CancelPending, Pending
    <3> QED
      BY <3>1, <3>2 DEF Service!Next
  <2> QED
    BY <2>4, <2>5
<1>3. CASE which = "queue"
  <2>1. queue # <<>> /\ StartTimerAtHead(list, abs, absLast) /\ queue' = Tail(queue)
    BY <1>3 DEF DeleteHead, Target
  <2>2. Pending' = Pending
    BY <1>1, <2>1, StartKeeps DEF Pending
  <2>3. 1 \in DOMAIN queue /\ queue[1] = Head(queue) /\ Head(queue) \in Timers
        /\ Tail(queue) = RemoveAt(queue, 1)
    <3>1. 1 \in DOMAIN queue /\ 1 \in 1 .. Len(queue) /\ queue[1] = Head(queue) /\ Head(queue) \in Timers
      BY <1>1, <2>1
    <3> QED
      BY <1>1, <2>1, <3>1, TailIsRemove
  <2>4. Service!CancelExpired(Head(queue))
    BY <1>1, <2>1, <2>2, <2>3 DEF Service!CancelExpired, Service!Without, RemoveAt, Pending
  <2> QED
    BY <2>3, <2>4 DEF Service!Next
<1> QED
  BY <1>1, <1>2, <1>3

(* So does that of a timer farther on; one that is in no list is not seen. *)
LEMMA ServiceDeleteSearch ==
  ASSUME Typed, Lists, DeleteSearch PROVE [Service!Next]_<<Pending, queue, cur>>
<1>1. /\ list \in Seq(Nodes) /\ queue \in Seq(Timers) /\ which \in {"list", "queue"}
      /\ UNCHANGED cur
  BY DEF Typed, TypeOK, DeleteSearch
<1>2. CASE UNCHANGED <<list, queue>>
  BY <1>1, <1>2 DEF Pending
<1>3. ASSUME NEW i \in 2 .. Len(list), list' = RemoveAt(list, i), UNCHANGED queue
      PROVE  [Service!Next]_<<Pending, queue, cur>>
  <2>1. i \in 1 .. Len(list) /\ list[i] \in Timers /\ list[i] # Dummy /\ list[i] \in ToSet(list)
    BY <1>1 DEF Lists, OneHome, ToSet
  <2>2. ToSet(list') = ToSet(list) \ {list[i]}
    BY <1>1, <1>3, <2>1, RemoveFacts DEF Lists, OneHome
  <2>3. Service!CancelPending(list[i])
    BY <1>1, <1>3, <2>1, <2>2 DEF Service!CancelPending, Pending
  <2> QED
    BY <2>1, <2>3 DEF Service!Next
<1>4. ASSUME NEW i \in 2 .. Len(queue), queue' = RemoveAt(queue, i), UNCHANGED list
      PROVE  [Service!Next]_<<Pending, queue, cur>>
  <2>1. i \in DOMAIN queue /\ queue[i] \in Timers
    BY <1>1
  <2>2. Service!CancelExpired(queue[i])
    BY <1>1, <1>4, <2>1 DEF Service!CancelExpired, Service!Without, RemoveAt, Pending
  <2> QED
    BY <2>1, <2>2 DEF Service!Next
<1> QED
  BY <1>1, <1>2, <1>3, <1>4 DEF DeleteSearch, Target

(* timeout_create starts a timer that is idle.                             *)
LEMMA ServiceInsert ==
  ASSUME Typed, Lists, CreateInsert PROVE [Service!Next]_<<Pending, queue, cur>>
<1> DEFINE t == op.timer
<1>1. /\ list \in Seq(Nodes) /\ queue \in Seq(Timers) /\ UNCHANGED <<queue, cur>>
      /\ t \in Timers /\ pc = "createAbs"
  BY DEF Typed, TypeOK, Control, CreateInsert, MainAt
<1>2. Apart /\ t \in Nodes /\ t # Dummy /\ t \notin ToSet(list) /\ t \notin ToSet(queue)
  BY <1>1, TimeoutAssumption, ApartIsOneHome DEF Lists, Absent
<1>3. PICK k, a, base :
        /\ k \in 1 .. Len(list) + 1
        /\ IF k = 1
             THEN LET rest == IF list # <<>> /\ Head(list) = Dummy
                                THEN Tail(list) ELSE list
                  IN StartTimerAtHead(<<t>> \o rest, a, base)
             ELSE list' = InsertAt(list, k, t)
  BY DEF CreateInsert
<1> HIDE DEF t
<1>4. Pending' = Pending \cup {t}
  <2>1. CASE k = 1
    <3> DEFINE rest == IF list # <<>> /\ Head(list) = Dummy THEN Tail(list) ELSE list
    <3>1. rest \in Seq(Nodes) /\ ToSet(rest) \ {Dummy} = ToSet(list) \ {Dummy}
      <4>1. CASE list # <<>> /\ Head(list) = Dummy
        BY <1>1, <1>2, <4>1, TailFacts DEF Apart
      <4>2. CASE ~(list # <<>> /\ Head(list) = Dummy)
        BY <1>1, <4>2
      <4> QED
        BY <4>1, <4>2
    <3>2. StartTimerAtHead(<<t>> \o rest, a, base)
      BY <1>3, <2>1
    <3> HIDE DEF rest
    <3>3. <<t>> \o rest \in Seq(Nodes) /\ ToSet(<<t>> \o rest) = ToSet(rest) \cup {t}
      BY <1>2, <3>1, PushFacts
    <3>4. ToSet(list') \ {Dummy} = ToSet(<<t>> \o rest) \ {Dummy}
      BY <3>2, <3>3, StartKeeps
    <3> QED
      BY <1>2, <3>1, <3>3, <3>4 DEF Pending
  <2>2. CASE k # 1
    <3>1. ToSet(list') = ToSet(list) \cup {t}
      BY <1>1, <1>2, <1>3, <2>2, InsertFacts DEF Apart
    <3> QED
      BY <1>2, <3>1 DEF Pending
  <2> QED
    BY <2>1, <2>2
<1>5. Service!Idle(t)
  BY <1>1, <1>2 DEF Service!Idle, Pending, ToSet
<1>6. Service!Start(t)
  BY <1>1, <1>4, <1>5 DEF Service!Start, Pending
<1> QED
  BY <1>1, <1>6 DEF Service!Next, t

(* The superloop dispatches the oldest of the expired timers.              *)
LEMMA ServicePop ==
  ASSUME Typed, Fetching, CallNextPop PROVE [Service!Next]_<<Pending, queue, cur>>
<1>1. /\ queue # <<>> /\ cur = NoTimer /\ cur' = Head(queue) /\ queue' = Tail(queue)
      /\ UNCHANGED list
  BY DEF Typed, Control, Fetching, CallNextPop, MainAt
<1>2. Service!Dispatch
  BY <1>1 DEF Service!Dispatch
<1> QED
  BY <1>2 DEF Service!Next

(* A callback that returns has finished, whatever it returns.              *)
LEMMA ServiceFinish ==
  ASSUME cur # NoTimer, cur' = NoTimer, UNCHANGED <<list, queue>>
  PROVE  [Service!Next]_<<Pending, queue, cur>>
<1>1. Service!Finish
  BY DEF Service!Finish
<1> QED
  BY <1>1 DEF Service!Next

(* Every step of the driver is a step of TimerService or not seen by it.   *)
LEMMA ServiceStep ==
  Typed /\ Lists /\ Fetching /\ [Next]_vars => [Service!Next]_<<Pending, queue, cur>>
<1> SUFFICES ASSUME Typed, Lists, Fetching, [Next]_vars
             PROVE  [Service!Next]_<<Pending, queue, cur>>
  OBVIOUS
<1>1. CASE Tick \/ FlushNext \/ DeleteCheck \/ DeleteGuard \/ CreateGuard
           \/ CreateAbsolute \/ CallNext \/ CallNextGuard \/ UNCHANGED vars
  <2>1. UNCHANGED <<list, queue, cur>>
    BY <1>1 DEF Tick, FlushNext, DeleteCheck, DeleteGuard, CreateGuard, CreateAbsolute,
                CallNext, CallNextGuard
  <2> QED
    BY <2>1 DEF Pending
<1>2. ASSUME NEW x \in Timers, NEW d \in Timeouts, CallCreate(x, d)
      PROVE  [Service!Next]_<<Pending, queue, cur>>
  BY <1>2 DEF CallCreate, Call, Pending
<1>3. ASSUME NEW x \in Timers, CallDelete(x) PROVE [Service!Next]_<<Pending, queue, cur>>
  BY <1>3 DEF CallDelete, Call, Pending
<1>4. CASE CallFlushAll
  BY <1>4 DEF CallFlushAll, Call, Pending
<1>5. ASSUME NEW d \in Timeouts, CallbackReschedule(d)
      PROVE  [Service!Next]_<<Pending, queue, cur>>
  <2>1. cur # NoTimer
    BY <1>5, TimeoutAssumption DEF CallbackReschedule
  <2> QED
    BY <1>5, <2>1, ServiceFinish DEF CallbackReschedule
<1>6. CASE CallbackDone
  BY <1>6, ServiceFinish DEF CallbackDone
<1> QED
  BY <1>1, <1>2, <1>3, <1>4, <1>5, <1>6, ServiceIsr, ServiceDeleteHead,
     ServiceDeleteSearch, ServiceInsert, ServicePop
     DEF Next, Application, Driver, Superloop

(* The timer driver implements TimerService: whatever the interrupt does   *)
(* between the steps of main code, a timer is started only when idle, a    *)
(* callback runs only after an expiry, in the order of the expiries, one   *)
(* at a time and once for each start that is not cancelled.                *)
THEOREM ImplementsTimerServiceHolds == Spec => ImplementsTimerService
<1>1. Init => Typed /\ Lists /\ Fetching
  BY TypedInit, ListsInit DEF Init, Fetching
<1>2. (Typed /\ Lists /\ Fetching) /\ [Next]_vars => (Typed /\ Lists /\ Fetching)'
  BY TypedStep, ListsStep, FetchingStep
<1>3. Init => Service!Init
  BY EmptySet DEF Init, Service!Init
<1>4. (Typed /\ Lists /\ Fetching) /\ [Next]_vars
        => [Service!Next]_<<ToSet(list) \ {Dummy}, queue, cur>>
  BY ServiceStep DEF Pending
<1> QED
  BY <1>1, <1>2, <1>3, <1>4, PTL DEF Spec, ImplementsTimerService, Service!Spec
=============================================================================
