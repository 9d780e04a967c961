----------------------------- MODULE SeqShapes -----------------------------
(* What an insertion into a sequence and a removal from it do to the       *)
(* positions: TAILQ insertions and removals in the models of the queues.   *)
EXTENDS Integers, SequencesExt, SequenceTheorems, FiniteSetTheorems, TLAPS

\* Inserting e after position n moves the later elements one down.
LEMMA InsertAtShape ==
  ASSUME NEW S, NEW q \in Seq(S), NEW n \in 0..Len(q), NEW e \in S
  PROVE  /\ InsertAt(q, n + 1, e) \in Seq(S)
         /\ Len(InsertAt(q, n + 1, e)) = Len(q) + 1
         /\ DOMAIN InsertAt(q, n + 1, e) = 1..(Len(q) + 1)
         /\ \A k \in 1..(Len(q) + 1) :
              InsertAt(q, n + 1, e)[k] = IF k <= n THEN q[k]
                                         ELSE IF k = n + 1 THEN e ELSE q[k - 1]
<1> DEFINE a == SubSeq(q, 1, n)
           c == SubSeq(q, n + 1, Len(q))
           ab == a \o <<e>>
<1>1. InsertAt(q, n + 1, e) = ab \o c
  <2>1. (n + 1) - 1 = n
    OBVIOUS
  <2>2. QED
    BY <2>1, Zenon DEF InsertAt
<1>2. a \in Seq(S) /\ Len(a) = n /\ \A k \in 1..n : a[k] = q[k]
  BY SubSeqProperties
<1>3. c \in Seq(S) /\ Len(c) = Len(q) - n /\ \A k \in 1..(Len(q) - n) : c[k] = q[n + k]
  BY SubSeqProperties
<1> HIDE DEF a, c
<1>4. ab \in Seq(S) /\ Len(ab) = n + 1
      /\ \A k \in 1..(n + 1) : ab[k] = IF k <= n THEN q[k] ELSE e
  BY <1>2
<1> HIDE DEF ab
<1> DEFINE r == ab \o c
<1>5. /\ r \in Seq(S) /\ Len(r) = Len(ab) + Len(c)
      /\ \A k \in 1..(Len(ab) + Len(c)) :
           r[k] = IF k <= Len(ab) THEN ab[k] ELSE c[k - Len(ab)]
  BY <1>3, <1>4, ConcatProperties
<1> HIDE DEF r
<1>6. n \in Nat /\ Len(q) \in Nat /\ Len(ab) + Len(c) = Len(q) + 1
  BY <1>3, <1>4
<1>7. ASSUME NEW k \in 1..(Len(q) + 1)
      PROVE  r[k] = IF k <= n THEN q[k] ELSE IF k = n + 1 THEN e ELSE q[k - 1]
  <2>0. r[k] = IF k <= n + 1 THEN ab[k] ELSE c[k - (n + 1)]
    BY <1>6, <1>4, <1>5
  <2>1. CASE k <= n + 1
    <3>1. ab[k] = IF k <= n THEN q[k] ELSE e
      BY <1>6, <1>4, <2>1
    <3>2. QED
      BY <1>6, <2>0, <2>1, <3>1
  <2>2. CASE k > n + 1
    <3>1. k - (n + 1) \in 1..(Len(q) - n) /\ n + (k - (n + 1)) = k - 1
      BY <1>6, <2>2
    <3>2. c[k - (n + 1)] = q[k - 1]
      BY <1>3, <3>1
    <3>3. QED
      BY <1>6, <2>0, <2>2, <3>2
  <2>3. QED
    BY <2>1, <2>2
<1>8. InsertAt(q, n + 1, e) = r
  BY <1>1 DEF r
<1>9. QED
  BY <1>3, <1>4, <1>5, <1>7, <1>8

\* Removing position n moves the later elements one up.
LEMMA RemoveAtShape ==
  ASSUME NEW S, NEW q \in Seq(S), NEW n \in DOMAIN q
  PROVE  /\ RemoveAt(q, n) \in Seq(S)
         /\ Len(RemoveAt(q, n)) = Len(q) - 1
         /\ DOMAIN RemoveAt(q, n) = 1..(Len(q) - 1)
         /\ \A k \in 1..(Len(q) - 1) :
              RemoveAt(q, n)[k] = IF k < n THEN q[k] ELSE q[k + 1]
<1> DEFINE a == SubSeq(q, 1, n - 1)
           c == SubSeq(q, n + 1, Len(q))
<1>1. RemoveAt(q, n) = a \o c
  BY DEF RemoveAt
<1>2. a \in Seq(S) /\ Len(a) = n - 1 /\ \A k \in 1..(n - 1) : a[k] = q[k]
  BY SubSeqProperties
<1>3. c \in Seq(S) /\ Len(c) = Len(q) - n /\ \A k \in 1..(Len(q) - n) : c[k] = q[n + k]
  BY SubSeqProperties
<1> HIDE DEF a, c
<1> DEFINE r == a \o c
<1>4. /\ r \in Seq(S) /\ Len(r) = Len(a) + Len(c)
      /\ \A k \in 1..(Len(a) + Len(c)) :
           r[k] = IF k <= Len(a) THEN a[k] ELSE c[k - Len(a)]
  BY <1>2, <1>3, ConcatProperties
<1> HIDE DEF r
<1>5. ASSUME NEW k \in 1..(Len(q) - 1)
      PROVE  r[k] = IF k < n THEN q[k] ELSE q[k + 1]
  <2>1. CASE k < n
    BY <1>2, <1>3, <1>4, <2>1
  <2>2. CASE k >= n
    <3>1. r[k] = c[k - (n - 1)] /\ k - (n - 1) \in 1..(Len(q) - n)
      BY <1>2, <1>3, <1>4, <2>2
    <3>2. QED
      BY <1>3, <2>2, <3>1
  <2>3. QED
    BY <2>1, <2>2
<1>6. RemoveAt(q, n) = r
  BY <1>1 DEF r
<1>7. QED
  BY <1>2, <1>3, <1>4, <1>5, <1>6

\* A tail insertion is the insertion behind the last position.
LEMMA AppendShape ==
  ASSUME NEW S, NEW q \in Seq(S), NEW e \in S
  PROVE  /\ Append(q, e) \in Seq(S)
         /\ Len(Append(q, e)) = Len(q) + 1
         /\ DOMAIN Append(q, e) = 1..(Len(q) + 1)
         /\ \A k \in 1..(Len(q) + 1) :
              Append(q, e)[k] = IF k <= Len(q) THEN q[k] ELSE e
  OBVIOUS

LEMMA ConcatShape ==
  ASSUME NEW S, NEW q \in Seq(S), NEW t \in Seq(S)
  PROVE  /\ q \o t \in Seq(S)
         /\ Len(q \o t) = Len(q) + Len(t)
         /\ DOMAIN (q \o t) = 1..(Len(q) + Len(t))
         /\ \A k \in 1..(Len(q) + Len(t)) :
              (q \o t)[k] = IF k <= Len(q) THEN q[k] ELSE t[k - Len(q)]
  OBVIOUS

LEMMA TailShape ==
  ASSUME NEW S, NEW q \in Seq(S), q # <<>>
  PROVE  /\ Tail(q) \in Seq(S) /\ Head(q) = q[1] /\ 1 \in DOMAIN q
         /\ Len(Tail(q)) = Len(q) - 1 /\ Len(q) > 0
         /\ DOMAIN Tail(q) = 1..(Len(q) - 1) /\ DOMAIN q = 1..Len(q)
         /\ \A k \in 1..(Len(q) - 1) : Tail(q)[k] = q[k + 1]
  OBVIOUS

\* SetToSeq puts every element of a finite set into the sequence, once.
LEMMA SetToSeqShape ==
  ASSUME NEW S, IsFiniteSet(S), NEW q, q = SetToSeq(S)
  PROVE  /\ q \in Seq(S) /\ DOMAIN q = 1..Len(q)
         /\ \A k \in DOMAIN q : q[k] \in S
         /\ \A j, k \in DOMAIN q : q[j] = q[k] => j = k
         /\ \A x \in S : \E k \in DOMAIN q : q[k] = x
<1>1. PICK n \in Nat : n = Cardinality(S) /\ ExistsBijection(1..n, S)
  BY FS_CardinalityType
<1>2. \E f \in [1..n -> S] : IsInjective(f)
  BY <1>1 DEF ExistsBijection, Bijection, Injection
<1>3. q \in [1..n -> S] /\ IsInjective(q)
  BY <1>1, <1>2 DEF SetToSeq
<1>4. q \in Injection(1..n, S)
  BY <1>3 DEF Injection
<1>5. Cardinality(1..n) = n
  BY FS_Interval
<1>6. q \in Surjection(1..n, S)
  BY <1>1, <1>4, <1>5, FS_Injection
<1>7. q \in Seq(S) /\ DOMAIN q = 1..n /\ Len(q) = n
  BY <1>3
<1>8. QED
  BY <1>3, <1>6, <1>7 DEF IsInjective, Surjection
=============================================================================
