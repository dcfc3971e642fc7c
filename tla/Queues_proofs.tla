---------------------------- MODULE Queues_proofs ----------------------------
(* What appending, popping and withdrawing do to a queue without            *)
(* repetitions.                                                             *)
EXTENDS Queues, SequenceTheorems, TLAPS

\* Withdrawing a queued sender keeps the queue a sequence of calls.
LEMMA WithoutType ==
    ASSUME NEW S, NEW q \in Seq(S), NEW e
    PROVE  Without(q, e) \in Seq(S)
<1>1. CASE \E i \in 1..Len(q) : q[i] = e
  <2>1. PICK k \in 1..Len(q) : k = CHOOSE i \in 1..Len(q) : q[i] = e
    BY <1>1
  <2>4. SubSeq(q, 1, k-1) \in Seq(S) /\ SubSeq(q, k+1, Len(q)) \in Seq(S)
    <3>1. Len(q) \in Nat /\ \A i \in 1..Len(q) : q[i] \in S
      OBVIOUS
    <3>2. k-1 \in Int /\ k+1 \in Int /\ 1 \in Int /\ Len(q) \in Int
      BY <3>1, <2>1
    <3>3. \A i \in 1..(k-1) : q[i] \in S
      BY <3>1, <2>1
    <3>4. \A i \in (k+1)..Len(q) : q[i] \in S
      BY <3>1, <2>1
    <3> QED BY <3>2, <3>3, <3>4, SubSeqProperties
  <2>3. RemoveAt(q, k) \in Seq(S)
    BY <2>4, ConcatProperties DEF RemoveAt
  <2> QED BY <1>1, <2>1, <2>3 DEF Without
<1>2. CASE ~ \E i \in 1..Len(q) : q[i] = e
  BY <1>2 DEF Without
<1> QED BY <1>1, <1>2

\* An empty queue holds nobody.
LEMMA EmptyQueue == Distinct(<<>>) /\ \A c : ~InQueue(<<>>, c)
BY DEF Distinct, InQueue

\* Appending a newcomer keeps a queue free of repetitions.
LEMMA AppendQueue ==
    ASSUME NEW S, NEW q \in Seq(S), NEW c \in S,
           Distinct(q), ~InQueue(q, c)
    PROVE  /\ Distinct(Append(q, c))
           /\ \A d : InQueue(Append(q, c), d) <=> InQueue(q, d) \/ d = c
<1>1. /\ Len(Append(q, c)) = Len(q) + 1
      /\ \A i \in 1..Len(q) : Append(q, c)[i] = q[i]
      /\ Append(q, c)[Len(q) + 1] = c
      /\ Len(q) \in Nat
  BY AppendProperties
<1>2. \A i \in 1..(Len(q) + 1) : i \in 1..Len(q) \/ i = Len(q) + 1
  BY <1>1
<1>3. 1..Len(q) \subseteq 1..(Len(q) + 1) /\ Len(q) + 1 \in 1..(Len(q) + 1)
  BY <1>1
<1>4. Distinct(Append(q, c))
  BY <1>1, <1>2 DEF Distinct, InQueue
<1>5. \A d : InQueue(Append(q, c), d) <=> InQueue(q, d) \/ d = c
  BY <1>1, <1>2, <1>3 DEF InQueue
<1> QED BY <1>4, <1>5

\* Removing the first of a queue removes it and nobody else.
LEMMA TailQueue ==
    ASSUME NEW S, NEW q \in Seq(S), q # <<>>, Distinct(q)
    PROVE  /\ Head(q) \in S /\ InQueue(q, Head(q))
           /\ Distinct(Tail(q)) /\ Tail(q) \in Seq(S)
           /\ \A d : InQueue(Tail(q), d) <=> InQueue(q, d) /\ d # Head(q)
<1>1. /\ Head(q) = q[1] /\ Head(q) \in S /\ Tail(q) \in Seq(S)
      /\ Len(q) \in Nat /\ Len(q) > 0 /\ Len(Tail(q)) = Len(q) - 1
      /\ \A i \in 1..Len(Tail(q)) : Tail(q)[i] = q[i + 1]
  BY HeadTailProperties
<1>2. 1 \in 1..Len(q)
  BY <1>1
<1>3. \A i \in 1..Len(Tail(q)) : i + 1 \in 1..Len(q) /\ i + 1 # 1
  BY <1>1
<1>4. \A i \in 1..Len(q) : i # 1 => i - 1 \in 1..Len(Tail(q)) /\ (i - 1) + 1 = i
  BY <1>1
<1>5. Distinct(Tail(q))
  <2> SUFFICES ASSUME NEW i \in 1..Len(Tail(q)), NEW j \in 1..Len(Tail(q)),
                      Tail(q)[i] = Tail(q)[j]
               PROVE  i = j
    BY DEF Distinct
  <2>1. i + 1 = j + 1
    BY <1>1, <1>3 DEF Distinct
  <2> QED BY <2>1, <1>1
<1>6. ASSUME NEW d PROVE InQueue(Tail(q), d) <=> InQueue(q, d) /\ d # Head(q)
  <2>1. ASSUME InQueue(Tail(q), d) PROVE InQueue(q, d) /\ d # Head(q)
    <3>1. PICK i \in 1..Len(Tail(q)) : q[i + 1] = d
      BY <2>1, <1>1 DEF InQueue
    <3>2. i + 1 \in 1..Len(q) /\ i + 1 # 1
      BY <1>3
    <3> QED BY <3>1, <3>2, <1>1, <1>2 DEF InQueue, Distinct
  <2>2. ASSUME InQueue(q, d), d # Head(q) PROVE InQueue(Tail(q), d)
    <3>1. PICK i \in 1..Len(q) : q[i] = d
      BY <2>2 DEF InQueue
    <3>2. i - 1 \in 1..Len(Tail(q)) /\ (i - 1) + 1 = i
      BY <3>1, <2>2, <1>1, <1>4
    <3>3. Tail(q)[i - 1] = q[(i - 1) + 1]
      BY <3>2, <1>1
    <3> QED BY <3>1, <3>2, <3>3 DEF InQueue
  <2> QED BY <2>1, <2>2
<1> QED BY <1>1, <1>2, <1>5, <1>6 DEF InQueue

\* The place of each element after one place was removed.
LEMMA RemoveAtElements ==
    ASSUME NEW S, NEW q \in Seq(S), NEW k \in 1..Len(q)
    PROVE  /\ Len(RemoveAt(q, k)) = Len(q) - 1
           /\ \A i \in 1..(Len(q) - 1) :
                RemoveAt(q, k)[i] = IF i < k THEN q[i] ELSE q[i + 1]
<1> DEFINE a == SubSeq(q, 1, k - 1)
           b == SubSeq(q, k + 1, Len(q))
<1>1. Len(q) \in Nat /\ k \in 1..Len(q) /\ \A i \in 1..Len(q) : q[i] \in S
  OBVIOUS
<1>2. /\ a \in Seq(S) /\ Len(a) = k - 1
      /\ \A i \in 1..(k - 1) : a[i] = q[i]
  <2>1. 1 \in Int /\ k - 1 \in Int /\ \A i \in 1..(k - 1) : q[i] \in S
    BY <1>1
  <2>2. IF 1 <= k - 1 THEN Len(a) = k - 1 ELSE Len(a) = 0
    BY <2>1, SubSeqProperties
  <2>3. \A i \in 1..(k - 1) : a[i] = q[i]
    BY <2>1, SubSeqProperties
  <2> QED BY <1>1, <2>1, <2>2, <2>3, SubSeqProperties
<1>3. /\ b \in Seq(S) /\ Len(b) = Len(q) - k
      /\ \A i \in 1..(Len(q) - k) : b[i] = q[k + i]
  <2>1. k + 1 \in Int /\ Len(q) \in Int /\ \A i \in (k + 1)..Len(q) : q[i] \in S
    BY <1>1
  <2>2. b \in Seq(S) /\ Len(b) = Len(q) - k
    BY <1>1, <2>1, SubSeqProperties
  <2>3. \A i \in 1..(Len(q) - (k + 1) + 1) : b[i] = q[k + 1 + i - 1]
    BY <1>1, <2>1, SubSeqProperties
  <2>4. \A i \in 1..(Len(q) - k) :
           i \in 1..(Len(q) - (k + 1) + 1) /\ k + 1 + i - 1 = k + i
    BY <1>1
  <2> QED BY <2>2, <2>3, <2>4
<1>4. RemoveAt(q, k) = a \o b
  BY DEF RemoveAt
<1> HIDE DEF a, b
<1>5. /\ Len(a \o b) = Len(a) + Len(b)
      /\ \A i \in 1..(Len(a) + Len(b)) :
           (a \o b)[i] = IF i <= Len(a) THEN a[i] ELSE b[i - Len(a)]
  BY <1>2, <1>3, ConcatProperties
<1>6. ASSUME NEW i \in 1..(Len(q) - 1)
      PROVE  (a \o b)[i] = IF i < k THEN q[i] ELSE q[i + 1]
  <2>1. i \in 1..(Len(a) + Len(b))
    BY <1>1, <1>2, <1>3
  <2>2. CASE i < k
    BY <1>1, <1>2, <1>5, <2>1, <2>2
  <2>3. CASE ~(i < k)
    <3>1. ~(i <= Len(a)) /\ i - Len(a) \in 1..(Len(q) - k)
      BY <1>1, <1>2, <2>3
    <3>2. (a \o b)[i] = q[k + (i - Len(a))]
      BY <3>1, <1>3, <1>5, <2>1
    <3>3. k + (i - Len(a)) = i + 1
      BY <1>1, <1>2
    <3> QED BY <3>2, <3>3, <2>3
  <2> QED BY <2>2, <2>3
<1> QED BY <1>1, <1>2, <1>3, <1>4, <1>5, <1>6

\* Withdrawing a sender removes it and nobody else.
LEMMA WithoutQueue ==
    ASSUME NEW S, NEW q \in Seq(S), NEW c, Distinct(q)
    PROVE  /\ Distinct(Without(q, c))
           /\ \A d : InQueue(Without(q, c), d) <=> InQueue(q, d) /\ d # c
<1>1. CASE ~InQueue(q, c)
  BY <1>1 DEF Without, InQueue
<1>2. CASE InQueue(q, c)
  <2>1. PICK k \in 1..Len(q) : q[k] = c /\ Without(q, c) = RemoveAt(q, k)
    BY <1>2 DEF InQueue, Without
  <2> DEFINE w == RemoveAt(q, k)
  <2>2. /\ Len(q) \in Nat /\ Len(w) = Len(q) - 1
        /\ \A i \in 1..Len(w) : w[i] = IF i < k THEN q[i] ELSE q[i + 1]
    BY RemoveAtElements
  <2> HIDE DEF w
  <2>3. \A i \in 1..Len(w) : i \in 1..Len(q) /\ i + 1 \in 1..Len(q) /\ i # i + 1
    BY <2>2
  <2>4. \A i, j \in 1..Len(q) : q[i] = q[j] => i = j
    BY DEF Distinct
  <2>5. Distinct(w)
    <3> SUFFICES ASSUME NEW i \in 1..Len(w), NEW j \in 1..Len(w), w[i] = w[j]
                 PROVE  i = j
      BY DEF Distinct
    <3> QED BY <2>2, <2>3, <2>4
  <2>6. ASSUME NEW d PROVE InQueue(w, d) <=> InQueue(q, d) /\ d # c
    <3>1. ASSUME InQueue(w, d) PROVE InQueue(q, d) /\ d # c
      <4>1. PICK i \in 1..Len(w) : w[i] = d
        BY <3>1 DEF InQueue
      <4> QED BY <4>1, <2>1, <2>2, <2>3, <2>4 DEF InQueue
    <3>2. ASSUME InQueue(q, d), d # c PROVE InQueue(w, d)
      <4>1. PICK i \in 1..Len(q) : q[i] = d
        BY <3>2 DEF InQueue
      <4>2. CASE i < k
        <5>1. i \in 1..Len(w)
          BY <2>1, <2>2, <4>2
        <5> QED BY <4>1, <4>2, <5>1, <2>2 DEF InQueue
      <4>3. CASE i > k
        <5>1. i - 1 \in 1..Len(w) /\ ~(i - 1 < k) /\ (i - 1) + 1 = i
          BY <2>1, <2>2, <4>3
        <5> QED BY <4>1, <5>1, <2>2 DEF InQueue
      <4> QED BY <4>1, <4>2, <4>3, <3>2, <2>1, <2>2
    <3> QED BY <3>1, <3>2
  <2> QED BY <2>1, <2>5, <2>6 DEF w
<1> QED BY <1>1, <1>2

-----------------------------------------------------------------------------
(* Slots: k of them in a mailbox, l with an envelope, p with a permit out.   *)

\* None is free when all are counted.
LEMMA SlotSums ==
    ASSUME NEW k \in Nat, NEW l \in Nat, NEW p \in Nat
    PROVE  k - l - p = 0 <=> l + p = k
OBVIOUS

\* One slot is given back, by a pop or by a sender: m are buffered, n held.
LEMMA SlotsLess ==
    ASSUME NEW k \in Nat, NEW l \in Nat, NEW p \in Nat, l + p <= k,
           NEW m \in Nat, NEW n \in Nat, m + n + 1 = l + p
    PROVE  m + n <= k
OBVIOUS

\* And taken again, where all were taken.
LEMMA SlotsFull ==
    ASSUME NEW k \in Nat, NEW l \in Nat, NEW p \in Nat, l + p = k,
           NEW m \in Nat, NEW n \in Nat, m + n + 1 = l + p
    PROVE  m + (n + 1) <= k /\ k - m - (n + 1) = 0
OBVIOUS
=============================================================================
