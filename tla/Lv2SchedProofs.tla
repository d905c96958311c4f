--------------------------- MODULE Lv2SchedProofs ---------------------------
(***************************************************************************)
(* What the scheduler operators of Lv2Sched preserve, for any number of    *)
(* threads, hardware threads and priorities.                               *)
(***************************************************************************)
EXTENDS Lv2Sched, FiniteSetTheorems, TLAPS

-----------------------------------------------------------------------------
(***************************************************************************)
(* Queues                                                                  *)
(***************************************************************************)
\* Two sequences one after the other.
LEMMA ConcatIs ==
  ASSUME NEW S, NEW a \in Seq(S), NEW b \in Seq(S)
  PROVE  /\ a \o b \in Seq(S) /\ Len(a \o b) = Len(a) + Len(b)
         /\ \A j \in 1..(Len(a) + Len(b)) :
              (a \o b)[j] = IF j <= Len(a) THEN a[j] ELSE b[j - Len(a)]
<1>1. ASSUME NEW j \in 1..(Len(a) + Len(b))
      PROVE  (a \o b)[j] = IF j <= Len(a) THEN a[j] ELSE b[j - Len(a)]
  OBVIOUS
<1>2. a \o b \in Seq(S) /\ Len(a \o b) = Len(a) + Len(b)
  OBVIOUS
<1> QED
  BY <1>1, <1>2

\* The elements of a sequence are those at its positions.
LEMMA RangeElement ==
  ASSUME NEW S, NEW q \in Seq(S)
  PROVE  /\ Range(q) \subseteq S
         /\ \A i \in 1..Len(q) : q[i] \in Range(q)
         /\ \A x \in Range(q) : \E i \in 1..Len(q) : q[i] = x
  BY DEF Range

\* What Unlink returns.
LEMMA UnlinkProperties ==
  ASSUME NEW S, NEW q \in Seq(S), NEW i \in 1..Len(q)
  PROVE  /\ Unlink(q, i) \in Seq(S)
         /\ Len(Unlink(q, i)) = Len(q) - 1
         /\ \A j \in 1..(Len(q) - 1) :
              Unlink(q, i)[j] = IF j < i THEN q[j] ELSE q[j + 1]
<1>1. /\ Len(q) \in Nat
      /\ q \in [1..Len(q) -> S]
  OBVIOUS
<1> DEFINE a == SubSeq(q, 1, i - 1)
           b == SubSeq(q, i + 1, Len(q))
<1>2. /\ a \in Seq(S)
      /\ Len(a) = i - 1
      /\ \A j \in 1..(i - 1) : a[j] = q[j]
  <2>1. \A j \in 1..(i - 1) : q[j] \in S
    BY <1>1
  <2>2. /\ a \in Seq(S)
        /\ Len(a) = IF 1 <= i - 1 THEN (i - 1) - 1 + 1 ELSE 0
        /\ \A j \in 1..((i - 1) - 1 + 1) : a[j] = q[1 + j - 1]
    BY <1>1, <2>1
  <2> HIDE DEF a
  <2> QED
    BY <1>1, <2>2
<1>3. /\ b \in Seq(S)
      /\ Len(b) = Len(q) - i
      /\ \A j \in 1..(Len(q) - i) : b[j] = q[i + j]
  <2>1. \A j \in (i + 1)..Len(q) : q[j] \in S
    BY <1>1
  <2>2. /\ b \in Seq(S)
        /\ Len(b) = IF i + 1 <= Len(q) THEN Len(q) - (i + 1) + 1 ELSE 0
        /\ \A j \in 1..(Len(q) - (i + 1) + 1) : b[j] = q[(i + 1) + j - 1]
    BY <1>1, <2>1
  <2> HIDE DEF b
  <2>3. ASSUME NEW j \in 1..(Len(q) - i) PROVE b[j] = q[i + j]
    <3>1. j \in 1..(Len(q) - (i + 1) + 1) /\ (i + 1) + j - 1 = i + j
      BY <1>1
    <3> QED
      BY <2>2, <3>1
  <2>4. Len(b) = Len(q) - i
    <3>1. Len(b) = IF i + 1 <= Len(q) THEN Len(q) - (i + 1) + 1 ELSE 0
      BY <2>2
    <3>2. Len(q) \in Nat
      BY <1>1
    <3>3. CASE i + 1 <= Len(q)
      BY <3>1, <3>2, <3>3
    <3>4. CASE ~(i + 1 <= Len(q))
      BY <3>1, <3>2, <3>4
    <3> QED
      BY <3>3, <3>4
  <2> QED
    BY <2>2, <2>3, <2>4
<1>4. /\ a \o b \in Seq(S)
      /\ Len(a \o b) = Len(a) + Len(b)
      /\ \A j \in 1..(Len(a) + Len(b)) :
           (a \o b)[j] = IF j <= Len(a) THEN a[j] ELSE b[j - Len(a)]
  BY <1>2, <1>3, ConcatIs, Zenon
<1>5. Unlink(q, i) = a \o b
  BY DEF Unlink
<1> HIDE DEF a, b
<1>6. ASSUME NEW j \in 1..(Len(q) - 1)
      PROVE  (a \o b)[j] = IF j < i THEN q[j] ELSE q[j + 1]
  <2>1. CASE j < i
    BY <1>1, <1>2, <1>3, <1>4, <2>1
  <2>2. CASE ~(j < i)
    <3>1. j - (i - 1) \in 1..(Len(q) - i) /\ i + (j - (i - 1)) = j + 1
      BY <1>1, <2>2
    <3>2. b[j - (i - 1)] = q[j + 1]
      BY Zenon, <1>3, <3>1
    <3> QED
      BY <1>1, <1>2, <1>3, <1>4, <2>2, <3>2, SMTT(30)
  <2> QED
    BY Zenon, <2>1, <2>2
<1>7. Len(a \o b) = Len(q) - 1
  <2>1. Len(a \o b) = Len(a) + Len(b) /\ Len(a) = i - 1 /\ Len(b) = Len(q) - i
    BY <1>2, <1>3, <1>4
  <2> QED
    BY <1>1, <2>1
<1> QED
  BY <1>4, <1>5, <1>6, <1>7

\* What Link returns.
LEMMA LinkProperties ==
  ASSUME NEW S, NEW q \in Seq(S), NEW i \in 1..(Len(q) + 1), NEW e \in S
  PROVE  /\ Link(q, i, e) \in Seq(S)
         /\ Len(Link(q, i, e)) = Len(q) + 1
         /\ \A j \in 1..(Len(q) + 1) :
              Link(q, i, e)[j] = IF j < i THEN q[j]
                                     ELSE IF j = i THEN e ELSE q[j - 1]
<1>1. /\ Len(q) \in Nat
      /\ q \in [1..Len(q) -> S]
  OBVIOUS
<1> DEFINE a == SubSeq(q, 1, i - 1)
           b == SubSeq(q, i, Len(q))
<1>2. /\ a \in Seq(S)
      /\ Len(a) = i - 1
      /\ \A j \in 1..(i - 1) : a[j] = q[j]
  <2>1. \A j \in 1..(i - 1) : q[j] \in S
    BY <1>1
  <2>2. /\ a \in Seq(S)
        /\ Len(a) = IF 1 <= i - 1 THEN (i - 1) - 1 + 1 ELSE 0
        /\ \A j \in 1..((i - 1) - 1 + 1) : a[j] = q[1 + j - 1]
    BY <1>1, <2>1
  <2> HIDE DEF a
  <2> QED
    BY <1>1, <2>2
<1>3. /\ b \in Seq(S)
      /\ Len(b) = Len(q) - i + 1
      /\ \A j \in 1..(Len(q) - i + 1) : b[j] = q[i + j - 1]
  <2>1. \A j \in i..Len(q) : q[j] \in S
    BY <1>1
  <2>2. /\ b \in Seq(S)
        /\ Len(b) = IF i <= Len(q) THEN Len(q) - i + 1 ELSE 0
        /\ \A j \in 1..(Len(q) - i + 1) : b[j] = q[i + j - 1]
    BY <1>1, <2>1
  <2> HIDE DEF b
  <2> QED
    BY <1>1, <2>2
<1>4. /\ a \o <<e>> \in Seq(S)
      /\ Len(a \o <<e>>) = Len(a) + 1
      /\ \A j \in 1..(Len(a) + 1) :
           (a \o <<e>>)[j] = IF j <= Len(a) THEN a[j] ELSE e
  <2>1. /\ <<e>> \in Seq(S)
        /\ Len(<<e>>) = 1
        /\ <<e>>[1] = e
    OBVIOUS
  <2>2. /\ a \o <<e>> \in Seq(S)
        /\ Len(a \o <<e>>) = Len(a) + Len(<<e>>)
        /\ \A j \in 1..(Len(a) + Len(<<e>>)) :
             (a \o <<e>>)[j] = IF j <= Len(a) THEN a[j] ELSE <<e>>[j - Len(a)]
    BY <1>2, <2>1
  <2> HIDE DEF a
  <2> QED
    BY <1>1, <1>2, <2>1, <2>2
<1> DEFINE c == a \o <<e>>
<1> HIDE DEF a, b
<1>c. c \in Seq(S)
  BY <1>4
<1> HIDE DEF c
<1>5. /\ c \o b \in Seq(S)
      /\ Len(c \o b) = Len(c) + Len(b)
      /\ \A j \in 1..(Len(c) + Len(b)) :
           (c \o b)[j] = IF j <= Len(c) THEN c[j] ELSE b[j - Len(c)]
  BY <1>3, <1>c, ConcatIs, Zenon
<1>6. Link(q, i, e) = c \o b
  BY DEF Link, a, b, c
<1>7. /\ Len(c) = i
      /\ \A j \in 1..i : c[j] = IF j < i THEN q[j] ELSE e
  BY <1>1, <1>2, <1>4 DEF c
<1> QED
  BY <1>1, <1>3, <1>5, <1>6, <1>7

\* A non-empty set of natural numbers has a least element.
LEMMA LeastElement ==
  ASSUME NEW T \in SUBSET Nat, T # {}
  PROVE  \E m \in T : \A n \in T : m <= n
<1>1. IsWellFoundedOn(OpToRel(<, Nat), Nat)
  BY NatLessThanWellFounded, Zenon
<1>2. PICK x \in T : \A y \in T : ~ (<<y, x>> \in OpToRel(<, Nat))
  BY <1>1, WFMin, Zenon
<1>3. ASSUME NEW y \in T PROVE x <= y
  <2>1. ~ (<<y, x>> \in OpToRel(<, Nat))
    BY <1>2, Zenon
  <2>2. x \in Nat /\ y \in Nat
    OBVIOUS
  <2> QED
    BY <2>1, <2>2 DEF OpToRel
<1> QED
  BY <1>3

\* No thread is in q twice.
Distinct(q) == \A i, j \in 1..Len(q) : i < j => q[i] # q[j]

\* Taking a thread off a queue without duplicates removes exactly that thread,
\* moves no other thread backwards and keeps the order of the others.
LEMMA UnqueueProperties ==
  ASSUME NEW S, NEW q \in Seq(S), Distinct(q), NEW t
  PROVE  /\ Unqueue(q, t) \in Seq(S)
         /\ Range(Unqueue(q, t)) = Range(q) \ {t}
         /\ \A k \in 1..Len(q) : q[k] # t =>
              \E j \in 1..Len(Unqueue(q, t)) : j <= k /\ Unqueue(q, t)[j] = q[k]
         /\ \A i, j \in 1..Len(Unqueue(q, t)) : i < j =>
              \E k, l \in 1..Len(q) :
                k < l /\ Unqueue(q, t)[i] = q[k] /\ Unqueue(q, t)[j] = q[l]
<1>1. Len(q) \in Nat
  OBVIOUS
<1>2. CASE t \notin Range(q)
  <2>1. Unqueue(q, t) = q
    BY <1>2 DEF Unqueue
  <2>2. \A k \in 1..Len(q) : k <= k
    BY <1>1
  <2> QED
    BY <1>2, <2>1, <2>2
<1>3. CASE t \in Range(q)
  <2> DEFINE p == Pos(q, t)
             U == Unlink(q, p)
  <2>1. p \in 1..Len(q) /\ q[p] = t
    BY <1>3, RangeElement DEF Pos
  <2>2. Unqueue(q, t) = U
    BY <1>3 DEF Unqueue
  <2> HIDE DEF p
  <2>3. /\ U \in Seq(S)
        /\ Len(U) = Len(q) - 1
        /\ \A j \in 1..(Len(q) - 1) : U[j] = IF j < p THEN q[j] ELSE q[j + 1]
    BY <2>1, UnlinkProperties
  <2> HIDE DEF U
  <2>4. ASSUME NEW k \in 1..Len(q), q[k] # t
        PROVE  \E j \in 1..Len(U) : j <= k /\ U[j] = q[k]
    <3>1. CASE k < p
      <4>1. k \in 1..Len(U) /\ k \in 1..(Len(q) - 1) /\ k <= k
        BY <1>1, <2>1, <2>3, <3>1
      <4> QED
        BY <2>3, <3>1, <4>1
    <3>2. CASE k > p
      <4>1. /\ k - 1 \in 1..Len(U) /\ k - 1 \in 1..(Len(q) - 1) /\ k - 1 <= k
            /\ ~(k - 1 < p) /\ (k - 1) + 1 = k
        BY <1>1, <2>1, <2>3, <3>2
      <4> QED
        BY <2>3, <4>1
    <3> QED
      BY <1>1, <2>1, <2>4, <3>1, <3>2
  <2>5. ASSUME NEW j \in 1..Len(U)
        PROVE  \E k \in 1..Len(q) : k # p /\ U[j] = q[k] /\ (k = IF j < p THEN j ELSE j + 1)
    <3>1. j \in 1..(Len(q) - 1) /\ j \in 1..Len(q) /\ j + 1 \in 1..Len(q)
      BY <1>1, <2>3
    <3>2. CASE j < p
      BY <1>1, <2>1, <2>3, <3>1, <3>2
    <3>3. CASE ~(j < p)
      <4>1. j + 1 # p
        BY <1>1, <2>1, <3>1, <3>3
      <4> QED
        BY <2>3, <3>1, <3>3, <4>1
    <3> QED
      BY <3>2, <3>3
  <2>6. ASSUME NEW i \in 1..Len(U), NEW j \in 1..Len(U), i < j
        PROVE  \E k, l \in 1..Len(q) : k < l /\ U[i] = q[k] /\ U[j] = q[l]
    <3>1. PICK k \in 1..Len(q) : U[i] = q[k] /\ (k = IF i < p THEN i ELSE i + 1)
      BY <2>5
    <3>2. PICK l \in 1..Len(q) : U[j] = q[l] /\ (l = IF j < p THEN j ELSE j + 1)
      BY <2>5
    <3>3. k < l
      <4>1. i \in Nat /\ j \in Nat /\ p \in Nat /\ k \in Nat /\ l \in Nat
        BY <1>1, <2>1, <2>3
      <4> QED
        BY <2>6, <3>1, <3>2, <4>1
    <3> QED
      BY <3>1, <3>2, <3>3
  <2>7. Range(U) = Range(q) \ {t}
    <3>1. ASSUME NEW x \in Range(U) PROVE x \in Range(q) \ {t}
      <4>1. PICK j \in 1..Len(U) : U[j] = x
        BY <2>3, RangeElement
      <4>2. PICK k \in 1..Len(q) : k # p /\ x = q[k]
        BY <2>5, <4>1
      <4>3. q[k] # q[p]
        BY <1>1, <2>1, <4>2 DEF Distinct
      <4> QED
        BY <2>1, <4>2, <4>3, RangeElement
    <3>2. ASSUME NEW x \in Range(q), x # t PROVE x \in Range(U)
      <4>1. PICK k \in 1..Len(q) : q[k] = x
        BY RangeElement
      <4> QED
        BY Zenon, <2>3, <2>4, <3>2, <4>1, RangeElement
    <3> QED
      BY <3>1, <3>2
  <2> QED
    BY <2>2, <2>3, <2>4, <2>6, <2>7
<1> QED
  BY <1>2, <1>3

\* q holds each of its threads once, most urgent first.
Ordered(q, prio) ==
  \A i, j \in 1..Len(q) : i < j => q[i] # q[j] /\ prio[q[i]] <= prio[q[j]]

\* A queue stays ordered when a thread is taken off.
LEMMA UnqueueOrdered ==
  ASSUME NEW q \in Seq(Thread), NEW prio \in [Thread -> Int], Ordered(q, prio), NEW t
  PROVE  Ordered(Unqueue(q, t), prio)
<1>1. Distinct(q)
  BY DEF Distinct, Ordered
<1>2. SUFFICES ASSUME NEW i \in 1..Len(Unqueue(q, t)), NEW j \in 1..Len(Unqueue(q, t)),
                      i < j
               PROVE  /\ Unqueue(q, t)[i] # Unqueue(q, t)[j]
                      /\ prio[Unqueue(q, t)[i]] <= prio[Unqueue(q, t)[j]]
  BY DEF Ordered
<1>3. PICK k \in 1..Len(q), l \in 1..Len(q) :
        k < l /\ Unqueue(q, t)[i] = q[k] /\ Unqueue(q, t)[j] = q[l]
  BY <1>1, <1>2, UnqueueProperties
<1> QED
  BY Zenon, <1>3 DEF Ordered

\* A queue stays ordered when a new thread is put between those that are at
\* least as urgent and those that are at most as urgent.
LEMMA InsertOrdered ==
  ASSUME NEW q \in Seq(Thread), NEW prio \in [Thread -> Int], Ordered(q, prio),
         NEW t \in Thread \ Range(q), NEW i \in 1..(Len(q) + 1),
         \A j \in 1..Len(q) : j < i => prio[q[j]] <= prio[t],
         \A j \in 1..Len(q) : i <= j => prio[t] <= prio[q[j]]
  PROVE  /\ Link(q, i, t) \in Seq(Thread)
         /\ Len(Link(q, i, t)) = Len(q) + 1
         /\ Range(Link(q, i, t)) = Range(q) \cup {t}
         /\ Ordered(Link(q, i, t), prio)
<1> DEFINE r == Link(q, i, t)
<1> HIDE DEF r
<1>1. Len(q) \in Nat
  OBVIOUS
<1>2. /\ r \in Seq(Thread)
      /\ Len(r) = Len(q) + 1
      /\ \A j \in 1..(Len(q) + 1) :
           r[j] = IF j < i THEN q[j] ELSE IF j = i THEN t ELSE q[j - 1]
  <2>1. ASSUME NEW u \in Thread
        PROVE  /\ Link(q, i, u) \in Seq(Thread)
               /\ Len(Link(q, i, u)) = Len(q) + 1
               /\ \A j \in 1..(Len(q) + 1) :
                    Link(q, i, u)[j]
                      = IF j < i THEN q[j] ELSE IF j = i THEN u ELSE q[j - 1]
    BY LinkProperties
  <2> QED
    BY <2>1 DEF r
<1>3. \A j \in 1..Len(q) : q[j] \in Thread /\ q[j] # t /\ q[j] \in Range(q)
  BY RangeElement
<1>4. ASSUME NEW j \in 1..Len(r)
      PROVE  \/ j < i /\ j \in 1..Len(q) /\ r[j] = q[j]
             \/ j = i /\ r[j] = t
             \/ j > i /\ j - 1 \in 1..Len(q) /\ r[j] = q[j - 1]
  BY <1>1, <1>2
<1>5. Range(r) = Range(q) \cup {t}
  <2>1. ASSUME NEW x \in Range(r) PROVE x \in Range(q) \cup {t}
    <3>1. PICK j \in 1..Len(r) : r[j] = x
      BY <1>2, RangeElement
    <3> QED
      BY Zenon, <1>3, <1>4, <3>1
  <2>2. ASSUME NEW x \in Range(q) PROVE x \in Range(r)
    <3>1. PICK j \in 1..Len(q) : q[j] = x
      BY RangeElement
    <3>2. CASE j < i
      <4>1. j \in 1..(Len(q) + 1) /\ j \in 1..Len(r)
        BY <1>1, <1>2
      <4>2. r[j] = x
        BY <1>2, <3>1, <3>2, <4>1, SMTT(30)
      <4> QED
        BY Zenon, <1>2, <4>1, <4>2, RangeElement
    <3>3. CASE ~(j < i)
      <4>1. /\ j + 1 \in 1..(Len(q) + 1) /\ j + 1 \in 1..Len(r)
            /\ ~(j + 1 < i) /\ j + 1 # i /\ (j + 1) - 1 = j
        BY <1>1, <1>2, <3>3, SMTT(30)
      <4>2. r[j + 1] = x
        <5>1. r[j + 1] = q[(j + 1) - 1]
          BY Zenon, <1>2, <4>1
        <5> QED
          BY <3>1, <4>1, <5>1
      <4> QED
        BY Zenon, <1>2, <4>1, <4>2, RangeElement
    <3> QED
      BY <3>2, <3>3
  <2>3. t \in Range(r)
    <3>1. i \in 1..Len(r) /\ ~(i < i)
      BY <1>1, <1>2
    <3>2. r[i] = t
      BY <1>1, <1>2, <3>1
    <3> QED
      BY <1>2, <3>1, <3>2, RangeElement
  <2> QED
    BY <2>1, <2>2, <2>3
<1>6. ASSUME NEW k \in 1..Len(r), NEW l \in 1..Len(r), k < l
      PROVE  r[k] # r[l] /\ prio[r[k]] <= prio[r[l]]
  <2>1. k \in Nat /\ l \in Nat /\ i \in Nat
    BY <1>1, <1>2
  <2>2. CASE k < i
    <3>1. k \in 1..Len(q) /\ r[k] = q[k]
      BY <1>4, <2>1, <2>2, SMTT(30)
    <3>2. CASE l = i
      <4>1. r[l] = t
        BY <1>4, <2>1, <3>2
      <4> QED
        BY <1>3, <2>2, <3>1, <4>1
    <3>3. CASE l < i
      BY <1>4, <1>6, <2>1, <3>1, <3>3, SMTT(30) DEF Ordered
    <3>4. CASE l > i
      <4>1. l - 1 \in 1..Len(q) /\ r[l] = q[l - 1] /\ k < l - 1
        BY <1>4, <2>1, <2>2, <3>4, SMTT(30)
      <4> QED
        BY <3>1, <4>1, SMTT(30) DEF Ordered
    <3> QED
      BY <2>1, <3>2, <3>3, <3>4
  <2>3. CASE k = i
    <3>1. l - 1 \in 1..Len(q) /\ r[l] = q[l - 1] /\ i <= l - 1 /\ r[k] = t
      BY <1>4, <1>6, <2>1, <2>3
    <3> QED
      BY <1>3, <3>1, SMTT(30)
  <2>4. CASE k > i
    <3>1. /\ k - 1 \in 1..Len(q) /\ r[k] = q[k - 1]
          /\ l - 1 \in 1..Len(q) /\ r[l] = q[l - 1] /\ k - 1 < l - 1
      BY <1>4, <1>6, <2>1, <2>4
    <3> QED
      BY Zenon, <3>1 DEF Ordered
  <2> QED
    BY <2>1, <2>2, <2>3, <2>4
<1> QED
  BY <1>2, <1>5, <1>6 DEF r, Ordered

-----------------------------------------------------------------------------
(***************************************************************************)
(* The scheduler state                                                     *)
(***************************************************************************)
\* What every scheduler operation preserves.
Core(s) ==
  /\ s \in SchedType
  /\ Ordered(s.g_ppu, s.prio)
  /\ s.g_pending = Cardinality(s.ack_suspend)
  /\ s.ack_suspend \subseteq s.suspend
  /\ s.signal \subseteq Range(s.g_ppu)
  /\ s.waiting \cap (Range(s.g_ppu) \cup s.notify) = {}

\* Queued threads that are not suspended have a hardware thread.
OnProc(s) == Range(s.g_ppu) \ s.suspend \subseteq Running(s)

\* No hardware thread is kept idle.
NoIdle(s) == s.ready /\ s.g_pending = 0 => Running(s) \cap s.suspend = {}

\* u may execute guest code.
Guest(s, u) ==
  /\ u \in Range(s.g_ppu)
  /\ u \notin s.signal \cup s.notify
  /\ u \in s.suspend => u \in s.ack_suspend

\* u is on the run queue, or suspended.
Held(s, u) == u \in Range(s.g_ppu) \cup s.suspend

\* What no scheduler call touches: the flags of the stop protocol, the state of
\* check_state, and that a thread is held.
Frame(s, r) ==
  /\ r.stop = s.stop /\ r.again = s.again /\ r.cpu_sleep = s.cpu_sleep
  /\ \A u \in Thread : Held(s, u) => Held(r, u)

\* The threads are finitely many, so the flags count.
LEMMA FlagsFinite ==
  ASSUME NEW A \in SUBSET Thread
  PROVE  IsFiniteSet(A) /\ Cardinality(A) \in Nat
  BY SchedAssumption, FS_Subset, FS_CardinalityType

\* An acknowledgement takes one request back.
LEMMA AckSuspendCore ==
  ASSUME NEW s, Core(s), NEW c
  PROVE  /\ Core(AckSuspend(s, c))
         /\ OnProc(s) => OnProc(AckSuspend(s, c))
         /\ Frame(s, AckSuspend(s, c))
         /\ Range(AckSuspend(s, c).g_ppu) = Range(s.g_ppu)
         /\ c \notin AckSuspend(s, c).ack_suspend
         /\ AckSuspend(s, c).notify = s.notify
         /\ AckSuspend(s, c).signal = s.signal
         /\ \A u \in Thread \ {c} : Guest(s, u) => Guest(AckSuspend(s, c), u)
<1>1. CASE c \notin s.ack_suspend
  BY <1>1 DEF AckSuspend, Frame
<1>2. CASE c \in s.ack_suspend
  <2> DEFINE r == AckSuspend(s, c)
             a == s.ack_suspend \ {c}
  <2>1. r = [s EXCEPT !.ack_suspend = a, !.g_pending = s.g_pending - 1]
    BY <1>2 DEF AckSuspend, Core, SchedType
  <2>2. Cardinality(a) = s.g_pending - 1 /\ a \subseteq Thread /\ Cardinality(a) \in Nat
    <3>1. s.ack_suspend \in SUBSET Thread
      BY DEF Core, SchedType
    <3>2. IsFiniteSet(s.ack_suspend) /\ IsFiniteSet(a) /\ Cardinality(a) \in Nat
      BY <3>1, FlagsFinite
    <3> QED
      BY <1>2, <3>1, <3>2, FS_RemoveElement DEF Core
  <2> HIDE DEF r, a
  <2>3. /\ r \in SchedType
        /\ r.ack_suspend = a /\ r.g_pending = s.g_pending - 1
        /\ r.g_ppu = s.g_ppu /\ r.prio = s.prio /\ r.suspend = s.suspend
        /\ r.signal = s.signal /\ r.notify = s.notify /\ r.waiting = s.waiting
        /\ r.stop = s.stop /\ r.again = s.again /\ r.cpu_sleep = s.cpu_sleep
    BY Zenon, <2>1, <2>2 DEF Core, SchedType
  <2>4. Core(r)
    BY <2>2, <2>3 DEF Core, a
  <2>5. Frame(s, r) /\ (OnProc(s) => OnProc(r))
    BY <2>3 DEF Frame, Held, OnProc, Running
  <2>6. \A u \in Thread \ {c} : Guest(s, u) => Guest(r, u)
    BY <2>3 DEF Guest, a
  <2> QED
    BY <2>3, <2>4, <2>5, <2>6 DEF r, a
<1> QED
  BY <1>1, <1>2

\* The threads beyond the hardware threads are suspended and each owes an
\* acknowledgement, so afterwards only threads with a hardware thread run.
LEMMA SuspendExcessCore ==
  ASSUME NEW s, Core(s)
  PROVE  /\ Core(SuspendExcess(s))
         /\ OnProc(SuspendExcess(s))
         /\ Frame(s, SuspendExcess(s))
         /\ SuspendExcess(s).g_ppu = s.g_ppu
         /\ \A u \in Thread : Guest(s, u) => Guest(SuspendExcess(s), u)
<1> DEFINE r == SuspendExcess(s)
           x == {s.g_ppu[i] : i \in (ppu_threads + 1)..Len(s.g_ppu)} \ s.suspend
<1>0. /\ ppu_threads \in Nat /\ s.g_ppu \in Seq(Thread) /\ Len(s.g_ppu) \in Nat
      /\ s.ack_suspend \in SUBSET Thread /\ s.suspend \in SUBSET Thread
      /\ s.g_pending \in Nat
  BY SchedAssumption DEF Core, SchedType
<1>1. r = [s EXCEPT !.ack_suspend = s.ack_suspend \cup x,
                    !.g_pending = s.g_pending + Cardinality(x),
                    !.suspend = s.suspend \cup x]
  BY DEF SuspendExcess, Core, SchedType
<1>2. x \subseteq Range(s.g_ppu) /\ x \subseteq Thread /\ x \cap s.suspend = {}
  <2>1. ASSUME NEW i \in (ppu_threads + 1)..Len(s.g_ppu)
        PROVE  s.g_ppu[i] \in Range(s.g_ppu) /\ s.g_ppu[i] \in Thread
    <3>1. i \in 1..Len(s.g_ppu)
      BY <1>0
    <3> QED
      BY <1>0, <3>1, RangeElement
  <2> QED
    BY <2>1
<1>3. /\ Cardinality(s.ack_suspend \cup x) = s.g_pending + Cardinality(x)
      /\ Cardinality(x) \in Nat
  <2>1. /\ IsFiniteSet(s.ack_suspend) /\ IsFiniteSet(x)
        /\ Cardinality(x) \in Nat /\ Cardinality(s.ack_suspend) \in Nat
    BY <1>0, <1>2, FlagsFinite
  <2>2. s.ack_suspend \cap x = {}
    BY <1>2 DEF Core
  <2>3. Cardinality(s.ack_suspend \cup x)
          = Cardinality(s.ack_suspend) + Cardinality(x) - Cardinality(s.ack_suspend \cap x)
    BY <2>1, FS_Union
  <2>4. Cardinality(s.ack_suspend \cap x) = 0
    BY Zenon, <2>2, FS_EmptySet
  <2> HIDE DEF x
  <2> QED
    BY <2>1, <2>3, <2>4 DEF Core
<1> HIDE DEF r
<1>4. ASSUME NEW i \in 1..Len(s.g_ppu), s.g_ppu[i] \notin s.suspend \cup x
      PROVE  s.g_ppu[i] \in Running(s)
  <2>1. i <= ppu_threads
    <3>1. ~(i \in (ppu_threads + 1)..Len(s.g_ppu))
      BY <1>4
    <3> QED
      BY <1>0, <3>1
  <2>2. i \in 1..(IF Len(s.g_ppu) < ppu_threads THEN Len(s.g_ppu) ELSE ppu_threads)
    BY <1>0, <2>1
  <2> QED
    BY <2>2 DEF Running
<1> HIDE DEF x
<1>5. /\ r \in SchedType
      /\ r.ack_suspend = s.ack_suspend \cup x
      /\ r.g_pending = s.g_pending + Cardinality(x)
      /\ r.suspend = s.suspend \cup x
      /\ r.g_ppu = s.g_ppu /\ r.prio = s.prio
      /\ r.signal = s.signal /\ r.notify = s.notify /\ r.waiting = s.waiting
      /\ r.stop = s.stop /\ r.again = s.again /\ r.cpu_sleep = s.cpu_sleep
  <2> DEFINE n == s.g_pending + Cardinality(x)
             a == s.ack_suspend \cup x
             b == s.suspend \cup x
  <2>1. n \in Nat /\ a \in SUBSET Thread /\ b \in SUBSET Thread
    BY <1>0, <1>2, <1>3
  <2>2. r = [s EXCEPT !.ack_suspend = a, !.g_pending = n, !.suspend = b]
    BY <1>1
  <2> HIDE DEF n, a, b
  <2>3. /\ r \in SchedType
        /\ r.ack_suspend = a /\ r.g_pending = n /\ r.suspend = b
        /\ r.g_ppu = s.g_ppu /\ r.prio = s.prio
        /\ r.signal = s.signal /\ r.notify = s.notify /\ r.waiting = s.waiting
        /\ r.stop = s.stop /\ r.again = s.again /\ r.cpu_sleep = s.cpu_sleep
    BY Zenon, <2>1, <2>2 DEF Core, SchedType
  <2> QED
    BY <2>3 DEF n, a, b
<1>6. Core(r)
  BY <1>3, <1>5 DEF Core
<1>7. OnProc(r)
  <2>1. Running(r) = Running(s)
    BY <1>5 DEF Running
  <2> QED
    BY <1>0, <1>4, <1>5, <2>1, RangeElement DEF OnProc
<1>8. Frame(s, r)
  BY <1>5 DEF Frame, Held
<1>9. \A u \in Thread : Guest(s, u) => Guest(r, u)
  BY <1>5 DEF Guest
<1> QED
  BY <1>5, <1>6, <1>7, <1>8, <1>9 DEF r

\* The second half of awake.
LEMMA AwakeUnlockedCore ==
  ASSUME NEW s, Core(s), NEW c
  PROVE  /\ Core(AwakeUnlocked(s, c))
         /\ OnProc(AwakeUnlocked(s, c))
         /\ Frame(s, AwakeUnlocked(s, c))
         /\ Range(AwakeUnlocked(s, c).g_ppu) = Range(s.g_ppu)
         /\ \A u \in Thread \ {c} : Guest(s, u) => Guest(AwakeUnlocked(s, c), u)
<1> DEFINE r == SuspendExcess(s)
<1>1. /\ Core(r) /\ OnProc(r) /\ Frame(s, r) /\ r.g_ppu = s.g_ppu
      /\ \A u \in Thread : Guest(s, u) => Guest(r, u)
  BY SuspendExcessCore
<1> HIDE DEF r
<1>2. /\ Core(AckSuspend(r, c))
      /\ OnProc(AckSuspend(r, c))
      /\ Frame(r, AckSuspend(r, c))
      /\ Range(AckSuspend(r, c).g_ppu) = Range(r.g_ppu)
      /\ \A u \in Thread \ {c} : Guest(r, u) => Guest(AckSuspend(r, c), u)
  BY <1>1, AckSuspendCore
<1>3. Frame(s, AckSuspend(r, c))
  BY <1>1, <1>2 DEF Frame
<1> QED
  BY <1>1, <1>2, <1>3 DEF AwakeUnlocked, r

\* schedule_all hands out the free hardware threads and leaves no thread in guest
\* code signaled or notified.
LEMMA ScheduleAllCore ==
  ASSUME NEW s, Core(s), OnProc(s), NEW c, NEW late \in SUBSET Thread
  PROVE  /\ Core(ScheduleAll(s, c, late))
         /\ OnProc(ScheduleAll(s, c, late))
         /\ NoIdle(ScheduleAll(s, c, late))
         /\ Frame(s, ScheduleAll(s, c, late))
         /\ ScheduleAll(s, c, late).g_ppu = s.g_ppu
         /\ ScheduleAll(s, c, late).ack_suspend = s.ack_suspend
         /\ \A u \in Thread : Guest(s, u) => Guest(ScheduleAll(s, c, late), u)
<1> DEFINE w == WakeUp(s)
           wake == IF s.g_pending = 0 /\ s.ready THEN Running(s) \cap s.suspend ELSE {}
           r == ScheduleAll(s, c, late)
<1>0. /\ ppu_threads \in Nat /\ s.g_ppu \in Seq(Thread) /\ Len(s.g_ppu) \in Nat
      /\ s.ack_suspend \in SUBSET Thread /\ s.suspend \in SUBSET Thread
      /\ s.waiting \in SUBSET Thread /\ s.notify \in SUBSET Thread
  BY SchedAssumption DEF Core, SchedType
<1>1. Running(s) \subseteq Range(s.g_ppu) /\ Running(s) \subseteq Thread
  <2>1. ASSUME NEW i \in 1..(IF Len(s.g_ppu) < ppu_threads THEN Len(s.g_ppu) ELSE ppu_threads)
        PROVE  s.g_ppu[i] \in Range(s.g_ppu) /\ s.g_ppu[i] \in Thread
    <3>1. i \in 1..Len(s.g_ppu)
      BY <1>0
    <3> QED
      BY <1>0, <3>1, RangeElement
  <2> QED
    BY <2>1 DEF Running
<1>2. wake # {} => s.ack_suspend = {} /\ s.g_pending = 0 /\ s.ready
  <2>1. Cardinality(s.ack_suspend) = 0 => s.ack_suspend = {}
    BY <1>0, FlagsFinite, FS_EmptySet
  <2> QED
    BY <2>1 DEF Core
<1>3. wake \subseteq Running(s) /\ wake \subseteq s.suspend
  OBVIOUS
<1>4. s.g_pending = 0 /\ s.ready => wake = Running(s) \cap s.suspend
  OBVIOUS
<1>5. /\ w \in SchedType
      /\ w.signal = s.signal \cup wake
      /\ w.suspend = s.suspend \ wake
      /\ w.g_ppu = s.g_ppu /\ w.prio = s.prio /\ w.ack_suspend = s.ack_suspend
      /\ w.g_pending = s.g_pending /\ w.ready = s.ready
      /\ w.notify = s.notify /\ w.waiting = s.waiting
      /\ w.stop = s.stop /\ w.again = s.again /\ w.cpu_sleep = s.cpu_sleep
  <2>1. CASE s.g_pending = 0 /\ s.ready
    <3>1. w = [s EXCEPT !.signal = s.signal \cup wake, !.suspend = s.suspend \ wake]
      BY <2>1 DEF WakeUp, Core, SchedType
    <3> HIDE DEF w, wake
    <3> QED
      BY Zenon, <1>1, <1>3, <3>1 DEF Core, SchedType
  <2>2. CASE ~(s.g_pending = 0 /\ s.ready)
    BY <2>2 DEF WakeUp, Core
  <2> QED
    BY <2>1, <2>2
<1>6. r = [w EXCEPT !.waiting = s.waiting \ late,
                    !.notify = s.notify \cup ((late \cap s.waiting) \ {c})]
  BY <1>5 DEF ScheduleAll, SchedType
<1> HIDE DEF w, wake, r
<1>7. /\ r \in SchedType
      /\ r.signal = s.signal \cup wake
      /\ r.suspend = s.suspend \ wake
      /\ r.waiting = s.waiting \ late
      /\ r.notify = s.notify \cup ((late \cap s.waiting) \ {c})
      /\ r.g_ppu = s.g_ppu /\ r.prio = s.prio /\ r.ack_suspend = s.ack_suspend
      /\ r.g_pending = s.g_pending /\ r.ready = s.ready
      /\ r.stop = s.stop /\ r.again = s.again /\ r.cpu_sleep = s.cpu_sleep
  BY Zenon, <1>0, <1>5, <1>6 DEF SchedType
<1>8. Running(r) = Running(s)
  BY <1>7 DEF Running
<1>9. Core(r)
  <2>1. r.ack_suspend \subseteq r.suspend
    BY <1>2, <1>7 DEF Core
  <2>2. r.signal \subseteq Range(r.g_ppu)
    BY <1>1, <1>3, <1>7 DEF Core
  <2>3. r.waiting \cap (Range(r.g_ppu) \cup r.notify) = {}
    BY <1>7 DEF Core
  <2> QED
    BY <1>7, <2>1, <2>2, <2>3, SMTT(30) DEF Core
<1>10. OnProc(r)
  BY <1>3, <1>7, <1>8 DEF OnProc
<1>11. NoIdle(r)
  BY <1>4, <1>7, <1>8 DEF NoIdle
<1>12. Frame(s, r)
  BY <1>1, <1>3, <1>7 DEF Frame, Held
<1>13. \A u \in Thread : Guest(s, u) => Guest(r, u)
  BY <1>2, <1>3, <1>7 DEF Guest, Core
<1> QED
  BY <1>7, <1>9, <1>10, <1>11, <1>12, <1>13 DEF r

\* Membership in the first ppu_threads positions.
LEMMA RunningElement ==
  ASSUME NEW s, Core(s)
  PROVE  /\ \A i \in 1..Len(s.g_ppu) : i <= ppu_threads => s.g_ppu[i] \in Running(s)
         /\ \A u \in Running(s) : \E i \in 1..Len(s.g_ppu) : i <= ppu_threads /\ s.g_ppu[i] = u
<1>1. ppu_threads \in Nat /\ Len(s.g_ppu) \in Nat
  BY SchedAssumption DEF Core, SchedType
<1>2. ASSUME NEW i \in 1..Len(s.g_ppu), i <= ppu_threads PROVE s.g_ppu[i] \in Running(s)
  <2>1. i \in 1..(IF Len(s.g_ppu) < ppu_threads THEN Len(s.g_ppu) ELSE ppu_threads)
    BY <1>1, <1>2
  <2> QED
    BY <2>1 DEF Running
<1>3. ASSUME NEW u \in Running(s)
      PROVE  \E i \in 1..Len(s.g_ppu) : i <= ppu_threads /\ s.g_ppu[i] = u
  <2>1. PICK i \in 1..(IF Len(s.g_ppu) < ppu_threads THEN Len(s.g_ppu) ELSE ppu_threads) :
          u = s.g_ppu[i]
    BY DEF Running
  <2>2. i \in 1..Len(s.g_ppu) /\ i <= ppu_threads
    BY <1>1
  <2> QED
    BY <2>1, <2>2
<1> QED
  BY <1>2, <1>3

\* A thread without a signal leaves the run queue and becomes suspended; its
\* timeout is registered only if it was queued.
LEMMA TakeOffCore ==
  ASSUME NEW s, Core(s), OnProc(s), NEW t \in Thread, t \notin s.signal \cup s.notify,
         NEW timeout \in BOOLEAN
  PROVE  /\ Core(TakeOff(s, t, timeout))
         /\ OnProc(TakeOff(s, t, timeout))
         /\ Frame(s, TakeOff(s, t, timeout))
         /\ Range(TakeOff(s, t, timeout).g_ppu) = Range(s.g_ppu) \ {t}
         /\ TakeOff(s, t, timeout).ack_suspend = s.ack_suspend
         /\ \A u \in Thread \ {t} : Guest(s, u) => Guest(TakeOff(s, t, timeout), u)
<1> DEFINE r == TakeOff(s, t, timeout)
           q == s.g_ppu
           U == Unqueue(q, t)
           c == [s.cancel_sleep EXCEPT ![t] = 0]
           w == IF t \in Range(q) /\ timeout THEN s.waiting \cup {t} ELSE s.waiting
           b == s.suspend \cup {t}
<1>0. q \in Seq(Thread) /\ s.prio \in [Thread -> Int] /\ Len(q) \in Nat
  BY SMTT(30) DEF Core, SchedType
<1>1. /\ U \in Seq(Thread)
      /\ Range(U) = Range(q) \ {t}
      /\ \A k \in 1..Len(q) : q[k] # t => \E j \in 1..Len(U) : j <= k /\ U[j] = q[k]
  <2>1. Distinct(q)
    BY DEF Core, Ordered, Distinct
  <2> QED
    BY SMTT(30), <1>0, <2>1, UnqueueProperties
<1>2. Ordered(U, s.prio)
  BY <1>0, UnqueueOrdered DEF Core
<1>3. r = [s EXCEPT !.cancel_sleep = c, !.suspend = b, !.g_ppu = U, !.waiting = w]
  BY DEF TakeOff, Core, SchedType
<1>4. c \in [Thread -> 0..2] /\ w \in SUBSET Thread /\ b \in SUBSET Thread
  <2>1. s.cancel_sleep \in [Thread -> 0..2] /\ 0 \in 0..2
    BY DEF Core, SchedType
  <2> QED
    BY <2>1 DEF Core, SchedType
<1>5. w \subseteq s.waiting \cup {t}
  OBVIOUS
<1> HIDE DEF r, U, c, w, b
<1>6. /\ r \in SchedType
      /\ r.suspend = b /\ r.g_ppu = U /\ r.waiting = w
      /\ r.ack_suspend = s.ack_suspend /\ r.g_pending = s.g_pending /\ r.prio = s.prio
      /\ r.signal = s.signal /\ r.notify = s.notify
      /\ r.stop = s.stop /\ r.again = s.again /\ r.cpu_sleep = s.cpu_sleep
  BY Zenon, <1>1, <1>3, <1>4 DEF Core, SchedType
<1>7. Core(r)
  <2>1. r.ack_suspend \subseteq r.suspend
    BY <1>6 DEF Core, b
  <2>2. r.signal \subseteq Range(r.g_ppu)
    BY <1>1, <1>6 DEF Core
  <2>3. r.waiting \cap (Range(r.g_ppu) \cup r.notify) = {}
    BY <1>1, <1>5, <1>6 DEF Core
  <2> QED
    BY <1>2, <1>6, <2>1, <2>2, <2>3 DEF Core
<1>8. OnProc(r)
  <2>1. SUFFICES ASSUME NEW u \in Range(q), u # t, u \notin s.suspend
                 PROVE  u \in Running(r)
    BY <1>1, <1>6 DEF OnProc, b
  <2>2. PICK k \in 1..Len(q) : k <= ppu_threads /\ q[k] = u
    BY <2>1, RunningElement DEF OnProc
  <2>3. PICK j \in 1..Len(U) : j <= k /\ U[j] = u
    BY <1>1, <2>1, <2>2
  <2>4. j <= ppu_threads
    <3>1. ppu_threads \in Nat /\ Len(U) \in Nat
      BY <1>1, SchedAssumption
    <3> QED
      BY <1>0, <2>2, <2>3, <3>1
  <2> QED
    BY <1>6, <1>7, <2>3, <2>4, RunningElement
<1>9. Frame(s, r)
  BY <1>1, <1>6 DEF Frame, Held, b
<1>10. \A u \in Thread \ {t} : Guest(s, u) => Guest(r, u)
  BY <1>1, <1>6 DEF Guest, b
<1> QED
  BY <1>1, <1>6, <1>7, <1>8, <1>9, <1>10 DEF r, q

\* sleep, called by a thread in guest code.
LEMMA SleepCore ==
  ASSUME NEW s, Core(s), OnProc(s), NEW t \in Thread, Guest(s, t),
         NEW timeout \in BOOLEAN, NEW late \in SUBSET Thread
  PROVE  /\ Core(Sleep(s, t, timeout, late))
         /\ OnProc(Sleep(s, t, timeout, late))
         /\ NoIdle(Sleep(s, t, timeout, late))
         /\ Frame(s, Sleep(s, t, timeout, late))
         /\ Range(Sleep(s, t, timeout, late).g_ppu) = Range(s.g_ppu) \ {t}
         /\ t \notin Sleep(s, t, timeout, late).ack_suspend
         /\ \A u \in Thread \ {t} : Guest(s, u) => Guest(Sleep(s, t, timeout, late), u)
<1> DEFINE a == AckSuspend(s, t)
           b == TakeOff(a, t, timeout)
           r == ScheduleAll(b, t, late)
<1>1. /\ Core(a) /\ OnProc(a) /\ Frame(s, a)
      /\ Range(a.g_ppu) = Range(s.g_ppu)
      /\ t \notin a.ack_suspend
      /\ a.notify = s.notify /\ a.signal = s.signal
      /\ \A u \in Thread \ {t} : Guest(s, u) => Guest(a, u)
  BY Zenon, AckSuspendCore
<1>2. t \notin a.signal \cup a.notify
  BY <1>1 DEF Guest
<1> HIDE DEF a
<1>3. /\ Core(b) /\ OnProc(b) /\ Frame(a, b)
      /\ Range(b.g_ppu) = Range(a.g_ppu) \ {t}
      /\ b.ack_suspend = a.ack_suspend
      /\ \A u \in Thread \ {t} : Guest(a, u) => Guest(b, u)
  BY <1>1, <1>2, TakeOffCore, ZenonT(40)
<1> HIDE DEF b
<1>4. /\ Core(r) /\ OnProc(r) /\ NoIdle(r) /\ Frame(b, r)
      /\ r.g_ppu = b.g_ppu /\ r.ack_suspend = b.ack_suspend
      /\ \A u \in Thread : Guest(b, u) => Guest(r, u)
  BY <1>3, ScheduleAllCore
<1>5. r = Sleep(s, t, timeout, late)
  BY DEF Sleep, SleepUnlocked, a, b
<1> HIDE DEF r
<1>6. Frame(s, r)
  BY Zenon, <1>1, <1>3, <1>4 DEF Frame
<1> QED
  BY Zenon, <1>1, <1>3, <1>4, <1>5, <1>6

\* Where emplace_thread stops in an ordered queue: every earlier thread is another
\* one and at least as urgent, every later one is less urgent unless it is t.
LEMMA EmplacePosProperties ==
  ASSUME NEW s \in SchedType, Ordered(s.g_ppu, s.prio), NEW t \in Thread
  PROVE  /\ EmplacePos(s, t) \in 1..(Len(s.g_ppu) + 1)
         /\ \A j \in 1..Len(s.g_ppu) : j < EmplacePos(s, t) =>
              s.g_ppu[j] # t /\ s.prio[s.g_ppu[j]] <= s.prio[t]
         /\ EmplacePos(s, t) \in 1..Len(s.g_ppu) =>
              \/ s.g_ppu[EmplacePos(s, t)] = t
              \/ /\ t \notin Range(s.g_ppu)
                 /\ \A j \in 1..Len(s.g_ppu) : EmplacePos(s, t) <= j =>
                      s.prio[t] <= s.prio[s.g_ppu[j]]
<1> DEFINE q == s.g_ppu
           prio == s.prio
           stops == {i \in 1..Len(q) : q[i] = t \/ prio[q[i]] > prio[t]}
           p == EmplacePos(s, t)
<1>0. q \in Seq(Thread) /\ prio \in [Thread -> Int] /\ Len(q) \in Nat
  BY DEF SchedType
<1>1. \A j \in 1..Len(q) : q[j] \in Thread /\ prio[q[j]] \in Int
  BY <1>0, RangeElement
<1>2. prio[t] \in Int
  BY <1>0
<1>3. CASE stops = {}
  <2>1. p = Len(q) + 1
    BY Zenon, <1>3 DEF EmplacePos
  <2> HIDE DEF p
  <2>2. p \in 1..(Len(q) + 1) /\ ~(p \in 1..Len(q))
    BY <1>0, <2>1
  <2>3. ASSUME NEW j \in 1..Len(q) PROVE q[j] # t /\ prio[q[j]] <= prio[t]
    <3>1. ~(q[j] = t \/ prio[q[j]] > prio[t])
      BY <1>3
    <3> HIDE DEF q, prio
    <3> QED
      BY <1>1, <1>2, <3>1
  <2> QED
    BY <2>2, <2>3 DEF p
<1>4. CASE stops # {}
  <2>1. PICK m \in stops : \A n \in stops : m <= n
    <3>1. stops \in SUBSET Nat
      BY <1>0
    <3> HIDE DEF stops
    <3> QED
      BY <1>4, <3>1, LeastElement
  <2>2. p = CHOOSE i \in stops : \A j \in stops : i <= j
    BY Zenon, <1>4 DEF EmplacePos
  <2>3. p \in stops /\ \A j \in stops : p <= j
    <3> HIDE DEF stops, p
    <3> QED
      BY <2>1, <2>2, SMTT(30)
  <2> HIDE DEF p
  <2>4. p \in 1..Len(q) /\ (q[p] = t \/ prio[q[p]] > prio[t])
    BY <2>3
  <2>5. ASSUME NEW j \in 1..Len(q), j < p PROVE q[j] # t /\ prio[q[j]] <= prio[t]
    <3>1. j \notin stops
      <4> HIDE DEF stops
      <4> QED
        BY <1>0, <2>3, <2>4, <2>5, SMTT(30)
    <3>2. ~(q[j] = t \/ prio[q[j]] > prio[t])
      BY <3>1
    <3> HIDE DEF q, prio
    <3> QED
      BY <1>1, <1>2, <3>2
  <2>6. CASE q[p] # t
    <3>1. prio[q[p]] > prio[t]
      BY <2>4, <2>6, SMTT(30)
    <3>2. ASSUME NEW j \in 1..Len(q), p <= j PROVE prio[t] < prio[q[j]]
      <4>1. prio[q[p]] <= prio[q[j]]
        <5>1. CASE p = j
          <6> HIDE DEF q, prio
          <6> QED
            BY <1>1, <2>4, <5>1, SMTT(30)
        <5>2. CASE p < j
          BY <2>4, <5>2 DEF Ordered
        <5> QED
          BY <1>0, <2>4, <3>2, <5>1, <5>2, SMTT(30)
      <4> HIDE DEF q, prio
      <4> QED
        BY <1>1, <1>2, <2>4, <3>1, <4>1, SMTT(30)
    <3>3. t \notin Range(q)
      <4>1. SUFFICES ASSUME NEW j \in 1..Len(q), q[j] = t PROVE FALSE
        BY Zenon, <1>0, RangeElement
      <4>2. p <= j
        BY <1>0, <2>4, <2>5, <4>1, SMTT(30)
      <4>3. prio[t] < prio[q[j]]
        BY <3>2, <4>1, <4>2
      <4>4. prio[t] < prio[t]
        BY <4>1, <4>3
      <4> HIDE DEF prio
      <4> QED
        BY <1>2, <4>4
    <3>4. \A j \in 1..Len(q) : p <= j => prio[t] <= prio[q[j]]
      <4> HIDE DEF q, prio
      <4> QED
        BY <1>1, <1>2, <3>2
    <3>5. p \in 1..(Len(q) + 1)
      BY <1>0, <2>4
    <3> QED
      BY Zenon, <2>4, <2>5, <3>3, <3>4, <3>5 DEF p
  <2>7. CASE q[p] = t
    <3>5. p \in 1..(Len(q) + 1)
      BY <1>0, <2>4
    <3> QED
      BY <2>4, <2>5, <2>7, <3>5 DEF p
  <2> QED
    BY Zenon, <2>6, <2>7
<1> QED
  BY Zenon, <1>3, <1>4

\* emplace_thread puts a thread on the run queue once, in its place, and
\* forgets its timeout.
LEMMA EmplaceEffect ==
  ASSUME NEW s \in SchedType, Ordered(s.g_ppu, s.prio), NEW t \in Thread
  PROVE  /\ Emplace(s, t) \in SchedType
         /\ Ordered(Emplace(s, t).g_ppu, Emplace(s, t).prio)
         /\ Range(Emplace(s, t).g_ppu) = Range(s.g_ppu) \cup {t}
         /\ Emplace(s, t).waiting = IF t \in Range(s.g_ppu) THEN s.waiting
                                    ELSE s.waiting \ {t}
         /\ Emplace(s, t).prio = s.prio
         /\ Emplace(s, t).suspend = s.suspend
         /\ Emplace(s, t).ack_suspend = s.ack_suspend
         /\ Emplace(s, t).g_pending = s.g_pending
         /\ Emplace(s, t).signal = s.signal
         /\ Emplace(s, t).notify = s.notify
         /\ Emplace(s, t).stop = s.stop
         /\ Emplace(s, t).again = s.again
         /\ Emplace(s, t).cpu_sleep = s.cpu_sleep
<1> DEFINE q == s.g_ppu
           p == EmplacePos(s, t)
           e == Emplace(s, t)
<1>0. q \in Seq(Thread) /\ s.prio \in [Thread -> Int] /\ Len(q) \in Nat
  BY SMTT(30) DEF SchedType
<1>1. /\ p \in 1..(Len(q) + 1)
      /\ \A j \in 1..Len(q) : j < p => q[j] # t /\ s.prio[q[j]] <= s.prio[t]
      /\ p \in 1..Len(q) =>
           \/ q[p] = t
           \/ /\ t \notin Range(q)
              /\ \A j \in 1..Len(q) : p <= j => s.prio[t] <= s.prio[q[j]]
  BY EmplacePosProperties
<1>2. p <= Len(q) <=> p \in 1..Len(q)
  BY <1>0, <1>1
<1>3. CASE p <= Len(q) /\ q[p] = t
  <2> DEFINE c == [s.cancel_sleep EXCEPT ![t] = IF @ = 1 THEN 2 ELSE @]
  <2>1. e = [s EXCEPT !.cancel_sleep = c]
    BY <1>3 DEF Emplace, SchedType
  <2>2. c \in [Thread -> 0..2]
    <3>1. s.cancel_sleep \in [Thread -> 0..2] /\ 2 \in 0..2
      BY DEF SchedType
    <3> QED
      BY <3>1
  <2> HIDE DEF c, e
  <2>3. /\ e \in SchedType
        /\ e.g_ppu = q /\ e.waiting = s.waiting
        /\ e.prio = s.prio /\ e.suspend = s.suspend
        /\ e.ack_suspend = s.ack_suspend /\ e.g_pending = s.g_pending
        /\ e.signal = s.signal /\ e.notify = s.notify
        /\ e.stop = s.stop /\ e.again = s.again /\ e.cpu_sleep = s.cpu_sleep
    BY Zenon, <2>1, <2>2 DEF SchedType
  <2>4. t \in Range(q)
    BY <1>0, <1>2, <1>3, RangeElement, SMTT(30)
  <2> QED
    BY Zenon, <2>3, <2>4 DEF e
<1>4. CASE ~(p <= Len(q) /\ q[p] = t)
  <2> DEFINE r == Link(q, p, t)
             w == s.waiting \ {t}
  <2>1. e = [s EXCEPT !.g_ppu = r, !.waiting = w]
    BY <1>4 DEF Emplace, SchedType
  <2>2. t \notin Range(q) /\ \A j \in 1..Len(q) : p <= j => s.prio[t] <= s.prio[q[j]]
    <3>1. CASE p \in 1..Len(q)
      BY <1>1, <1>2, <1>4, <3>1
    <3>2. CASE ~(p \in 1..Len(q))
      <4>1. \A j \in 1..Len(q) : j < p
        BY <1>0, <1>1, <3>2
      <4>2. \A j \in 1..Len(q) : ~(p <= j)
        BY <1>0, <1>1, <3>2
      <4> QED
        BY Zenon, <1>0, <1>1, <4>1, <4>2, RangeElement
    <3> QED
      BY <3>1, <3>2
  <2>3. /\ r \in Seq(Thread)
        /\ Range(r) = Range(q) \cup {t}
        /\ Ordered(r, s.prio)
    <3>1. t \in Thread \ Range(q)
      BY <2>2
    <3>2. \A j \in 1..Len(q) : j < p => s.prio[q[j]] <= s.prio[t]
      BY <1>1
    <3> HIDE DEF p
    <3> QED
      BY Zenon, <1>0, <1>1, <2>2, <3>1, <3>2, InsertOrdered
  <2> HIDE DEF r, e
  <2>4. /\ e \in SchedType
        /\ e.g_ppu = r /\ e.waiting = w
        /\ e.prio = s.prio /\ e.suspend = s.suspend
        /\ e.ack_suspend = s.ack_suspend /\ e.g_pending = s.g_pending
        /\ e.signal = s.signal /\ e.notify = s.notify
        /\ e.stop = s.stop /\ e.again = s.again /\ e.cpu_sleep = s.cpu_sleep
    BY Zenon, <2>1, <2>3 DEF SchedType
  <2> QED
    BY <2>2, <2>3, <2>4 DEF e
<1> QED
  BY Zenon, <1>3, <1>4

\* Emplacing any thread, queued or not, keeps the scheduler consistent.
LEMMA EmplaceCore ==
  ASSUME NEW s, Core(s), NEW t \in Thread
  PROVE  /\ Core(Emplace(s, t))
         /\ Frame(s, Emplace(s, t))
         /\ Range(Emplace(s, t).g_ppu) = Range(s.g_ppu) \cup {t}
         /\ \A u \in Thread : Guest(s, u) => Guest(Emplace(s, t), u)
<1> DEFINE e == Emplace(s, t)
<1>0. s \in SchedType /\ Ordered(s.g_ppu, s.prio)
  BY DEF Core
<1>1. /\ e \in SchedType
      /\ Ordered(e.g_ppu, e.prio)
      /\ Range(e.g_ppu) = Range(s.g_ppu) \cup {t}
      /\ e.waiting = IF t \in Range(s.g_ppu) THEN s.waiting ELSE s.waiting \ {t}
      /\ e.prio = s.prio /\ e.suspend = s.suspend
      /\ e.ack_suspend = s.ack_suspend /\ e.g_pending = s.g_pending
      /\ e.signal = s.signal /\ e.notify = s.notify
      /\ e.stop = s.stop /\ e.again = s.again /\ e.cpu_sleep = s.cpu_sleep
  BY <1>0, EmplaceEffect, Zenon
<1> HIDE DEF e
<1>2. Core(e)
  BY <1>1 DEF Core
<1>3. Frame(s, e)
  BY <1>1 DEF Frame, Held
<1>4. \A u \in Thread : Guest(s, u) => Guest(e, u)
  BY <1>1 DEF Guest
<1> QED
  BY Zenon, <1>1, <1>2, <1>3, <1>4 DEF e

\* From any consistent state, the rest of a scheduler call.
LEMMA AwakeTailCore ==
  ASSUME NEW s, Core(s), NEW c, NEW late \in SUBSET Thread
  PROVE  /\ Core(ScheduleAll(AwakeUnlocked(s, c), c, late))
         /\ OnProc(ScheduleAll(AwakeUnlocked(s, c), c, late))
         /\ NoIdle(ScheduleAll(AwakeUnlocked(s, c), c, late))
         /\ Frame(s, ScheduleAll(AwakeUnlocked(s, c), c, late))
         /\ Range(ScheduleAll(AwakeUnlocked(s, c), c, late).g_ppu) = Range(s.g_ppu)
         /\ \A u \in Thread \ {c} :
              Guest(s, u) => Guest(ScheduleAll(AwakeUnlocked(s, c), c, late), u)
<1> DEFINE a == AwakeUnlocked(s, c)
           r == ScheduleAll(a, c, late)
<1>1. /\ Core(a) /\ OnProc(a) /\ Frame(s, a) /\ Range(a.g_ppu) = Range(s.g_ppu)
      /\ \A u \in Thread \ {c} : Guest(s, u) => Guest(a, u)
  BY AwakeUnlockedCore
<1> HIDE DEF a
<1>2. /\ Core(r) /\ OnProc(r) /\ NoIdle(r) /\ Frame(a, r) /\ r.g_ppu = a.g_ppu
      /\ \A u \in Thread : Guest(a, u) => Guest(r, u)
  BY <1>1, ScheduleAllCore
<1> HIDE DEF r
<1>3. Frame(s, r)
  BY <1>1, <1>2 DEF Frame
<1> QED
  BY <1>1, <1>2, <1>3 DEF a, r

\* awake of one thread.
LEMMA AwakeCore ==
  ASSUME NEW s, Core(s), NEW c, NEW t \in Thread, NEW late \in SUBSET Thread
  PROVE  /\ Core(Awake(s, c, t, late))
         /\ OnProc(Awake(s, c, t, late))
         /\ NoIdle(Awake(s, c, t, late))
         /\ Frame(s, Awake(s, c, t, late))
         /\ Range(Awake(s, c, t, late).g_ppu) = Range(s.g_ppu) \cup {t}
         /\ \A u \in Thread \ {c} : Guest(s, u) => Guest(Awake(s, c, t, late), u)
<1> DEFINE e == Emplace(s, t)
           r == ScheduleAll(AwakeUnlocked(e, c), c, late)
<1>1. /\ Core(e) /\ Frame(s, e) /\ Range(e.g_ppu) = Range(s.g_ppu) \cup {t}
      /\ \A u \in Thread : Guest(s, u) => Guest(e, u)
  BY EmplaceCore
<1> HIDE DEF e
<1>2. /\ Core(r) /\ OnProc(r) /\ NoIdle(r) /\ Frame(e, r)
      /\ Range(r.g_ppu) = Range(e.g_ppu)
      /\ \A u \in Thread \ {c} : Guest(e, u) => Guest(r, u)
  BY <1>1, AwakeTailCore
<1>3. r = Awake(s, c, t, late)
  BY DEF Awake, e
<1> HIDE DEF r
<1>4. Frame(s, r)
  BY <1>1, <1>2 DEF Frame
<1> QED
  BY <1>1, <1>2, <1>3, <1>4

-----------------------------------------------------------------------------
(***************************************************************************)
(* awake_all: the threads of a list are emplaced one after the other.  The *)
(* recursive function of EmplaceAll is shown to exist, and what holds      *)
(* after every element is shown, by taking a least counterexample.         *)
(***************************************************************************)
\* f[i] is the scheduler state after the first i threads of the list.
Emplaces(s, list, n, f) ==
  f = [i \in 0..n |-> IF i = 0 THEN s ELSE Emplace(f[i - 1], list[i])]

\* One thread more.
LEMMA EmplacesNext ==
  ASSUME NEW s, NEW list, NEW n \in Nat, NEW f, Emplaces(s, list, n, f)
  PROVE  \E g : Emplaces(s, list, n + 1, g)
<1> DEFINE g == [i \in 0..(n + 1) |-> IF i <= n THEN f[i] ELSE Emplace(f[n], list[n + 1])]
           h == [i \in 0..(n + 1) |-> IF i = 0 THEN s ELSE Emplace(g[i - 1], list[i])]
<1>1. ASSUME NEW i \in 0..n PROVE f[i] = IF i = 0 THEN s ELSE Emplace(f[i - 1], list[i])
  BY DEF Emplaces
<1>2. ASSUME NEW i \in 0..(n + 1) PROVE g[i] = h[i]
  <2>1. CASE i = 0
    BY <2>1, <1>1
  <2>2. CASE i # 0 /\ i <= n
    <3>1. i \in 0..n /\ i - 1 \in 0..(n + 1) /\ i - 1 <= n
      BY <2>2
    <3>2. g[i] = f[i] /\ g[i - 1] = f[i - 1]
      BY <2>2, <3>1
    <3> QED
      BY <2>2, <3>1, <3>2, <1>1
  <2>3. CASE i = n + 1
    <3>1. i - 1 = n /\ n \in 0..(n + 1) /\ i # 0 /\ ~(i <= n)
      BY <2>3
    <3>2. g[n] = f[n] /\ g[i] = Emplace(f[n], list[n + 1])
      BY <2>3, <3>1
    <3> QED
      BY <2>3, <3>1, <3>2
  <2> QED
    BY <2>1, <2>2, <2>3
<1>3. g = h
  BY Zenon, <1>2
<1> QED
  BY Zenon, <1>3 DEF Emplaces

\* So the function exists for every list.
LEMMA EmplacesExists ==
  ASSUME NEW s, NEW list, NEW n \in Nat
  PROVE  \E f : Emplaces(s, list, n, f)
<1> DEFINE T == {k \in Nat : ~ \E f : Emplaces(s, list, k, f)}
<1>1. \E f : Emplaces(s, list, 0, f)
  <2> DEFINE f == [i \in 0..0 |-> s]
             g == [i \in 0..0 |-> IF i = 0 THEN s ELSE Emplace(f[i - 1], list[i])]
  <2>1. \A i \in 0..0 : i = 0
    OBVIOUS
  <2>2. f = g
    BY <2>1
  <2> QED
    BY Zenon, <2>2 DEF Emplaces
<1>2. ASSUME T # {} PROVE FALSE
  <2>1. T \in SUBSET Nat
    OBVIOUS
  <2>2. PICK m \in T : \A k \in T : m <= k
    BY <1>2, <2>1, LeastElement, Zenon
  <2>3. m \in Nat /\ m # 0
    BY Zenon, <1>1, <2>2
  <2>4. m - 1 \in Nat /\ (m - 1) + 1 = m /\ ~(m <= m - 1)
    BY <2>3
  <2>5. m - 1 \notin T
    BY <2>2, <2>4
  <2>6. PICK f : Emplaces(s, list, m - 1, f)
    BY Zenon, <2>4, <2>5
  <2>7. \E g : Emplaces(s, list, (m - 1) + 1, g)
    BY <2>4, <2>6, EmplacesNext
  <2>8. \E g : Emplaces(s, list, m, g)
    BY <2>4, <2>7
  <2> QED
    BY Zenon, <2>2, <2>8
<1> QED
  BY Zenon, <1>2

\* What a run of emplace_thread over a list keeps.
EmplacedBy(s, r, list, n) ==
  /\ Core(r) /\ Frame(s, r)
  /\ Range(r.g_ppu) = Range(s.g_ppu) \cup {list[i] : i \in 1..n}
  /\ \A u \in Thread : Guest(s, u) => Guest(r, u)

\* One more thread of the list is put on the run queue.
LEMMA EmplacedNext ==
  ASSUME NEW s, NEW r, NEW list, NEW n \in Nat, EmplacedBy(s, r, list, n),
         list[n + 1] \in Thread
  PROVE  EmplacedBy(s, Emplace(r, list[n + 1]), list, n + 1)
<1> DEFINE t == list[n + 1]
           e == Emplace(r, t)
<1>1. /\ Core(e) /\ Frame(r, e) /\ Range(e.g_ppu) = Range(r.g_ppu) \cup {t}
      /\ \A u \in Thread : Guest(r, u) => Guest(e, u)
  BY EmplaceCore, Zenon DEF EmplacedBy
<1>2. {list[i] : i \in 1..n} \cup {t} = {list[i] : i \in 1..(n + 1)}
  <2>1. \A i \in 1..(n + 1) : i \in 1..n \/ i = n + 1
    OBVIOUS
  <2>2. \A i \in 1..n : i \in 1..(n + 1)
    OBVIOUS
  <2>3. n + 1 \in 1..(n + 1)
    OBVIOUS
  <2> QED
    BY <2>1, <2>2, <2>3
<1> HIDE DEF e, t
<1>3. Frame(s, e)
  BY <1>1 DEF Frame, EmplacedBy
<1>4. Range(e.g_ppu) = Range(s.g_ppu) \cup {list[i] : i \in 1..(n + 1)}
  <2>1. Range(e.g_ppu) = Range(s.g_ppu) \cup ({list[i] : i \in 1..n} \cup {t})
    BY <1>1 DEF EmplacedBy
  <2> QED
    BY <1>2, <2>1
<1>5. EmplacedBy(s, e, list, n + 1)
  BY <1>1, <1>3, <1>4, SMTT(30) DEF EmplacedBy
<1> QED
  BY <1>5 DEF e, t

\* The list of awake_all, emplaced.
LEMMA EmplaceAllCore ==
  ASSUME NEW s, Core(s), NEW list \in Seq(Thread)
  PROVE  /\ Core(EmplaceAll(s, list))
         /\ Frame(s, EmplaceAll(s, list))
         /\ Range(EmplaceAll(s, list).g_ppu) = Range(s.g_ppu) \cup Range(list)
         /\ \A u \in Thread : Guest(s, u) => Guest(EmplaceAll(s, list), u)
<1> DEFINE N == Len(list)
           f == CHOOSE g : Emplaces(s, list, N, g)
           T == {k \in Nat : k <= N /\ ~EmplacedBy(s, f[k], list, k)}
<1>0. N \in Nat /\ \A i \in 1..N : list[i] \in Thread
  OBVIOUS
<1>1. Emplaces(s, list, N, f)
  BY Zenon, <1>0, EmplacesExists
<1>2. f[N] = EmplaceAll(s, list)
  BY Zenon DEF EmplaceAll, Emplaces
<1> HIDE DEF f
<1>3. \A i \in 0..N : f[i] = IF i = 0 THEN s ELSE Emplace(f[i - 1], list[i])
  BY <1>1 DEF Emplaces
<1>4. EmplacedBy(s, f[0], list, 0)
  <2>1. f[0] = s
    BY <1>0, <1>3
  <2>2. {list[i] : i \in 1..0} = {}
    OBVIOUS
  <2>3. Frame(s, s)
    BY DEF Frame
  <2> QED
    BY <2>1, <2>2, <2>3 DEF EmplacedBy
<1>5. ASSUME T # {} PROVE FALSE
  <2>1. T \in SUBSET Nat
    OBVIOUS
  <2>2. PICK m \in T : \A k \in T : m <= k
    BY <1>5, <2>1, LeastElement, Zenon
  <2>3. m \in Nat /\ m <= N /\ ~EmplacedBy(s, f[m], list, m)
    BY <2>2
  <2>4. m # 0
    BY <1>4, <2>3
  <2>5. m - 1 \in Nat /\ (m - 1) + 1 = m /\ ~(m <= m - 1) /\ m - 1 <= N /\ m \in 0..N /\ m \in 1..N
    BY <1>0, <2>3, <2>4
  <2>6. EmplacedBy(s, f[m - 1], list, m - 1)
    BY Zenon, <2>2, <2>5
  <2>7. EmplacedBy(s, Emplace(f[m - 1], list[(m - 1) + 1]), list, (m - 1) + 1)
    <3>1. list[(m - 1) + 1] \in Thread
      BY <1>0, <2>5
    <3> QED
      BY <2>5, <2>6, <3>1, EmplacedNext
  <2>8. f[m] = Emplace(f[m - 1], list[m])
    BY <1>3, <2>4, <2>5
  <2> QED
    BY <2>3, <2>5, <2>7, <2>8
<1>6. EmplacedBy(s, f[N], list, N)
  <2>1. N \notin T
    BY <1>5
  <2> QED
    BY <1>0, <2>1
<1>7. Range(list) = {list[i] : i \in 1..N}
  BY DEF Range
<1> QED
  BY <1>2, <1>6, <1>7 DEF EmplacedBy

\* awake_all.
LEMMA AwakeAllCore ==
  ASSUME NEW s, Core(s), NEW c, NEW list \in Seq(Thread), NEW late \in SUBSET Thread
  PROVE  /\ Core(AwakeAll(s, c, list, late))
         /\ OnProc(AwakeAll(s, c, list, late))
         /\ NoIdle(AwakeAll(s, c, list, late))
         /\ Frame(s, AwakeAll(s, c, list, late))
         /\ Range(AwakeAll(s, c, list, late).g_ppu) = Range(s.g_ppu) \cup Range(list)
         /\ \A u \in Thread \ {c} :
              Guest(s, u) => Guest(AwakeAll(s, c, list, late), u)
<1> DEFINE e == EmplaceAll(s, list)
           r == ScheduleAll(AwakeUnlocked(e, c), c, late)
<1>1. /\ Core(e) /\ Frame(s, e) /\ Range(e.g_ppu) = Range(s.g_ppu) \cup Range(list)
      /\ \A u \in Thread : Guest(s, u) => Guest(e, u)
  BY EmplaceAllCore, SMTT(30)
<1> HIDE DEF e
<1>2. /\ Core(r) /\ OnProc(r) /\ NoIdle(r) /\ Frame(e, r)
      /\ Range(r.g_ppu) = Range(e.g_ppu)
      /\ \A u \in Thread \ {c} : Guest(e, u) => Guest(r, u)
  BY <1>1, AwakeTailCore
<1>3. r = AwakeAll(s, c, list, late)
  BY DEF AwakeAll, e
<1> HIDE DEF r
<1>4. Frame(s, r)
  BY <1>1, <1>2, SMTT(30) DEF Frame
<1> QED
  BY <1>1, <1>2, <1>3, <1>4, SMTT(30)

-----------------------------------------------------------------------------
(***************************************************************************)
(* Where the threads of a kernel object stand, as far as the scheduler is  *)
(* concerned.  G are the threads that execute guest code or a system call, *)
(* X those that have exited, A those that sleep and must not be on the run *)
(* queue, C those in check_state.                                          *)
(***************************************************************************)
Placed(s, G, X, A, C) ==
  /\ Core(s) /\ OnProc(s)
  /\ \A u \in G : Guest(s, u)
  /\ \A u \in Thread \ X : Held(s, u)
  /\ A \cap Range(s.g_ppu) = {}
  /\ \A u \in Thread \ C : s.cpu_sleep[u] = "no"

\* The sets may be weakened.
LEMMA PlacedWeaken ==
  ASSUME NEW s, NEW G, NEW X, NEW A, NEW C, Placed(s, G, X, A, C),
         NEW GG \in SUBSET G, NEW XX, X \subseteq XX, NEW AA \in SUBSET A, NEW CC, C \subseteq CC
  PROVE  Placed(s, GG, XX, AA, CC)
  BY SMTT(30) DEF Placed

\* A change of the flags that only their own thread looks at, and of the stop
\* protocol.
LEMMA PlacedFlags ==
  ASSUME NEW s, NEW r \in SchedType, NEW G \in SUBSET Thread, NEW X, NEW A, NEW C, Placed(s, G, X, A, C),
         r.g_ppu = s.g_ppu, r.waiting = s.waiting, r.prio = s.prio,
         r.ack_suspend = s.ack_suspend, r.g_pending = s.g_pending,
         r.suspend = s.suspend, r.signal \subseteq s.signal, r.notify \subseteq s.notify,
         r.cpu_sleep = s.cpu_sleep
  PROVE  Placed(r, G, X, A, C)
<1>1. Core(r)
  BY SMTT(30) DEF Placed, Core
<1>2. OnProc(r)
  BY DEF Placed, OnProc, Running
<1>3. \A u \in G : Guest(r, u)
  BY DEF Placed, Guest
<1>4. \A u \in Thread \ X : Held(r, u)
  BY DEF Placed, Held
<1> QED
  BY <1>1, <1>2, <1>3, <1>4, SMTT(30) DEF Placed

\* A thread consumes its signal.
LEMMA PlacedSignal ==
  ASSUME NEW s, NEW G \in SUBSET Thread, NEW X, NEW A, NEW C, Placed(s, G, X, A, C), NEW t
  PROVE  /\ Placed([s EXCEPT !.signal = @ \ {t}], G, X, A, C)
         /\ [s EXCEPT !.signal = @ \ {t}].stop = s.stop
         /\ [s EXCEPT !.signal = @ \ {t}].again = s.again
<1> DEFINE r == [s EXCEPT !.signal = @ \ {t}]
<1>0. s \in SchedType
  BY DEF Placed, Core
<1>1. s.signal \ {t} \in SUBSET Thread
  BY <1>0 DEF SchedType
<1>2. /\ r \in SchedType
      /\ r.g_ppu = s.g_ppu /\ r.waiting = s.waiting /\ r.prio = s.prio
      /\ r.ack_suspend = s.ack_suspend /\ r.g_pending = s.g_pending
      /\ r.suspend = s.suspend /\ r.signal = s.signal \ {t} /\ r.notify = s.notify
      /\ r.cpu_sleep = s.cpu_sleep /\ r.stop = s.stop /\ r.again = s.again
  BY Zenon, <1>0, <1>1 DEF SchedType
<1> HIDE DEF r
<1>3. Placed(r, G, X, A, C)
  BY <1>2, PlacedFlags
<1> QED
  BY <1>2, <1>3 DEF r

\* A thread is told to stop.
LEMMA PlacedStop ==
  ASSUME NEW s, NEW G \in SUBSET Thread, NEW X, NEW A, NEW C, Placed(s, G, X, A, C), NEW t \in Thread
  PROVE  /\ Placed([s EXCEPT !.stop = @ \cup {t}], G, X, A, C)
         /\ [s EXCEPT !.stop = @ \cup {t}].stop = s.stop \cup {t}
         /\ [s EXCEPT !.stop = @ \cup {t}].again = s.again
<1> DEFINE r == [s EXCEPT !.stop = @ \cup {t}]
<1>0. s \in SchedType
  BY DEF Placed, Core
<1>1. s.stop \cup {t} \in SUBSET Thread
  BY <1>0 DEF SchedType
<1>2. /\ r \in SchedType
      /\ r.g_ppu = s.g_ppu /\ r.waiting = s.waiting /\ r.prio = s.prio
      /\ r.ack_suspend = s.ack_suspend /\ r.g_pending = s.g_pending
      /\ r.suspend = s.suspend /\ r.signal = s.signal /\ r.notify = s.notify
      /\ r.cpu_sleep = s.cpu_sleep /\ r.stop = s.stop \cup {t} /\ r.again = s.again
  BY Zenon, <1>0, <1>1 DEF SchedType
<1> HIDE DEF r
<1>3. Placed(r, G, X, A, C)
  BY <1>2, PlacedFlags
<1> QED
  BY <1>2, <1>3 DEF r

\* A thread is to repeat its call after loading.
LEMMA PlacedAgain ==
  ASSUME NEW s, NEW G \in SUBSET Thread, NEW X, NEW A, NEW C, Placed(s, G, X, A, C), NEW t \in Thread
  PROVE  /\ Placed([s EXCEPT !.again = @ \cup {t}], G, X, A, C)
         /\ [s EXCEPT !.again = @ \cup {t}].stop = s.stop
         /\ [s EXCEPT !.again = @ \cup {t}].again = s.again \cup {t}
<1> DEFINE r == [s EXCEPT !.again = @ \cup {t}]
<1>0. s \in SchedType
  BY DEF Placed, Core
<1>1. s.again \cup {t} \in SUBSET Thread
  BY <1>0 DEF SchedType
<1>2. /\ r \in SchedType
      /\ r.g_ppu = s.g_ppu /\ r.waiting = s.waiting /\ r.prio = s.prio
      /\ r.ack_suspend = s.ack_suspend /\ r.g_pending = s.g_pending
      /\ r.suspend = s.suspend /\ r.signal = s.signal /\ r.notify = s.notify
      /\ r.cpu_sleep = s.cpu_sleep /\ r.stop = s.stop /\ r.again = s.again \cup {t}
  BY Zenon, <1>0, <1>1 DEF SchedType
<1> HIDE DEF r
<1>3. Placed(r, G, X, A, C)
  BY <1>2, PlacedFlags
<1> QED
  BY <1>2, <1>3 DEF r

\* A thread goes to sleep.
LEMMA PlacedSleep ==
  ASSUME NEW s, NEW G \in SUBSET Thread, NEW X, NEW A, NEW C, Placed(s, G, X, A, C),
         NEW t \in G, NEW timeout \in BOOLEAN, NEW late \in SUBSET Thread
  PROVE  /\ Placed(Sleep(s, t, timeout, late), G \ {t}, X, A \cup {t}, C)
         /\ Sleep(s, t, timeout, late).stop = s.stop
         /\ Sleep(s, t, timeout, late).again = s.again
<1> DEFINE r == Sleep(s, t, timeout, late)
<1>0. t \in Thread /\ Guest(s, t)
  BY SMTT(30) DEF Placed
<1>1. /\ Core(r) /\ OnProc(r) /\ Frame(s, r) /\ Range(r.g_ppu) = Range(s.g_ppu) \ {t}
      /\ \A u \in Thread \ {t} : Guest(s, u) => Guest(r, u)
  BY <1>0, SleepCore DEF Placed
<1> HIDE DEF r
<1>2. \A u \in G \ {t} : Guest(r, u)
  BY <1>1 DEF Placed
<1>3. \A u \in Thread \ X : Held(r, u)
  BY <1>1, SMTT(30) DEF Placed, Frame
<1>4. (A \cup {t}) \cap Range(r.g_ppu) = {}
  BY <1>1, SMTT(30) DEF Placed
<1>5. Placed(r, G \ {t}, X, A \cup {t}, C) /\ r.stop = s.stop /\ r.again = s.again
  BY <1>1, <1>2, <1>3, <1>4, SMTT(30) DEF Placed, Frame
<1> QED
  BY <1>5 DEF r

\* What _sys_ppu_thread_exit makes of the scheduler.
ExitSched(s, t, late) == [Sleep(s, t, FALSE, late) EXCEPT !.suspend = @ \ {t}]

\* A thread exits: it sleeps, and nothing suspends it any more.
LEMMA PlacedExit ==
  ASSUME NEW s, NEW G \in SUBSET Thread, NEW X, NEW A, NEW C, Placed(s, G, X, A, C),
         NEW t \in G, NEW late \in SUBSET Thread
  PROVE  /\ Placed(ExitSched(s, t, late), G \ {t}, X \cup {t}, A \cup {t}, C)
         /\ ExitSched(s, t, late).stop = s.stop
         /\ ExitSched(s, t, late).again = s.again
<1> DEFINE q == Sleep(s, t, FALSE, late)
           b == q.suspend \ {t}
           r == ExitSched(s, t, late)
<1>0. t \in Thread /\ Guest(s, t)
  BY SMTT(30) DEF Placed
<1>1. /\ Core(q) /\ OnProc(q) /\ Frame(s, q) /\ Range(q.g_ppu) = Range(s.g_ppu) \ {t}
      /\ t \notin q.ack_suspend
  BY <1>0, SleepCore, Zenon DEF Placed
<1>2. Placed(q, G \ {t}, X, A \cup {t}, C)
  BY PlacedSleep, Zenon
<1>3. r = [q EXCEPT !.suspend = b]
  BY <1>1 DEF Core, SchedType, ExitSched
<1>4. b \in SUBSET Thread /\ q \in SchedType
  BY Zenon, <1>1 DEF Core, SchedType
<1> HIDE DEF q, b, r
<1>5. /\ r \in SchedType /\ r.suspend = b
      /\ r.g_ppu = q.g_ppu /\ r.waiting = q.waiting /\ r.prio = q.prio
      /\ r.ack_suspend = q.ack_suspend /\ r.g_pending = q.g_pending
      /\ r.signal = q.signal /\ r.notify = q.notify
      /\ r.stop = q.stop /\ r.again = q.again /\ r.cpu_sleep = q.cpu_sleep
  BY ZenonT(30), <1>3, <1>4 DEF SchedType
<1>6. Core(r)
  BY <1>1, <1>5, SMTT(30) DEF Core, b
<1>7. OnProc(r)
  <2>1. Running(r) = Running(q)
    BY ZenonT(30), <1>5 DEF Running
  <2>2. Range(r.g_ppu) \ r.suspend \subseteq Range(q.g_ppu) \ q.suspend
    BY <1>1, <1>5, SMTT(30) DEF b
  <2> QED
    BY <1>1, <2>1, <2>2, SMTT(30) DEF OnProc
<1>8. \A u \in G \ {t} : Guest(r, u)
  BY <1>2, <1>5, SMTT(30) DEF Placed, Guest, b
<1>9. \A u \in Thread \ (X \cup {t}) : Held(r, u)
  BY <1>2, <1>5, SMTT(30) DEF Placed, Held, b
<1>10. Placed(r, G \ {t}, X \cup {t}, A \cup {t}, C) /\ r.stop = s.stop /\ r.again = s.again
  BY <1>1, <1>2, <1>5, <1>6, <1>7, <1>8, <1>9, SMTT(30) DEF Placed, Frame
<1> QED
  BY <1>10, SMTT(30) DEF r

\* A PPU thread or a host thread calls the scheduler.
Callers == Thread \cup {NoThread}

\* Threads are awoken.
LEMMA PlacedAwakeAll ==
  ASSUME NEW s, NEW G \in SUBSET Thread, NEW X, NEW A, NEW C, Placed(s, G, X, A, C),
         NEW c \in Callers, NEW list \in Seq(Thread), NEW late \in SUBSET Thread
  PROVE  /\ Placed(AwakeAll(s, c, list, late), G \ {c}, X, A \ Range(list), C)
         /\ AwakeAll(s, c, list, late).stop = s.stop
         /\ AwakeAll(s, c, list, late).again = s.again
<1> DEFINE r == AwakeAll(s, c, list, late)
<1>1. /\ Core(r) /\ OnProc(r) /\ NoIdle(r) /\ Frame(s, r)
      /\ Range(r.g_ppu) = Range(s.g_ppu) \cup Range(list)
      /\ \A u \in Thread \ {c} : Guest(s, u) => Guest(r, u)
  <2>1. Core(s)
    BY DEF Placed
  <2>2. /\ Core(AwakeAll(s, c, list, late))
        /\ OnProc(AwakeAll(s, c, list, late))
        /\ NoIdle(AwakeAll(s, c, list, late))
        /\ Frame(s, AwakeAll(s, c, list, late))
        /\ Range(AwakeAll(s, c, list, late).g_ppu) = Range(s.g_ppu) \cup Range(list)
        /\ \A u \in Thread \ {c} : Guest(s, u) => Guest(AwakeAll(s, c, list, late), u)
    BY Zenon, <2>1, AwakeAllCore
  <2> QED
    BY <2>2, SMTT(30) DEF r
<1> HIDE DEF r
<1>2. \A u \in G \ {c} : Guest(r, u)
  BY <1>1, SMTT(30) DEF Placed
<1>3. \A u \in Thread \ X : Held(r, u)
  BY <1>1, SMTT(30) DEF Placed, Frame
<1>4. (A \ Range(list)) \cap Range(r.g_ppu) = {}
  BY <1>1, SMTT(30) DEF Placed
<1>5. Placed(r, G \ {c}, X, A \ Range(list), C) /\ r.stop = s.stop /\ r.again = s.again
  BY <1>1, <1>2, <1>3, <1>4, SMTT(30) DEF Placed, Frame
<1> QED
  BY <1>5 DEF r

\* One thread is awoken.
LEMMA PlacedAwake ==
  ASSUME NEW s, NEW G \in SUBSET Thread, NEW X, NEW A, NEW C, Placed(s, G, X, A, C),
         NEW c \in Callers, NEW t \in Thread, NEW late \in SUBSET Thread
  PROVE  /\ Placed(Awake(s, c, t, late), G \ {c}, X, A \ {t}, C)
         /\ Awake(s, c, t, late).stop = s.stop
         /\ Awake(s, c, t, late).again = s.again
         /\ t \in Range(Awake(s, c, t, late).g_ppu)
<1> DEFINE r == Awake(s, c, t, late)
<1>1. /\ Core(r) /\ OnProc(r) /\ NoIdle(r) /\ Frame(s, r)
      /\ Range(r.g_ppu) = Range(s.g_ppu) \cup {t}
      /\ \A u \in Thread \ {c} : Guest(s, u) => Guest(r, u)
  <2>1. Core(s)
    BY DEF Placed
  <2>2. /\ Core(Awake(s, c, t, late))
        /\ OnProc(Awake(s, c, t, late))
        /\ NoIdle(Awake(s, c, t, late))
        /\ Frame(s, Awake(s, c, t, late))
        /\ Range(Awake(s, c, t, late).g_ppu) = Range(s.g_ppu) \cup {t}
        /\ \A u \in Thread \ {c} : Guest(s, u) => Guest(Awake(s, c, t, late), u)
    BY ZenonT(30), <2>1, AwakeCore
  <2> QED
    BY <2>2, SMTT(30) DEF r
<1> HIDE DEF r
<1>2. \A u \in G \ {c} : Guest(r, u)
  BY <1>1, SMTT(30) DEF Placed
<1>3. \A u \in Thread \ X : Held(r, u)
  BY <1>1, SMTT(30) DEF Placed, Frame
<1>4. (A \ {t}) \cap Range(r.g_ppu) = {} /\ t \in Range(r.g_ppu)
  BY <1>1, SMTT(30) DEF Placed
<1>5. /\ Placed(r, G \ {c}, X, A \ {t}, C) /\ r.stop = s.stop /\ r.again = s.again
      /\ t \in Range(r.g_ppu)
  BY <1>1, <1>2, <1>3, <1>4, SMTT(30) DEF Placed, Frame
<1> QED
  BY <1>5, SMTT(30) DEF r

\* check_state puts its thread back on the run queue.
LEMMA PlacedCpuSleep ==
  ASSUME NEW s, NEW G \in SUBSET Thread, NEW X, NEW A, NEW C, Placed(s, G, X, A, C),
         NEW t \in Thread, t \in C, NEW late \in SUBSET Thread
  PROVE  /\ Placed(CpuSleep(s, t, late), G \ {t}, X, A \ {t}, C)
         /\ CpuSleep(s, t, late).stop = s.stop
         /\ CpuSleep(s, t, late).again = s.again
<1>0. t \in Callers
  BY SMTT(30) DEF Callers
<1>1. /\ Placed(Awake(s, t, t, late), G \ {t}, X, A \ {t}, C)
      /\ Awake(s, t, t, late).stop = s.stop /\ Awake(s, t, t, late).again = s.again
  <2>1. ASSUME NEW c \in Callers
        PROVE  /\ Placed(Awake(s, c, t, late), G \ {c}, X, A \ {t}, C)
               /\ Awake(s, c, t, late).stop = s.stop /\ Awake(s, c, t, late).again = s.again
    BY PlacedAwake, SMTT(30)
  <2> QED
    BY <1>0, <2>1, SMTT(30)
<1> DEFINE q == Awake(s, t, t, late)
           n == [q.cpu_sleep EXCEPT ![t] = "done"]
           r == CpuSleep(s, t, late)
<1>2. q \in SchedType
  BY <1>1, Zenon DEF Placed, Core
<1>3. q.cpu_sleep \in [Thread -> {"no", "call", "done"}]
  BY <1>2 DEF SchedType
<1>4. n \in [Thread -> {"no", "call", "done"}] /\ \A u \in Thread \ {t} : n[u] = q.cpu_sleep[u]
  BY <1>3
<1>5. r = [q EXCEPT !.cpu_sleep = n]
  BY Zenon, <1>2 DEF CpuSleep, SchedType
<1>6. Placed(q, G \ {t}, X, A \ {t}, C) /\ q.stop = s.stop /\ q.again = s.again
  BY <1>1, SMTT(30)
<1> HIDE DEF q, n, r
<1>7. /\ r \in SchedType /\ r.cpu_sleep = n
      /\ r.g_ppu = q.g_ppu /\ r.waiting = q.waiting /\ r.prio = q.prio
      /\ r.ack_suspend = q.ack_suspend /\ r.g_pending = q.g_pending
      /\ r.suspend = q.suspend /\ r.signal = q.signal /\ r.notify = q.notify
      /\ r.stop = q.stop /\ r.again = q.again
  BY ZenonT(30), <1>2, <1>4, <1>5 DEF SchedType
<1>8. Core(r)
  BY <1>6, <1>7, ZenonT(30) DEF Placed, Core
<1>9. OnProc(r)
  BY <1>6, <1>7, SMTT(30) DEF Placed, OnProc, Running
<1>10. (\A u \in G \ {t} : Guest(r, u)) /\ (\A u \in Thread \ X : Held(r, u))
  BY <1>6, <1>7, SMTT(30) DEF Placed, Guest, Held
<1>11. \A u \in Thread \ C : r.cpu_sleep[u] = "no"
  BY <1>4, <1>6, <1>7, SMTT(30) DEF Placed
<1>12. Placed(r, G \ {t}, X, A \ {t}, C)
  BY <1>6, <1>7, <1>8, <1>9, <1>10, <1>11, ZenonT(30) DEF Placed
<1> QED
  BY <1>6, <1>7, <1>12, SMTT(30) DEF r

\* One iteration of check_state.  A thread that it releases to guest code can run;
\* one that leaves because it is to stop is where it was.
LEMMA PlacedCheck ==
  ASSUME NEW s, NEW G \in SUBSET Thread, NEW X, NEW A, NEW C, Placed(s, G, X, A, C),
         NEW t \in Thread, t \in C
  PROVE  /\ Placed(CheckFlags(s, t), G, X, A, C)
         /\ CheckLeaves(s, t) => Placed(CheckFlags(s, t), G, X, A, C \ {t})
         /\ t \notin s.suspend \cup X => Placed(CheckFlags(s, t), G \cup {t}, X, A, C \ {t})
         /\ CheckFlags(s, t).stop = s.stop
         /\ CheckFlags(s, t).again = s.again
<1> DEFINE held == ~Stopped(s, t) /\ t \in s.suspend
           called == IF t \in s.signal THEN "no" ELSE s.cpu_sleep[t]
           v == IF ~held THEN "no" ELSE IF called = "no" THEN "call" ELSE called
           n == [s.cpu_sleep EXCEPT ![t] = v]
           g == s.signal \ {t}
           o == s.notify \ {t}
           r == CheckFlags(s, t)
<1>0. s \in SchedType
  BY Zenon DEF Placed, Core
<1>1. /\ s.cpu_sleep \in [Thread -> {"no", "call", "done"}]
      /\ g \in SUBSET Thread /\ o \in SUBSET Thread
  BY <1>0, SMTT(30) DEF SchedType
<1>2. v \in {"no", "call", "done"} /\ (CheckLeaves(s, t) => v = "no")
  BY <1>1, SMTT(30) DEF CheckLeaves
<1>3. r = [s EXCEPT !.signal = g, !.notify = o, !.cpu_sleep = n]
  BY ZenonT(30), <1>0 DEF CheckFlags, SchedType
<1>4. /\ n \in [Thread -> {"no", "call", "done"}]
      /\ \A u \in Thread \ {t} : n[u] = s.cpu_sleep[u]
      /\ n[t] = v
  BY <1>1, <1>2, ZenonT(30)
<1>5. g \subseteq s.signal /\ o \subseteq s.notify /\ t \notin g \cup o
  OBVIOUS
<1> HIDE DEF held, called, v, n, g, o, r
<1>6. /\ r \in SchedType /\ r.cpu_sleep = n /\ r.signal = g /\ r.notify = o
      /\ r.g_ppu = s.g_ppu /\ r.waiting = s.waiting /\ r.prio = s.prio
      /\ r.ack_suspend = s.ack_suspend /\ r.g_pending = s.g_pending
      /\ r.suspend = s.suspend
      /\ r.stop = s.stop /\ r.again = s.again
  BY ZenonT(30), <1>0, <1>1, <1>3, <1>4 DEF SchedType
<1>7. Core(r)
  BY <1>5, <1>6, SMTT(30) DEF Placed, Core
<1>8. OnProc(r)
  BY <1>6, SMTT(30) DEF Placed, OnProc, Running
<1>9. (\A u \in G : Guest(r, u)) /\ (\A u \in Thread \ X : Held(r, u))
  BY <1>5, <1>6, SMTT(30) DEF Placed, Guest, Held
<1>10. \A u \in Thread \ C : r.cpu_sleep[u] = "no"
  BY <1>4, <1>6, ZenonT(30) DEF Placed
<1>11. Placed(r, G, X, A, C)
  BY <1>6, <1>7, <1>8, <1>9, <1>10, ZenonT(30) DEF Placed
<1>12. ASSUME CheckLeaves(s, t) PROVE Placed(r, G, X, A, C \ {t})
  <2>1. r.cpu_sleep[t] = "no"
    BY <1>2, <1>4, <1>6, <1>12, ZenonT(30)
  <2> QED
    BY <1>11, <2>1, ZenonT(30) DEF Placed
<1>13. ASSUME t \notin s.suspend \cup X PROVE Placed(r, G \cup {t}, X, A, C \ {t})
  <2>1. Placed(r, G, X, A, C \ {t})
    BY <1>12, <1>13, SMTT(30) DEF CheckLeaves
  <2>2. Guest(r, t)
    <3>1. Held(s, t)
      BY <1>13, SMTT(30) DEF Placed
    <3> QED
      BY <1>5, <1>6, <1>13, <3>1, SMTT(30) DEF Held, Guest
  <2> QED
    BY <2>1, <2>2, ZenonT(30) DEF Placed
<1> QED
  BY <1>6, <1>11, <1>12, <1>13, ZenonT(30) DEF r

\* The start: the threads of the run queue, the first of them running.
LEMMA PlacedInit ==
  ASSUME NEW q \in Seq(Thread), Ordered(q, InitPrio)
  PROVE  /\ Placed(InitSched(q), Range(q) \ InitSched(q).suspend, Thread \ Range(q), {}, {})
         /\ InitSched(q).stop = {} /\ InitSched(q).again = {}
         /\ InitSched(q).suspend \subseteq Range(q)
<1> DEFINE z == [t \in Thread |-> 0]
           n == [t \in Thread |-> "no"]
           x == {q[i] : i \in (ppu_threads + 1)..Len(q)}
           r == InitSched(q)
<1>0. Len(q) \in Nat /\ (\A i \in 1..Len(q) : q[i] \in Thread) /\ ppu_threads \in Nat \ {0}
  BY SchedAssumption, SMTT(30)
<1>1. z \in [Thread -> 0..2] /\ n \in [Thread -> {"no", "call", "done"}]
      /\ (\A t \in Thread : n[t] = "no")
  <2>1. 0 \in 0..2
    BY SMTT(30)
  <2> QED
    BY <2>1, SMTT(30)
<1>2. \A i \in (ppu_threads + 1)..Len(q) : i \in 1..Len(q)
  BY <1>0, SMTT(30)
<1>3. x \subseteq Range(q) /\ x \in SUBSET Thread /\ Range(q) \in SUBSET Thread
  BY <1>0, <1>2, RangeElement, SMTT(30)
<1>4. r = [g_ppu |-> q, waiting |-> {}, g_pending |-> 0, ready |-> TRUE,
           prio |-> InitPrio, suspend |-> x,
           signal |-> {}, notify |-> {}, stop |-> {}, again |-> {},
           ack_suspend |-> {}, cancel_sleep |-> z, cpu_sleep |-> n]
  BY ZenonT(30) DEF InitSched
<1>5. Range(q) \ x \subseteq {q[i] : i \in 1..(IF Len(q) < ppu_threads THEN Len(q) ELSE ppu_threads)}
  <2> DEFINE m == IF Len(q) < ppu_threads THEN Len(q) ELSE ppu_threads
  <2>1. ASSUME NEW u \in Range(q), u \notin x PROVE \E i \in 1..m : q[i] = u
    <3>1. PICK i \in 1..Len(q) : q[i] = u
      BY RangeElement, SMTT(30)
    <3>2. i \notin (ppu_threads + 1)..Len(q)
      BY <2>1, <3>1, SMTT(30)
    <3>3. i \in 1..m
      BY <1>0, <3>2, SMTT(30)
    <3> QED
      BY <3>1, <3>3, SMTT(30)
  <2> QED
    BY <2>1, SMTT(30)
<1> HIDE DEF z, n, x, r
<1>6. /\ r \in SchedType /\ r.cpu_sleep = n /\ r.signal = {} /\ r.notify = {}
      /\ r.g_ppu = q /\ r.waiting = {} /\ r.prio = InitPrio
      /\ r.ack_suspend = {} /\ r.g_pending = 0
      /\ r.suspend = x /\ r.stop = {} /\ r.again = {}
  BY <1>1, <1>3, <1>4, SchedAssumption, ZenonT(30) DEF SchedType
<1>7. Core(r)
  BY <1>6, FS_EmptySet, SMTT(30) DEF Core
<1>8. OnProc(r)
  BY <1>5, <1>6, SMTT(30) DEF OnProc, Running
<1>9. Placed(r, Range(q) \ r.suspend, Thread \ Range(q), {}, {})
  BY <1>1, <1>6, <1>7, <1>8, ZenonT(30) DEF Placed, Guest, Held
<1> QED
  BY <1>3, <1>6, <1>9, ZenonT(30) DEF r

-----------------------------------------------------------------------------
(***************************************************************************)
(* The wait queues of the kernel objects                                   *)
(***************************************************************************)
\* A queue without duplicates has as many threads as places.
LEMMA DistinctLen ==
  ASSUME NEW q \in Seq(Thread), Distinct(q)
  PROVE  /\ IsFiniteSet(Range(q)) /\ Cardinality(Range(q)) = Len(q) /\ Len(q) \in Nat
         /\ q = <<>> <=> Range(q) = {}
<1>1. Len(q) \in Nat /\ q \in [1..Len(q) -> Range(q)]
  BY SMTT(30) DEF Range
<1>2. ASSUME NEW i \in 1..Len(q), NEW j \in 1..Len(q), q[i] = q[j] PROVE i = j
  <2>1. ~(i < j) /\ ~(j < i)
    BY <1>2, SMTT(30) DEF Distinct
  <2> QED
    BY <1>1, <2>1, SMTT(30)
<1>3. \A x \in Range(q) : \E i \in 1..Len(q) : q[i] = x
  BY RangeElement, SMTT(30)
<1>4. q \in Bijection(1..Len(q), Range(q))
  BY <1>1, <1>2, <1>3, SMTT(30) DEF Bijection, Injection, Surjection, IsInjective
<1>5. ExistsBijection(1..Len(q), Range(q))
  BY ZenonT(30), <1>4 DEF ExistsBijection
<1>6. Cardinality(Range(q)) = Len(q)
  BY <1>1, <1>5, FS_CountingElements, SMTT(30)
<1>7. IsFiniteSet(Range(q))
  BY <1>1, <1>5, FS_NatBijection, SMTT(30)
<1>8. q = <<>> <=> Range(q) = {}
  <2>1. q = <<>> <=> Len(q) = 0
    BY SMTT(30)
  <2>2. Range(q) = {} <=> Cardinality(Range(q)) = 0
    BY <1>7, FS_EmptySet, SMTT(30)
  <2> QED
    BY <1>6, <2>1, <2>2, SMTT(30)
<1> QED
  BY <1>1, <1>6, <1>7, <1>8, SMTT(30)

\* A waiter is added at the end.
LEMMA AppendDistinct ==
  ASSUME NEW q \in Seq(Thread), NEW t \in Thread
  PROVE  /\ Append(q, t) \in Seq(Thread)
         /\ Range(Append(q, t)) = Range(q) \cup {t}
         /\ Distinct(q) /\ t \notin Range(q) => Distinct(Append(q, t))
<1> DEFINE r == Append(q, t)
<1>1. /\ Len(q) \in Nat /\ r \in Seq(Thread) /\ Len(r) = Len(q) + 1
      /\ \A i \in 1..Len(q) : r[i] = q[i]
      /\ r[Len(q) + 1] = t
  BY SMTT(30)
<1> HIDE DEF r
<1>2. \A i \in 1..Len(r) : i \in 1..Len(q) \/ i = Len(q) + 1
  BY <1>1, SMTT(30)
<1>3. \A i \in 1..Len(q) : i \in 1..Len(r)
  BY <1>1, SMTT(30)
<1>4. Len(q) + 1 \in 1..Len(r)
  BY <1>1, SMTT(30)
<1>5. ASSUME NEW x \in Range(r) PROVE x \in Range(q) \cup {t}
  <2>1. PICK i \in 1..Len(r) : r[i] = x
    BY <1>1, RangeElement, SMTT(30)
  <2> QED
    BY <1>1, <1>2, <2>1, RangeElement, SMTT(30)
<1>6. ASSUME NEW x \in Range(q) PROVE x \in Range(r)
  <2>1. PICK i \in 1..Len(q) : q[i] = x
    BY RangeElement, SMTT(30)
  <2> QED
    BY <1>1, <1>3, <2>1, RangeElement, SMTT(30)
<1>7. t \in Range(r)
  BY <1>1, <1>4, RangeElement, SMTT(30)
<1>8. ASSUME Distinct(q), t \notin Range(q) PROVE Distinct(r)
  <2>1. SUFFICES ASSUME NEW i \in 1..Len(r), NEW j \in 1..Len(r), i < j PROVE r[i] # r[j]
    BY DEF Distinct
  <2>2. i \in 1..Len(q)
    BY <1>1, <2>1, SMTT(30)
  <2>3. CASE j \in 1..Len(q)
    BY <1>1, <1>8, <2>1, <2>2, <2>3, SMTT(30) DEF Distinct
  <2>4. CASE j = Len(q) + 1
    BY <1>1, <1>8, <2>2, <2>4, RangeElement, SMTT(30)
  <2> QED
    BY <1>2, <2>3, <2>4, SMTT(30)
<1> QED
  BY <1>1, <1>5, <1>6, <1>7, <1>8, SMTT(30) DEF r

\* A waiter that gives up leaves the queue, and nobody else does.
LEMMA UnqueueDistinct ==
  ASSUME NEW q \in Seq(Thread), Distinct(q), NEW t
  PROVE  /\ Unqueue(q, t) \in Seq(Thread)
         /\ Range(Unqueue(q, t)) = Range(q) \ {t}
         /\ Distinct(Unqueue(q, t))
<1> DEFINE r == Unqueue(q, t)
<1>1. /\ r \in Seq(Thread) /\ Range(r) = Range(q) \ {t}
      /\ \A i, j \in 1..Len(r) : i < j =>
           \E k, l \in 1..Len(q) : k < l /\ r[i] = q[k] /\ r[j] = q[l]
  BY UnqueueProperties, SMTT(30)
<1> HIDE DEF r
<1>2. Distinct(r)
  <2>1. SUFFICES ASSUME NEW i \in 1..Len(r), NEW j \in 1..Len(r), i < j PROVE r[i] # r[j]
    BY SMTT(30) DEF Distinct
  <2>2. PICK k \in 1..Len(q), l \in 1..Len(q) : k < l /\ r[i] = q[k] /\ r[j] = q[l]
    BY <1>1, <2>1, SMTT(30)
  <2> QED
    BY <2>2, SMTT(30) DEF Distinct
<1> QED
  BY <1>1, <1>2, SMTT(30) DEF r

\* The waiter at a place is popped, and nobody else is.
LEMMA UnlinkDistinct ==
  ASSUME NEW q \in Seq(Thread), Distinct(q), NEW i \in 1..Len(q)
  PROVE  /\ Unlink(q, i) \in Seq(Thread)
         /\ Range(Unlink(q, i)) = Range(q) \ {q[i]}
         /\ Distinct(Unlink(q, i))
         /\ q[i] \in Range(q)
<1>1. q[i] \in Range(q)
  BY RangeElement, SMTT(30)
<1>2. Pos(q, q[i]) \in 1..Len(q) /\ q[Pos(q, q[i])] = q[i]
  BY ZenonT(30) DEF Pos
<1>3. Pos(q, q[i]) = i
  <2>1. ~(Pos(q, q[i]) < i) /\ ~(i < Pos(q, q[i]))
    BY ZenonT(30), <1>2 DEF Distinct
  <2>2. Len(q) \in Nat
    BY SMTT(30)
  <2> QED
    BY <1>2, <2>1, <2>2, SMTT(30)
<1>4. Unlink(q, i) = Unqueue(q, q[i])
  BY <1>1, <1>3, SMTT(30) DEF Unqueue
<1> QED
  BY <1>1, <1>4, UnqueueDistinct, SMTT(30)

\* i is the first of the most urgent threads among the first k.
FirstUrgent(q, prio, k, i) ==
  /\ \A j \in 1..k : prio[q[i]] <= prio[q[j]]
  /\ \A j \in 1..(i - 1) : prio[q[i]] < prio[q[j]]

\* lv2_obj::schedule finds a waiter in every queue that has one.
LEMMA ScheduleIndexType ==
  ASSUME NEW s \in SchedType, NEW q \in Seq(Thread), q # <<>>, NEW protocol
  PROVE  ScheduleIndex(s, q, protocol) \in 1..Len(q)
<1> DEFINE N == Len(q)
           p == s.prio
           T == {k \in Nat : k + 1 <= N /\ ~ \E i \in 1..(k + 1) : FirstUrgent(q, p, k + 1, i)}
<1>0. N \in Nat /\ N > 0 /\ p \in [Thread -> Int] /\ (\A i \in 1..N : q[i] \in Thread)
  BY SMTT(30) DEF SchedType
<1>1. \A i \in 1..N : p[q[i]] \in Int
  BY <1>0, SMTT(30)
<1> HIDE DEF N, p
<1>2. \E i \in 1..1 : FirstUrgent(q, p, 1, i)
  <2>1. 1 \in 1..1 /\ 1 \in 1..N /\ \A j \in 1..1 : j = 1
    BY <1>0, SMTT(30)
  <2>2. p[q[1]] <= p[q[1]]
    BY <1>1, <2>1, SMTT(30)
  <2>3. \A j \in 1..(1 - 1) : FALSE
    BY SMTT(30)
  <2> QED
    BY <2>1, <2>2, <2>3, SMTT(30) DEF FirstUrgent
<1>3. ASSUME NEW k \in Nat, k + 1 <= N, k > 0, NEW i \in 1..k, FirstUrgent(q, p, k, i)
      PROVE  \E m \in 1..(k + 1) : FirstUrgent(q, p, k + 1, m)
  <2> DEFINE l == k + 1
  <2>0. l \in 1..N /\ i \in 1..N /\ i \in 1..l /\ l \in 1..l /\ l - 1 = k
    BY <1>0, <1>3, SMTT(30)
  <2>1. p[q[l]] \in Int /\ p[q[i]] \in Int
    BY <1>1, <2>0, SMTT(30)
  <2>2. \A j \in 1..l : j \in 1..k \/ j = l
    BY <1>3, SMTT(30)
  <2>3. \A j \in 1..k : p[q[j]] \in Int /\ p[q[i]] <= p[q[j]]
    <3>1. \A j \in 1..k : j \in 1..N
      BY <1>0, <1>3, SMTT(30)
    <3> QED
      BY <1>1, <1>3, <3>1, SMTT(30) DEF FirstUrgent
  <2> HIDE DEF l
  <2>4. CASE p[q[i]] <= p[q[l]]
    <3>1. FirstUrgent(q, p, l, i)
      BY <1>3, <2>2, <2>4, SMTT(30) DEF FirstUrgent
    <3> QED
      BY ZenonT(30), <2>0, <3>1 DEF l
  <2>5. CASE ~(p[q[i]] <= p[q[l]])
    <3>1. \A j \in 1..k : p[q[l]] < p[q[j]]
      BY <2>1, <2>3, <2>5, SMTT(30)
    <3>2. \A j \in 1..l : p[q[l]] <= p[q[j]]
      BY <2>1, <2>2, <2>3, <3>1, SMTT(30)
    <3>3. FirstUrgent(q, p, l, l)
      BY <2>0, <3>1, <3>2, SMTT(30) DEF FirstUrgent
    <3> QED
      BY ZenonT(30), <2>0, <3>3 DEF l
  <2> QED
    BY <2>4, <2>5, SMTT(30)
<1>4. ASSUME T # {} PROVE FALSE
  <2>1. T \in SUBSET Nat
    BY SMTT(30)
  <2>2. PICK m \in T : \A k \in T : m <= k
    BY <1>4, <2>1, LeastElement, Zenon
  <2>3. m \in Nat /\ m + 1 <= N /\ ~ \E i \in 1..(m + 1) : FirstUrgent(q, p, m + 1, i)
    BY <2>2
  <2>4. m # 0
    BY <1>2, <2>3, SMTT(30)
  <2>5. m - 1 \in Nat /\ (m - 1) + 1 = m /\ ~(m <= m - 1) /\ (m - 1) + 1 <= N /\ m > 0
    BY <1>0, <2>3, <2>4, SMTT(30)
  <2>6. \E i \in 1..((m - 1) + 1) : FirstUrgent(q, p, (m - 1) + 1, i)
    BY ZenonT(30), <2>2, <2>5
  <2>7. PICK i \in 1..m : FirstUrgent(q, p, m, i)
    BY <2>5, <2>6, SMTT(30)
  <2> QED
    BY <1>3, <2>3, <2>5, <2>7, SMTT(30)
<1>5. \E i \in 1..N : FirstUrgent(q, p, N, i)
  <2>1. N - 1 \in Nat /\ (N - 1) + 1 = N /\ N <= N
    BY <1>0, SMTT(30)
  <2>2. N - 1 \notin T
    BY <1>4, SMTT(30)
  <2>3. \E i \in 1..((N - 1) + 1) : FirstUrgent(q, p, (N - 1) + 1, i)
    BY ZenonT(30), <2>1, <2>2
  <2> QED
    BY <2>1, <2>3, SMTT(30)
<1>6. CASE protocol = "FIFO"
  BY <1>0, <1>6, SMTT(30) DEF ScheduleIndex, N
<1>7. CASE protocol # "FIFO"
  BY Zenon, <1>5, <1>7 DEF ScheduleIndex, FirstUrgent, N, p
<1> QED
  BY <1>6, <1>7, SMTT(30)
=============================================================================
