-------------------------- MODULE SharedMutexProofs --------------------------
(***************************************************************************)
(* Proofs about SharedMutex, for any number of threads and any widths of   *)
(* the fields.                                                             *)
(***************************************************************************)
EXTENDS SharedMutex, FiniteSetTheorems, TLAPS

N == Cardinality(Thread)

\* A product of naturals is monotonic, and at least the other factor.
LEMMA Product ==
  ASSUME NEW a \in Nat, NEW b \in Nat, NEW c \in Nat, b <= c
  PROVE  a * b \in Nat /\ a * b <= a * c
<1>1. PICK d \in Nat : c = b + d
  <2>1. c - b \in Nat /\ c = b + (c - b)
    OBVIOUS
  <2> QED BY <2>1
<1>2. a * d \in Nat /\ a * b \in Nat
  OBVIOUS
<1>3. a * c = a * b + a * d
  BY <1>1
<1> QED BY <1>2, <1>3

\* Division with remainder is unique.
LEMMA Remainder ==
  ASSUME NEW b \in Nat \ {0}, NEW q \in Int, NEW r \in 0..(b - 1)
  PROVE  (b * q + r) % b = r
<1> DEFINE v == b * q + r
<1> DEFINE p == v \div b
<1>1. v \in Int /\ p \in Int /\ v = b * p + (v % b) /\ v % b \in 0..(b - 1)
  OBVIOUS
<1>2. CASE p = q
  BY <1>1, <1>2
<1>3. CASE p > q
  <2>1. p - q \in Nat /\ 1 <= p - q
    BY <1>1, <1>3
  <2>2. b * 1 <= b * (p - q)
    BY <2>1, Product
  <2>3. b * (p - q) = b * p - b * q
    BY <1>1
  <2> QED BY <1>1, <2>2, <2>3
<1>4. CASE p < q
  <2>1. q - p \in Nat /\ 1 <= q - p
    BY <1>1, <1>4
  <2>2. b * 1 <= b * (q - p)
    BY <2>1, Product
  <2>3. b * (q - p) = b * q - b * p
    BY <1>1
  <2> QED BY <1>1, <2>2, <2>3
<1> QED BY <1>1, <1>2, <1>3, <1>4

\* What a word v with s notifications, w writers and r readers tells.
Fields(v, s, w, r) ==
  /\ v \in 0..(2 * c_sig - 1)
  /\ v >= c_sig <=> s = 1
  /\ v = 0 <=> s = 0 /\ w = 0 /\ r = 0
  /\ v >= c_one <=> s = 1 \/ w > 0
  /\ v % c_one = r
  /\ (v - 1) % c_one = 0 <=> r = 1
  /\ (v + c_one - 1) % c_one = 0 <=> r = 1
  /\ s = 0 /\ r = 0 => (v = c_one <=> w = 1)

\* The fields of the word can be told from the sum that makes it up.
LEMMA Decode ==
  ASSUME NEW s \in 0..1, NEW w \in 0..N, NEW r \in 0..(c_one - 1), NEW v,
         v = s * c_sig + c_one * w + r
  PROVE  Fields(v, s, w, r)
<1> USE SharedMutexAssumption DEF N
<1>0. N \in Nat /\ c_one \in Nat \ {0} /\ c_one > 1 /\ c_sig \in Nat /\ w \in Nat /\ r \in Nat
  BY FS_CardinalityType
<1>1. c_one * w \in Nat /\ c_one * w <= c_one * N
  BY <1>0, Product
<1>2. c_one * (N + 1) = c_one * N + c_one /\ c_one * N \in Nat
  BY <1>0
<1>3. w > 0 => c_one <= c_one * w
  BY <1>0, Product
<1>4. w > 1 => 2 * c_one <= c_one * w
  BY <1>0, Product
<1>5. w = 0 => c_one * w = 0
  BY <1>0
<1>6. w = 1 => c_one * w = c_one
  BY <1>0
<1>7. c_one * w + r < c_sig
  BY <1>0, <1>1, <1>2
<1>8. c_sig >= c_one
  BY <1>0, <1>2
<1>9. s = 0 \/ s = 1
  OBVIOUS
<1>10. v \in Nat /\ (s = 0 => v = c_one * w + r) /\ (s = 1 => v = c_sig + c_one * w + r)
  BY <1>0, <1>1, <1>9
<1>11. PICK q \in Int : v = c_one * q + r
  <2>1. c_sig = c_one * (c_sig \div c_one) /\ c_sig \div c_one \in Int
    BY <1>0
  <2>2. CASE s = 0
    BY <2>2, <1>10, <1>0
  <2>3. CASE s = 1
    <3>1. v = c_one * (c_sig \div c_one + w) + r
      BY <2>1, <2>3, <1>10, <1>0
    <3>2. c_sig \div c_one + w \in Int
      BY <2>1, <1>0
    <3> QED BY <3>1, <3>2, Zenon
  <2> QED BY <2>2, <2>3, <1>9
<1>12. v % c_one = r
  BY ZenonT(30), <1>0, <1>11, Remainder
<1>13. (v - 1) % c_one = 0 <=> r = 1
  <2>1. CASE r > 0
    <3>1. v - 1 = c_one * q + (r - 1) /\ r - 1 \in 0..(c_one - 1)
      BY <1>0, <1>11, <2>1
    <3>2. (c_one * q + (r - 1)) % c_one = r - 1
      BY <1>0, <3>1, Remainder, Zenon
    <3>3. (v - 1) % c_one = r - 1
      BY <3>1, <3>2, Zenon
    <3> QED BY <3>3, <1>0
  <2>2. CASE r = 0
    <3>1. v - 1 = c_one * (q - 1) + (c_one - 1) /\ q - 1 \in Int /\ c_one - 1 \in 0..(c_one - 1)
      BY <1>0, <1>11, <2>2
    <3>2. (c_one * (q - 1) + (c_one - 1)) % c_one = c_one - 1
      BY <1>0, <3>1, Remainder, Zenon
    <3>3. (v - 1) % c_one = c_one - 1
      BY <3>1, <3>2, Zenon
    <3> QED BY <3>3, <2>2, <1>0
  <2> QED BY <2>1, <2>2, <1>0
<1>14. (v + c_one - 1) % c_one = 0 <=> r = 1
  <2>1. CASE r > 0
    <3>1. v + c_one - 1 = c_one * (q + 1) + (r - 1) /\ q + 1 \in Int /\ r - 1 \in 0..(c_one - 1)
      BY <1>0, <1>11, <2>1
    <3>2. (c_one * (q + 1) + (r - 1)) % c_one = r - 1
      BY <1>0, <3>1, Remainder, Zenon
    <3>3. (v + c_one - 1) % c_one = r - 1
      BY <3>1, <3>2, Zenon
    <3> QED BY <3>3, <1>0
  <2>2. CASE r = 0
    <3>1. v + c_one - 1 = c_one * q + (c_one - 1) /\ c_one - 1 \in 0..(c_one - 1)
      BY <1>0, <1>11, <2>2
    <3>2. (c_one * q + (c_one - 1)) % c_one = c_one - 1
      BY <1>0, <3>1, Remainder, Zenon
    <3>3. (v + c_one - 1) % c_one = c_one - 1
      BY <3>1, <3>2, Zenon
    <3> QED BY <3>3, <2>2, <1>0
  <2> QED BY <2>1, <2>2, <1>0
<1>15. v \in 0..(2 * c_sig - 1) /\ (v >= c_sig <=> s = 1)
  BY <1>0, <1>1, <1>7, <1>9, <1>10
<1>16. /\ v = 0 <=> s = 0 /\ w = 0 /\ r = 0
       /\ v >= c_one <=> s = 1 \/ w > 0
  BY <1>0, <1>1, <1>3, <1>5, <1>8, <1>9, <1>10
<1>17. s = 0 /\ r = 0 => (v = c_one <=> w = 1)
  BY <1>0, <1>1, <1>4, <1>5, <1>6, <1>10
<1> QED BY <1>12, <1>13, <1>14, <1>15, <1>16, <1>17 DEF Fields

-----------------------------------------------------------------------------
(***************************************************************************)
(* The inductive invariant.  At most one thread at a time has the right to *)
(* hold the lock as a writer or to pass it on; the right is in the word    *)
(* when a notification is.                                                 *)
(***************************************************************************)
Sig == IF m_value >= c_sig THEN 1 ELSE 0

Signalers == {t \in Thread : pc[t] = "sig"}

Entitled == {t \in Thread : pc[t] \in {"own", "down", "sig"}}

Passing(sig) ==
  /\ m_value = sig * c_sig + c_one * Cardinality(Writers) + Cardinality(Readers)
  /\ Cardinality(Readers) < c_one
  /\ \A t, u \in Entitled : t = u
  /\ Entitled # {} => sig = 0 /\ Readers = {}
  /\ Readers # {} => sig = 0
  /\ sig = 1 \/ Signalers # {} => Writers # {}
  /\ Writers # {} => Readers # {} \/ sig = 1 \/ Entitled # {}

IInv ==
  /\ pc \in [Thread -> PC] /\ op \in [Thread -> Op]
  /\ Passing(Sig)

\* Sets of threads are finite; adding and removing one thread.
LEMMA Count ==
  ASSUME NEW S \in SUBSET Thread
  PROVE  /\ IsFiniteSet(S) /\ Cardinality(S) \in 0..N
         /\ Cardinality(S) = 0 <=> S = {}
         /\ \A t \in Thread \ S : Cardinality(S \cup {t}) = Cardinality(S) + 1
         /\ \A t \in S : Cardinality(S \ {t}) = Cardinality(S) - 1
         /\ \A t \in S : Cardinality(S) = 1 => S = {t}
<1>0. IsFiniteSet(Thread)
  BY SharedMutexAssumption
<1>1. IsFiniteSet(S) /\ Cardinality(S) \in Nat /\ N \in Nat /\ Cardinality(S) <= N
  BY <1>0, FS_Subset, FS_CardinalityType DEF N
<1>2. Cardinality(S) = 0 <=> S = {}
  BY <1>1, FS_EmptySet
<1>3. \A t \in Thread \ S : Cardinality(S \cup {t}) = Cardinality(S) + 1
  BY ZenonT(30), <1>1, FS_AddElement
<1>4. \A t \in S : Cardinality(S \ {t}) = Cardinality(S) - 1
  BY ZenonT(30), <1>1, FS_RemoveElement
<1>5. ASSUME NEW t \in S, Cardinality(S) = 1
      PROVE  S = {t}
  <2>1. IsFiniteSet(S \ {t})
    BY <1>1, FS_RemoveElement
  <2>2. Cardinality(S \ {t}) = 0
    BY <1>4, <1>5
  <2>3. S \ {t} = {}
    BY <2>1, <2>2, FS_EmptySet
  <2> QED BY <2>3
<1> QED BY <1>1, <1>2, <1>3, <1>4, <1>5

\* What the word tells in a state that satisfies the invariant.
LEMMA Word ==
  ASSUME IInv
  PROVE  /\ Sig \in 0..1 /\ Cardinality(Writers) \in 0..N /\ Cardinality(Readers) \in 0..(c_one - 1)
         /\ c_one * Cardinality(Writers) \in Nat /\ c_one \in Nat /\ c_sig \in Nat /\ c_one > 1
         /\ m_value \in Nat /\ m_value < 2 * c_sig
         /\ m_value >= c_sig <=> Sig = 1
         /\ m_value = 0 <=> Sig = 0 /\ Writers = {} /\ Readers = {}
         /\ m_value >= c_one <=> Sig = 1 \/ Writers # {}
         /\ m_value % c_one = Cardinality(Readers)
         /\ (m_value - 1) % c_one = 0 <=> Cardinality(Readers) = 1
         /\ (m_value + c_one - 1) % c_one = 0 <=> Cardinality(Readers) = 1
         /\ Sig = 0 /\ Readers = {} => (m_value = c_one <=> Cardinality(Writers) = 1)
<1>1. Writers \in SUBSET Thread /\ Readers \in SUBSET Thread
  BY DEF Writers, Readers
<1>2. /\ Cardinality(Writers) \in 0..N /\ (Cardinality(Writers) = 0 <=> Writers = {})
      /\ Cardinality(Readers) \in 0..N /\ (Cardinality(Readers) = 0 <=> Readers = {})
  BY <1>1, Count
<1>3. Sig \in 0..1 /\ c_one \in Nat /\ c_one > 1 /\ c_sig \in Nat /\ N \in Nat
  BY SharedMutexAssumption, FS_CardinalityType DEF Sig, N
<1>4. Cardinality(Readers) \in 0..(c_one - 1)
  BY <1>2, <1>3 DEF IInv, Passing
<1>5. m_value = Sig * c_sig + c_one * Cardinality(Writers) + Cardinality(Readers)
  BY DEF IInv, Passing
<1> HIDE DEF Sig, N
<1>6. c_one * Cardinality(Writers) \in Nat
  BY <1>2, <1>3, Product
<1>7. Fields(m_value, Sig, Cardinality(Writers), Cardinality(Readers))
  BY <1>2, <1>3, <1>4, <1>5, Decode
<1>8. /\ m_value \in Nat /\ m_value < 2 * c_sig
      /\ Cardinality(Writers) > 0 <=> Writers # {}
  BY <1>2, <1>3, <1>7 DEF Fields
<1> QED BY <1>2, <1>3, <1>4, <1>6, <1>7, <1>8 DEF Fields

\* It is enough to know the invariant for some number of notifications.
LEMMA Establish ==
  ASSUME (pc \in [Thread -> PC])', (op \in [Thread -> Op])',
         NEW sig \in 0..1, Passing(sig)'
  PROVE  IInv'
<1>1. Writers' \in SUBSET Thread /\ Readers' \in SUBSET Thread
  BY DEF Writers, Readers
<1>2. Cardinality(Writers') \in 0..N /\ Cardinality(Readers') \in 0..N
  BY <1>1, Count
<1>3. c_one \in Nat /\ N \in Nat
  BY SharedMutexAssumption, FS_CardinalityType DEF N
<1>4. Cardinality(Readers') \in 0..(c_one - 1)
  BY <1>2, <1>3 DEF Passing
<1>5. m_value' = sig * c_sig + c_one * Cardinality(Writers') + Cardinality(Readers')
  BY DEF Passing
<1>6. m_value' >= c_sig <=> sig = 1
  BY <1>2, <1>4, <1>5, Decode DEF Fields
<1>7. Sig' = sig
  BY <1>6 DEF Sig
<1>8. Passing(Sig)'
  BY <1>7 DEF Passing
<1> QED BY <1>8 DEF IInv

-----------------------------------------------------------------------------
(***************************************************************************)
(* Each kind of step keeps the invariant.                                  *)
(***************************************************************************)
\* A step that changes neither the word nor who is counted.
LEMMA KeepAll ==
  ASSUME IInv, (pc \in [Thread -> PC])', (op \in [Thread -> Op])', m_value' = m_value,
         Writers' = Writers, Readers' = Readers, Entitled' = Entitled,
         Signalers' = Signalers
  PROVE  IInv'
<1>1. Sig \in 0..1
  BY DEF Sig
<1>2. Passing(Sig)
  BY DEF IInv
<1>3. ASSUME NEW k, k = Sig
      PROVE  Passing(k)'
  BY <1>2, <1>3 DEF Passing
<1>4. PICK k \in 0..1 : k = Sig
  BY <1>1
<1> QED BY <1>3, <1>4, Establish

\* A thread becomes the writer of a free lock, or takes the notification to be
\* counted as the writer.
LEMMA BecomeWriter ==
  ASSUME IInv, (pc \in [Thread -> PC])', (op \in [Thread -> Op])', NEW t \in Thread,
         \/ m_value = 0 /\ m_value' = c_one
         \/ m_value >= c_sig /\ m_value' = m_value - c_sig + c_one,
         t \notin Writers, Writers' = Writers \cup {t}, Readers' = Readers,
         Entitled' = Entitled \cup {t}, Signalers' = Signalers
  PROVE  IInv'
<1> DEFINE w == Cardinality(Writers)
           r == Cardinality(Readers)
<1>1. Writers \in SUBSET Thread /\ t \in Thread \ Writers
  BY DEF Writers
<1>2. Cardinality(Writers') = w + 1
  BY <1>1, Count
<1>3. c_one * (w + 1) = c_one * w + c_one /\ (w = 0 => c_one * w = 0)
  BY Word
<1>4. Entitled = {} /\ Readers = {}
  <2>1. CASE m_value = 0
    BY ZenonT(30), <2>1, Word DEF IInv, Passing, Writers, Readers, Entitled, Signalers
  <2>2. CASE m_value >= c_sig
    BY <2>2, Word DEF IInv, Passing
  <2> QED BY <2>1, <2>2
<1>5. r = 0 /\ Cardinality(Readers') = 0
  BY <1>4, FS_EmptySet
<1>6. m_value' = 0 * c_sig + c_one * (w + 1) + 0
  <2>1. m_value = Sig * c_sig + c_one * w + r
    BY DEF IInv, Passing
  <2>2. CASE m_value = 0 /\ m_value' = c_one
    <3>1. w = 0
      BY <2>2, Word, <1>1, Count
    <3> QED BY <3>1, <2>2, <1>3, Word
  <2>3. CASE m_value >= c_sig /\ m_value' = m_value - c_sig + c_one
    BY <2>1, <2>3, <1>3, <1>5, Word
  <2> QED BY <2>2, <2>3
<1>7. Passing(0)'
  BY <1>2, <1>4, <1>5, <1>6, Word DEF Passing
<1> QED BY <1>7, Establish

\* A thread joins those that wait for a lock that is not free.
LEMMA JoinQueue ==
  ASSUME IInv, (pc \in [Thread -> PC])', (op \in [Thread -> Op])', NEW t \in Thread,
         m_value # 0, m_value' = m_value + c_one,
         t \notin Writers, Writers' = Writers \cup {t}, Readers' = Readers,
         Entitled' = Entitled, Signalers' = Signalers
  PROVE  IInv'
<1> DEFINE w == Cardinality(Writers)
           r == Cardinality(Readers)
<1>0. /\ Writers \in SUBSET Thread /\ Readers \in SUBSET Thread
      /\ w \in Nat /\ r \in Nat /\ c_one \in Nat /\ c_sig \in Nat /\ Sig \in 0..1
      /\ m_value = Sig * c_sig + c_one * w + r
  BY Word DEF Writers, Readers, IInv, Passing
<1>1. Cardinality(Writers') = w + 1
  BY <1>0, Count
<1>2. c_one * (w + 1) = c_one * w + c_one
  BY <1>0
<1>3. PICK k \in 0..1 : k = Sig
  BY <1>0
<1>4. m_value' = k * c_sig + c_one * (w + 1) + r
  BY <1>0, <1>2, <1>3
<1>5. Readers # {} \/ Sig = 1 \/ Entitled # {}
  BY Word DEF IInv, Passing
<1>6. Passing(k)'
  BY <1>1, <1>3, <1>4, <1>5 DEF Passing, IInv
<1> QED BY <1>6, Establish

\* A thread that waits takes the notification.
LEMMA TakeSignal ==
  ASSUME IInv, (pc \in [Thread -> PC])', (op \in [Thread -> Op])', NEW t \in Thread,
         m_value >= c_sig, m_value' = m_value - c_sig,
         Writers' = Writers, Readers' = Readers,
         Entitled' = Entitled \cup {t}, Signalers' = Signalers
  PROVE  IInv'
<1> DEFINE w == Cardinality(Writers)
           r == Cardinality(Readers)
<1>0. /\ Writers \in SUBSET Thread /\ Readers \in SUBSET Thread
      /\ w \in Nat /\ r \in Nat /\ c_one \in Nat /\ c_sig \in Nat /\ Sig \in 0..1
      /\ m_value = Sig * c_sig + c_one * w + r
  BY Word DEF Writers, Readers, IInv, Passing
<1>1. Sig = 1 /\ Entitled = {} /\ Readers = {} /\ Writers # {}
  BY Word DEF IInv, Passing
<1>2. m_value' = 0 * c_sig + c_one * w + r
  BY <1>0, <1>1
<1>3. Passing(0)'
  BY <1>1, <1>2 DEF Passing, IInv
<1> QED BY <1>3, Establish

\* The writer releases the lock: it is to leave a notification if others wait.
LEMMA LeaveWriter ==
  ASSUME IInv, (pc \in [Thread -> PC])', (op \in [Thread -> Op])', NEW t \in Thread,
         t \in Writers, t \in Entitled, t \notin Signalers, m_value' = m_value - c_one,
         Writers' = Writers \ {t}, Readers' = Readers,
         \/ /\ m_value # c_one
            /\ Entitled' = Entitled /\ Signalers' = Signalers \cup {t}
         \/ /\ m_value = c_one
            /\ Entitled' = Entitled \ {t} /\ Signalers' = Signalers
  PROVE  IInv'
<1> DEFINE w == Cardinality(Writers)
           r == Cardinality(Readers)
<1>0. /\ Writers \in SUBSET Thread /\ Readers \in SUBSET Thread
      /\ w \in Nat /\ r \in Nat /\ c_one \in Nat /\ c_sig \in Nat /\ Sig \in 0..1
      /\ m_value = Sig * c_sig + c_one * w + r
  BY Word DEF Writers, Readers, IInv, Passing
<1>1. Sig = 0 /\ Readers = {} /\ Entitled = {t} /\ Signalers = {}
  BY DEF IInv, Passing, Entitled, Signalers
<1>2. Cardinality(Writers') = w - 1 /\ w > 0
  <2>1. Cardinality(Writers \ {t}) = w - 1 /\ w # 0
    BY ZenonT(30), <1>0, Count
  <2> QED BY <1>0, <2>1
<1>3. c_one * (w - 1) = c_one * w - c_one
  BY <1>0
<1>4. m_value' = 0 * c_sig + c_one * (w - 1) + r
  BY <1>0, <1>1, <1>3
<1>5. m_value = c_one <=> w = 1
  BY <1>1, Word
<1>6. Writers' = {} <=> w = 1
  <2>1. Writers' \in SUBSET Thread
    BY <1>0
  <2>2. Cardinality(Writers') = 0 <=> Writers' = {}
    BY <2>1, Count
  <2> QED BY <1>0, <1>2, <2>2
<1>7. r < c_one /\ Cardinality(Readers') = r
  BY DEF IInv, Passing
<1>8. Writers' = {} <=> Entitled' = {}
  BY <1>1, <1>5, <1>6
<1>9. Signalers' # {} => Writers' # {}
  BY <1>1, <1>5, <1>6
<1>10. Entitled' \in SUBSET {t}
  BY <1>1
<1>11. Passing(0)'
  BY <1>1, <1>2, <1>4, <1>7, <1>8, <1>9, <1>10 DEF Passing
<1> QED BY <1>11, Establish

\* A thread leaves a notification.
LEMMA LeaveSignal ==
  ASSUME IInv, (pc \in [Thread -> PC])', (op \in [Thread -> Op])', NEW t \in Thread,
         t \in Signalers, m_value' = m_value + c_sig,
         Writers' = Writers, Readers' = Readers,
         Entitled' = Entitled \ {t}, Signalers' = Signalers \ {t}
  PROVE  IInv'
<1> DEFINE w == Cardinality(Writers)
           r == Cardinality(Readers)
<1>0. /\ Writers \in SUBSET Thread /\ Readers \in SUBSET Thread
      /\ w \in Nat /\ r \in Nat /\ c_one \in Nat /\ c_sig \in Nat /\ Sig \in 0..1
      /\ m_value = Sig * c_sig + c_one * w + r
  BY Word DEF Writers, Readers, IInv, Passing
<1>1. Sig = 0 /\ Readers = {} /\ Entitled = {t} /\ Writers # {}
  BY DEF IInv, Passing, Entitled, Signalers
<1>2. m_value' = 1 * c_sig + c_one * w + r
  BY <1>0, <1>1
<1>3. Passing(1)'
  BY <1>1, <1>2 DEF Passing, IInv
<1> QED BY SMTT(30), <1>3, Establish

\* A thread becomes a reader of a lock without writers, or by the notification.
LEMMA BecomeReader ==
  ASSUME IInv, (pc \in [Thread -> PC])', (op \in [Thread -> Op])', NEW t \in Thread,
         \/ m_value < c_one - 1 /\ m_value' = m_value + 1
         \/ m_value >= c_sig /\ m_value' = m_value - c_sig + 1,
         t \notin Readers, Writers' = Writers, Readers' = Readers \cup {t},
         Entitled' = Entitled, Signalers' = Signalers
  PROVE  IInv'
<1> DEFINE w == Cardinality(Writers)
           r == Cardinality(Readers)
<1>0. /\ Writers \in SUBSET Thread /\ Readers \in SUBSET Thread
      /\ w \in Nat /\ r \in Nat /\ c_one \in Nat /\ c_sig \in Nat /\ Sig \in 0..1
      /\ m_value = Sig * c_sig + c_one * w + r
  BY Word DEF Writers, Readers, IInv, Passing
<1>1. Cardinality(Readers') = r + 1
  BY <1>0, Count
<1>2. CASE m_value < c_one - 1 /\ m_value' = m_value + 1
  <2>1. Sig = 0 /\ Writers = {}
    BY <1>0, <1>2, Word
  <2>2. Entitled = {} /\ Signalers = {}
    BY <2>1 DEF IInv, Passing, Entitled, Writers, Signalers
  <2>3. w = 0 /\ c_one * w = 0
    BY <1>0, <2>1, Count
  <2>4. m_value' = 0 * c_sig + c_one * w + (r + 1) /\ r + 1 < c_one
    <3>1. m_value = r
      BY <1>0, <2>1, <2>3
    <3> QED BY <1>0, <1>2, <2>3, <3>1
  <2>5. Passing(0)'
    BY SMTT(30), <1>1, <2>1, <2>2, <2>4 DEF Passing, IInv
  <2> QED BY <2>5, Establish
<1>3. CASE m_value >= c_sig /\ m_value' = m_value - c_sig + 1
  <2>1. Sig = 1 /\ Entitled = {} /\ Readers = {} /\ Writers # {}
    BY <1>3, Word DEF IInv, Passing
  <2>2. Signalers = {}
    BY <2>1 DEF Signalers, Entitled
  <2>3. r = 0 /\ c_one > 1
    BY <1>0, <2>1, Count, Word
  <2>4. m_value' = 0 * c_sig + c_one * w + (r + 1) /\ r + 1 < c_one
    <3>1. c_one * w \in Nat /\ m_value = c_sig + c_one * w + r
      BY <1>0, <2>1, Word
    <3> QED BY <1>0, <1>3, <2>3, <3>1
  <2>5. Passing(0)'
    BY <1>1, <2>1, <2>2, <2>4 DEF Passing, IInv
  <2> QED BY <2>5, Establish
<1> QED BY <1>2, <1>3

\* The writer becomes a reader.
LEMMA ToReader ==
  ASSUME IInv, (pc \in [Thread -> PC])', (op \in [Thread -> Op])', NEW t \in Thread,
         t \in Writers, t \in Entitled, t \notin Readers, t \notin Signalers,
         m_value' = m_value - (c_one - 1),
         Writers' = Writers \ {t}, Readers' = Readers \cup {t},
         Entitled' = Entitled \ {t}, Signalers' = Signalers
  PROVE  IInv'
<1> DEFINE w == Cardinality(Writers)
           r == Cardinality(Readers)
<1>0. /\ Writers \in SUBSET Thread /\ Readers \in SUBSET Thread
      /\ w \in Nat /\ r \in Nat /\ c_one \in Nat /\ c_sig \in Nat /\ Sig \in 0..1
      /\ m_value = Sig * c_sig + c_one * w + r
  BY Word DEF Writers, Readers, IInv, Passing
<1>1. Sig = 0 /\ Readers = {} /\ Entitled = {t} /\ Signalers = {}
  BY DEF IInv, Passing, Entitled, Signalers
<1>2. Cardinality(Writers') = w - 1 /\ Cardinality(Readers') = r + 1 /\ r = 0 /\ c_one > 1
  <2>1. Cardinality(Writers \ {t}) = w - 1
    BY <1>0, Count
  <2>2. Cardinality(Readers \cup {t}) = r + 1 /\ r = 0
    BY ZenonT(30), <1>0, <1>1, Count
  <2> QED BY <2>1, <2>2, Word
<1>3. c_one * (w - 1) = c_one * w - c_one
  BY <1>0
<1>4. m_value' = 0 * c_sig + c_one * (w - 1) + (r + 1)
  <2>1. c_one * w \in Nat /\ m_value = c_one * w + r
    BY <1>0, <1>1, Word
  <2> QED BY <1>0, <1>3, <2>1
<1>5. Passing(0)'
  BY <1>1, <1>2, <1>4 DEF Passing, IInv
<1> QED BY SMTT(30), <1>5, Establish

\* A reader leaves: the last one is to leave a notification if writers wait.
LEMMA LeaveReader ==
  ASSUME IInv, (pc \in [Thread -> PC])', (op \in [Thread -> Op])', NEW t \in Thread,
         t \in Readers, m_value' = m_value - 1,
         Writers' = Writers, Readers' = Readers \ {t},
         \/ /\ m_value >= c_one /\ (m_value - 1) % c_one = 0
            /\ Entitled' = Entitled \cup {t} /\ Signalers' = Signalers \cup {t}
         \/ /\ ~(m_value >= c_one /\ (m_value - 1) % c_one = 0)
            /\ Entitled' = Entitled /\ Signalers' = Signalers
  PROVE  IInv'
<1> DEFINE w == Cardinality(Writers)
           r == Cardinality(Readers)
<1>0. /\ Writers \in SUBSET Thread /\ Readers \in SUBSET Thread
      /\ w \in Nat /\ r \in Nat /\ c_one \in Nat /\ c_sig \in Nat /\ Sig \in 0..1
      /\ m_value = Sig * c_sig + c_one * w + r
  BY Word DEF Writers, Readers, IInv, Passing
<1>1. Sig = 0 /\ Entitled = {} /\ Signalers = {}
  BY DEF IInv, Passing, Entitled, Signalers
<1>2. Cardinality(Readers') = r - 1 /\ r < c_one
  BY <1>0, Count, Word
<1>3. m_value' = 0 * c_sig + c_one * w + (r - 1)
  BY <1>0, <1>1
<1>4. Readers' = {} <=> r = 1
  <2>1. Readers' \in SUBSET Thread
    BY <1>0
  <2>2. Cardinality(Readers') = 0 <=> Readers' = {}
    BY ZenonT(30), <2>1, Count
  <2> QED BY <1>0, <1>2, <2>2
<1>5. (m_value >= c_one <=> Writers # {}) /\ ((m_value - 1) % c_one = 0 <=> r = 1)
  BY <1>1, Word
<1>6. r - 1 < c_one
  BY <1>0, <1>2
<1>7. Passing(0)'
  BY <1>1, <1>2, <1>3, <1>4, <1>5, <1>6 DEF Passing, IInv
<1> QED BY <1>7, Establish

\* A reader converts: the last one is the writer, others join those that wait.
LEMMA ToWriter ==
  ASSUME IInv, (pc \in [Thread -> PC])', (op \in [Thread -> Op])', NEW t \in Thread,
         t \in Readers, t \notin Writers, m_value' = m_value + c_one - 1,
         Writers' = Writers \cup {t}, Readers' = Readers \ {t}, Signalers' = Signalers,
         \/ Cardinality(Readers) = 1 /\ Entitled' = Entitled \cup {t}
         \/ Cardinality(Readers) # 1 /\ Entitled' = Entitled
  PROVE  IInv'
<1> DEFINE w == Cardinality(Writers)
           r == Cardinality(Readers)
<1>0. /\ Writers \in SUBSET Thread /\ Readers \in SUBSET Thread
      /\ w \in Nat /\ r \in Nat /\ c_one \in Nat /\ c_sig \in Nat /\ Sig \in 0..1
      /\ m_value = Sig * c_sig + c_one * w + r
  BY Word DEF Writers, Readers, IInv, Passing
<1>1. Sig = 0 /\ Entitled = {} /\ Signalers = {}
  BY DEF IInv, Passing, Entitled, Signalers
<1>2. Cardinality(Readers') = r - 1 /\ r < c_one /\ Cardinality(Writers') = w + 1
  BY <1>0, Count, Word
<1>3. c_one * (w + 1) = c_one * w + c_one
  BY <1>0
<1>4. m_value' = 0 * c_sig + c_one * (w + 1) + (r - 1)
  <2>1. c_one * w \in Nat /\ m_value = c_one * w + r
    BY <1>0, <1>1, Word
  <2> QED BY <1>0, <1>3, <2>1
<1>5. Readers' = {} <=> r = 1
  <2>1. Readers' \in SUBSET Thread
    BY <1>0
  <2>2. Cardinality(Readers') = 0 <=> Readers' = {}
    BY <2>1, Count
  <2> QED BY <1>0, <1>2, <2>2
<1>6. r - 1 < c_one
  BY <1>0, <1>2
<1>7. Passing(0)'
  BY <1>1, <1>2, <1>4, <1>5, <1>6 DEF Passing, IInv
<1> QED BY <1>7, Establish

\* What a move of one thread does to the sets.
Moved(t, from, to) ==
  /\ pc' \in [Thread -> PC]
  /\ t \in Writers <=> from \in {"own", "down", "wait", "block", "asleep"}
  /\ t \in Readers <=> from \in {"read", "uspin"}
  /\ t \in Entitled <=> from \in {"own", "down", "sig"}
  /\ t \in Signalers <=> from = "sig"
  /\ Writers' = IF to \in {"own", "down", "wait", "block", "asleep"}
                THEN Writers \cup {t} ELSE Writers \ {t}
  /\ Readers' = IF to \in {"read", "uspin"} THEN Readers \cup {t} ELSE Readers \ {t}
  /\ Entitled' = IF to \in {"own", "down", "sig"}
                 THEN Entitled \cup {t} ELSE Entitled \ {t}
  /\ Signalers' = IF to = "sig" THEN Signalers \cup {t} ELSE Signalers \ {t}

\* Goto moves a thread.
LEMMA Move ==
  ASSUME IInv, NEW t \in Thread, NEW from \in PC, NEW to \in PC, Goto(t, from, to)
  PROVE  Moved(t, from, to)
<1>0. pc \in [Thread -> PC]
  BY DEF IInv
<1>1. pc' = [pc EXCEPT ![t] = to] /\ pc[t] = from
  BY DEF Goto
<1>2. pc' \in [Thread -> PC] /\ pc'[t] = to /\ \A u \in Thread \ {t} : pc'[u] = pc[u]
  BY <1>0, <1>1
<1>3. Writers' = IF to \in {"own", "down", "wait", "block", "asleep"}
                 THEN Writers \cup {t} ELSE Writers \ {t}
  BY <1>2 DEF Writers
<1>4. Readers' = IF to \in {"read", "uspin"} THEN Readers \cup {t} ELSE Readers \ {t}
  BY <1>2 DEF Readers
<1>5. Entitled' = IF to \in {"own", "down", "sig"}
                  THEN Entitled \cup {t} ELSE Entitled \ {t}
  BY <1>2 DEF Entitled
<1>6. Signalers' = IF to = "sig" THEN Signalers \cup {t} ELSE Signalers \ {t}
  BY <1>2 DEF Signalers
<1> QED BY <1>1, <1>2, <1>3, <1>4, <1>5, <1>6 DEF Writers, Readers, Entitled, Signalers, Moved

\* Moves between places that the word does not tell apart.
LEMMA Sidestep ==
  ASSUME IInv, NEW t \in Thread, NEW from \in PC, NEW to \in PC, Goto(t, from, to),
         m_value' = m_value, (op \in [Thread -> Op])',
         \/ {from, to} \subseteq {"idle", "spin", "wake", "synced"}
         \/ {from, to} \subseteq {"wait", "block", "asleep"}
         \/ {from, to} \subseteq {"read", "uspin"}
  PROVE  IInv'
<1>1. Moved(t, from, to)
  BY Move
<1>2. /\ pc' \in [Thread -> PC] /\ Writers' = Writers /\ Readers' = Readers
      /\ Entitled' = Entitled /\ Signalers' = Signalers
  BY <1>1 DEF Moved
<1> QED BY <1>2, KeepAll

\* TryLock, from either place.
LEMMA TryLockKeeps ==
  ASSUME IInv, NEW t \in Thread, NEW from \in {"idle", "spin"}, TryLock(t, from),
         (op \in [Thread -> Op])'
  PROVE  IInv'
<1>1. Moved(t, from, "own")
  <2>1. Goto(t, from, "own") /\ "own" \in PC /\ from \in PC
    BY DEF TryLock, PC
  <2> QED BY <2>1, Move
<1>2. /\ pc' \in [Thread -> PC] /\ t \notin Writers /\ Writers' = Writers \cup {t}
      /\ Readers' = Readers /\ Entitled' = Entitled \cup {t} /\ Signalers' = Signalers
  BY <1>1 DEF Moved
<1>3. m_value = 0 /\ m_value' = c_one
  BY DEF TryLock
<1> QED BY <1>2, <1>3, BecomeWriter

\* TryLockShared, from either place.
LEMMA TryLockSharedKeeps ==
  ASSUME IInv, NEW t \in Thread, NEW from \in {"idle", "spin"}, TryLockShared(t, from),
         (op \in [Thread -> Op])'
  PROVE  IInv'
<1>1. Moved(t, from, "read")
  <2>1. Goto(t, from, "read") /\ "read" \in PC /\ from \in PC
    BY DEF TryLockShared, PC
  <2> QED BY <2>1, Move
<1>2. /\ pc' \in [Thread -> PC] /\ t \notin Readers /\ Writers' = Writers
      /\ Readers' = Readers \cup {t} /\ Entitled' = Entitled /\ Signalers' = Signalers
  BY <1>1 DEF Moved
<1>3. m_value < c_one - 1 /\ m_value' = m_value + 1
  BY DEF TryLockShared
<1> QED BY <1>2, <1>3, BecomeReader

\* TryLockUpgrade, from either place.
LEMMA TryLockUpgradeKeeps ==
  ASSUME IInv, NEW t \in Thread, NEW from \in {"read", "uspin"}, TryLockUpgrade(t, from),
         (op \in [Thread -> Op])'
  PROVE  IInv'
<1>1. Moved(t, from, "own")
  <2>1. Goto(t, from, "own") /\ "own" \in PC /\ from \in PC
    BY DEF TryLockUpgrade, PC
  <2> QED BY <2>1, Move
<1>2. /\ pc' \in [Thread -> PC] /\ t \notin Writers /\ t \in Readers
      /\ Writers' = Writers \cup {t} /\ Readers' = Readers \ {t}
      /\ Entitled' = Entitled \cup {t} /\ Signalers' = Signalers
  BY <1>1 DEF Moved
<1>3. m_value' = m_value + c_one - 1 /\ Cardinality(Readers) = 1
  BY Word DEF TryLockUpgrade
<1> QED BY <1>2, <1>3, ToWriter

\* Notify moves two threads, neither to another set.
LEMMA NotifyKeeps ==
  ASSUME IInv, NEW t \in Thread, Notify(t)
  PROVE  IInv'
<1>0. pc \in [Thread -> PC] /\ op \in [Thread -> Op]
  BY DEF IInv
<1>1. m_value' = m_value /\ op' = op
  BY DEF Notify, local
<1>2. /\ pc' \in [Thread -> PC]
      /\ pc[t] = "wake" /\ pc'[t] \in {"synced", "idle"}
      /\ \A u \in Thread \ {t} : pc'[u] = pc[u] \/ (pc[u] = "asleep" /\ pc'[u] = "wait")
  <2>1. PICK next \in {"synced", "idle"} : next = IF op[t] = "sync" THEN "synced" ELSE "idle"
    OBVIOUS
  <2>2. CASE pc' = [pc EXCEPT ![t] = next]
    BY <1>0, <2>2 DEF Notify, PC
  <2>3. ASSUME NEW u \in Thread, pc[u] = "asleep", pc' = [pc EXCEPT ![t] = next, ![u] = "wait"]
        PROVE  <1>2
    BY <1>0, <2>3 DEF Notify, PC
  <2> QED BY <2>1, <2>2, <2>3 DEF Notify
<1>3. Writers' = Writers /\ Readers' = Readers
  BY <1>2 DEF Writers, Readers
<1>4. Entitled' = Entitled /\ Signalers' = Signalers
  BY <1>2 DEF Entitled, Signalers
<1> QED BY <1>0, <1>1, <1>2, <1>3, <1>4, KeepAll

\* Unlock, as a call and in lock_unlock.
LEMMA UnlockKeeps ==
  ASSUME IInv, NEW t \in Thread, Unlock(t)
  PROVE  IInv'
<1>0. op \in [Thread -> Op] /\ {"own", "sig", "synced", "idle"} \subseteq PC
  BY DEF IInv, PC
<1>1. (op \in [Thread -> Op])' /\ m_value' = m_value - c_one
  BY <1>0 DEF Unlock, Op
<1>2. CASE m_value # c_one
  <2>1. Goto(t, "own", "sig")
    BY <1>2 DEF Unlock
  <2>2. Moved(t, "own", "sig")
    BY <1>0, <2>1, Move
  <2>3. /\ pc' \in [Thread -> PC] /\ t \in Writers /\ t \in Entitled /\ t \notin Signalers
        /\ Writers' = Writers \ {t} /\ Readers' = Readers
        /\ Entitled' = Entitled /\ Signalers' = Signalers \cup {t}
    BY <2>2 DEF Moved
  <2> QED BY <1>1, <1>2, <2>3, LeaveWriter
<1>3. CASE m_value = c_one
  <2>1. PICK to \in {"synced", "idle"} : Goto(t, "own", to)
    BY <1>3 DEF Unlock
  <2>2. Moved(t, "own", to)
    BY <1>0, <2>1, Move
  <2>3. /\ pc' \in [Thread -> PC] /\ t \in Writers /\ t \in Entitled /\ t \notin Signalers
        /\ Writers' = Writers \ {t} /\ Readers' = Readers
        /\ Entitled' = Entitled \ {t} /\ Signalers' = Signalers
    BY <2>2 DEF Moved
  <2> QED BY <1>1, <1>3, <2>3, LeaveWriter
<1> QED BY <1>2, <1>3


\* Every step preserves the inductive invariant.
LEMMA StepKeeps ==
  ASSUME IInv, NEW t \in Thread, Step(t)
  PROVE  IInv'
<1>0. pc \in [Thread -> PC] /\ op \in [Thread -> Op] /\ pc[t] \in PC
  BY DEF IInv
<1>p. PC = {"idle", "read", "uspin", "own", "down", "spin", "wait", "block", "asleep",
            "sig", "wake", "synced"}
  BY DEF PC
<1>1. CASE Steal(t)
  <2>1. Goto(t, "spin", "own") /\ (op \in [Thread -> Op])'
        /\ m_value >= c_sig /\ m_value' = m_value - c_sig + c_one
    BY <1>1, <1>0 DEF Steal, Op, local
  <2>2. Moved(t, "spin", "own")
    BY <2>1, <1>p, Move
  <2> QED BY <2>1, <2>2, BecomeWriter DEF Moved
<1>2. CASE SpinLock(t)
  BY <1>2, <1>0, TryLockKeeps DEF SpinLock, local
<1>3. CASE Queue(t)
  <2>0. (op \in [Thread -> Op])' /\ m_value' = m_value + c_one
    BY <1>3, <1>0 DEF Queue, local
  <2>1. CASE m_value # 0
    <3>1. Goto(t, "spin", "wait")
      BY <1>3, <2>1 DEF Queue
    <3>2. Moved(t, "spin", "wait")
      BY <3>1, <1>p, Move
    <3> QED BY <2>0, <2>1, <3>2, JoinQueue DEF Moved
  <2>2. CASE m_value = 0
    <3>1. PICK to \in {"down", "own"} : Goto(t, "spin", to)
      BY <1>3, <2>2 DEF Queue
    <3>2. Moved(t, "spin", to)
      BY <3>1, <1>p, Move
    <3>3. m_value' = c_one
      BY <2>0, <2>2, Word
    <3> QED BY <2>0, <2>2, <3>2, <3>3, BecomeWriter DEF Moved
  <2> QED BY <2>1, <2>2
<1>4. CASE Wait(t)
  <2>0. (op \in [Thread -> Op])'
    BY <1>4, <1>0 DEF Wait
  <2>1. CASE m_value >= c_sig
    <3>1. PICK to \in {"down", "own"} : Goto(t, "wait", to)
      BY <1>4, <2>1 DEF Wait
    <3>2. Moved(t, "wait", to)
      BY <3>1, <1>p, Move
    <3>3. m_value' = m_value - c_sig
      BY <1>4, <2>1 DEF Wait
    <3> QED BY <2>0, <2>1, <3>2, <3>3, TakeSignal DEF Moved
  <2>2. CASE ~(m_value >= c_sig)
    <3>1. Goto(t, "wait", "block") /\ m_value' = m_value
      BY <1>4, <2>2 DEF Wait
    <3> QED BY <2>0, <3>1, <1>p, Sidestep
  <2> QED BY <2>1, <2>2
<1>5. CASE Block(t)
  <2>1. PICK to \in {"asleep", "wait"} : Goto(t, "block", to)
    BY <1>5 DEF Block
  <2>2. m_value' = m_value /\ (op \in [Thread -> Op])'
    BY <1>5, <1>0 DEF Block
  <2> QED BY <2>1, <2>2, <1>p, Sidestep
<1>6. CASE Signal(t)
  <2>1. Goto(t, "sig", "wake") /\ (op \in [Thread -> Op])'
        /\ m_value' = m_value + c_sig
    BY <1>6, <1>0 DEF Signal, Op, local
  <2>2. Moved(t, "sig", "wake")
    BY <2>1, <1>p, Move
  <2> QED BY <2>1, <2>2, LeaveSignal DEF Moved
<1>7. CASE Notify(t)
  BY <1>7, NotifyKeeps
<1>8. CASE SpinShared(t)
  BY <1>8, <1>0, TryLockSharedKeeps DEF SpinShared, local
<1>9. CASE StealShared(t)
  <2>1. Goto(t, "spin", "read") /\ (op \in [Thread -> Op])'
        /\ m_value >= c_sig /\ m_value' = m_value - c_sig + 1
    BY <1>9, <1>0 DEF StealShared, Op, local
  <2>2. Moved(t, "spin", "read")
    BY <2>1, <1>p, Move
  <2> QED BY <2>1, <2>2, BecomeReader DEF Moved
<1>10. CASE Downgrade(t)
  <2>1. Goto(t, "down", "read") /\ (op \in [Thread -> Op])'
        /\ m_value' = m_value - (c_one - 1)
    BY <1>10, <1>0 DEF Downgrade, Op, local
  <2>2. Moved(t, "down", "read")
    BY <2>1, <1>p, Move
  <2> QED BY <2>1, <2>2, ToReader DEF Moved
<1>11. CASE SpinUpgrade(t)
  <2>1. TryLockUpgrade(t, "uspin") /\ (op \in [Thread -> Op])'
    BY <1>11, <1>0 DEF SpinUpgrade, TryLockUpgrade, Op
  <2> QED BY <2>1, TryLockUpgradeKeeps
<1>12. CASE Upgrade(t)
  <2>0. (op \in [Thread -> Op])' /\ m_value' = m_value + c_one - 1
    BY <1>12, <1>0 DEF Upgrade, Op
  <2>1. CASE m_value % c_one = 1
    <3>1. Goto(t, "uspin", "own")
      BY <1>12, <2>1 DEF Upgrade
    <3>2. Moved(t, "uspin", "own")
      BY <3>1, <1>p, Move
    <3>3. Cardinality(Readers) = 1
      BY <2>1, Word
    <3> QED BY <2>0, <3>2, <3>3, ToWriter DEF Moved
  <2>2. CASE m_value % c_one # 1
    <3>1. Goto(t, "uspin", "wait")
      BY <1>12, <2>2 DEF Upgrade
    <3>2. Moved(t, "uspin", "wait")
      BY <3>1, <1>p, Move
    <3>3. Cardinality(Readers) # 1
      BY <2>2, Word
    <3>4. Entitled' = Entitled
      BY <3>2 DEF Moved
    <3> QED BY <2>0, <3>2, <3>3, <3>4, ToWriter DEF Moved
  <2> QED BY <2>1, <2>2
<1>13. CASE SyncSpin(t)
  <2>1. m_value' = m_value /\ (op \in [Thread -> Op])' /\ (pc' = pc \/ Goto(t, "spin", "synced"))
    BY <1>13, <1>0 DEF SyncSpin
  <2>2. CASE pc' = pc
    BY <1>0, <2>1, <2>2, KeepAll DEF Writers, Readers, Entitled, Signalers
  <2>3. CASE Goto(t, "spin", "synced")
    BY <2>1, <2>3, <1>p, Sidestep
  <2> QED BY <2>1, <2>2, <2>3
<1>14. CASE SyncReturn(t)
  <2>1. Goto(t, "synced", "idle") /\ m_value' = m_value /\ (op \in [Thread -> Op])'
    BY <1>14, <1>0 DEF SyncReturn, Op
  <2> QED BY <2>1, <1>p, Sidestep
<1>15. CASE Unlock(t)
  BY <1>15, UnlockKeeps
<1> QED
  BY SMTT(30), <1>1, <1>2, <1>3, <1>4, <1>5, <1>6, <1>7, <1>8, <1>9, <1>10, <1>11, <1>12, <1>13,
     <1>14, <1>15 DEF Step

\* Every call preserves the inductive invariant.
LEMMA CallKeeps ==
  ASSUME IInv, NEW t \in Thread, Call(t)
  PROVE  IInv'
<1>0. pc \in [Thread -> PC] /\ op \in [Thread -> Op]
  BY DEF IInv
<1>p. PC = {"idle", "read", "uspin", "own", "down", "spin", "wait", "block", "asleep",
            "sig", "wake", "synced"}
  BY DEF PC
<1>1. CASE Lock(t)
  <2>0. (op \in [Thread -> Op])'
    BY <1>0, <1>1 DEF Lock, Op
  <2>1. CASE TryLock(t, "idle")
    BY <2>0, <2>1, TryLockKeeps
  <2>2. CASE Goto(t, "idle", "spin") /\ UNCHANGED m_value
    BY <2>0, <2>2, <1>p, Sidestep
  <2> QED BY <1>1, <2>1, <2>2 DEF Lock
<1>2. CASE LockShared(t)
  <2>0. (op \in [Thread -> Op])'
    BY SMTT(30), <1>0, <1>2 DEF LockShared, Op
  <2>1. CASE TryLockShared(t, "idle")
    BY <2>0, <2>1, TryLockSharedKeeps
  <2>2. CASE Goto(t, "idle", "spin") /\ UNCHANGED m_value
    BY <2>0, <2>2, <1>p, Sidestep
  <2> QED BY <1>2, <2>1, <2>2 DEF LockShared
<1>3. CASE LockUnlock(t)
  <2>1. PICK to \in {"synced", "spin"} : Goto(t, "idle", to)
    BY <1>3 DEF LockUnlock
  <2>2. (op \in [Thread -> Op])' /\ m_value' = m_value
    BY <1>0, <1>3 DEF LockUnlock, Op
  <2> QED BY <2>1, <2>2, <1>p, Sidestep
<1>4. CASE Unlock(t)
  BY <1>4, UnlockKeeps
<1>5. CASE UnlockShared(t)
  <2>0. (op \in [Thread -> Op])' /\ m_value' = m_value - 1
    BY <1>0, <1>5 DEF UnlockShared, Op
  <2>1. CASE m_value >= c_one /\ (m_value - 1) % c_one = 0
    <3>1. Goto(t, "read", "sig")
      BY <1>5, <2>1 DEF UnlockShared
    <3>2. Moved(t, "read", "sig")
      BY <3>1, <1>p, Move
    <3> QED BY <2>0, <2>1, <3>2, LeaveReader DEF Moved
  <2>2. CASE ~(m_value >= c_one /\ (m_value - 1) % c_one = 0)
    <3>1. Goto(t, "read", "idle")
      BY <1>5, <2>2 DEF UnlockShared
    <3>2. Moved(t, "read", "idle")
      BY <3>1, <1>p, Move
    <3>3. Entitled' = Entitled /\ Signalers' = Signalers
      BY <3>2 DEF Moved
    <3> QED BY <2>0, <2>2, <3>2, <3>3, LeaveReader DEF Moved
  <2> QED BY <2>1, <2>2
<1>6. CASE LockUpgrade(t)
  <2>1. CASE TryLockUpgrade(t, "read")
    <3>1. (op \in [Thread -> Op])'
      BY <1>0, <2>1 DEF TryLockUpgrade, Op
    <3> QED BY <2>1, <3>1, TryLockUpgradeKeeps
  <2>2. CASE Goto(t, "read", "uspin") /\ UNCHANGED <<m_value, local>>
    <3>1. m_value' = m_value /\ (op \in [Thread -> Op])'
      BY <1>0, <2>2 DEF local
    <3> QED BY <2>2, <3>1, <1>p, Sidestep
  <2> QED BY <1>6, <2>1, <2>2 DEF LockUpgrade
<1>7. CASE LockDowngrade(t)
  <2>1. Goto(t, "own", "read") /\ (op \in [Thread -> Op])' /\ m_value' = m_value - (c_one - 1)
    BY <1>0, <1>7 DEF LockDowngrade, Op
  <2>2. Moved(t, "own", "read")
    BY <2>1, <1>p, Move
  <2> QED BY <2>1, <2>2, ToReader DEF Moved
<1> QED BY SMTT(30), <1>1, <1>2, <1>3, <1>4, <1>5, <1>6, <1>7 DEF Call

\* The lock starts free.
LEMMA InitKeeps == Init => IInv
<1> SUFFICES ASSUME Init PROVE IInv
  OBVIOUS
<1>1. pc \in [Thread -> PC] /\ op \in [Thread -> Op]
  BY DEF Init, PC, Op
<1>2. Writers = {} /\ Readers = {}
  BY DEF Init, Writers, Readers
<1>3. Entitled = {} /\ Signalers = {}
  BY DEF Init, Entitled, Signalers
<1>4. Cardinality(Writers) = 0 /\ Cardinality(Readers) = 0
  BY <1>2, FS_EmptySet
<1>5. c_sig \in Nat /\ c_one \in Nat /\ c_one > 1 /\ c_sig > 0
  <2>1. Cardinality(Thread) \in Nat
    BY SharedMutexAssumption, FS_CardinalityType
  <2>2. c_one * (Cardinality(Thread) + 1) = c_one * Cardinality(Thread) + c_one
    BY <2>1, SharedMutexAssumption
  <2>3. c_one * Cardinality(Thread) \in Nat
    BY <2>1, Product, SharedMutexAssumption
  <2> QED BY <2>2, <2>3, SharedMutexAssumption
<1>6. Sig = 0 /\ m_value = 0
  BY <1>5 DEF Init, Sig
<1>7. Passing(0)
  BY <1>2, <1>3, <1>4, <1>5, <1>6 DEF Passing
<1> QED BY <1>1, <1>6, <1>7 DEF IInv

\* The inductive invariant holds throughout.
THEOREM Inductive == Spec => []IInv
<1>1. IInv /\ UNCHANGED vars => IInv'
  <2> SUFFICES ASSUME IInv, UNCHANGED vars PROVE IInv'
    OBVIOUS
  <2>1. pc' = pc /\ op' = op /\ m_value' = m_value
    BY DEF vars, local
  <2>2. pc \in [Thread -> PC] /\ op \in [Thread -> Op]
    BY DEF IInv
  <2> QED BY <2>1, <2>2, KeepAll DEF Writers, Readers, Entitled, Signalers
<1>2. IInv /\ [Next]_vars => IInv'
  BY <1>1, StepKeeps, CallKeeps DEF Next
<1> QED BY <1>2, InitKeeps, PTL DEF Spec

\* Any number of threads, whatever the width of the word's fields: no thread holds
\* the lock beside a writer.
THEOREM Exclusive == Spec => []MutualExclusion
<1>1. IInv => MutualExclusion
  BY DEF IInv, Passing, MutualExclusion, Entitled, Holders, Readers
<1> QED BY <1>1, Inductive, PTL

\* The word counts the readers, the writers and at most one notification.
THEOREM WordCounts == Spec => []Counted
<1>1. IInv => Counted
  <2> SUFFICES ASSUME IInv PROVE Counted
    OBVIOUS
  <2>1. Sig \in 0..1
    BY DEF Sig
  <2> QED BY <2>1 DEF IInv, Passing, Counted
<1> QED BY <1>1, Inductive, PTL

\* While threads wait for the lock, it is held or on its way to one of them.
THEOREM LockPassedOn == Spec => []PassedOn
<1>1. IInv => PassedOn
  <2> SUFFICES ASSUME IInv, Writers # {} PROVE PassedOn
    BY DEF PassedOn
  <2>1. Readers # {} \/ Sig = 1 \/ Entitled # {}
    BY DEF IInv, Passing
  <2>2. Sig = 1 => m_value >= c_sig
    BY Word
  <2>3. Readers # {} => Holders # {}
    BY DEF Readers, Holders
  <2>4. Entitled # {} => Holders # {} \/ \E t \in Thread : pc[t] = "sig"
    BY DEF Entitled, Holders
  <2> QED BY <2>1, <2>2, <2>3, <2>4 DEF PassedOn
<1> QED BY <1>1, Inductive, PTL
=============================================================================
