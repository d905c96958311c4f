------------------------ MODULE CellSyncMutexProofs ------------------------
(***************************************************************************)
(* Proofs about CellSyncMutex, for any set of threads and any width of the *)
(* counters that has a value for each of them.                             *)
(***************************************************************************)
EXTENDS CellSyncMutex, FiniteSetTheorems, SequenceTheorems, TLAPS

\* The remainder of a number below twice the modulus.
LEMMA Remainder ==
  ASSUME NEW M \in Nat \ {0}, NEW x \in 0..(2 * M - 1)
  PROVE  x % M = IF x < M THEN x ELSE x - M
<1> DEFINE p == x \div M
<1>1. p \in Int /\ x % M \in 0..(M - 1) /\ x = M * p + (x % M)
  OBVIOUS
<1>2. CASE p < 0
  <2>1. M * p <= M * (-1)
    <3>1. -1 - p \in Nat /\ M * (-1 - p) \in Nat
      BY <1>1, <1>2
    <3>2. M * (-1 - p) = M * (-1) - M * p
      BY <1>1
    <3> QED BY <3>1, <3>2, <1>1
  <2> QED BY <1>1, <2>1
<1>3. CASE p = 0
  BY <1>1, <1>3
<1>4. CASE p = 1
  BY <1>1, <1>4
<1>5. CASE p > 1
  <2>1. M * 2 <= M * p
    <3>1. p - 2 \in Nat /\ M * (p - 2) \in Nat
      BY <1>1, <1>5
    <3>2. M * (p - 2) = M * p - M * 2
      BY <1>1
    <3> QED BY <3>1, <3>2, <1>1
  <2> QED BY <1>1, <2>1
<1> QED BY <1>1, <1>2, <1>3, <1>4, <1>5

\* What the arithmetic of the counters computes, in the range it is used in.
LEMMA Wrap ==
  ASSUME NEW x \in 0..(2 * Mod - 1)
  PROVE  u16(x) = IF x < Mod THEN x ELSE x - Mod
BY ZenonT(30), Remainder, MutexAssumption DEF u16

\* A sequence without repetition is no longer than its set of values has elements.
LEMMA ShortLine ==
  ASSUME NEW s \in Seq(Thread), \A i, j \in 1..Len(s) : s[i] = s[j] => i = j
  PROVE  Len(s) <= Cardinality(Thread)
<1> SUFFICES ASSUME Cardinality(Thread) < Len(s)
             PROVE  FALSE
  BY FS_CardinalityType, ThreadAssumption
<1>1. Len(s) \in Nat /\ s \in [1..Len(s) -> Thread]
  OBVIOUS
<1>2. IsFiniteSet(1..Len(s)) /\ Cardinality(1..Len(s)) = Len(s)
  BY <1>1, FS_Interval, FS_CardinalityType, ThreadAssumption, SMTT(30)
<1>3. \E x, y \in 1..Len(s) : x # y /\ s[x] = s[y]
  BY <1>1, <1>2, FS_PigeonHole, ThreadAssumption
<1> QED BY <1>3

\* What is invariant while no state is saved.
Inv == MutexTypeOK /\ Aligned /\ mode = "steady"

\* What the invariant says of the numbers.
LEMMA Known ==
  ASSUME Inv
  PROVE  /\ MutexTypeOK /\ Aligned /\ mode = "steady"
         /\ Len(line) \in Nat /\ Cardinality(Thread) \in Nat
         /\ Mod \in Nat \ {0} /\ Cardinality(Thread) <= Mod /\ Len(line) <= Mod
         /\ rel \in 0..(Mod - 1) /\ acq \in 0..(Mod - 1)
<1>1. Cardinality(Thread) \in Nat
  BY FS_CardinalityType, ThreadAssumption
<1>2. Mod \in Nat \ {0} /\ Cardinality(Thread) <= Mod
  BY MutexAssumption
<1>3. Len(line) \in Nat /\ rel \in 0..(Mod - 1) /\ acq \in 0..(Mod - 1)
  BY DEF Inv, MutexTypeOK, Counter
<1>4. Len(line) <= Cardinality(Thread)
  BY DEF Inv, Aligned
<1> QED BY <1>1, <1>2, <1>3, <1>4 DEF Inv

\* Before the first call.
LEMMA InitInv == MutexInit /\ mode = "steady" => Inv
<1> SUFFICES ASSUME MutexInit, mode = "steady" PROVE Inv
  OBVIOUS
<1> USE DEF MutexInit, ThreadInit, Counter, Using
<1>0. Mod \in Nat \ {0}
  BY MutexAssumption
<1>1. MutexTypeOK
  BY <1>0 DEF MutexTypeOK
<1>2. Cardinality(Thread) \in Nat
  BY FS_CardinalityType, ThreadAssumption
<1>3. u16(0) = 0
  BY <1>0, Wrap
<1>4. Aligned
  BY SMTT(30), <1>0, <1>2, <1>3 DEF Aligned
<1> QED BY <1>1, <1>4 DEF Inv

\* A thread that is out and joins the line gets the next ticket, or the mutex if the
\* line was empty (lock_begin, try_lock).
LEMMA Join ==
  ASSUME Inv, NEW t \in Thread, pc[t] = "out",
         acq' = u16(acq + 1), rel' = rel, line' = Append(line, t), mode' = mode,
         \/ pc' = [pc EXCEPT ![t] = "locking"] /\ order' = [order EXCEPT ![t] = acq]
         \/ pc' = [pc EXCEPT ![t] = "locked"] /\ order' = order /\ rel = acq
  PROVE  Inv'
<1> USE DEF Counter, Using
<1>0. /\ MutexTypeOK /\ Aligned /\ mode = "steady"
      /\ Len(line) \in Nat /\ Cardinality(Thread) \in Nat
      /\ Mod \in Nat \ {0} /\ Cardinality(Thread) <= Mod /\ Len(line) <= Mod
      /\ rel \in 0..(Mod - 1) /\ acq \in 0..(Mod - 1)
  BY Known
<1>1. /\ line' \in Seq(Thread) /\ Len(line') = Len(line) + 1
      /\ \A i \in 1..Len(line) : line'[i] = line[i]
      /\ line'[Len(line) + 1] = t
  BY <1>0, AppendProperties DEF MutexTypeOK
<1>2. \A i \in 1..Len(line) : line[i] \in Thread /\ line[i] # t
  <2> SUFFICES ASSUME NEW i \in 1..Len(line) PROVE line[i] \in Thread /\ line[i] # t
    OBVIOUS
  <2>1. line[i] \in Thread
    BY <1>0 DEF MutexTypeOK
  <2>2. pc[line[i]] \in Using /\ "out" \notin Using
    BY <1>0 DEF Aligned
  <2> QED BY <2>1, <2>2
<1>3. \A i, j \in 1..Len(line') : line'[i] = line'[j] => i = j
  BY SMTT(30), <1>0, <1>1, <1>2 DEF Aligned
<1>4. Len(line') <= Cardinality(Thread)
  BY ZenonT(30), <1>1, <1>3, ShortLine
<1>5. /\ Len(line) < Mod
      /\ acq = IF rel + Len(line) < Mod THEN rel + Len(line) ELSE rel + Len(line) - Mod
  <2>1. rel + Len(line) \in 0..(2 * Mod - 1)
    BY <1>0, <1>1, <1>4 DEF MutexTypeOK
  <2>2. acq = u16(rel + Len(line))
    BY <1>0 DEF Aligned
  <2>3. Len(line) < Mod
    BY <1>0, <1>1, <1>4
  <2> QED BY SMTT(30), <1>0, <2>1, <2>2, <2>3, Wrap
<1>6. acq' = u16(rel' + Len(line'))
  <2>1. rel + (Len(line) + 1) \in 0..(2 * Mod - 1) /\ acq + 1 \in 0..(2 * Mod - 1)
    BY SMTT(30), <1>0, <1>5 DEF MutexTypeOK
  <2>2. /\ acq' = IF acq + 1 < Mod THEN acq + 1 ELSE acq + 1 - Mod
        /\ u16(rel' + Len(line')) = IF rel + (Len(line) + 1) < Mod THEN rel + (Len(line) + 1)
                                      ELSE rel + (Len(line) + 1) - Mod
    BY <1>0, <1>1, <2>1, Wrap
  <2> QED BY <1>0, <1>5, <2>2
<1>7. MutexTypeOK'
  <2>1. acq' \in 0..(Mod - 1)
    <3>1. acq + 1 \in 0..(2 * Mod - 1)
      BY <1>0
    <3> QED BY <1>0, <3>1, Wrap
  <2>2. pc' \in [Thread -> {"out"} \cup Using] /\ order' \in [Thread -> Counter]
    BY ZenonT(30), <1>0 DEF MutexTypeOK
  <2> QED BY <2>1, <2>2, <1>0, <1>1 DEF MutexTypeOK
<1>8. pc'[t] \in Using /\ \A u \in Thread : u # t => pc'[u] = pc[u] /\ order'[u] = order[u]
  BY <1>0 DEF MutexTypeOK
<1>9. \A i \in 1..Len(line') : pc'[line'[i]] \in Using
  BY SMTT(30), <1>0, <1>1, <1>2, <1>8 DEF Aligned
<1>10. \A i \in 1..Len(line') :
         pc'[line'[i]] = "locking" => order'[line'[i]] = u16(rel' + (i - 1))
  <2> SUFFICES ASSUME NEW i \in 1..Len(line'), pc'[line'[i]] = "locking"
               PROVE  order'[line'[i]] = u16(rel' + (i - 1))
    OBVIOUS
  <2>1. CASE i <= Len(line)
    BY <2>1, <1>0, <1>1, <1>2, <1>8, SMTT(30) DEF Aligned
  <2>2. CASE i = Len(line) + 1
    <3>1. line'[i] = t /\ i - 1 = Len(line)
      BY <2>2, <1>0, <1>1
    <3>2. order'[t] = acq
      BY <3>1, <1>0 DEF MutexTypeOK
    <3> QED BY <3>1, <3>2, <1>0 DEF Aligned
  <2> QED BY SMTT(30), <2>1, <2>2, <1>0, <1>1
<1>11. \A u \in Thread : pc'[u] \in Using => \E i \in 1..Len(line') : line'[i] = u
  <2> SUFFICES ASSUME NEW u \in Thread, pc'[u] \in Using
               PROVE  \E i \in 1..Len(line') : line'[i] = u
    OBVIOUS
  <2>1. CASE u = t
    BY <2>1, <1>0, <1>1
  <2>2. CASE u # t
    <3>1. PICK i \in 1..Len(line) : line[i] = u
      BY <2>2, <1>0, <1>8 DEF Aligned
    <3> QED BY <3>1, <1>0, <1>1
  <2> QED BY <2>1, <2>2
<1>12. \A i \in 1..Len(line') : pc'[line'[i]] = "locked" => i = 1
  <2> SUFFICES ASSUME NEW i \in 1..Len(line'), pc'[line'[i]] = "locked"
               PROVE  i = 1
    OBVIOUS
  <2>1. CASE i <= Len(line)
    BY SMTT(30), <2>1, <1>0, <1>1, <1>2, <1>8 DEF Aligned
  <2>2. CASE i = Len(line) + 1
    <3>1. rel = acq
      BY <2>2, <1>0, <1>1 DEF MutexTypeOK
    <3> QED BY SMTT(30), <3>1, <2>2, <1>5, <1>0 DEF MutexTypeOK
  <2> QED BY <2>1, <2>2, <1>0, <1>1
<1> QED
  BY ZenonT(30), <1>0, <1>3, <1>4, <1>6, <1>7, <1>9, <1>10, <1>11, <1>12 DEF Inv, Aligned

\* The wait ends only for the first of the line.
LEMMA Enter ==
  ASSUME Inv, NEW t \in Thread, LockEnd(t)
  PROVE  Inv'
<1> USE DEF Counter, Using
<1>0. /\ MutexTypeOK /\ Aligned /\ mode = "steady"
      /\ Len(line) \in Nat /\ Cardinality(Thread) \in Nat
      /\ Mod \in Nat \ {0} /\ Cardinality(Thread) <= Mod /\ Len(line) <= Mod
      /\ rel \in 0..(Mod - 1) /\ acq \in 0..(Mod - 1)
  BY Known
<1>1. PICK k \in 1..Len(line) : line[k] = t
  BY <1>0 DEF Aligned, LockEnd, Goto
<1>2. k = 1
  <2>1. rel + (k - 1) \in 0..(2 * Mod - 1)
    BY <1>0
  <2>3. rel = u16(rel + (k - 1))
    BY SMTT(30), <1>0, <1>1 DEF Aligned, LockEnd, Goto
  <2>2. rel = IF rel + (k - 1) < Mod THEN rel + (k - 1) ELSE rel + (k - 1) - Mod
    BY <1>0, <2>1, <2>3, Wrap
  <2> QED BY <1>0, <2>2
<1>3. \A i \in 1..Len(line) : line[i] \in Thread /\ (line[i] = t => i = 1)
  BY SMTT(30), <1>0, <1>1, <1>2 DEF MutexTypeOK, Aligned
<1>4. MutexTypeOK'
  BY <1>0 DEF MutexTypeOK, LockEnd, Goto
<1>5. /\ pc'[t] = "locked" /\ pc[t] = "locking" /\ \A u \in Thread : u # t => pc'[u] = pc[u]
      /\ rel' = rel /\ acq' = acq /\ order' = order /\ line' = line /\ mode' = mode
  BY <1>0 DEF MutexTypeOK, LockEnd, Goto
<1>6. \A i \in 1..Len(line) :
        /\ pc'[line[i]] = "locked" => i = 1
        /\ pc'[line[i]] \in Using
        /\ pc'[line[i]] = "locking" => pc[line[i]] = "locking"
  BY SMTT(30), <1>0, <1>3, <1>5 DEF Aligned
<1>7. \A u \in Thread : pc'[u] \in Using => pc[u] \in Using
  BY <1>5
<1>8. Aligned'
  BY SMTT(30), <1>0, <1>5, <1>6, <1>7 DEF Aligned
<1> QED BY <1>0, <1>4, <1>5, <1>8 DEF Inv

\* A position counted from the next ticket is one less than from this one.
LEMMA Shift ==
  ASSUME NEW r \in 0..(Mod - 1), NEW n \in 0..(Mod - 1)
  PROVE  u16(u16(r + 1) + n) = u16(r + (n + 1))
<1>0. Mod \in Nat \ {0}
  BY MutexAssumption
<1>1. r + 1 \in 0..(2 * Mod - 1)
  BY <1>0
<1>2. u16(r + 1) = IF r + 1 < Mod THEN r + 1 ELSE r + 1 - Mod
  BY <1>0, <1>1, Wrap
<1>3. u16(r + (n + 1)) = IF r + (n + 1) < Mod THEN r + (n + 1) ELSE r + (n + 1) - Mod
  <2>1. r + (n + 1) \in 0..(2 * Mod - 1)
    BY <1>0
  <2> QED BY <1>0, <2>1, Wrap
<1>4. CASE r + 1 < Mod
  <2>1. u16(r + 1) + n = r + (n + 1)
    BY <1>0, <1>2, <1>4
  <2> QED BY <2>1
<1>5. CASE ~(r + 1 < Mod)
  <2>1. u16(r + 1) + n = n /\ n \in 0..(2 * Mod - 1)
    BY <1>0, <1>2, <1>5
  <2>2. u16(n) = n
    BY <1>0, <2>1, Wrap
  <2>3. u16(r + (n + 1)) = n
    BY <1>0, <1>3, <1>5
  <2> QED BY <2>1, <2>2, <2>3
<1> QED BY <1>4, <1>5

\* The first of the line leaves it, and the tickets of the others keep their distances
\* to rel.
LEMMA Part ==
  ASSUME Inv, NEW t \in Thread, Unlock(t)
  PROVE  /\ Inv'
         /\ line # <<>> /\ Head(line) = t /\ line' = Tail(line)
<1> USE DEF Counter, Using
<1>0. /\ MutexTypeOK /\ Aligned /\ mode = "steady"
      /\ Len(line) \in Nat /\ Cardinality(Thread) \in Nat
      /\ Mod \in Nat \ {0} /\ Cardinality(Thread) <= Mod /\ Len(line) <= Mod
      /\ rel \in 0..(Mod - 1) /\ acq \in 0..(Mod - 1)
  BY Known
<1>1. line # <<>> /\ line[1] = t /\ Len(line) >= 1
  <2>1. PICK k \in 1..Len(line) : line[k] = t
    BY <1>0 DEF Aligned, Unlock, Call, Goto
  <2>2. k = 1
    BY SMTT(30), <1>0, <2>1 DEF Aligned, Unlock, Call, Goto
  <2> QED BY <1>0, <2>1, <2>2
<1>2. Head(line) = t /\ line' = Tail(line)
  BY <1>0, <1>1 DEF Unlock, Left, MutexTypeOK
<1>3. /\ line' \in Seq(Thread) /\ Len(line') = Len(line) - 1
      /\ \A i \in 1..Len(line') : line'[i] = line[i + 1]
  BY <1>0, <1>1, <1>2, HeadTailProperties DEF MutexTypeOK
<1>4. \A i \in 1..Len(line) : line[i] \in Thread /\ (line[i] = t => i = 1)
  BY SMTT(30), <1>0, <1>1 DEF MutexTypeOK, Aligned
<1>5. /\ pc'[t] = "out" /\ \A u \in Thread : u # t => pc'[u] = pc[u]
      /\ acq' = acq /\ order' = order /\ mode' = mode /\ rel' = u16(rel + 1)
  BY <1>0 DEF MutexTypeOK, Unlock, Call, Goto
<1>6. rel' = IF rel + 1 < Mod THEN rel + 1 ELSE rel + 1 - Mod
  <2>1. rel + 1 \in 0..(2 * Mod - 1)
    BY <1>0 DEF MutexTypeOK
  <2> QED BY <1>0, <1>5, <2>1, Wrap
<1>7. rel' \in Counter
  BY <1>0, <1>6 DEF MutexTypeOK
<1>8. \A n \in 0..(Len(line) - 1) : u16(rel' + n) = u16(rel + (n + 1))
  <2> SUFFICES ASSUME NEW n \in 0..(Len(line) - 1)
               PROVE  u16(rel' + n) = u16(rel + (n + 1))
    OBVIOUS
  <2>1. n \in 0..(Mod - 1)
    BY <1>0
  <2> QED BY <1>0, <1>5, <2>1, Shift
<1>9. acq' = u16(rel' + Len(line'))
  BY SMTT(30), <1>0, <1>1, <1>3, <1>5, <1>8 DEF Aligned
<1>10. \A i \in 1..Len(line') :
         /\ i + 1 \in 1..Len(line)
         /\ pc'[line'[i]] = pc[line[i + 1]]
         /\ line'[i] = line[i + 1]
  <2> SUFFICES ASSUME NEW i \in 1..Len(line')
               PROVE  /\ i + 1 \in 1..Len(line)
                      /\ pc'[line'[i]] = pc[line[i + 1]]
                      /\ line'[i] = line[i + 1]
    OBVIOUS
  <2>1. i + 1 \in 1..Len(line) /\ i + 1 # 1 /\ line'[i] = line[i + 1]
    BY <1>0, <1>1, <1>3
  <2>2. line[i + 1] \in Thread /\ line[i + 1] # t
    BY <1>4, <2>1
  <2> QED BY <1>5, <2>1, <2>2
<1>11. \A i \in 1..Len(line') :
         pc'[line'[i]] = "locking" => order'[line'[i]] = u16(rel' + (i - 1))
  <2> SUFFICES ASSUME NEW i \in 1..Len(line'), pc'[line'[i]] = "locking"
               PROVE  order'[line'[i]] = u16(rel' + (i - 1))
    OBVIOUS
  <2>1. i - 1 \in 0..(Len(line) - 1) /\ (i - 1) + 1 = (i + 1) - 1
    BY <1>0, <1>3
  <2>2. order[line[i + 1]] = u16(rel + ((i + 1) - 1))
    BY SMTT(30), <1>0, <1>10 DEF Aligned
  <2> QED BY <2>1, <2>2, <1>5, <1>8, <1>10
<1>12. \A u \in Thread : pc'[u] \in Using => \E i \in 1..Len(line') : line'[i] = u
  <2> SUFFICES ASSUME NEW u \in Thread, pc'[u] \in Using
               PROVE  \E i \in 1..Len(line') : line'[i] = u
    OBVIOUS
  <2>1. u # t /\ pc[u] \in Using
    BY <1>5
  <2>2. PICK i \in 1..Len(line) : line[i] = u
    BY <2>1, <1>0 DEF Aligned
  <2>3. i # 1 /\ i - 1 \in 1..Len(line') /\ line'[i - 1] = u
    BY <2>1, <2>2, <1>0, <1>1, <1>3
  <2> QED BY <2>3
<1>13. \A i \in 1..Len(line') : pc'[line'[i]] \in Using /\ pc'[line'[i]] # "locked"
  <2> SUFFICES ASSUME NEW i \in 1..Len(line')
               PROVE  pc'[line'[i]] \in Using /\ pc'[line'[i]] # "locked"
    OBVIOUS
  <2>1. i + 1 \in 1..Len(line) /\ pc'[line'[i]] = pc[line[i + 1]]
    BY <1>10
  <2>4. i + 1 # 1
    BY <1>0, <1>3
  <2>2. pc[line[i + 1]] \in Using
    BY <1>0, <2>1 DEF Aligned
  <2>3. pc[line[i + 1]] # "locked"
    BY SMTT(30), <1>0, <2>1, <2>4 DEF Aligned
  <2> QED BY <2>1, <2>2, <2>3
<1>14. \A i, j \in 1..Len(line') : line'[i] = line'[j] => i = j
  BY SMTT(30), <1>0, <1>3, <1>10 DEF Aligned
<1>15. Len(line') <= Cardinality(Thread)
  BY <1>0, <1>3 DEF Aligned
<1>16. MutexTypeOK'
  BY SMTT(30), <1>0, <1>3, <1>5, <1>7 DEF MutexTypeOK, Unlock, Call, Goto
<1>17. Aligned'
  BY <1>9, <1>11, <1>12, <1>13, <1>14, <1>15 DEF Aligned
<1> QED BY SMTT(30), <1>0, <1>1, <1>2, <1>5, <1>16, <1>17 DEF Inv

\* Aligned is inductive, as long as no state is saved.
LEMMA AlignedStep ==
  ASSUME Inv, MutexNext, mode' = "steady"
  PROVE  Inv'
<1>0. mode = "steady"
  BY DEF Inv
<1>1. CASE Stop \/ Load
  BY <1>0, <1>1 DEF Stop, Load
<1>2. ASSUME NEW t \in Thread, LockBegin(t) \/ TryLock(t) PROVE Inv'
  BY <1>2, Join DEF LockBegin, TryLock, Call, Goto
<1>3. ASSUME NEW t \in Thread, MutexContinue(t) PROVE Inv'
  <2>1. CASE LockEnd(t)
    BY <2>1, Enter
  <2>2. CASE LockStopped(t)
    BY <2>2, <1>0 DEF LockStopped
  <2>3. CASE Unlock(t)
    BY <2>3, Part
  <2> QED BY <1>3, <2>1, <2>2, <2>3 DEF MutexContinue
<1> QED BY <1>1, <1>2, <1>3 DEF MutexNext
-----------------------------------------------------------------------------
\* The threads that have a ticket, in every mode
Users == {t \in Thread : pc[t] \in Using}

\* What is invariant also when states are saved.
Count ==
  /\ rel \in Counter /\ acq \in Counter
  /\ pc \in [Thread -> {"out"} \cup Using]
  /\ TicketsCounted

\* The users are finitely many, and no more than the counters tell apart.
LEMMA UsersFew ==
  /\ IsFiniteSet(Users) /\ Cardinality(Users) \in Nat
  /\ Cardinality(Users) <= Mod /\ Mod \in Nat \ {0}
<1>1. Users \subseteq Thread
  BY DEF Users
<1>2. IsFiniteSet(Users) /\ Cardinality(Users) <= Cardinality(Thread)
  BY <1>1, FS_Subset, ThreadAssumption
<1>3. Cardinality(Users) \in Nat /\ Cardinality(Thread) \in Nat
  BY <1>2, FS_CardinalityType, ThreadAssumption
<1> QED BY <1>2, <1>3, MutexAssumption

\* A thread takes a ticket (lock_begin, try_lock).
LEMMA Taken ==
  ASSUME Count, NEW t \in Thread, NEW to \in Using, Goto(t, "out", to),
         acq' = u16(acq + 1), rel' = rel
  PROVE  Count'
<1>1. pc' \in [Thread -> {"out"} \cup Using] /\ Users' = Users \cup {t} /\ t \notin Users
  BY DEF Count, Goto, Users, Using
<1>2. Cardinality(Users') = Cardinality(Users) + 1
  BY ZenonT(30), <1>1, UsersFew, FS_AddElement
<1>3. Cardinality(Users') <= Mod
  <2>1. Users' \subseteq Thread
    BY DEF Users
  <2>2. IsFiniteSet(Users') /\ Cardinality(Users') <= Cardinality(Thread)
    BY <2>1, FS_Subset, ThreadAssumption
  <2>3. Cardinality(Users') \in Nat /\ Cardinality(Thread) \in Nat
    BY <2>2, FS_CardinalityType, ThreadAssumption
  <2> QED BY <2>2, <2>3, MutexAssumption
<1> DEFINE n == Cardinality(Users)
<1>4. n \in Nat /\ n + 1 <= Mod /\ Mod \in Nat \ {0} /\ rel \in 0..(Mod - 1) /\ acq \in 0..(Mod - 1)
  BY <1>2, <1>3, UsersFew DEF Count, Counter
<1>5. acq = u16(rel + n)
  BY DEF Count, TicketsCounted, Users
<1>6. /\ rel + n \in 0..(2 * Mod - 1) /\ rel + (n + 1) \in 0..(2 * Mod - 1)
      /\ acq + 1 \in 0..(2 * Mod - 1)
  BY <1>4
<1> HIDE DEF n
<1>7. /\ acq = IF rel + n < Mod THEN rel + n ELSE rel + n - Mod
      /\ acq' = IF acq + 1 < Mod THEN acq + 1 ELSE acq + 1 - Mod
      /\ u16(rel + (n + 1)) = IF rel + (n + 1) < Mod THEN rel + (n + 1) ELSE rel + (n + 1) - Mod
  <2>1. u16(rel + n) = IF rel + n < Mod THEN rel + n ELSE rel + n - Mod
    BY <1>4, <1>6, Wrap
  <2>2. u16(acq + 1) = IF acq + 1 < Mod THEN acq + 1 ELSE acq + 1 - Mod
    BY <1>4, <1>6, Wrap
  <2>3. u16(rel + (n + 1)) = IF rel + (n + 1) < Mod THEN rel + (n + 1) ELSE rel + (n + 1) - Mod
    BY <1>4, <1>6, Wrap
  <2> QED BY <1>5, <2>1, <2>2, <2>3
<1>8. acq' \in 0..(Mod - 1) /\ acq' = u16(rel + (n + 1))
  BY <1>4, <1>7
<1>9. TicketsCounted'
  BY <1>2, <1>8 DEF TicketsCounted, Users, n
<1> QED BY <1>1, <1>8, <1>9 DEF Count, Counter

\* A thread returns its ticket (unlock).
LEMMA Returned ==
  ASSUME Count, NEW t \in Thread, Goto(t, "locked", "out"),
         rel' = u16(rel + 1), acq' = acq
  PROVE  Count'
<1>1. pc' \in [Thread -> {"out"} \cup Using] /\ Users' = Users \ {t} /\ t \in Users
  BY DEF Count, Goto, Users, Using
<1>2. Cardinality(Users') = Cardinality(Users) - 1 /\ Cardinality(Users') \in Nat
  BY <1>1, UsersFew, FS_RemoveElement, FS_CardinalityType
<1> DEFINE n == Cardinality(Users')
<1>3. n \in 0..(Mod - 1) /\ rel \in 0..(Mod - 1) /\ Mod \in Nat \ {0}
  BY <1>2, UsersFew DEF Count, Counter
<1>4. Cardinality(Users) = n + 1
  BY <1>2, UsersFew
<1> HIDE DEF n
<1>5. acq = u16(rel + (n + 1))
  BY <1>4 DEF Count, TicketsCounted, Users
<1>6. acq' = u16(rel' + n)
  BY <1>3, <1>5, Shift
<1>7. rel' \in 0..(Mod - 1)
  <2>1. rel + 1 \in 0..(2 * Mod - 1)
    BY <1>3
  <2>2. u16(rel + 1) = IF rel + 1 < Mod THEN rel + 1 ELSE rel + 1 - Mod
    BY <1>3, <2>1, Wrap
  <2> QED BY <1>3, <2>2
<1>8. TicketsCounted'
  BY <1>6 DEF TicketsCounted, Users, n
<1> QED BY <1>1, <1>7, <1>8 DEF Count, Counter

\* A step that leaves the counters, and leaves each thread with its ticket.
LEMMA Kept ==
  ASSUME Count, rel' = rel, acq' = acq,
         pc' = pc \/ \E t \in Thread : Goto(t, "locking", "locked")
  PROVE  Count'
<1>1. pc' \in [Thread -> {"out"} \cup Using] /\ Users' = Users
  BY DEF Count, Goto, Users, Using
<1>2. TicketsCounted'
  BY <1>1 DEF Count, TicketsCounted, Users
<1> QED BY <1>1, <1>2 DEF Count

\* The tickets are counted at first and after every step.
LEMMA CountInductive ==
  /\ MutexInit => Count
  /\ Count /\ [MutexNext]_mutexVars => Count'
<1>1. ASSUME MutexInit PROVE Count
  <2>1. Users = {} /\ pc \in [Thread -> {"out"} \cup Using]
    BY <1>1 DEF MutexInit, ThreadInit, Users, Using
  <2>2. Mod \in Nat \ {0} /\ u16(0) = 0
    BY MutexAssumption, Wrap
  <2>3. Cardinality(Users) = 0
    BY <2>1, FS_EmptySet
  <2>4. TicketsCounted
    BY <1>1, <2>2, <2>3 DEF MutexInit, TicketsCounted, Users
  <2> QED BY <1>1, <2>1, <2>2, <2>4 DEF MutexInit, Count, Counter
<1>2. ASSUME Count, [MutexNext]_mutexVars PROVE Count'
  <2>1. CASE UNCHANGED mutexVars
    BY <1>2, <2>1, Kept DEF mutexVars
  <2>2. CASE (Stop \/ Load) /\ UNCHANGED <<rel, acq, order, line>>
    BY <1>2, <2>2, Kept DEF Stop, Load
  <2>3. ASSUME NEW t \in Thread, LockBegin(t) \/ TryLock(t) PROVE Count'
    BY <1>2, <2>3, Taken DEF LockBegin, TryLock, Call, Using
  <2>4. ASSUME NEW t \in Thread, LockEnd(t) \/ LockStopped(t) PROVE Count'
    BY <1>2, <2>4, Kept DEF LockEnd, LockStopped
  <2>5. ASSUME NEW t \in Thread, Unlock(t) PROVE Count'
    BY <1>2, <2>5, Returned DEF Unlock, Call
  <2> QED BY SMTT(30), <1>2, <2>1, <2>2, <2>3, <2>4, <2>5 DEF MutexNext, MutexContinue
<1> QED BY <1>1, <1>2

\* For every number of threads that the counters can tell apart: no ticket is lost, also
\* when states are saved; and as long as none is, the tickets of those who wait follow one
\* another from rel to acq, and the holder is the first of them (cellSyncMutexLock,
\* cellSyncMutexTryLock, cellSyncMutexUnlock).
THEOREM MutexAlwaysSound == MutexSpec => []MutexSound
<1> DEFINE Safe == Count /\ (mode = "steady" => Inv)
<1>1. MutexInit => Safe
  BY CountInductive, InitInv
<1>2. Safe /\ [MutexNext]_mutexVars => Safe'
  <2> SUFFICES ASSUME Safe, [MutexNext]_mutexVars PROVE Safe'
    OBVIOUS
  <2>1. Count'
    BY CountInductive
  <2>2. ASSUME mode' = "steady" PROVE Inv'
    <3>1. mode = "steady"
      BY <2>2 DEF mutexVars, MutexNext, MutexContinue, Stop, Load, LockBegin, TryLock,
                  LockEnd, LockStopped, Unlock
    <3>2. CASE UNCHANGED mutexVars
      BY <3>1, <3>2 DEF mutexVars, Inv, MutexTypeOK, Aligned
    <3>3. CASE MutexNext
      BY <3>1, <3>3, <2>2, AlignedStep
    <3> QED BY <3>2, <3>3
  <2> QED BY <2>1, <2>2
<1>3. Safe => MutexSound
  BY DEF MutexSound, Inv, Count
<1> QED BY <1>1, <1>2, <1>3, PTL DEF MutexSpec

\* As long as no state is saved, at most one thread has the mutex.
THEOREM Exclusive == MutexSpec => [](mode = "steady" => MutualExclusion)
<1>1. MutexSound => (mode = "steady" => MutualExclusion)
  <2> SUFFICES ASSUME Aligned, NEW t \in Thread, NEW u \in Thread,
                      pc[t] = "locked", pc[u] = "locked"
               PROVE  t = u
    BY DEF MutexSound, MutualExclusion
  <2>1. PICK i \in 1..Len(line) : line[i] = t
    BY DEF Aligned, Using
  <2>2. PICK j \in 1..Len(line) : line[j] = u
    BY DEF Aligned, Using
  <2> QED BY <2>1, <2>2 DEF Aligned
<1> QED BY <1>1, MutexAlwaysSound, PTL
=============================================================================
