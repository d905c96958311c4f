------------------------- MODULE Lv2SchedulerProofs -------------------------
(***************************************************************************)
(* The safety of Lv2Scheduler, for any number of threads, hardware threads *)
(* and priorities.  Inv is the inductive invariant; each of the properties *)
(* that TLC checks on small instances is a consequence of it.              *)
(***************************************************************************)
EXTENDS Lv2Scheduler, Lv2SchedProofs

-----------------------------------------------------------------------------
(***************************************************************************)
(* Changing a priority, and yielding                                       *)
(***************************************************************************)
\* A change of priority requeues the thread where it belongs, queued or not.
LEMMA SetPrioCore ==
  ASSUME NEW s, Core(s), OnProc(s), NEW c \in Thread, NEW t \in Thread, NEW p \in Int
  PROVE  /\ Core(SetPrioUnlocked(s, c, t, p))
         /\ OnProc(SetPrioUnlocked(s, c, t, p))
         /\ Frame(s, SetPrioUnlocked(s, c, t, p))
         /\ Range(SetPrioUnlocked(s, c, t, p).g_ppu) = Range(s.g_ppu)
         /\ \A u \in Thread \ {c} : Guest(s, u) => Guest(SetPrioUnlocked(s, c, t, p), u)
<1> DEFINE q == s.g_ppu
           P == [s.prio EXCEPT ![t] = p]
           r == SetPrioUnlocked(s, c, t, p)
<1>0. q \in Seq(Thread) /\ s.prio \in [Thread -> Int] /\ P \in [Thread -> Int]
  BY DEF Core, SchedType
<1>1. \A u \in Thread \ {t} : P[u] = s.prio[u]
  BY <1>0
<1> HIDE DEF P
<1>2. CASE s.prio[t] = p /\ t = c
  BY <1>2 DEF SetPrioUnlocked, Frame
<1>3. CASE ~(s.prio[t] = p /\ t = c) /\ t \notin Range(q)
  <2>1. r = [s EXCEPT !.prio = P]
    BY <1>3 DEF SetPrioUnlocked, Core, SchedType, P
  <2> HIDE DEF r
  <2>2. /\ r \in SchedType /\ r.prio = P
        /\ r.g_ppu = s.g_ppu /\ r.waiting = s.waiting /\ r.suspend = s.suspend
        /\ r.ack_suspend = s.ack_suspend /\ r.g_pending = s.g_pending
        /\ r.signal = s.signal /\ r.notify = s.notify
        /\ r.stop = s.stop /\ r.again = s.again /\ r.cpu_sleep = s.cpu_sleep
    BY Zenon, <1>0, <2>1 DEF Core, SchedType
  <2>3. Ordered(q, P)
    <3>1. \A i \in 1..Len(q) : q[i] \in Thread \ {t}
      BY <1>0, <1>3, RangeElement
    <3> QED
      BY <1>1, <3>1 DEF Core, Ordered
  <2>4. Core(r) /\ OnProc(r) /\ Frame(s, r)
    BY <2>2, <2>3 DEF Core, OnProc, Running, Frame, Held
  <2>5. \A u \in Thread \ {c} : Guest(s, u) => Guest(r, u)
    BY <2>2 DEF Guest
  <2> QED
    BY <2>2, <2>4, <2>5 DEF r
<1>4. CASE ~(s.prio[t] = p /\ t = c) /\ t \in Range(q)
  <2> DEFINE U == Unqueue(q, t)
             m == [s EXCEPT !.g_ppu = U, !.prio = P]
             e == Emplace(m, t)
  <2>1. U \in Seq(Thread) /\ Range(U) = Range(q) \ {t}
    <3>1. Distinct(q)
      BY DEF Core, Ordered, Distinct
    <3> QED
      BY <1>0, <3>1, UnqueueProperties
  <2>2. Ordered(U, P)
    <3>1. Ordered(U, s.prio)
      BY <1>0, UnqueueOrdered DEF Core
    <3>2. \A i \in 1..Len(U) : U[i] \in Thread \ {t}
      BY <2>1, RangeElement
    <3> HIDE DEF U
    <3> QED
      BY <1>1, <3>1, <3>2 DEF Ordered
  <2>3. r = AwakeUnlocked(e, c)
    BY <1>4 DEF SetPrioUnlocked, Core, SchedType, P
  <2> HIDE DEF U, r
  <2>4. /\ m \in SchedType /\ m.g_ppu = U /\ m.prio = P
        /\ m.waiting = s.waiting /\ m.suspend = s.suspend
        /\ m.ack_suspend = s.ack_suspend /\ m.g_pending = s.g_pending
        /\ m.signal = s.signal /\ m.notify = s.notify
        /\ m.stop = s.stop /\ m.again = s.again /\ m.cpu_sleep = s.cpu_sleep
    BY Zenon, <1>0, <2>1 DEF Core, SchedType
  <2> HIDE DEF m
  <2>5. /\ e \in SchedType
        /\ Ordered(e.g_ppu, e.prio)
        /\ Range(e.g_ppu) = Range(m.g_ppu) \cup {t}
        /\ e.waiting = IF t \in Range(m.g_ppu) THEN m.waiting ELSE m.waiting \ {t}
        /\ e.suspend = m.suspend
        /\ e.ack_suspend = m.ack_suspend /\ e.g_pending = m.g_pending
        /\ e.signal = m.signal /\ e.notify = m.notify
        /\ e.stop = m.stop /\ e.again = m.again /\ e.cpu_sleep = m.cpu_sleep
    <3>1. m \in SchedType /\ Ordered(m.g_ppu, m.prio)
      BY <2>2, <2>4
    <3> QED
      BY SMTT(30), <3>1, EmplaceEffect
  <2> HIDE DEF e
  <2>6. Range(e.g_ppu) = Range(q)
    BY <1>4, <2>1, <2>4, <2>5
  <2>7. Core(e)
    BY <2>1, <2>4, <2>5, <2>6 DEF Core
  <2>8. Frame(s, e) /\ \A u \in Thread : Guest(s, u) => Guest(e, u)
    BY <2>4, <2>5, <2>6 DEF Frame, Held, Guest
  <2>9. /\ Core(r) /\ OnProc(r) /\ Frame(e, r) /\ Range(r.g_ppu) = Range(e.g_ppu)
        /\ \A u \in Thread \ {c} : Guest(e, u) => Guest(r, u)
    BY <2>3, <2>7, AwakeUnlockedCore
  <2>10. Frame(s, r)
    BY <2>8, <2>9 DEF Frame
  <2> QED
    BY <2>6, <2>8, <2>9, <2>10 DEF r
<1> QED
  BY <1>2, <1>3, <1>4

\* The run of equals that starts at a queued thread ends somewhere.
LEMMA LastPeerProperties ==
  ASSUME NEW s, Core(s), NEW t \in Range(s.g_ppu)
  PROVE  /\ Pos(s.g_ppu, t) \in 1..Len(s.g_ppu)
         /\ s.g_ppu[Pos(s.g_ppu, t)] = t
         /\ LastPeer(s, t) \in Pos(s.g_ppu, t)..Len(s.g_ppu)
         /\ \A j \in Pos(s.g_ppu, t)..LastPeer(s, t) : s.prio[s.g_ppu[j]] = s.prio[t]
<1> DEFINE q == s.g_ppu
           p == Pos(q, t)
           ends == {i \in p..Len(q) : i = Len(q) \/ s.prio[q[i + 1]] # s.prio[t]}
<1>1. q \in Seq(Thread) /\ Len(q) \in Nat
  BY DEF Core, SchedType
<1>2. p \in 1..Len(q) /\ q[p] = t
  BY SMTT(30), <1>1, RangeElement DEF Pos
<1> HIDE DEF p
<1>3. PICK l \in ends : \A i \in ends : l <= i
  <2>1. ends \in SUBSET Nat
    BY <1>1, <1>2
  <2>2. Len(q) \in ends
    BY <1>1, <1>2
  <2> HIDE DEF ends
  <2> QED
    BY <2>1, <2>2, LeastElement
<1>4. l \in p..Len(q) /\ (l = Len(q) \/ s.prio[q[l + 1]] # s.prio[t])
  BY <1>3
<1>5. ASSUME NEW j \in p..l PROVE s.prio[q[j]] = s.prio[t]
  <2>1. CASE j = p
    BY <1>2, <2>1
  <2>2. CASE j # p
    <3>1. j - 1 \in p..Len(q) /\ j - 1 < l /\ (j - 1) + 1 = j
      BY <1>1, <1>2, <1>4, <2>2
    <3>2. j - 1 \notin ends
      <4> HIDE DEF ends
      <4>1. l \in Int
        BY <1>1, <1>2, <1>4
      <4> QED
        BY <1>3, <3>1, <4>1
    <3>3. s.prio[q[(j - 1) + 1]] = s.prio[t]
      BY SMTT(30), <3>1, <3>2
    <3> QED
      BY <3>1, <3>3
  <2> QED
    BY <2>1, <2>2
<1>6. /\ LastPeer(s, t) \in p..Len(q)
      /\ \A j \in p..LastPeer(s, t) : s.prio[q[j]] = s.prio[t]
  <2>1. \E i \in p..Len(q) :
          /\ \A j \in p..i : s.prio[q[j]] = s.prio[t]
          /\ i = Len(q) \/ s.prio[q[i + 1]] # s.prio[t]
    BY <1>4, <1>5
  <2> QED
    BY ZenonT(30), <2>1 DEF LastPeer, p
<1> QED
  BY <1>2, <1>6 DEF p

\* A yield keeps the queue ordered, and when the thread keeps its hardware thread
\* nobody else loses one.
LEMMA YieldCore ==
  ASSUME NEW s, Core(s), OnProc(s), NEW t \in Thread
  PROVE  /\ Core(YieldUnlocked(s, t))
         /\ OnProc(YieldUnlocked(s, t))
         /\ Frame(s, YieldUnlocked(s, t))
         /\ Range(YieldUnlocked(s, t).g_ppu) = Range(s.g_ppu)
         /\ \A u \in Thread \ {t} : Guest(s, u) => Guest(YieldUnlocked(s, t), u)
<1> DEFINE q == s.g_ppu
           prio == s.prio
           p == Pos(q, t)
           l == LastPeer(s, t)
           y == YieldUnlocked(s, t)
<1>1. CASE t \notin Range(q) \/ l = p
  BY <1>1 DEF YieldUnlocked, Frame
<1>2. CASE ~(t \notin Range(q) \/ l = p)
  <2> DEFINE U == Unqueue(q, t)
             R == Link(U, l, t)
             r == [s EXCEPT !.g_ppu = R]
  <2>0. /\ q \in Seq(Thread) /\ prio \in [Thread -> Int] /\ Len(q) \in Nat
        /\ ppu_threads \in Nat /\ t \in Range(q)
    BY <1>2, SchedAssumption DEF Core, SchedType
  <2>1. /\ p \in 1..Len(q) /\ q[p] = t /\ l \in p..Len(q)
        /\ \A j \in p..l : prio[q[j]] = prio[t]
    BY <2>0, LastPeerProperties
  <2>2. /\ U \in Seq(Thread) /\ Len(U) = Len(q) - 1
        /\ \A j \in 1..(Len(q) - 1) : U[j] = IF j < p THEN q[j] ELSE q[j + 1]
    <3>1. U = Unlink(q, p)
      BY <2>0 DEF Unqueue
    <3> HIDE DEF U, p
    <3> QED
      BY Zenon, <2>0, <2>1, <3>1, UnlinkProperties
  <2>3. Range(U) = Range(q) \ {t}
    <3>1. Distinct(q)
      BY DEF Core, Ordered, Distinct
    <3> QED
      BY <2>0, <3>1, UnqueueProperties
  <2>4. Ordered(U, prio)
    BY <2>0, UnqueueOrdered DEF Core
  <2>5. y = IF l <= ppu_threads THEN r ELSE AwakeUnlocked(r, t)
    BY <1>2 DEF YieldUnlocked
  <2> HIDE DEF p, l, U, y
  <2>6. l \in 1..(Len(U) + 1)
    BY <2>0, <2>1, <2>2
  <2>n. /\ p \in Nat /\ l \in Nat /\ Len(q) \in Nat
        /\ 1 <= p /\ p <= l /\ l <= Len(q) /\ Len(U) = Len(q) - 1
    BY <2>0, <2>1, <2>2
  <2>7. ASSUME NEW j \in 1..Len(U), j < l PROVE prio[U[j]] <= prio[t]
    <3>1. j \in 1..(Len(q) - 1) /\ j \in 1..Len(q) /\ j + 1 \in 1..Len(q)
      BY <2>n
    <3>2. CASE j < p
      <4>1. U[j] = q[j]
        BY <2>2, <3>1, <3>2
      <4>2. prio[q[j]] <= prio[q[p]]
        BY <2>1, <3>1, <3>2 DEF Core, Ordered
      <4> QED
        BY <2>1, <4>1, <4>2
    <3>3. CASE ~(j < p)
      <4>1. U[j] = q[j + 1] /\ j + 1 \in p..l
        <5>1. j + 1 \in p..l
          BY <2>n, <2>7, <3>3
        <5>2. U[j] = q[j + 1]
          BY SMTT(30), <2>2, <3>1, <3>3
        <5> QED
          BY <5>1, <5>2
      <4>2. prio[q[j + 1]] = prio[t] /\ prio[t] \in Int
        BY SMTT(30), <2>0, <2>1, <4>1
      <4> HIDE DEF prio, q
      <4> QED
        BY <4>1, <4>2
    <3> QED
      BY <3>2, <3>3
  <2>8. ASSUME NEW j \in 1..Len(U), l <= j PROVE prio[t] <= prio[U[j]]
    <3>1. /\ j \in 1..(Len(q) - 1) /\ j + 1 \in 1..Len(q) /\ p < j + 1 /\ ~(j < p)
      BY <2>0, <2>1, <2>2, <2>8
    <3>2. U[j] = q[j + 1]
      BY <2>2, <3>1
    <3>3. prio[q[p]] <= prio[q[j + 1]]
      BY <2>1, <3>1 DEF Core, Ordered
    <3> QED
      BY <2>1, <3>2, <3>3
  <2>9. /\ R \in Seq(Thread) /\ Len(R) = Len(U) + 1
        /\ Range(R) = Range(U) \cup {t}
        /\ Ordered(R, prio)
    <3>1. t \in Thread \ Range(U)
      BY <2>3
    <3>2. \A j \in 1..Len(U) : j < l => prio[U[j]] <= prio[t]
      BY <2>7
    <3>3. \A j \in 1..Len(U) : l <= j => prio[t] <= prio[U[j]]
      BY <2>8
    <3>4. U \in Seq(Thread) /\ prio \in [Thread -> Int]
      BY <2>0, <2>2
    <3> HIDE DEF prio
    <3> QED
      BY Zenon, <2>4, <2>6, <3>1, <3>2, <3>3, <3>4, InsertOrdered
  <2>10. \A j \in 1..(Len(U) + 1) :
           R[j] = IF j < l THEN U[j] ELSE IF j = l THEN t ELSE U[j - 1]
    <3>1. ASSUME NEW u \in Seq(Thread), NEW k \in 1..(Len(u) + 1)
          PROVE  \A j \in 1..(Len(u) + 1) :
                   Link(u, k, t)[j] = IF j < k THEN u[j] ELSE IF j = k THEN t ELSE u[j - 1]
      BY LinkProperties
    <3> HIDE DEF U, l
    <3> QED
      BY <2>2, <2>6, <3>1, Zenon
  <2> HIDE DEF R
  <2>11. Range(R) = Range(q)
    BY <2>0, <2>3, <2>9
  <2>12. /\ r \in SchedType /\ r.g_ppu = R /\ r.prio = prio
         /\ r.waiting = s.waiting /\ r.suspend = s.suspend
         /\ r.ack_suspend = s.ack_suspend /\ r.g_pending = s.g_pending
         /\ r.signal = s.signal /\ r.notify = s.notify
         /\ r.stop = s.stop /\ r.again = s.again /\ r.cpu_sleep = s.cpu_sleep
    BY Zenon, <2>9 DEF Core, SchedType
  <2> HIDE DEF r
  <2>13. Core(r)
    BY SMTT(30), <2>9, <2>11, <2>12 DEF Core
  <2>14. Frame(s, r) /\ \A u \in Thread : Guest(s, u) => Guest(r, u)
    BY <2>11, <2>12 DEF Frame, Held, Guest
  <2>15. CASE l <= ppu_threads
    <3>1. ASSUME NEW k \in 1..Len(q), k <= ppu_threads
          PROVE  \E j \in 1..Len(R) : j <= ppu_threads /\ R[j] = q[k]
      <4>1. CASE k = p
        <5>1. l \in 1..Len(R) /\ R[l] = t
          BY SMTT(30), <2>0, <2>2, <2>6, <2>9, <2>10
        <5> QED
          BY SMTT(30), <2>1, <2>15, <4>1, <5>1
      <4>2. CASE k < p
        <5>1. /\ k \in 1..Len(R) /\ k \in 1..(Len(U) + 1) /\ k < l
              /\ k \in 1..(Len(q) - 1)
          <6>1. Len(R) = Len(U) + 1
            BY <2>9
          <6> QED
            BY <2>n, <4>2, <6>1
        <5>2. R[k] = U[k] /\ U[k] = q[k]
          BY <2>2, <2>10, <4>2, <5>1
        <5> QED
          BY <3>1, <5>1, <5>2
      <4>3. CASE p < k /\ k <= l
        <5>1. /\ k - 1 \in 1..Len(R) /\ k - 1 \in 1..(Len(U) + 1) /\ k - 1 < l
              /\ k - 1 \in 1..(Len(q) - 1) /\ ~(k - 1 < p) /\ (k - 1) + 1 = k
              /\ k - 1 <= ppu_threads
          BY SMTT(30), <2>0, <2>1, <2>2, <2>9, <3>1, <4>3
        <5>2. R[k - 1] = U[k - 1]
          BY <2>10, <5>1
        <5>3. U[k - 1] = q[(k - 1) + 1]
          BY <2>2, <5>1
        <5> QED
          BY <5>1, <5>2, <5>3
      <4>4. CASE k > l
        <5>1. /\ k \in 1..Len(R) /\ k \in 1..(Len(U) + 1) /\ ~(k < l) /\ k # l
              /\ k - 1 \in 1..(Len(q) - 1) /\ ~(k - 1 < p) /\ (k - 1) + 1 = k
          BY <2>0, <2>1, <2>2, <2>9, <4>4
        <5>2. R[k] = U[k - 1]
          BY <2>10, <5>1
        <5>3. U[k - 1] = q[(k - 1) + 1]
          BY <2>2, <5>1
        <5> QED
          BY <3>1, <5>1, <5>2, <5>3
      <4> QED
        BY <2>0, <2>1, <4>1, <4>2, <4>3, <4>4, SMTT(30)
    <3>2. OnProc(r)
      <4>1. SUFFICES ASSUME NEW u \in Range(q), u \notin s.suspend
                     PROVE  u \in Running(r)
        BY <2>11, <2>12 DEF OnProc
      <4>2. PICK k \in 1..Len(q) : k <= ppu_threads /\ q[k] = u
        BY <4>1, RunningElement DEF OnProc
      <4>3. PICK j \in 1..Len(R) : j <= ppu_threads /\ R[j] = u
        BY <3>1, <4>2
      <4> QED
        BY SMTT(30), <2>12, <2>13, <4>3, RunningElement
    <3>3. y = r
      BY <2>5, <2>15
    <3> QED
      BY SMTT(30), <2>11, <2>12, <2>13, <2>14, <3>2, <3>3 DEF y
  <2>16. CASE ~(l <= ppu_threads)
    <3>1. y = AwakeUnlocked(r, t)
      BY <2>5, <2>16
    <3>2. /\ Core(y) /\ OnProc(y) /\ Frame(r, y) /\ Range(y.g_ppu) = Range(r.g_ppu)
          /\ \A u \in Thread \ {t} : Guest(r, u) => Guest(y, u)
      BY SMTT(30), <2>13, <3>1, AwakeUnlockedCore
    <3>3. Frame(s, y)
      BY <2>14, <3>2 DEF Frame
    <3> QED
      BY <2>11, <2>12, <2>14, <3>2, <3>3 DEF y
  <2> QED
    BY <2>15, <2>16
<1> QED
  BY <1>1, <1>2

-----------------------------------------------------------------------------
(***************************************************************************)
(* The inductive invariant                                                 *)
(***************************************************************************)
\* What a thread's place in its control flow says about the scheduler.
ThreadInv(t) ==
  /\ pc[t] = "guest" => Guest(sched, t)
  /\ pc[t] # "exited" => Held(sched, t)
  /\ t \in sched.again => pc[t] = "redo"
  /\ pc[t] \notin {"check", "late"} => sched.cpu_sleep[t] = "no"

Inv ==
  /\ TypeOK
  /\ Core(sched) /\ OnProc(sched) /\ NoIdle(sched)
  /\ sched.stop = {}
  /\ \A t \in Thread : ThreadInv(t)

\* The initial state.
LEMMA InitInv == Init => Inv
<1> SUFFICES ASSUME Init PROVE Inv
  OBVIOUS
<1> DEFINE z == [t \in Thread |-> 0]
           n == [t \in Thread |-> "no"]
<1>1. z \in [Thread -> 0..2] /\ n \in [Thread -> {"no", "call", "done"}]
  <2>1. 0 \in 0..2
    OBVIOUS
  <2> QED
    BY <2>1
<1>2. \A t \in Thread : n[t] = "no"
  OBVIOUS
<1>3. sched = [g_ppu |-> <<>>, waiting |-> {}, g_pending |-> 0, ready |-> FALSE,
               prio |-> InitPrio, suspend |-> Thread,
               signal |-> {}, notify |-> {}, stop |-> {}, again |-> {},
               ack_suspend |-> {}, cancel_sleep |-> z, cpu_sleep |-> n]
  BY Zenon DEF Init, InitSched
<1> HIDE DEF z, n
<1>4. /\ sched \in SchedType
      /\ sched.g_ppu = <<>> /\ sched.g_pending = 0 /\ ~sched.ready
      /\ sched.suspend = Thread /\ sched.ack_suspend = {} /\ sched.signal = {}
      /\ sched.waiting = {} /\ sched.stop = {} /\ sched.again = {}
      /\ sched.cpu_sleep = n
  <2>1. /\ InitPrio \in [Thread -> Int] /\ <<>> \in Seq(Thread) /\ 0 \in Nat
        /\ {} \in SUBSET Thread /\ Thread \in SUBSET Thread /\ FALSE \in BOOLEAN
    BY SchedAssumption
  <2>2. sched \in SchedType
    BY <1>1, <1>3, <2>1, Zenon DEF SchedType
  <2> QED
    BY <1>3, <2>2
<1>5. Len(<<>>) = 0 /\ Range(<<>>) = {} /\ Cardinality({}) = 0
  BY FS_EmptySet DEF Range
<1>6. Ordered(sched.g_ppu, sched.prio)
  BY <1>4, <1>5 DEF Ordered
<1>7. Core(sched) /\ OnProc(sched) /\ NoIdle(sched)
  BY <1>4, <1>5, <1>6 DEF Core, OnProc, NoIdle
<1>8. pc \in [Thread -> {"new"}]
  BY DEF Init
<1>9. TypeOK
  BY <1>4, <1>8 DEF TypeOK
<1>10. \A t \in Thread : ThreadInv(t)
  BY <1>2, <1>4, <1>8 DEF ThreadInv, Held
<1> QED
  BY <1>4, <1>7, <1>9, <1>10 DEF Inv

\* The values pc takes.
Places == {"new", "check", "guest", "blocked", "timed", "late", "usleep", "redo", "exited"}

\* The part of the step that concerns the scheduler record alone.
LEMMA SchedStep ==
  ASSUME Inv, NEW r, sched' = r, Core(r), OnProc(r), NoIdle(r), Frame(sched, r),
         pc' \in [Thread -> Places],
         \A u \in Thread : pc'[u] # pc[u] =>
           pc'[u] # "guest" /\ pc[u] \notin {"exited", "redo", "check", "late"},
         \A u \in Thread : pc'[u] = "guest" => Guest(r, u)
  PROVE  Inv'
<1>1. TypeOK'
  BY DEF TypeOK, Core, Places
<1>2. Core(sched)' /\ OnProc(sched)' /\ NoIdle(sched)'
  <2>1. Core(sched)'
    BY DEF Core
  <2>2. OnProc(sched)'
    BY DEF OnProc, Running
  <2>3. NoIdle(sched)'
    BY DEF NoIdle, Running
  <2> QED
    BY <2>1, <2>2, <2>3
<1>3. sched'.stop = {}
  BY DEF Inv, Frame
<1>4. ASSUME NEW u \in Thread PROVE ThreadInv(u)'
  <2>1. ThreadInv(u) /\ pc \in [Thread -> Places]
    BY DEF Inv, TypeOK, Places
  <2>2. pc'[u] # "exited" => Held(r, u)
    <3>1. pc'[u] # "exited" => pc[u] # "exited"
      OBVIOUS
    <3> QED
      BY <2>1, <3>1 DEF ThreadInv, Frame
  <2>3. pc'[u] \notin {"check", "late"} => r.cpu_sleep[u] = "no"
    BY <2>1 DEF ThreadInv, Frame
  <2>4. u \in r.again => pc'[u] = "redo"
    BY <2>1 DEF ThreadInv, Frame
  <2> QED
    BY <2>2, <2>3, <2>4 DEF ThreadInv, Guest, Held
<1> QED
  BY <1>1, <1>2, <1>3, <1>4 DEF Inv

\* A thread, or the host, awakes a thread.
LEMMA AwakeStep ==
  ASSUME Inv, NEW c \in Caller, NEW t \in Thread, NEW late \in SUBSET Thread,
         sched' = Awake(sched, c, t, late),
         pc' \in [Thread -> Places],
         \A u \in Thread : pc'[u] # pc[u] => pc'[u] = "check" /\ pc[u] \in {"new", "guest"},
         c # NoThread => pc'[c] # "guest"
  PROVE  Inv'
<1> DEFINE r == Awake(sched, c, t, late)
<1>0. Core(sched)
  BY DEF Inv
<1>1. /\ Core(r) /\ OnProc(r) /\ NoIdle(r) /\ Frame(sched, r)
      /\ Range(r.g_ppu) = Range(sched.g_ppu) \cup {t}
      /\ \A u \in Thread \ {c} : Guest(sched, u) => Guest(r, u)
  <2>1. ASSUME NEW d \in Caller
        PROVE  /\ Core(Awake(sched, d, t, late))
               /\ OnProc(Awake(sched, d, t, late))
               /\ NoIdle(Awake(sched, d, t, late))
               /\ Frame(sched, Awake(sched, d, t, late))
               /\ Range(Awake(sched, d, t, late).g_ppu) = Range(sched.g_ppu) \cup {t}
               /\ \A u \in Thread \ {d} :
                    Guest(sched, u) => Guest(Awake(sched, d, t, late), u)
    BY Zenon, <1>0, AwakeCore
  <2> QED
    BY <2>1
<1>2. sched' = r
  OBVIOUS
<1> HIDE DEF r
<1>3. ASSUME NEW u \in Thread, pc'[u] = "guest" PROVE Guest(r, u)
  <2>1. pc[u] = "guest" /\ u # c
    BY <1>3, SchedAssumption DEF Caller
  <2> QED
    BY <1>1, <2>1 DEF Inv, ThreadInv
<1>4. \A u \in Thread : pc'[u] # pc[u] =>
        pc'[u] # "guest" /\ pc[u] \notin {"exited", "redo", "check", "late"}
  OBVIOUS
<1> QED
  BY SMTT(30), <1>1, <1>2, <1>3, <1>4, SchedStep

\* A thread in guest code sleeps.
LEMMA SleepStep ==
  ASSUME Inv, NEW t \in Thread, NEW timeout \in BOOLEAN, NEW late \in SUBSET Thread,
         sched' = Sleep(sched, t, timeout, late),
         pc[t] = "guest", NEW p \in {"blocked", "timed", "usleep"},
         pc' = [pc EXCEPT ![t] = p]
  PROVE  Inv'
<1> DEFINE r == Sleep(sched, t, timeout, late)
<1>0. Guest(sched, t) /\ pc \in [Thread -> Places]
  BY DEF Inv, ThreadInv, TypeOK, Places
<1>1. /\ Core(r) /\ OnProc(r) /\ NoIdle(r) /\ Frame(sched, r)
      /\ Range(r.g_ppu) = Range(sched.g_ppu) \ {t}
      /\ \A u \in Thread \ {t} : Guest(sched, u) => Guest(r, u)
  BY <1>0, SleepCore DEF Inv
<1>2. sched' = r
  OBVIOUS
<1> HIDE DEF r
<1>3. ASSUME NEW u \in Thread, pc'[u] = "guest" PROVE Guest(r, u)
  <2>1. pc[u] = "guest" /\ u # t
    BY <1>0, <1>3
  <2> QED
    BY <1>1, <2>1 DEF Inv, ThreadInv
<1>4. /\ pc' \in [Thread -> Places]
      /\ \A u \in Thread : pc'[u] # pc[u] =>
           pc'[u] # "guest" /\ pc[u] \notin {"exited", "redo", "check", "late"}
  BY <1>0 DEF Places
<1> QED
  BY <1>1, <1>2, <1>3, <1>4, SchedStep

\* A thread in guest code makes a call that queues and takes off nobody.
LEMMA CallStep ==
  ASSUME Inv, NEW t \in Thread, NEW s, Core(s), OnProc(s), Frame(sched, s),
         Range(s.g_ppu) = Range(sched.g_ppu),
         \A u \in Thread \ {t} : Guest(sched, u) => Guest(s, u),
         NEW late \in SUBSET Thread, sched' = ScheduleAll(s, t, late),
         pc[t] = "guest", pc' = [pc EXCEPT ![t] = "check"]
  PROVE  Inv'
<1> DEFINE r == ScheduleAll(s, t, late)
<1>0. pc \in [Thread -> Places]
  BY DEF Inv, TypeOK, Places
<1>1. /\ Core(r) /\ OnProc(r) /\ NoIdle(r) /\ Frame(s, r) /\ r.g_ppu = s.g_ppu
      /\ \A u \in Thread : Guest(s, u) => Guest(r, u)
  BY ScheduleAllCore
<1>2. sched' = r
  OBVIOUS
<1> HIDE DEF r
<1>3. Frame(sched, r)
  BY <1>1 DEF Frame
<1>4. ASSUME NEW u \in Thread, pc'[u] = "guest" PROVE Guest(r, u)
  <2>1. pc[u] = "guest" /\ u # t
    BY <1>0, <1>4
  <2> QED
    BY <1>1, <2>1 DEF Inv, ThreadInv
<1>5. /\ pc' \in [Thread -> Places]
      /\ \A u \in Thread : pc'[u] # pc[u] =>
           pc'[u] # "guest" /\ pc[u] \notin {"exited", "redo", "check", "late"}
  BY <1>0 DEF Places
<1> QED
  BY SMTT(30), <1>1, <1>2, <1>3, <1>4, <1>5, SchedStep

\* _sys_ppu_thread_exit: the thread leaves the run queue for good.
LEMMA ExitStep ==
  ASSUME Inv, NEW t \in Thread, Exit(t)
  PROVE  Inv'
<1>0. /\ pc \in [Thread -> Places] /\ pc[t] = "guest" /\ Guest(sched, t)
      /\ pc' = [pc EXCEPT ![t] = "exited"] /\ sched \in SchedType
  BY DEF Inv, TypeOK, Places, Exit, Goto, ThreadInv
<1>1. PICK late \in SUBSET Thread :
        sched' = [Sleep(sched, t, FALSE, late) EXCEPT !.suspend = @ \ {t}]
  BY Zenon, <1>0 DEF Exit, SchedType
<1> DEFINE r == Sleep(sched, t, FALSE, late)
           b == r.suspend \ {t}
<1>2. /\ Core(r) /\ OnProc(r) /\ NoIdle(r) /\ Frame(sched, r)
      /\ Range(r.g_ppu) = Range(sched.g_ppu) \ {t} /\ t \notin r.ack_suspend
      /\ \A u \in Thread \ {t} : Guest(sched, u) => Guest(r, u)
  BY Zenon, <1>0, SleepCore DEF Inv
<1>3. sched' = [r EXCEPT !.suspend = b]
  BY <1>1, <1>2 DEF Core, SchedType
<1>4. b \in SUBSET Thread
  BY Zenon, <1>2 DEF Core, SchedType
<1> HIDE DEF r, b
<1>5. /\ sched' \in SchedType /\ sched'.suspend = b
      /\ sched'.g_ppu = r.g_ppu /\ sched'.waiting = r.waiting /\ sched'.prio = r.prio
      /\ sched'.ack_suspend = r.ack_suspend /\ sched'.g_pending = r.g_pending
      /\ sched'.signal = r.signal /\ sched'.notify = r.notify /\ sched'.ready = r.ready
      /\ sched'.stop = r.stop /\ sched'.again = r.again /\ sched'.cpu_sleep = r.cpu_sleep
  BY Zenon, <1>2, <1>3, <1>4 DEF Core, SchedType
<1>6. Core(sched)'
  BY <1>2, <1>5 DEF Core, b
<1>7. OnProc(sched)' /\ NoIdle(sched)'
  <2>1. OnProc(sched)'
    BY SMTT(30), <1>2, <1>5 DEF OnProc, Running, b
  <2>2. NoIdle(sched)'
    BY SMTT(30), <1>2, <1>5 DEF NoIdle, Running, b
  <2> QED
    BY SMTT(30), <2>1, <2>2
<1>8. sched'.stop = {}
  BY <1>2, <1>5 DEF Inv, Frame
<1>9. ASSUME NEW u \in Thread PROVE ThreadInv(u)'
  <2>1. CASE u = t
    <3>1. pc'[u] = "exited"
      BY SMTT(30), <1>0, <2>1
    <3>2. sched.cpu_sleep[u] = "no" /\ u \notin sched.again
      BY SMTT(30), <1>0, <2>1 DEF Inv, ThreadInv
    <3> QED
      BY <1>2, <1>5, <3>1, <3>2 DEF ThreadInv, Frame
  <2>2. CASE u # t
    <3>1. pc'[u] = pc[u] /\ ThreadInv(u)
      BY SMTT(30), <1>0, <2>2 DEF Inv
    <3>2. Guest(sched, u) => Guest(sched, u)'
      BY <1>2, <1>5, <2>2 DEF Guest, b
    <3>3. Held(sched, u) => Held(sched, u)'
      BY <1>2, <1>5, <2>2 DEF Held, Frame, b
    <3> QED
      BY SMTT(30), <1>2, <1>5, <3>1, <3>2, <3>3 DEF ThreadInv, Frame
  <2> QED
    BY <2>1, <2>2
<1>10. TypeOK'
  BY SMTT(30), <1>0, <1>5 DEF TypeOK, Places
<1> QED
  BY SMTT(30), <1>6, <1>7, <1>8, <1>9, <1>10 DEF Inv

\* check_state calls cpu_sleep.
LEMMA RequeueStep ==
  ASSUME Inv, NEW t \in Thread, Requeue(t)
  PROVE  Inv'
<1>0. Core(sched) /\ sched.cpu_sleep[t] = "call" /\ pc' = pc /\ sched \in SchedType
  BY DEF Inv, Requeue, TypeOK
<1>1. PICK late \in SUBSET Thread :
        sched' = [Awake(sched, t, t, late) EXCEPT !.cpu_sleep[t] = "done"]
  BY Zenon, <1>0 DEF Requeue, CpuSleep, SchedType
<1> DEFINE r == Awake(sched, t, t, late)
           n == [sched.cpu_sleep EXCEPT ![t] = "done"]
<1>2. /\ Core(r) /\ OnProc(r) /\ NoIdle(r) /\ Frame(sched, r)
      /\ Range(r.g_ppu) = Range(sched.g_ppu) \cup {t}
      /\ \A u \in Thread \ {t} : Guest(sched, u) => Guest(r, u)
  BY Zenon, <1>0, AwakeCore
<1>3. r \in SchedType /\ r.cpu_sleep = sched.cpu_sleep
  BY <1>2 DEF Core, Frame
<1>4. sched' = [r EXCEPT !.cpu_sleep = n]
  BY <1>1, <1>3 DEF SchedType
<1>5. /\ n \in [Thread -> {"no", "call", "done"}]
      /\ \A u \in Thread \ {t} : n[u] = sched.cpu_sleep[u]
  BY <1>0 DEF SchedType
<1> HIDE DEF r, n
<1>6. /\ sched' \in SchedType /\ sched'.cpu_sleep = n
      /\ sched'.g_ppu = r.g_ppu /\ sched'.waiting = r.waiting /\ sched'.prio = r.prio
      /\ sched'.ack_suspend = r.ack_suspend /\ sched'.g_pending = r.g_pending
      /\ sched'.signal = r.signal /\ sched'.notify = r.notify /\ sched'.ready = r.ready
      /\ sched'.stop = r.stop /\ sched'.again = r.again /\ sched'.suspend = r.suspend
  BY Zenon, <1>3, <1>4, <1>5 DEF SchedType
<1>7. Core(sched)'
  BY SMTT(30), <1>2, <1>6 DEF Core
<1>8. OnProc(sched)' /\ NoIdle(sched)'
  <2>1. OnProc(sched)'
    BY <1>2, <1>6 DEF OnProc, Running
  <2>2. NoIdle(sched)'
    BY <1>2, <1>6 DEF NoIdle, Running
  <2> QED
    BY <2>1, <2>2
<1>9. sched'.stop = {}
  BY <1>2, <1>6 DEF Inv, Frame
<1>10. ASSUME NEW u \in Thread PROVE ThreadInv(u)'
  <2>1. ThreadInv(u) /\ pc'[u] = pc[u]
    BY <1>0 DEF Inv
  <2>2. /\ Held(sched, u) => Held(sched, u)'
        /\ sched'.again = sched.again
    BY <1>2, <1>6 DEF Held, Frame
  <2>3. CASE u = t
    <3>1. pc[u] \in {"check", "late"}
      BY SMTT(30), <1>0, <2>1, <2>3 DEF ThreadInv
    <3> QED
      BY <2>1, <2>2, <3>1 DEF ThreadInv
  <2>4. CASE u # t
    <3>1. Guest(sched, u) => Guest(sched, u)'
      BY Zenon, <1>2, <1>6, <2>4 DEF Guest
    <3> QED
      BY SMTT(30), <1>2, <1>5, <1>6, <2>1, <2>2, <2>4, <3>1 DEF ThreadInv
  <2> QED
    BY <2>3, <2>4
<1>11. TypeOK'
  BY Zenon, <1>0, <1>6 DEF TypeOK, Inv
<1> QED
  BY <1>7, <1>8, <1>9, <1>10, <1>11 DEF Inv

\* A thread consumes its own signal and notify; nobody else is concerned.
LEMMA OwnFlagsStep ==
  ASSUME Inv, NEW t \in Thread, NEW n \in [Thread -> {"no", "call", "done"}],
         NEW g \in SUBSET Thread, NEW o \in SUBSET Thread,
         sched' = [sched EXCEPT !.signal = g, !.notify = o, !.cpu_sleep = n],
         g \subseteq sched.signal, o \subseteq sched.notify,
         \A u \in Thread \ {t} : n[u] = sched.cpu_sleep[u],
         NEW p \in Places \ {"exited"}, pc' = [pc EXCEPT ![t] = p],
         pc[t] \notin {"exited", "redo"},
         p \notin {"check", "late"} => n[t] = "no",
         p = "guest" => t \notin g \cup o \cup sched.suspend
  PROVE  Inv'
<1>0. pc \in [Thread -> Places] /\ sched \in SchedType
  BY DEF Inv, TypeOK, Places
<1>1. /\ sched' \in SchedType /\ sched'.cpu_sleep = n
      /\ sched'.signal = g /\ sched'.notify = o
      /\ sched'.g_ppu = sched.g_ppu /\ sched'.waiting = sched.waiting
      /\ sched'.prio = sched.prio /\ sched'.ready = sched.ready
      /\ sched'.ack_suspend = sched.ack_suspend /\ sched'.g_pending = sched.g_pending
      /\ sched'.stop = sched.stop /\ sched'.again = sched.again
      /\ sched'.suspend = sched.suspend
  BY Zenon, <1>0 DEF SchedType
<1>2. Core(sched)'
  BY <1>1 DEF Core, Inv
<1>3. OnProc(sched)' /\ NoIdle(sched)'
  BY <1>1 DEF OnProc, NoIdle, Running, Inv
<1>4. sched'.stop = {}
  BY <1>1 DEF Inv
<1>5. ASSUME NEW u \in Thread PROVE ThreadInv(u)'
  <2>1. ThreadInv(u)
    BY DEF Inv
  <2>2. CASE u = t
    <3>1. pc'[u] = p /\ Held(sched, u) /\ u \notin sched.again
      BY <1>0, <2>1, <2>2 DEF ThreadInv
    <3>2. p = "guest" => Guest(sched, u)'
      BY <1>1, <2>2, <3>1 DEF Guest, Held
    <3> QED
      BY <1>1, <2>2, <3>1, <3>2 DEF ThreadInv, Held
  <2>3. CASE u # t
    <3>1. pc'[u] = pc[u]
      BY <1>0, <2>3
    <3>2. Guest(sched, u) => Guest(sched, u)'
      BY <1>1 DEF Guest
    <3> QED
      BY SMTT(30), <1>1, <2>1, <2>3, <3>1, <3>2 DEF ThreadInv, Held
  <2> QED
    BY <2>2, <2>3
<1>6. TypeOK'
  BY <1>0, <1>1 DEF TypeOK, Places
<1> QED
  BY <1>2, <1>3, <1>4, <1>5, <1>6 DEF Inv

\* A thread goes to check_state, dropping at most its signal.
LEMMA ToCheckStep ==
  ASSUME Inv, NEW t \in Thread, NEW g \in SUBSET Thread, g \subseteq sched.signal,
         sched' = [sched EXCEPT !.signal = g],
         pc[t] \notin {"exited", "redo"}, NEW p \in {"check", "late"}, pc' = [pc EXCEPT ![t] = p]
  PROVE  Inv'
<1> DEFINE n == sched.cpu_sleep
           o == sched.notify
<1>1. sched \in SchedType
  BY DEF Inv, TypeOK
<1>2. n \in [Thread -> {"no", "call", "done"}] /\ o \in SUBSET Thread
  BY <1>1 DEF SchedType
<1>3. sched' = [sched EXCEPT !.signal = g, !.notify = o, !.cpu_sleep = n]
  BY Zenon, <1>1 DEF SchedType
<1>4. o \subseteq sched.notify /\ \A u \in Thread \ {t} : n[u] = sched.cpu_sleep[u]
  OBVIOUS
<1>5. /\ p \in Places \ {"exited"} /\ (p \notin {"check", "late"} => n[t] = "no")
      /\ (p = "guest" => t \notin g \cup o \cup sched.suspend)
  BY DEF Places
<1> HIDE DEF n, o
<1> QED
  BY <1>2, <1>3, <1>4, <1>5, OwnFlagsStep, ZenonT(40)

\* One iteration of check_state.
LEMMA CheckStateStep ==
  ASSUME Inv, NEW t \in Thread, NEW from \in {"check", "late"}, NEW to \in {"check", "guest"},
         NEW stopped, CheckState(t, from, to, stopped)
  PROVE  Inv'
<1> DEFINE held == t \in sched.suspend
           called == IF t \in sched.signal THEN "no" ELSE sched.cpu_sleep[t]
           v == IF ~held THEN "no" ELSE IF called = "no" THEN "call" ELSE called
           n == [sched.cpu_sleep EXCEPT ![t] = v]
           g == sched.signal \ {t}
           o == sched.notify \ {t}
           p == IF held THEN from ELSE to
<1>0. sched \in SchedType /\ ~Stopped(sched, t)
  <2>1. pc[t] = from /\ ThreadInv(t)
    BY DEF Inv, CheckState, Goto
  <2> QED
    BY <2>1 DEF Inv, TypeOK, Stopped, ThreadInv
<1>1. /\ sched.cpu_sleep \in [Thread -> {"no", "call", "done"}]
      /\ g \in SUBSET Thread /\ o \in SUBSET Thread
  BY <1>0 DEF SchedType
<1>2. v \in {"no", "call", "done"}
  BY <1>1
<1>3. CheckFlags(sched, t) = [sched EXCEPT !.signal = g, !.notify = o, !.cpu_sleep = n]
  BY Zenon, <1>0 DEF CheckFlags, SchedType
<1>4. sched' = CheckFlags(sched, t) /\ pc[t] = from /\ pc' = [pc EXCEPT ![t] = p]
  BY <1>0 DEF CheckState, Goto
<1>5. /\ n \in [Thread -> {"no", "call", "done"}]
      /\ \A u \in Thread \ {t} : n[u] = sched.cpu_sleep[u]
      /\ n[t] = v
  BY <1>1, <1>2
<1>6. p \in Places \ {"exited"} /\ (p \notin {"check", "late"} => v = "no")
  BY DEF Places
<1>7. p = "guest" => t \notin g \cup o \cup sched.suspend
  OBVIOUS
<1>8. g \subseteq sched.signal /\ o \subseteq sched.notify
  OBVIOUS
<1> HIDE DEF v, n, g, o, p
<1>9. sched' = [sched EXCEPT !.signal = g, !.notify = o, !.cpu_sleep = n]
  BY <1>3, <1>4
<1>10. pc[t] \notin {"exited", "redo"} /\ pc' = [pc EXCEPT ![t] = p]
  BY <1>4
<1>11. p \notin {"check", "late"} => n[t] = "no"
  BY <1>5, <1>6
<1>12. ASSUME NEW f \in [Thread -> {"no", "call", "done"}], f = n,
              NEW x \in SUBSET Thread, x = g, NEW y \in SUBSET Thread, y = o,
              NEW z \in Places \ {"exited"}, z = p
       PROVE  Inv'
  BY Zenon, <1>5, <1>7, <1>8, <1>9, <1>10, <1>11, <1>12, OwnFlagsStep
<1> QED
  BY <1>1, <1>5, <1>6, <1>12

\* make_scheduler_ready.
LEMMA MakeReadyStep ==
  ASSUME Inv, MakeReady
  PROVE  Inv'
<1> DEFINE m == [sched EXCEPT !.ready = TRUE]
<1>0. sched \in SchedType /\ pc' = pc /\ pc \in [Thread -> Places]
  BY DEF Inv, TypeOK, MakeReady, Places
<1>1. PICK late \in SUBSET Thread :
        sched' = ScheduleAll(AwakeUnlocked(m, NoThread), NoThread, late)
  BY <1>0 DEF MakeReady, SchedType
<1>2. /\ m \in SchedType
      /\ m.g_ppu = sched.g_ppu /\ m.waiting = sched.waiting /\ m.prio = sched.prio
      /\ m.ack_suspend = sched.ack_suspend /\ m.g_pending = sched.g_pending
      /\ m.signal = sched.signal /\ m.notify = sched.notify
      /\ m.stop = sched.stop /\ m.again = sched.again
      /\ m.suspend = sched.suspend /\ m.cpu_sleep = sched.cpu_sleep
  BY Zenon, <1>0 DEF SchedType
<1> HIDE DEF m
<1>3. Core(m) /\ Frame(sched, m) /\ \A u \in Thread : Guest(sched, u) => Guest(m, u)
  BY Zenon, <1>2 DEF Core, Inv, Frame, Held, Guest
<1> DEFINE r == ScheduleAll(AwakeUnlocked(m, NoThread), NoThread, late)
<1>4. /\ Core(r) /\ OnProc(r) /\ NoIdle(r) /\ Frame(m, r)
      /\ Range(r.g_ppu) = Range(m.g_ppu)
      /\ \A u \in Thread \ {NoThread} : Guest(m, u) => Guest(r, u)
  BY <1>3, AwakeTailCore
<1>5. sched' = r
  BY <1>1
<1> HIDE DEF r
<1>6. Frame(sched, r)
  BY <1>3, <1>4 DEF Frame
<1>7. \A u \in Thread : pc'[u] = "guest" => Guest(r, u)
  BY Zenon, <1>0, <1>3, <1>4, SchedAssumption DEF Inv, ThreadInv
<1> QED
  BY SMTT(30), <1>0, <1>4, <1>5, <1>6, <1>7, SchedStep

\* A thread whose sys_timer_usleep is cut short leaves its loop.
LEMMA UsleepCutStep ==
  ASSUME Inv, NEW t \in Thread, UsleepCut(t)
  PROVE  Inv'
<1> DEFINE a == sched.again \cup {t}
<1>0. /\ pc \in [Thread -> Places] /\ pc[t] = "usleep" /\ sched \in SchedType
      /\ pc' = [pc EXCEPT ![t] = "redo"] /\ sched' = [sched EXCEPT !.again = a]
  BY DEF Inv, TypeOK, Places, UsleepCut, Goto
<1>1. a \in SUBSET Thread
  BY <1>0 DEF SchedType
<1> HIDE DEF a
<1>2. /\ sched' \in SchedType /\ sched'.again = a
      /\ sched'.g_ppu = sched.g_ppu /\ sched'.waiting = sched.waiting
      /\ sched'.prio = sched.prio /\ sched'.ready = sched.ready
      /\ sched'.ack_suspend = sched.ack_suspend /\ sched'.g_pending = sched.g_pending
      /\ sched'.signal = sched.signal /\ sched'.notify = sched.notify
      /\ sched'.stop = sched.stop /\ sched'.cpu_sleep = sched.cpu_sleep
      /\ sched'.suspend = sched.suspend
  BY Zenon, <1>0, <1>1 DEF SchedType
<1>3. Core(sched)'
  BY <1>2 DEF Core, Inv
<1>4. OnProc(sched)' /\ NoIdle(sched)'
  BY <1>2 DEF OnProc, NoIdle, Running, Inv
<1>5. ASSUME NEW u \in Thread PROVE ThreadInv(u)'
  <2>1. ThreadInv(u) /\ pc'[u] = IF u = t THEN "redo" ELSE pc[u]
    BY <1>0 DEF Inv
  <2>2. Guest(sched, u) => Guest(sched, u)'
    BY <1>2 DEF Guest
  <2>3. Held(sched, u) => Held(sched, u)'
    BY <1>2 DEF Held
  <2> QED
    BY <1>0, <1>2, <2>1, <2>2, <2>3 DEF ThreadInv, a
<1>6. TypeOK' /\ sched'.stop = {}
  BY <1>0, <1>2 DEF TypeOK, Places, Inv
<1> QED
  BY <1>3, <1>4, <1>5, <1>6 DEF Inv

\* Every step of every thread preserves the invariant.
LEMMA NextInv == Inv /\ [Next]_vars => Inv'
<1> SUFFICES ASSUME Inv, [Next]_vars PROVE Inv'
  OBVIOUS
<1>0. /\ pc \in [Thread -> Places] /\ sched \in SchedType
      /\ Core(sched) /\ OnProc(sched) /\ sched.waiting \in SUBSET Thread
  BY DEF Inv, TypeOK, Places, SchedType
<1>1. CASE UNCHANGED vars
  <2>1. sched' = sched /\ pc' = pc
    BY <1>1 DEF vars
  <2>2. TypeOK' /\ sched'.stop = {}
    BY <2>1 DEF Inv, TypeOK
  <2>3. Core(sched)'
    BY <2>1 DEF Inv, Core
  <2>4. OnProc(sched)'
    BY <2>1 DEF Inv, OnProc, Running
  <2>5. NoIdle(sched)'
    BY <2>1 DEF Inv, NoIdle, Running
  <2>6. \A t \in Thread : ThreadInv(t)'
    BY <2>1 DEF Inv, ThreadInv, Guest, Held
  <2> QED
    BY SMTT(30), <2>2, <2>3, <2>4, <2>5, <2>6 DEF Inv
<1>2. CASE MakeReady
  BY <1>2, MakeReadyStep
<1>3. ASSUME NEW c \in Caller, NEW t \in Thread, Start(c, t) PROVE Inv'
  <2>1. PICK late \in SUBSET Thread : sched' = Awake(sched, c, t, late)
    BY <1>0, <1>3 DEF Start
  <2>2. /\ pc' \in [Thread -> Places] /\ pc'[t] = "check"
        /\ \A u \in Thread : pc'[u] # pc[u] => pc'[u] = "check" /\ pc[u] \in {"new", "guest"}
    BY <1>0, <1>3, SchedAssumption DEF Start, Places
  <2>3. c # NoThread => pc'[c] = "check"
    BY <1>3 DEF Start, Caller
  <2> QED
    BY SMTT(30), <2>1, <2>2, <2>3, AwakeStep
<1>4. ASSUME NEW c \in Caller, NEW t \in Thread, Wake(c, t) PROVE Inv'
  <2>1. PICK late \in SUBSET Thread : sched' = Awake(sched, c, t, late)
    BY SMTT(30), <1>0, <1>4 DEF Wake
  <2>2. CASE c = NoThread
    <3>1. pc' = pc
      BY <1>4, <2>2 DEF Wake, Calls
    <3> QED
      BY SMTT(30), <1>0, <2>1, <2>2, <3>1, AwakeStep
  <2>3. CASE c # NoThread
    <3>1. /\ c \in Thread /\ pc[c] = "guest" /\ pc' = [pc EXCEPT ![c] = "check"]
      BY <1>4, <2>3 DEF Wake, Calls, Goto, Caller
    <3>2. /\ pc' \in [Thread -> Places] /\ pc'[c] = "check"
          /\ \A u \in Thread : pc'[u] # pc[u] => pc'[u] = "check" /\ pc[u] \in {"new", "guest"}
      BY <1>0, <3>1 DEF Places
    <3> QED
      BY SMTT(30), <2>1, <3>2, AwakeStep
  <2> QED
    BY SMTT(30), <2>2, <2>3
<1>5. ASSUME NEW t \in Thread, NEW timeout \in BOOLEAN, Block(t, timeout) PROVE Inv'
  <2> DEFINE p == IF timeout THEN "timed" ELSE "blocked"
  <2>1. PICK late \in SUBSET Thread : sched' = Sleep(sched, t, timeout, late)
    BY <1>0, <1>5 DEF Block
  <2>2. pc[t] = "guest" /\ pc' = [pc EXCEPT ![t] = p] /\ p \in {"blocked", "timed", "usleep"}
    BY <1>5 DEF Block, Goto
  <2> HIDE DEF p
  <2> QED
    BY Zenon, <2>1, <2>2, SleepStep
<1>6. ASSUME NEW t \in Thread, Usleep(t) PROVE Inv'
  <2>1. PICK registered \in BOOLEAN, late \in SUBSET Thread :
          sched' = Sleep(sched, t, registered, late)
    BY <1>0, <1>6 DEF Usleep
  <2>2. pc[t] = "guest" /\ pc' = [pc EXCEPT ![t] = "usleep"]
    BY <1>6 DEF Usleep, Goto
  <2> QED
    BY Zenon, <2>1, <2>2, SleepStep
<1>7. ASSUME NEW t \in Thread, Yield(t) PROVE Inv'
  <2>1. PICK late \in SUBSET Thread : sched' = ScheduleAll(YieldUnlocked(sched, t), t, late)
    BY SMTT(30), <1>0, <1>7 DEF Yield
  <2>2. pc[t] = "guest" /\ pc' = [pc EXCEPT ![t] = "check"]
    BY <1>7 DEF Yield, Goto
  <2> DEFINE s == YieldUnlocked(sched, t)
  <2>3. /\ Core(s) /\ OnProc(s) /\ Frame(sched, s)
        /\ Range(s.g_ppu) = Range(sched.g_ppu)
        /\ \A u \in Thread \ {t} : Guest(sched, u) => Guest(s, u)
    BY Zenon, <1>0, YieldCore
  <2>4. sched' = ScheduleAll(s, t, late)
    BY <2>1
  <2> HIDE DEF s
  <2> QED
    BY Zenon, <2>2, <2>3, <2>4, CallStep
<1>8. ASSUME NEW c \in Thread, NEW t \in Thread, NEW p \in Prio, SetPriority(c, t, p) PROVE Inv'
  <2>1. PICK late \in SUBSET Thread :
          sched' = ScheduleAll(SetPrioUnlocked(sched, c, t, p), c, late)
    BY Zenon, <1>0, <1>8 DEF SetPriority
  <2>2. pc[c] = "guest" /\ pc' = [pc EXCEPT ![c] = "check"] /\ p \in Int
    BY <1>8, PrioAssumption DEF SetPriority, Goto
  <2> DEFINE s == SetPrioUnlocked(sched, c, t, p)
  <2>3. /\ Core(s) /\ OnProc(s) /\ Frame(sched, s)
        /\ Range(s.g_ppu) = Range(sched.g_ppu)
        /\ \A u \in Thread \ {c} : Guest(sched, u) => Guest(s, u)
    <3>1. ASSUME NEW i \in Int
          PROVE  /\ Core(SetPrioUnlocked(sched, c, t, i))
                 /\ OnProc(SetPrioUnlocked(sched, c, t, i))
                 /\ Frame(sched, SetPrioUnlocked(sched, c, t, i))
                 /\ Range(SetPrioUnlocked(sched, c, t, i).g_ppu) = Range(sched.g_ppu)
                 /\ \A u \in Thread \ {c} :
                      Guest(sched, u) => Guest(SetPrioUnlocked(sched, c, t, i), u)
      BY <1>0, SetPrioCore, Zenon
    <3> QED
      BY <2>2, <3>1, Zenon
  <2>4. sched' = ScheduleAll(s, c, late)
    BY <2>1
  <2> HIDE DEF s
  <2> QED
    BY Zenon, <2>2, <2>3, <2>4, CallStep
<1>9. ASSUME NEW t \in Thread, Exit(t) PROVE Inv'
  BY <1>9, ExitStep
<1>10. ASSUME NEW t \in Thread, ThreadStep(t) PROVE Inv'
  <2>0. /\ sched = [sched EXCEPT !.signal = sched.signal]
        /\ sched.signal \in SUBSET Thread /\ sched.signal \subseteq sched.signal
    BY <1>0 DEF SchedType
  <2>1. CASE Poll(t)
    <3>1. /\ pc[t] = "guest" /\ pc' = [pc EXCEPT ![t] = "check"]
          /\ sched' = [sched EXCEPT !.signal = sched.signal]
      BY <2>0, <2>1 DEF Poll, Goto
    <3> QED
      BY Zenon, <2>0, <3>1, ToCheckStep
  <2>2. CASE CheckState(t, "check", "guest", "stopped")
    BY <2>2, CheckStateStep
  <2>3. CASE CheckState(t, "late", "check", "timed")
    BY SMTT(30), <2>3, CheckStateStep
  <2>4. CASE Requeue(t)
    BY <2>4, RequeueStep
  <2>5. CASE Signaled(t)
    <3> DEFINE g == sched.signal \ {t}
    <3>1. /\ pc[t] \in {"blocked", "timed"} /\ pc' = [pc EXCEPT ![t] = "check"]
          /\ sched' = [sched EXCEPT !.signal = g]
      BY <2>5 DEF Signaled
    <3>2. g \in SUBSET Thread /\ g \subseteq sched.signal
      BY <2>0
    <3> HIDE DEF g
    <3> QED
      BY Zenon, <3>1, <3>2, ToCheckStep
  <2>6. CASE Timeout(t)
    <3>1. /\ pc[t] = "timed" /\ pc' = [pc EXCEPT ![t] = "late"]
          /\ sched' = [sched EXCEPT !.signal = sched.signal]
      BY <2>0, <2>6 DEF Timeout, Goto
    <3> QED
      BY Zenon, <2>0, <3>1, ToCheckStep
  <2>7. CASE UsleepElapsed(t)
    <3>1. /\ pc[t] = "usleep" /\ pc' = [pc EXCEPT ![t] = "check"]
          /\ sched' = [sched EXCEPT !.signal = sched.signal]
      BY SMTT(30), <2>0, <2>7 DEF UsleepElapsed, Goto
    <3> QED
      BY Zenon, <2>0, <3>1, ToCheckStep
  <2>8. CASE UsleepCut(t)
    BY <2>8, UsleepCutStep
  <2> QED
    BY SMTT(30), <1>10, <2>1, <2>2, <2>3, <2>4, <2>5, <2>6, <2>7, <2>8 DEF ThreadStep
<1> QED
  BY SMTT(30), <1>1, <1>2, <1>3, <1>4, <1>5, <1>6, <1>7, <1>8, <1>9, <1>10 DEF Next

\* The invariant holds in every reachable state.
THEOREM SchedulerInv == Spec => []Inv
<1> QED
  BY InitInv, NextInv, PTL DEF Spec

-----------------------------------------------------------------------------
(***************************************************************************)
(* The properties                                                          *)
(***************************************************************************)
\* The variables keep their types: in particular g_pending never underflows,
\* whoever acknowledges when.
THEOREM TypeCorrect == Spec => []TypeOK
<1>1. Inv => TypeOK
  BY DEF Inv
<1> QED
  BY <1>1, SchedulerInv, PTL

\* The suspension handshake: g_pending is the number of threads that owe an
\* acknowledgement.
THEOREM HandshakeSound == Spec => []PendingIsOwed
<1>1. Inv => PendingIsOwed
  BY DEF Inv, Core, PendingIsOwed
<1> QED
  BY <1>1, SchedulerInv, PTL

\* The run queue is sorted and free of duplicates.
THEOREM RunQueueSorted == Spec => []QueueOrdered
<1>1. Inv => QueueOrdered
  BY Zenon DEF Inv, Core, QueueOrdered, RunQueueOrdered, Ordered
<1> QED
  BY <1>1, SchedulerInv, PTL

\* At most ppu_threads queued threads are not suspended: the first ones.
THEOREM NoExcessRunning == Spec => []OnlyOnProcRun
<1>1. Inv => OnlyOnProcRun
  BY DEF Inv, OnProc, OnlyOnProcRun
<1> QED
  BY <1>1, SchedulerInv, PTL

\* No hardware thread is left idle once nothing is pending.
THEOREM HardwareUsed == Spec => []NoIdleHardware
<1>1. Inv => NoIdleHardware
  BY DEF Inv, NoIdle, NoIdleHardware
<1> QED
  BY <1>1, SchedulerInv, PTL

\* A thread in guest code can go to sleep without meeting a stale flag.
THEOREM GuestSleepSafe == Spec => []GuestCanSleep
<1>1. Inv => GuestCanSleep
  BY DEF Inv, ThreadInv, Guest, GuestCanSleep
<1> QED
  BY <1>1, SchedulerInv, PTL

\* Registered timeouts belong to sleeping threads not yet notified.
THEOREM TimeoutSound == Spec => []TimeoutsSound
<1>1. Inv => TimeoutsSound
  BY DEF Inv, Core, TimeoutsSound
<1> QED
  BY <1>1, SchedulerInv, PTL
=============================================================================
