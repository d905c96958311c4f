------------------------- MODULE Lv2SemaphoreProofs -------------------------
(***************************************************************************)
(* The semaphore of Lv2Semaphore, for any number of threads, hardware      *)
(* threads, priorities, counts and programs: val and the queue never drift *)
(* apart, what the calls rely on holds, and the semaphore implements the   *)
(* counting semaphore with hand-over.                                      *)
(***************************************************************************)
EXTENDS Lv2Semaphore, Lv2SchedProofs

(***************************************************************************)
(* The inductive invariant                                                 *)
(***************************************************************************)
\* Threads that execute guest code or are in a call and not asleep.
Guests == {t \in Thread : pc[t] \in {"guest", "w_cas", "w_lock", "w_sleep",
                                     "p_cas", "p_lock", "p_pop", "p_awake"}}

Exited == {t \in Thread : pc[t] = "exited"}

\* Threads that only an awake meant for them may put on the run queue: a waiter,
\* whether queued or popped and not yet awoken, unless it is to stop.
Asleep == {t \in Thread : \/ pc[t] = "usleep"
                          \/ /\ pc[t] = "w_loop" /\ t \notin sched.stop
                             /\ t \in Range(sq) \cup Range(g_to_awake)}

Checking == {t \in Thread : pc[t] \in {"check", "w_check"}}

SchedInv == Placed(sched, Guests, Exited, Asleep, Checking)

\* A thread that has been told to stop and leaves its wait by a signal stays in the
\* queue on its way out.
Leaving(t) == pc[t] \in {"check", "stopped"} /\ t \in sched.stop

ThreadInv(t) ==
  /\ t \in Range(sq) =>
       pc[t] \in {"w_loop", "w_stop", "w_redo", "w_check", "w_unq"} \/ Leaving(t)
  /\ t \in Range(g_to_awake) =>
       pc[t] \in {"w_loop", "w_stop", "w_check", "w_unq"} \/ Leaving(t)
  /\ pc[t] = "w_redo" => t \in Range(sq) /\ t \in sched.again
  /\ t \in sched.again => pc[t] \in {"redo", "w_redo"}
  /\ mutex = t <=> pc[t] \in {"w_sleep", "p_pop", "p_awake"}
  /\ pc[t] = "p_pop" => to_awake > 0 /\ Range(sq) \cap sched.again = {}
  /\ pc[t] = "p_lock" => count[t] > 0
  /\ pc[t] \in {"w_cas", "w_lock", "w_sleep", "p_cas"} => exists

ObjectInv ==
  /\ Distinct(sq)
  /\ Range(sq) \cap Range(g_to_awake) = {}
  /\ to_awake > 0 => mutex \in Thread /\ pc[mutex] = "p_pop"
  /\ g_to_awake # <<>> => mutex \in Thread /\ pc[mutex] \in {"p_pop", "p_awake"}
  /\ ~exists => val >= 0

Inv ==
  /\ TypeOK
  /\ SchedInv
  /\ ObjectInv
  /\ \A t \in Thread : ThreadInv(t)
  /\ QueueMatchesValue

\* A step that leaves the scheduler alone.
LEMMA SchedSame ==
  ASSUME SchedInv, UNCHANGED sched, Guests' \subseteq Guests, Exited \subseteq Exited',
         Asleep' \subseteq Asleep, Checking \subseteq Checking'
  PROVE  SchedInv'
<1>1. Placed(sched, Guests', Exited', Asleep', Checking')
  BY PlacedWeaken DEF SchedInv
<1>2. Placed(sched', Guests', Exited', Asleep', Checking')
  BY <1>1
<1> QED
  BY <1>2 DEF SchedInv

\* The number of waiters.
LEMMA WaitersFinite ==
  ASSUME TypeOK
  PROVE  /\ Waiters \in SUBSET Thread
         /\ IsFiniteSet(Waiters)
         /\ Cardinality(Waiters) \in Nat
<1>1. Waiters \in SUBSET Thread
  BY RangeElement DEF Waiters, TypeOK
<1> QED
  BY <1>1, FlagsFinite

\* The locals of wait are reset.
LEMMA ReturnType ==
  ASSUME TypeOK, NEW t \in Thread, Return(t)
  PROVE  seen' \in [Thread -> Int] /\ timeout' \in SUBSET Thread
  BY DEF TypeOK, Return

\* t goes on to another place of its call, neither to sleep nor out of check_state.
LEMMA SchedMove ==
  ASSUME SchedInv, NEW t \in Thread, \A u \in Thread \ {t} : pc'[u] = pc[u],
         UNCHANGED <<sched, sq, g_to_awake>>,
         pc'[t] \notin {"usleep", "w_loop"}, pc[t] \notin {"exited", "check", "w_check"},
         pc'[t] \in {"check", "stopped", "w_stop", "w_redo", "w_check", "w_unq"} \/ t \in Guests
  PROVE  SchedInv'
<1>1. /\ Guests' \subseteq Guests /\ Exited \subseteq Exited'
      /\ Asleep' \subseteq Asleep /\ Checking \subseteq Checking'
  BY DEF Guests, Exited, Asleep, Checking
<1> QED
  BY <1>1, SchedSame

-----------------------------------------------------------------------------
(***************************************************************************)
(* Each action preserves it.  First the calls.                             *)
(***************************************************************************)
\* sys_semaphore_wait begins.
LEMMA WaitInv ==
  ASSUME Inv, NEW t \in Thread, NEW timed \in BOOLEAN, Wait(t, timed)
  PROVE  Inv'
<1> USE Zenon
<1> DEFINE to == IF exists THEN "w_cas" ELSE "check"
<1> /\ pc \in [Thread -> PC] /\ pc[t] = "guest" /\ pc' = [pc EXCEPT ![t] = to]
    /\ pc'[t] = to /\ (\A u \in Thread \ {t} : pc'[u] = pc[u])
    /\ UNCHANGED <<sched, sq, mutex, exists, val, count, to_awake, g_to_awake>>
  BY DEF Inv, TypeOK, Wait, Goto
<1>1. TypeOK'
  BY SMT DEF Inv, TypeOK, Wait, PC
<1>2. SchedInv'
  BY SchedMove DEF Inv, Guests
<1> ObjectInv'
  BY DEF Inv, ObjectInv, ThreadInv
<1> ASSUME NEW u \in Thread PROVE ThreadInv(u)'
  BY DEF Inv, ThreadInv, Leaving
<1> QueueMatchesValue'
  BY DEF Inv, Waiters, QueueMatchesValue
<1> QED
  BY <1>1, <1>2 DEF Inv

\* sys_semaphore_trywait.
LEMMA TryWaitInv ==
  ASSUME Inv, NEW t \in Thread, TryWait(t)
  PROVE  Inv'
<1> USE Zenon
<1> /\ pc \in [Thread -> PC] /\ pc[t] = "guest" /\ pc' = [pc EXCEPT ![t] = "check"]
    /\ pc'[t] = "check" /\ (\A u \in Thread \ {t} : pc'[u] = pc[u])
    /\ UNCHANGED <<setup, sched, sq, mutex, exists, seen, timeout, count, to_awake, g_to_awake>>
    /\ val \in Int /\ val' \in Int
    /\ val' = val \/ (val > 0 /\ val' = val - 1)
  BY SMT DEF Inv, TypeOK, TryWait, Goto
<1>1. TypeOK'
  BY DEF Inv, TypeOK, PC
<1>2. SchedInv'
  BY SchedMove DEF Inv, Guests
<1>3. ObjectInv'
  BY SMT DEF Inv, ObjectInv, ThreadInv
<1>4. ASSUME NEW u \in Thread PROVE ThreadInv(u)'
  BY DEF Inv, ThreadInv, Leaving
<1> QueueMatchesValue'
  <2> Waiters' = Waiters
    BY DEF Waiters
  <2> QED
    BY SMT DEF Inv, QueueMatchesValue
<1> QED
  BY <1>1, <1>2, <1>3, <1>4 DEF Inv

\* sys_semaphore_post begins.
LEMMA PostInv ==
  ASSUME Inv, NEW t \in Thread, NEW n \in Counts, Post(t, n)
  PROVE  Inv'
<1> USE Zenon
<1> DEFINE to == IF exists THEN "p_cas" ELSE "check"
<1> /\ pc \in [Thread -> PC] /\ pc[t] = "guest" /\ pc' = [pc EXCEPT ![t] = to]
    /\ pc'[t] = to /\ (\A u \in Thread \ {t} : pc'[u] = pc[u])
    /\ UNCHANGED <<setup, sched, val, sq, mutex, exists, timeout, to_awake, g_to_awake>>
    /\ \A u \in Thread \ {t} : count'[u] = count[u]
    /\ n \in Int
  BY SemaAssumption DEF Inv, TypeOK, Post, Goto
<1>1. TypeOK'
  BY SMT DEF Inv, TypeOK, Post, PC
<1>2. SchedInv'
  BY SchedMove DEF Inv, Guests
<1> ObjectInv'
  BY DEF Inv, ObjectInv, ThreadInv
<1> ASSUME NEW u \in Thread PROVE ThreadInv(u)'
  BY DEF Inv, ThreadInv, Leaving
<1> QueueMatchesValue'
  BY DEF Inv, Waiters, QueueMatchesValue
<1> QED
  BY <1>1, <1>2 DEF Inv

\* sys_semaphore_destroy: it succeeds only when nobody waits or is about to.
LEMMA DestroyInv ==
  ASSUME Inv, NEW t \in Thread, Destroy(t)
  PROVE  Inv'
<1> USE Zenon
<1> /\ pc \in [Thread -> PC] /\ pc[t] = "guest" /\ pc' = [pc EXCEPT ![t] = "check"]
    /\ pc'[t] = "check" /\ (\A u \in Thread \ {t} : pc'[u] = pc[u])
    /\ UNCHANGED <<setup, sched, val, sq, mutex, seen, timeout, count, to_awake, g_to_awake>>
    /\ exists' \in BOOLEAN /\ (~exists' => ~exists \/ ~(val < 0)) /\ val \in Int
    /\ \A u \in Thread : pc[u] \notin {"w_cas", "w_lock", "w_sleep", "p_cas"}
  BY DEF Inv, TypeOK, Destroy, Goto
<1>1. TypeOK'
  BY DEF Inv, TypeOK, PC
<1>2. SchedInv'
  BY SchedMove DEF Inv, Guests
<1> ObjectInv'
  BY SMT DEF Inv, ObjectInv, ThreadInv
<1> ASSUME NEW u \in Thread PROVE ThreadInv(u)'
  BY DEF Inv, ThreadInv, Leaving
<1> QueueMatchesValue'
  BY DEF Inv, Waiters, QueueMatchesValue
<1> QED
  BY <1>1, <1>2 DEF Inv

-----------------------------------------------------------------------------
(***************************************************************************)
(* The steps of wait.                                                      *)
(***************************************************************************)
\* The compare-and-swap takes a token only when val is still what was read.
LEMMA WaitCasInv ==
  ASSUME Inv, NEW t \in Thread, WaitCas(t)
  PROVE  Inv'
<1> USE Zenon
<1> /\ pc \in [Thread -> PC] /\ pc[t] = "w_cas" /\ pc' \in [Thread -> PC]
    /\ pc'[t] \in {"check", "w_lock"} /\ (\A u \in Thread \ {t} : pc'[u] = pc[u])
    /\ UNCHANGED <<setup, sched, sq, mutex, exists, count, to_awake, g_to_awake>>
    /\ val \in Int /\ val' \in Int
    /\ val' = val \/ (val > 0 /\ val' = val - 1)
  <2> pc \in [Thread -> PC] /\ val \in Int
    BY DEF Inv, TypeOK
  <2> CASE seen[t] > 0 /\ val = seen[t]
    <3> Goto(t, "w_cas", "check") /\ val' = val - 1
      BY DEF WaitCas
    <3> QED
      BY SMT DEF WaitCas, Goto, PC
  <2> CASE ~(seen[t] > 0 /\ val = seen[t])
    <3> Goto(t, "w_cas", "w_lock") /\ val' = val
      BY DEF WaitCas
    <3> QED
      BY DEF WaitCas, Goto, PC
  <2> QED
    OBVIOUS
<1>1. TypeOK'
  BY SMT DEF Inv, TypeOK, WaitCas, Return
<1>2. SchedInv'
  BY SchedMove DEF Inv, Guests
<1>3. ObjectInv'
  BY DEF Inv, ObjectInv, ThreadInv
<1>4. ASSUME NEW u \in Thread PROVE ThreadInv(u)'
  BY DEF Inv, ThreadInv, Leaving
<1> QueueMatchesValue'
  <2> Waiters' = Waiters
    BY DEF Waiters
  <2> QED
    BY SMT DEF Inv, QueueMatchesValue
<1> QED
  BY <1>1, <1>2, <1>3, <1>4 DEF Inv

\* Under the lock: a token, or one more waiter and one less in val.
LEMMA WaitLockInv ==
  ASSUME Inv, NEW t \in Thread, WaitLock(t)
  PROVE  Inv'
<1> USE Zenon
<1> /\ pc \in [Thread -> PC] /\ pc[t] = "w_lock" /\ pc' \in [Thread -> PC]
    /\ (\A u \in Thread \ {t} : pc'[u] = pc[u])
    /\ UNCHANGED <<setup, sched, sq, exists, count, to_awake, g_to_awake>>
    /\ val \in Int /\ val' = val - 1 /\ val' \in Int /\ to_awake \in Nat
    /\ mutex = NoThread /\ NoThread \notin Thread
    /\ \/ val <= 0 /\ pc'[t] = "w_sleep" /\ mutex' = t
       \/ val > 0 /\ pc'[t] = "check" /\ mutex' = mutex
  <2> pc \in [Thread -> PC] /\ val \in Int /\ to_awake \in Nat
    BY DEF Inv, TypeOK
  <2> CASE val <= 0
    <3> Goto(t, "w_lock", "w_sleep") /\ mutex' = t
      BY DEF WaitLock
    <3> QED
      BY SchedAssumption, SMT DEF WaitLock, Goto, PC
  <2> CASE ~(val <= 0)
    <3> Goto(t, "w_lock", "check") /\ mutex' = mutex
      BY DEF WaitLock
    <3> QED
      BY SchedAssumption, SMT DEF WaitLock, Goto, PC
  <2> QED
    OBVIOUS
<1>1. TypeOK'
  BY SMT DEF Inv, TypeOK, WaitLock, Return
<1>2. SchedInv'
  BY SchedMove DEF Inv, Guests
<1>3. ObjectInv'
  BY DEF Inv, ObjectInv, ThreadInv
<1>4. ASSUME NEW u \in Thread PROVE ThreadInv(u)'
  BY DEF Inv, ThreadInv, Leaving
<1>5. QueueMatchesValue'
  <2> Cardinality(Waiters) = to_awake + (IF val < 0 THEN -val ELSE 0)
    BY DEF Inv, QueueMatchesValue
  <2> CASE val <= 0
    <3> t \notin Waiters /\ Waiters' = Waiters \cup {t}
      BY SMT DEF Waiters, Inv, ThreadInv, Leaving
    <3> Cardinality(Waiters') = Cardinality(Waiters) + 1
      BY WaitersFinite, FS_AddElement DEF Inv
    <3> QED
      BY SMT DEF QueueMatchesValue
  <2> CASE val > 0
    <3> Waiters' = Waiters
      BY SMT DEF Waiters
    <3> QED
      BY SMT DEF QueueMatchesValue
  <2> QED
    OBVIOUS
<1> QED
  BY <1>1, <1>2, <1>3, <1>4, <1>5 DEF Inv

\* The waiter sleeps and joins the queue.
LEMMA WaitSleepInv ==
  ASSUME Inv, NEW t \in Thread, WaitSleep(t)
  PROVE  Inv'
<1> USE Zenon
<1>1. /\ pc \in [Thread -> PC] /\ pc[t] = "w_sleep" /\ pc' \in [Thread -> PC]
      /\ pc'[t] = "w_loop" /\ (\A u \in Thread \ {t} : pc'[u] = pc[u])
      /\ UNCHANGED <<setup, val, exists, seen, timeout, count, to_awake, g_to_awake>>
      /\ sq' = Append(sq, t) /\ sq \in Seq(Thread) /\ g_to_awake \in Seq(Thread)
      /\ mutex = t /\ mutex' = NoThread /\ NoThread \notin Thread
  BY SchedAssumption DEF Inv, TypeOK, WaitSleep, Goto, PC, ThreadInv
<1>2. PICK late \in SUBSET Thread, timed \in BOOLEAN :
        sched' = Sleep(sched, t, timed, late)
  <2>1. PICK late \in SUBSET Thread : sched' = Sleep(sched, t, t \in timeout, late)
    BY DEF Inv, TypeOK, WaitSleep, SchedType
  <2> (t \in timeout) \in BOOLEAN
    BY SMT
  <2> QED
    BY <2>1
<1>3. t \notin Range(sq) /\ Distinct(sq)
  BY <1>1 DEF Inv, ThreadInv, Leaving, ObjectInv
<1>4. sq' \in Seq(Thread) /\ Range(sq') = Range(sq) \cup {t} /\ Distinct(sq')
  BY <1>1, <1>3, AppendDistinct
<1>5. /\ Placed(sched', Guests \ {t}, Exited, Asleep \cup {t}, Checking)
      /\ sched'.stop = sched.stop /\ sched'.again = sched.again
  <2>1. t \in Guests /\ Guests \in SUBSET Thread
    BY <1>1 DEF Guests
  <2> Placed(sched, Guests, Exited, Asleep, Checking)
    BY DEF Inv, SchedInv
  <2> QED
    BY <1>2, <2>1, PlacedSleep, SMTT(30)
<1>6. SchedInv'
  <2> /\ Guests' \subseteq Guests \ {t} /\ Exited \subseteq Exited'
      /\ Asleep' \subseteq Asleep \cup {t} /\ Checking \subseteq Checking'
    BY <1>1, <1>4, <1>5 DEF Guests, Exited, Asleep, Checking
  <2> QED
    BY <1>5 DEF SchedInv, Placed
<1>7. TypeOK'
  <2> sched' \in SchedType
    BY <1>6 DEF SchedInv, Placed, Core
  <2> QED
    BY <1>1, <1>4 DEF Inv, TypeOK
<1>8. g_to_awake = <<>> /\ Range(g_to_awake) = {}
  <2> g_to_awake = <<>>
    BY <1>1 DEF Inv, ObjectInv
  <2> QED
    BY SMT DEF Range
<1>9. ObjectInv'
  BY <1>1, <1>4, <1>8 DEF Inv, ObjectInv
<1>10. ASSUME NEW u \in Thread PROVE ThreadInv(u)'
  BY <1>1, <1>4, <1>5 DEF Inv, ThreadInv, Leaving
<1>11. QueueMatchesValue'
  <2> Waiters' = Waiters
    BY <1>1, <1>4 DEF Waiters
  <2> QED
    BY <1>1 DEF Inv, QueueMatchesValue
<1> QED
  BY <1>6, <1>7, <1>9, <1>10, <1>11 DEF Inv

\* A signaled waiter has been popped and awoken, or is to stop.
LEMMA WaitSignaledInv ==
  ASSUME Inv, NEW t \in Thread, WaitSignaled(t)
  PROVE  Inv'
<1> USE Zenon
<1> /\ pc \in [Thread -> PC] /\ pc[t] = "w_loop" /\ pc' \in [Thread -> PC]
    /\ pc'[t] = "check" /\ (\A u \in Thread \ {t} : pc'[u] = pc[u])
    /\ UNCHANGED <<setup, val, sq, mutex, exists, count, to_awake, g_to_awake>>
    /\ t \in sched.signal /\ Return(t)
  BY DEF Inv, TypeOK, WaitSignaled, Goto, PC
<1>1. t \in sched.stop \/ t \notin Range(sq) \cup Range(g_to_awake)
  <2> t \notin Asleep
    BY DEF Inv, SchedInv, Placed, Core
  <2> QED
    BY DEF Asleep
<1>2. /\ Placed(sched', Guests, Exited, Asleep, Checking)
      /\ sched'.stop = sched.stop /\ sched'.again = sched.again
  <2> Guests \in SUBSET Thread /\ Placed(sched, Guests, Exited, Asleep, Checking)
    BY DEF Guests, Inv, SchedInv
  <2> sched' = [sched EXCEPT !.signal = @ \ {t}]
    BY DEF WaitSignaled
  <2> QED
    BY PlacedSignal
<1>3. SchedInv'
  <2> /\ Guests' \subseteq Guests /\ Exited \subseteq Exited'
      /\ Asleep' \subseteq Asleep /\ Checking \subseteq Checking'
    BY <1>2 DEF Guests, Exited, Asleep, Checking
  <2> QED
    BY <1>2 DEF SchedInv, Placed
<1>4. TypeOK'
  <2> sched' \in SchedType
    BY <1>3 DEF SchedInv, Placed, Core
  <2> QED
    BY ReturnType DEF Inv, TypeOK
<1> ObjectInv'
  BY DEF Inv, ObjectInv, ThreadInv
<1> ASSUME NEW u \in Thread PROVE ThreadInv(u)'
  BY <1>1, <1>2 DEF Inv, ThreadInv, Leaving
<1> QueueMatchesValue'
  BY DEF Inv, Waiters, QueueMatchesValue
<1> QED
  BY <1>3, <1>4 DEF Inv

\* The wait loop is left for a stop flag, or for the timeout.
LEMMA WaitLeavesInv ==
  ASSUME Inv, NEW t \in Thread, WaitStopped(t) \/ WaitTimeout(t)
  PROVE  Inv'
<1> USE Zenon
<1> /\ pc \in [Thread -> PC] /\ pc[t] = "w_loop" /\ pc' \in [Thread -> PC]
    /\ pc'[t] \in {"w_stop", "w_check"} /\ (\A u \in Thread \ {t} : pc'[u] = pc[u])
    /\ UNCHANGED <<sched, sema>>
  BY DEF Inv, TypeOK, WaitStopped, WaitTimeout, Goto, PC
<1> UNCHANGED <<setup, sched, val, sq, mutex, exists, seen, timeout, count, to_awake, g_to_awake>>
  BY DEF sema
<1>1. TypeOK'
  BY DEF Inv, TypeOK
<1>2. SchedInv'
  BY SchedMove DEF Inv
<1> ObjectInv'
  BY DEF Inv, ObjectInv, ThreadInv
<1> ASSUME NEW u \in Thread PROVE ThreadInv(u)'
  BY DEF Inv, ThreadInv, Leaving
<1> QueueMatchesValue'
  BY DEF Inv, Waiters, QueueMatchesValue
<1> QED
  BY <1>1, <1>2 DEF Inv

\* With the lock free no post is in progress.
LEMMA LockFree ==
  ASSUME Inv, mutex = NoThread
  PROVE  /\ to_awake = 0 /\ g_to_awake = <<>> /\ Range(g_to_awake) = {}
         /\ \A u \in Thread : pc[u] \notin {"w_sleep", "p_pop", "p_awake"}
<1> USE Zenon
<1> NoThread \notin Thread /\ to_awake \in Nat
  BY SchedAssumption DEF Inv, TypeOK
<1> to_awake = 0 /\ g_to_awake = <<>>
  BY SMT DEF Inv, ObjectInv
<1> Range(g_to_awake) = {}
  BY SMT DEF Range
<1> \A u \in Thread : pc[u] \notin {"w_sleep", "p_pop", "p_awake"}
  BY DEF Inv, ThreadInv
<1> QED
  OBVIOUS

\* A waiter that is to stop repeats its call after loading, if it is still queued.
LEMMA WaitAgainInv ==
  ASSUME Inv, NEW t \in Thread, WaitAgain(t)
  PROVE  Inv'
<1> USE Zenon
<1>0. mutex = NoThread /\ pc \in [Thread -> PC]
  BY DEF WaitAgain, Inv, TypeOK
<1>1. CASE t \notin Range(sq)
  <2> /\ pc[t] = "w_stop" /\ pc' \in [Thread -> PC]
      /\ pc'[t] = "check" /\ (\A u \in Thread \ {t} : pc'[u] = pc[u])
      /\ UNCHANGED <<setup, sched, val, sq, mutex, exists, count, to_awake, g_to_awake>>
      /\ Return(t)
    BY <1>0, <1>1 DEF WaitAgain, Goto, PC
  <2>1. TypeOK'
    BY ReturnType DEF Inv, TypeOK
  <2>2. SchedInv'
    BY SchedMove DEF Inv
  <2> ObjectInv'
    BY DEF Inv, ObjectInv, ThreadInv
  <2> ASSUME NEW u \in Thread PROVE ThreadInv(u)'
    BY <1>0, <1>1, LockFree DEF Inv, ThreadInv, Leaving
  <2> QueueMatchesValue'
    BY DEF Inv, Waiters, QueueMatchesValue
  <2> QED
    BY <2>1, <2>2 DEF Inv
<1>2. CASE t \in Range(sq)
  <2> /\ pc[t] = "w_stop" /\ pc' \in [Thread -> PC]
      /\ pc'[t] = "w_redo" /\ (\A u \in Thread \ {t} : pc'[u] = pc[u])
      /\ UNCHANGED <<setup, val, sq, mutex, exists, seen, timeout, count, to_awake, g_to_awake>>
      /\ sched' = [sched EXCEPT !.again = @ \cup {t}]
    BY <1>0, <1>2 DEF WaitAgain, Goto, PC
  <2> /\ Placed(sched', Guests, Exited, Asleep, Checking)
      /\ sched'.stop = sched.stop /\ sched'.again = sched.again \cup {t}
    <3> Guests \in SUBSET Thread /\ Placed(sched, Guests, Exited, Asleep, Checking)
      BY DEF Guests, Inv, SchedInv
    <3> QED
      BY PlacedAgain, SMT
  <2>1. SchedInv'
    <3> /\ Guests' \subseteq Guests /\ Exited \subseteq Exited'
        /\ Asleep' \subseteq Asleep /\ Checking \subseteq Checking'
      BY DEF Guests, Exited, Asleep, Checking
    <3> QED
      BY DEF SchedInv, Placed
  <2>2. TypeOK'
    <3> sched' \in SchedType
      BY <2>1 DEF SchedInv, Placed, Core
    <3> QED
      BY DEF Inv, TypeOK
  <2> ObjectInv'
    BY DEF Inv, ObjectInv, ThreadInv
  <2> ASSUME NEW u \in Thread PROVE ThreadInv(u)'
    BY <1>0, <1>2, LockFree DEF Inv, ThreadInv, Leaving
  <2> QueueMatchesValue'
    BY SMT DEF Inv, Waiters, QueueMatchesValue
  <2> QED
    BY <2>1, <2>2 DEF Inv
<1> QED
  BY <1>1, <1>2

\* check_state, on the way back to guest code or in a wait that has timed out.
LEMMA CheckInv ==
  ASSUME Inv, NEW t \in Thread, NEW from, NEW to, NEW stopped,
         \/ from = "check" /\ to = "guest" /\ stopped = "stopped"
         \/ from = "w_check" /\ to = "w_unq" /\ stopped = "w_loop",
         CheckState(t, from, to, stopped), UNCHANGED sema
  PROVE  Inv'
<1> USE Zenon
<1> DEFINE p == IF Stopped(sched, t) THEN stopped
                ELSE IF t \in sched.suspend THEN from ELSE to
<1> /\ pc \in [Thread -> PC] /\ pc[t] = from /\ pc' = [pc EXCEPT ![t] = p]
    /\ sched' = CheckFlags(sched, t)
  BY DEF Inv, TypeOK, CheckState, Goto
<1>1. p \in PC
  BY DEF PC
<1>2. /\ t \in Checking /\ t \notin Exited
      /\ t \in sched.stop \/ ~Stopped(sched, t)
  BY DEF Checking, Exited, Stopped, Inv, ThreadInv
<1>3. \/ p = stopped /\ t \in sched.stop /\ CheckLeaves(sched, t)
      \/ p = from
      \/ p = to /\ t \notin sched.stop /\ t \notin sched.suspend
  BY <1>2 DEF Stopped, CheckLeaves
<1> HIDE DEF p
<1> pc' \in [Thread -> PC] /\ pc'[t] = p /\ (\A u \in Thread \ {t} : pc'[u] = pc[u])
  BY <1>1
<1> UNCHANGED <<setup, val, sq, mutex, exists, seen, timeout, count, to_awake, g_to_awake>>
  BY DEF sema
<1> /\ Placed(sched', Guests, Exited, Asleep, Checking)
    /\ CheckLeaves(sched, t) => Placed(sched', Guests, Exited, Asleep, Checking \ {t})
    /\ t \notin sched.suspend \cup Exited =>
         Placed(sched', Guests \cup {t}, Exited, Asleep, Checking \ {t})
    /\ sched'.stop = sched.stop /\ sched'.again = sched.again
  <2> Guests \in SUBSET Thread /\ Placed(sched, Guests, Exited, Asleep, Checking)
    BY DEF Guests, Inv, SchedInv
  <2> QED
    BY <1>2, PlacedCheck, SMTT(30)
<1>4. SchedInv'
  <2> CASE p = stopped /\ t \in sched.stop /\ CheckLeaves(sched, t)
    <3> /\ Guests' \subseteq Guests /\ Exited \subseteq Exited'
        /\ Asleep' \subseteq Asleep /\ Checking \ {t} \subseteq Checking'
      BY DEF Guests, Exited, Asleep, Checking
    <3> QED
      BY DEF SchedInv, Placed
  <2> CASE p = from
    <3> /\ Guests' \subseteq Guests /\ Exited \subseteq Exited'
        /\ Asleep' \subseteq Asleep /\ Checking \subseteq Checking'
      BY DEF Guests, Exited, Asleep, Checking
    <3> QED
      BY DEF SchedInv, Placed
  <2> CASE p = to /\ t \notin sched.suspend
    <3> /\ Guests' \subseteq Guests \cup {t} /\ Exited \subseteq Exited'
        /\ Asleep' \subseteq Asleep /\ Checking \ {t} \subseteq Checking'
      BY DEF Guests, Exited, Asleep, Checking
    <3> Placed(sched', Guests \cup {t}, Exited, Asleep, Checking \ {t})
      BY <1>2
    <3> QED
      BY DEF SchedInv, Placed
  <2> QED
    BY <1>3
<1>5. TypeOK'
  <2> sched' \in SchedType
    BY <1>4 DEF SchedInv, Placed, Core
  <2> QED
    BY DEF Inv, TypeOK
<1> p \notin {"w_sleep", "p_pop", "p_awake", "w_redo", "p_lock", "w_cas", "w_lock", "p_cas"}
  BY DEF p
<1>6. ObjectInv'
  BY DEF Inv, ObjectInv, ThreadInv
<1>7. ASSUME NEW u \in Thread PROVE ThreadInv(u)'
  <2> CASE u # t
    BY DEF Inv, ThreadInv, Leaving
  <2> CASE u = t
    <3> /\ pc[t] = from /\ pc'[t] = p /\ ThreadInv(t)
        /\ sched'.stop = sched.stop /\ sched'.again = sched.again
      BY DEF Inv
    <3> QED
      BY <1>3 DEF ThreadInv, Leaving
  <2> QED
    OBVIOUS
<1> QueueMatchesValue'
  <2> Waiters' = Waiters
    BY DEF Waiters
  <2> QED
    BY DEF Inv, QueueMatchesValue
<1> QED
  BY <1>4, <1>5, <1>6, <1>7 DEF Inv

\* A waiter that has timed out leaves the queue, with its -1 of val.
LEMMA WaitUnqueueInv ==
  ASSUME Inv, NEW t \in Thread, WaitUnqueue(t)
  PROVE  Inv'
<1> USE Zenon
<1> /\ pc \in [Thread -> PC] /\ pc[t] = "w_unq" /\ pc' \in [Thread -> PC]
    /\ pc'[t] = "check" /\ (\A u \in Thread \ {t} : pc'[u] = pc[u])
    /\ UNCHANGED <<setup, sched, mutex, exists, count, to_awake, g_to_awake>>
    /\ mutex = NoThread /\ Return(t) /\ sq' = Unqueue(sq, t)
    /\ sq \in Seq(Thread) /\ Distinct(sq) /\ val \in Int
    /\ val' = IF t \in Range(sq) /\ val < 0 THEN val + 1 ELSE val
  BY DEF Inv, TypeOK, WaitUnqueue, Goto, PC, ObjectInv
<1> sq' \in Seq(Thread) /\ Range(sq') = Range(sq) \ {t} /\ Distinct(sq')
  BY UnqueueDistinct
<1>1. /\ to_awake = 0 /\ g_to_awake = <<>> /\ Range(g_to_awake) = {}
      /\ \A u \in Thread : pc[u] \notin {"w_sleep", "p_pop", "p_awake"}
  BY LockFree
<1>2. TypeOK'
  BY ReturnType, SMTT(30) DEF Inv, TypeOK
<1>3. SchedInv'
  <2> /\ Guests' \subseteq Guests /\ Exited \subseteq Exited'
      /\ Asleep' \subseteq Asleep /\ Checking \subseteq Checking'
    BY DEF Guests, Exited, Asleep, Checking
  <2> QED
    BY SchedSame DEF Inv
<1>4. ObjectInv'
  BY <1>1, SMT DEF Inv, ObjectInv
<1>5. ASSUME NEW u \in Thread PROVE ThreadInv(u)'
  BY <1>1 DEF Inv, ThreadInv, Leaving
<1>6. QueueMatchesValue'
  <2>1. Cardinality(Waiters) = to_awake + (IF val < 0 THEN -val ELSE 0)
    BY DEF Inv, QueueMatchesValue
  <2> CASE t \in Range(sq)
    <3> t \in Waiters /\ Waiters' = Waiters \ {t}
      BY DEF Waiters
    <3>1. Cardinality(Waiters') = Cardinality(Waiters) - 1 /\ Cardinality(Waiters) > 0
      <4> Cardinality(Waiters') = Cardinality(Waiters) - 1
        BY WaitersFinite, FS_RemoveElement DEF Inv
      <4> Cardinality(Waiters') \in Nat
        BY WaitersFinite, FS_Subset, FS_CardinalityType DEF Inv
      <4> QED
        BY WaitersFinite, SMT DEF Inv
    <3> QED
      BY <1>1, <2>1, <3>1, SMT DEF QueueMatchesValue
  <2> CASE t \notin Range(sq)
    <3> Waiters' = Waiters
      BY DEF Waiters
    <3> QED
      BY <2>1 DEF QueueMatchesValue
  <2> QED
    OBVIOUS
<1> QED
  BY <1>2, <1>3, <1>4, <1>5, <1>6 DEF Inv

-----------------------------------------------------------------------------
(***************************************************************************)
(* The steps of post.                                                      *)
(***************************************************************************)
\* The compare-and-swap adds the tokens only while nobody waits.
LEMMA PostCasInv ==
  ASSUME Inv, NEW t \in Thread, PostCas(t)
  PROVE  Inv'
<1> USE Zenon
<1> DEFINE n == count[t]
           fast == seen[t] >= 0 /\ n > 0 /\ n <= MaxVal - seen[t] /\ val = seen[t]
           to == IF fast \/ n <= 0 THEN "check" ELSE "p_lock"
           c == IF fast \/ n <= 0 THEN 0 ELSE n
<1> pc \in [Thread -> PC] /\ n \in Int /\ seen[t] \in Int /\ val \in Int
  BY DEF Inv, TypeOK
<1> /\ pc[t] = "p_cas" /\ pc' = [pc EXCEPT ![t] = to]
    /\ val' = (IF fast THEN val + n ELSE val)
    /\ seen' = [seen EXCEPT ![t] = 0]
    /\ count' = [count EXCEPT ![t] = c]
    /\ UNCHANGED <<setup, sched, sq, mutex, exists, timeout, to_awake, g_to_awake>>
  BY DEF PostCas, Goto
<1> to \in {"check", "p_lock"} /\ c \in Int /\ (to = "p_lock" => c > 0)
  BY SMT
<1> val' = val \/ (val >= 0 /\ val' \in Int /\ val' > val)
  BY SMT
<1> HIDE DEF to, c, fast, n
<1> /\ pc' \in [Thread -> PC] /\ pc'[t] = to /\ (\A u \in Thread \ {t} : pc'[u] = pc[u])
    /\ count' \in [Thread -> Int] /\ count'[t] = c
    /\ (\A u \in Thread \ {t} : count'[u] = count[u])
    /\ seen' \in [Thread -> Int]
  BY SMT DEF Inv, TypeOK, PC
<1>1. TypeOK'
  BY DEF Inv, TypeOK
<1>2. SchedInv'
  BY SchedMove DEF Inv, Guests
<1>3. ObjectInv'
  BY DEF Inv, ObjectInv, ThreadInv
<1>4. ASSUME NEW u \in Thread PROVE ThreadInv(u)'
  BY DEF Inv, ThreadInv, Leaving
<1> QueueMatchesValue'
  <2> Waiters' = Waiters
    BY DEF Waiters
  <2> QED
    BY SMT DEF Inv, QueueMatchesValue
<1> QED
  BY <1>1, <1>2, <1>3, <1>4 DEF Inv

\* A post that meets a waiter which is to repeat its call repeats its own.
LEMMA PostAgainInv ==
  ASSUME Inv, NEW t \in Thread, PostAgain(t)
  PROVE  Inv'
<1> USE Zenon
<1> /\ pc \in [Thread -> PC] /\ pc[t] = "p_lock" /\ pc' \in [Thread -> PC]
    /\ pc'[t] = "redo" /\ (\A u \in Thread \ {t} : pc'[u] = pc[u])
    /\ UNCHANGED <<setup, val, sq, mutex, exists, seen, timeout, to_awake, g_to_awake>>
    /\ sched' = [sched EXCEPT !.again = @ \cup {t}]
    /\ mutex = NoThread
    /\ count' \in [Thread -> Int] /\ (\A u \in Thread \ {t} : count'[u] = count[u])
  BY SMT DEF PostAgain, Goto, PC, Inv, TypeOK
<1>1. /\ Placed(sched', Guests, Exited, Asleep, Checking)
      /\ sched'.stop = sched.stop /\ sched'.again = sched.again \cup {t}
  <2> Guests \in SUBSET Thread /\ Placed(sched, Guests, Exited, Asleep, Checking)
    BY DEF Guests, Inv, SchedInv
  <2> QED
    BY PlacedAgain, SMT
<1>2. SchedInv'
  <2> /\ Guests' \subseteq Guests /\ Exited \subseteq Exited'
      /\ Asleep' \subseteq Asleep /\ Checking \subseteq Checking'
    BY <1>1 DEF Guests, Exited, Asleep, Checking
  <2> QED
    BY <1>1 DEF SchedInv, Placed
<1>3. TypeOK'
  <2> sched' \in SchedType
    BY <1>2 DEF SchedInv, Placed, Core
  <2> QED
    BY DEF Inv, TypeOK
<1>4. ObjectInv'
  BY LockFree DEF Inv, ObjectInv
<1>5. ASSUME NEW u \in Thread PROVE ThreadInv(u)'
  BY <1>1, LockFree DEF Inv, ThreadInv, Leaving
<1> QueueMatchesValue'
  BY DEF Inv, Waiters, QueueMatchesValue
<1> QED
  BY <1>2, <1>3, <1>4, <1>5 DEF Inv

\* Under the lock: val is raised, and the waiters it accounts for are to be popped.
LEMMA PostLockInv ==
  ASSUME Inv, NEW t \in Thread, PostLock(t)
  PROVE  Inv'
<1> USE Zenon
<1> DEFINE n == count[t]
           waiters == IF val < 0 THEN -val ELSE 0
           pops == IF waiters < n THEN waiters ELSE n
           ok == n <= MaxVal - val
           popping == ok /\ pops > 0
<1> /\ pc \in [Thread -> PC] /\ n \in Int /\ val \in Int /\ MaxVal \in Int
    /\ NoThread \notin Thread
  BY SemaAssumption, SchedAssumption, SMT DEF Inv, TypeOK
<1> /\ pc[t] = "p_lock" /\ pc' = [pc EXCEPT ![t] = IF popping THEN "p_pop" ELSE "check"]
    /\ mutex = NoThread /\ Range(sq) \cap sched.again = {}
    /\ val' = (IF ok THEN val + n ELSE val)
    /\ to_awake' = (IF ok THEN pops ELSE 0)
    /\ mutex' = (IF popping THEN t ELSE NoThread)
    /\ count' = [count EXCEPT ![t] = 0]
    /\ UNCHANGED <<setup, sched, sq, exists, seen, timeout, g_to_awake>>
  BY DEF PostLock, Goto
<1>1. n > 0
  BY DEF Inv, ThreadInv
<1>2. /\ to_awake = 0 /\ g_to_awake = <<>> /\ Range(g_to_awake) = {}
      /\ \A u \in Thread : pc[u] \notin {"w_sleep", "p_pop", "p_awake"}
  BY LockFree
<1> /\ to_awake' \in Nat /\ (to_awake' > 0 <=> popping)
    /\ val' \in Int /\ val' >= val
    /\ to_awake' + (IF val' < 0 THEN -val' ELSE 0) = (IF val < 0 THEN -val ELSE 0)
  BY <1>1, SMTT(30)
<1> /\ pc' \in [Thread -> PC] /\ (\A u \in Thread \ {t} : pc'[u] = pc[u])
    /\ \/ popping /\ pc'[t] = "p_pop" /\ mutex' = t
       \/ ~popping /\ pc'[t] = "check" /\ mutex' = NoThread
    /\ count' \in [Thread -> Int] /\ (\A u \in Thread \ {t} : count'[u] = count[u])
  BY SMTT(30) DEF PC, Inv, TypeOK
<1> HIDE DEF n, waiters, pops, ok, popping
<1>3. TypeOK'
  BY DEF Inv, TypeOK
<1>4. SchedInv'
  BY SchedMove DEF Inv, Guests
<1>5. ObjectInv'
  BY <1>2, SMT DEF Inv, ObjectInv
<1>6. ASSUME NEW u \in Thread PROVE ThreadInv(u)'
  BY <1>2 DEF Inv, ThreadInv, Leaving
<1>7. QueueMatchesValue'
  <2> Waiters' = Waiters
    BY DEF Waiters
  <2> Cardinality(Waiters) = to_awake + (IF val < 0 THEN -val ELSE 0)
    BY DEF Inv, QueueMatchesValue
  <2> 0 + (IF val < 0 THEN -val ELSE 0) = (IF val < 0 THEN -val ELSE 0)
    BY SMT
  <2> QED
    BY <1>2 DEF QueueMatchesValue
<1> QED
  BY <1>3, <1>4, <1>5, <1>6, <1>7 DEF Inv

\* During the pops the queue has at least the waiters that are still to be popped.
LEMMA PopFinds ==
  ASSUME Inv, NEW t \in Thread, pc[t] = "p_pop"
  PROVE  /\ to_awake > 0 /\ Len(sq) >= to_awake /\ Len(sq) \in Nat
         /\ sq # <<>> /\ mutex = t
<1> USE Zenon
<1> /\ to_awake > 0 /\ mutex = t /\ to_awake \in Nat /\ val \in Int
    /\ sq \in Seq(Thread) /\ Distinct(sq)
  BY DEF Inv, TypeOK, ThreadInv, ObjectInv
<1>1. \A u \in Thread : pc[u] # "w_sleep"
  BY DEF Inv, ThreadInv
<1>2. Waiters = Range(sq)
  BY <1>1 DEF Waiters
<1> Cardinality(Range(sq)) = Len(sq) /\ Len(sq) \in Nat /\ (sq = <<>> <=> Range(sq) = {})
  BY DistinctLen
<1> Len(sq) = to_awake + (IF val < 0 THEN -val ELSE 0)
  BY <1>2 DEF Inv, QueueMatchesValue
<1> Len(sq) >= to_awake
  BY SMT
<1> sq # <<>>
  BY SMT
<1> QED
  OBVIOUS

\* A waiter is popped.
LEMMA PostPopInv ==
  ASSUME Inv, NEW t \in Thread, PostPop(t)
  PROVE  Inv'
<1> USE Zenon
<1> DEFINE i == ScheduleIndex(sched, sq, protocol)
           w == sq[i]
           to == IF to_awake = 1 THEN "p_awake" ELSE "p_pop"
<1>1. /\ pc \in [Thread -> PC] /\ sq \in Seq(Thread) /\ Distinct(sq) /\ sched \in SchedType
      /\ to_awake \in Nat /\ g_to_awake \in Seq(Thread) /\ sq # <<>>
  BY DEF Inv, TypeOK, ObjectInv, PostPop
<1> /\ pc[t] = "p_pop" /\ pc' = [pc EXCEPT ![t] = to]
    /\ sq' = Unlink(sq, i) /\ g_to_awake' = Append(g_to_awake, w)
    /\ to_awake' = to_awake - 1
    /\ UNCHANGED <<setup, sched, val, mutex, exists, seen, timeout, count>>
  BY DEF PostPop, Goto
<1>2. i \in 1..Len(sq)
  BY <1>1, ScheduleIndexType
<1> /\ sq' \in Seq(Thread) /\ Range(sq') = Range(sq) \ {w} /\ Distinct(sq') /\ w \in Range(sq)
  BY <1>1, <1>2, UnlinkDistinct
<1> to_awake > 0 /\ mutex = t
  BY PopFinds
<1>3. /\ to_awake' \in Nat
      /\ \/ to_awake' = 0 /\ to = "p_awake"
         \/ to_awake' > 0 /\ to = "p_pop"
  BY <1>1, SMT
<1> HIDE DEF to, i
<1> /\ pc' \in [Thread -> PC] /\ pc'[t] = to /\ (\A u \in Thread \ {t} : pc'[u] = pc[u])
    /\ to \in {"p_awake", "p_pop"}
  BY <1>1, <1>3 DEF PC
<1>4. w \in Thread /\ Range(sq) \in SUBSET Thread
  BY <1>1, RangeElement
<1> HIDE DEF w
<1> g_to_awake' \in Seq(Thread) /\ Range(g_to_awake') = Range(g_to_awake) \cup {w}
  BY <1>1, <1>4, AppendDistinct
<1>5. w # t /\ pc[w] # "w_redo" /\ Range(sq) \cap sched.again = {} /\ ThreadInv(w)
  BY <1>4 DEF Inv, ThreadInv, Leaving
<1>6. TypeOK'
  BY <1>3 DEF Inv, TypeOK
<1>7. SchedInv'
  <2> /\ Guests' \subseteq Guests /\ Exited \subseteq Exited'
      /\ Asleep' \subseteq Asleep /\ Checking \subseteq Checking'
    BY DEF Guests, Exited, Asleep, Checking
  <2> QED
    BY SchedSame DEF Inv
<1>8. ObjectInv'
  BY <1>3, SMT DEF Inv, ObjectInv
<1>9. ASSUME NEW u \in Thread PROVE ThreadInv(u)'
  <2> ThreadInv(u) /\ (u # t => pc'[u] = pc[u])
    BY DEF Inv
  <2> CASE u = w
    BY <1>5 DEF ThreadInv, Leaving
  <2> CASE u = t
    BY <1>3, <1>5 DEF ThreadInv, Leaving
  <2> CASE u # t /\ u # w
    BY <1>5 DEF ThreadInv, Leaving
  <2> QED
    OBVIOUS
<1>10. QueueMatchesValue'
  <2>1. Cardinality(Waiters) = to_awake + (IF val < 0 THEN -val ELSE 0) /\ val \in Int
    BY DEF Inv, QueueMatchesValue, TypeOK
  <2>2. w \in Waiters /\ Waiters' = Waiters \ {w}
    <3> pc[w] # "w_sleep"
      BY <1>4, <1>5 DEF ThreadInv
    <3> QED
      BY DEF Waiters
  <2> Cardinality(Waiters') = Cardinality(Waiters) - 1
    BY <2>2, WaitersFinite, FS_RemoveElement DEF Inv
  <2> QED
    BY <1>1, <2>1, SMT DEF QueueMatchesValue
<1> QED
  BY <1>6, <1>7, <1>8, <1>9, <1>10 DEF Inv

\* The popped waiters are awoken.
LEMMA PostAwakeInv ==
  ASSUME Inv, NEW t \in Thread, PostAwake(t)
  PROVE  Inv'
<1> USE Zenon
<1>1. /\ pc \in [Thread -> PC] /\ pc[t] = "p_awake" /\ pc' \in [Thread -> PC]
      /\ pc'[t] = "check" /\ (\A u \in Thread \ {t} : pc'[u] = pc[u])
      /\ UNCHANGED <<setup, val, sq, exists, seen, timeout, count, to_awake>>
      /\ g_to_awake' = <<>> /\ mutex' = NoThread /\ NoThread \notin Thread
      /\ g_to_awake \in Seq(Thread)
  BY SchedAssumption DEF Inv, TypeOK, PostAwake, Goto, PC
<1>2. PICK late \in SUBSET Thread : sched' = AwakeAll(sched, t, g_to_awake, late)
  BY DEF Inv, TypeOK, PostAwake, SchedType
<1>3. /\ Placed(sched', Guests \ {t}, Exited, Asleep \ Range(g_to_awake), Checking)
      /\ sched'.stop = sched.stop /\ sched'.again = sched.again
  <2>1. /\ Guests \in SUBSET Thread /\ Placed(sched, Guests, Exited, Asleep, Checking)
        /\ t \in Callers /\ g_to_awake \in Seq(Thread)
    BY <1>1 DEF Guests, Inv, SchedInv, Callers
  <2>2. /\ Placed(AwakeAll(sched, t, g_to_awake, late), Guests \ {t}, Exited,
                  Asleep \ Range(g_to_awake), Checking)
        /\ AwakeAll(sched, t, g_to_awake, late).stop = sched.stop
        /\ AwakeAll(sched, t, g_to_awake, late).again = sched.again
    BY <2>1, PlacedAwakeAll, SMTT(30)
  <2> QED
    BY <1>2, <2>2
<1>4. Range(g_to_awake') = {}
  BY <1>1, SMT DEF Range
<1>5. mutex = t /\ ~(to_awake > 0)
  BY <1>1 DEF Inv, ThreadInv, ObjectInv
<1>6. SchedInv'
  <2>1. Guests' \subseteq Guests \ {t} /\ Exited \subseteq Exited' /\ Checking \subseteq Checking'
    BY <1>1 DEF Guests, Exited, Checking
  <2>2. Asleep' \subseteq Asleep \ Range(g_to_awake)
    BY <1>1, <1>3, <1>4 DEF Asleep, Inv, ThreadInv, Leaving, ObjectInv
  <2> QED
    BY <1>3, <2>1, <2>2 DEF SchedInv, Placed
<1>7. TypeOK'
  <2>1. sched' \in SchedType
    BY <1>6 DEF SchedInv, Placed, Core
  <2> QED
    BY <1>1, <2>1, SMTT(30) DEF Inv, TypeOK
<1>8. ObjectInv'
  BY <1>1, <1>4, <1>5 DEF Inv, ObjectInv
<1>9. ASSUME NEW u \in Thread PROVE ThreadInv(u)'
  BY <1>1, <1>3, <1>4, <1>5 DEF Inv, ThreadInv, Leaving
<1>10. QueueMatchesValue'
  BY <1>1 DEF Inv, Waiters, QueueMatchesValue
<1> QED
  BY <1>6, <1>7, <1>8, <1>9, <1>10 DEF Inv

-----------------------------------------------------------------------------
(***************************************************************************)
(* The steps common to all system calls.                                   *)
(***************************************************************************)
\* A thread moves between places where it neither waits nor holds the lock: what
\* concerns the object is kept.
LEMMA ObjectSame ==
  ASSUME Inv, SchedInv', NEW t \in Thread, UNCHANGED sema, pc' \in [Thread -> PC],
         \A u \in Thread \ {t} : pc'[u] = pc[u],
         pc[t] \in {"guest", "check", "usleep"} \/ pc'[t] = pc[t],
         pc'[t] \in {"check", "usleep", "redo", "exited"} \/ pc'[t] = pc[t],
         pc[t] = "check" => pc'[t] = "check",
         sched.stop \subseteq sched'.stop,
         \/ sched'.again = sched.again
         \/ sched'.again = sched.again \cup {t} /\ pc'[t] = "redo",
         t \in sched.again => pc'[t] = pc[t]
  PROVE  Inv'
<1> USE Zenon
<1> UNCHANGED <<setup, val, sq, mutex, exists, seen, timeout, count, to_awake, g_to_awake>>
  BY DEF sema
<1>1. TypeOK'
  <2> sched' \in SchedType
    BY DEF SchedInv, Placed, Core
  <2> QED
    BY DEF Inv, TypeOK
<1>2. ObjectInv'
  BY DEF Inv, ObjectInv, ThreadInv
<1>3. t \notin Range(sq) \/ pc'[t] = pc[t]
  BY SMTT(30) DEF Inv, ThreadInv, Leaving
<1>4. ASSUME NEW u \in Thread PROVE ThreadInv(u)'
  <2> ThreadInv(u)
    BY DEF Inv
  <2> CASE u # t
    <3> pc'[u] = pc[u] /\ (u \in sched'.again <=> u \in sched.again)
      OBVIOUS
    <3> Range(sq) \cap sched'.again = Range(sq) \cap sched.again
      BY <1>3 DEF Inv, ThreadInv, Leaving
    <3> QED
      BY DEF ThreadInv, Leaving
  <2> CASE u = t
    BY DEF ThreadInv, Leaving
  <2> QED
    OBVIOUS
<1> QueueMatchesValue'
  <2> Waiters' = Waiters
    BY DEF Waiters
  <2> QED
    BY DEF Inv, QueueMatchesValue
<1> QED
  BY <1>1, <1>2, <1>4 DEF Inv

\* Guest code polls its flags; sys_timer_usleep elapses.
LEMMA PollInv ==
  ASSUME Inv, NEW t \in Thread, Poll(t) \/ UsleepElapsed(t), UNCHANGED sema
  PROVE  Inv'
<1> USE Zenon
<1> /\ pc \in [Thread -> PC] /\ pc[t] \in {"guest", "usleep"} /\ pc' \in [Thread -> PC]
    /\ pc'[t] = "check" /\ (\A u \in Thread \ {t} : pc'[u] = pc[u])
    /\ UNCHANGED <<sched, sq, g_to_awake>>
  BY DEF Inv, TypeOK, Poll, UsleepElapsed, Goto, PC, sema
<1> SchedInv'
  BY SchedMove DEF Inv
<1> t \notin sched.again
  BY DEF Inv, ThreadInv
<1> QED
  BY ObjectSame

\* check_state puts its thread back on the run queue.
LEMMA RequeueInv ==
  ASSUME Inv, NEW t \in Thread, Requeue(t), UNCHANGED sema
  PROVE  Inv'
<1> USE Zenon
<1>1. pc \in [Thread -> PC] /\ pc' = pc /\ UNCHANGED <<sq, g_to_awake>>
  BY DEF Inv, TypeOK, Requeue, sema
<1>2. PICK late \in SUBSET Thread : sched' = CpuSleep(sched, t, late)
  BY DEF Inv, TypeOK, Requeue, SchedType
<1>3. t \in Checking
  <2> sched.cpu_sleep[t] # "no"
    BY DEF Requeue
  <2> QED
    BY DEF Inv, SchedInv, Placed
<1> /\ Placed(sched', Guests \ {t}, Exited, Asleep \ {t}, Checking)
    /\ sched'.stop = sched.stop /\ sched'.again = sched.again
  <2> Guests \in SUBSET Thread /\ Placed(sched, Guests, Exited, Asleep, Checking)
    BY DEF Guests, Inv, SchedInv
  <2> /\ Placed(CpuSleep(sched, t, late), Guests \ {t}, Exited, Asleep \ {t}, Checking)
      /\ CpuSleep(sched, t, late).stop = sched.stop
      /\ CpuSleep(sched, t, late).again = sched.again
    BY <1>3, PlacedCpuSleep, SMT
  <2> QED
    BY <1>2
<1>4. SchedInv'
  <2> /\ Guests' \subseteq Guests \ {t} /\ Exited \subseteq Exited'
      /\ Asleep' \subseteq Asleep \ {t} /\ Checking \subseteq Checking'
    BY <1>1, <1>3 DEF Guests, Exited, Asleep, Checking
  <2> QED
    BY DEF SchedInv, Placed
<1> QED
  BY <1>1, <1>4, ObjectSame

\* sys_timer_usleep is cut short by a stop.
LEMMA UsleepCutInv ==
  ASSUME Inv, NEW t \in Thread, UsleepCut(t), UNCHANGED sema
  PROVE  Inv'
<1> USE Zenon
<1>1. /\ pc \in [Thread -> PC] /\ pc[t] = "usleep" /\ pc' \in [Thread -> PC]
      /\ pc'[t] = "redo" /\ (\A u \in Thread \ {t} : pc'[u] = pc[u])
      /\ UNCHANGED <<sq, g_to_awake>> /\ sched' = [sched EXCEPT !.again = @ \cup {t}]
  BY DEF Inv, TypeOK, UsleepCut, Goto, PC, sema
<1>2. /\ Placed(sched', Guests, Exited, Asleep, Checking)
      /\ sched'.stop = sched.stop /\ sched'.again = sched.again \cup {t}
  <2> Guests \in SUBSET Thread /\ Placed(sched, Guests, Exited, Asleep, Checking)
    BY DEF Guests, Inv, SchedInv
  <2> QED
    BY <1>1, PlacedAgain, SMTT(30)
<1>3. SchedInv'
  <2> /\ Guests' \subseteq Guests /\ Exited \subseteq Exited'
      /\ Asleep' \subseteq Asleep /\ Checking \subseteq Checking'
    BY <1>1, <1>2 DEF Guests, Exited, Asleep, Checking
  <2> QED
    BY <1>2 DEF SchedInv, Placed
<1> t \notin sched.again
  BY <1>1 DEF Inv, ThreadInv
<1> QED
  BY <1>1, <1>2, <1>3, ObjectSame

\* sys_timer_usleep.
LEMMA UsleepInv ==
  ASSUME Inv, NEW t \in Thread, Usleep(t), UNCHANGED sema
  PROVE  Inv'
<1> USE Zenon
<1>1. /\ pc \in [Thread -> PC] /\ pc[t] = "guest" /\ pc' \in [Thread -> PC]
      /\ pc'[t] = "usleep" /\ (\A u \in Thread \ {t} : pc'[u] = pc[u])
      /\ UNCHANGED <<sq, g_to_awake>>
  BY DEF Inv, TypeOK, Usleep, Goto, PC, sema
<1>2. PICK registered \in BOOLEAN, late \in SUBSET Thread :
        sched' = Sleep(sched, t, registered, late)
  BY DEF Inv, TypeOK, Usleep, SchedType
<1>3. /\ Placed(sched', Guests \ {t}, Exited, Asleep \cup {t}, Checking)
      /\ sched'.stop = sched.stop /\ sched'.again = sched.again
  <2>1. /\ t \in Guests /\ Guests \in SUBSET Thread
        /\ Placed(sched, Guests, Exited, Asleep, Checking)
    BY <1>1 DEF Guests, Inv, SchedInv
  <2> QED
    BY <1>2, <2>1, PlacedSleep, SMTT(30)
<1>4. SchedInv'
  <2>1. /\ Guests' \subseteq Guests \ {t} /\ Exited \subseteq Exited'
        /\ Asleep' \subseteq Asleep \cup {t} /\ Checking \subseteq Checking'
    BY <1>1, <1>3 DEF Guests, Exited, Asleep, Checking
  <2> QED
    BY <1>3, <2>1 DEF SchedInv, Placed
<1>5. t \notin sched.again
  BY <1>1 DEF Inv, ThreadInv
<1> QED
  BY <1>1, <1>3, <1>4, <1>5, ObjectSame

\* _sys_ppu_thread_exit.
LEMMA ExitInv ==
  ASSUME Inv, NEW t \in Thread, Exit(t), UNCHANGED sema
  PROVE  Inv'
<1> USE Zenon
<1>1. /\ pc \in [Thread -> PC] /\ pc[t] = "guest" /\ pc' \in [Thread -> PC]
      /\ pc'[t] = "exited" /\ (\A u \in Thread \ {t} : pc'[u] = pc[u])
      /\ UNCHANGED <<sq, g_to_awake>>
  BY DEF Inv, TypeOK, Exit, Goto, PC, sema
<1>2. PICK late \in SUBSET Thread : sched' = ExitSched(sched, t, late)
  BY DEF Inv, TypeOK, Exit, SchedType, ExitSched
<1>3. /\ Placed(sched', Guests \ {t}, Exited \cup {t}, Asleep \cup {t}, Checking)
      /\ sched'.stop = sched.stop /\ sched'.again = sched.again
  <2> /\ t \in Guests /\ Guests \in SUBSET Thread
      /\ Placed(sched, Guests, Exited, Asleep, Checking)
    BY <1>1 DEF Guests, Inv, SchedInv
  <2> QED
    BY <1>2, PlacedExit, SMT
<1>4. SchedInv'
  <2> /\ Guests' \subseteq Guests \ {t} /\ Exited \cup {t} \subseteq Exited'
      /\ Asleep' \subseteq Asleep \cup {t} /\ Checking \subseteq Checking'
    BY <1>1, <1>3 DEF Guests, Exited, Asleep, Checking
  <2> QED
    BY <1>3 DEF SchedInv, Placed
<1> t \notin sched.again
  BY <1>1 DEF Inv, ThreadInv
<1> QED
  BY <1>1, <1>3, <1>4, ObjectSame

\* A thread is told to stop.
LEMMA StopInv ==
  ASSUME Inv, NEW t \in Thread, Stop(t), UNCHANGED sema
  PROVE  Inv'
<1> USE Zenon
<1> /\ pc \in [Thread -> PC] /\ pc' = pc /\ UNCHANGED <<sq, g_to_awake>>
    /\ sched' = [sched EXCEPT !.stop = @ \cup {t}]
  BY DEF Inv, TypeOK, Stop, sema
<1> /\ Placed(sched', Guests, Exited, Asleep, Checking)
    /\ sched'.stop = sched.stop \cup {t} /\ sched'.again = sched.again
  <2> Guests \in SUBSET Thread /\ Placed(sched, Guests, Exited, Asleep, Checking)
    BY DEF Guests, Inv, SchedInv
  <2> QED
    BY PlacedStop
<1> SchedInv'
  <2> /\ Guests' \subseteq Guests /\ Exited \subseteq Exited'
      /\ Asleep' \subseteq Asleep /\ Checking \subseteq Checking'
    BY DEF Guests, Exited, Asleep, Checking
  <2> QED
    BY DEF SchedInv, Placed
<1> QED
  BY ObjectSame

-----------------------------------------------------------------------------
(***************************************************************************)
(* The invariant                                                           *)
(***************************************************************************)
\* The threads with a program are on the run queue; nobody waits.
LEMMA InitInv == Init => Inv
<1> USE Zenon
<1> SUFFICES ASSUME Init PROVE Inv
  OBVIOUS
<1> DEFINE q == StartQueue(InitQueue, Role)
<1>1. /\ q \in Seq(Thread) /\ Range(q) = {t \in Thread : Role[t] # {}}
      /\ Ordered(q, InitPrio) /\ setup \in Setups
  <2> setup \in Setups /\ StartsOrdered(StartQueue(InitQueue, setup.role), setup.role, InitPrio)
    BY SemaAssumption DEF Init
  <2> QED
    BY DEF StartsOrdered, Ordered, Role
<1>2. sched = InitSched(q) /\ pc = StartPc(sched, Role)
  BY DEF Init
<1> HIDE DEF q
<1>3. /\ Placed(sched, Range(q) \ sched.suspend, Thread \ Range(q), {}, {})
      /\ sched.stop = {} /\ sched.again = {} /\ sched.suspend \subseteq Range(q)
  BY <1>1, <1>2, PlacedInit
<1> /\ pc \in [Thread -> PC]
    /\ \A t \in Thread : /\ pc[t] \in {"exited", "check", "guest"}
                         /\ pc[t] = "exited" <=> t \notin Range(q)
                         /\ pc[t] = "guest" <=> t \in Range(q) \ sched.suspend
  BY <1>1, <1>2 DEF StartPc, PC
<1> /\ val = InitVal /\ sq = <<>> /\ mutex = NoThread /\ exists = TRUE
    /\ seen = [t \in Thread |-> 0] /\ timeout = {} /\ count = [t \in Thread |-> 0]
    /\ to_awake = 0 /\ g_to_awake = <<>>
  BY DEF Init
<1> Range(sq) = {} /\ Range(g_to_awake) = {} /\ Len(sq) = 0 /\ sq \in Seq(Thread)
  BY SMT DEF Range
<1>4. SchedInv
  <2> /\ Guests \subseteq Range(q) \ sched.suspend /\ Thread \ Range(q) \subseteq Exited
      /\ Asleep \subseteq {} /\ {} \subseteq Checking
    BY DEF Guests, Exited, Asleep, Checking
  <2> QED
    BY <1>3 DEF SchedInv, Placed
<1> InitVal \in Int /\ InitVal >= 0 /\ NoThread \notin Thread
  BY SemaAssumption, SchedAssumption, SMTT(30)
<1>5. TypeOK
  <2> sched \in SchedType
    BY <1>4 DEF SchedInv, Placed, Core
  <2> QED
    BY <1>1, SMT DEF TypeOK
<1>6. ObjectInv
  BY SMT DEF ObjectInv, Distinct
<1>7. ASSUME NEW t \in Thread PROVE ThreadInv(t)
  BY <1>3 DEF ThreadInv
<1> QueueMatchesValue
  <2> Waiters = {}
    BY DEF Waiters
  <2> QED
    BY FS_EmptySet, SMT DEF QueueMatchesValue
<1> QED
  BY <1>4, <1>5, <1>6, <1>7 DEF Inv

\* Nothing changes.
LEMMA StutterInv ==
  ASSUME Inv, UNCHANGED vars
  PROVE  Inv'
<1> USE Zenon
<1> UNCHANGED <<sched, pc, setup, val, sq, mutex, exists, seen, timeout, count, to_awake, g_to_awake>>
  BY DEF vars, sema
<1> TypeOK' /\ SchedInv' /\ ObjectInv'
  BY DEF Inv, TypeOK, SchedInv, ObjectInv, Guests, Exited, Asleep, Checking
<1> ASSUME NEW t \in Thread PROVE ThreadInv(t)'
  BY DEF Inv, ThreadInv, Leaving
<1> QueueMatchesValue'
  BY DEF Inv, QueueMatchesValue, Waiters
<1> QED
  BY DEF Inv

\* Every step preserves the invariant.
LEMMA NextInv ==
  ASSUME Inv, [Next]_vars
  PROVE  Inv'
<1> USE Zenon
<1>1. ASSUME NEW t \in Thread, Call(t) PROVE Inv'
  <2>1. ASSUME NEW timed \in {FALSE, "timed" \in Role[t]}, Wait(t, timed) PROVE Inv'
    <3>1. timed \in BOOLEAN
      <4> timed = FALSE \/ timed = ("timed" \in Role[t])
        OBVIOUS
      <4> ("timed" \in Role[t]) \in BOOLEAN
        BY SMT
      <4> QED
        OBVIOUS
    <3> QED
      BY <2>1, <3>1, WaitInv
  <2>2. CASE TryWait(t)
    BY <2>2, TryWaitInv
  <2> ASSUME NEW n \in Counts, Post(t, n) PROVE Inv'
    BY PostInv
  <2> CASE Destroy(t)
    BY DestroyInv
  <2> CASE Usleep(t) /\ UNCHANGED sema
    BY UsleepInv
  <2> CASE Exit(t) /\ UNCHANGED sema
    BY ExitInv
  <2> CASE Stop(t) /\ UNCHANGED sema
    BY StopInv
  <2> QED
    BY <1>1, <2>1, <2>2 DEF Call
<1>2. ASSUME NEW t \in Thread, WaitStep(t) PROVE Inv'
  <2> CASE WaitCheck(t)
    BY CheckInv DEF WaitCheck
  <2> QED
    BY <1>2, WaitCasInv, WaitLockInv, WaitSleepInv, WaitSignaledInv, WaitLeavesInv,
       WaitAgainInv, WaitUnqueueInv DEF WaitStep
<1> ASSUME NEW t \in Thread, PostStep(t) PROVE Inv'
  BY PostCasInv, PostAgainInv, PostLockInv, PostPopInv, PostAwakeInv DEF PostStep
<1> ASSUME NEW t \in Thread, ThreadStep(t) PROVE Inv'
  <2> UNCHANGED sema
    BY DEF ThreadStep
  <2> CASE CheckState(t, "check", "guest", "stopped")
    BY CheckInv
  <2> QED
    BY PollInv, RequeueInv, UsleepCutInv DEF ThreadStep
<1> CASE UNCHANGED vars
  BY StutterInv
<1> QED
  BY <1>1, <1>2 DEF Next

\* The inductive invariant: the threads are where the scheduler has them, the queue
\* and the lists of a post in progress hold waiters only, and val counts them.
THEOREM SemaphoreInv == Spec => []Inv
<1>1. Inv /\ [Next]_vars => Inv'
  BY NextInv
<1> QED
  BY <1>1, InitInv, PTL DEF Spec

\* Every variable keeps its type.
THEOREM TypeCorrect == Spec => []TypeOK
<1>1. Inv => TypeOK
  BY DEF Inv
<1> QED
  BY <1>1, SemaphoreInv, PTL

\* A negative val is exactly the number of waiters no post has been counted for,
\* although the fast paths of wait, trywait and post change val without the lock.
THEOREM ValueMatchesQueue == Spec => []QueueMatchesValue
<1>1. Inv => QueueMatchesValue
  BY DEF Inv
<1> QED
  BY <1>1, SemaphoreInv, PTL

\* What the invariant says of the calls.
LEMMA InvCalls ==
  ASSUME Inv
  PROVE  CallsSound
<1> USE Zenon
<1>1. to_awake \in Nat /\ val \in Int
  BY DEF Inv, TypeOK
<1>2. ~exists => Cardinality(Waiters) = to_awake
  BY <1>1, SMT DEF Inv, ObjectInv, QueueMatchesValue
<1>3. ASSUME NEW t \in Thread
      PROVE  /\ pc[t] = "p_pop" => Len(sq) >= to_awake /\ to_awake > 0
             /\ pc[t] = "w_unq" /\ mutex = NoThread /\ t \in Range(sq) => val < 0
             /\ pc[t] = "w_loop" /\ t \in sched.signal \ sched.stop => t \notin Range(sq)
             /\ pc[t] = "w_redo" => t \in Range(sq) /\ t \in sched.again
  <2>1. pc[t] = "p_pop" => Len(sq) >= to_awake /\ to_awake > 0
    BY PopFinds
  <2> ASSUME mutex = NoThread, t \in Range(sq) PROVE val < 0
    <3> to_awake = 0
      BY LockFree
    <3> Cardinality(Waiters) # 0
      <4> Waiters # {} /\ IsFiniteSet(Waiters)
        BY WaitersFinite DEF Waiters, Inv
      <4> QED
        BY FS_EmptySet
    <3> QED
      BY <1>1, SMT DEF Inv, QueueMatchesValue
  <2> pc[t] = "w_loop" /\ t \in sched.signal \ sched.stop => t \notin Range(sq)
    BY DEF Inv, SchedInv, Placed, Core, Asleep
  <2> pc[t] = "w_redo" => t \in Range(sq) /\ t \in sched.again
    BY DEF Inv, ThreadInv
  <2> QED
    BY <2>1
<1> UsleepUndisturbed
  BY DEF UsleepUndisturbed, Inv, SchedInv, Placed, Core, Asleep
<1> GuestCanSleep
  BY DEF GuestCanSleep, Inv, SchedInv, Placed, Guests, Guest
<1> QED
  BY <1>2, <1>3 DEF CallsSound

\* What the calls rely on: a post finds a waiter for every count it hands over, a
\* waiter that times out still has its -1 in val, only a popped waiter is signaled,
\* nobody waits on a withdrawn semaphore, and a waiter that will call wait again
\* after loading is still queued.
THEOREM CallsAlwaysSound == Spec => []CallsSound
<1>1. Inv => CallsSound
  BY SMTT(30), InvCalls
<1> QED
  BY <1>1, SemaphoreInv, PTL

\* No post awakes a thread that has left the wait for a sleep in sys_timer_usleep: an
\* awake is made only for a waiter that the post has popped, under the lock that a
\* waiter which times out must take before it leaves.
THEOREM UsleepSafe == Spec => []UsleepUndisturbed
<1>1. Inv => UsleepUndisturbed
  BY InvCalls DEF CallsSound
<1> QED
  BY <1>1, SemaphoreInv, PTL

-----------------------------------------------------------------------------
(***************************************************************************)
(* The refinement: what each step does to val, the waiters and to_awake,   *)
(* and that this is a step of the abstract semaphore or a stutter.         *)
(***************************************************************************)
Quiet == val' = val /\ Waiters' = Waiters /\ to_awake' = to_awake

TakesToken == val > 0 /\ val' = val - 1 /\ Waiters' = Waiters /\ to_awake' = to_awake

StartsWaiting(t) ==
  /\ val <= 0 /\ val' = val - 1 /\ t \notin Waiters /\ Waiters' = Waiters \cup {t}
  /\ to_awake' = to_awake

\* The waiters that no post has been counted for.
Open == IF val < 0 THEN -val ELSE 0

Posts(n) ==
  /\ n > 0 /\ n <= MaxVal - val /\ val' = val + n /\ Waiters' = Waiters
  /\ to_awake' = to_awake + (IF n < Open THEN n ELSE Open)

HandsOver(t) ==
  /\ to_awake > 0 /\ to_awake' = to_awake - 1
  /\ t \in Waiters /\ Waiters' = Waiters \ {t} /\ val' = val

GivesUp(t) ==
  /\ to_awake = 0 /\ to_awake' = to_awake
  /\ t \in Waiters /\ Waiters' = Waiters \ {t} /\ val < 0 /\ val' = val + 1

Effect ==
  \/ Quiet \/ TakesToken
  \/ \E t \in Thread : StartsWaiting(t) \/ HandsOver(t) \/ GivesUp(t)
  \/ \E n \in Int : Posts(n)

\* Threads that move outside the wait and the post leave it alone.
LEMMA OutsideEffect ==
  ASSUME Inv, NEW t \in Thread, UNCHANGED <<val, sq, to_awake>>,
         \A u \in Thread \ {t} : pc'[u] = pc[u],
         pc[t] # "w_sleep", pc'[t] # "w_sleep"
  PROVE  Effect
<1>1. Waiters' = Waiters
  BY DEF Waiters
<1> QED
  BY <1>1, Zenon DEF Effect, Quiet

\* The calls that begin or are complete in one step.
LEMMA CallEffect ==
  ASSUME Inv, NEW t \in Thread, Call(t)
  PROVE  Effect
<1> USE Zenon
<1> pc \in [Thread -> PC] /\ val \in Int
  BY DEF Inv, TypeOK
<1>1. ASSUME NEW timed, Wait(t, timed) PROVE Effect
  <2> /\ UNCHANGED <<val, sq, to_awake>> /\ (\A u \in Thread \ {t} : pc'[u] = pc[u])
      /\ pc[t] = "guest" /\ pc'[t] # "w_sleep"
    BY <1>1 DEF Wait, Goto
  <2> QED
    BY OutsideEffect
<1>2. CASE TryWait(t)
  <2> /\ UNCHANGED <<sq, to_awake>> /\ (\A u \in Thread \ {t} : pc'[u] = pc[u])
      /\ pc[t] = "guest" /\ pc'[t] # "w_sleep"
      /\ val' = val \/ (val > 0 /\ val' = val - 1)
    BY <1>2 DEF TryWait, Goto
  <2> Waiters' = Waiters
    BY DEF Waiters
  <2> QED
    BY DEF Effect, Quiet, TakesToken
<1>3. ASSUME NEW n, Post(t, n) PROVE Effect
  <2> /\ UNCHANGED <<val, sq, to_awake>> /\ (\A u \in Thread \ {t} : pc'[u] = pc[u])
      /\ pc[t] = "guest" /\ pc'[t] # "w_sleep"
    BY <1>3 DEF Post, Goto
  <2> QED
    BY OutsideEffect
<1>4. CASE Destroy(t)
  <2> /\ UNCHANGED <<val, sq, to_awake>> /\ (\A u \in Thread \ {t} : pc'[u] = pc[u])
      /\ pc[t] = "guest" /\ pc'[t] # "w_sleep"
    BY <1>4 DEF Destroy, Goto
  <2> QED
    BY OutsideEffect
<1> CASE (Usleep(t) \/ Exit(t)) /\ UNCHANGED sema
  <2> /\ UNCHANGED <<val, sq, to_awake>> /\ (\A u \in Thread \ {t} : pc'[u] = pc[u])
      /\ pc[t] = "guest" /\ pc'[t] # "w_sleep"
    BY DEF Usleep, Exit, Goto, sema
  <2> QED
    BY OutsideEffect
<1> CASE Stop(t) /\ UNCHANGED sema
  <2> UNCHANGED <<val, sq, to_awake, pc>>
    BY DEF Stop, sema
  <2> QED
    BY DEF Effect, Quiet, Waiters
<1> QED
  BY <1>1, <1>2, <1>3, <1>4 DEF Call

\* The steps common to all system calls.
LEMMA ThreadEffect ==
  ASSUME Inv, NEW t \in Thread, ThreadStep(t)
  PROVE  Effect
<1> USE Zenon
<1> pc \in [Thread -> PC] /\ UNCHANGED <<val, sq, to_awake>>
  BY DEF Inv, TypeOK, ThreadStep, sema
<1> CASE Poll(t) \/ UsleepElapsed(t) \/ UsleepCut(t)
  <2> /\ (\A u \in Thread \ {t} : pc'[u] = pc[u])
      /\ pc[t] # "w_sleep" /\ pc'[t] # "w_sleep"
    BY DEF Poll, UsleepElapsed, UsleepCut, Goto
  <2> QED
    BY OutsideEffect
<1> CASE CheckState(t, "check", "guest", "stopped")
  <2> /\ (\A u \in Thread \ {t} : pc'[u] = pc[u])
      /\ pc[t] # "w_sleep" /\ pc'[t] # "w_sleep"
    BY DEF CheckState, Goto
  <2> QED
    BY OutsideEffect
<1> CASE Requeue(t)
  BY DEF Requeue, Effect, Quiet, Waiters
<1> QED
  BY DEF ThreadStep

\* The steps of wait.
LEMMA WaitEffect ==
  ASSUME Inv, NEW t \in Thread, WaitStep(t)
  PROVE  Effect
<1> USE Zenon
<1> /\ pc \in [Thread -> PC] /\ val \in Int /\ sq \in Seq(Thread) /\ Distinct(sq)
    /\ to_awake \in Nat
  BY DEF Inv, TypeOK, ObjectInv
<1>1. CASE WaitCas(t)
  <2>1. /\ UNCHANGED <<sq, to_awake>> /\ (\A u \in Thread \ {t} : pc'[u] = pc[u])
        /\ pc[t] = "w_cas" /\ pc'[t] # "w_sleep"
        /\ val' = val \/ (val > 0 /\ val' = val - 1)
    <3> CASE seen[t] > 0 /\ val = seen[t]
      <4> Goto(t, "w_cas", "check") /\ val' = val - 1 /\ val > 0
        BY <1>1 DEF WaitCas
      <4> QED
        BY <1>1 DEF WaitCas, Goto
    <3> CASE ~(seen[t] > 0 /\ val = seen[t])
      <4> Goto(t, "w_cas", "w_lock") /\ val' = val
        BY <1>1 DEF WaitCas
      <4> QED
        BY <1>1 DEF WaitCas, Goto
    <3> QED
      OBVIOUS
  <2> Waiters' = Waiters
    BY <2>1 DEF Waiters
  <2> QED
    BY <2>1 DEF Effect, Quiet, TakesToken
<1>2. CASE WaitLock(t)
  <2> UNCHANGED <<sq, to_awake>> /\ val' = val - 1
    BY <1>2 DEF WaitLock
  <2> CASE val <= 0
    <3> pc[t] = "w_lock" /\ pc'[t] = "w_sleep" /\ (\A u \in Thread \ {t} : pc'[u] = pc[u])
      BY <1>2 DEF WaitLock, Goto
    <3> t \notin Waiters /\ Waiters' = Waiters \cup {t}
      BY DEF Waiters, Inv, ThreadInv, Leaving
    <3> QED
      BY DEF Effect, StartsWaiting
  <2> CASE ~(val <= 0)
    <3> pc[t] = "w_lock" /\ pc'[t] = "check" /\ (\A u \in Thread \ {t} : pc'[u] = pc[u])
      BY <1>2 DEF WaitLock, Goto
    <3> Waiters' = Waiters
      BY DEF Waiters
    <3> QED
      BY SMT DEF Effect, TakesToken
  <2> QED
    OBVIOUS
<1>3. CASE WaitSleep(t)
  <2> /\ UNCHANGED <<val, to_awake>> /\ pc[t] = "w_sleep" /\ pc'[t] = "w_loop"
      /\ (\A u \in Thread \ {t} : pc'[u] = pc[u]) /\ sq' = Append(sq, t)
    BY <1>3 DEF WaitSleep, Goto
  <2> Range(sq') = Range(sq) \cup {t}
    BY AppendDistinct
  <2> Waiters' = Waiters
    BY DEF Waiters
  <2> QED
    BY DEF Effect, Quiet
<1>4. CASE WaitSignaled(t) \/ WaitStopped(t) \/ WaitTimeout(t) \/ WaitCheck(t)
  <2> /\ UNCHANGED <<val, sq, to_awake>> /\ (\A u \in Thread \ {t} : pc'[u] = pc[u])
      /\ pc[t] # "w_sleep" /\ pc'[t] # "w_sleep"
    BY <1>4 DEF WaitSignaled, WaitStopped, WaitTimeout, WaitCheck, CheckState, Goto, sema
  <2> QED
    BY OutsideEffect
<1>5. CASE WaitAgain(t)
  <2> /\ UNCHANGED <<val, sq, to_awake>> /\ (\A u \in Thread \ {t} : pc'[u] = pc[u])
      /\ pc[t] # "w_sleep" /\ pc'[t] # "w_sleep"
    BY <1>5 DEF WaitAgain, Goto
  <2> QED
    BY OutsideEffect
<1>6. CASE WaitUnqueue(t)
  <2> /\ UNCHANGED to_awake /\ pc[t] = "w_unq" /\ pc'[t] = "check"
      /\ (\A u \in Thread \ {t} : pc'[u] = pc[u]) /\ sq' = Unqueue(sq, t)
      /\ val' = (IF t \in Range(sq) /\ val < 0 THEN val + 1 ELSE val)
      /\ mutex = NoThread
    BY <1>6 DEF WaitUnqueue, Goto
  <2> Range(sq') = Range(sq) \ {t}
    BY UnqueueDistinct
  <2> CASE t \in Range(sq)
    <3> t \in Waiters /\ Waiters' = Waiters \ {t}
      BY DEF Waiters
    <3> val < 0 /\ to_awake = 0
      BY InvCalls, LockFree DEF CallsSound
    <3> QED
      BY DEF Effect, GivesUp
  <2> CASE t \notin Range(sq)
    <3> Waiters' = Waiters
      BY DEF Waiters
    <3> QED
      BY DEF Effect, Quiet
  <2> QED
    OBVIOUS
<1> QED
  BY <1>1, <1>2, <1>3, <1>4, <1>5, <1>6 DEF WaitStep

\* The steps of post.
LEMMA PostEffect ==
  ASSUME Inv, NEW t \in Thread, PostStep(t)
  PROVE  Effect
<1> USE Zenon
<1> /\ pc \in [Thread -> PC] /\ val \in Int /\ sq \in Seq(Thread) /\ Distinct(sq)
    /\ to_awake \in Nat /\ count \in [Thread -> Int] /\ seen \in [Thread -> Int]
    /\ sched \in SchedType /\ MaxVal \in Nat
  BY SemaAssumption DEF Inv, TypeOK, ObjectInv
<1>1. CASE PostCas(t)
  <2> DEFINE n == count[t]
             fast == seen[t] >= 0 /\ n > 0 /\ n <= MaxVal - seen[t] /\ val = seen[t]
  <2> /\ UNCHANGED <<sq, to_awake>> /\ (\A u \in Thread \ {t} : pc'[u] = pc[u])
      /\ pc[t] = "p_cas" /\ pc'[t] \in {"check", "p_lock"}
      /\ val' = (IF fast THEN val + n ELSE val) /\ n \in Int /\ seen[t] \in Int
    BY <1>1 DEF PostCas, Goto
  <2> Waiters' = Waiters
    BY DEF Waiters
  <2> CASE fast
    <3> Posts(n)
      BY SMT DEF Posts, Open
    <3> QED
      BY DEF Effect
  <2> CASE ~fast
    BY DEF Effect, Quiet
  <2> QED
    OBVIOUS
<1>2. CASE PostAgain(t)
  <2> /\ UNCHANGED <<val, sq, to_awake>> /\ (\A u \in Thread \ {t} : pc'[u] = pc[u])
      /\ pc[t] # "w_sleep" /\ pc'[t] # "w_sleep"
    BY <1>2 DEF PostAgain, Goto
  <2> QED
    BY OutsideEffect
<1>3. CASE PostLock(t)
  <2> DEFINE n == count[t]
             pops == IF Open < n THEN Open ELSE n
             ok == n <= MaxVal - val
  <2> /\ UNCHANGED sq /\ (\A u \in Thread \ {t} : pc'[u] = pc[u])
      /\ pc[t] = "p_lock" /\ pc'[t] \in {"check", "p_pop"} /\ mutex = NoThread
      /\ val' = (IF ok THEN val + n ELSE val) /\ to_awake' = (IF ok THEN pops ELSE 0)
      /\ n \in Int
    BY <1>3 DEF PostLock, Goto, Open
  <2> Waiters' = Waiters
    BY DEF Waiters
  <2> to_awake = 0 /\ n > 0
    BY LockFree DEF Inv, ThreadInv
  <2> CASE ok
    <3> Posts(n)
      BY SMT DEF Posts, Open
    <3> QED
      BY DEF Effect
  <2> CASE ~ok
    BY DEF Effect, Quiet
  <2> QED
    OBVIOUS
<1>4. CASE PostPop(t)
  <2> DEFINE i == ScheduleIndex(sched, sq, protocol)
  <2> /\ UNCHANGED val /\ to_awake' = to_awake - 1 /\ sq # <<>>
      /\ (\A u \in Thread \ {t} : pc'[u] = pc[u]) /\ pc[t] = "p_pop" /\ pc'[t] # "w_sleep"
      /\ sq' = Unlink(sq, i)
    BY <1>4 DEF PostPop, Goto
  <2>1. i \in 1..Len(sq)
    BY ScheduleIndexType
  <2> /\ sq[i] \in Range(sq) /\ sq[i] \in Thread /\ Range(sq') = Range(sq) \ {sq[i]}
    BY <2>1, UnlinkDistinct, SMTT(30)
  <2> to_awake > 0 /\ (\A u \in Thread : pc[u] # "w_sleep")
    BY PopFinds DEF Inv, ThreadInv
  <2>2. HandsOver(sq[i])
    <3> \A u \in Thread : pc'[u] # "w_sleep"
      OBVIOUS
    <3> Waiters = Range(sq) /\ Waiters' = Range(sq')
      BY DEF Waiters
    <3> QED
      BY DEF HandsOver
  <2> QED
    BY <2>2 DEF Effect
<1> CASE PostAwake(t)
  <2> /\ UNCHANGED <<val, sq, to_awake>> /\ (\A u \in Thread \ {t} : pc'[u] = pc[u])
      /\ pc[t] # "w_sleep" /\ pc'[t] # "w_sleep"
    BY DEF PostAwake, Goto
  <2> QED
    BY OutsideEffect
<1> QED
  BY <1>1, <1>2, <1>3, <1>4 DEF PostStep

\* Every step has one of the effects.
LEMMA NextEffect ==
  ASSUME Inv, [Next]_vars
  PROVE  Effect
<1>1. CASE UNCHANGED vars
  BY <1>1 DEF vars, sema, Effect, Quiet, Waiters
<1> QED
  BY SMTT(30), <1>1, CallEffect, WaitEffect, PostEffect, ThreadEffect DEF Next

\* At the start no token is taken and nobody waits.
LEMMA InitAbstract ==
  ASSUME Init
  PROVE  Abstract!Init
<1> sq = <<>> /\ val = InitVal /\ to_awake = 0 /\ (\A t \in Thread : pc[t] # "w_sleep")
  BY Zenon DEF Init, StartPc
<1> Waiters = {}
  BY DEF Waiters, Range
<1> InitVal \in Nat
  BY SMTT(30), SemaAssumption
<1> QED
  BY DEF Abstract!Init

\* Cardinality as the instance of the abstract semaphore has it.
LEMMA SameCardinality == \A S : Abstract!Cardinality(S) = Cardinality(S)
  BY DEF Abstract!Cardinality, Cardinality

\* Each effect is a step of the abstract semaphore or none.
LEMMA EffectAbstract ==
  ASSUME Inv, Inv', Effect
  PROVE  [Abstract!Next]_(Abstract!vars)
<1> USE Zenon
<1> DEFINE tokens == IF val > 0 THEN val ELSE 0
<1> /\ val \in Int /\ val' \in Int /\ to_awake \in Nat /\ to_awake' \in Nat /\ MaxVal \in Nat
    /\ Cardinality(Waiters) \in Nat /\ Waiters \subseteq Thread
    /\ Cardinality(Waiters) = to_awake + Open
  BY SemaAssumption, WaitersFinite DEF Inv, TypeOK, QueueMatchesValue, Open
<1>1. CASE Quiet
  BY <1>1 DEF Quiet, Abstract!vars
<1>2. CASE TakesToken
  <2> Abstract!Take
    BY <1>2, SMT DEF TakesToken, Abstract!Take
  <2> QED
    BY DEF Abstract!Next
<1>3. ASSUME NEW t \in Thread, StartsWaiting(t) PROVE Abstract!Next
  <2> Abstract!Enqueue(t)
    BY <1>3, SMT DEF StartsWaiting, Abstract!Enqueue
  <2> QED
    BY DEF Abstract!Next
<1>4. ASSUME NEW t \in Thread, HandsOver(t) PROVE Abstract!Next
  <2> Abstract!Grant(t)
    BY <1>4 DEF HandsOver, Abstract!Grant
  <2> QED
    BY DEF Abstract!Next
<1>5. ASSUME NEW t \in Thread, GivesUp(t) PROVE Abstract!Next
  <2> Abstract!GiveUp(t)
    BY <1>5, SameCardinality, SMTT(30) DEF GivesUp, Open, Abstract!GiveUp
  <2> QED
    BY DEF Abstract!Next
<1> ASSUME NEW n \in Int, Posts(n) PROVE Abstract!Next
  <2>1. Cardinality(Waiters) <= Cardinality(Thread) /\ Cardinality(Thread) \in Nat
    BY SchedAssumption, FS_Subset, FS_CardinalityType
  <2> Open \in Nat /\ Open = Cardinality(Waiters) - to_awake
    BY SMT DEF Open
  <2>2. n \in 1..(MaxVal + Cardinality(Thread))
    BY <2>1, SMTT(30) DEF Posts, Open
  <2>3. Abstract!Post(n)
    <3> (IF val > 0 THEN val ELSE 0) - (Cardinality(Waiters) - to_awake) + n <= MaxVal
      BY SMTT(30) DEF Posts, Open
    <3> (IF val > 0 THEN val ELSE 0)' = (IF val > 0 THEN val ELSE 0) + n - (IF n < Open THEN n ELSE Open)
      BY SMT DEF Posts, Open
    <3> to_awake' = to_awake + (IF n < Open THEN n ELSE Open) /\ Waiters' = Waiters
      BY DEF Posts
    <3> QED
      BY SameCardinality DEF Abstract!Post
  <2> QED
    BY <2>2, <2>3, SameCardinality DEF Abstract!Next
<1> QED
  BY <1>1, <1>2, <1>3, <1>4, <1>5 DEF Effect

\* The semaphore implements the counting semaphore with hand-over: every behaviour
\* of sys_semaphore is one of Semaphore, in which a token posted while threads wait
\* is owed to them and neither taken by another thread nor lost when one gives up.
THEOREM Implements == Spec => ImplementsSemaphore
<1>1. Init => Abstract!Init
  BY InitAbstract
<1>2. Inv /\ Inv' /\ [Next]_vars => [Abstract!Next]_(Abstract!vars)
  BY NextEffect, EffectAbstract
<1>3. Spec => []Inv
  BY SemaphoreInv
<1> QED
  BY <1>1, <1>2, <1>3, PTL DEF Spec, ImplementsSemaphore, Abstract!Spec
=============================================================================
