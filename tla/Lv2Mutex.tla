------------------------------ MODULE Lv2Mutex ------------------------------
(***************************************************************************)
(* sys_mutex (rpcs3/Emu/Cell/lv2/sys_mutex.h, sys_mutex.cpp): one          *)
(* lv2_mutex used by PPU threads that lock it with or without a timeout,   *)
(* poll, unlock, destroy it, sleep for a time, are suspended and resumed   *)
(* by the scheduler and are stopped to save the state.                     *)
(*                                                                         *)
(* owner and sq are the two halves of lv2_mutex::control, which the code   *)
(* changes by compare-and-swap, also without lv2_mutex::mutex; each step   *)
(* makes one such access or one call of the scheduler.                     *)
(***************************************************************************)
EXTENDS Lv2Thread

CONSTANTS
  Setups,      \* the programs of the threads, with the attributes of the mutex
  MaxCount,    \* the limit of lock_count, 0xffffffff in the code
  InitQueue    \* the run queue at the start

VARIABLES
  setup,       \* the member of Setups this behaviour has: it never changes
  owner,       \* control.owner
  sq,          \* control.sq, oldest first
  lock_count,  \* how often the owner has locked it again
  mutex,       \* holder of lv2_mutex::mutex
  exists,      \* the id is in the IDM
  timeout,     \* threads whose lock call has a timeout
  cpu,         \* the waiter that the holder in unlock is to awake
  holds        \* as the guest sees it: lock calls that returned CELL_OK, minus unlocks

object == <<setup, owner, sq, lock_count, mutex, exists, timeout, cpu, holds>>
vars == <<sched, pc, object>>

Role == setup.role             \* the operations each thread calls
protocol == setup.protocol     \* lv2_mutex::protocol: "FIFO" or "PRIORITY"
recursive == setup.recursive   \* recursive == SYS_SYNC_RECURSIVE

\* Beside the values of Lv2Thread, pc is
\*   "l_cas"    in lock or trylock, about to take the free mutex
\*   "t_cas"
\*   "l_own"    in lock, has found the mutex owned
\*   "l_sleep"  queued, about to sleep
\*   "l_loop"   in the wait loop
\*   "l_stop"   it has seen a stop flag
\*   "l_redo"   stopped, with lock to be executed again
\*   "l_check"  it has timed out, in check_state
\*   "l_late"   rescheduled after the timeout
\*   "l_sync"   it has found the queue empty
\*   "l_unq"    about to leave the queue
\*   "u_cas"    in unlock, about to free the mutex
\*   "u_lock"   about to look for a waiter
\*   "u_awake"  about to awake it
PC == {"guest", "check", "usleep", "stopped", "redo", "exited",
       "l_cas", "t_cas", "l_own", "l_sleep", "l_loop", "l_stop", "l_redo", "l_check",
       "l_late", "l_sync", "l_unq", "u_cas", "u_lock", "u_awake"}

TypeOK ==
  /\ sched \in SchedType
  /\ pc \in [Thread -> PC]
  /\ owner \in Thread \cup {NoThread}
  /\ sq \in Seq(Thread)
  /\ lock_count \in 0..MaxCount
  /\ mutex \in Thread \cup {NoThread}
  /\ exists \in BOOLEAN
  /\ timeout \in SUBSET Thread
  /\ cpu \in Thread \cup {NoThread}
  /\ holds \in [Thread -> 0..(MaxCount + 1)]

Init ==
  /\ setup \in Setups
  /\ sched = InitSched(StartQueue(InitQueue, Role))
  /\ pc = StartPc(sched, Role)
  /\ owner = NoThread
  /\ sq = <<>>
  /\ lock_count = 0
  /\ mutex = NoThread
  /\ exists = TRUE
  /\ timeout = {}
  /\ cpu = NoThread
  /\ holds = [t \in Thread |-> 0]

-----------------------------------------------------------------------------
\* A lock call returns CELL_OK, or an error; its timeout is a local.
Acquired(t) == holds' = [holds EXCEPT ![t] = 1] /\ timeout' = timeout \ {t}

Failed(t) == timeout' = timeout \ {t} /\ UNCHANGED holds

\* try_lock by the owner: recursive locking, EKRESOURCE or EDEADLK
TryLockOwned(t) ==
  /\ {"lock", "trylock"} \cap Role[t] # {}
  /\ exists /\ owner = t
  /\ Goto(t, "guest", "check")
  /\ IF recursive /\ lock_count < MaxCount
     THEN /\ lock_count' = lock_count + 1
          /\ holds' = [holds EXCEPT ![t] = @ + 1]
     ELSE UNCHANGED <<lock_count, holds>>
  /\ UNCHANGED <<setup, sched, owner, sq, mutex, exists, timeout, cpu>>

(***************************************************************************)
(* sys_mutex_lock                                                          *)
(***************************************************************************)
\* try_lock by another thread reads control; ESRCH without the object.
Lock(t, timed) ==
  /\ "lock" \in Role[t]
  /\ exists => owner # t
  /\ Goto(t, "guest", IF ~exists THEN "check"
                      ELSE IF owner = NoThread THEN "l_cas" ELSE "l_own")
  /\ timeout' = IF timed /\ exists THEN timeout \cup {t} ELSE timeout
  /\ UNCHANGED <<setup, sched, owner, sq, lock_count, mutex, exists, cpu, holds>>

\* compare_and_swap_test: EBUSY if control has changed
LockCas(t) ==
  /\ IF owner = NoThread /\ sq = <<>>
     THEN /\ Goto(t, "l_cas", "check")
          /\ owner' = t
          /\ Acquired(t)
     ELSE /\ Goto(t, "l_cas", "l_own")
          /\ UNCHANGED <<owner, timeout, holds>>
  /\ UNCHANGED <<setup, sched, sq, lock_count, mutex, exists, cpu>>

\* "Try busy waiting a bit if advantageous"
LockRetry(t) ==
  /\ owner = NoThread /\ sq = <<>>
  /\ Goto(t, "l_own", "l_cas")
  /\ UNCHANGED <<sched, object>>

\* cancel_sleep = 1 and try_own: take the mutex or join the queue
LockOwn(t) ==
  /\ IF owner = NoThread
     THEN /\ Goto(t, "l_own", "check")
          /\ owner' = t
          /\ Acquired(t)
          /\ UNCHANGED <<sched, sq>>
     ELSE /\ Goto(t, "l_own", "l_sleep")
          /\ sched' = [sched EXCEPT !.cancel_sleep[t] = 1]
          /\ sq' = Append(sq, t)
          /\ UNCHANGED <<owner, timeout, holds>>
  /\ UNCHANGED <<setup, lock_count, mutex, exists, cpu>>

\* sleep: if it returns FALSE the mutex has been handed over already
LockSleep(t) ==
  /\ \E late \in SUBSET (sched.waiting \cup {t}) :
       sched' = Sleep(sched, t, t \in timeout, late)
  /\ IF SleepRet(sched, t)
     THEN /\ Goto(t, "l_sleep", "l_loop")
          /\ UNCHANGED <<timeout, holds>>
     ELSE /\ Goto(t, "l_sleep", "check")
          /\ Acquired(t)
  /\ UNCHANGED <<setup, owner, sq, lock_count, mutex, exists, cpu>>

\* The wait loop sees signal.
LockSignaled(t) ==
  /\ t \in sched.signal
  /\ Goto(t, "l_loop", "check")
  /\ sched' = [sched EXCEPT !.signal = @ \ {t}]
  /\ Acquired(t)
  /\ UNCHANGED <<setup, owner, sq, lock_count, mutex, exists, cpu>>

\* The wait loop sees a stop flag and no signal.
LockStopped(t) ==
  /\ Stopped(sched, t) /\ t \notin sched.signal
  /\ Goto(t, "l_loop", "l_stop")
  /\ UNCHANGED <<sched, object>>

\* Under the lock: a thread still queued is to repeat the call after loading.
LockAgain(t) ==
  /\ mutex = NoThread
  /\ IF t \in Range(sq)
     THEN /\ Goto(t, "l_stop", "l_redo")
          /\ sched' = [sched EXCEPT !.again = @ \cup {t}]
          /\ UNCHANGED <<timeout, holds>>
     ELSE /\ Goto(t, "l_stop", "check")
          /\ Acquired(t)
          /\ UNCHANGED sched
  /\ UNCHANGED <<setup, owner, sq, lock_count, mutex, exists, cpu>>

\* wait_timeout returns TRUE
LockTimeout(t) ==
  /\ t \in timeout
  /\ Goto(t, "l_loop", "l_check")
  /\ UNCHANGED <<sched, object>>

\* "Wait for rescheduling"
LockCheck(t) == CheckState(t, "l_check", "l_late", "l_loop") /\ UNCHANGED object

\* "Waiters queue is empty, so the thread must have been signaled"
LockLate(t) ==
  /\ Goto(t, "l_late", IF sq = <<>> THEN "l_sync" ELSE "l_unq")
  /\ UNCHANGED <<sched, object>>

\* mutex.lock_unlock()
LockSync(t) ==
  /\ mutex = NoThread
  /\ Goto(t, "l_sync", "check")
  /\ Acquired(t)
  /\ UNCHANGED <<setup, sched, owner, sq, lock_count, mutex, exists, cpu>>

\* Under the lock: leave the queue with ETIMEDOUT, or find that an unlock was first.
LockUnqueue(t) ==
  /\ mutex = NoThread
  /\ Goto(t, "l_unq", "check")
  /\ sq' = Unqueue(sq, t)
  /\ IF t \in Range(sq) THEN Failed(t) ELSE Acquired(t)
  /\ UNCHANGED <<setup, sched, owner, lock_count, mutex, exists, cpu>>

(***************************************************************************)
(* sys_mutex_trylock                                                       *)
(***************************************************************************)
TryLock(t) ==
  /\ "trylock" \in Role[t]
  /\ exists => owner # t
  /\ Goto(t, "guest", IF exists /\ owner = NoThread THEN "t_cas" ELSE "check")
  /\ UNCHANGED <<sched, object>>

TryLockCas(t) ==
  /\ Goto(t, "t_cas", "check")
  /\ IF owner = NoThread /\ sq = <<>>
     THEN owner' = t /\ Acquired(t)
     ELSE UNCHANGED <<owner, timeout, holds>>
  /\ UNCHANGED <<setup, sched, sq, lock_count, mutex, exists, cpu>>

(***************************************************************************)
(* sys_mutex_unlock                                                        *)
(***************************************************************************)
\* try_unlock: EPERM (or ESRCH), one level of recursion, or the last one
Unlock(t) ==
  LET own == exists /\ owner = t
  IN  /\ "unlock" \in Role[t]
      /\ Goto(t, "guest", IF ~own \/ lock_count > 0 THEN "check"
                          ELSE IF sq = <<>> THEN "u_cas" ELSE "u_lock")
      /\ IF own /\ lock_count > 0
         THEN /\ lock_count' = lock_count - 1
              /\ holds' = [holds EXCEPT ![t] = @ - 1]
         ELSE UNCHANGED <<lock_count, holds>>
      /\ UNCHANGED <<setup, sched, owner, sq, mutex, exists, timeout, cpu>>

\* compare_and_swap_test: fails if a thread has queued meanwhile
UnlockCas(t) ==
  /\ IF sq = <<>>
     THEN /\ Goto(t, "u_cas", "check")
          /\ owner' = NoThread
          /\ holds' = [holds EXCEPT ![t] = 0]
     ELSE /\ Goto(t, "u_cas", "u_lock")
          /\ UNCHANGED <<owner, holds>>
  /\ UNCHANGED <<setup, sched, sq, lock_count, mutex, exists, timeout, cpu>>

Chosen == ScheduleIndex(sched, sq, protocol)

\* The waiter to own it next is to repeat its call after loading: so must this one.
UnlockAgain(t) ==
  /\ mutex = NoThread
  /\ sq # <<>> /\ sq[Chosen] \in sched.again
  /\ Goto(t, "u_lock", "redo")
  /\ sched' = [sched EXCEPT !.again = @ \cup {t}]
  /\ UNCHANGED object

\* reown: hand the mutex to a waiter, or free it if all have given up
Reown(t) ==
  /\ mutex = NoThread
  /\ IF sq = <<>>
     THEN /\ Goto(t, "u_lock", "check")
          /\ owner' = NoThread
          /\ UNCHANGED <<sq, mutex, cpu>>
     ELSE /\ sq[Chosen] \notin sched.again
          /\ Goto(t, "u_lock", "u_awake")
          /\ owner' = sq[Chosen]
          /\ cpu' = sq[Chosen]
          /\ sq' = Unlink(sq, Chosen)
          /\ mutex' = t
  /\ holds' = [holds EXCEPT ![t] = 0]
  /\ UNCHANGED <<setup, sched, lock_count, exists, timeout>>

\* awake(cpu), unlock
UnlockAwake(t) ==
  /\ Goto(t, "u_awake", "check")
  /\ \E late \in SUBSET sched.waiting : sched' = Awake(sched, t, cpu, late)
  /\ mutex' = NoThread
  /\ cpu' = NoThread
  /\ UNCHANGED <<setup, owner, sq, lock_count, exists, timeout, holds>>

\* sys_mutex_destroy: idm::withdraw holds the IDM lock exclusively
Destroy(t) ==
  /\ "destroy" \in Role[t]
  /\ Goto(t, "guest", "check")
  /\ mutex = NoThread
  /\ \A u \in Thread : pc[u] \notin {"l_cas", "t_cas", "l_own", "l_sleep",
                                     "u_cas", "u_lock", "u_awake"}
  /\ exists' = (exists /\ owner # NoThread)
  /\ UNCHANGED <<setup, sched, owner, sq, lock_count, mutex, timeout, cpu, holds>>

-----------------------------------------------------------------------------
LockStep(t) ==
  \/ LockCas(t) \/ LockRetry(t) \/ LockOwn(t) \/ LockSleep(t) \/ LockSignaled(t)
  \/ LockStopped(t) \/ LockAgain(t) \/ LockTimeout(t) \/ LockCheck(t)
  \/ LockLate(t) \/ LockSync(t) \/ LockUnqueue(t) \/ TryLockCas(t)

UnlockStep(t) == UnlockCas(t) \/ UnlockAgain(t) \/ Reown(t) \/ UnlockAwake(t)

\* Steps common to all system calls.
ThreadStep(t) ==
  /\ \/ Poll(t) \/ CheckState(t, "check", "guest", "stopped") \/ Requeue(t)
     \/ UsleepElapsed(t) \/ UsleepCut(t)
  /\ UNCHANGED object

Call(t) ==
  \/ TryLockOwned(t)
  \/ \E timed \in BOOLEAN : Lock(t, timed)
  \/ TryLock(t)
  \/ Unlock(t)
  \/ Destroy(t)
  \/ "usleep" \in Role[t] /\ Usleep(t) /\ UNCHANGED object
  \/ "exit" \in Role[t] /\ Exit(t) /\ UNCHANGED object
  \/ "stop" \in Role[t] /\ Stop(t) /\ UNCHANGED object

Next == \E t \in Thread : Call(t) \/ LockStep(t) \/ UnlockStep(t) \/ ThreadStep(t)

\* The host runs every thread; nobody is obliged to make system calls, and no
\* thread is obliged to stop.
Fairness ==
  \A t \in Thread : WF_vars(ThreadStep(t) \/ LockStep(t) \/ UnlockStep(t))

Spec == Init /\ [][Next]_vars /\ Fairness
-----------------------------------------------------------------------------
(***************************************************************************)
(* Properties                                                              *)
(***************************************************************************)
\* A thread that lock told CELL_OK owns the mutex, as often as it was told: however
\* signals, timeouts and cancelled sleeps race the unlock, no call returns
\* success without ownership and no two threads hold the mutex (sys_mutex.cpp:185,
\* 200, 253, 305).  This is about threads that are not told to stop after their call has
\* timed out: such a thread may leave the wait loop with CELL_OK, still queued.
HeldIsOwned ==
  \A t \in Thread : holds[t] > 0 => owner = t /\ lock_count = holds[t] - 1

\* What the calls rely on beside it:
\*   a signal in the wait loop, and a cancelled sleep, always mean that an unlock has
\*   made the thread the owner (sys_mutex.cpp:178, 214);
\*   a waiter whose mutex was handed to it before it slept is told so by sleep: it
\*   never waits for a signal that was spent on a thread still running
\*   (cancel_sleep, sys_mutex.cpp:176; lv2.cpp:1566, 1768);
\*   a thread that will call lock again after loading is still queued: no unlock made
\*   while the threads are being stopped hands the mutex to it (sys_mutex.cpp:224,
\*   363).
CallsSound ==
  \A t \in Thread :
    /\ \/ pc[t] = "l_loop" /\ t \in sched.signal \ sched.stop
       \/ pc[t] = "l_sleep" /\ sched.cancel_sleep[t] = 2
       \/ pc[t] = "l_sync"
         => owner = t /\ t \notin Range(sq)
    /\ pc[t] = "l_loop" /\ owner = t /\ mutex = NoThread =>
         t \in Range(sched.g_ppu) \cup sched.signal
    /\ pc[t] = "l_redo" => t \in Range(sq) /\ owner # t

\* When every thread has stopped, a waiter still queued has cpu_flag::again
\* ("Thread must complete the syscall after deserialization", CPUThread.h:23):
\* the queue is not saved, so it would continue as if it owned the mutex.
SaveExact ==
  (\A t \in Thread : pc[t] \in {"stopped", "redo", "l_redo", "exited"})
    => Range(sq) \subseteq sched.again
=============================================================================
