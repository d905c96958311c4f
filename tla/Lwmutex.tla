------------------------------ MODULE Lwmutex ------------------------------
(***************************************************************************)
(* The light-weight mutex: the code in the guest process                   *)
(* (rpcs3/Emu/Cell/Modules/sys_lwmutex_.cpp), which works on a word with   *)
(* the owner and a number of waiters in guest memory, and the kernel half  *)
(* (rpcs3/Emu/Cell/lv2/sys_lwmutex.h, .cpp), which it calls when threads   *)
(* compete.  One mutex, used by PPU threads that lock it with or without a *)
(* timeout, try to, unlock and destroy it, and are stopped to save the     *)
(* state.                                                                  *)
(*                                                                         *)
(* Each step makes one access to the guest words or to lv2_control, or one *)
(* call of the scheduler.  Condition variables on the mutex are not        *)
(* modelled, so lwcond_waiters is 0.                                       *)
(***************************************************************************)
EXTENDS Lv2Thread

CONSTANTS
  Setups,      \* the programs of the threads, with the attributes of the mutex
  MaxCount,    \* the limit of recursive_count, 0xffffffff in the code
  InitQueue    \* the run queue at the start

ASSUME LwmutexAssumption ==
  /\ \A s \in Setups : /\ DOMAIN s.role = Thread
                       /\ s.protocol \in {"FIFO", "PRIORITY", "RETRY"}
                       /\ s.recursive \in BOOLEAN
  /\ MaxCount \in Nat

VARIABLES
  setup,       \* the member of Setups this behaviour has: it never changes
  owner,       \* vars.owner: a thread, "free", "reserved" or "dead"
  waiter,      \* vars.waiter
  recursive_count,
  signaled,    \* lv2_control.signaled: "no", "ok" (1) or "busy" (INT32_MIN)
  sq,          \* lv2_control.sq, oldest first
  mutex,       \* holder of lv2_lwmutex::mutex
  exists,      \* the id is in the IDM
  timeout,     \* threads whose lock call has a timeout
  cpu,         \* the waiter that the holder in unlock is to awake
  res,         \* gpr[3]: the result of each thread's system call
  retrying,    \* threads in the loop of SYS_SYNC_RETRY
  heir,        \* the thread to which the kernel has given a reserved mutex
  holds        \* lock calls that returned CELL_OK, minus unlocks

words == <<owner, waiter, recursive_count>>
kernel == <<setup, signaled, sq, mutex, exists, cpu>>
locals == <<timeout, res, retrying>>
ghost == <<heir, holds>>
vars == <<sched, pc, words, kernel, locals, ghost>>

Role == setup.role             \* the operations each thread calls
protocol == setup.protocol     \* "FIFO", "PRIORITY" or "RETRY"
recursive == setup.recursive   \* attribute & SYS_SYNC_RECURSIVE

\* Beside the values of Lv2Thread, pc is
\*   "l_spin"   in sys_lwmutex_lock, about to try again; "l_cas" counted as a waiter
\*   "l_decok"  it has the mutex and is still counted
\*   "k_sig"    in _sys_lwmutex_lock; "k_own" about to queue; "k_sleep" queued
\*   "k_loop"   in the wait loop; "k_stop" it has seen a stop flag
\*   "l_redo"   stopped, with lock to be executed again
\*   "k_check"  it has timed out, in check_state; "k_late" rescheduled
\*   "k_sync"   it has found the queue empty; "k_unq" about to leave it
\*   "l_ret"    back from the system call, in test_stopped
\*   "l_dec"    about to be uncounted and to look at the result
\*   "l_xchg"   about to exchange the owner
\*   "t_kern"   in sys_lwmutex_trylock, about to call the kernel; "t_xchg" after it
\*   "dt_kern", "dt_xchg"  the same, called by sys_lwmutex_destroy
\*   "u_cas"    in sys_lwmutex_unlock; "u_rel" about to set the special value
\*   "u_kern"   in the system call; "u_lock" about to look for a waiter
\*   "u_awake"  about to awake it
\*   "u_redo"   stopped, with unlock to be executed again
\*   "d_kern"   in sys_lwmutex_destroy, has locked; "d_dead" has destroyed
PC == {"guest", "check", "stopped", "redo", "exited", "l_spin", "l_cas", "l_decok", "k_sig", "k_own",
       "k_sleep", "k_loop", "k_stop", "l_redo", "k_check", "k_late", "k_sync", "k_unq",
       "l_ret", "l_dec", "l_xchg", "t_kern", "t_xchg", "dt_kern", "dt_xchg",
       "u_cas", "u_rel", "u_kern", "u_lock", "u_awake", "u_redo", "d_kern", "d_dead"}

\* The calls counted in waiter.
Counted == {"l_cas", "l_decok", "k_sig", "k_own", "k_sleep", "k_loop", "k_stop", "l_redo",
            "k_check", "k_late", "k_sync", "k_unq", "l_ret", "l_dec"}

\* The calls that hold the IDM lock, shared.
InIdm == {"k_own", "k_sleep", "u_lock", "u_awake"}

TypeOK ==
  /\ sched \in SchedType
  /\ pc \in [Thread -> PC]
  /\ setup \in Setups
  /\ owner \in Thread \cup {"free", "reserved", "dead"}
  /\ waiter \in 0..Cardinality(Thread)
  /\ recursive_count \in 0..MaxCount
  /\ signaled \in {"no", "ok", "busy"}
  /\ sq \in Seq(Thread)
  /\ {mutex, cpu, heir} \subseteq Thread \cup {NoThread}
  /\ exists \in BOOLEAN
  /\ timeout \in SUBSET Thread /\ retrying \in SUBSET Thread
  /\ res \in [Thread -> {"OK", "EBUSY", "ETIMEDOUT", "ESRCH"}]
  /\ holds \in [Thread -> 0..(MaxCount + 1)]

Init ==
  /\ setup \in Setups
  /\ sched = InitSched(StartQueue(InitQueue, Role))
  /\ pc = StartPc(sched, Role)
  /\ owner = "free" /\ waiter = 0 /\ recursive_count = 0
  /\ signaled = "no" /\ sq = <<>> /\ mutex = NoThread /\ exists = TRUE /\ cpu = NoThread
  /\ timeout = {} /\ res = [t \in Thread |-> "OK"] /\ retrying = {}
  /\ heir = NoThread /\ holds = [t \in Thread |-> 0]

retry == protocol = "RETRY"

\* attrs->protocol of the queue: only FIFO differs.
Order == IF protocol = "FIFO" THEN "FIFO" ELSE "PRIORITY"

\* A call of sys_lwmutex_lock returns: its locals are gone.
Leave(t) ==
  /\ timeout' = timeout \ {t}
  /\ retrying' = retrying \ {t}
  /\ res' = [res EXCEPT ![t] = "OK"]
Acquired(t) == holds' = [holds EXCEPT ![t] = 1]
-----------------------------------------------------------------------------
(***************************************************************************)
(* sys_lwmutex_lock                                                        *)
(***************************************************************************)
\* lock and trylock by the owner: recursive locking, EKRESOURCE or EDEADLK
Relock(t) ==
  /\ {"lock", "trylock"} \cap Role[t] # {} /\ owner = t
  /\ Goto(t, "guest", "check")
  /\ IF recursive /\ recursive_count < MaxCount
     THEN /\ recursive_count' = recursive_count + 1
          /\ holds' = [holds EXCEPT ![t] = @ + 1]
     ELSE UNCHANGED <<recursive_count, holds>>
  /\ UNCHANGED <<sched, owner, waiter, kernel, locals, heir>>

\* The first compare_and_swap; EINVAL when it is dead
Lock(t, timed) ==
  /\ "lock" \in Role[t] /\ owner # t
  /\ Goto(t, "guest", IF owner \in {"free", "dead"} THEN "check" ELSE "l_spin")
  /\ IF owner = "free" THEN owner' = t /\ Acquired(t) ELSE UNCHANGED <<owner, holds>>
  /\ timeout' = IF timed /\ pc'[t] = "l_spin" THEN timeout \cup {t} ELSE timeout
  /\ UNCHANGED <<sched, waiter, recursive_count, kernel, res, retrying, heir>>

\* One of the ten attempts succeeds.
LockSpin(t) ==
  /\ owner = "free"
  /\ Goto(t, "l_spin", "check")
  /\ owner' = t
  /\ Acquired(t)
  /\ Leave(t)
  /\ UNCHANGED <<sched, waiter, recursive_count, kernel, heir>>

\* all_info++
LockCount(t) ==
  /\ Goto(t, "l_spin", "l_cas")
  /\ waiter' = waiter + 1
  /\ UNCHANGED <<sched, owner, recursive_count, kernel, locals, ghost>>

\* The last compare_and_swap before the system call
LockCas(t) ==
  /\ Goto(t, "l_cas", IF owner = "free" THEN "l_decok" ELSE "k_sig")
  /\ IF owner = "free" THEN owner' = t /\ Acquired(t) ELSE UNCHANGED <<owner, holds>>
  /\ UNCHANGED <<sched, waiter, recursive_count, kernel, locals, heir>>

\* all_info--
LockUncount(t) ==
  /\ Goto(t, "l_decok", "check")
  /\ waiter' = waiter - 1
  /\ Leave(t)
  /\ UNCHANGED <<sched, owner, recursive_count, kernel, ghost>>
-----------------------------------------------------------------------------
(***************************************************************************)
(* _sys_lwmutex_lock                                                       *)
(***************************************************************************)
\* The thread takes the signal that an unlock has left.
TakeSignal(t, from) ==
  /\ signaled # "no"
  /\ Goto(t, from, "l_ret")
  /\ signaled' = "no"
  /\ res' = [res EXCEPT ![t] = IF signaled = "ok" THEN "OK" ELSE "EBUSY"]
  /\ heir' = IF signaled = "ok" THEN t ELSE heir
  /\ UNCHANGED <<setup, words, sq, mutex, exists, cpu, timeout, retrying, holds>>

KernelSignal(t) == exists /\ TakeSignal(t, "k_sig") /\ UNCHANGED sched

\* ESRCH, or no signal
KernelLock(t) ==
  /\ exists => signaled = "no"
  /\ Goto(t, "k_sig", IF exists THEN "k_own" ELSE "l_ret")
  /\ res' = [res EXCEPT ![t] = IF exists THEN "OK" ELSE "ESRCH"]
  /\ UNCHANGED <<sched, words, kernel, timeout, retrying, ghost>>

\* Mutant: try_own looks at the signal no more.
TryOwnBlind(t) ==
  /\ Goto(t, "k_own", "k_sleep")
  /\ sched' = [sched EXCEPT !.cancel_sleep[t] = 1]
  /\ sq' = Append(sq, t)
  /\ UNCHANGED <<setup, words, signaled, mutex, exists, cpu, locals, ghost>>

\* cancel_sleep = 1 and try_own: take the signal or join the queue
TryOwn(t) ==
  \/ TakeSignal(t, "k_own") /\ UNCHANGED sched
  \/ /\ signaled = "no"
     /\ Goto(t, "k_own", "k_sleep")
     /\ sched' = [sched EXCEPT !.cancel_sleep[t] = 1]
     /\ sq' = Append(sq, t)
     /\ UNCHANGED <<setup, words, signaled, mutex, exists, cpu, locals, ghost>>

\* sleep: FALSE if an unlock has been first
KernelSleep(t) ==
  /\ \E late \in SUBSET (sched.waiting \cup {t}) :
       sched' = Sleep(sched, t, t \in timeout, late)
  /\ Goto(t, "k_sleep", IF SleepRet(sched, t) THEN "k_loop" ELSE "l_ret")
  /\ UNCHANGED <<words, kernel, locals, ghost>>

WaitSignaled(t) ==
  SeesSignal(t, "k_loop", "l_ret") /\ UNCHANGED <<words, kernel, locals, ghost>>

WaitStopped(t) ==
  SeesStop(t, "k_loop", "k_stop") /\ UNCHANGED <<words, kernel, locals, ghost>>

\* Under the lock: a thread still queued is to repeat sys_lwmutex_lock after loading.
WaitAgain(t) ==
  /\ mutex = NoThread
  /\ IF t \in Range(sq) THEN RedoCall(t, "k_stop", "l_redo")
     ELSE Goto(t, "k_stop", "l_ret") /\ UNCHANGED sched
  /\ UNCHANGED <<words, kernel, locals, ghost>>

\* wait_timeout returns TRUE
WaitTimeout(t) ==
  /\ t \in timeout
  /\ Goto(t, "k_loop", "k_check")
  /\ UNCHANGED <<sched, words, kernel, locals, ghost>>

\* "Wait for rescheduling"
WaitCheck(t) ==
  CheckState(t, "k_check", "k_late", "k_loop") /\ UNCHANGED <<words, kernel, locals, ghost>>

\* "Sleep queue is empty, so the thread must have been signaled"
WaitLate(t) ==
  /\ Goto(t, "k_late", IF sq = <<>> THEN "k_sync" ELSE "k_unq")
  /\ UNCHANGED <<sched, words, kernel, locals, ghost>>

\* mutex.lock_unlock()
WaitSync(t) ==
  /\ mutex = NoThread
  /\ Goto(t, "k_sync", "l_ret")
  /\ UNCHANGED <<sched, words, kernel, locals, ghost>>

\* Under the lock: leave the queue with ETIMEDOUT, or find that an unlock was first.
WaitUnqueue(t) ==
  /\ mutex = NoThread
  /\ Goto(t, "k_unq", "l_ret")
  /\ sq' = Unqueue(sq, t)
  /\ res' = [res EXCEPT ![t] = IF t \in Range(sq) THEN "ETIMEDOUT" ELSE @]
  /\ UNCHANGED <<setup, sched, words, signaled, mutex, exists, cpu, timeout, retrying, ghost>>
-----------------------------------------------------------------------------
(***************************************************************************)
(* sys_lwmutex_lock, after the system call                                 *)
(***************************************************************************)
\* test_stopped; a stopped thread goes on unless the call is to be repeated
LockReturn(t) ==
  CheckState(t, "l_ret", "l_dec", "l_dec") /\ UNCHANGED <<words, kernel, locals, ghost>>

\* all_info--, then on with the result.  In the loop of SYS_SYNC_RETRY, a timeout that
\* has elapsed ends the call, and CELL_OK makes the thread the owner.
LockResult(t, elapsed) ==
  LET stored == t \in retrying /\ res[t] = "OK"
  IN  /\ elapsed => t \in timeout \cap retrying /\ res[t] = "EBUSY"
      /\ waiter' = waiter - 1
      /\ IF stored THEN owner' = t /\ Acquired(t) ELSE UNCHANGED <<owner, holds>>
      /\ IF res[t] = "OK" /\ ~stored
         THEN Goto(t, "l_dec", "l_xchg") /\ UNCHANGED locals
         ELSE IF res[t] = "EBUSY" /\ retry /\ ~elapsed
         THEN /\ Goto(t, "l_dec", "l_spin")
              /\ retrying' = retrying \cup {t}
              /\ UNCHANGED <<timeout, res>>
         ELSE Goto(t, "l_dec", "check") /\ Leave(t)
      /\ UNCHANGED <<sched, recursive_count, kernel, heir>>

\* owner.exchange(tid).  Where it finds anything but lwmutex_reserved the code throws, and
\* the behaviour of the program ends: HeirFindsReserved is about that.
Exchange(t, from, to) ==
  /\ Goto(t, from, to)
  /\ owner' = t
  /\ heir' = NoThread
  /\ Acquired(t)
  /\ Leave(t)
  /\ UNCHANGED <<sched, waiter, recursive_count, kernel>>
-----------------------------------------------------------------------------
(***************************************************************************)
(* sys_lwmutex_trylock and _sys_lwmutex_trylock                            *)
(***************************************************************************)
TryLock(t) ==
  /\ "trylock" \in Role[t] /\ owner # t
  /\ Goto(t, "guest", IF owner = "reserved" THEN "t_kern" ELSE "check")
  /\ IF owner = "free" THEN owner' = t /\ Acquired(t) ELSE UNCHANGED <<owner, holds>>
  /\ UNCHANGED <<sched, waiter, recursive_count, kernel, locals, heir>>

\* Mutant: the signal stays.
TryLockKeepsSignal(t, from, to) ==
  /\ Goto(t, from, IF exists /\ signaled = "ok" THEN to ELSE "check")
  /\ heir' = IF exists /\ signaled = "ok" THEN t ELSE heir
  /\ UNCHANGED <<sched, words, kernel, locals, holds>>

TryLockKernel(t, from, to) ==
  /\ Goto(t, from, IF exists /\ signaled = "ok" THEN to ELSE "check")
  /\ IF exists /\ signaled = "ok"
     THEN signaled' = "no" /\ heir' = t
     ELSE UNCHANGED <<signaled, heir>>
  /\ UNCHANGED <<setup, sched, words, sq, mutex, exists, cpu, locals, holds>>
-----------------------------------------------------------------------------
(***************************************************************************)
(* sys_lwmutex_unlock, _sys_lwmutex_unlock and _sys_lwmutex_unlock2        *)
(***************************************************************************)
\* The owner leaves one level of recursion, or the last one.
Unlock(t) ==
  /\ "unlock" \in Role[t] /\ owner = t
  /\ IF recursive_count > 0
     THEN /\ Goto(t, "guest", "check")
          /\ recursive_count' = recursive_count - 1
          /\ holds' = [holds EXCEPT ![t] = @ - 1]
     ELSE Goto(t, "guest", "u_cas") /\ UNCHANGED <<recursive_count, holds>>
  /\ UNCHANGED <<sched, owner, waiter, kernel, locals, heir>>

\* lock_var.compare_and_swap_test({ tid, 0 }, { lwmutex_free, 0 })
UnlockCas(t) ==
  /\ Goto(t, "u_cas", IF waiter = 0 THEN "check" ELSE "u_rel")
  /\ IF waiter = 0 THEN owner' = "free" /\ holds' = [holds EXCEPT ![t] = 0]
     ELSE UNCHANGED <<owner, holds>>
  /\ UNCHANGED <<sched, waiter, recursive_count, kernel, locals, heir>>

\* Free it, or set the special value.
UnlockRelease(t) ==
  /\ Goto(t, "u_rel", "u_kern")
  /\ owner' = IF retry THEN "free" ELSE "reserved"
  /\ holds' = [holds EXCEPT ![t] = 0]
  /\ UNCHANGED <<sched, waiter, recursive_count, kernel, locals, heir>>

Signal == IF retry THEN "busy" ELSE "ok"

\* try_unlock: nobody is queued; ESRCH
KernelUnlock(t) ==
  /\ Goto(t, "u_kern", IF exists /\ sq # <<>> THEN "u_lock" ELSE "check")
  /\ signaled' = IF exists /\ sq = <<>> THEN Signal ELSE signaled
  /\ UNCHANGED <<setup, sched, words, sq, mutex, exists, cpu, locals, ghost>>

Chosen == ScheduleIndex(sched, sq, Order)

\* The waiter to have it next is to repeat its call after loading: so must this one.
UnlockAgain(t) ==
  /\ mutex = NoThread /\ sq # <<>> /\ sq[Chosen] \in sched.again
  /\ RedoCall(t, "u_lock", "u_redo")
  /\ UNCHANGED <<words, kernel, locals, ghost>>

\* reown: take a waiter off the queue, or leave the signal if all have given up
Reown(t) ==
  /\ mutex = NoThread
  /\ IF sq = <<>>
     THEN /\ Goto(t, "u_lock", "check")
          /\ signaled' = Signal
          /\ UNCHANGED <<sq, mutex, cpu, res, heir>>
     ELSE /\ sq[Chosen] \notin sched.again
          /\ Goto(t, "u_lock", "u_awake")
          /\ cpu' = sq[Chosen]
          /\ sq' = Unlink(sq, Chosen)
          /\ mutex' = t
          /\ res' = [res EXCEPT ![sq[Chosen]] = IF retry THEN "EBUSY" ELSE @]
          /\ heir' = IF retry THEN heir ELSE sq[Chosen]
          /\ UNCHANGED signaled
  /\ UNCHANGED <<setup, sched, words, exists, timeout, retrying, holds>>

\* Mutant: the waiter is not awoken.
UnlockForgetsAwake(t) ==
  /\ Goto(t, "u_awake", "check")
  /\ mutex' = NoThread /\ cpu' = NoThread
  /\ UNCHANGED <<setup, sched, words, signaled, sq, exists, locals, ghost>>

\* awake(cpu), unlock
UnlockAwake(t) ==
  /\ Goto(t, "u_awake", "check")
  /\ \E late \in SUBSET sched.waiting : sched' = Awake(sched, t, cpu, late)
  /\ mutex' = NoThread /\ cpu' = NoThread
  /\ UNCHANGED <<setup, words, signaled, sq, exists, locals, ghost>>
-----------------------------------------------------------------------------
(***************************************************************************)
(* sys_lwmutex_destroy: trylock, then the system call, which withdraws the *)
(* id unless threads are queued; then the word is dead, or unlocked.       *)
(***************************************************************************)
Destroy(t) ==
  /\ "destroy" \in Role[t]
  /\ Goto(t, "guest", CASE owner = "free" -> "d_kern"
                        [] owner = "reserved" -> "dt_kern"
                        [] OTHER -> "check")
  /\ IF owner = "free" THEN owner' = t /\ Acquired(t) ELSE UNCHANGED <<owner, holds>>
  /\ UNCHANGED <<sched, waiter, recursive_count, kernel, locals, heir>>

\* _sys_lwmutex_destroy: idm::withdraw holds the IDM lock exclusively
DestroyKernel(t) ==
  /\ mutex = NoThread /\ \A u \in Thread : pc[u] \notin InIdm
  /\ Goto(t, "d_kern", IF sq = <<>> THEN "d_dead" ELSE "u_cas")
  /\ exists' = (sq # <<>>)
  /\ UNCHANGED <<setup, sched, words, signaled, sq, mutex, cpu, locals, ghost>>

DestroyDead(t) ==
  /\ Goto(t, "d_dead", "check")
  /\ owner' = "dead"
  /\ holds' = [holds EXCEPT ![t] = 0]
  /\ UNCHANGED <<sched, waiter, recursive_count, kernel, locals, heir>>
-----------------------------------------------------------------------------
LockStep(t) ==
  \/ LockSpin(t) \/ LockCount(t) \/ LockCas(t) \/ LockUncount(t) \/ KernelSignal(t)
  \/ KernelLock(t) \/ TryOwn(t) \/ KernelSleep(t) \/ WaitSignaled(t) \/ WaitStopped(t)
  \/ WaitAgain(t) \/ WaitTimeout(t) \/ WaitCheck(t) \/ WaitLate(t) \/ WaitSync(t)
  \/ WaitUnqueue(t) \/ LockReturn(t)
  \/ LockResult(t, FALSE) \/ LockResult(t, TRUE)
  \/ Exchange(t, "l_xchg", "check")
  \/ TryLockKernel(t, "t_kern", "t_xchg") \/ Exchange(t, "t_xchg", "check")
  \/ TryLockKernel(t, "dt_kern", "dt_xchg") \/ Exchange(t, "dt_xchg", "d_kern")

UnlockStep(t) ==
  \/ UnlockCas(t) \/ UnlockRelease(t) \/ KernelUnlock(t) \/ UnlockAgain(t) \/ Reown(t)
  \/ UnlockAwake(t) \/ DestroyKernel(t) \/ DestroyDead(t)

\* Steps common to all system calls.
ThreadStep(t) ==
  /\ Poll(t) \/ CheckState(t, "check", "guest", "stopped") \/ Requeue(t)
  /\ UNCHANGED <<words, kernel, locals, ghost>>

Call(t) ==
  \/ Relock(t)
  \/ \E timed \in {FALSE, "timed" \in Role[t]} : Lock(t, timed)
  \/ TryLock(t) \/ Unlock(t) \/ Destroy(t)
  \/ "stop" \in Role[t] /\ Stop(t) /\ UNCHANGED <<words, kernel, locals, ghost>>

Next == \E t \in Thread : Call(t) \/ LockStep(t) \/ UnlockStep(t) \/ ThreadStep(t)

\* The host runs every thread; nobody is obliged to make system calls or to stop.
\* The setups without fair are for the properties that do not depend on it.
Fairness ==
  \A t \in Thread : WF_vars(setup.fair /\ (ThreadStep(t) \/ LockStep(t) \/ UnlockStep(t)))

Spec == Init /\ [][Next]_vars /\ Fairness
-----------------------------------------------------------------------------
(***************************************************************************)
(* Properties                                                              *)
(***************************************************************************)
\* A thread about to exchange the owner has been given the mutex and finds it reserved:
\* the "Locking failed" of sys_lwmutex_.cpp:200 and 334 is not thrown.
HeirFindsReserved ==
  \A t \in Thread :
    pc[t] \in {"l_xchg", "t_xchg", "dt_xchg"} => owner = "reserved" /\ heir = t

\* Guest words, kernel object and calls agree, as long as no thread whose lock call has
\* timed out is told to stop before the call has ended (the setups have no thread with
\* both: such a thread may leave the wait loop with CELL_OK, still queued, and fails
\* HeirFindsReserved):
\*  - a thread that lock told CELL_OK is the owner in the word, as often as it was told,
\*    whichever path through guest memory and kernel it took (sys_lwmutex_.cpp:116, 157,
\*    171, 196, 216, 225);
\*  - waiter counts the threads that are, or are about to be, in the kernel (lines 168,
\*    174, 191, 223, 254, 261): an unlock that reads 0 leaves nobody behind;
\*  - HeirFindsReserved;
\*  - nobody is queued in a mutex that destroy has withdrawn, though it looks at the
\*    queue that lock joins without a lock (sys_lwmutex.cpp:76, 168);
\*  - a thread that will call lock again after loading is still queued: no unlock made
\*    while the threads are being stopped gives it the mutex (sys_lwmutex.cpp:214, 354);
\*  - SYS_SYNC_RETRY without timeouts: while threads are queued and the mutex is free,
\*    some thread is about to wake one of them, or, having been woken, to try for the
\*    mutex (lines 208, 382).
CallsSound ==
  /\ waiter = Cardinality({t \in Thread : pc[t] \in Counted})
  /\ ~exists => sq = <<>>
  /\ HeirFindsReserved
  /\ \A t \in Thread :
       /\ holds[t] > 0 => owner = t /\ recursive_count = holds[t] - 1
       /\ pc[t] = "l_redo" => t \in Range(sq) /\ heir # t
  /\ owner = "free" /\ sq # <<>> /\ (\A t \in Thread : "timed" \notin Role[t]) =>
       \E t \in Thread : \/ pc[t] \in {"u_kern", "u_lock", "u_awake"}
                         \/ pc[t] \in Counted \cup {"l_spin"} /\ t \notin Range(sq)

\* The mutex implements a lock that is handed over, through guest memory and kernel.
\* It is the kernel's from the time its owner sets the special value until the heir
\* replaces it.  With SYS_SYNC_RETRY nobody is promised the mutex.  As CallsSound, this
\* is about threads that are not told to stop after their lock call has timed out.
Unlocking == {t \in Thread : pc[t] \in {"u_kern", "u_lock", "u_redo"}}
Abstract == INSTANCE Lock WITH
  holder <- IF owner \in Thread THEN owner
            ELSE IF heir # NoThread THEN heir
            ELSE IF owner = "reserved" /\ Unlocking # {}
            THEN CHOOSE t \in Unlocking : TRUE
            ELSE NoThread,
  depth <- recursive_count,
  waiting <- IF retry THEN {} ELSE Range(sq)

ImplementsLock == Abstract!Spec

\* "Thread must complete the syscall after deserialization" (CPUThread.h:23): a thread
\* that is to execute sys_lwmutex_unlock again still owns the mutex, or it would be
\* told EPERM and wake nobody.
UnlockRepeatable == \A t \in Thread : pc[t] = "u_redo" => owner = t

\* A thread to which the kernel has given the mutex becomes its owner, unless the
\* scheduler prefers other threads (sys_lwmutex.cpp:168, 179, 360).
HeirOwns ==
  \A t \in Thread :
    (setup.fair /\ heir = t)
      ~> (owner = t \/ t \in Range(sched.g_ppu) \ Running(sched))
=============================================================================
