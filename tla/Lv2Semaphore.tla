---------------------------- MODULE Lv2Semaphore ----------------------------
(***************************************************************************)
(* sys_semaphore (rpcs3/Emu/Cell/lv2/sys_semaphore.cpp): one lv2_sema used *)
(* by PPU threads that wait with or without a timeout, poll, post, destroy *)
(* it, sleep for a time, are suspended and resumed by the scheduler and    *)
(* are stopped to save the state.                                          *)
(*                                                                         *)
(* A step is what the code does between two points where another thread    *)
(* can see the difference: an access to the atomic val, a section under    *)
(* lv2_sema::mutex up to the next access to val or call of the scheduler,  *)
(* a call of the scheduler.                                                *)
(***************************************************************************)
EXTENDS Lv2Thread

CONSTANTS
  Setups,      \* the programs of the threads, with the attributes of the semaphore
  MaxVal,      \* lv2_sema::max
  InitVal,     \* initial_val
  Counts,      \* the counts posted
  InitQueue    \* the run queue at the start

ASSUME SemaAssumption ==
  /\ \A s \in Setups : /\ s.protocol \in {"FIFO", "PRIORITY"}
                       /\ DOMAIN s.role = Thread
                       /\ StartsOrdered(StartQueue(InitQueue, s.role), s.role, InitPrio)
  /\ MaxVal \in Nat \ {0}
  /\ InitVal \in 0..MaxVal
  /\ Counts \subseteq Int
  /\ InitQueue \in Seq(Thread)

VARIABLES
  setup,       \* the member of Setups this behaviour has: it never changes
  val,         \* lv2_sema::val: free tokens, or minus the number of waiters
  sq,          \* lv2_sema::sq, oldest first
  mutex,       \* holder of lv2_sema::mutex
  exists,      \* the id is in the IDM
  seen,        \* val as read before the compare-and-swap
  timeout,     \* threads whose wait has a timeout
  count,       \* argument of post
  to_awake,    \* threads the holder in post has still to pop
  g_to_awake   \* threads it has popped

sema == <<setup, val, sq, mutex, exists, seen, timeout, count, to_awake, g_to_awake>>
vars == <<sched, pc, sema>>

Role == setup.role             \* the operations each thread calls
protocol == setup.protocol     \* lv2_sema::protocol

\* Beside the values of Lv2Thread, pc is
\*   "w_cas", "w_lock", "w_sleep"  in wait, under the IDM lock
\*   "w_loop"    in the wait loop
\*   "w_stop"    it has seen a stop flag
\*   "w_redo"    stopped, with wait to be executed again
\*   "w_check"   it has timed out, in check_state
\*   "w_unq"     about to leave the queue
\*   "p_cas"     in post, under the IDM lock
\*   "p_lock"    in post, about to lock
\*   "p_pop"     popping waiters
\*   "p_awake"   about to awake them
PC == {"guest", "check", "usleep", "stopped", "redo", "exited",
       "w_cas", "w_lock", "w_sleep", "w_loop", "w_stop", "w_redo", "w_check", "w_unq",
       "p_cas", "p_lock", "p_pop", "p_awake"}

TypeOK ==
  /\ sched \in SchedType
  /\ pc \in [Thread -> PC]
  /\ setup \in Setups
  /\ val \in Int
  /\ sq \in Seq(Thread)
  /\ mutex \in Thread \cup {NoThread}
  /\ exists \in BOOLEAN
  /\ seen \in [Thread -> Int]
  /\ timeout \in SUBSET Thread
  /\ count \in [Thread -> Int]
  /\ to_awake \in Nat
  /\ g_to_awake \in Seq(Thread)

Init ==
  /\ setup \in Setups
  /\ sched = InitSched(StartQueue(InitQueue, Role))
  /\ pc = StartPc(sched, Role)
  /\ val = InitVal
  /\ sq = <<>>
  /\ mutex = NoThread
  /\ exists = TRUE
  /\ seen = [t \in Thread |-> 0]
  /\ timeout = {}
  /\ count = [t \in Thread |-> 0]
  /\ to_awake = 0
  /\ g_to_awake = <<>>

-----------------------------------------------------------------------------
(***************************************************************************)
(* sys_semaphore_wait                                                      *)
(***************************************************************************)
\* idm::get finds the object and reads val, or the call fails with ESRCH.
Wait(t, timed) ==
  /\ "wait" \in Role[t]
  /\ Goto(t, "guest", IF exists THEN "w_cas" ELSE "check")
  /\ seen' = [seen EXCEPT ![t] = IF exists THEN val ELSE 0]
  /\ timeout' = IF timed /\ exists THEN timeout \cup {t} ELSE timeout
  /\ UNCHANGED <<setup, sched, val, sq, mutex, exists, count, to_awake, g_to_awake>>

\* The return from wait: its locals are gone.
Return(t) == seen' = [seen EXCEPT ![t] = 0] /\ timeout' = timeout \ {t}

\* Mutant: a load and a store instead of the compare-and-swap.
WaitStore(t) ==
  /\ IF seen[t] > 0
     THEN /\ Goto(t, "w_cas", "check")
          /\ val' = seen[t] - 1
          /\ Return(t)
     ELSE /\ Goto(t, "w_cas", "w_lock")
          /\ seen' = [seen EXCEPT ![t] = 0]
          /\ UNCHANGED <<val, timeout>>
  /\ UNCHANGED <<setup, sched, sq, mutex, exists, count, to_awake, g_to_awake>>

\* compare_and_swap_test(val, val - 1)
WaitCas(t) ==
  /\ IF seen[t] > 0 /\ val = seen[t]
     THEN /\ Goto(t, "w_cas", "check")
          /\ val' = val - 1
          /\ Return(t)
     ELSE /\ Goto(t, "w_cas", "w_lock")
          /\ seen' = [seen EXCEPT ![t] = 0]
          /\ UNCHANGED <<val, timeout>>
  /\ UNCHANGED <<setup, sched, sq, mutex, exists, count, to_awake, g_to_awake>>

\* The lock is taken; val-- decides.
WaitLock(t) ==
  /\ mutex = NoThread
  /\ val' = val - 1
  /\ IF val <= 0
     THEN /\ Goto(t, "w_lock", "w_sleep")
          /\ mutex' = t
          /\ UNCHANGED <<seen, timeout>>
     ELSE /\ Goto(t, "w_lock", "check")
          /\ Return(t)
          /\ UNCHANGED mutex
  /\ UNCHANGED <<setup, sched, sq, exists, count, to_awake, g_to_awake>>

\* sleep, emplace, unlock
WaitSleep(t) ==
  /\ Goto(t, "w_sleep", "w_loop")
  /\ \E late \in SUBSET (sched.waiting \cup {t}) :
       sched' = Sleep(sched, t, t \in timeout, late)
  /\ sq' = Append(sq, t)
  /\ mutex' = NoThread
  /\ UNCHANGED <<setup, val, exists, seen, timeout, count, to_awake, g_to_awake>>

\* The wait loop sees signal.
WaitSignaled(t) ==
  /\ t \in sched.signal
  /\ Goto(t, "w_loop", "check")
  /\ sched' = [sched EXCEPT !.signal = @ \ {t}]
  /\ Return(t)
  /\ UNCHANGED <<setup, val, sq, mutex, exists, count, to_awake, g_to_awake>>

\* The wait loop sees a stop flag and no signal.
WaitStopped(t) ==
  /\ Stopped(sched, t) /\ t \notin sched.signal
  /\ Goto(t, "w_loop", "w_stop")
  /\ UNCHANGED <<sched, sema>>

\* Under the lock: a thread still queued is to repeat the call after loading, one
\* that is not has been granted its token.
WaitAgain(t) ==
  /\ mutex = NoThread
  /\ IF t \in Range(sq)
     THEN /\ Goto(t, "w_stop", "w_redo")
          /\ sched' = [sched EXCEPT !.again = @ \cup {t}]
          /\ UNCHANGED <<seen, timeout>>
     ELSE /\ Goto(t, "w_stop", "check")
          /\ Return(t)
          /\ UNCHANGED sched
  /\ UNCHANGED <<setup, val, sq, mutex, exists, count, to_awake, g_to_awake>>

\* wait_timeout returns TRUE
WaitTimeout(t) ==
  /\ t \in timeout
  /\ Goto(t, "w_loop", "w_check")
  /\ UNCHANGED <<sched, sema>>

\* "Wait for rescheduling"
WaitCheck(t) == CheckState(t, "w_check", "w_unq", "w_loop") /\ UNCHANGED sema

\* Mutant: the -1 of the waiter that gives up stays in val.
UnqueueKeepsValue(t) ==
  /\ mutex = NoThread
  /\ Goto(t, "w_unq", "check")
  /\ sq' = Unqueue(sq, t)
  /\ Return(t)
  /\ UNCHANGED <<setup, sched, val, mutex, exists, count, to_awake, g_to_awake>>

\* Under the lock: leave the queue with ETIMEDOUT, or find that a post was first.
WaitUnqueue(t) ==
  /\ mutex = NoThread
  /\ Goto(t, "w_unq", "check")
  /\ sq' = Unqueue(sq, t)
  /\ val' = IF t \in Range(sq) /\ val < 0 THEN val + 1 ELSE val
  /\ Return(t)
  /\ UNCHANGED <<setup, sched, mutex, exists, count, to_awake, g_to_awake>>

-----------------------------------------------------------------------------
\* sys_semaphore_trywait: try_dec(0)
TryWait(t) ==
  /\ "trywait" \in Role[t]
  /\ Goto(t, "guest", "check")
  /\ val' = IF exists /\ val > 0 THEN val - 1 ELSE val
  /\ UNCHANGED <<setup, sched, sq, mutex, exists, seen, timeout, count, to_awake, g_to_awake>>

(***************************************************************************)
(* sys_semaphore_post                                                      *)
(***************************************************************************)
Post(t, n) ==
  /\ "post" \in Role[t]
  /\ Goto(t, "guest", IF exists THEN "p_cas" ELSE "check")
  /\ seen' = [seen EXCEPT ![t] = IF exists THEN val ELSE 0]
  /\ count' = [count EXCEPT ![t] = IF exists THEN n ELSE 0]
  /\ UNCHANGED <<setup, sched, val, sq, mutex, exists, timeout, to_awake, g_to_awake>>

\* compare_and_swap_test(val, val + count); a count <= 0 is EINVAL
PostCas(t) ==
  LET n == count[t]
      fast == seen[t] >= 0 /\ n > 0 /\ n <= MaxVal - seen[t] /\ val = seen[t]
  IN  /\ Goto(t, "p_cas", IF fast \/ n <= 0 THEN "check" ELSE "p_lock")
      /\ val' = IF fast THEN val + n ELSE val
      /\ seen' = [seen EXCEPT ![t] = 0]
      /\ count' = [count EXCEPT ![t] = IF fast \/ n <= 0 THEN 0 ELSE n]
      /\ UNCHANGED <<setup, sched, sq, mutex, exists, timeout, to_awake, g_to_awake>>

\* A waiter that is to repeat its call after loading: so must this post.
PostAgain(t) ==
  /\ mutex = NoThread
  /\ Range(sq) \cap sched.again # {}
  /\ Goto(t, "p_lock", "redo")
  /\ sched' = [sched EXCEPT !.again = @ \cup {t}]
  /\ count' = [count EXCEPT ![t] = 0]
  /\ UNCHANGED <<setup, val, sq, mutex, exists, seen, timeout, to_awake, g_to_awake>>

\* The lock is taken and val raised; EBUSY if it would exceed max.
PostLock(t) ==
  LET n == count[t]
      waiters == IF val < 0 THEN -val ELSE 0
      pops == IF waiters < n THEN waiters ELSE n
      ok == n <= MaxVal - val
  IN  /\ mutex = NoThread
      /\ Range(sq) \cap sched.again = {}
      /\ Goto(t, "p_lock", IF ok /\ pops > 0 THEN "p_pop" ELSE "check")
      /\ val' = IF ok THEN val + n ELSE val
      /\ to_awake' = IF ok THEN pops ELSE 0
      /\ mutex' = IF ok /\ pops > 0 THEN t ELSE NoThread
      /\ count' = [count EXCEPT ![t] = 0]
      /\ UNCHANGED <<setup, sched, sq, exists, seen, timeout, g_to_awake>>

\* Mutant: another node than the one found is unlinked.
PopUnlinksLast(t) ==
  /\ sq # <<>>
  /\ sq' = Unlink(sq, Len(sq))
  /\ g_to_awake' = Append(g_to_awake, sq[ScheduleIndex(sched, sq, protocol)])
  /\ to_awake' = to_awake - 1
  /\ Goto(t, "p_pop", IF to_awake = 1 THEN "p_awake" ELSE "p_pop")
  /\ UNCHANGED <<setup, sched, val, mutex, exists, seen, timeout, count>>

\* append(ensure(schedule(sq, protocol)))
PostPop(t) ==
  /\ sq # <<>>
  /\ LET i == ScheduleIndex(sched, sq, protocol)
     IN  /\ sq' = Unlink(sq, i)
         /\ g_to_awake' = Append(g_to_awake, sq[i])
  /\ to_awake' = to_awake - 1
  /\ Goto(t, "p_pop", IF to_awake = 1 THEN "p_awake" ELSE "p_pop")
  /\ UNCHANGED <<setup, sched, val, mutex, exists, seen, timeout, count>>

\* Mutant: the popped threads are not awoken.
PostForgetsAwake(t) ==
  /\ Goto(t, "p_awake", "check")
  /\ g_to_awake' = <<>>
  /\ mutex' = NoThread
  /\ UNCHANGED <<setup, sched, val, sq, exists, seen, timeout, count, to_awake>>

\* awake_all, unlock
PostAwake(t) ==
  /\ Goto(t, "p_awake", "check")
  /\ \E late \in SUBSET sched.waiting :
       sched' = AwakeAll(sched, t, g_to_awake, late)
  /\ g_to_awake' = <<>>
  /\ mutex' = NoThread
  /\ UNCHANGED <<setup, val, sq, exists, seen, timeout, count, to_awake>>

\* sys_semaphore_destroy: idm::withdraw holds the IDM lock exclusively
Destroy(t) ==
  /\ "destroy" \in Role[t]
  /\ Goto(t, "guest", "check")
  /\ \A u \in Thread : pc[u] \notin {"w_cas", "w_lock", "w_sleep", "p_cas"}
  /\ exists' = (exists /\ val < 0)
  /\ UNCHANGED <<setup, sched, val, sq, mutex, seen, timeout, count, to_awake, g_to_awake>>

-----------------------------------------------------------------------------
WaitStep(t) ==
  \/ WaitCas(t) \/ WaitLock(t) \/ WaitSleep(t) \/ WaitSignaled(t)
  \/ WaitStopped(t) \/ WaitAgain(t) \/ WaitTimeout(t) \/ WaitCheck(t)
  \/ WaitUnqueue(t)

PostStep(t) ==
  PostCas(t) \/ PostAgain(t) \/ PostLock(t) \/ PostPop(t) \/ PostAwake(t)

\* Steps common to all system calls.
ThreadStep(t) ==
  /\ \/ Poll(t) \/ CheckState(t, "check", "guest", "stopped") \/ Requeue(t)
     \/ UsleepElapsed(t) \/ UsleepCut(t)
  /\ UNCHANGED sema

Call(t) ==
  \/ \E timed \in {FALSE, "timed" \in Role[t]} : Wait(t, timed)
  \/ TryWait(t)
  \/ \E n \in Counts : Post(t, n)
  \/ Destroy(t)
  \/ "usleep" \in Role[t] /\ Usleep(t) /\ UNCHANGED sema
  \/ "exit" \in Role[t] /\ Exit(t) /\ UNCHANGED sema
  \/ "stop" \in Role[t] /\ Stop(t) /\ UNCHANGED sema

Next == \E t \in Thread : Call(t) \/ WaitStep(t) \/ PostStep(t) \/ ThreadStep(t)

\* The host runs every thread; nobody is obliged to make system calls, and no
\* thread is obliged to stop.  Only the setups for liveness need it.
Fairness ==
  \A t \in Thread :
    WF_vars(setup.fair /\ (ThreadStep(t) \/ WaitStep(t) \/ PostStep(t)))

Spec == Init /\ [][Next]_vars /\ Fairness
-----------------------------------------------------------------------------
(***************************************************************************)
(* Properties                                                              *)
(***************************************************************************)
\* The waiters: queued, or counted in val and about to be queued.
Waiters == Range(sq) \cup {t \in Thread : pc[t] = "w_sleep"}

\* val, which fast paths change without the lock, and the queue, which is only
\* changed under it, never drift apart: a negative val is exactly the number of
\* waiters that no post has been counted for (sys_semaphore.cpp:138, 212, 307).
QueueMatchesValue ==
  Cardinality(Waiters) = to_awake + (IF val < 0 THEN -val ELSE 0)

\* What the calls rely on beside it:
\*   the ensure calls hold: schedule finds a waiter for every count handed over
\*   (line 328), and a waiter that times out still has its -1 in val (line 212);
\*   a waiter not told to stop leaves the wait loop by a signal only when a post has
\*   popped it, never by the signal of a scheduler round (line 162);
\*   nobody waits on a semaphore that destroy has withdrawn, but those a post in
\*   progress is about to pop (line 89);
\*   a thread that will call wait again after loading is still queued: no post made
\*   while the threads are being stopped hands it a token (lines 175, 298).
CallsSound ==
  /\ ~exists => Cardinality(Waiters) = to_awake
  /\ \A t \in Thread :
       /\ pc[t] = "p_pop" => Len(sq) >= to_awake /\ to_awake > 0
       /\ pc[t] = "w_unq" /\ mutex = NoThread /\ t \in Range(sq) => val < 0
       /\ pc[t] = "w_loop" /\ t \in sched.signal \ sched.stop => t \notin Range(sq)
       /\ pc[t] = "w_redo" => t \in Range(sq) /\ t \in sched.again
  /\ UsleepUndisturbed /\ GuestCanSleep

\* When every thread has stopped, a waiter still queued has cpu_flag::again
\* ("Thread must complete the syscall after deserialization", CPUThread.h:23):
\* the saved max(val, 0) drops the queue, so a waiter that is not to call wait
\* again would continue without a token.
SaveExact ==
  (\A t \in Thread : pc[t] \in {"stopped", "redo", "w_redo", "exited"})
    => Range(sq) \subseteq sched.again

\* The semaphore implements the counting semaphore with hand-over.
Abstract == INSTANCE Semaphore WITH
  tokens <- IF val > 0 THEN val ELSE 0, waiting <- Waiters, owed <- to_awake

ImplementsSemaphore == Abstract!Spec

\* A waiter that a post has popped returns from wait, unless the scheduler prefers
\* other threads: its wake-up is not lost between the unlock, the awake and the
\* wait on its flags (lines 162-201, 333).
GrantedReturns ==
  \A t \in Thread :
    (setup.fair /\ pc[t] \in {"w_loop", "w_check", "w_unq"} /\ t \notin Range(sq))
      ~> (\/ pc[t] \in {"check", "guest"}
          \/ t \in Range(sched.g_ppu) \ Running(sched))
=============================================================================
