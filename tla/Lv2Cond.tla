------------------------------ MODULE Lv2Cond ------------------------------
(***************************************************************************)
(* sys_cond (rpcs3/Emu/Cell/lv2/sys_cond.cpp) composed with the sys_mutex  *)
(* it is bound to: one lv2_cond and its lv2_mutex, used by PPU threads     *)
(* that lock and unlock the mutex, wait with or without a timeout, signal  *)
(* one, all or a given waiter, destroy the two objects and are stopped to  *)
(* save the state.                                                         *)
(*                                                                         *)
(* A waiter moves from the queue of the condition variable to the mutex:   *)
(* it becomes its owner or joins its queue, and returns as its owner.  The *)
(* steps on the mutex alone are those of Lv2Mutex.                         *)
(***************************************************************************)
EXTENDS Lv2Thread

CONSTANTS
  Setups,      \* the programs of the threads, with the attributes of the mutex
  MaxCount,    \* the limit of lock_count
  InitQueue    \* the run queue at the start

ASSUME MonitorAssumption ==
  /\ \A s \in Setups : /\ s.protocol \in {"FIFO", "PRIORITY"}
                       /\ {s.recursive, s.cond, s.fair} \subseteq BOOLEAN
                       /\ DOMAIN s.role = Thread
  /\ MaxCount \in Nat
  /\ InitQueue \in Seq(Thread)

VARIABLES
  setup, owner, sq, lock_count, mutex, exists, timeout, cpu, holds,   \* as in Lv2Mutex
  csq,         \* lv2_cond::sq, oldest first
  cond_exists, \* the id of the condition variable is in the IDM; cond_count of the mutex
  ret,         \* cond.ret of each waiter: the recursion count it set aside
  todo,        \* waiters that the holder of mutex in signal_all has yet to move
  sel,         \* which signal call each thread is in: "one", "all" or a thread
  lower        \* has_lower_prio_or_is_the_mutex_owner in signal_to

object == <<setup, owner, sq, lock_count, mutex, exists, timeout, cpu, holds>>
cond == <<csq, cond_exists, ret, todo, sel, lower>>
vars == <<sched, pc, object, cond>>

Mutex == INSTANCE Lv2Mutex

Role == setup.role
protocol == setup.protocol

\* Beside the values of Lv2Mutex, pc is
\*   "c_sleep"  queued, the mutex released, about to sleep
\*   "c_loop"   in the wait loop
\*   "c_stop"   it has seen a stop flag
\*   "c_redo"   stopped, with wait to be executed again
\*   "c_check"  it has timed out, in check_state
\*   "c_late"   rescheduled after the timeout
\*   "c_again"  about to sleep again, on the mutex
\*   "c_ret"    past the wait loop
\*   "s_check"  in signal, in test_stopped
\*   "s_stop"   told to stop
\*   "s_look"   about to read csq
\*   "s_lock"   has found waiters
\*   "s_sync"   has found none
\*   "s_move"   moving all waiters
PC == Mutex!PC \cup
      {"c_sleep", "c_loop", "c_stop", "c_redo", "c_check", "c_late", "c_again", "c_ret",
       "s_check", "s_stop", "s_look", "s_lock", "s_sync", "s_move"}

TypeOK ==
  /\ sched \in SchedType
  /\ pc \in [Thread -> PC]
  /\ owner \in Thread \cup {NoThread}
  /\ sq \in Seq(Thread) /\ csq \in Seq(Thread) /\ todo \in Seq(Thread)
  /\ lock_count \in 0..MaxCount
  /\ mutex \in Thread \cup {NoThread}
  /\ exists \in BOOLEAN /\ cond_exists \in BOOLEAN
  /\ timeout \in SUBSET Thread /\ lower \in SUBSET Thread
  /\ cpu \in Thread \cup {NoThread}
  /\ holds \in [Thread -> 0..(MaxCount + 1)]
  /\ ret \in [Thread -> 0..MaxCount]
  /\ sel \in [Thread -> Thread \cup {"one", "all"}]

Init ==
  /\ Mutex!Init
  /\ csq = <<>>
  /\ cond_exists = setup.cond
  /\ ret = [t \in Thread |-> 0]
  /\ todo = <<>>
  /\ sel = [t \in Thread |-> "one"]
  /\ lower = {}

-----------------------------------------------------------------------------
(***************************************************************************)
(* sys_cond_wait                                                           *)
(***************************************************************************)
\* ESRCH, or EPERM: the caller does not own the mutex
WaitRefused(t) ==
  /\ "cwait" \in Role[t]
  /\ ~cond_exists \/ owner # t
  /\ Goto(t, "guest", "check")
  /\ UNCHANGED <<sched, object, cond>>

\* The mutex passes to the waiter reown chooses, or becomes free.
Reown ==
  IF sq = <<>>
  THEN owner' = NoThread /\ cpu' = NoThread /\ UNCHANGED sq
  ELSE /\ owner' = sq[Mutex!Chosen]
       /\ cpu' = sq[Mutex!Chosen]
       /\ sq' = Unlink(sq, Mutex!Chosen)

CanWait(t) ==
  /\ "cwait" \in Role[t]
  /\ cond_exists /\ owner = t
  /\ mutex = NoThread

\* Register the waiter, set the recursion count aside, unlock the mutex.
Wait(t, timed) ==
  /\ CanWait(t)
  /\ sq # <<>> => sq[Mutex!Chosen] \notin sched.again
  /\ Goto(t, "guest", "c_sleep")
  /\ csq' = Append(csq, t)
  /\ ret' = [ret EXCEPT ![t] = lock_count]
  /\ lock_count' = 0
  /\ Reown
  /\ mutex' = t
  /\ timeout' = IF timed THEN timeout \cup {t} ELSE timeout
  /\ holds' = [holds EXCEPT ![t] = 0]
  /\ UNCHANGED <<setup, sched, exists, cond_exists, todo, sel, lower>>

\* The thread to own the mutex next will repeat its call: so will this one.
WaitAgain(t) ==
  /\ CanWait(t)
  /\ sq # <<>> /\ sq[Mutex!Chosen] \in sched.again
  /\ RedoCall(t, "guest", "redo")
  /\ lock_count' = 0
  /\ UNCHANGED <<setup, owner, sq, mutex, exists, timeout, cpu, holds, cond>>

\* "Sleep current thread and schedule mutex waiter"
WaitSleep(t) ==
  /\ Goto(t, "c_sleep", "c_loop")
  /\ \E late \in SUBSET (sched.waiting \cup {t}) :
       sched' = SleepAwaking(sched, t, t \in timeout,
                             IF cpu = NoThread THEN <<>> ELSE <<cpu>>, late)
  /\ mutex' = NoThread
  /\ cpu' = NoThread
  /\ UNCHANGED <<setup, owner, sq, lock_count, exists, timeout, holds, cond>>

WaitSignaled(t) == SeesSignal(t, "c_loop", "c_ret") /\ UNCHANGED <<object, cond>>

WaitStopped(t) == SeesStop(t, "c_loop", "c_stop") /\ UNCHANGED <<object, cond>>

\* Under the lock: a thread in either queue repeats the call after loading.
WaitRedo(t) ==
  /\ mutex = NoThread
  /\ IF t \in Range(csq) \cup Range(sq)
     THEN RedoCall(t, "c_stop", "c_redo")
     ELSE Goto(t, "c_stop", "c_ret") /\ UNCHANGED sched
  /\ UNCHANGED <<object, cond>>

\* wait_timeout returns TRUE
WaitTimeout(t) ==
  /\ t \in timeout
  /\ Goto(t, "c_loop", "c_check")
  /\ UNCHANGED <<sched, object, cond>>

WaitCheck(t) == CheckState(t, "c_check", "c_late", "c_loop") /\ UNCHANGED <<object, cond>>

\* Mutant: a waiter signaled before it could cancel is taken for the owner.
WaitLateReturns(t) ==
  /\ mutex = NoThread
  /\ csq' = Unqueue(csq, t)
  /\ IF t \in Range(csq) /\ owner # NoThread
     THEN Goto(t, "c_late", "c_again") /\ mutex' = t
     ELSE Goto(t, "c_late", "c_ret") /\ UNCHANGED mutex
  /\ owner' = IF t \in Range(csq) /\ owner = NoThread THEN t ELSE owner
  /\ sq' = IF t \in Range(csq) /\ owner # NoThread THEN Append(sq, t) ELSE sq
  /\ timeout' = timeout \ {t}
  /\ UNCHANGED <<setup, sched, lock_count, exists, cpu, holds, cond_exists, ret, todo, sel, lower>>

\* "Try to cancel the waiting", "Own or requeue"
WaitLate(t) ==
  LET cancelled == t \in Range(csq)
  IN  /\ mutex = NoThread
      /\ csq' = Unqueue(csq, t)
      /\ owner' = IF cancelled /\ owner = NoThread THEN t ELSE owner
      /\ sq' = IF cancelled /\ owner # NoThread THEN Append(sq, t) ELSE sq
      /\ IF owner' = t
         THEN Goto(t, "c_late", "c_ret") /\ UNCHANGED mutex
         ELSE Goto(t, "c_late", "c_again") /\ mutex' = t
      /\ timeout' = timeout \ {t}
      /\ UNCHANGED <<setup, sched, lock_count, exists, cpu, holds, cond_exists, ret, todo, sel, lower>>

\* mutex->sleep, without a timeout
WaitResleep(t) ==
  /\ Goto(t, "c_again", "c_loop")
  /\ \E late \in SUBSET sched.waiting : sched' = Sleep(sched, t, FALSE, late)
  /\ mutex' = NoThread
  /\ UNCHANGED <<setup, owner, sq, lock_count, exists, timeout, cpu, holds, cond>>

\* "Restore the recursive value"
WaitReturn(t) ==
  /\ Goto(t, "c_ret", "check")
  /\ lock_count' = ret[t]
  /\ holds' = [holds EXCEPT ![t] = ret[t] + 1]
  /\ ret' = [ret EXCEPT ![t] = 0]
  /\ timeout' = timeout \ {t}
  /\ UNCHANGED <<setup, sched, owner, sq, mutex, exists, cpu, csq, cond_exists, todo, sel, lower>>

(***************************************************************************)
(* sys_cond_signal, sys_cond_signal_all, sys_cond_signal_to                *)
(***************************************************************************)
Signal(t, which) ==
  /\ "signal" \in Role[t]
  /\ Goto(t, "guest", "s_check")
  /\ sel' = [sel EXCEPT ![t] = which]
  /\ UNCHANGED <<sched, object, csq, cond_exists, ret, todo, lower>>

\* test_stopped; a thread told to stop repeats the call
SignalTest(t) == CheckState(t, "s_check", "s_look", "s_stop") /\ UNCHANGED <<object, cond>>

SignalCut(t) == RedoCall(t, "s_stop", "redo") /\ UNCHANGED <<object, cond>>

\* The end of a signal call, and its locals.
Done(t) == sel' = [sel EXCEPT ![t] = "one"] /\ lower' = lower \ {t}

\* idm::check finds the object and reads its queue, or the call fails with ESRCH.
SignalLook(t) ==
  /\ Goto(t, "s_look", IF ~cond_exists THEN "check"
                       ELSE IF csq = <<>> THEN "s_sync" ELSE "s_lock")
  /\ IF cond_exists
     THEN /\ lower' = IF /\ sel[t] \in Thread /\ owner # t
                         /\ owner = sel[t] \/ sched.prio[sel[t]] < sched.prio[t]
                      THEN lower \cup {t} ELSE lower
          /\ UNCHANGED sel
     ELSE Done(t)
  /\ UNCHANGED <<sched, object, csq, cond_exists, ret, todo>>

\* Nobody to signal: signal_to fails, or tries again for a time.
Nobody(t) ==
  IF sel[t] \in Thread /\ t \in lower
  THEN {"check", "s_check"} ELSE {"check"}

\* mutex.lock_unlock(); a thread that has been suspended meanwhile starts again
SignalSync(t) ==
  /\ mutex = NoThread
  /\ \E next \in IF t \in sched.suspend THEN {"s_check"} ELSE Nobody(t) :
       /\ Goto(t, "s_sync", next)
       /\ IF next = "check" THEN Done(t) ELSE UNCHANGED <<sel, lower>>
  /\ UNCHANGED <<sched, object, csq, cond_exists, ret, todo>>

\* Likewise under the lock: "in which case it needs to wait until the thread wakes up"
SignalSuspended(t) ==
  /\ mutex = NoThread
  /\ t \in sched.suspend
  /\ Goto(t, "s_lock", "s_check")
  /\ UNCHANGED <<sched, object, cond>>

\* The waiters a signal call is for, and the first of them to be moved.
Targets(t) ==
  CASE sel[t] = "all" -> Range(csq)
    [] sel[t] = "one" -> IF csq = <<>> THEN {} ELSE {csq[ScheduleIndex(sched, csq, protocol)]}
    [] OTHER          -> {sel[t]} \cap Range(csq)

\* The waiters in the order signal_all moves them.
ByPriority(q) ==
  LET order[s \in {SelectSeq(q, LAMBDA u : u \in S) : S \in SUBSET Range(q)}] ==
        IF s = <<>> THEN <<>>
        ELSE LET i == ScheduleIndex(sched, s, "PRIORITY")
             IN  <<s[i]>> \o order[Unlink(s, i)]
  IN  order[q]

CanSignal(t) == mutex = NoThread /\ t \notin sched.suspend

\* One of the waiters will repeat its wait: so will this call.
SignalAgain(t) ==
  /\ CanSignal(t)
  /\ Targets(t) \cap sched.again # {}
  /\ RedoCall(t, "s_lock", "redo")
  /\ UNCHANGED <<object, cond>>

\* Nobody to move after all.
SignalNone(t) ==
  /\ CanSignal(t)
  /\ Targets(t) = {}
  /\ \E next \in Nobody(t) :
       /\ Goto(t, "s_lock", next)
       /\ IF next = "check" THEN Done(t) ELSE UNCHANGED <<sel, lower>>
  /\ UNCHANGED <<sched, object, csq, cond_exists, ret, todo>>

\* Mutant: the waiters stay on the queue of the condition variable.
SignalTakeCopies(t) ==
  /\ CanSignal(t)
  /\ Targets(t) # {} /\ Targets(t) \cap sched.again = {}
  /\ Goto(t, "s_lock", "s_move")
  /\ todo' = ByPriority(SelectSeq(csq, LAMBDA u : u \in Targets(t)))
  /\ mutex' = t
  /\ Done(t)
  /\ UNCHANGED <<setup, sched, owner, sq, lock_count, exists, timeout, cpu, holds, csq, cond_exists, ret>>

\* Take them off the queue.
SignalTake(t) ==
  /\ CanSignal(t)
  /\ Targets(t) # {} /\ Targets(t) \cap sched.again = {}
  /\ Goto(t, "s_lock", "s_move")
  /\ todo' = ByPriority(SelectSeq(csq, LAMBDA u : u \in Targets(t)))
  /\ csq' = SelectSeq(csq, LAMBDA u : u \notin Targets(t))
  /\ mutex' = t
  /\ Done(t)
  /\ UNCHANGED <<setup, sched, owner, sq, lock_count, exists, timeout, cpu, holds, cond_exists, ret>>

\* Mutant: a store that does not see who owns the mutex.
MoveStores(t) ==
  /\ pc[t] = "s_move" /\ todo # <<>>
  /\ todo' = Tail(todo)
  /\ owner' = Head(todo)
  /\ cpu' = Head(todo)
  /\ UNCHANGED <<setup, sched, pc, sq, lock_count, mutex, exists, timeout, holds, csq, cond_exists,
                 ret, sel, lower>>

\* try_own: the waiter becomes the owner of the mutex, or queues on it
SignalMove(t) ==
  /\ pc[t] = "s_move" /\ todo # <<>>
  /\ todo' = Tail(todo)
  /\ IF owner = NoThread
     THEN owner' = Head(todo) /\ cpu' = Head(todo) /\ UNCHANGED sq
     ELSE sq' = Append(sq, Head(todo)) /\ UNCHANGED <<owner, cpu>>
  /\ UNCHANGED <<setup, sched, pc, lock_count, mutex, exists, timeout, holds, csq, cond_exists,
                 ret, sel, lower>>

\* Mutant: the new owner is not awoken.
SignalForgetsAwake(t) ==
  /\ todo = <<>>
  /\ Goto(t, "s_move", "check")
  /\ mutex' = NoThread
  /\ cpu' = NoThread
  /\ UNCHANGED <<setup, sched, owner, sq, lock_count, exists, timeout, holds, cond>>

\* awake(result), unlock
SignalAwake(t) ==
  /\ todo = <<>>
  /\ Goto(t, "s_move", "check")
  /\ IF cpu = NoThread THEN UNCHANGED sched
     ELSE \E late \in SUBSET sched.waiting : sched' = Awake(sched, t, cpu, late)
  /\ mutex' = NoThread
  /\ cpu' = NoThread
  /\ UNCHANGED <<setup, owner, sq, lock_count, exists, timeout, holds, cond>>

(***************************************************************************)
(* sys_cond_destroy, sys_mutex_destroy                                     *)
(***************************************************************************)
\* Calls that hold the IDM lock shared; withdraw needs it exclusively.
InIdm(t) ==
  pc[t] \in {"l_cas", "t_cas", "l_own", "l_sleep", "u_cas", "u_lock", "u_awake",
             "c_sleep", "s_lock", "s_sync", "s_move"}

Destroy(t) ==
  /\ "destroy" \in Role[t]
  /\ Goto(t, "guest", "check")
  /\ mutex = NoThread
  /\ \A u \in Thread : ~InIdm(u)
  /\ cond_exists' = (cond_exists /\ csq # <<>>)
  /\ UNCHANGED <<sched, object, csq, ret, todo, sel, lower>>

\* EBUSY with an owner, EPERM while cond_count is not zero
DestroyMutex(t) ==
  /\ "destroy" \in Role[t]
  /\ Goto(t, "guest", "check")
  /\ mutex = NoThread
  /\ \A u \in Thread : ~InIdm(u)
  /\ exists' = (exists /\ (owner # NoThread \/ cond_exists))
  /\ UNCHANGED <<setup, sched, owner, sq, lock_count, mutex, timeout, cpu, holds, cond>>

-----------------------------------------------------------------------------
WaitStep(t) ==
  \/ WaitSleep(t) \/ WaitSignaled(t) \/ WaitStopped(t) \/ WaitRedo(t) \/ WaitTimeout(t)
  \/ WaitCheck(t) \/ WaitLate(t) \/ WaitResleep(t) \/ WaitReturn(t)

SignalStep(t) ==
  \/ SignalTest(t) \/ SignalCut(t) \/ SignalLook(t) \/ SignalSync(t)
  \/ SignalSuspended(t) \/ SignalAgain(t) \/ SignalNone(t) \/ SignalTake(t)
  \/ SignalMove(t) \/ SignalAwake(t)

\* The steps on the mutex alone, and those common to all calls.
MutexStep(t) ==
  /\ Mutex!LockStep(t) \/ Mutex!UnlockStep(t) \/ Mutex!ThreadStep(t)
  /\ UNCHANGED cond

Call(t) ==
  \/ /\ \/ Mutex!TryLockOwned(t)
        \/ \E timed \in {FALSE, "timed" \in Role[t]} : Mutex!Lock(t, timed)
        \/ Mutex!TryLock(t)
        \/ Mutex!Unlock(t)
     /\ UNCHANGED cond
  \/ WaitRefused(t)
  \/ \E timed \in {FALSE, "timed" \in Role[t]} : Wait(t, timed)
  \/ WaitAgain(t)
  \/ \E which \in {"one", "all"} \cup (Thread \ {t}) : Signal(t, which)
  \/ Destroy(t)
  \/ DestroyMutex(t)
  \/ "usleep" \in Role[t] /\ Usleep(t) /\ UNCHANGED <<object, cond>>
  \/ "exit" \in Role[t] /\ Exit(t) /\ UNCHANGED <<object, cond>>
  \/ "stop" \in Role[t] /\ Stop(t) /\ UNCHANGED <<object, cond>>

Next == \E t \in Thread : Call(t) \/ WaitStep(t) \/ SignalStep(t) \/ MutexStep(t)

\* The host runs every thread; nobody is obliged to make system calls, and no
\* thread is obliged to stop.
Fairness ==
  \A t \in Thread :
    WF_vars(setup.fair /\ (WaitStep(t) \/ SignalStep(t) \/ MutexStep(t)))

Spec == Init /\ [][Next]_vars /\ Fairness
-----------------------------------------------------------------------------
(***************************************************************************)
(* Properties                                                              *)
(***************************************************************************)
\* "Verify ownership" (sys_cond.cpp:610): however signals, timeouts and unlocks
\* race, a thread leaves the wait loop only as the owner of the mutex, with no
\* recursion counted yet and queued nowhere.
WaitReturnsOwner ==
  \A t \in Thread : pc[t] = "c_ret" =>
    /\ owner = t /\ lock_count = 0
    /\ t \notin Range(sq) \cup Range(csq) \cup Range(todo)

\* The mutex is held as often as the guest has locked it, also after a wait that
\* has set the recursion count aside and restored it (sys_cond.cpp:475, 614).
HeldIsOwned == Mutex!HeldIsOwned

\* A waiter is in exactly one place until it owns the mutex: the queue of the
\* condition variable, the list of a signal_all, or the queue of the mutex.  None
\* is lost or queued twice when a signal meets its timeout (sys_cond.cpp:377, 582).
Waiting == {"c_sleep", "c_loop", "c_stop", "c_redo", "c_check", "c_late", "c_again"}

WaiterInOnePlace ==
  \A t \in Thread :
    LET places == SelectSeq(csq \o todo \o sq, LAMBDA u : u = t)
    IN  /\ Len(places) <= 1
        /\ t \in Range(csq \o todo) => pc[t] \in Waiting
        /\ pc[t] \in Waiting => (places = <<>>) = (owner = t)

\* Only one of the waiters that signal_all moves can become the owner:
\* ensure(!std::exchange(result, cpu)) at sys_cond.cpp:280 holds, and the thread to
\* awake is the owner of the mutex.
AwokenIsOwner == cpu # NoThread => owner = cpu

\* The mutex outlives its waiters: destroy refuses as long as somebody is on the way
\* back to owning it (cond_count, sys_mutex.cpp:121; sys_cond.cpp:132).
MutexOutlivesWaiters ==
  /\ ~cond_exists => csq = <<>>
  /\ ~exists => /\ ~cond_exists /\ owner = NoThread /\ sq = <<>>
                /\ \A t \in Thread : pc[t] \notin Waiting \cup {"c_ret"}

\* While the threads are being stopped to save the state, no signal and no unlock
\* passes the mutex to a waiter that will repeat its call: it stays in the queue
\* its saved state names (sys_cond.cpp:193, 265, 371, 551).
RedoStaysQueued ==
  \A t \in Thread : pc[t] = "c_redo" =>
    owner # t /\ t \in Range(csq) \cup Range(sq)

\* What the calls on the condition variable and on the mutex rely on beside that,
\* as long as no thread is told to stop after its call has timed out.
CallsSound ==
  /\ HeldIsOwned /\ WaiterInOnePlace /\ AwokenIsOwner /\ MutexOutlivesWaiters /\ RedoStaysQueued
  /\ Mutex!CallsSound /\ GuestCanSleep /\ UsleepUndisturbed

\* A thread that is to repeat sys_cond_wait from its start still holds the mutex as
\* often as it did: "Save the recursive value" (sys_cond.cpp:492).
RedoKeepsRecursion ==
  \A t \in Thread : pc[t] = "redo" /\ holds[t] > 0 => lock_count = holds[t] - 1

\* Together they implement a monitor.
Abstract == INSTANCE Monitor WITH
  holder <- owner, depth <- lock_count, waiting <- Range(sq),
  cwait <- Range(csq) \cup Range(todo), aside <- ret,
  inside <- {t \in Thread : pc[t] \in Waiting \cup {"c_ret"}}

ImplementsMonitor == Abstract!Spec

\* A waiter that a signal or an unlock has made the owner returns from wait or lock,
\* unless the scheduler prefers other threads: its wake-up is not lost between the
\* hand-over and its sleep (sys_cond.cpp:416; sys_mutex.cpp:176, 253).
OwnerReturns ==
  \A t \in Thread :
    (setup.fair /\ owner = t /\ holds[t] = 0)
      ~> (holds[t] > 0 \/ owner # t \/ t \in Range(sched.g_ppu) \ Running(sched))
=============================================================================
